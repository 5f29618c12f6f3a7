---------------------------- MODULE ChannelTable ----------------------------
(***************************************************************************)
(* How daemon/chan.c finds a slot of the channel table, index by index:    *)
(* the searches begin where a static last_indx says and go round.  Channel *)
(* takes any slot that is free; this module shows that it may.             *)
(***************************************************************************)
EXTENDS Integers, Sequences, FiniteSetsExt

CONSTANTS
  AllocSet,   \* ALLOC_SET, channels the table grows by
  MaxMade,    \* bound: channels ever made
  MaxClosed   \* bound: clients closed and not yet used again

ASSUME TableAssumption ==
  /\ AllocSet \in Nat \ {0}
  /\ MaxMade \in Nat /\ MaxClosed \in Nat

VARIABLES
  chanlen,    \* slots the table has
  table,      \* slot -> "NONE", or the state of the channel made there
  mk_last,    \* mk_chan()'s last_indx
  find_last   \* find_chan()'s last_indx

vars == <<chanlen, table, mk_last, find_last>>

NULL == -1   \* no slot

Slots(s) == {i \in DOMAIN table : table[i] = s}
MadeSlots == DOMAIN table \ Slots("NONE")

\* The steps at which a search from last over a table of len slots comes to a
\* slot of the set S.
hits(S, steps, last, len) == {i \in steps : (i + last) % len \in S}

-----------------------------------------------------------------------------
\* alloc_chan(): the table made longer, its new slots unused.
alloc_chan(len) == [i \in 0 .. len - 1 |-> IF i < chanlen THEN table[i] ELSE "NONE"]

\* mutant: only half of the set is added
grown_len_half == chanlen + AllocSet \div 2

grown_len == chanlen + AllocSet

\* mk_chan(): search the table; when no slot is unused, make it longer and
\* search as many steps as were added.  last_indx is set from the step, not
\* from the slot that was found.
mk_chan ==
  LET full  == Slots("NONE") = {}
      len   == IF full THEN grown_len ELSE chanlen
      tab   == alloc_chan(len)
      steps == IF full THEN chanlen .. len - 1 ELSE 0 .. len - 1
      found == hits({i \in DOMAIN tab : tab[i] = "NONE"}, steps, mk_last, len)
      slot  == IF found = {} THEN NULL ELSE (Min(found) + mk_last) % len
  IN /\ chanlen' = len
     /\ table' = [i \in DOMAIN tab |-> IF i = slot THEN "OPEN" ELSE tab[i]]
     /\ mk_last' = IF found = {} THEN (mk_last + 1) % len ELSE (Min(found) + 1) % len

\* mutant: the search of find_chan() stops one slot early
find_steps_short == 0 .. chanlen - 2

find_steps == 0 .. chanlen - 1

\* mk_open_client(), and mk_open_chaos() and mk_open_listener() at the start:
\* find_chan() for a closed channel, then for one only made (there is never
\* one: what mk_chan() makes is opened at once), then mk_chan().
mk_open ==
  LET found == hits(Slots("CLOSE"), find_steps, find_last, chanlen)
  IN \/ /\ found # {}
        /\ table' = [table EXCEPT ![(Min(found) + find_last) % chanlen] = "OPEN"]
        /\ find_last' = (Min(found) + 1) % chanlen
        /\ UNCHANGED <<chanlen, mk_last>>
     \/ /\ found = {} /\ Cardinality(MadeSlots) < MaxMade
        /\ find_last' = IF chanlen = 0 THEN 0 ELSE (find_last + 2) % chanlen
        /\ mk_chan

\* close_client(): slots 0 and 1 are the chaos channel and the listener.
close_client(i) ==
  /\ i > 1 /\ table[i] = "OPEN"
  /\ Cardinality(Slots("CLOSE")) < MaxClosed
  /\ table' = [table EXCEPT ![i] = "CLOSE"]
  /\ UNCHANGED <<chanlen, mk_last, find_last>>

-----------------------------------------------------------------------------
Init ==
  /\ chanlen = 0 /\ table = [i \in {} |-> "NONE"]
  /\ mk_last = 0 /\ find_last = 0

Next == mk_open \/ \E i \in DOMAIN table : close_client(i)

Spec == Init /\ [][Next]_vars

-----------------------------------------------------------------------------
\* Every channel that is opened gets a slot of its own, which no open channel
\* has: mk_chan() never falls off its end and returns NULL, although its second
\* search does not begin at the slots that are new, and find_chan() never
\* hands out an open one.
OpenGetsOwnSlot ==
  [][ mk_open => /\ Slots("OPEN") \subseteq Slots("OPEN")'
                 /\ Cardinality(Slots("OPEN")') = Cardinality(Slots("OPEN")) + 1 ]_vars

\* The table grows only when every slot is taken by a channel that is open, so
\* its length is the most channels ever open, rounded up to a whole AllocSet.
GrowsOnlyWhenFull ==
  [][ chanlen' > chanlen => \A i \in DOMAIN table : table[i] = "OPEN" ]_vars

-----------------------------------------------------------------------------
(* What the proofs need.                                                   *)

TableShape ==
  /\ chanlen \in Nat /\ table \in [0 .. chanlen - 1 -> {"NONE", "OPEN", "CLOSE"}]
  /\ mk_last \in Nat /\ find_last \in Nat
  /\ IF chanlen = 0 THEN mk_last = 0 /\ find_last = 0
                    ELSE mk_last < chanlen /\ find_last < chanlen

\* Of the 8 slots added last those at the offsets off are unused, and no others
\* of the table.
Unused(off) == Slots("NONE") = {i \in 0 .. chanlen - 1 : i - (chanlen - 8) \in off}

\* Where mk_chan() begins: n slots behind the start of the table, or of the set
\* that was added last.
FromStart(n, off) == mk_last = n /\ Unused(off)
FromSet(n, off) == mk_last = (chanlen - 8) + n /\ Unused(off)

\* For ALLOC_SET 8, how the searches of mk_chan() use up each set of slots: in
\* turn from the set and from the start, and always from the third on alike.
FirstSet ==
  \/ FromSet(1, 1 .. 7) \/ FromStart(1, 2 .. 7)
  \/ FromSet(2, 3 .. 7) \/ FromStart(2, 4 .. 7)
  \/ FromSet(3, 5 .. 7) \/ FromStart(3, 6 .. 7)
  \/ FromSet(4, {7})    \/ FromStart(4, {})

SecondSet ==
  \/ FromSet(1, 0 .. 7 \ {4})    \/ FromStart(1, {0, 2, 3, 5, 6, 7})
  \/ FromSet(0, {2, 3, 5, 6, 7}) \/ FromStart(3, {3, 5, 6, 7})
  \/ FromSet(1, {5, 6, 7})       \/ FromStart(5, {6, 7})
  \/ FromSet(2, {7})             \/ FromStart(6, {})

LaterSet ==
  \/ FromSet(1, 0 .. 7 \ {6})    \/ FromStart(1, {0, 2, 3, 4, 5, 7})
  \/ FromSet(0, {2, 3, 4, 5, 7}) \/ FromStart(3, {3, 4, 5, 7})
  \/ FromSet(1, {4, 5, 7})       \/ FromStart(4, {5, 7})
  \/ FromSet(2, {7})             \/ FromStart(6, {})

SearchInv ==
  \/ chanlen = 0
  \/ chanlen = 8 /\ FirstSet
  \/ chanlen = 16 /\ SecondSet
  \/ chanlen >= 24 /\ LaterSet
=============================================================================
