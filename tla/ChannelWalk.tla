----------------------------- MODULE ChannelWalk -----------------------------
(***************************************************************************)
(* How chan_select() in daemon/chan.c walks over the descriptors that are  *)
(* ready, one iteration of its loop at a time, from where the static       *)
(* last_desc says and once round, while the operations it performs close   *)
(* and open descriptors.  Channel takes the ready descriptors in any order;*)
(* this module shows that each of them has its turn, and has it once.      *)
(***************************************************************************)
EXTENDS Integers, FiniteSets

CONSTANTS
  DescLen,   \* chanindx_len, the size of the descriptor table
  MaxBits    \* bound: bits select() leaves in the masks

ASSUME WalkAssumption == DescLen \in Nat \ {0} /\ MaxBits \in Nat

VARIABLES
  owned,      \* the descriptors that chanindx says belong to a channel
  last_desc,  \* chan_select()'s last_desc
  pass        \* the other locals of chan_select(), and what it has operated on

walkVars == <<owned, last_desc, pass>>

Desc == 0 .. DescLen - 1

no_pass == [running |-> FALSE, n |-> 0, rd |-> {}, wr |-> {}, ex |-> {},
            i |-> 0, looped |-> FALSE, action |-> 0, operated |-> {}]

\* What select() returns is the number of bits, and a descriptor may have three.
ready(p) == p.rd \cup p.wr \cup p.ex
bits(p)  == Cardinality(p.rd) + Cardinality(p.wr) + Cardinality(p.ex)

WalkInit == owned = {} /\ last_desc = 0 /\ pass = no_pass

-----------------------------------------------------------------------------
\* set_chanindx() and clear_chanindx(), before the loop and in the operations of
\* the pass before select().
set_chanindx ==
  /\ ~pass.running
  /\ \/ \E d \in Desc \ owned : owned' = owned \cup {d}
     \/ \E d \in owned : owned' = owned \ {d}
  /\ UNCHANGED <<last_desc, pass>>

\* select() has found something: only descriptors below n and of channels were in
\* the masks.
select ==
  /\ ~pass.running
  /\ \E n \in 0 .. DescLen : \E rd, wr, ex \in SUBSET (owned \cap 0 .. n - 1) :
       LET p == [no_pass EXCEPT !.running = TRUE, !.n = n, !.rd = rd, !.wr = wr, !.ex = ex]
       IN /\ ready(p) # {} /\ bits(p) <= MaxBits
          /\ pass' = [p EXCEPT !.action = bits(p)]
  /\ UNCHANGED <<owned, last_desc>>

\* The descriptor of iteration i.
desc(i) == (i + last_desc) % DescLen

more == pass.running /\ pass.i < DescLen /\ pass.action > 0

\* mutant: the walk goes on behind descriptor 0
around_late(p) == [p EXCEPT !.i = ((DescLen - last_desc) % DescLen) + 1, !.looped = TRUE]

\* mutant: that the walk has gone round is forgotten
around_again(p) == [p EXCEPT !.i = ((DescLen - last_desc - 1) % DescLen) + 1]

\* From the first descriptor that is in no mask to the iteration for descriptor 0.
around(p) == [p EXCEPT !.i = ((DescLen - last_desc - 1) % DescLen) + 1, !.looped = TRUE]

go_around ==
  /\ more /\ desc(pass.i) >= pass.n /\ ~pass.looped
  /\ pass' = around(pass)
  /\ UNCHANGED <<owned, last_desc>>

\* A descriptor that belongs to no channel, or is not ready.
skip ==
  /\ more /\ desc(pass.i) < pass.n
  /\ desc(pass.i) \notin owned \cap ready(pass)
  /\ pass' = [pass EXCEPT !.i = @ + 1]
  /\ UNCHANGED <<owned, last_desc>>

\* chan_indx_op(): the channel may close its descriptor, or, if it is the listener,
\* be given another one for a new client.
operate ==
  LET d == desc(pass.i)
  IN /\ more /\ d < pass.n /\ d \in owned \cap ready(pass)
     /\ pass' = [pass EXCEPT !.i = @ + 1, !.action = @ - 1, !.operated = @ \cup {d}]
     /\ owned' \in {owned, owned \ {d}} \cup {owned \cup {f} : f \in Desc \ owned}
     /\ UNCHANGED last_desc

\* The end of chan_select().
walked ==
  /\ pass.running
  /\ ~more \/ (desc(pass.i) >= pass.n /\ pass.looped)
  /\ last_desc' = (last_desc + 1) % DescLen
  /\ pass' = no_pass
  /\ UNCHANGED owned

WalkNext == set_chanindx \/ select \/ go_around \/ skip \/ operate \/ walked

WalkSpec == WalkInit /\ [][WalkNext]_walkVars

-----------------------------------------------------------------------------
\* One walk of chan_select() operates on every descriptor that select() reported,
\* wherever it begins, however long the masks are and whichever descriptors the
\* operations close and open: neither the jump to descriptor 0 nor the count of
\* operations still to do (which counts bits, not descriptors) ends it early.
WalkIsComplete == [][pass.running /\ ~pass'.running => pass.operated = ready(pass)]_walkVars

\* It comes to none of them twice: otherwise a descriptor that was closed and given
\* to a new client in the same walk would be operated on for the old one's input.
OperatesOnce == [][operate => desc(pass.i) \notin pass.operated]_walkVars

-----------------------------------------------------------------------------
(* What the proofs need.                                                   *)

\* The iteration that comes to descriptor d, if none is skipped.
turn_of(d) == IF d >= last_desc THEN d - last_desc ELSE d - last_desc + DescLen

WalkShape ==
  /\ owned \subseteq Desc /\ last_desc \in Desc
  /\ DOMAIN pass = DOMAIN no_pass
  /\ pass.running \in BOOLEAN /\ pass.looped \in BOOLEAN
  /\ pass.n \in 0 .. DescLen /\ pass.i \in 0 .. DescLen /\ pass.action \in Nat
  /\ pass.rd \subseteq 0 .. pass.n - 1 /\ pass.wr \subseteq 0 .. pass.n - 1
  /\ pass.ex \subseteq 0 .. pass.n - 1

\* What has been operated on is what was ready and has had its turn, and the rest
\* still belongs to its channels; before the walk goes round it has met descriptors
\* of the masks only, and after that it is past the end of the table.
Passed ==
  /\ pass.operated = {d \in ready(pass) : turn_of(d) < pass.i}
  /\ ready(pass) \ pass.operated \subseteq owned
  /\ pass.action = bits(pass) - Cardinality(pass.operated)
  /\ IF pass.looped THEN pass.i >= DescLen - last_desc
                    ELSE pass.i = 0 \/ pass.i + last_desc <= pass.n \/ pass.n = DescLen

WalkInv == WalkShape /\ (pass.running => Passed)
=============================================================================
