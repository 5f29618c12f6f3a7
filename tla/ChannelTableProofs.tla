------------------------- MODULE ChannelTableProofs -------------------------
(***************************************************************************)
(* Proofs about the searches of the channel table, for a table that grows  *)
(* without end and any order in which channels are opened and closed, and  *)
(* about the walk over the descriptors that are ready.                     *)
(***************************************************************************)
EXTENDS ChannelTable, ChannelWalk, FiniteSetTheorems, WellFoundedInduction, TLAPS

LEMMA AllocSetNat == AllocSet \in Nat \ {0}
  BY TableAssumption

LEMMA Modulo ==
  \A x \in Nat, n \in Nat \ {0} :
    /\ x % n \in 0 .. n - 1
    /\ x < n => x % n = x
    /\ x >= n /\ x < 2 * n => x % n = x - n
  OBVIOUS

LEMMA Below ==
  \A n \in Nat \ {0} : \A x \in 0 .. n - 1 : x \in Nat /\ x < n /\ n # 0 /\ n \in Nat
  OBVIOUS

\* A set of numbers that is not empty has a least one.
LEMMA LeastNat == \A S \in SUBSET Nat : S # {} => \E x \in S : \A y \in S : x <= y
<1> SUFFICES ASSUME NEW S \in SUBSET Nat, S # {}
             PROVE  \E x \in S : \A y \in S : x <= y
  OBVIOUS
<1> DEFINE R == {ss \in Nat \X Nat : ss[1] < ss[2]}
<1>1. IsWellFoundedOn(R, Nat)
  BY NatLessThanWellFounded DEF OpToRel
<1>2. \E x \in S : \A y \in S : ~ (<<y, x>> \in R)
  <2> HIDE DEF R
  <2> QED BY <1>1, WFMin
<1>3. PICK x \in S : \A y \in S : ~ (<<y, x>> \in R)
  BY <1>2
<1>4. \A y \in S : x <= y
  <2> SUFFICES ASSUME NEW y \in S PROVE x <= y
    OBVIOUS
  <2>1. ~ (y < x)
    BY <1>3
  <2> QED BY <2>1
<1> QED BY <1>4

\* Min is the least element of the steps at which a search hits.
LEMMA MinIsLeast ==
  ASSUME NEW S \in SUBSET Nat, S # {}
  PROVE  Min(S) \in S /\ \A y \in S : Min(S) <= y
  BY LeastNat DEF Min

LEMMA MinIs ==
  ASSUME NEW S \in SUBSET Nat, NEW m \in S, \A y \in S : m <= y
  PROVE  Min(S) = m
<1>1. Min(S) \in S /\ Min(S) <= m
  BY MinIsLeast
<1>2. m <= Min(S) /\ Min(S) \in Nat /\ m \in Nat
  BY <1>1
<1> QED BY <1>1, <1>2

-----------------------------------------------------------------------------
(* What each of the searches does.                                         *)

\* find_chan() misses no channel that is closed: it searches the whole table.
LEMMA FindHits ==
  ASSUME TableShape, NEW s \in Slots("CLOSE")
  PROVE  hits(Slots("CLOSE"), find_steps, find_last, chanlen) # {}
<1>1. /\ chanlen \in Nat \ {0} /\ s \in Nat /\ s < chanlen
      /\ find_last \in Nat /\ find_last < chanlen
  BY DEF TableShape, Slots
<1>2. CASE s >= find_last
  <2>1. s - find_last \in 0 .. chanlen - 1 /\ (s - find_last) + find_last = s
    BY <1>1, <1>2
  <2>2. s % chanlen = s
    BY <1>1, Modulo
  <2> QED BY <2>1, <2>2 DEF hits, find_steps
<1>3. CASE s < find_last
  <2>1. /\ s - find_last + chanlen \in 0 .. chanlen - 1
        /\ (s - find_last + chanlen) + find_last = s + chanlen
    BY <1>1, <1>3
  <2>2. (s + chanlen) % chanlen = s
    <3>1. s + chanlen \in Nat /\ s + chanlen >= chanlen /\ s + chanlen < 2 * chanlen
      BY <1>1
    <3>2. (s + chanlen) % chanlen = (s + chanlen) - chanlen
      BY <1>1, <3>1, Modulo
    <3> QED BY <1>1, <3>2
  <2> QED BY <2>1, <2>2 DEF hits, find_steps
<1> QED BY <1>1, <1>2, <1>3

\* Where find_chan() hits, the slot it opens was closed.
LEMMA FindOpens ==
  ASSUME TableShape,
         hits(Slots("CLOSE"), find_steps, find_last, chanlen) # {}
  PROVE  LET found == hits(Slots("CLOSE"), find_steps, find_last, chanlen)
             s == (Min(found) + find_last) % chanlen
         IN /\ s \in Slots("CLOSE") /\ chanlen # 0
            /\ Min(found) \in Nat
            /\ (Min(found) + 1) % chanlen \in 0 .. chanlen - 1
<1> DEFINE found == hits(Slots("CLOSE"), find_steps, find_last, chanlen)
<1>1. chanlen \in Nat
  BY DEF TableShape
<1>2. found \in SUBSET Nat /\ found # {}
  BY <1>1 DEF hits, find_steps
<1>3. Min(found) \in found
  <2> HIDE DEF found
  <2> QED BY <1>2, MinIsLeast
<1>4. (Min(found) + find_last) % chanlen \in Slots("CLOSE") /\ Min(found) \in 0 .. chanlen - 1
  <2>1. \A i \in found : (i + find_last) % chanlen \in Slots("CLOSE") /\ i \in 0 .. chanlen - 1
    BY DEF hits, find_steps
  <2> HIDE DEF found
  <2> QED BY <1>3, <2>1
<1>5. chanlen # 0 /\ Min(found) \in Nat
  <2> HIDE DEF found
  <2> QED BY <1>1, <1>4
<1>6. (Min(found) + 1) % chanlen \in 0 .. chanlen - 1
  <2> HIDE DEF found
  <2> QED BY <1>1, <1>5, Modulo
<1> QED BY <1>4, <1>5, <1>6

\* Every search of mk_chan() comes to natural steps.
LEMMA StepsNat ==
  ASSUME NEW S, NEW a \in Nat, NEW b \in Nat, NEW last, NEW len
  PROVE  hits(S, a .. b - 1, last, len) \in SUBSET Nat
  BY DEF hits

\* While a slot is unused at mk_last or behind it, mk_chan() takes the first
\* such slot, and its next search begins one step behind the length of this one.
LEMMA TakesFirst ==
  ASSUME TableShape, mk_chan, NEW s \in Slots("NONE"), mk_last <= s,
         \A t \in Slots("NONE") : mk_last <= t => s <= t,
         s - mk_last + 1 < chanlen
  PROVE  /\ chanlen' = chanlen
         /\ table' = [table EXCEPT ![s] = "OPEN"]
         /\ mk_last' = s - mk_last + 1
<1> DEFINE tab == alloc_chan(chanlen)
           unused == {i \in DOMAIN tab : tab[i] = "NONE"}
           found == hits(unused, 0 .. chanlen - 1, mk_last, chanlen)
           step == s - mk_last
<1>1. /\ chanlen \in Nat \ {0} /\ mk_last \in Nat /\ mk_last < chanlen
      /\ s \in Nat /\ s < chanlen /\ step \in 0 .. chanlen - 1
      /\ step + mk_last = s
  BY DEF TableShape, Slots
<1>2. tab = table
  BY DEF alloc_chan, TableShape
<1>3. unused = Slots("NONE")
  BY <1>2 DEF Slots
<1>4. s % chanlen = s /\ (step + 1) % chanlen = step + 1
  <2>1. s \in Nat /\ s < chanlen /\ step + 1 \in Nat /\ step + 1 < chanlen
    BY <1>1
  <2> HIDE DEF step
  <2> QED BY <1>1, <2>1, Modulo
<1>5. step \in found
  <2>1. (step + mk_last) % chanlen \in unused
    BY <1>1, <1>3, <1>4
  <2> HIDE DEF step, unused
  <2> QED BY <1>1, <2>1 DEF hits
<1>6. \A i \in found : step <= i
  <2> SUFFICES ASSUME NEW i \in found PROVE step <= i
    OBVIOUS
  <2>1. i \in 0 .. chanlen - 1 /\ (i + mk_last) % chanlen \in Slots("NONE")
    BY <1>3 DEF hits
  <2>2. CASE i + mk_last < chanlen
    <3>1. i + mk_last \in Nat
      BY <1>1, <2>1
    <3>2. (i + mk_last) % chanlen = i + mk_last
      BY <1>1, <2>2, <3>1, Modulo
    <3> QED BY <1>1, <2>1, <3>2
  <2>3. CASE i + mk_last >= chanlen
    BY <1>1, <2>1, <2>3
  <2> QED BY <1>1, <2>1, <2>2, <2>3
<1>7. found \in SUBSET Nat
  BY <1>1, StepsNat
<1>8. Min(found) = step /\ found # {}
  <2> HIDE DEF found, step
  <2> QED BY <1>5, <1>6, <1>7, MinIs
<1>9. ~ (Slots("NONE") = {})
  OBVIOUS
<1>10. /\ chanlen' = chanlen
       /\ table' = [i \in DOMAIN tab |->
                      IF i = (Min(found) + mk_last) % chanlen THEN "OPEN" ELSE tab[i]]
       /\ mk_last' = (Min(found) + 1) % chanlen
  BY <1>8, <1>9, Zenon DEF mk_chan
<1>11. /\ table' = [i \in DOMAIN table |-> IF i = s THEN "OPEN" ELSE table[i]]
       /\ mk_last' = step + 1
  <2> HIDE DEF found, step, tab
  <2> QED BY <1>1, <1>2, <1>4, <1>8, <1>10
<1>12. table' = [table EXCEPT ![s] = "OPEN"]
  BY <1>11 DEF TableShape
<1> QED BY <1>10, <1>11, <1>12

\* When no slot is unused, and the search begins among the first AllocSet ones,
\* its very first step comes to a slot that has just been added.
LEMMA TakesNew ==
  ASSUME TableShape, mk_chan, Slots("NONE") = {}, mk_last < AllocSet,
         AllocSet > 1
  PROVE  /\ chanlen' = chanlen + AllocSet
         /\ DOMAIN table' = 0 .. (chanlen + AllocSet) - 1
         /\ \A i \in 0 .. (chanlen + AllocSet) - 1 :
              table'[i] = IF i = chanlen + mk_last THEN "OPEN"
                          ELSE IF i < chanlen THEN table[i] ELSE "NONE"
         /\ mk_last' = chanlen + 1
<1> DEFINE len == chanlen + AllocSet
           tab == alloc_chan(len)
           unused == {i \in DOMAIN tab : tab[i] = "NONE"}
           found == hits(unused, chanlen .. len - 1, mk_last, len)
           slot == chanlen + mk_last
<1>1. /\ chanlen \in Nat /\ mk_last \in Nat /\ AllocSet \in Nat /\ len \in Nat \ {0}
      /\ slot \in 0 .. len - 1 /\ slot >= chanlen /\ chanlen < len /\ chanlen + 1 < len
  BY AllocSetNat DEF TableShape
<1>2. /\ DOMAIN tab = 0 .. len - 1
      /\ \A i \in 0 .. len - 1 : tab[i] = IF i < chanlen THEN table[i] ELSE "NONE"
  BY <1>1 DEF alloc_chan
<1>3. slot \in unused
  BY <1>1, <1>2
<1>4. slot % len = slot /\ (chanlen + 1) % len = chanlen + 1
  <2> HIDE DEF len, slot
  <2>1. slot \in Nat /\ slot < len /\ chanlen + 1 \in Nat
    BY <1>1
  <2> QED BY <1>1, <2>1, Modulo
<1>5. chanlen \in found
  BY <1>1, <1>3, <1>4 DEF hits
<1>6. \A i \in found : chanlen <= i
  BY <1>1 DEF hits
<1>7. found \in SUBSET Nat
  BY <1>1, StepsNat
<1>8. Min(found) = chanlen /\ found # {}
  <2> HIDE DEF found
  <2> QED BY <1>5, <1>6, <1>7, MinIs
<1>9. /\ chanlen' = len
      /\ table' = [i \in DOMAIN tab |->
                     IF i = (Min(found) + mk_last) % len THEN "OPEN" ELSE tab[i]]
      /\ mk_last' = (Min(found) + 1) % len
  BY <1>8, Zenon DEF mk_chan, grown_len
<1>10. /\ table' = [i \in 0 .. len - 1 |-> IF i = slot THEN "OPEN" ELSE tab[i]]
       /\ mk_last' = chanlen + 1
  <2> HIDE DEF found, tab, len
  <2> QED BY <1>2, <1>4, <1>8, <1>9
<1>11. table' = [i \in 0 .. len - 1 |->
                   IF i = slot THEN "OPEN" ELSE IF i < chanlen THEN table[i] ELSE "NONE"]
  <2>1. \A i \in 0 .. len - 1 :
          (IF i = slot THEN "OPEN" ELSE tab[i])
            = (IF i = slot THEN "OPEN" ELSE IF i < chanlen THEN table[i] ELSE "NONE")
    BY <1>2
  <2> HIDE DEF tab, len, slot
  <2> QED BY <1>10, <2>1
<1>12. mk_last' = chanlen + 1
  BY <1>10
<1>13. chanlen' = chanlen + AllocSet
  BY <1>9
<1>14. DOMAIN table' = 0 .. len - 1
  BY <1>11
<1>15. \A i \in 0 .. len - 1 :
         table'[i] = IF i = slot THEN "OPEN" ELSE IF i < chanlen THEN table[i] ELSE "NONE"
  BY <1>11
<1> QED BY <1>12, <1>13, <1>14, <1>15

-----------------------------------------------------------------------------
(* For every AllocSet: the shape of the table, and when it grows.          *)

\* Whatever slot a search of mk_chan() ends at, or none, the table keeps its
\* shape, and grows only when no slot is unused.
LEMMA MkChanShape ==
  ASSUME TableShape, mk_chan
  PROVE  /\ chanlen' \in Nat \ {0}
         /\ table' \in [0 .. chanlen' - 1 -> {"NONE", "OPEN", "CLOSE"}]
         /\ mk_last' \in 0 .. chanlen' - 1
         /\ chanlen' = IF Slots("NONE") = {} THEN chanlen + AllocSet ELSE chanlen
         /\ \A i \in 0 .. chanlen - 1 : table'[i] \in {table[i], "OPEN"}
<1> DEFINE full  == Slots("NONE") = {}
           len   == IF full THEN grown_len ELSE chanlen
           tab   == alloc_chan(len)
           steps == IF full THEN chanlen .. len - 1 ELSE 0 .. len - 1
           found == hits({i \in DOMAIN tab : tab[i] = "NONE"}, steps, mk_last, len)
           slot  == IF found = {} THEN NULL ELSE (Min(found) + mk_last) % len
<1>1. /\ chanlen' = len
      /\ table' = [i \in DOMAIN tab |-> IF i = slot THEN "OPEN" ELSE tab[i]]
      /\ mk_last' = IF found = {} THEN (mk_last + 1) % len ELSE (Min(found) + 1) % len
  BY Zenon DEF mk_chan
<1>2. /\ chanlen \in Nat /\ mk_last \in Nat
      /\ table \in [0 .. chanlen - 1 -> {"NONE", "OPEN", "CLOSE"}]
  BY DEF TableShape
<1>3. len = (IF Slots("NONE") = {} THEN chanlen + AllocSet ELSE chanlen)
  BY DEF grown_len
<1>4. len \in Nat \ {0} /\ chanlen <= len
  <2>1. CASE full
    <3> HIDE DEF len
    <3> QED BY <1>2, <1>3, <2>1, AllocSetNat
  <2>2. CASE ~ full
    <3>1. chanlen # 0
      BY <1>2, <2>2 DEF Slots
    <3> HIDE DEF len
    <3> QED BY <1>2, <1>3, <2>2, <3>1
  <2> QED BY <2>1, <2>2
<1>5. /\ tab \in [0 .. len - 1 -> {"NONE", "OPEN", "CLOSE"}]
      /\ \A i \in 0 .. chanlen - 1 : i \in 0 .. len - 1 /\ tab[i] = table[i]
  <2> HIDE DEF len
  <2> QED BY <1>2, <1>4 DEF alloc_chan
<1>6. found \in SUBSET Nat
  <2> HIDE DEF len, tab
  <2>1. steps \in SUBSET Nat
    BY <1>2, <1>4
  <2> QED BY <2>1 DEF hits
<1>7. mk_last' \in 0 .. len - 1
  <2> HIDE DEF len, tab, found
  <2>1. CASE found = {}
    <3>1. mk_last + 1 \in Nat
      BY <1>2
    <3> QED BY <1>1, <1>4, <2>1, <3>1, Modulo
  <2>2. CASE found # {}
    <3>1. Min(found) \in Nat
      BY <1>6, <2>2, MinIsLeast
    <3>2. Min(found) + 1 \in Nat
      BY <3>1
    <3> QED BY <1>1, <1>4, <2>2, <3>2, Modulo
  <2> QED BY <2>1, <2>2
<1>8. /\ table' \in [0 .. len - 1 -> {"NONE", "OPEN", "CLOSE"}]
      /\ \A i \in 0 .. chanlen - 1 : table'[i] \in {table[i], "OPEN"}
  <2> HIDE DEF len, tab, found, slot
  <2> QED BY <1>1, <1>5
<1>9. chanlen' = len
  BY <1>1
<1> HIDE DEF len, tab, found, slot
<1> QED BY <1>3, <1>4, <1>7, <1>8, <1>9

\* The two ways of mk_open: a closed channel is used again, or one is made.
LEMMA MkOpenCases ==
  ASSUME TableShape, mk_open
  PROVE  \/ \E s \in Slots("CLOSE") :
              /\ table' = [table EXCEPT ![s] = "OPEN"]
              /\ find_last' \in 0 .. chanlen - 1
              /\ UNCHANGED <<chanlen, mk_last>>
         \/ /\ Slots("CLOSE") = {} /\ mk_chan
            /\ find_last' \in 0 .. chanlen' - 1
<1> DEFINE found == hits(Slots("CLOSE"), find_steps, find_last, chanlen)
           s == (Min(found) + find_last) % chanlen
<1>1. CASE found # {}
  <2>1. /\ table' = [table EXCEPT ![s] = "OPEN"]
        /\ find_last' = (Min(found) + 1) % chanlen
        /\ UNCHANGED <<chanlen, mk_last>>
    BY <1>1 DEF mk_open
  <2>2. s \in Slots("CLOSE") /\ (Min(found) + 1) % chanlen \in 0 .. chanlen - 1
    BY <1>1, FindOpens
  <2> HIDE DEF s, found
  <2> QED BY <2>1, <2>2
<1>2. CASE found = {}
  <2>1. mk_chan /\ find_last' = IF chanlen = 0 THEN 0 ELSE (find_last + 2) % chanlen
    BY <1>2 DEF mk_open
  <2>2. Slots("CLOSE") = {}
    BY <1>2, FindHits
  <2>3. chanlen' \in Nat \ {0} /\ chanlen' >= chanlen
    <3>1. chanlen \in Nat
      BY DEF TableShape
    <3> QED BY <2>1, <3>1, MkChanShape, AllocSetNat
  <2>4. find_last' \in 0 .. chanlen' - 1
    <3>1. PICK n \in Nat \ {0} : n = chanlen' /\ n >= chanlen
      BY <2>3
    <3>2. find_last' \in Nat /\ find_last' < n
      <4>1. CASE chanlen = 0
        BY <2>1, <3>1, <4>1
      <4>2. CASE chanlen # 0
        <5>1. chanlen \in Nat \ {0} /\ find_last + 2 \in Nat
          BY <4>2 DEF TableShape
        <5>2. find_last' \in 0 .. chanlen - 1
          BY <2>1, <4>2, <5>1, Modulo
        <5> QED BY <3>1, <5>1, <5>2
      <4> QED BY <4>1, <4>2
    <3>3. find_last' \in 0 .. n - 1
      BY <3>2
    <3> QED BY <3>1, <3>3
  <2> QED BY <2>1, <2>2, <2>4
<1> QED BY <1>1, <1>2

LEMMA ShapeNext == TableShape /\ [Next]_vars => TableShape'
<1> SUFFICES ASSUME TableShape, [Next]_vars PROVE TableShape'
  OBVIOUS
<1>0. /\ chanlen \in Nat /\ table \in [0 .. chanlen - 1 -> {"NONE", "OPEN", "CLOSE"}]
      /\ mk_last \in Nat /\ find_last \in Nat
      /\ chanlen = 0 => mk_last = 0 /\ find_last = 0
      /\ chanlen # 0 => mk_last < chanlen /\ find_last < chanlen
  BY DEF TableShape
<1>1. CASE mk_open
  <2>1. ASSUME NEW s \in Slots("CLOSE"), table' = [table EXCEPT ![s] = "OPEN"],
               find_last' \in 0 .. chanlen - 1, UNCHANGED <<chanlen, mk_last>>
        PROVE  TableShape'
    <3>1. table' \in [0 .. chanlen - 1 -> {"NONE", "OPEN", "CLOSE"}]
      BY <1>0, <2>1
    <3>2. find_last' \in Nat /\ find_last' < chanlen
      BY <1>0, <2>1
    <3> QED BY <1>0, <2>1, <3>1, <3>2 DEF TableShape
  <2>2. ASSUME mk_chan, find_last' \in 0 .. chanlen' - 1
        PROVE  TableShape'
    <3>1. chanlen' \in Nat \ {0} /\ mk_last' \in 0 .. chanlen' - 1
      BY <2>2, MkChanShape
    <3>2. /\ mk_last' \in Nat /\ mk_last' < chanlen' /\ chanlen' # 0 /\ chanlen' \in Nat
          /\ find_last' \in Nat /\ find_last' < chanlen'
      BY <2>2, <3>1, Below
    <3>3. table' \in [0 .. chanlen' - 1 -> {"NONE", "OPEN", "CLOSE"}]
      BY <2>2, MkChanShape
    <3> QED BY <3>2, <3>3 DEF TableShape
  <2> QED BY <1>1, <2>1, <2>2, MkOpenCases
<1>2. ASSUME NEW i \in DOMAIN table, close_client(i) PROVE TableShape'
  <2>1. table' \in [0 .. chanlen - 1 -> {"NONE", "OPEN", "CLOSE"}]
    BY <1>0, <1>2 DEF close_client
  <2> QED BY <1>0, <1>2, <2>1 DEF close_client, TableShape
<1>3. CASE UNCHANGED vars
  BY <1>3 DEF vars, TableShape
<1> QED BY <1>1, <1>2, <1>3 DEF Next

\* The table is an array of slots, unused, open or closed, and both searches
\* begin inside it (chan.c:254-340), whatever ALLOC_SET is.
THEOREM TableKeepsShape == Spec => []TableShape
<1>1. Init => TableShape
  BY DEF Init, TableShape
<1> QED BY <1>1, ShapeNext, PTL DEF Spec

\* mk_chan() makes the table longer only when find_chan() found no closed
\* channel in it and no slot of it is unused: every one is open.
THEOREM GrowsWhenFull == Spec => GrowsOnlyWhenFull
<1>1. ASSUME TableShape, [Next]_vars, chanlen' > chanlen
      PROVE  \A i \in DOMAIN table : table[i] = "OPEN"
  <2>0. /\ chanlen \in Nat
        /\ table \in [0 .. chanlen - 1 -> {"NONE", "OPEN", "CLOSE"}]
    BY <1>1 DEF TableShape
  <2>1. mk_open
    BY <1>1, <2>0 DEF Next, close_client, vars
  <2>2. Slots("CLOSE") = {} /\ mk_chan
    BY <1>1, <2>0, <2>1, MkOpenCases
  <2>3. Slots("NONE") = {}
    BY <1>1, <2>0, <2>2, MkChanShape
  <2> QED BY <2>0, <2>2, <2>3 DEF Slots
<1> QED BY <1>1, TableKeepsShape, PTL DEF Spec, GrowsOnlyWhenFull

-----------------------------------------------------------------------------
(* For the ALLOC_SET of the code, 8: no search ends without a slot.        *)

\* What an opening must do: one channel more is open, in a slot of its own.
OneMoreOpen ==
  \E s : s \notin Slots("OPEN") /\ Slots("OPEN")' = Slots("OPEN") \cup {s}

LEMMA OpensOne ==
  ASSUME TableShape, NEW s \in DOMAIN table, table[s] # "OPEN",
         table' = [table EXCEPT ![s] = "OPEN"]
  PROVE  OneMoreOpen
<1>1. table \in [0 .. chanlen - 1 -> {"NONE", "OPEN", "CLOSE"}]
  BY DEF TableShape
<1>2. s \notin Slots("OPEN") /\ Slots("OPEN")' = Slots("OPEN") \cup {s}
  BY <1>1 DEF Slots
<1> QED BY <1>2 DEF OneMoreOpen

\* A search that takes the slot at offset k of the set that was added last: the
\* first unused one that is not behind its beginning.
LEMMA SearchStep ==
  ASSUME TableShape, mk_chan, chanlen >= 8, NEW off \in SUBSET (0 .. 7),
         NEW k \in off, Unused(off),
         mk_last <= (chanlen - 8) + k, k - 7 < mk_last,
         \A j \in off : j < k => (chanlen - 8) + j < mk_last
  PROVE  /\ chanlen' = chanlen
         /\ mk_last' = ((chanlen - 8) + k) - mk_last + 1
         /\ Unused(off \ {k})'
         /\ OneMoreOpen
<1> DEFINE s == (chanlen - 8) + k
<1>0. /\ chanlen \in Nat /\ table \in [0 .. chanlen - 1 -> {"NONE", "OPEN", "CLOSE"}]
      /\ mk_last \in Nat /\ k \in 0 .. 7
      /\ Slots("NONE") = {i \in 0 .. chanlen - 1 : i - (chanlen - 8) \in off}
  BY DEF TableShape, Unused
<1>1. s \in Slots("NONE")
  <2>1. s \in 0 .. chanlen - 1 /\ s - (chanlen - 8) = k
    BY <1>0
  <2> HIDE DEF s
  <2> QED BY <1>0, <2>1
<1>2. \A t \in Slots("NONE") : mk_last <= t => s <= t
  <2> SUFFICES ASSUME NEW t \in Slots("NONE"), mk_last <= t PROVE s <= t
    OBVIOUS
  <2>1. PICK j \in off : j = t - (chanlen - 8)
    BY <1>0
  <2>2. t \in Nat /\ j \in Nat /\ (chanlen - 8) + j = t
    BY <1>0, <2>1
  <2> QED BY <1>0, <2>2
<1>3. mk_last <= s /\ s - mk_last + 1 < chanlen
  BY <1>0
<1>4. /\ chanlen' = chanlen
      /\ table' = [table EXCEPT ![s] = "OPEN"]
      /\ mk_last' = s - mk_last + 1
  <2> HIDE DEF s
  <2> QED BY <1>1, <1>2, <1>3, TakesFirst
<1>5. Slots("NONE")' = Slots("NONE") \ {s}
  <2> HIDE DEF s
  <2> QED BY <1>0, <1>1, <1>4 DEF Slots
<1>6. Slots("NONE") \ {s} = {i \in 0 .. chanlen - 1 : i - (chanlen - 8) \in off \ {k}}
  BY <1>0
<1>7. Unused(off \ {k})'
  BY <1>4, <1>5, <1>6 DEF Unused
<1>8. OneMoreOpen
  <2> HIDE DEF s
  <2> QED BY <1>1, <1>4, OpensOne DEF Slots
<1> QED BY <1>4, <1>7, <1>8

\* A search from the start of the table is followed by one from the set.
LEMMA StartStep ==
  ASSUME TableShape, mk_chan, chanlen >= 8, NEW n \in Nat,
         NEW off \in SUBSET (0 .. 7), NEW k \in off, FromStart(n, off),
         n <= (chanlen - 8) + k, k - 7 < n, \A j \in off : k <= j
  PROVE  /\ chanlen' = chanlen /\ FromSet(k - n + 1, off \ {k})' /\ OneMoreOpen
<1>1. chanlen \in Nat /\ mk_last = n /\ Unused(off) /\ k \in 0 .. 7
  BY DEF TableShape, FromStart
<1>2. \A j \in off : j < k => (chanlen - 8) + j < mk_last
  BY <1>1
<1>3. /\ chanlen' = chanlen /\ mk_last' = ((chanlen - 8) + k) - mk_last + 1
      /\ Unused(off \ {k})' /\ OneMoreOpen
  BY <1>1, <1>2, SearchStep
<1>4. mk_last' = (chanlen' - 8) + (k - n + 1)
  BY <1>1, <1>3
<1> QED BY <1>3, <1>4 DEF FromSet

\* And one from the set by one from the start.
LEMMA SetStep ==
  ASSUME TableShape, mk_chan, chanlen >= 8, NEW n \in Nat,
         NEW off \in SUBSET (0 .. 7), NEW k \in off, FromSet(n, off),
         n <= k, k - n < 7, \A j \in off : j < k => j < n
  PROVE  /\ chanlen' = chanlen /\ FromStart(k - n + 1, off \ {k})' /\ OneMoreOpen
<1>1. /\ chanlen \in Nat /\ mk_last = (chanlen - 8) + n
      /\ Unused(off) /\ k \in 0 .. 7
  BY DEF TableShape, FromSet
<1>2. /\ mk_last <= (chanlen - 8) + k /\ k - 7 < mk_last
      /\ \A j \in off : j < k => (chanlen - 8) + j < mk_last
  BY <1>1
<1>3. /\ chanlen' = chanlen /\ mk_last' = ((chanlen - 8) + k) - mk_last + 1
      /\ Unused(off \ {k})' /\ OneMoreOpen
  BY <1>1, <1>2, SearchStep
<1>4. mk_last' = k - n + 1
  BY <1>1, <1>3
<1> QED BY <1>3, <1>4 DEF FromStart

\* The step in which a set is used up and the next is added.
LEMMA SearchGrows ==
  ASSUME TableShape, mk_chan, AllocSet = 8, NEW last \in 0 .. 7,
         mk_last = last, Slots("NONE") = {}
  PROVE  /\ chanlen' = chanlen + 8
         /\ FromSet(1, 0 .. 7 \ {last})'
         /\ OneMoreOpen
<1>0. chanlen \in Nat /\ table \in [0 .. chanlen - 1 -> {"NONE", "OPEN", "CLOSE"}]
  BY DEF TableShape
<1>1. /\ chanlen' = chanlen + 8
      /\ DOMAIN table' = 0 .. (chanlen + 8) - 1
      /\ \A i \in 0 .. (chanlen + 8) - 1 :
           table'[i] = IF i = chanlen + last THEN "OPEN"
                       ELSE IF i < chanlen THEN table[i] ELSE "NONE"
      /\ mk_last' = chanlen + 1
  BY TakesNew
<1>2. \A i \in 0 .. chanlen - 1 : table[i] # "NONE"
  BY <1>0 DEF Slots
<1>3. Slots("NONE")' = {i \in 0 .. chanlen' - 1 : i - (chanlen' - 8) \in 0 .. 7 \ {last}}
  <2> DEFINE n == chanlen + 8
  <2>1. \A i : i \in Slots("NONE")' <=> i \in 0 .. n - 1 /\ i - (n - 8) \in 0 .. 7 \ {last}
    <3> SUFFICES ASSUME NEW i \in 0 .. n - 1
                 PROVE  table'[i] = "NONE" <=> i - (n - 8) \in 0 .. 7 \ {last}
      BY <1>1 DEF Slots
    <3> QED BY <1>0, <1>1, <1>2
  <2>2. chanlen' = n
    BY <1>1
  <2> HIDE DEF n
  <2> QED BY <2>1, <2>2
<1>4. FromSet(1, 0 .. 7 \ {last})'
  <2>1. mk_last' = (chanlen' - 8) + 1
    BY <1>0, <1>1
  <2> QED BY <1>3, <2>1 DEF FromSet, Unused
<1>5. Slots("OPEN")' = Slots("OPEN") \cup {chanlen + last}
  <2>1. \A i \in 0 .. (chanlen + 8) - 1 :
          table'[i] = "OPEN" <=> i = chanlen + last \/ (i < chanlen /\ table[i] = "OPEN")
    BY <1>0, <1>1
  <2>2. chanlen + last \in 0 .. (chanlen + 8) - 1
    BY <1>0
  <2>3. \A i : i \in Slots("OPEN")' <=> i \in Slots("OPEN") \cup {chanlen + last}
    BY <1>0, <1>1, <2>1, <2>2 DEF Slots
  <2> QED BY <2>3
<1>6. chanlen + last \notin Slots("OPEN")
  BY <1>0 DEF Slots
<1> QED BY <1>1, <1>4, <1>5, <1>6 DEF OneMoreOpen

\* How the first set is used up, and the second one added.
LEMMA FirstSetStep ==
  ASSUME TableShape, mk_chan, AllocSet = 8, chanlen = 8, FirstSet
  PROVE  OneMoreOpen /\ ((chanlen' = 8 /\ FirstSet') \/ (chanlen' = 16 /\ SecondSet'))
<1>0. chanlen \in Nat /\ chanlen >= 8
  BY DEF TableShape
<1>1. CASE FromSet(1, 1 .. 7)
  <2>1. chanlen' = chanlen /\ FromStart(1 - 1 + 1, (1 .. 7) \ {1})' /\ OneMoreOpen
    <3>1. 1 \in (1 .. 7) /\ (1 .. 7) \in SUBSET (0 .. 7)
      OBVIOUS
    <3>2. 1 <= 1 /\ 1 - 1 < 7 /\ \A j \in (1 .. 7) : j < 1 => j < 1
      OBVIOUS
    <3> QED BY <1>0, <1>1, <3>1, <3>2, SetStep
  <2>2. (1 .. 7) \ {1} = 2 .. 7 /\ 1 - 1 + 1 = 1
    OBVIOUS
  <2> QED BY <2>1, <2>2 DEF FirstSet
<1>2. CASE FromStart(1, 2 .. 7)
  <2>1. chanlen' = chanlen /\ FromSet(2 - 1 + 1, (2 .. 7) \ {2})' /\ OneMoreOpen
    <3>1. 2 \in (2 .. 7) /\ (2 .. 7) \in SUBSET (0 .. 7)
      OBVIOUS
    <3>2. 1 <= (chanlen - 8) + 2 /\ 2 - 7 < 1 /\ \A j \in (2 .. 7) : 2 <= j
      BY <1>0
    <3> QED BY <1>0, <1>2, <3>1, <3>2, StartStep
  <2>2. (2 .. 7) \ {2} = 3 .. 7 /\ 2 - 1 + 1 = 2
    OBVIOUS
  <2> QED BY <2>1, <2>2 DEF FirstSet
<1>3. CASE FromSet(2, 3 .. 7)
  <2>1. chanlen' = chanlen /\ FromStart(3 - 2 + 1, (3 .. 7) \ {3})' /\ OneMoreOpen
    <3>1. 3 \in (3 .. 7) /\ (3 .. 7) \in SUBSET (0 .. 7)
      OBVIOUS
    <3>2. 2 <= 3 /\ 3 - 2 < 7 /\ \A j \in (3 .. 7) : j < 3 => j < 2
      OBVIOUS
    <3> QED BY <1>0, <1>3, <3>1, <3>2, SetStep
  <2>2. (3 .. 7) \ {3} = 4 .. 7 /\ 3 - 2 + 1 = 2
    OBVIOUS
  <2> QED BY <2>1, <2>2 DEF FirstSet
<1>4. CASE FromStart(2, 4 .. 7)
  <2>1. chanlen' = chanlen /\ FromSet(4 - 2 + 1, (4 .. 7) \ {4})' /\ OneMoreOpen
    <3>1. 4 \in (4 .. 7) /\ (4 .. 7) \in SUBSET (0 .. 7)
      OBVIOUS
    <3>2. 2 <= (chanlen - 8) + 4 /\ 4 - 7 < 2 /\ \A j \in (4 .. 7) : 4 <= j
      BY <1>0
    <3> QED BY <1>0, <1>4, <3>1, <3>2, StartStep
  <2>2. (4 .. 7) \ {4} = 5 .. 7 /\ 4 - 2 + 1 = 3
    OBVIOUS
  <2> QED BY <2>1, <2>2 DEF FirstSet
<1>5. CASE FromSet(3, 5 .. 7)
  <2>1. chanlen' = chanlen /\ FromStart(5 - 3 + 1, (5 .. 7) \ {5})' /\ OneMoreOpen
    <3>1. 5 \in (5 .. 7) /\ (5 .. 7) \in SUBSET (0 .. 7)
      OBVIOUS
    <3>2. 3 <= 5 /\ 5 - 3 < 7 /\ \A j \in (5 .. 7) : j < 5 => j < 3
      OBVIOUS
    <3> QED BY <1>0, <1>5, <3>1, <3>2, SetStep
  <2>2. (5 .. 7) \ {5} = 6 .. 7 /\ 5 - 3 + 1 = 3
    OBVIOUS
  <2> QED BY <2>1, <2>2 DEF FirstSet
<1>6. CASE FromStart(3, 6 .. 7)
  <2>1. chanlen' = chanlen /\ FromSet(6 - 3 + 1, (6 .. 7) \ {6})' /\ OneMoreOpen
    <3>1. 6 \in (6 .. 7) /\ (6 .. 7) \in SUBSET (0 .. 7)
      OBVIOUS
    <3>2. 3 <= (chanlen - 8) + 6 /\ 6 - 7 < 3 /\ \A j \in (6 .. 7) : 6 <= j
      BY <1>0
    <3> QED BY <1>0, <1>6, <3>1, <3>2, StartStep
  <2>2. (6 .. 7) \ {6} = {7} /\ 6 - 3 + 1 = 4
    OBVIOUS
  <2> QED BY <2>1, <2>2 DEF FirstSet
<1>7. CASE FromSet(4, {7})
  <2>1. chanlen' = chanlen /\ FromStart(7 - 4 + 1, {7} \ {7})' /\ OneMoreOpen
    <3>1. 7 \in {7} /\ {7} \in SUBSET (0 .. 7)
      OBVIOUS
    <3>2. 4 <= 7 /\ 7 - 4 < 7 /\ \A j \in {7} : j < 7 => j < 4
      OBVIOUS
    <3> QED BY <1>0, <1>7, <3>1, <3>2, SetStep
  <2>2. {7} \ {7} = {} /\ 7 - 4 + 1 = 4
    OBVIOUS
  <2> QED BY <2>1, <2>2 DEF FirstSet
<1>8. CASE FromStart(4, {})
  <2>1. mk_last = 4 /\ Slots("NONE") = {}
    BY <1>8 DEF FromStart, Unused
  <2>2. chanlen' = chanlen + 8 /\ FromSet(1, 0 .. 7 \ {4})' /\ OneMoreOpen
    BY <2>1, SearchGrows
  <2> QED BY <2>2 DEF SecondSet
<1> QED BY <1>1, <1>2, <1>3, <1>4, <1>5, <1>6, <1>7, <1>8 DEF FirstSet

\* The second set.
LEMMA SecondSetStep ==
  ASSUME TableShape, mk_chan, AllocSet = 8, chanlen = 16, SecondSet
  PROVE  OneMoreOpen /\ ((chanlen' = 16 /\ SecondSet') \/ (chanlen' = 24 /\ LaterSet'))
<1>0. chanlen \in Nat /\ chanlen >= 8
  BY DEF TableShape
<1>1. CASE FromSet(1, 0 .. 7 \ {4})
  <2>1. chanlen' = chanlen /\ FromStart(1 - 1 + 1, (0 .. 7 \ {4}) \ {1})' /\ OneMoreOpen
    <3>1. 1 \in (0 .. 7 \ {4}) /\ (0 .. 7 \ {4}) \in SUBSET (0 .. 7)
      OBVIOUS
    <3>2. 1 <= 1 /\ 1 - 1 < 7 /\ \A j \in (0 .. 7 \ {4}) : j < 1 => j < 1
      OBVIOUS
    <3> QED BY <1>0, <1>1, <3>1, <3>2, SetStep
  <2>2. (0 .. 7 \ {4}) \ {1} = {0, 2, 3, 5, 6, 7} /\ 1 - 1 + 1 = 1
    OBVIOUS
  <2> QED BY <2>1, <2>2 DEF SecondSet
<1>2. CASE FromStart(1, {0, 2, 3, 5, 6, 7})
  <2>1. chanlen' = chanlen /\ FromSet(0 - 1 + 1, {0, 2, 3, 5, 6, 7} \ {0})' /\ OneMoreOpen
    <3>1. 0 \in {0, 2, 3, 5, 6, 7} /\ {0, 2, 3, 5, 6, 7} \in SUBSET (0 .. 7)
      OBVIOUS
    <3>2. 1 <= (chanlen - 8) + 0 /\ 0 - 7 < 1 /\ \A j \in {0, 2, 3, 5, 6, 7} : 0 <= j
      BY <1>0
    <3> QED BY <1>0, <1>2, <3>1, <3>2, StartStep
  <2>2. {0, 2, 3, 5, 6, 7} \ {0} = {2, 3, 5, 6, 7} /\ 0 - 1 + 1 = 0
    OBVIOUS
  <2> QED BY <2>1, <2>2 DEF SecondSet
<1>3. CASE FromSet(0, {2, 3, 5, 6, 7})
  <2>1. chanlen' = chanlen /\ FromStart(2 - 0 + 1, {2, 3, 5, 6, 7} \ {2})' /\ OneMoreOpen
    <3>1. 2 \in {2, 3, 5, 6, 7} /\ {2, 3, 5, 6, 7} \in SUBSET (0 .. 7)
      OBVIOUS
    <3>2. 0 <= 2 /\ 2 - 0 < 7 /\ \A j \in {2, 3, 5, 6, 7} : j < 2 => j < 0
      OBVIOUS
    <3> QED BY <1>0, <1>3, <3>1, <3>2, SetStep
  <2>2. {2, 3, 5, 6, 7} \ {2} = {3, 5, 6, 7} /\ 2 - 0 + 1 = 3
    OBVIOUS
  <2> QED BY <2>1, <2>2 DEF SecondSet
<1>4. CASE FromStart(3, {3, 5, 6, 7})
  <2>1. chanlen' = chanlen /\ FromSet(3 - 3 + 1, {3, 5, 6, 7} \ {3})' /\ OneMoreOpen
    <3>1. 3 \in {3, 5, 6, 7} /\ {3, 5, 6, 7} \in SUBSET (0 .. 7)
      OBVIOUS
    <3>2. 3 <= (chanlen - 8) + 3 /\ 3 - 7 < 3 /\ \A j \in {3, 5, 6, 7} : 3 <= j
      BY <1>0
    <3> QED BY <1>0, <1>4, <3>1, <3>2, StartStep
  <2>2. {3, 5, 6, 7} \ {3} = 5 .. 7 /\ 3 - 3 + 1 = 1
    OBVIOUS
  <2> QED BY <2>1, <2>2 DEF SecondSet
<1>5. CASE FromSet(1, 5 .. 7)
  <2>1. chanlen' = chanlen /\ FromStart(5 - 1 + 1, (5 .. 7) \ {5})' /\ OneMoreOpen
    <3>1. 5 \in (5 .. 7) /\ (5 .. 7) \in SUBSET (0 .. 7)
      OBVIOUS
    <3>2. 1 <= 5 /\ 5 - 1 < 7 /\ \A j \in (5 .. 7) : j < 5 => j < 1
      OBVIOUS
    <3> QED BY <1>0, <1>5, <3>1, <3>2, SetStep
  <2>2. (5 .. 7) \ {5} = 6 .. 7 /\ 5 - 1 + 1 = 5
    OBVIOUS
  <2> QED BY <2>1, <2>2 DEF SecondSet
<1>6. CASE FromStart(5, 6 .. 7)
  <2>1. chanlen' = chanlen /\ FromSet(6 - 5 + 1, (6 .. 7) \ {6})' /\ OneMoreOpen
    <3>1. 6 \in (6 .. 7) /\ (6 .. 7) \in SUBSET (0 .. 7)
      OBVIOUS
    <3>2. 5 <= (chanlen - 8) + 6 /\ 6 - 7 < 5 /\ \A j \in (6 .. 7) : 6 <= j
      BY <1>0
    <3> QED BY <1>0, <1>6, <3>1, <3>2, StartStep
  <2>2. (6 .. 7) \ {6} = {7} /\ 6 - 5 + 1 = 2
    OBVIOUS
  <2> QED BY <2>1, <2>2 DEF SecondSet
<1>7. CASE FromSet(2, {7})
  <2>1. chanlen' = chanlen /\ FromStart(7 - 2 + 1, {7} \ {7})' /\ OneMoreOpen
    <3>1. 7 \in {7} /\ {7} \in SUBSET (0 .. 7)
      OBVIOUS
    <3>2. 2 <= 7 /\ 7 - 2 < 7 /\ \A j \in {7} : j < 7 => j < 2
      OBVIOUS
    <3> QED BY <1>0, <1>7, <3>1, <3>2, SetStep
  <2>2. {7} \ {7} = {} /\ 7 - 2 + 1 = 6
    OBVIOUS
  <2> QED BY <2>1, <2>2 DEF SecondSet
<1>8. CASE FromStart(6, {})
  <2>1. mk_last = 6 /\ Slots("NONE") = {}
    BY <1>8 DEF FromStart, Unused
  <2>2. chanlen' = chanlen + 8 /\ FromSet(1, 0 .. 7 \ {6})' /\ OneMoreOpen
    BY <2>1, SearchGrows
  <2> QED BY <2>2 DEF LaterSet
<1> QED BY <1>1, <1>2, <1>3, <1>4, <1>5, <1>6, <1>7, <1>8 DEF SecondSet

\* And each one after it.
LEMMA LaterSetStep ==
  ASSUME TableShape, mk_chan, AllocSet = 8, chanlen >= 24, LaterSet
  PROVE  OneMoreOpen /\ ((chanlen' = chanlen /\ LaterSet') \/ (chanlen' = chanlen + 8 /\ LaterSet'))
<1>0. chanlen \in Nat /\ chanlen >= 8
  BY DEF TableShape
<1>1. CASE FromSet(1, 0 .. 7 \ {6})
  <2>1. chanlen' = chanlen /\ FromStart(1 - 1 + 1, (0 .. 7 \ {6}) \ {1})' /\ OneMoreOpen
    <3>1. 1 \in (0 .. 7 \ {6}) /\ (0 .. 7 \ {6}) \in SUBSET (0 .. 7)
      OBVIOUS
    <3>2. 1 <= 1 /\ 1 - 1 < 7 /\ \A j \in (0 .. 7 \ {6}) : j < 1 => j < 1
      OBVIOUS
    <3> QED BY <1>0, <1>1, <3>1, <3>2, SetStep
  <2>2. (0 .. 7 \ {6}) \ {1} = {0, 2, 3, 4, 5, 7} /\ 1 - 1 + 1 = 1
    OBVIOUS
  <2> QED BY <2>1, <2>2 DEF LaterSet
<1>2. CASE FromStart(1, {0, 2, 3, 4, 5, 7})
  <2>1. chanlen' = chanlen /\ FromSet(0 - 1 + 1, {0, 2, 3, 4, 5, 7} \ {0})' /\ OneMoreOpen
    <3>1. 0 \in {0, 2, 3, 4, 5, 7} /\ {0, 2, 3, 4, 5, 7} \in SUBSET (0 .. 7)
      OBVIOUS
    <3>2. 1 <= (chanlen - 8) + 0 /\ 0 - 7 < 1 /\ \A j \in {0, 2, 3, 4, 5, 7} : 0 <= j
      BY <1>0
    <3> QED BY <1>0, <1>2, <3>1, <3>2, StartStep
  <2>2. {0, 2, 3, 4, 5, 7} \ {0} = {2, 3, 4, 5, 7} /\ 0 - 1 + 1 = 0
    OBVIOUS
  <2> QED BY <2>1, <2>2 DEF LaterSet
<1>3. CASE FromSet(0, {2, 3, 4, 5, 7})
  <2>1. chanlen' = chanlen /\ FromStart(2 - 0 + 1, {2, 3, 4, 5, 7} \ {2})' /\ OneMoreOpen
    <3>1. 2 \in {2, 3, 4, 5, 7} /\ {2, 3, 4, 5, 7} \in SUBSET (0 .. 7)
      OBVIOUS
    <3>2. 0 <= 2 /\ 2 - 0 < 7 /\ \A j \in {2, 3, 4, 5, 7} : j < 2 => j < 0
      OBVIOUS
    <3> QED BY <1>0, <1>3, <3>1, <3>2, SetStep
  <2>2. {2, 3, 4, 5, 7} \ {2} = {3, 4, 5, 7} /\ 2 - 0 + 1 = 3
    OBVIOUS
  <2> QED BY <2>1, <2>2 DEF LaterSet
<1>4. CASE FromStart(3, {3, 4, 5, 7})
  <2>1. chanlen' = chanlen /\ FromSet(3 - 3 + 1, {3, 4, 5, 7} \ {3})' /\ OneMoreOpen
    <3>1. 3 \in {3, 4, 5, 7} /\ {3, 4, 5, 7} \in SUBSET (0 .. 7)
      OBVIOUS
    <3>2. 3 <= (chanlen - 8) + 3 /\ 3 - 7 < 3 /\ \A j \in {3, 4, 5, 7} : 3 <= j
      BY <1>0
    <3> QED BY <1>0, <1>4, <3>1, <3>2, StartStep
  <2>2. {3, 4, 5, 7} \ {3} = {4, 5, 7} /\ 3 - 3 + 1 = 1
    OBVIOUS
  <2> QED BY <2>1, <2>2 DEF LaterSet
<1>5. CASE FromSet(1, {4, 5, 7})
  <2>1. chanlen' = chanlen /\ FromStart(4 - 1 + 1, {4, 5, 7} \ {4})' /\ OneMoreOpen
    <3>1. 4 \in {4, 5, 7} /\ {4, 5, 7} \in SUBSET (0 .. 7)
      OBVIOUS
    <3>2. 1 <= 4 /\ 4 - 1 < 7 /\ \A j \in {4, 5, 7} : j < 4 => j < 1
      OBVIOUS
    <3> QED BY <1>0, <1>5, <3>1, <3>2, SetStep
  <2>2. {4, 5, 7} \ {4} = {5, 7} /\ 4 - 1 + 1 = 4
    OBVIOUS
  <2> QED BY <2>1, <2>2 DEF LaterSet
<1>6. CASE FromStart(4, {5, 7})
  <2>1. chanlen' = chanlen /\ FromSet(5 - 4 + 1, {5, 7} \ {5})' /\ OneMoreOpen
    <3>1. 5 \in {5, 7} /\ {5, 7} \in SUBSET (0 .. 7)
      OBVIOUS
    <3>2. 4 <= (chanlen - 8) + 5 /\ 5 - 7 < 4 /\ \A j \in {5, 7} : 5 <= j
      BY <1>0
    <3> QED BY <1>0, <1>6, <3>1, <3>2, StartStep
  <2>2. {5, 7} \ {5} = {7} /\ 5 - 4 + 1 = 2
    OBVIOUS
  <2> QED BY <2>1, <2>2 DEF LaterSet
<1>7. CASE FromSet(2, {7})
  <2>1. chanlen' = chanlen /\ FromStart(7 - 2 + 1, {7} \ {7})' /\ OneMoreOpen
    <3>1. 7 \in {7} /\ {7} \in SUBSET (0 .. 7)
      OBVIOUS
    <3>2. 2 <= 7 /\ 7 - 2 < 7 /\ \A j \in {7} : j < 7 => j < 2
      OBVIOUS
    <3> QED BY <1>0, <1>7, <3>1, <3>2, SetStep
  <2>2. {7} \ {7} = {} /\ 7 - 2 + 1 = 6
    OBVIOUS
  <2> QED BY <2>1, <2>2 DEF LaterSet
<1>8. CASE FromStart(6, {})
  <2>1. mk_last = 6 /\ Slots("NONE") = {}
    BY <1>8 DEF FromStart, Unused
  <2>2. chanlen' = chanlen + 8 /\ FromSet(1, 0 .. 7 \ {6})' /\ OneMoreOpen
    BY <2>1, SearchGrows
  <2> QED BY <2>2 DEF LaterSet
<1> QED BY <1>1, <1>2, <1>3, <1>4, <1>5, <1>6, <1>7, <1>8 DEF LaterSet

\* Every call of mk_chan() opens a slot that was not open, and leaves the
\* searches where the next will find one.
LEMMA MkChanOpens ==
  ASSUME TableShape, SearchInv, AllocSet = 8, mk_chan
  PROVE  OneMoreOpen /\ SearchInv'
<1>1. CASE chanlen = 0
  <2>1. mk_last = 0 /\ Slots("NONE") = {}
    BY <1>1 DEF TableShape, Slots
  <2>2. chanlen' = 8 /\ FromSet(1, 0 .. 7 \ {0})' /\ OneMoreOpen
    BY <1>1, <2>1, SearchGrows
  <2>3. 0 .. 7 \ {0} = 1 .. 7
    OBVIOUS
  <2> QED BY <2>2, <2>3 DEF FirstSet, SearchInv
<1>2. CASE chanlen = 8 /\ FirstSet
  BY <1>2, FirstSetStep DEF SearchInv
<1>3. CASE chanlen = 16 /\ SecondSet
  <2>1. (chanlen' = 16 /\ SecondSet') \/ (chanlen' = 24 /\ LaterSet')
    BY <1>3, SecondSetStep
  <2> QED BY <1>3, <2>1, SecondSetStep DEF SearchInv
<1>4. CASE chanlen >= 24 /\ LaterSet
  <2>1. chanlen \in Nat
    BY DEF TableShape
  <2>2. (chanlen' = chanlen /\ LaterSet') \/ (chanlen' = chanlen + 8 /\ LaterSet')
    BY <1>4, LaterSetStep
  <2>3. chanlen' >= 24 /\ LaterSet'
    BY <1>4, <2>1, <2>2
  <2> QED BY <1>4, <2>3, LaterSetStep DEF SearchInv
<1> QED BY <1>1, <1>2, <1>3, <1>4 DEF SearchInv

\* The searches see no difference between a slot that is open and a closed one.
LEMMA SearchUnchanged ==
  ASSUME SearchInv, UNCHANGED <<chanlen, mk_last>>, Slots("NONE")' = Slots("NONE")
  PROVE  SearchInv'
<1>1. \A off : Unused(off)' <=> Unused(off)
  BY DEF Unused
<1>2. \A n, off : (FromStart(n, off)' <=> FromStart(n, off))
                   /\ (FromSet(n, off)' <=> FromSet(n, off))
  BY DEF Unused, FromStart, FromSet
<1> QED BY <1>2 DEF SearchInv, FirstSet, SecondSet, LaterSet

LEMMA SearchNext ==
  ASSUME TableShape, SearchInv, AllocSet = 8, [Next]_vars
  PROVE  SearchInv' /\ (mk_open => OneMoreOpen)
<1>0. table \in [0 .. chanlen - 1 -> {"NONE", "OPEN", "CLOSE"}]
  BY DEF TableShape
<1>1. CASE mk_open
  <2>1. ASSUME NEW s \in Slots("CLOSE"), table' = [table EXCEPT ![s] = "OPEN"],
               UNCHANGED <<chanlen, mk_last>>
        PROVE  SearchInv' /\ OneMoreOpen
    <3>1. s \in DOMAIN table /\ table[s] = "CLOSE"
      BY DEF Slots
    <3>2. Slots("NONE")' = Slots("NONE")
      BY <1>0, <2>1, <3>1 DEF Slots
    <3> QED BY <2>1, <3>1, <3>2, SearchUnchanged, OpensOne
  <2>2. CASE mk_chan
    BY <2>2, MkChanOpens
  <2> QED BY <1>1, <2>1, <2>2, MkOpenCases
<1>2. CASE ~ mk_open
  <2>1. UNCHANGED <<chanlen, mk_last>> /\ Slots("NONE")' = Slots("NONE")
    <3>1. ASSUME NEW i \in DOMAIN table, close_client(i)
          PROVE  UNCHANGED <<chanlen, mk_last>> /\ Slots("NONE")' = Slots("NONE")
      BY <1>0, <3>1 DEF close_client, Slots
    <3>2. CASE UNCHANGED vars
      BY <3>2 DEF vars, Slots
    <3> QED BY <1>2, <3>1, <3>2 DEF Next
  <2> QED BY <1>2, <2>1, SearchUnchanged
<1> QED BY <1>1, <1>2

\* With the code's ALLOC_SET of 8, no call of mk_open_*() is left without a
\* slot, however long the table grows, although mk_chan() searches from where
\* the steps of its last search ended (chan.c:254-340) and not from the slots it
\* has just added: every channel that is opened gets a slot that was not open.
THEOREM EachOpenGetsItsOwnSlot == ASSUME AllocSet = 8 PROVE Spec => OpenGetsOwnSlot
<1>1. Init => SearchInv
  BY DEF Init, SearchInv
<1>2. TableShape /\ SearchInv /\ [Next]_vars => SearchInv'
  BY SearchNext
<1>3. Spec => []SearchInv
  BY <1>1, <1>2, TableKeepsShape, PTL DEF Spec
<1>4. ASSUME TableShape, SearchInv, [Next]_vars, mk_open
      PROVE  /\ Slots("OPEN") \subseteq Slots("OPEN")'
             /\ Cardinality(Slots("OPEN")') = Cardinality(Slots("OPEN")) + 1
  <2>1. OneMoreOpen
    BY <1>4, SearchNext
  <2>2. PICK s : s \notin Slots("OPEN") /\ Slots("OPEN")' = Slots("OPEN") \cup {s}
    BY <2>1 DEF OneMoreOpen
  <2>3. IsFiniteSet(Slots("OPEN"))
    <3>1. Slots("OPEN") \subseteq 0 .. chanlen - 1 /\ chanlen - 1 \in Int
      BY <1>4 DEF TableShape, Slots
    <3>2. IsFiniteSet(0 .. chanlen - 1)
      BY <3>1, FS_Interval
    <3> QED BY <3>1, <3>2, FS_Subset
  <2>4. Cardinality(Slots("OPEN") \cup {s}) = Cardinality(Slots("OPEN")) + 1
    BY <2>2, <2>3, FS_AddElement
  <2> QED BY <2>2, <2>4
<1> QED BY <1>3, <1>4, TableKeepsShape, PTL DEF Spec, OpenGetsOwnSlot

-----------------------------------------------------------------------------
(* The walk of chan_select() over the descriptors.                         *)

LEMMA DescLenNat == DescLen \in Nat \ {0}
  BY WalkAssumption

\* Where iteration i comes, and how far the jump goes.
LEMMA DescIs ==
  ASSUME last_desc \in Desc, NEW i \in 0 .. DescLen - 1
  PROVE  /\ i + last_desc < DescLen => desc(i) = i + last_desc
         /\ i + last_desc >= DescLen => desc(i) = i + last_desc - DescLen
         /\ ((DescLen - last_desc - 1) % DescLen) + 1 = DescLen - last_desc
<1>1. last_desc \in Nat /\ last_desc < DescLen /\ i \in Nat /\ i < DescLen
  BY DescLenNat DEF Desc
<1>2. i + last_desc \in Nat /\ i + last_desc < 2 * DescLen
  BY <1>1, DescLenNat
<1>3. /\ i + last_desc < DescLen => desc(i) = i + last_desc
      /\ i + last_desc >= DescLen => desc(i) = i + last_desc - DescLen
  <2>1. \A x \in Nat : /\ x < DescLen => x % DescLen = x
                      /\ x >= DescLen /\ x < 2 * DescLen => x % DescLen = x - DescLen
    BY DescLenNat, Modulo
  <2> QED BY <1>1, <1>2, <2>1, DescLenNat DEF desc
<1>4. DescLen - last_desc - 1 \in Nat /\ DescLen - last_desc - 1 < DescLen
  BY <1>1, DescLenNat
<1>5. (DescLen - last_desc - 1) % DescLen = DescLen - last_desc - 1
  BY <1>4, DescLenNat, Modulo
<1> QED BY <1>1, <1>3, <1>5, DescLenNat

\* A descriptor has one turn in the walk.
LEMMA TurnIs ==
  ASSUME last_desc \in Desc, NEW i \in 0 .. DescLen - 1, NEW d \in Desc
  PROVE  turn_of(d) \in 0 .. DescLen - 1 /\ (turn_of(d) = i <=> d = desc(i))
BY DescIs, DescLenNat DEF turn_of, Desc

LEMMA ReadyBelow ==
  ASSUME WalkShape
  PROVE  ready(pass) \subseteq 0 .. pass.n - 1 /\ ready(pass) \subseteq Desc
BY DescLenNat DEF WalkShape, ready, Desc

\* There are at least as many bits as descriptors.
LEMMA BitsEnough ==
  ASSUME NEW a, NEW b, NEW c, NEW n \in Nat,
         a \subseteq 0 .. n - 1, b \subseteq 0 .. n - 1, c \subseteq 0 .. n - 1
  PROVE  /\ IsFiniteSet(a \cup b \cup c)
         /\ Cardinality(a) + Cardinality(b) + Cardinality(c) \in Nat
         /\ Cardinality(a \cup b \cup c) \in Nat
         /\ Cardinality(a \cup b \cup c) <= Cardinality(a) + Cardinality(b) + Cardinality(c)
<1>1. IsFiniteSet(0 .. n - 1)
  BY FS_Interval
<1>2. IsFiniteSet(a) /\ IsFiniteSet(b) /\ IsFiniteSet(c) /\ IsFiniteSet(a \cup b)
  BY <1>1, FS_Subset, FS_Union
<1>3. IsFiniteSet(a \cup b \cup c)
  BY <1>2, FS_Union
<1>4. /\ Cardinality(a \cup b) = Cardinality(a) + Cardinality(b) - Cardinality(a \cap b)
      /\ Cardinality(a \cap b) \in Nat
  BY <1>2, FS_Union, FS_Intersection, FS_CardinalityType
<1>5. /\ Cardinality((a \cup b) \cup c)
           = Cardinality(a \cup b) + Cardinality(c) - Cardinality((a \cup b) \cap c)
      /\ Cardinality((a \cup b) \cap c) \in Nat
  BY <1>2, FS_Union, FS_Intersection, FS_CardinalityType
<1>6. /\ Cardinality(a) \in Nat /\ Cardinality(b) \in Nat /\ Cardinality(c) \in Nat
      /\ Cardinality(a \cup b) \in Nat /\ Cardinality((a \cup b) \cup c) \in Nat
  BY <1>2, <1>3, FS_CardinalityType
<1> QED BY <1>3, <1>4, <1>5, <1>6

\* When the count of operations has come to nought, nothing is left.
LEMMA NoActionLeft ==
  ASSUME WalkShape, Passed, pass.action = 0
  PROVE  pass.operated = ready(pass)
<1> DEFINE r == ready(pass)
<1>1. /\ IsFiniteSet(r) /\ bits(pass) \in Nat /\ Cardinality(r) \in Nat
      /\ Cardinality(r) <= bits(pass)
  <2>1. pass.n \in Nat
    BY DescLenNat DEF WalkShape
  <2>2. /\ pass.rd \subseteq 0 .. pass.n - 1 /\ pass.wr \subseteq 0 .. pass.n - 1
        /\ pass.ex \subseteq 0 .. pass.n - 1
    BY DEF WalkShape
  <2> QED BY <2>1, <2>2, BitsEnough DEF ready, bits
<1>2. pass.operated \subseteq r
  BY DEF Passed
<1> HIDE DEF r
<1>3. Cardinality(pass.operated) \in Nat /\ Cardinality(pass.operated) = bits(pass)
  <2>1. Cardinality(pass.operated) \in Nat
    BY <1>1, <1>2, FS_Subset, FS_CardinalityType
  <2>2. pass.action = bits(pass) - Cardinality(pass.operated)
    BY DEF Passed
  <2> QED BY <1>1, <2>1, <2>2
<1>4. pass.operated = r
  <2>1. Cardinality(pass.operated) >= Cardinality(r)
    BY <1>1, <1>3
  <2>2. Cardinality(pass.operated) <= Cardinality(r)
    BY <1>1, <1>2, FS_Subset
  <2>3. Cardinality(pass.operated) = Cardinality(r)
    BY <1>1, <1>3, <2>1, <2>2
  <2> QED BY <1>1, <1>2, <2>3, FS_Subset
<1> QED BY <1>4 DEF r

\* ... nor when the loop has come to its end, or round to the end of the masks.
LEMMA NoTurnLeft ==
  ASSUME WalkShape, Passed,
         pass.i = DescLen \/ (pass.i < DescLen /\ desc(pass.i) >= pass.n /\ pass.looped)
  PROVE  pass.operated = ready(pass)
<1>0. /\ pass.i \in 0 .. DescLen /\ pass.n \in 0 .. DescLen /\ last_desc \in Desc
  BY DEF WalkShape
<1>1. ASSUME NEW d \in ready(pass) PROVE turn_of(d) < pass.i
  <2>1. d \in 0 .. pass.n - 1 /\ d \in Desc
    BY <1>1, ReadyBelow
  <2>2. CASE pass.i = DescLen
    <3>1. turn_of(d) \in 0 .. DescLen - 1
      BY <1>0, <2>1, DescLenNat DEF turn_of, Desc
    <3> QED BY <2>2, <3>1, DescLenNat
  <2>3. CASE pass.i < DescLen /\ desc(pass.i) >= pass.n /\ pass.looped
    <3>1. pass.i \in 0 .. DescLen - 1 /\ pass.i >= DescLen - last_desc
      BY <1>0, <2>3, DescLenNat DEF Passed
    <3>2. desc(pass.i) = pass.i + last_desc - DescLen
      BY <1>0, <3>1, DescIs, DescLenNat DEF Desc
    <3>3. pass.i + last_desc - DescLen >= pass.n
      BY <2>3, <3>2
    <3> QED BY <1>0, <2>1, <3>1, <3>3, DescLenNat DEF turn_of, Desc
  <2> QED BY <2>2, <2>3
<1> QED BY <1>1 DEF Passed

LEMMA WalkEnds ==
  ASSUME WalkInv, walked
  PROVE  pass.operated = ready(pass)
<1>1. WalkShape /\ Passed
  BY DEF WalkInv, walked
<1>2. pass.i \in 0 .. DescLen /\ pass.action \in Nat
  BY <1>1 DEF WalkShape
<1>3. \/ pass.action = 0
      \/ pass.i = DescLen
      \/ pass.i < DescLen /\ desc(pass.i) >= pass.n /\ pass.looped
  BY <1>2, DescLenNat DEF walked, more
<1> QED BY <1>1, <1>3, NoActionLeft, NoTurnLeft

-----------------------------------------------------------------------------
LEMMA SelectKeeps == ASSUME WalkInv, select PROVE WalkInv'
<1>1. PICK n \in 0 .. DescLen : \E rd, wr, ex \in SUBSET (owned \cap 0 .. n - 1) :
        LET p == [no_pass EXCEPT !.running = TRUE, !.n = n, !.rd = rd, !.wr = wr, !.ex = ex]
        IN pass' = [p EXCEPT !.action = bits(p)]
  BY DEF select
<1>2. PICK rd \in SUBSET (owned \cap 0 .. n - 1), wr \in SUBSET (owned \cap 0 .. n - 1),
           ex \in SUBSET (owned \cap 0 .. n - 1) :
        LET p == [no_pass EXCEPT !.running = TRUE, !.n = n, !.rd = rd, !.wr = wr, !.ex = ex]
        IN pass' = [p EXCEPT !.action = bits(p)]
  BY <1>1
<1> DEFINE count == Cardinality(rd) + Cardinality(wr) + Cardinality(ex)
<1>3. pass' = [running |-> TRUE, n |-> n, rd |-> rd, wr |-> wr, ex |-> ex,
               i |-> 0, looped |-> FALSE, action |-> count, operated |-> {}]
  BY <1>2 DEF bits, no_pass
<1>4. count \in Nat
  <2>1. n \in Nat
    BY DescLenNat
  <2> QED BY <2>1, BitsEnough
<1>5. owned' = owned /\ last_desc' = last_desc /\ owned \subseteq Desc /\ last_desc \in Desc
  BY DEF select, WalkInv, WalkShape
<1>6. bits(pass)' = count /\ ready(pass)' = rd \cup wr \cup ex
  BY <1>3 DEF bits, ready
<1> HIDE DEF count
<1>7. WalkShape'
  BY <1>3, <1>4, <1>5, DescLenNat DEF WalkShape, no_pass
<1>8. Passed'
  <2>1. \A d \in Desc : turn_of(d)' \in Nat
    BY <1>5, DescLenNat DEF turn_of, Desc
  <2>2. ready(pass)' \subseteq Desc
    BY <1>7, ReadyBelow, <1>5, <1>6
  <2>3. {d \in ready(pass)' : turn_of(d)' < pass'.i} = {}
    <3>1. \A d \in ready(pass)' : ~ (turn_of(d)' < 0)
      BY <2>1, <2>2
    <3> QED BY <1>3, <3>1
  <2>4. Cardinality(pass'.operated) = 0
    BY <1>3, FS_EmptySet
  <2>5. ready(pass)' \ pass'.operated \subseteq owned'
    BY <1>5, <1>6
  <2>6. pass'.operated = {d \in ready(pass)' : turn_of(d)' < pass'.i}
    BY <1>3, <2>3
  <2>7. pass'.action = bits(pass)' - Cardinality(pass'.operated)
    BY <1>3, <1>4, <1>6, <2>4
  <2> QED BY <1>3, <2>5, <2>6, <2>7 DEF Passed
<1> QED BY <1>7, <1>8 DEF WalkInv

\* The next iteration meets no descriptor that is operated on.
LEMMA PassesOne ==
  ASSUME WalkShape, Passed, NEW d \in Desc, pass.i \in 0 .. DescLen - 1, d = desc(pass.i)
  PROVE  /\ {e \in ready(pass) : turn_of(e) < pass.i + 1}
                = pass.operated \cup ({d} \cap ready(pass))
         /\ d \notin pass.operated
<1>1. last_desc \in Desc
  BY DEF WalkShape
<1>2. \A e \in ready(pass) : turn_of(e) \in Nat /\ (turn_of(e) = pass.i <=> e = d)
  BY <1>1, ReadyBelow, TurnIs, DescLenNat
<1>3. pass.i \in Nat
  BY DescLenNat
<1>4. \A e \in ready(pass) : turn_of(e) < pass.i + 1 <=> turn_of(e) < pass.i \/ e = d
  BY <1>2, <1>3
<1>5. d \notin pass.operated
  BY <1>2, <1>3 DEF Passed
<1> QED BY <1>4, <1>5 DEF Passed

LEMMA GoAroundKeeps == ASSUME WalkInv, go_around PROVE WalkInv'
<1>0. WalkShape /\ Passed
  BY DEF WalkInv, go_around, more
<1>1. /\ last_desc \in Nat /\ last_desc < DescLen /\ pass.n \in Nat /\ pass.n <= DescLen
      /\ pass.i \in 0 .. DescLen - 1 /\ pass.i \in Nat /\ last_desc \in Desc
      /\ desc(pass.i) >= pass.n /\ ~pass.looped
  BY <1>0, DescLenNat DEF WalkShape, go_around, more, Desc
<1>2. pass' = [pass EXCEPT !.i = DescLen - last_desc, !.looped = TRUE]
  BY <1>1, DescIs DEF go_around, around
\* Up to now the walk has come straight up from last_desc.
<1>3. pass.i + last_desc < DescLen /\ pass.i + last_desc >= pass.n
  <2>1. pass.i = 0 \/ pass.i + last_desc <= pass.n \/ pass.n = DescLen
    BY <1>0, <1>1 DEF Passed
  <2>2. pass.i + last_desc < DescLen => desc(pass.i) = pass.i + last_desc
    BY <1>1, DescIs
  <2>3. pass.i + last_desc >= DescLen => desc(pass.i) = pass.i + last_desc - DescLen
    BY <1>1, DescIs
  <2> QED BY <1>1, <2>1, <2>2, <2>3, DescLenNat
<1>4. \A d \in ready(pass) : turn_of(d) < pass.i <=> turn_of(d) < DescLen - last_desc
  <2>1. \A d \in ready(pass) : d \in Nat /\ d < pass.n
    BY <1>0, <1>1, ReadyBelow
  <2> QED BY <1>1, <1>3, <2>1, DescLenNat DEF turn_of
<1>5. UNCHANGED <<owned, last_desc>>
  BY DEF go_around
<1>6. DOMAIN pass = DOMAIN no_pass
  BY <1>0 DEF WalkShape
<1>7. /\ pass'.i = DescLen - last_desc /\ pass'.looped = TRUE /\ DOMAIN pass' = DOMAIN no_pass
      /\ \A f \in DOMAIN no_pass \ {"i", "looped"} : pass'[f] = pass[f]
  BY <1>2, <1>6 DEF no_pass
<1>8. /\ pass'.running = pass.running /\ pass'.n = pass.n /\ pass'.rd = pass.rd
      /\ pass'.wr = pass.wr /\ pass'.ex = pass.ex /\ pass'.action = pass.action
      /\ pass'.operated = pass.operated
  BY <1>7 DEF no_pass
<1>9. ready(pass)' = ready(pass) /\ bits(pass)' = bits(pass)
  BY <1>8 DEF ready, bits
<1>10. \A d : turn_of(d)' = turn_of(d)
  BY <1>5 DEF turn_of
<1>11. WalkShape'
  <2>1. DescLen - last_desc \in 0 .. DescLen
    BY <1>1, DescLenNat
  <2> QED BY <1>0, <1>5, <1>7, <1>8, <2>1 DEF WalkShape
<1>12. Passed'
  <2>1. pass'.operated = {d \in ready(pass)' : turn_of(d)' < pass'.i}
    BY <1>0, <1>4, <1>7, <1>8, <1>9, <1>10 DEF Passed
  <2>2. pass'.i >= DescLen - last_desc'
    BY <1>1, <1>5, <1>7, DescLenNat
  <2> QED BY <1>0, <1>5, <1>7, <1>8, <1>9, <2>1, <2>2 DEF Passed
<1> QED BY <1>11, <1>12 DEF WalkInv

\* What an iteration that comes to descriptor d leaves, whether it operates on it
\* (k = 1) or not (k = 0).
LEMMA IterationKeeps ==
  ASSUME WalkShape, Passed, pass.running, NEW k \in {0, 1}, NEW d \in Desc,
         pass.i \in 0 .. DescLen - 1, d = desc(pass.i), d < pass.n, k <= pass.action,
         k = 1 <=> d \in ready(pass),
         last_desc' = last_desc, owned' \subseteq Desc, owned \ {d} \subseteq owned',
         DOMAIN pass' = DOMAIN no_pass, pass'.i = pass.i + 1, pass'.action = pass.action - k,
         pass'.operated = pass.operated \cup ({d} \cap ready(pass)),
         \A f \in {"running", "n", "rd", "wr", "ex", "looped"} : pass'[f] = pass[f]
  PROVE  WalkInv'
<1>1. /\ pass'.running = pass.running /\ pass'.n = pass.n /\ pass'.rd = pass.rd
      /\ pass'.wr = pass.wr /\ pass'.ex = pass.ex /\ pass'.looped = pass.looped
  OBVIOUS
<1>2. ready(pass)' = ready(pass) /\ bits(pass)' = bits(pass)
  BY <1>1 DEF ready, bits
<1>3. \A e : turn_of(e)' = turn_of(e)
  BY DEF turn_of
<1>4. /\ pass.n \in Nat /\ pass.n <= DescLen /\ pass.i \in Nat /\ pass.action \in Nat
      /\ last_desc \in Nat /\ last_desc < DescLen /\ last_desc \in Desc /\ k \in Nat
  BY DescLenNat DEF WalkShape, Desc
<1>5. WalkShape'
  <2>1. pass.i + 1 \in 0 .. DescLen /\ pass.action - k \in Nat
    BY <1>4, DescLenNat
  <2> QED BY <1>1, <2>1 DEF WalkShape
<1>6. Passed'
  <2>1. /\ {e \in ready(pass) : turn_of(e) < pass.i + 1}
                = pass.operated \cup ({d} \cap ready(pass))
        /\ d \notin pass.operated
    BY PassesOne
  <2>2. pass'.operated = {e \in ready(pass)' : turn_of(e)' < pass'.i}
    BY <1>2, <1>3, <2>1
  <2>3. ready(pass)' \ pass'.operated \subseteq owned'
    BY <1>2 DEF Passed
  <2>4. pass'.action = bits(pass)' - Cardinality(pass'.operated)
    <3>1. IsFiniteSet(pass.operated) /\ Cardinality(pass.operated) \in Nat /\ bits(pass) \in Nat
      <4>1. IsFiniteSet(ready(pass)) /\ bits(pass) \in Nat
        BY <1>4, BitsEnough DEF WalkShape, ready, bits
      <4>2. pass.operated \subseteq ready(pass)
        BY DEF Passed
      <4> QED BY <4>1, <4>2, FS_Subset, FS_CardinalityType
    <3>2. Cardinality(pass'.operated) = Cardinality(pass.operated) + k
      <4>1. CASE k = 1
        <5>1. pass'.operated = pass.operated \cup {d}
          BY <4>1
        <5>2. Cardinality(pass.operated \cup {d}) = Cardinality(pass.operated) + 1
          BY <2>1, <3>1, FS_AddElement
        <5> QED BY <4>1, <5>1, <5>2
      <4>2. CASE k = 0
        <5>1. pass'.operated = pass.operated
          BY <4>2
        <5>2. Cardinality(pass'.operated) = Cardinality(pass.operated)
          BY <5>1
        <5> QED BY <3>1, <4>2, <5>2
      <4> QED BY <4>1, <4>2
    <3>3. pass.action = bits(pass) - Cardinality(pass.operated)
      BY DEF Passed
    <3> QED BY <1>2, <1>4, <3>1, <3>2, <3>3
  \* While it has not gone round, it is in the masks, or they are all there is.
  <2>5. IF pass.looped THEN pass.i + 1 >= DescLen - last_desc
        ELSE pass.i + 1 + last_desc <= pass.n \/ pass.n = DescLen
    <3>1. CASE pass.looped
      <4>1. pass.i >= DescLen - last_desc
        BY <3>1 DEF Passed
      <4> QED BY <1>4, <3>1, <4>1, DescLenNat
    <3>2. CASE ~pass.looped
      <4>1. pass.i = 0 \/ pass.i + last_desc <= pass.n \/ pass.n = DescLen
        BY <3>2 DEF Passed
      <4>2. pass.i + last_desc < DescLen => d = pass.i + last_desc
        BY <1>4, DescIs
      <4>3. d \in Nat
        BY DescLenNat DEF Desc
      <4> QED BY <1>4, <3>2, <4>1, <4>2, <4>3, DescLenNat
    <3> QED BY <3>1, <3>2
  <2> QED BY <1>1, <2>2, <2>3, <2>4, <2>5 DEF Passed
<1> QED BY <1>5, <1>6 DEF WalkInv

\* What is ready and has not been operated on still belongs to its channel.
LEMMA StillOwned ==
  ASSUME WalkShape, Passed, pass.i \in 0 .. DescLen - 1, NEW d \in Desc, d = desc(pass.i),
         d \in ready(pass)
  PROVE  d \in owned
BY PassesOne DEF Passed

LEMMA IterationIs ==
  ASSUME WalkInv, more, desc(pass.i) < pass.n
  PROVE  /\ WalkShape /\ Passed /\ pass.running /\ pass.i \in 0 .. DescLen - 1
         /\ desc(pass.i) \in Desc /\ pass.action \in Nat \ {0}
<1>1. WalkShape /\ Passed /\ pass.running /\ pass.i \in 0 .. DescLen - 1 /\ pass.action \in Nat \ {0}
  BY DescLenNat DEF WalkInv, WalkShape, more
<1>2. pass.i + last_desc \in Nat
  BY <1>1, DescLenNat DEF WalkShape, Desc
<1> QED BY <1>1, <1>2, DescLenNat, Modulo DEF desc, Desc

LEMMA SkipKeeps == ASSUME WalkInv, skip PROVE WalkInv'
<1> DEFINE d == desc(pass.i)
<1>1. /\ WalkShape /\ Passed /\ pass.running /\ pass.i \in 0 .. DescLen - 1
      /\ d \in Desc /\ pass.action \in Nat \ {0} /\ d < pass.n
  BY IterationIs DEF skip
<1>2. d \notin ready(pass)
  BY <1>1, StillOwned DEF skip
<1>3. /\ pass' = [pass EXCEPT !.i = @ + 1] /\ owned' = owned /\ last_desc' = last_desc
      /\ DOMAIN pass = DOMAIN no_pass /\ owned \subseteq Desc
  BY <1>1 DEF skip, WalkShape
<1>4. /\ DOMAIN pass' = DOMAIN no_pass /\ pass'.i = pass.i + 1 /\ pass'.action = pass.action - 0
      /\ pass'.operated = pass.operated
      /\ \A f \in {"running", "n", "rd", "wr", "ex", "looped"} : pass'[f] = pass[f]
  BY <1>1, <1>3 DEF no_pass
<1>5. pass'.operated = pass.operated \cup ({d} \cap ready(pass))
  BY <1>2, <1>4
<1>6. 0 \in {0, 1} /\ 0 <= pass.action
  BY <1>1
<1> HIDE DEF d
<1> QED BY <1>1, <1>2, <1>3, <1>4, <1>5, <1>6, IterationKeeps DEF d

LEMMA OperateKeeps == ASSUME WalkInv, operate PROVE WalkInv' /\ desc(pass.i) \notin pass.operated
<1> DEFINE d == desc(pass.i)
<1>1. /\ WalkShape /\ Passed /\ pass.running /\ pass.i \in 0 .. DescLen - 1
      /\ d \in Desc /\ pass.action \in Nat \ {0} /\ d < pass.n /\ d \in ready(pass)
  BY IterationIs DEF operate
<1>2. /\ pass' = [pass EXCEPT !.i = @ + 1, !.action = @ - 1, !.operated = @ \cup {d}]
      /\ last_desc' = last_desc /\ owned' \subseteq Desc /\ owned \ {d} \subseteq owned'
      /\ DOMAIN pass = DOMAIN no_pass
  BY <1>1 DEF operate, WalkShape
<1>3. /\ DOMAIN pass' = DOMAIN no_pass /\ pass'.i = pass.i + 1 /\ pass'.action = pass.action - 1
      /\ pass'.operated = pass.operated \cup {d}
      /\ \A f \in {"running", "n", "rd", "wr", "ex", "looped"} : pass'[f] = pass[f]
  BY <1>2 DEF no_pass
<1>4. pass'.operated = pass.operated \cup ({d} \cap ready(pass))
  BY <1>1, <1>3
<1>5. 1 \in {0, 1} /\ 1 <= pass.action
  BY <1>1
<1>6. d \notin pass.operated
  BY <1>1, PassesOne
<1>7. WalkInv'
  <2> HIDE DEF d
  <2> QED BY <1>1, <1>2, <1>3, <1>4, <1>5, IterationKeeps DEF d
<1> QED BY <1>6, <1>7

LEMMA WalkInvNext == WalkInv /\ [WalkNext]_walkVars => WalkInv'
<1> SUFFICES ASSUME WalkInv, [WalkNext]_walkVars PROVE WalkInv'
  OBVIOUS
<1>1. CASE set_chanindx
  BY <1>1 DEF set_chanindx, WalkInv, WalkShape
<1>2. CASE select
  BY <1>2, SelectKeeps
<1>3. CASE go_around
  BY <1>3, GoAroundKeeps
<1>4. CASE skip
  BY <1>4, SkipKeeps
<1>5. CASE operate
  BY <1>5, OperateKeeps
<1>6. CASE walked
  <2>1. (last_desc + 1) % DescLen \in Desc
    <3>1. last_desc + 1 \in Nat
      BY DescLenNat DEF WalkInv, WalkShape, Desc
    <3> QED BY <3>1, DescLenNat, Modulo DEF Desc
  <2> QED BY <1>6, <2>1, DescLenNat DEF walked, WalkInv, WalkShape, no_pass
<1>7. CASE UNCHANGED walkVars
  BY <1>7 DEF walkVars, WalkInv, WalkShape, Passed, ready, bits, turn_of
<1> QED BY <1>1, <1>2, <1>3, <1>4, <1>5, <1>6, <1>7 DEF WalkNext

LEMMA WalkAlways == WalkSpec => []WalkInv
<1>1. WalkInit => WalkInv
  BY DescLenNat DEF WalkInit, WalkInv, WalkShape, no_pass, Desc
<1> QED BY <1>1, WalkInvNext, PTL DEF WalkSpec

\* chan_select() (chan.c:869) ends its walk only when it has operated on every
\* descriptor that select() reported, for a descriptor table of any size.
THEOREM WalkMeetsAll == WalkSpec => WalkIsComplete
<1>1. ASSUME WalkInv, [WalkNext]_walkVars, pass.running, ~pass'.running
      PROVE  pass.operated = ready(pass)
  <2>1. walked
    <3>1. pass.running = TRUE \/ pass.running = FALSE
      BY <1>1 DEF WalkInv, WalkShape
    <3>2. ~go_around /\ ~skip /\ ~operate
      BY <1>1 DEF go_around, around, skip, operate, WalkInv, WalkShape, no_pass
    <3> QED BY <1>1, <3>2 DEF WalkNext, set_chanindx, select, walkVars
  <2> QED BY <1>1, <2>1, WalkEnds
<1> QED BY <1>1, WalkAlways, PTL DEF WalkSpec, WalkIsComplete

\* ... and has operated on none of them twice, although an operation may close a
\* descriptor and the accept of another give it to a new client.
THEOREM NoneIsMetTwice == WalkSpec => OperatesOnce
<1>1. ASSUME WalkInv, operate PROVE desc(pass.i) \notin pass.operated
  BY <1>1, OperateKeeps
<1> QED BY <1>1, WalkAlways, PTL DEF WalkSpec, OperatesOnce
=============================================================================
