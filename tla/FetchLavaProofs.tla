--------------------------- MODULE FetchLavaProofs ---------------------------
(***************************************************************************)
(* No octet of the daemon is used twice, and the library implements what   *)
(* it promises, for buffers, seeds, requests and exchanges of every size,  *)
(* and every callback.  What is inductive is LibraryInv: Good and Rest of  *)
(* the memory, and the shape of the call.  Each function of the library is *)
(* a set of outcomes and keeps Good in each of them (the first half of     *)
(* this module); it keeps Rest and what is spent, and brings what Answers  *)
(* a call (the second half).                                               *)
(***************************************************************************)
EXTENDS FetchLavaProperties, SequenceTheorems, WellFoundedInduction, TLAPS

Fields == DOMAIN lib_static

LEMMA FieldsAre ==
  Fields = {"lavabuf", "s100", "s100_seed_err", "octets_to_preseed", "daemon_err", "is_cfg",
            "lavarnd_errno", "lastop_errno", "served", "spent"}
BY DEF Fields, lib_static

-----------------------------------------------------------------------------
(* A sequence is cut in two.                                               *)

LEMMA CutTypes ==
  ASSUME NEW s \in Seq(Nat), NEW n \in 0 .. Len(s)
  PROVE  /\ last(s, n) \in Seq(Nat) /\ Len(last(s, n)) = n
         /\ \A i \in 1 .. n : last(s, n)[i] = s[Len(s) - n + i]
         /\ without(s, n) \in Seq(Nat) /\ Len(without(s, n)) = Len(s) - n
         /\ \A i \in 1 .. Len(s) - n : without(s, n)[i] = s[i]
<1>1. Len(s) \in Nat /\ \A i \in 1 .. Len(s) : s[i] \in Nat
  BY LenProperties, ElementOfSeq
<1>2. /\ last(s, n) \in Seq(Nat) /\ Len(last(s, n)) = n
      /\ \A i \in 1 .. n : last(s, n)[i] = s[Len(s) - n + i]
  BY <1>1, SubSeqProperties DEF last
<1>3. /\ without(s, n) \in Seq(Nat) /\ Len(without(s, n)) = Len(s) - n
      /\ \A i \in 1 .. Len(s) - n : without(s, n)[i] = s[i]
  BY <1>1, SubSeqProperties DEF without
<1> QED BY <1>2, <1>3

\* The two parts of a sequence without repetition have nothing in common.
LEMMA CutApart ==
  ASSUME NEW s \in Seq(Nat), NEW n \in 0 .. Len(s),
         \A i, j \in DOMAIN s : i # j => s[i] # s[j]
  PROVE  /\ Numbers(last(s, n)) \subseteq Numbers(s)
         /\ Numbers(without(s, n)) \subseteq Numbers(s)
         /\ Numbers(last(s, n)) \cap Numbers(without(s, n)) = {}
         /\ \A i, j \in DOMAIN without(s, n) : i # j => without(s, n)[i] # without(s, n)[j]
<1> DEFINE a == last(s, n)
           b == without(s, n)
<1>1. Len(s) \in Nat /\ DOMAIN s = 1 .. Len(s)
  BY LenProperties
<1>2. DOMAIN a = 1 .. n /\ DOMAIN b = 1 .. Len(s) - n
  BY CutTypes, LenProperties
<1>a. /\ \A i \in 1 .. n : a[i] = s[Len(s) - n + i]
      /\ \A i \in 1 .. Len(s) - n : b[i] = s[i]
  BY CutTypes
<1> HIDE DEF a, b
<1>3. \A i \in 1 .. n : Len(s) - n + i \in 1 .. Len(s) /\ a[i] = s[Len(s) - n + i]
  BY <1>1, <1>a
<1>4. \A i \in 1 .. Len(s) - n : i \in 1 .. Len(s) /\ b[i] = s[i]
  BY <1>1, <1>a
<1>5. Numbers(a) \subseteq Numbers(s)
  <2>1. \A i \in DOMAIN a : \E j \in DOMAIN s : a[i] = s[j]
    BY <1>1, <1>2, <1>3
  <2> QED BY <2>1 DEF Numbers
<1>6. Numbers(b) \subseteq Numbers(s)
  <2>1. \A i \in DOMAIN b : \E j \in DOMAIN s : b[i] = s[j]
    BY <1>1, <1>2, <1>4
  <2> QED BY <2>1 DEF Numbers
<1>7. \A i \in 1 .. n, j \in 1 .. Len(s) - n : a[i] # b[j]
  <2> SUFFICES ASSUME NEW i \in 1 .. n, NEW j \in 1 .. Len(s) - n
               PROVE  a[i] # b[j]
    OBVIOUS
  <2> DEFINE k == Len(s) - n + i
  <2>1. k # j
    BY <1>1
  <2>2. k \in DOMAIN s /\ a[i] = s[k]
    BY <1>1, <1>3
  <2>3. j \in DOMAIN s /\ b[j] = s[j]
    BY <1>1, <1>4
  <2> HIDE DEF k
  <2>4. s[k] # s[j]
    BY <2>1, <2>2, <2>3
  <2> QED BY <2>2, <2>3, <2>4
<1>8. Numbers(a) \cap Numbers(b) = {}
  BY <1>2, <1>7, Zenon DEF Numbers
<1>9. \A i, j \in DOMAIN b : i # j => b[i] # b[j]
  BY <1>1, <1>2, <1>4
<1> QED
  BY <1>5, <1>6, <1>8, <1>9 DEF a, b

-----------------------------------------------------------------------------
(* What happens to the memory.                                             *)

\* Memory that differs in other things only.
Like(mm, m) ==
  /\ DOMAIN mm = Fields
  /\ mm.lavabuf = m.lavabuf /\ mm.served = m.served /\ mm.spent = m.spent

LEMMA LikeGood ==
  ASSUME NEW m, NEW mm, Good(m), Like(mm, m)
  PROVE  Good(mm)
BY DEF Good, Memory, Apart, Like, Fields

\* Octets are taken from the end of the buffer and spent.
LEMMA CutGood ==
  ASSUME NEW m, Good(m), NEW n \in 0 .. Len(m.lavabuf.data), NEW mm,
         DOMAIN mm = Fields, mm.served = m.served,
         mm.lavabuf = cut(m.lavabuf, n),
         mm.spent = m.spent \cup Numbers(last(m.lavabuf.data, n))
  PROVE  Good(mm)
<1> DEFINE s == m.lavabuf.data
<1>1. s \in Seq(Nat) /\ Len(s) \in Nat /\ n \in 0 .. Len(s)
  BY LenProperties DEF Good, Memory
<1>2. mm.lavabuf = [m.lavabuf EXCEPT !.data = without(s, n)]
  BY DEF cut
<1>3. /\ mm.lavabuf.data = without(s, n) /\ mm.lavabuf.size = m.lavabuf.size
      /\ mm.lavabuf.start = m.lavabuf.start
  BY <1>2 DEF Good, Memory
<1>4. /\ without(s, n) \in Seq(Nat) /\ Len(without(s, n)) = Len(s) - n
      /\ Numbers(without(s, n)) \subseteq Numbers(s) /\ Numbers(last(s, n)) \subseteq Numbers(s)
      /\ Numbers(last(s, n)) \cap Numbers(without(s, n)) = {}
      /\ \A i, j \in DOMAIN without(s, n) : i # j => without(s, n)[i] # without(s, n)[j]
  BY <1>1, CutTypes, CutApart DEF Good, Apart
<1>5. Memory(mm)
  <2>1. mm.lavabuf \in [start: BOOLEAN, data: Seq(Nat), size: Nat \ {0}]
    BY <1>2, <1>4 DEF Good, Memory
  <2>2. ASSUME ~m.lavabuf.start PROVE without(s, n) = <<>>
    <3>1. s = <<>>
      BY <2>2 DEF Good, Memory
    <3>2. Len(without(s, n)) = 0
      BY <1>1, <1>4, <3>1
    <3> QED BY <3>2, <1>4, EmptySeq
  <2>3. Len(without(s, n)) <= m.lavabuf.size
    BY <1>1, <1>4 DEF Good, Memory
  <2> QED
    BY <1>3, <2>1, <2>2, <2>3 DEF Good, Memory
<1>6. Apart(mm)
  BY <1>3, <1>4 DEF Good, Apart
<1> QED
  BY <1>5, <1>6 DEF Good, Fields

\* All of the buffer is spent, and it is freed.
LEMMA UsedUpGood ==
  ASSUME NEW m, Good(m), NEW mm,
         DOMAIN mm = Fields, mm.served = m.served, mm.lavabuf = used_up(m.lavabuf),
         mm.spent = m.spent \cup Numbers(last(m.lavabuf.data, Len(m.lavabuf.data)))
  PROVE  Good(mm)
<1> DEFINE s == m.lavabuf.data
<1>1. s \in Seq(Nat) /\ Len(s) \in 0 .. Len(s) /\ m.lavabuf.size \in Nat \ {0}
  BY LenProperties DEF Good, Memory
<1>2. Numbers(last(s, Len(s))) \subseteq Numbers(s)
  BY <1>1, CutApart DEF Good, Apart
<1>3. mm.lavabuf = [start |-> FALSE, data |-> <<>>, size |-> m.lavabuf.size * 2]
  BY DEF used_up, BUF_GROW
<1>4. <<>> \in Seq(Nat) /\ Len(<<>>) = 0 /\ Numbers(<<>>) = {} /\ DOMAIN <<>> = {}
  BY EmptySeq, LenProperties DEF Numbers
<1>5. Memory(mm)
  BY <1>1, <1>3, <1>4 DEF Good, Memory
<1>6. Apart(mm)
  BY <1>2, <1>3, <1>4 DEF Good, Apart
<1> QED
  BY <1>5, <1>6 DEF Good, Fields

-----------------------------------------------------------------------------
(* Exchanges with the daemon.                                              *)

\* An exchange brings what it was asked for, or a part of it.
LEMMA OpsBring ==
  ASSUME NEW m, NEW n \in Nat, NEW x \in raw_lavaops(m, n)
  PROVE  x.n \in 0 .. n /\ (x.ok => x.n = n)
<1>1. MaxRequest \in Nat \ {0}
  BY FetchAssumption
<1>2. CASE x = [n |-> n, ok |-> TRUE]
  BY <1>2
<1>3. ASSUME NEW k \in 0 .. (n - 1) \div MaxRequest, x = [n |-> k * MaxRequest, ok |-> FALSE]
      PROVE  x.n \in 0 .. n /\ (x.ok => x.n = n)
  <2> DEFINE q == (n - 1) \div MaxRequest
  <2>1. CASE n = 0
    <3>1. q = -1
      BY <1>1, <2>1
    <3> QED BY <3>1
  <2>2. CASE n # 0
    <3>1. n - 1 \in Nat /\ q \in Nat
      BY <1>1, <2>2
    <3>2. MaxRequest * q <= n - 1
      BY <1>1, <3>1
    <3>3. k \in Nat /\ k <= q
      BY <3>1
    <3> HIDE DEF q
    <3>4. k * MaxRequest \in Nat /\ k * MaxRequest <= MaxRequest * q
      BY <1>1, <3>1, <3>3
    <3>5. MaxRequest * q \in Nat
      BY <1>1, <3>1
    <3> QED
      BY <1>3, <3>1, <3>2, <3>4, <3>5
  <2> QED BY <2>1, <2>2
<1> QED
  BY <1>2, <1>3, Zenon DEF raw_lavaops

\* The octets brought are new.
LEMMA BroughtIsNew ==
  ASSUME NEW m, m.served \in Nat, NEW x, x.n \in Nat
  PROVE  /\ brought(m, x) \in Seq(Nat) /\ Len(brought(m, x)) = x.n
         /\ \A i \in 1 .. x.n : brought(m, x)[i] = m.served + i
         /\ Numbers(brought(m, x)) \subseteq m.served + 1 .. m.served + x.n
<1> DEFINE b == brought(m, x)
<1>1. b \in [1 .. x.n -> Nat]
  BY DEF brought
<1>2. b \in Seq(Nat) /\ Len(b) = x.n
  BY <1>1, IsASeq, LenProperties
<1>3. \A i \in 1 .. x.n : b[i] = m.served + i
  BY DEF brought
<1>4. DOMAIN b = 1 .. x.n
  BY DEF brought
<1> HIDE DEF b
<1>5. \A i \in DOMAIN b : b[i] \in m.served + 1 .. m.served + x.n
  BY <1>3, <1>4
<1>6. Numbers(b) \subseteq m.served + 1 .. m.served + x.n
  BY <1>5, Zenon DEF Numbers
<1> QED
  BY <1>2, <1>3, <1>6 DEF b

\* They go to a caller at once ...
LEMMA DirectGood ==
  ASSUME NEW m, Good(m), NEW x, x.n \in Nat, NEW mm,
         DOMAIN mm = Fields, mm.served = m.served + x.n, mm.lavabuf = m.lavabuf,
         mm.spent = m.spent \cup Numbers(brought(m, x))
  PROVE  Good(mm)
<1>1. m.served \in Nat
  BY DEF Good, Memory
<1>2. Numbers(brought(m, x)) \subseteq m.served + 1 .. m.served + x.n
  BY <1>1, BroughtIsNew
<1>3. Memory(mm)
  BY <1>1 DEF Good, Memory
<1>4. Apart(mm)
  <2>1. 1 .. m.served \subseteq 1 .. mm.served /\ m.served + 1 .. m.served + x.n \subseteq 1 .. mm.served
    BY <1>1
  <2>2. \A k \in m.served + 1 .. m.served + x.n : k \notin 1 .. m.served
    BY <1>1
  <2> QED
    BY <1>2, <2>1, <2>2 DEF Good, Apart
<1> QED
  BY <1>3, <1>4 DEF Good, Fields

LEMMA Beyond ==
  ASSUME NEW a \in Nat, NEW n \in Nat, NEW k \in 1 .. n
  PROVE  a + k \in 1 .. a + n /\ a + k \notin 1 .. a
OBVIOUS

filled(buf, octets) == [buf EXCEPT !.start = TRUE, !.data = buf.data \o octets]

LEMMA ConcatNat ==
  ASSUME NEW s \in Seq(Nat), NEW b \in Seq(Nat)
  PROVE  /\ s \o b \in Seq(Nat) /\ Len(s \o b) = Len(s) + Len(b)
         /\ \A i \in 1 .. Len(s) + Len(b) : (s \o b)[i] = IF i <= Len(s) THEN s[i] ELSE b[i - Len(s)]
BY ConcatProperties

\* ... or into the buffer.
LEMMA FilledGood ==
  ASSUME NEW m, Good(m), NEW x, x.n \in Nat, x.n <= m.lavabuf.size - Len(m.lavabuf.data), NEW mm,
         DOMAIN mm = Fields, mm.served = m.served + x.n, mm.spent = m.spent,
         mm.lavabuf = filled(m.lavabuf, brought(m, x))
  PROVE  /\ Good(mm) /\ mm.lavabuf.size = m.lavabuf.size
         /\ Len(mm.lavabuf.data) = Len(m.lavabuf.data) + x.n
<1> DEFINE s == m.lavabuf.data
           b == brought(m, x)
           d == s \o b
<1>1. /\ s \in Seq(Nat) /\ Len(s) \in Nat /\ m.served \in Nat /\ m.lavabuf.size \in Nat \ {0}
      /\ DOMAIN s = 1 .. Len(s)
  BY LenProperties DEF Good, Memory
<1>2. /\ b \in Seq(Nat) /\ Len(b) = x.n
      /\ \A i \in 1 .. x.n : b[i] = m.served + i
  BY <1>1, BroughtIsNew
<1>3. /\ d \in Seq(Nat) /\ Len(d) = Len(s) + x.n
      /\ \A i \in 1 .. Len(s) + x.n : d[i] = IF i <= Len(s) THEN s[i] ELSE b[i - Len(s)]
  <2>1. /\ d \in Seq(Nat) /\ Len(d) = Len(s) + Len(b)
        /\ \A i \in 1 .. Len(s) + Len(b) : d[i] = IF i <= Len(s) THEN s[i] ELSE b[i - Len(s)]
    <3> HIDE DEF b
    <3> QED BY <1>1, <1>2, ConcatNat
  <2> HIDE DEF b, d
  <2> QED BY <1>2, <2>1
<1>4. /\ mm.lavabuf \in [start: BOOLEAN, data: Seq(Nat), size: Nat \ {0}]
      /\ mm.lavabuf.data = d /\ mm.lavabuf.size = m.lavabuf.size /\ mm.lavabuf.start = TRUE
  BY <1>3 DEF Good, Memory, filled
<1>5. \A i \in 1 .. Len(s) : s[i] \in 1 .. m.served
  BY <1>1 DEF Good, Apart, Numbers
<1> HIDE DEF b, d
<1>6. Memory(mm)
  <2>1. Len(d) <= m.lavabuf.size
    <3>1. /\ Len(d) = Len(s) + x.n /\ x.n <= m.lavabuf.size - Len(s)
          /\ Len(s) \in Nat /\ m.lavabuf.size \in Nat
      BY <1>1, <1>3
    <3> HIDE DEF s
    <3> QED BY <3>1
  <2>2. mm.served \in Nat
    BY <1>1
  <2> QED BY <1>4, <2>1, <2>2 DEF Memory
<1>7. DOMAIN d = 1 .. Len(s) + x.n
  BY <1>3, LenProperties
<1>8. \A i \in 1 .. Len(s) + x.n :
         \/ i \in 1 .. Len(s) /\ d[i] = s[i]
         \/ i - Len(s) \in 1 .. x.n /\ d[i] = m.served + (i - Len(s))
  <2> SUFFICES ASSUME NEW i \in 1 .. Len(s) + x.n
               PROVE  \/ i \in 1 .. Len(s) /\ d[i] = s[i]
                      \/ i - Len(s) \in 1 .. x.n /\ d[i] = m.served + (i - Len(s))
    OBVIOUS
  <2>1. CASE i <= Len(s)
    <3>1. i \in 1 .. Len(s)
      BY <1>1, <2>1
    <3> QED BY <1>3, <2>1, <3>1
  <2>2. CASE ~(i <= Len(s))
    <3>1. i - Len(s) \in 1 .. x.n
      BY <1>1, <2>2
    <3> QED BY <1>2, <1>3, <2>2, <3>1
  <2> QED BY <2>1, <2>2
<1>9. \A i \in 1 .. Len(s) + x.n : d[i] \in 1 .. mm.served /\ d[i] \notin m.spent
  <2> SUFFICES ASSUME NEW i \in 1 .. Len(s) + x.n
               PROVE  d[i] \in 1 .. mm.served /\ d[i] \notin m.spent
    OBVIOUS
  <2>1. CASE i \in 1 .. Len(s) /\ d[i] = s[i]
    <3>1. s[i] \in Numbers(s)
      BY <1>1, <2>1 DEF Numbers
    <3> QED BY <1>1, <1>5, <2>1, <3>1 DEF Good, Apart
  <2>2. CASE i - Len(s) \in 1 .. x.n /\ d[i] = m.served + (i - Len(s))
    <3>1. m.spent \subseteq 1 .. m.served
      BY DEF Good, Apart
    <3>2. /\ m.served + (i - Len(s)) \in 1 .. m.served + x.n
          /\ m.served + (i - Len(s)) \notin 1 .. m.served
      <4> DEFINE k == i - Len(s)
      <4>1. k \in 1 .. x.n
        BY <2>2
      <4> HIDE DEF k
      <4>2. m.served + k \in 1 .. m.served + x.n /\ m.served + k \notin 1 .. m.served
        BY <1>1, <4>1, Beyond
      <4> QED BY <4>2 DEF k
    <3> QED BY <2>2, <3>1, <3>2
  <2> QED BY <1>8, <2>1, <2>2
<1>10. \A i, j \in 1 .. Len(s) + x.n : i # j => d[i] # d[j]
  <2> SUFFICES ASSUME NEW i \in 1 .. Len(s) + x.n, NEW j \in 1 .. Len(s) + x.n, i # j
               PROVE  d[i] # d[j]
    OBVIOUS
  <2>1. \A k, l \in 1 .. Len(s) : k # l => s[k] # s[l]
    BY <1>1 DEF Good, Apart
  <2> DEFINE Old(k) == k \in 1 .. Len(s) /\ d[k] = s[k]
             New(k) == k - Len(s) \in 1 .. x.n /\ d[k] = m.served + (k - Len(s))
  <2>2. (Old(i) \/ New(i)) /\ (Old(j) \/ New(j))
    BY <1>8
  <2>3. CASE Old(i) /\ Old(j)
    BY <2>1, <2>3
  <2>4. CASE New(i) /\ New(j)
    BY <1>1, <2>4
  <2>5. ASSUME NEW k \in 1 .. Len(s) + x.n, NEW l \in 1 .. Len(s) + x.n, Old(k), New(l)
        PROVE  d[k] # d[l]
    <3>1. d[k] \in 1 .. m.served
      BY <1>5, <2>5
    <3> DEFINE j0 == l - Len(s)
    <3>2. j0 \in 1 .. x.n /\ d[l] = m.served + j0
      BY <2>5
    <3> HIDE DEF j0
    <3>3. m.served + j0 \notin 1 .. m.served
      BY <1>1, <3>2, Beyond
    <3> QED BY <3>1, <3>2, <3>3
  <2> QED
    BY <2>2, <2>3, <2>4, <2>5
<1>11. Apart(mm)
  <2>1. Numbers(d) \subseteq 1 .. mm.served /\ Numbers(d) \cap m.spent = {}
    <3>1. \A i \in DOMAIN d : d[i] \in 1 .. mm.served /\ d[i] \notin m.spent
      BY <1>7, <1>9
    <3> QED BY <3>1 DEF Numbers
  <2>2. 1 .. m.served \subseteq 1 .. mm.served
    BY <1>1
  <2>3. m.spent \subseteq 1 .. mm.served
    BY <2>2 DEF Good, Apart
  <2>4. \A i, j \in DOMAIN d : i # j => d[i] # d[j]
    BY <1>7, <1>10
  <2>5. mm.lavabuf.data = d
    BY <1>4
  <2> HIDE DEF s
  <2> QED
    BY <2>1, <2>3, <2>4, <2>5, Zenon DEF Apart
<1> QED
  BY <1>3, <1>4, <1>6, <1>11 DEF Good, Fields

-----------------------------------------------------------------------------
(* The functions that fetch.                                               *)

IsSeq(s) == \E S : s \in Seq(S)

LEMMA LavaOctets ==
  ASSUME NEW s \in Seq(Nat)
  PROVE  IsSeq(lava_octets(s))
<1> DEFINE q == lava_octets(s)
           S == {lava_octet(s[i]) : i \in 1 .. Len(s)}
<1>1. Len(s) \in Nat
  BY LenProperties
<1>2. q = [i \in 1 .. Len(s) |-> lava_octet(s[i])]
  BY DEF lava_octets
<1>3. q \in [1 .. Len(s) -> S]
  BY <1>2
<1>4. q \in Seq(S)
  <2> HIDE DEF q, S
  <2> QED BY <1>1, <1>3, IsASeq
<1> QED BY <1>4 DEF IsSeq

LEMMA NothingIsSeq == IsSeq(<<>>)
BY EmptySeq DEF IsSeq

LEMMA JoinedSeq ==
  ASSUME NEW s, IsSeq(s), NEW t, IsSeq(t)
  PROVE  IsSeq(s \o t) /\ Len(s) \in Nat
<1>1. PICK S : s \in Seq(S)
  BY DEF IsSeq
<1>2. PICK T : t \in Seq(T)
  BY DEF IsSeq
<1>3. s \in Seq(S \cup T) /\ t \in Seq(S \cup T)
  BY <1>1, <1>2, SeqMonotonic
<1>4. s \o t \in Seq(S \cup T)
  BY <1>3, ConcatProperties
<1> QED
  BY <1>1, <1>4, LenProperties DEF IsSeq

LEMMA SpendIs ==
  ASSUME NEW m, DOMAIN m = Fields, NEW octets
  PROVE  /\ DOMAIN spend(m, octets) = Fields
         /\ spend(m, octets).served = m.served /\ spend(m, octets).lavabuf = m.lavabuf
         /\ spend(m, octets).spent = m.spent \cup Numbers(octets)
BY FieldsAre DEF spend

LEMMA TalkedIs ==
  ASSUME NEW m, DOMAIN m = Fields, NEW x
  PROVE  /\ DOMAIN talked(m, x) = Fields
         /\ talked(m, x).served = m.served + x.n /\ talked(m, x).lavabuf = m.lavabuf
         /\ talked(m, x).spent = m.spent
BY FieldsAre DEF talked

LEMMA NewBuffer ==
  ASSUME NEW m, DOMAIN m = Fields, NEW buf
  PROVE  LET mm == [m EXCEPT !.lavabuf = buf]
         IN /\ DOMAIN mm = Fields /\ mm.lavabuf = buf
            /\ mm.served = m.served /\ mm.spent = m.spent
BY FieldsAre

\* Octets taken from the end of the buffer for a caller or a seed.
LEMMA TakeGood ==
  ASSUME NEW m, Good(m), NEW n \in 0 .. Len(m.lavabuf.data)
  PROVE  LET mm == spend([m EXCEPT !.lavabuf = cut(m.lavabuf, n)], last(m.lavabuf.data, n))
         IN Good(mm) /\ mm.lavabuf = cut(m.lavabuf, n)
<1> DEFINE mc == [m EXCEPT !.lavabuf = cut(m.lavabuf, n)]
           mm == spend(mc, last(m.lavabuf.data, n))
<1>1. DOMAIN m = Fields
  BY DEF Good, Fields
<1>2. /\ DOMAIN mc = Fields /\ mc.lavabuf = cut(m.lavabuf, n)
      /\ mc.served = m.served /\ mc.spent = m.spent
  BY <1>1, NewBuffer
<1> HIDE DEF mc
<1>3. /\ DOMAIN mm = Fields /\ mm.served = m.served /\ mm.lavabuf = cut(m.lavabuf, n)
      /\ mm.spent = m.spent \cup Numbers(last(m.lavabuf.data, n))
  BY <1>2, SpendIs
<1> HIDE DEF mm
<1>4. Good(mm)
  BY <1>3, CutGood
<1> QED
  BY <1>3, <1>4 DEF mm, mc

LEMMA TakeAllGood ==
  ASSUME NEW m, Good(m)
  PROVE  LET mm == spend([m EXCEPT !.lavabuf = used_up(m.lavabuf)],
                         last(m.lavabuf.data, Len(m.lavabuf.data)))
         IN Good(mm) /\ mm.lavabuf = used_up(m.lavabuf)
<1> DEFINE s == last(m.lavabuf.data, Len(m.lavabuf.data))
           mc == [m EXCEPT !.lavabuf = used_up(m.lavabuf)]
           mm == spend(mc, s)
<1>1. DOMAIN m = Fields
  BY DEF Good, Fields
<1>2. /\ DOMAIN mc = Fields /\ mc.lavabuf = used_up(m.lavabuf)
      /\ mc.served = m.served /\ mc.spent = m.spent
  BY <1>1, NewBuffer
<1> HIDE DEF mc
<1>3. /\ DOMAIN mm = Fields /\ mm.served = m.served /\ mm.lavabuf = used_up(m.lavabuf)
      /\ mm.spent = m.spent \cup Numbers(s)
  BY <1>2, SpendIs
<1> HIDE DEF mm
<1>4. Good(mm)
  BY <1>3, UsedUpGood
<1> QED
  BY <1>3, <1>4 DEF mm, mc

LEMMA DirectTransfer ==
  ASSUME NEW m, Good(m), NEW first \in Seq(Nat), NEW n \in Nat,
         NEW o \in direct_transfer(m, first, n)
  PROVE  Good(o.m) /\ IsSeq(o.got)
<1>1. PICK x \in raw_lavaops(m, n) :
        /\ o.m = spend(talked(m, x), brought(m, x))
        /\ o.got = lava_octets(first \o brought(m, x)) \/ o.got = <<>>
  <2>1. PICK x \in raw_lavaops(m, n) :
          LET mx == spend(talked(m, x), brought(m, x))
          IN o = IF x.ok THEN Outcome(lava_octets(first \o brought(m, x)), LAVARND, mx)
                         ELSE Failure(mx)
    BY DEF direct_transfer
  <2> DEFINE mx == spend(talked(m, x), brought(m, x))
             all == lava_octets(first \o brought(m, x))
  <2> HIDE DEF mx, all
  <2>2. o = Outcome(all, LAVARND, mx) \/ o = Failure(mx)
    BY <2>1 DEF mx, all
  <2>3. o.m = mx /\ (o.got = all \/ o.got = <<>>)
    BY <2>2 DEF Outcome, Failure
  <2> QED
    BY <2>3 DEF mx, all
<1>2. x.n \in Nat
  BY OpsBring
<1>3. DOMAIN m = Fields
  BY DEF Good, Fields
<1>4. /\ DOMAIN o.m = Fields /\ o.m.served = m.served + x.n /\ o.m.lavabuf = m.lavabuf
      /\ o.m.spent = m.spent \cup Numbers(brought(m, x))
  <2>1. /\ DOMAIN talked(m, x) = Fields
        /\ talked(m, x).served = m.served + x.n /\ talked(m, x).lavabuf = m.lavabuf
        /\ talked(m, x).spent = m.spent
    BY <1>3, TalkedIs
  <2> QED
    BY <1>1, <2>1, SpendIs
<1>5. IsSeq(o.got)
  <2>1. m.served \in Nat
    BY DEF Good, Memory
  <2>2. first \o brought(m, x) \in Seq(Nat)
    BY <1>2, <2>1, BroughtIsNew, ConcatNat
  <2> QED
    BY <1>1, <2>2, LavaOctets, NothingIsSeq
<1> QED
  BY <1>2, <1>4, <1>5, DirectGood

LEMMA BufferTransfer ==
  ASSUME NEW m, Good(m), NEW caller \in BOOLEAN, NEW first \in Seq(Nat), NEW n \in Nat,
         caller => n <= m.lavabuf.size,
         NEW o \in buffer_transfer(m, caller, first, n)
  PROVE  Good(o.m) /\ IsSeq(o.got)
<1> DEFINE room == m.lavabuf.size - Len(m.lavabuf.data)
           mx(x) == [talked(m, x) EXCEPT !.lavabuf.start = TRUE,
                                         !.lavabuf.data = m.lavabuf.data \o brought(m, x)]
           data(x) == m.lavabuf.data \o brought(m, x)
<1>1. DOMAIN m = Fields /\ room \in Nat /\ Len(m.lavabuf.data) \in Nat /\ m.lavabuf.size \in Nat
  BY LenProperties DEF Good, Memory, Fields
<1>2. ASSUME NEW x \in raw_lavaops(m, room)
      PROVE  /\ Good(mx(x)) /\ mx(x).lavabuf.data = data(x)
             /\ x.ok => Len(data(x)) = m.lavabuf.size
  <2>1. x.n \in 0 .. room /\ (x.ok => x.n = room)
    BY <1>1, OpsBring
  <2>2. /\ DOMAIN talked(m, x) = Fields
        /\ talked(m, x).served = m.served + x.n /\ talked(m, x).lavabuf = m.lavabuf
        /\ talked(m, x).spent = m.spent
    BY <1>1, TalkedIs
  <2>3. /\ DOMAIN mx(x) = Fields /\ mx(x).served = m.served + x.n /\ mx(x).spent = m.spent
        /\ mx(x).lavabuf = filled(m.lavabuf, brought(m, x))
    BY <2>2, FieldsAre DEF filled
  <2>4. mx(x).lavabuf.data = data(x)
    BY <2>3 DEF Good, Memory, filled
  <2> HIDE DEF mx
  <2>5. Good(mx(x)) /\ Len(mx(x).lavabuf.data) = Len(m.lavabuf.data) + x.n
    <3>1. x.n \in Nat /\ x.n <= m.lavabuf.size - Len(m.lavabuf.data)
      BY <1>1, <2>1
    <3> QED BY <2>3, <3>1, FilledGood, Zenon
  <2> QED
    BY <1>1, <2>1, <2>4, <2>5
<1>3. CASE o = Failure(m)
  BY <1>3, NothingIsSeq DEF Failure
<1>4. ASSUME NEW x \in raw_lavaops(m, room),
             o = IF ~x.ok THEN Failure(mx(x))
                 ELSE IF ~caller THEN Outcome(<<>>, LAVARND, mx(x))
                 ELSE Outcome(lava_octets(first \o last(data(x), n)), LAVARND,
                              spend([mx(x) EXCEPT !.lavabuf = cut(@, n)], last(data(x), n)))
      PROVE  Good(o.m) /\ IsSeq(o.got)
  <2>3. data(x) \in Seq(Nat)
    BY <1>2 DEF Good, Memory
  <2> HIDE DEF mx, data
  <2>1. CASE ~x.ok \/ ~caller
    <3>1. o = Failure(mx(x)) \/ o = Outcome(<<>>, LAVARND, mx(x))
      BY <1>4, <2>1
    <3>2. o.m = mx(x) /\ o.got = <<>>
      BY <3>1 DEF Outcome, Failure
    <3> QED BY <1>2, <3>2, NothingIsSeq
  <2>2. CASE x.ok /\ caller
    <3>1. n \in 0 .. Len(mx(x).lavabuf.data)
      BY <1>1, <1>2, <2>2
    <3>2. Good(spend([mx(x) EXCEPT !.lavabuf = cut(mx(x).lavabuf, n)], last(mx(x).lavabuf.data, n)))
      BY <1>2, <3>1, TakeGood
    <3>3. /\ o.m = spend([mx(x) EXCEPT !.lavabuf = cut(mx(x).lavabuf, n)],
                         last(mx(x).lavabuf.data, n))
          /\ o.got = lava_octets(first \o last(data(x), n))
      <4> DEFINE after == spend([mx(x) EXCEPT !.lavabuf = cut(mx(x).lavabuf, n)], last(data(x), n))
                 all   == lava_octets(first \o last(data(x), n))
      <4>1. o = Outcome(all, LAVARND, after)
        BY <1>4, <2>2, Zenon
      <4> HIDE DEF after, all
      <4>2. o.m = after /\ o.got = all
        BY <4>1 DEF Outcome
      <4> QED BY <1>2, <4>2 DEF after, all
    <3>4. first \o last(data(x), n) \in Seq(Nat)
      <4>1. last(data(x), n) \in Seq(Nat)
        BY <1>2, <2>3, <3>1, CutTypes
      <4> QED BY <4>1, ConcatNat
    <3> QED BY <3>2, <3>3, <3>4, LavaOctets
  <2> QED BY <2>1, <2>2
<1> QED
  BY <1>3, <1>4 DEF buffer_transfer

LEMMA RawLavapool ==
  ASSUME NEW m, Good(m), NEW caller \in BOOLEAN, NEW n \in Nat,
         NEW o \in raw_lavapool(m, caller, n)
  PROVE  Good(o.m) /\ IsSeq(o.got)
<1> DEFINE buf   == m.lavabuf
           able  == IF caller THEN lesser(Len(buf.data), n) ELSE 0
           first == last(buf.data, able)
           rest  == n - able
           mb    == IF able = 0 THEN m
                    ELSE spend([m EXCEPT !.lavabuf = IF able = Len(buf.data)
                                                     THEN used_up(buf) ELSE cut(buf, able)], first)
<1>1. DOMAIN m = Fields /\ Len(buf.data) \in Nat /\ buf.size \in Nat \ {0}
  BY LenProperties DEF Good, Memory, Fields
<1>2. able \in 0 .. Len(buf.data) /\ rest \in Nat
  BY <1>1 DEF lesser
<1>3. Good(mb) /\ mb.lavabuf.size \in Nat /\ buf.size <= mb.lavabuf.size
  <2> HIDE DEF able
  <2>1. CASE able = 0
    BY <1>1, <2>1
  <2>2. CASE able # 0 /\ able = Len(buf.data)
    <3>1. mb = spend([m EXCEPT !.lavabuf = used_up(m.lavabuf)],
                     last(m.lavabuf.data, Len(m.lavabuf.data)))
      BY <2>2
    <3> HIDE DEF mb
    <3>2. Good(mb) /\ mb.lavabuf = used_up(m.lavabuf)
      BY <3>1, TakeAllGood
    <3>3. mb.lavabuf.size = buf.size * 2
      BY <3>2 DEF used_up, BUF_GROW
    <3> QED BY <1>1, <3>2, <3>3
  <2>3. CASE able # 0 /\ able # Len(buf.data)
    <3>1. mb = spend([m EXCEPT !.lavabuf = cut(m.lavabuf, able)], last(m.lavabuf.data, able))
      BY <2>3
    <3> HIDE DEF mb
    <3>2. Good(mb) /\ mb.lavabuf = cut(m.lavabuf, able)
      BY <1>2, <3>1, TakeGood
    <3>3. mb.lavabuf.size = buf.size
      BY <3>2 DEF cut, Good, Memory
    <3> QED BY <1>1, <3>2, <3>3
  <2> QED BY <2>1, <2>2, <2>3
<1>4. o \in IF rest = 0 THEN {Outcome(lava_octets(first), LAVARND, mb)}
             ELSE IF caller /\ rest >= buf.size THEN direct_transfer(mb, first, rest)
             ELSE buffer_transfer(mb, caller, first, rest)
  BY DEF raw_lavapool
<1>8. first \in Seq(Nat)
  BY <1>2, CutTypes DEF Good, Memory
<1> HIDE DEF mb, first, rest, able
<1>5. CASE rest = 0
  <2>1. o.m = mb /\ o.got = lava_octets(first)
    BY <1>4, <1>5 DEF Outcome
  <2> QED BY <1>3, <1>8, <2>1, LavaOctets
<1>6. CASE rest # 0 /\ caller /\ rest >= buf.size
  BY <1>2, <1>3, <1>4, <1>6, <1>8, DirectTransfer
<1>7. CASE rest # 0 /\ ~(caller /\ rest >= buf.size)
  <2>1. caller => rest <= mb.lavabuf.size
    BY <1>1, <1>2, <1>3, <1>7
  <2>2. o \in buffer_transfer(mb, caller, first, rest)
    BY <1>4, <1>7
  <2> QED
    BY <1>2, <1>3, <1>8, <2>1, <2>2, BufferTransfer
<1> QED BY <1>5, <1>6, <1>7

\* A new state of the generator, and new error indicators, change nothing of this.
LEMMA NewGenerator ==
  ASSUME NEW m, Good(m), NEW g
  PROVE  Good([m EXCEPT !.s100 = g])
<1>1. Like([m EXCEPT !.s100 = g], m)
  BY FieldsAre DEF Like, Good, Fields
<1> QED BY <1>1, LikeGood

LEMMA NewErrno ==
  ASSUME NEW m, Good(m), NEW e
  PROVE  Good(set_errno(m, e))
<1>1. Like(set_errno(m, e), m)
  BY FieldsAre DEF Like, Good, Fields, set_errno
<1> QED BY <1>1, LikeGood

LEMMA Seeding ==
  ASSUME NEW m, Good(m), NEW s \in seeding(m)
  PROVE  Good(s.m)
<1>1. SEED_SIZE \in Nat
  BY S100Assumption
<1>2. CASE m.s100_seed_err > S100Retries
  <2>1. s = [ok |-> FALSE, m |-> [m EXCEPT !.s100 = s100_load(m.s100, 0)]]
    BY <1>2 DEF seeding
  <2>2. s.m = [m EXCEPT !.s100 = s100_load(m.s100, 0)]
    BY <2>1
  <2> QED BY <2>2, NewGenerator
<1>3. CASE ~(m.s100_seed_err > S100Retries)
  <2>1. PICK o \in raw_lavapool(m, TRUE, SEED_SIZE) :
          s = IF o.ok
              THEN [ok |-> TRUE,  m |-> [o.m EXCEPT !.s100 = s100_load(@, SEED_SIZE), !.s100_seed_err = 0]]
              ELSE [ok |-> FALSE, m |-> [o.m EXCEPT !.s100 = s100_load(@, 0), !.s100_seed_err = @ + 1]]
    BY <1>3 DEF seeding
  <2>2. Good(o.m)
    BY <1>1, RawLavapool
  <2>3. Like(s.m, o.m)
    <3>1. DOMAIN o.m = Fields
      BY <2>2 DEF Good, Fields
    <3>2. CASE o.ok
      BY <2>1, <3>1, <3>2, FieldsAre DEF Like
    <3>3. CASE ~o.ok
      BY <2>1, <3>1, <3>3, FieldsAre DEF Like
    <3> QED BY <3>2, <3>3
  <2> QED
    BY <2>2, <2>3, LikeGood
<1> QED BY <1>2, <1>3

LEMMA RawS100lava ==
  ASSUME NEW m, Good(m), NEW n \in Nat, NEW minqual, NEW o \in raw_s100lava(m, n, minqual)
  PROVE  Good(o.m) /\ IsSeq(o.got)
<1> DEFINE quality(mm) == s100_quality(mm.s100)
           left(mm)    == s100_loadleft(mm.s100)
           copy(mm, remaining) == IF too_poor(quality(mm), minqual) THEN Failure(mm)
                                  ELSE pump(mm, n, remaining, quality(mm))
<1>1. ASSUME NEW mm, Good(mm), NEW remaining
      PROVE  Good(copy(mm, remaining).m) /\ IsSeq(copy(mm, remaining).got)
  <2>2. IsSeq(copy(mm, remaining).got)
    <3> DEFINE E(i) == [qual |-> octet_quality(mm.s100, i), n |-> 0,
                        late |-> remaining > 0 /\ i > remaining]
               q    == [i \in 1 .. n |-> E(i)]
               S    == {E(i) : i \in 1 .. n}
    <3>1. copy(mm, remaining).got = <<>> \/ copy(mm, remaining).got = q
      BY DEF Failure, pump, Outcome
    <3>2. q \in Seq(S)
      <4>1. q \in [1 .. n -> S]
        OBVIOUS
      <4> HIDE DEF q, S
      <4> QED BY <4>1, IsASeq
    <3> HIDE DEF q, S
    <3> QED BY <3>1, <3>2, NothingIsSeq DEF IsSeq
  <2>1. \/ copy(mm, remaining).m = mm
        \/ copy(mm, remaining).m = [mm EXCEPT !.s100 = s100_randomcpy(mm.s100, n)]
    BY DEF Failure, pump, Outcome
  <2> QED BY <1>1, <2>1, <2>2, NewGenerator
<1>2. CASE left(m) > 0
  <2>1. o = copy(m, left(m))
    BY <1>2 DEF raw_s100lava
  <2> HIDE DEF copy
  <2> QED BY <1>1, <2>1
<1>3. CASE ~(left(m) > 0)
  <2>1. PICK s \in seeding(m) : o = copy(s.m, IF s.ok THEN left(s.m) ELSE 0)
    BY <1>3 DEF raw_s100lava
  <2>2. Good(s.m)
    BY Seeding
  <2> HIDE DEF copy
  <2> QED BY <1>1, <2>1, <2>2
<1> QED BY <1>2, <1>3

-----------------------------------------------------------------------------
(* The functions that fill the buffer ahead of need.                       *)

\* The least of the sizes that will do exists.
LEMMA LeastNumber ==
  ASSUME NEW T \in SUBSET Nat, T # {}
  PROVE  \E x \in T : \A y \in T : x <= y
<1> DEFINE R == OpToRel(<, Nat)
<1>1. IsWellFoundedOn(R, Nat)
  BY NatLessThanWellFounded
<1>2. PICK x \in T : \A y \in T : ~ (<<y, x>> \in R)
  <2> HIDE DEF R
  <2> QED BY <1>1, WFMin
<1>3. ASSUME NEW y \in T
      PROVE  x <= y
  <2>1. x \in Nat /\ y \in Nat
    OBVIOUS
  <2>2. y < x <=> <<y, x>> \in R
    BY <2>1 DEF OpToRel
  <2> HIDE DEF R
  <2> QED BY <1>2, <2>1, <2>2
<1> QED BY <1>3

LEMMA BufsizEnough ==
  ASSUME NEW n \in Nat, n <= MAX_BUF_SIZE
  PROVE  bufsiz(n) \in Nat \ {0} /\ n <= bufsiz(n)
<1> DEFINE Enough(z) == z >= n /\ (z = MAX_BUF_SIZE \/ \E k \in 0 .. z : z = MIN_BUF_SIZE * BUF_GROW ^ k)
           Sizes == MIN_BUF_SIZE .. MAX_BUF_SIZE
           T == {z \in Sizes : Enough(z)}
<1>1. MIN_BUF_SIZE \in Nat \ {0} /\ MAX_BUF_SIZE \in Nat /\ MAX_BUF_SIZE >= MIN_BUF_SIZE
  BY FetchAssumption
<1>2. Sizes \subseteq Nat \ {0} /\ MAX_BUF_SIZE \in Sizes
  BY <1>1
<1>3. MAX_BUF_SIZE \in T
  BY <1>1, <1>2
<1>4. PICK s \in T : \A z \in T : s <= z
  <2> HIDE DEF T
  <2>1. T \in SUBSET Nat
    BY <1>2 DEF T
  <2> QED BY <1>3, <2>1, LeastNumber
<1>5. \A z \in MIN_BUF_SIZE .. s - 1 : ~Enough(z)
  <2> HIDE DEF Enough
  <2> SUFFICES ASSUME NEW z \in MIN_BUF_SIZE .. s - 1, Enough(z)
               PROVE  FALSE
    OBVIOUS
  <2>1. s \in Nat /\ s <= MAX_BUF_SIZE /\ z \in Nat /\ z < s
    BY <1>1, <1>2
  <2>2. z \in T
    BY <1>1, <2>1
  <2> QED BY <1>4, <2>1, <2>2
<1>6. \E z \in Sizes : Enough(z) /\ \A y \in MIN_BUF_SIZE .. z - 1 : ~Enough(y)
  <2> HIDE DEF Enough
  <2> QED BY <1>4, <1>5
<1>7. bufsiz(n) \in Sizes /\ Enough(bufsiz(n))
  <2>1. bufsiz(n) = CHOOSE z \in Sizes : Enough(z) /\ \A y \in MIN_BUF_SIZE .. z - 1 : ~Enough(y)
    BY DEF bufsiz
  <2> HIDE DEF Enough, Sizes
  <2> QED BY <1>6, <2>1, Zenon
<1> QED
  BY <1>1, <1>2, <1>7

LEMMA PreloadSeed ==
  ASSUME NEW m, Good(m)
  PROVE  Good(preload_seed(m))
<1> DEFINE data == m.lavabuf.data
           mc == [m EXCEPT !.s100 = s100_load(@, SEED_SIZE), !.lavabuf = cut(@, SEED_SIZE)]
           mm == spend(mc, last(data, SEED_SIZE))
<1>1. DOMAIN m = Fields /\ Len(data) \in Nat /\ SEED_SIZE \in Nat
  BY LenProperties, S100Assumption DEF Good, Memory, Fields
<1>2. CASE ~m.lavabuf.start \/ Len(data) < SEED_SIZE
  <2>1. preload_seed(m) = set_errno(m, "FAILED")
    BY <1>2 DEF preload_seed, fails
  <2> QED BY <2>1, NewErrno
<1>3. CASE m.lavabuf.start /\ ~(Len(data) < SEED_SIZE)
  <2>1. preload_seed(m) = mm
    BY <1>3 DEF preload_seed
  <2>2. /\ DOMAIN mc = Fields /\ mc.lavabuf = cut(m.lavabuf, SEED_SIZE)
        /\ mc.served = m.served /\ mc.spent = m.spent
    BY <1>1, FieldsAre
  <2>3. SEED_SIZE \in 0 .. Len(data)
    BY <1>1, <1>3
  <2> HIDE DEF mc
  <2>4. /\ DOMAIN mm = Fields /\ mm.served = m.served /\ mm.lavabuf = cut(m.lavabuf, SEED_SIZE)
        /\ mm.spent = m.spent \cup Numbers(last(m.lavabuf.data, SEED_SIZE))
    BY <2>2, SpendIs
  <2> HIDE DEF mm
  <2>5. Good(mm)
    BY <2>3, <2>4, CutGood
  <2> QED BY <2>1, <2>5
<1> QED BY <1>2, <1>3

\* A buffer that is not in use, or grows.
LEMMA ResizedGood ==
  ASSUME NEW m, Good(m), NEW size \in Nat \ {0}, ~m.lavabuf.start \/ m.lavabuf.size <= size
  PROVE  Good([m EXCEPT !.lavabuf.size = size])
<1> DEFINE mm == [m EXCEPT !.lavabuf.size = size]
<1>1. /\ DOMAIN mm = Fields /\ mm.served = m.served /\ mm.spent = m.spent
      /\ mm.lavabuf = [m.lavabuf EXCEPT !.size = size]
  BY FieldsAre DEF Good, Fields
<1>2. /\ mm.lavabuf \in [start: BOOLEAN, data: Seq(Nat), size: Nat \ {0}]
      /\ mm.lavabuf.data = m.lavabuf.data /\ mm.lavabuf.size = size
      /\ mm.lavabuf.start = m.lavabuf.start
  BY <1>1 DEF Good, Memory
<1>3. /\ Len(m.lavabuf.data) \in Nat /\ Len(m.lavabuf.data) <= m.lavabuf.size
      /\ m.lavabuf.size \in Nat
      /\ ~m.lavabuf.start => m.lavabuf.data = <<>>
  BY LenProperties DEF Good, Memory
<1> HIDE DEF mm
<1>4. Len(m.lavabuf.data) <= size
  <2>1. CASE m.lavabuf.start
    BY <1>3, <2>1
  <2>2. CASE ~m.lavabuf.start
    <3>1. Len(m.lavabuf.data) = 0
      BY <1>3, <2>2
    <3> QED BY <3>1
  <2> QED BY <2>1, <2>2
<1>5. Memory(mm)
  BY <1>1, <1>2, <1>3, <1>4 DEF Good, Memory
<1>6. Apart(mm)
  BY <1>1, <1>2 DEF Good, Apart
<1>7. Good(mm)
  BY <1>1, <1>5, <1>6 DEF Good, Fields
<1> QED BY <1>7 DEF mm

LEMMA LavaPreload ==
  ASSUME NEW m, Good(m), NEW lavacnt \in Int, NEW seed_s100 \in BOOLEAN,
         NEW mm \in lava_preload(m, lavacnt, seed_s100)
  PROVE  Good(mm)
<1> DEFINE seed  == seed_s100 /\ s100_loadleft(m.s100) = 0
           asked == (IF lavacnt < 0 THEN 0 ELSE lavacnt) + (IF seed THEN SEED_SIZE ELSE 0)
           want  == IF asked < MIN_BUF_SIZE THEN MIN_BUF_SIZE ELSE lesser(asked, MAX_BUF_SIZE)
           buf   == m.lavabuf
           grows == buf.start /\ buf.size < want
           mb    == IF ~buf.start \/ grows THEN [m EXCEPT !.lavabuf.size = bufsiz(want)] ELSE m
           ready == IF buf.start /\ Len(buf.data) >= want THEN {Outcome(<<>>, LAVARND, m)}
                    ELSE raw_lavapool(mb, FALSE, want)
                           \cup (IF grows THEN {Failure(m)} ELSE {})
<1>1. /\ MIN_BUF_SIZE \in Nat \ {0} /\ MAX_BUF_SIZE \in Nat /\ MAX_BUF_SIZE >= MIN_BUF_SIZE
      /\ SEED_SIZE \in Nat
  BY FetchAssumption, S100Assumption
<1>2. asked \in Nat
  BY <1>1
<1>3. want \in Nat /\ want <= MAX_BUF_SIZE
  <2> HIDE DEF asked
  <2> QED BY <1>1, <1>2 DEF lesser
<1>4. m.lavabuf.size \in Nat
  BY DEF Good, Memory
<1>5. mm \in IF lavacnt < 0 /\ ~seed THEN {m}
              ELSE {IF ~o.ok THEN fails(o.m)
                    ELSE IF seed THEN preload_seed(o.m) ELSE o.m
                    : o \in ready}
  BY DEF lava_preload
<1> HIDE DEF want, seed
<1>6. Good(mb)
  <2>1. bufsiz(want) \in Nat \ {0} /\ want <= bufsiz(want)
    BY <1>3, BufsizEnough
  <2>2. grows => m.lavabuf.size <= bufsiz(want)
    BY <1>3, <1>4, <2>1
  <2>3. CASE ~buf.start \/ grows
    BY <2>1, <2>2, <2>3, ResizedGood
  <2>4. CASE ~(~buf.start \/ grows)
    BY <2>4
  <2> QED BY <2>3, <2>4
<1>7. ASSUME NEW o \in ready
      PROVE  Good(o.m)
  <2> HIDE DEF mb
  <2>1. CASE o \in raw_lavapool(mb, FALSE, want)
    BY <1>3, <1>6, <2>1, RawLavapool
  <2>2. CASE o = Outcome(<<>>, LAVARND, m) \/ o = Failure(m)
    BY <2>2 DEF Outcome, Failure
  <2> QED BY <2>1, <2>2
<1> HIDE DEF ready
<1>8. CASE mm = m
  BY <1>8
<1>9. ASSUME NEW o \in ready,
             mm = fails(o.m) \/ mm = preload_seed(o.m) \/ mm = o.m
      PROVE  Good(mm)
  BY <1>7, <1>9, NewErrno, PreloadSeed DEF fails
<1>10. CASE ~(lavacnt < 0 /\ ~seed)
  <2>1. PICK o \in ready : mm = IF ~o.ok THEN fails(o.m)
                                ELSE IF seed THEN preload_seed(o.m) ELSE o.m
    BY <1>5, <1>10
  <2> QED BY <1>9, <2>1
<1> QED
  BY <1>5, <1>8, <1>10

LEMMA PreseedS100 ==
  ASSUME NEW m, Good(m), NEW callback, NEW n, NEW mm \in preseed_s100(m, callback, n)
  PROVE  Good(mm)
<1>1. DOMAIN m = Fields
  BY DEF Good, Fields
<1>2. ASSUME NEW p, Good(p), NEW k, mm = [p EXCEPT !.octets_to_preseed = k]
      PROVE  Good(mm)
  <2>1. Like(mm, p)
    BY <1>2, FieldsAre DEF Like, Good, Fields
  <2> QED BY <1>2, <2>1, LikeGood
<1>6. \/ mm = m
      \/ mm = [m EXCEPT !.octets_to_preseed = m.octets_to_preseed - n]
      \/ \E p \in lava_preload(m, -1, TRUE) :
            mm = [p EXCEPT !.octets_to_preseed =
                    IF s100_loadleft(p.s100) > 0 THEN 0 ELSE -1]
  BY DEF preseed_s100
<1>3. CASE mm = m
  BY <1>3
<1>4. CASE mm = [m EXCEPT !.octets_to_preseed = m.octets_to_preseed - n]
  BY <1>2, <1>4
<1>5. ASSUME NEW p \in lava_preload(m, -1, TRUE),
             mm = [p EXCEPT !.octets_to_preseed =
                     IF s100_loadleft(p.s100) > 0 THEN 0 ELSE -1]
      PROVE  Good(mm)
  <2>1. Good(p)
    <3>1. -1 \in Int /\ TRUE \in BOOLEAN
      OBVIOUS
    <3> QED BY <3>1, LavaPreload, Zenon
  <2> QED BY <1>2, <1>5, <2>1
<1> QED
  BY <1>3, <1>4, <1>5, <1>6

-----------------------------------------------------------------------------
(* The calls.                                                              *)

\* A call in progress still wants octets.
Proper(c) ==
  /\ DOMAIN c = DOMAIN no_call
  /\ c.len \in Nat /\ IsSeq(c.out)
  /\ c.pc \in {"fetch", "failed"} => Len(c.out) < c.len

IInv == Good(lib) /\ Proper(call)

LEMMA CallIs ==
  DOMAIN no_call = {"pc", "callback", "len", "out", "quality", "retry_cnt", "roll", "tmp_errno"}
BY DEF no_call

LEMMA Wanting ==
  ASSUME Proper(call), call.pc \in {"fetch", "failed"}
  PROVE  wanting \in Nat
<1>1. Len(call.out) \in Nat
  BY LenProperties DEF Proper, IsSeq
<1> QED BY <1>1 DEF Proper, wanting

LEMMA Errors ==
  ASSUME NEW m, Good(m)
  PROVE  Good(fails(m)) /\ \A got, n : Good(errno_firewall(m, got, n))
BY NewErrno DEF fails, errno_firewall

LEMMA Configured ==
  ASSUME NEW m, Good(m), NEW mc \in configured(m)
  PROVE  Good(mc)
<1>1. ASSUME NEW amt, mc = [m EXCEPT !.is_cfg = TRUE, !.octets_to_preseed = amt]
      PROVE  Good(mc)
  <2>1. Like(mc, m)
    BY <1>1, FieldsAre DEF Like, Good, Fields
  <2> QED BY <2>1, LikeGood
<1> QED BY <1>1 DEF configured

\* Whatever s100 brings is an outcome.
LEMMA S100Outcome ==
  ASSUME NEW m, NEW n, NEW minqual, NEW o \in raw_s100lava(m, n, minqual)
  PROVE  DOMAIN o = {"ok", "got", "qual", "m"}
<1> DEFINE copy(mm, remaining) ==
             IF too_poor(s100_quality(mm.s100), minqual) THEN Failure(mm)
             ELSE pump(mm, n, remaining, s100_quality(mm.s100))
<1>1. \A mm, remaining : DOMAIN copy(mm, remaining) = {"ok", "got", "qual", "m"}
  BY DEF Failure, pump, Outcome
<1>2. \E mm, remaining : o = copy(mm, remaining)
  BY DEF raw_s100lava
<1> HIDE DEF copy
<1> QED BY <1>1, <1>2

LEMMA TookKeeps ==
  ASSUME IInv, NEW o, Good(o.m), IsSeq(o.got), took(o)
  PROVE  IInv'
<1>1. IsSeq(call.out \o o.got)
  BY JoinedSeq DEF IInv, Proper
<1>2. Proper(call')
  BY <1>1, CallIs DEF took, IInv, Proper
<1>3. Good(lib')
  BY DEF took
<1> QED BY <1>2, <1>3 DEF IInv

\* The memory stays good and the call only changes where it is.
LEMMA MovesOn ==
  ASSUME IInv, Good(lib'), DOMAIN call' = DOMAIN call,
         call'.len = call.len, call'.out = call.out,
         call'.pc \in {"fetch", "failed"} => call.pc \in {"fetch", "failed"}
  PROVE  IInv'
BY DEF IInv, Proper

LEMMA GivesUp ==
  ASSUME IInv, NEW m, Good(m), give_up(m)
  PROVE  IInv'
<1>1. Good(lib')
  BY Errors DEF give_up
<1>2. /\ DOMAIN call' = DOMAIN call /\ call'.pc = "returned"
      /\ call'.len = call.len /\ call'.out = call.out
  BY CallIs DEF give_up, IInv, Proper
<1> QED BY <1>1, <1>2, MovesOn

LEMMA TriesAgain ==
  ASSUME IInv, NEW n, again(n), call.pc = "failed"
  PROVE  IInv'
<1>1. Good(lib')
  BY DEF again, IInv
<1>2. /\ DOMAIN call' = DOMAIN call
      /\ call'.len = call.len /\ call'.out = call.out
  BY CallIs DEF again, IInv, Proper
<1> QED BY <1>1, <1>2, MovesOn

LEMMA Exits ==
  ASSUME IInv, exit
  PROVE  IInv'
<1>1. Good(lib')
  BY Errors DEF exit, IInv
<1>2. /\ DOMAIN call' = DOMAIN call /\ call'.pc = "exited"
      /\ call'.len = call.len /\ call'.out = call.out
  BY CallIs DEF exit, IInv, Proper
<1> QED BY <1>1, <1>2, MovesOn

LEMMA StartKeeps ==
  ASSUME IInv, NEW c, DOMAIN c = DOMAIN no_call, c.len \in Nat, c.out = <<>>, start_call(c)
  PROVE  IInv'
<1> DEFINE m == [lib EXCEPT !.lastop_errno = "OK"]
<1>1. Good(m)
  <2>1. Like(m, lib)
    BY FieldsAre DEF Like, Good, Fields, IInv
  <2> HIDE DEF m
  <2> QED BY <2>1, LikeGood DEF IInv
<1>2. \/ refuse(m, c)
      \/ /\ \E mc \in configured(m) : lib' \in preseed_s100(mc, c.callback, c.len)
         /\ call' = [c EXCEPT !.pc = "fetch"] /\ c.len # 0
  BY DEF start_call
<1> HIDE DEF m
<1>3. IsSeq(<<>>) /\ Len(<<>>) = 0
  BY NothingIsSeq, EmptySeq
<1>4. CASE refuse(m, c)
  <2>1. Good(lib')
    BY <1>1, <1>4, Errors DEF refuse
  <2>2. Proper(call')
    BY <1>3, <1>4, CallIs DEF refuse, Proper
  <2> QED BY <2>1, <2>2 DEF IInv
<1>5. CASE /\ \E mc \in configured(m) : lib' \in preseed_s100(mc, c.callback, c.len)
           /\ call' = [c EXCEPT !.pc = "fetch"] /\ c.len # 0
  <2>1. Good(lib')
    BY <1>1, <1>5, Configured, PreseedS100
  <2>2. Proper(call')
    BY <1>3, <1>5, CallIs DEF Proper
  <2> QED BY <2>1, <2>2 DEF IInv
<1> QED BY <1>2, <1>4, <1>5

-----------------------------------------------------------------------------
(* The memory is good at first and after every step.                       *)

LEMMA InitGood == Init => IInv
<1> SUFFICES ASSUME Init PROVE IInv
  OBVIOUS
<1>1. /\ lib.lavabuf = [start |-> FALSE, data |-> <<>>, size |-> MIN_BUF_SIZE]
      /\ lib.served = 0 /\ lib.spent = {}
  BY DEF Init, lib_static
<1>2. Memory(lib)
  BY <1>1, FetchAssumption, EmptySeq DEF Memory
<1>3. DOMAIN lib.lavabuf.data = {}
  BY <1>1, EmptySeq, LenProperties
<1>4. Apart(lib)
  BY <1>1, <1>3 DEF Apart, Numbers
<1>5. Proper(call)
  BY NothingIsSeq DEF Init, Proper, no_call
<1> QED BY <1>2, <1>4, <1>5 DEF IInv, Good, Init

LEMMA NewCall ==
  ASSUME IInv, NEW callback, NEW n \in Nat, NEW roll, NEW c,
         c = new_call(callback, n, roll), start_call(c)
  PROVE  IInv'
<1>1. DOMAIN c = DOMAIN no_call /\ c.len = n /\ c.out = <<>>
  BY DEF new_call, no_call
<1> QED BY <1>1, StartKeeps

\* randomcpy() refuses a request of nothing.
LEMMA NoneAsked ==
  ASSUME NEW c, NEW n, randomcpy(c, n), n \in Nat, ~(n > 0)
  PROVE  /\ lib' = [lib EXCEPT !.lastop_errno = "FAILED"]
         /\ call' = [new_call(c, n, FALSE) EXCEPT !.pc = "returned"]
         /\ n = 0 /\ call.pc = "idle"
BY DEF randomcpy

LEMMA Asked ==
  ASSUME NEW c, NEW n, randomcpy(c, n), n \in Nat, n > 0
  PROVE  call.pc = "idle" /\ start_call(new_call(c, n, FALSE))
<1>1. n # 0
  OBVIOUS
<1> QED BY <1>1 DEF randomcpy

LEMMA NoneAskedKeeps ==
  ASSUME IInv, NEW c, NEW n, randomcpy(c, n), n \in Nat, ~(n > 0)
  PROVE  IInv'
<1>1. Good(lib')
  <2>0. lib' = [lib EXCEPT !.lastop_errno = "FAILED"]
    BY NoneAsked
  <2>1. Like(lib', lib)
    BY <2>0, FieldsAre DEF Like, Good, Fields, IInv
  <2> QED BY <2>1, LikeGood DEF IInv
<1>2. Proper(call')
  <2>0. call' = [new_call(c, n, FALSE) EXCEPT !.pc = "returned"]
    BY NoneAsked
  <2>1. /\ DOMAIN call' = DOMAIN no_call /\ call'.pc = "returned" /\ call'.len = n
        /\ call'.out = <<>>
    BY <2>0 DEF new_call, no_call
  <2> QED BY <2>1, NothingIsSeq, EmptySeq DEF Proper
<1> QED BY <1>1, <1>2 DEF IInv

LEMMA FetchKeeps == ASSUME IInv, fetch PROVE IInv'
<1>1. wanting \in Nat
  BY Wanting DEF fetch, IInv
<1>2. PICK o \in obtain(lib, call.callback, wanting) :
        IF o.ok THEN took(o)
        ELSE lib' = o.m /\ call' = [call EXCEPT !.pc = "failed"]
  BY DEF fetch
<1>3. Good(o.m) /\ IsSeq(o.got)
  <2>1. CASE o \in raw_s100lava(lib, wanting, MinQual[call.callback])
    BY <1>1, <2>1, RawS100lava DEF IInv
  <2>2. CASE o \in raw_lavapool(lib, TRUE, wanting)
    <3>1. TRUE \in BOOLEAN
      OBVIOUS
    <3> QED BY <1>1, <2>2, <3>1, RawLavapool, Zenon DEF IInv
  <2> QED BY <2>1, <2>2 DEF obtain
<1>4. CASE o.ok
  BY <1>2, <1>3, <1>4, TookKeeps
<1>5. CASE ~o.ok
  <2>1. Good(lib')
    BY <1>2, <1>3, <1>5
  <2>2. /\ DOMAIN call' = DOMAIN call
        /\ call'.len = call.len /\ call'.out = call.out
    BY <1>2, <1>5, CallIs DEF IInv, Proper
  <2> QED BY <2>1, <2>2, MovesOn DEF fetch
<1> QED BY <1>4, <1>5

\* What falls back on s100.
LEMMA FallBack ==
  ASSUME IInv, call.pc = "failed", NEW minqual, NEW o \in raw_s100lava(lib, wanting, minqual)
  PROVE  Good(o.m) /\ IsSeq(o.got)
BY Wanting, RawS100lava DEF IInv

LEMMA FailedKeeps ==
  ASSUME IInv, failed_exit \/ failed_retry \/ failed_return \/ failed_try \/ failed_s100
  PROVE  IInv'
<1>1. CASE failed_exit
  BY <1>1, Exits, TriesAgain DEF failed_exit
<1>2. CASE failed_retry
  BY <1>2, TriesAgain DEF failed_retry
<1>3. CASE failed_return
  BY <1>3, GivesUp, TriesAgain DEF failed_return, IInv
<1>4. CASE failed_try
  <2>1. PICK o \in raw_s100lava(lib, wanting, MinQual[call.callback]) :
          IF o.ok THEN took(o) ELSE give_up(o.m)
    BY <1>4 DEF failed_try
  <2>2. Good(o.m) /\ IsSeq(o.got)
    BY <1>4, FallBack DEF failed_try
  <2> QED BY <2>1, <2>2, TookKeeps, GivesUp
<1>5. CASE failed_s100
  BY <1>5, GivesUp DEF failed_s100, IInv
<1> QED BY <1>1, <1>2, <1>3, <1>4, <1>5

LEMMA CallbackReturnKeeps == ASSUME IInv, callback_return PROVE IInv'
<1>1. PICK o \in raw_s100lava(lib, wanting, NONE) :
        IF o.ok THEN took([o EXCEPT !.m = set_errno(@, "COUNT")]) ELSE give_up(o.m)
  BY DEF callback_return
<1>2. Good(o.m) /\ IsSeq(o.got)
  BY FallBack DEF callback_return
<1>3. CASE o.ok
  <2> DEFINE p == [o EXCEPT !.m = set_errno(o.m, "COUNT")]
  <2>1. p.m = set_errno(o.m, "COUNT") /\ p.got = o.got
    BY S100Outcome
  <2>2. took(p)
    BY <1>1, <1>3
  <2> HIDE DEF p
  <2>3. Good(p.m) /\ IsSeq(p.got)
    BY <1>2, <2>1, NewErrno
  <2> QED BY <2>2, <2>3, TookKeeps
<1>4. CASE ~o.ok
  BY <1>1, <1>2, <1>4, GivesUp
<1> QED BY <1>3, <1>4

LEMMA CallbackS100Keeps == ASSUME IInv, NEW q, callback_s100(q) PROVE IInv'
<1>1. PICK o \in raw_s100lava(lib, wanting, q) :
        IF o.ok THEN took(o) ELSE lib' = fails(o.m) /\ call' = [call EXCEPT !.pc = "fetch"]
  BY DEF callback_s100
<1>2. Good(o.m) /\ IsSeq(o.got)
  BY FallBack DEF callback_s100
<1>3. CASE o.ok
  BY <1>1, <1>2, <1>3, TookKeeps
<1>4. CASE ~o.ok
  <2>1. Good(lib')
    BY <1>1, <1>2, <1>4, Errors
  <2>2. /\ DOMAIN call' = DOMAIN call
        /\ call'.len = call.len /\ call'.out = call.out
    BY <1>1, <1>4, CallIs DEF IInv, Proper
  <2> QED BY <2>1, <2>2, MovesOn DEF callback_s100
<1> QED BY <1>3, <1>4

LEMMA WorkingKeeps == ASSUME IInv, working PROVE IInv'
<1>1. CASE callback_exit
  BY <1>1, Exits DEF callback_exit
<1>2. CASE callback_pause
  BY <1>2, TriesAgain DEF callback_pause
<1> QED BY <1>1, <1>2, FetchKeeps, FailedKeeps, CallbackReturnKeeps, CallbackS100Keeps DEF working

\* A call begins or ends, and the library is used without one.
LEMMA EndsKeep ==
  ASSUME IInv, answered \/ roll_done \/ fetchlava_cleanup
  PROVE  IInv'
<1>1. Proper(no_call)
  BY NothingIsSeq DEF Proper, no_call
<1>2. CASE answered
  BY <1>1, <1>2 DEF answered, IInv
<1>3. CASE roll_done
  <2>1. Like(lib', lib)
    BY <1>3, FieldsAre DEF roll_done, Like, Good, Fields, IInv
  <2>2. Good(lib')
    BY <2>1, LikeGood DEF IInv
  <2> QED BY <1>1, <1>3, <2>2 DEF roll_done, IInv
<1>4. CASE fetchlava_cleanup
  <2>1. /\ DOMAIN lib' = Fields /\ lib'.served = lib.served /\ lib'.spent = lib.spent
        /\ lib'.lavabuf = [start |-> FALSE, data |-> <<>>, size |-> MIN_BUF_SIZE]
    BY <1>4, FieldsAre DEF fetchlava_cleanup, lib_static, Good, Fields, IInv
  <2>2. Memory(lib')
    BY <2>1, FetchAssumption, EmptySeq DEF Memory, Good, IInv
  <2>3. DOMAIN lib'.lavabuf.data = {}
    BY <2>1, EmptySeq, LenProperties
  <2>4. Apart(lib')
    BY <2>1, <2>3 DEF Apart, Numbers, Good, IInv
  <2>5. Good(lib')
    BY <2>1, <2>2, <2>4 DEF Good, Fields
  <2> QED BY <1>4, <2>5 DEF fetchlava_cleanup, IInv
<1> QED BY <1>2, <1>3, <1>4

LEMMA PreloadKeeps ==
  ASSUME IInv, NEW n \in PreloadLens, NEW s \in BOOLEAN, preload(n, s)
  PROVE  IInv'
<1>1. n \in Int
  BY FetchAssumption
<1>2. Good(lib')
  <2>1. Good(fails(lib)) /\ \A mc \in configured(lib) : Good(mc)
    BY Errors, Configured DEF IInv
  <2> QED BY <1>1, <2>1, LavaPreload DEF preload
<1> QED BY <1>2 DEF preload, IInv

LEMMA NextGood == IInv /\ [Next]_vars => IInv'
<1> SUFFICES ASSUME IInv, [Next]_vars PROVE IInv'
  OBVIOUS
<1>1. Lens \subseteq Nat /\ Dice \subseteq Nat
  BY FetchAssumption
<1>2. ASSUME NEW c \in Callbacks, NEW n \in Lens, randomcpy(c, n) PROVE IInv'
  <2> DEFINE begun == new_call(c, n, FALSE)
  <2>1. n \in Nat /\ (n > 0 => start_call(begun))
    BY <1>1, <1>2, Asked
  <2>2. begun = new_call(c, n, FALSE)
    OBVIOUS
  <2> HIDE DEF begun
  <2>3. CASE n > 0
    <3>1. start_call(begun)
      BY <2>1, <2>3
    <3> QED BY <2>1, <2>2, <3>1, NewCall, Zenon
  <2>4. CASE ~(n > 0)
    BY <1>2, <2>1, <2>4, NoneAskedKeeps
  <2> QED BY <2>3, <2>4
<1>3. ASSUME NEW c \in Callbacks, NEW n \in Dice, random_val(c, n) PROVE IInv'
  <2> DEFINE begun == new_call(c, n, TRUE)
  <2>1. n \in Nat /\ start_call(begun)
    BY <1>1, <1>3 DEF random_val
  <2>2. begun = new_call(c, n, TRUE)
    OBVIOUS
  <2> HIDE DEF begun
  <2> QED BY <2>1, <2>2, NewCall, Zenon
<1>4. CASE roll_again
  <2>1. PICK e : start_call([new_call(call.callback, call.len, TRUE) EXCEPT !.tmp_errno = e])
    BY <1>4 DEF roll_again
  <2> DEFINE c == [new_call(call.callback, call.len, TRUE) EXCEPT !.tmp_errno = e]
  <2>2. DOMAIN c = DOMAIN no_call /\ c.len = call.len /\ c.out = <<>>
    BY DEF new_call, no_call
  <2>3. start_call(c)
    BY <2>1
  <2> HIDE DEF c
  <2> QED BY <2>2, <2>3, StartKeeps DEF IInv, Proper
<1>5. CASE UNCHANGED vars
  BY <1>5 DEF vars, IInv, Proper
<1> QED
  BY <1>2, <1>3, <1>4, <1>5, WorkingKeeps, EndsKeep, PreloadKeeps DEF Next

\* An octet of the daemon is in the buffer once, and no longer when it has been
\* given to a caller or used in a seed, whatever failed, for buffers, requests,
\* exchanges and seeds of every size: raw_lavapool(), lava_preload() and
\* raw_s100lava() account for it (lib/fetchlava.c:879).
THEOREM OctetsUsedOnce == Spec => []NoOctetReused
<1>1. Good(lib) => NoOctetReused
  BY DEF Good, Apart, NoOctetReused
<1>2. IInv => NoOctetReused
  BY <1>1 DEF IInv
<1> QED
  BY <1>2, InitGood, NextGood, PTL DEF Spec

-----------------------------------------------------------------------------
(* What the s100 generator makes (lib/s100.c).                             *)

LEMMA S100Constants ==
  /\ S100_RESEED_CYCLES \in Nat \ {0} /\ S100_BUF \in Nat \ {0} /\ SEED_SIZE \in Nat \ {0}
  /\ NONE = 0 /\ S100LOW = 1 /\ S100MED = 2 /\ S100HIGH = 3 /\ LAVARND = 4 /\ Quality = 0 .. 4
BY S100Assumption DEF NONE, S100LOW, S100MED, S100HIGH, LAVARND, Quality

LEMMA GeneratorIs ==
  ASSUME NEW g, Generator(g)
  PROVE  /\ g.seeded \in BOOLEAN /\ g.nextspin \in 0 .. S100_RESEED_CYCLES
         /\ g.seed_len \in 0 .. SEED_SIZE /\ g.rndbuf_len \in 0 .. S100_BUF
         /\ g.bufqual \in 0 .. 4 /\ (g.rndbuf_len > 0 => g.bufqual \in 1 .. 3)
         /\ g.nextspin \in Nat /\ g.rndbuf_len \in Nat /\ g.seed_len \in Nat
BY S100Constants DEF Generator, S100State

\* A generator that has just been given a seed, or the default one.
LEMMA Loaded ==
  ASSUME NEW g, Generator(g), NEW len \in Nat
  PROVE  /\ Generator(s100_load(g, len))
         /\ s100_load(g, len).seeded /\ s100_load(g, len).rndbuf_len = 0
         /\ s100_load(g, len).nextspin = S100_RESEED_CYCLES
         /\ len = 0 => s100_load(g, len).seed_len = 0
<1> DEFINE h == s100_load(g, len)
           n == IF len >= SEED_SIZE THEN SEED_SIZE ELSE len
<1>1. g \in S100State /\ n \in 0 .. SEED_SIZE /\ (len = 0 => n = 0)
  BY S100Constants DEF Generator
<1>2. S100_RESEED_CYCLES \in 0 .. S100_RESEED_CYCLES /\ 0 \in 0 .. S100_BUF
  BY S100Constants
<1>3. h = [g EXCEPT !.seeded = TRUE, !.nextspin = S100_RESEED_CYCLES, !.rndbuf_len = 0,
                    !.seed_len = n]
  BY DEF s100_load
<1> HIDE DEF h, n
<1>4. /\ h \in S100State /\ h.seeded /\ h.rndbuf_len = 0
      /\ h.nextspin = S100_RESEED_CYCLES /\ h.seed_len = n
  BY <1>1, <1>2, <1>3 DEF S100State
<1> QED BY <1>1, <1>4 DEF Generator, h

LEMMA SeedQuality ==
  ASSUME NEW g, Generator(g), NEW k
  PROVE  /\ seed_quality(g, k) \in 1 .. 3
         /\ g.seeded /\ g.seed_len = 0 => seed_quality(g, k) = 1
         /\ \A j : seed_quality(g, j) - 1 <= seed_quality(g, k)
BY S100Constants, GeneratorIs DEF seed_quality

LEMMA GeneratorQuality ==
  ASSUME NEW g, Generator(g)
  PROVE  /\ s100_quality(g) \in 1 .. 3
         /\ s100_quality(g) <= seed_quality(g, g.nextspin)
         /\ g.rndbuf_len > 0 => s100_quality(g) <= g.bufqual
<1>1. seed_quality(g, g.nextspin) \in 1 .. 3
  BY SeedQuality
<1>2. /\ g.bufqual \in 0 .. 4 /\ (g.rndbuf_len > 0 => g.bufqual \in 1 .. 3)
      /\ g.rndbuf_len \in Nat
  BY GeneratorIs
<1> QED BY <1>1, <1>2, S100Constants DEF s100_quality

\* A division that is rounded up.
LEMMA RoundedUp ==
  ASSUME NEW a \in Nat \ {0}, NEW b \in Nat \ {0}
  PROVE  /\ (a + b - 1) \div b \in Nat \ {0}
         /\ ((a + b - 1) \div b) * b - a \in 0 .. b - 1
<1> DEFINE q == (a + b - 1) \div b
<1>1. q \in Int /\ b * q <= a + b - 1 /\ a + b - 1 < b * q + b
  OBVIOUS
<1>2. q > 0
  <2> HIDE DEF q
  <2> SUFFICES ASSUME q <= 0 PROVE FALSE
    BY <1>1
  <2>1. b * q <= 0
    BY <1>1
  <2> QED BY <1>1, <2>1
<1>3. q * b = b * q /\ b * q \in Int
  BY <1>1
<1> HIDE DEF q
<1>4. q \in Nat \ {0} /\ q * b - a \in 0 .. b - 1
  BY <1>1, <1>2, <1>3
<1> QED BY <1>4 DEF q

\* How many turns a copy of len octets takes.
LEMMA Turns ==
  ASSUME NEW g, Generator(g), NEW len \in Nat
  PROVE  /\ len <= g.rndbuf_len => turns(g, len) = 0
         /\ len > g.rndbuf_len =>
              /\ turns(g, len) \in Nat \ {0}
              /\ g.rndbuf_len + turns(g, len) * S100_BUF - len \in 0 .. S100_BUF - 1
<1>1. g.rndbuf_len \in Nat /\ S100_BUF \in Nat \ {0}
  BY GeneratorIs, S100Constants
<1>2. CASE len <= g.rndbuf_len
  BY <1>1, <1>2 DEF turns
<1>3. CASE len > g.rndbuf_len
  <2> DEFINE a == len - g.rndbuf_len
             q == (a + S100_BUF - 1) \div S100_BUF
  <2>1. a \in Nat \ {0}
    BY <1>1, <1>3
  <2>2. turns(g, len) = q
    BY <1>1, <1>3 DEF turns
  <2>3. q \in Nat \ {0} /\ q * S100_BUF - a \in 0 .. S100_BUF - 1
    <3> HIDE DEF a
    <3> QED BY <1>1, <2>1, RoundedUp
  <2> HIDE DEF q
  <2>4. q * S100_BUF \in Nat
    BY <1>1, <2>3
  <2> QED BY <1>1, <1>3, <2>2, <2>3, <2>4
<1> QED BY <1>1, <1>2, <1>3

LEMMA Copied ==
  ASSUME NEW g, Generator(g), NEW len \in Nat
  PROVE  Generator(s100_randomcpy(g, len))
<1> DEFINE n == turns(g, len)
           h == s100_randomcpy(g, len)
<1>1. /\ g \in S100State /\ g.rndbuf_len \in 0 .. S100_BUF
      /\ g.nextspin \in 0 .. S100_RESEED_CYCLES /\ (g.rndbuf_len > 0 => g.bufqual \in 1 .. 3)
  BY GeneratorIs DEF Generator
<1>2. CASE len <= g.rndbuf_len
  <2>1. h = [g EXCEPT !.rndbuf_len = g.rndbuf_len - len]
    BY <1>2, Turns DEF s100_randomcpy
  <2>2. g.rndbuf_len - len \in 0 .. S100_BUF /\ (g.rndbuf_len - len > 0 => g.rndbuf_len > 0)
    BY <1>1, <1>2, S100Constants
  <2> HIDE DEF h
  <2>3. h \in S100State /\ h.rndbuf_len = g.rndbuf_len - len /\ h.bufqual = g.bufqual
    BY <1>1, <2>1, <2>2 DEF S100State
  <2> QED BY <1>1, <2>2, <2>3, S100Constants DEF Generator, h
<1>3. CASE ~ (len <= g.rndbuf_len)
  <2> DEFINE r == g.rndbuf_len + n * S100_BUF - len
             k == s100_turn(g, n)
             b == seed_quality(g, s100_turn(g, n - 1))
  <2>1. n \in Nat \ {0} /\ r \in 0 .. S100_BUF - 1
    <3>1. len > g.rndbuf_len
      BY <1>1, <1>3
    <3> QED BY <3>1, Turns
  <2>2. h = [g EXCEPT !.rndbuf_len = r, !.nextspin = k, !.bufqual = b]
    BY <2>1 DEF s100_randomcpy
  <2>3. k \in 0 .. S100_RESEED_CYCLES
    <3> HIDE DEF n
    <3> QED BY <1>1, <2>1, S100Constants DEF s100_turn
  <2>4. b \in 1 .. 3
    BY SeedQuality
  <2>5. r \in 0 .. S100_BUF /\ b \in Quality
    <3> HIDE DEF r, b
    <3> QED BY <2>1, <2>4, S100Constants
  <2> HIDE DEF h, n, r, k, b
  <2>6. h \in S100State /\ h.bufqual = b
    BY <1>1, <2>2, <2>3, <2>5 DEF S100State
  <2> QED BY <2>4, <2>6, S100Constants DEF Generator, h
<1> QED BY <1>1, <1>2, <1>3

\* An octet that is copied while the seed lasts is worth no less than the
\* generator was said to be, and a later one is at most one class poorer; one of
\* the default seed is worth what that is.
LEMMA Worth ==
  ASSUME NEW g, Generator(g), NEW i \in Nat \ {0}
  PROVE  /\ octet_quality(g, i) \in 1 .. 3
         /\ s100_quality(g) - 1 <= octet_quality(g, i)
         /\ 0 < s100_loadleft(g) /\ i <= s100_loadleft(g) => s100_quality(g) <= octet_quality(g, i)
         /\ g.seeded /\ g.seed_len = 0 /\ g.rndbuf_len = 0 =>
              octet_quality(g, i) = 1 /\ s100_quality(g) = 1
<1>0. /\ g.rndbuf_len \in Nat /\ g.nextspin \in Nat /\ S100_BUF \in Nat \ {0}
      /\ g.bufqual \in 0 .. 4 /\ (g.rndbuf_len > 0 => g.bufqual \in 1 .. 3)
  BY GeneratorIs, S100Constants
<1>1. CASE i <= g.rndbuf_len
  BY <1>0, <1>1, GeneratorQuality DEF octet_quality
<1>2. CASE ~ (i <= g.rndbuf_len)
  <2> DEFINE n == turns(g, i)
             k == s100_turn(g, n - 1)
  <2>1. octet_quality(g, i) = seed_quality(g, k)
    BY <1>2 DEF octet_quality
  <2>2. seed_quality(g, k) \in 1 .. 3
    BY SeedQuality
  <2>3. /\ n \in Nat \ {0}
        /\ g.rndbuf_len + n * S100_BUF - i \in 0 .. S100_BUF - 1
    <3>1. i > g.rndbuf_len
      BY <1>0, <1>2
    <3> QED BY <3>1, Turns
  <2>6. s100_quality(g) - 1 <= seed_quality(g, k)
    <3>1. seed_quality(g, g.nextspin) - 1 <= seed_quality(g, k)
      BY SeedQuality
    <3>2. /\ s100_quality(g) \in 1 .. 3 /\ s100_quality(g) <= seed_quality(g, g.nextspin)
          /\ seed_quality(g, g.nextspin) \in 1 .. 3
      BY GeneratorQuality, SeedQuality
    <3> HIDE DEF k
    <3> QED BY <2>2, <3>1, <3>2
  <2>4. ASSUME 0 < s100_loadleft(g), i <= s100_loadleft(g)
        PROVE  s100_quality(g) <= seed_quality(g, k)
    <3>1. g.seeded /\ i <= g.nextspin * S100_BUF + g.rndbuf_len
      BY <2>4 DEF s100_loadleft
    <3>2. n - 1 < g.nextspin
      <4> HIDE DEF n
      <4> SUFFICES ASSUME n - 1 >= g.nextspin PROVE FALSE
        BY <1>0, <2>3
      <4>1. /\ n * S100_BUF = (n - 1) * S100_BUF + S100_BUF
            /\ (n - 1) * S100_BUF \in Nat /\ g.nextspin * S100_BUF \in Nat
        BY <1>0, <2>3
      <4>2. g.nextspin * S100_BUF <= (n - 1) * S100_BUF
        BY <1>0, <2>3
      <4> QED BY <1>0, <2>3, <3>1, <4>1, <4>2
    <3>3. k = g.nextspin - (n - 1) /\ k > 0 /\ g.nextspin > 0
      <4> HIDE DEF n
      <4> QED BY <1>0, <2>3, <3>2 DEF s100_turn
    <3> HIDE DEF k
    <3>4. seed_quality(g, k) = seed_quality(g, g.nextspin)
      BY <3>1, <3>3 DEF seed_quality
    <3> QED BY <3>4, GeneratorQuality
  <2>5. ASSUME g.seeded, g.seed_len = 0, g.rndbuf_len = 0
        PROVE  seed_quality(g, k) = 1 /\ s100_quality(g) = 1
    <3>1. seed_quality(g, k) = 1 /\ seed_quality(g, g.nextspin) = 1
      BY <2>5, SeedQuality
    <3>2. s100_quality(g) \in 1 .. 3 /\ s100_quality(g) <= seed_quality(g, g.nextspin)
      BY GeneratorQuality
    <3> QED BY <3>1, <3>2
  <2> HIDE DEF k
  <2> QED BY <1>0, <1>2, <2>1, <2>2, <2>4, <2>5, <2>6
<1> QED BY <1>1, <1>2

-----------------------------------------------------------------------------
(* What a function of the library leaves behind it.                        *)

\* An exchange with the daemon: octets stay spent, and no error is shown yet.
Talks(m, mm) ==
  /\ m.spent \subseteq mm.spent
  /\ mm.lastop_errno = m.lastop_errno /\ mm.s100_seed_err = m.s100_seed_err

\* Octets stay spent, and an error stays shown.
Later(m, mm) ==
  /\ m.spent \subseteq mm.spent
  /\ mm.lastop_errno \in {m.lastop_errno, "FAILED"}

\* Memory in which only the buffer and what is spent may differ.
RestLike(mm, m) ==
  /\ mm.s100 = m.s100 /\ mm.s100_seed_err = m.s100_seed_err
  /\ mm.octets_to_preseed = m.octets_to_preseed
  /\ mm.daemon_err = m.daemon_err /\ mm.is_cfg = m.is_cfg
  /\ mm.lavarnd_errno = m.lavarnd_errno /\ mm.lastop_errno = m.lastop_errno
  /\ mm.served = m.served

LEMMA RestLikeRest ==
  ASSUME NEW m, Rest(m), NEW mm, RestLike(mm, m)
  PROVE  Rest(mm)
BY DEF Rest, RestLike

LEMMA TalksLater ==
  ASSUME NEW m, NEW mm, Talks(m, mm)
  PROVE  Later(m, mm)
BY DEF Talks, Later

LEMMA LaterTrans ==
  ASSUME NEW a, NEW b, NEW c, Later(a, b), Later(b, c)
  PROVE  Later(a, c)
BY DEF Later

LEMMA TalksTrans ==
  ASSUME NEW a, NEW b, NEW c, Talks(a, b), Talks(b, c)
  PROVE  Talks(a, c)
BY DEF Talks

LEMMA GoodFields == ASSUME NEW m, Good(m) PROVE DOMAIN m = Fields
BY DEF Good, Fields

LEMMA SpendRest ==
  ASSUME NEW m, DOMAIN m = Fields, Rest(m), NEW octets
  PROVE  Rest(spend(m, octets)) /\ Talks(m, spend(m, octets))
<1>1. /\ RestLike(spend(m, octets), m)
      /\ spend(m, octets).spent = m.spent \cup Numbers(octets)
  BY FieldsAre DEF spend, RestLike
<1> QED BY <1>1, RestLikeRest DEF Talks, RestLike

LEMMA BufferRest ==
  ASSUME NEW m, DOMAIN m = Fields, Rest(m), NEW buf
  PROVE  Rest([m EXCEPT !.lavabuf = buf]) /\ Talks(m, [m EXCEPT !.lavabuf = buf])
<1>1. /\ RestLike([m EXCEPT !.lavabuf = buf], m)
      /\ [m EXCEPT !.lavabuf = buf].spent = m.spent
  BY FieldsAre DEF RestLike
<1> QED BY <1>1, RestLikeRest DEF Talks, RestLike

LEMMA OpsServe ==
  ASSUME NEW m, NEW n \in Nat, NEW x \in raw_lavaops(m, n)
  PROVE  x.ok \in BOOLEAN /\ m.served + x.n <= MaxServed
<1>1. CASE x = [n |-> n, ok |-> TRUE]
  BY <1>1, Zenon DEF raw_lavaops
<1>2. ASSUME NEW k, x = [n |-> k * MaxRequest, ok |-> FALSE]
      PROVE  x.ok \in BOOLEAN
  BY <1>2
<1> QED BY <1>1, <1>2, Zenon DEF raw_lavaops

LEMMA TalkedRest ==
  ASSUME NEW m, DOMAIN m = Fields, Rest(m), NEW n \in Nat, NEW x \in raw_lavaops(m, n)
  PROVE  Rest(talked(m, x)) /\ Talks(m, talked(m, x))
<1>1. x.ok \in BOOLEAN /\ m.served + x.n <= MaxServed
  BY OpsServe
<1> DEFINE mm == talked(m, x)
<1>2. /\ mm.s100 = m.s100 /\ mm.s100_seed_err = m.s100_seed_err
      /\ mm.octets_to_preseed = m.octets_to_preseed
      /\ mm.daemon_err = (m.daemon_err \/ ~x.ok) /\ mm.is_cfg = m.is_cfg
      /\ mm.lavarnd_errno = m.lavarnd_errno /\ mm.lastop_errno = m.lastop_errno
      /\ mm.served = m.served + x.n /\ mm.spent = m.spent
  BY FieldsAre DEF talked
<1> HIDE DEF mm
<1>3. mm.daemon_err \in BOOLEAN
  BY <1>1, <1>2 DEF Rest
<1>4. Rest(mm)
  BY <1>1, <1>2, <1>3 DEF Rest
<1>5. Talks(m, mm)
  BY <1>2 DEF Talks
<1> QED BY <1>4, <1>5 DEF mm

-----------------------------------------------------------------------------
(* What a function that fetches brings.                                    *)

Distinct(s) == \A i, j \in DOMAIN s : i # j => s[i] # s[j]

\* All n octets, each new to the program and spent from now on.
Delivers(m, n, o) ==
  o.ok => \E s \in Seq(Nat) :
            /\ o.got = lava_octets(s) /\ o.qual = LAVARND /\ Len(s) = n /\ Distinct(s)
            /\ Numbers(s) \subseteq o.m.spent /\ Numbers(s) \cap m.spent = {}

LEMMA JoinDistinct ==
  ASSUME NEW s \in Seq(Nat), NEW t \in Seq(Nat), Distinct(s), Distinct(t),
         Numbers(s) \cap Numbers(t) = {}
  PROVE  /\ s \o t \in Seq(Nat) /\ Len(s \o t) = Len(s) + Len(t)
         /\ Distinct(s \o t) /\ Numbers(s \o t) \subseteq Numbers(s) \cup Numbers(t)
<1> DEFINE u == s \o t
<1>1. /\ u \in Seq(Nat) /\ Len(u) = Len(s) + Len(t)
      /\ \A i \in 1 .. Len(s) + Len(t) : u[i] = IF i <= Len(s) THEN s[i] ELSE t[i - Len(s)]
  BY ConcatNat
<1>2. /\ Len(s) \in Nat /\ Len(t) \in Nat
      /\ DOMAIN s = 1 .. Len(s) /\ DOMAIN t = 1 .. Len(t)
  BY LenProperties
<1>3. DOMAIN u = 1 .. Len(s) + Len(t)
  BY <1>1, LenProperties
<1> HIDE DEF u
<1>4. \A i \in DOMAIN u :
         \/ i \in DOMAIN s /\ u[i] = s[i]
         \/ i - Len(s) \in DOMAIN t /\ u[i] = t[i - Len(s)]
  BY <1>1, <1>2, <1>3
<1>5. (\A i \in DOMAIN s : s[i] \in Numbers(s)) /\ (\A i \in DOMAIN t : t[i] \in Numbers(t))
  BY DEF Numbers
<1>6. Numbers(u) \subseteq Numbers(s) \cup Numbers(t)
  <2>1. \A i \in DOMAIN u : u[i] \in Numbers(s) \cup Numbers(t)
    BY <1>4, <1>5
  <2> QED BY <2>1 DEF Numbers
<1>7. \A i \in DOMAIN s, j \in DOMAIN t : s[i] # t[j]
  BY <1>5
<1>8. Distinct(u)
  <2> SUFFICES ASSUME NEW i \in DOMAIN u, NEW j \in DOMAIN u, i # j PROVE u[i] # u[j]
    BY DEF Distinct
  <2>1. CASE (i \in DOMAIN s /\ u[i] = s[i]) /\ (j \in DOMAIN s /\ u[j] = s[j])
    BY <2>1 DEF Distinct
  <2>2. CASE /\ i - Len(s) \in DOMAIN t /\ u[i] = t[i - Len(s)]
             /\ j - Len(s) \in DOMAIN t /\ u[j] = t[j - Len(s)]
    <3>1. i - Len(s) # j - Len(s)
      BY <1>2, <1>3
    <3> QED BY <2>2, <3>1 DEF Distinct
  <2> QED BY <1>4, <1>7, <2>1, <2>2
<1> QED BY <1>1, <1>6, <1>8 DEF u

LEMMA LastDistinct ==
  ASSUME NEW s \in Seq(Nat), NEW n \in 0 .. Len(s), Distinct(s)
  PROVE  /\ last(s, n) \in Seq(Nat) /\ Len(last(s, n)) = n
         /\ Distinct(last(s, n)) /\ Numbers(last(s, n)) \subseteq Numbers(s)
<1> DEFINE t == last(s, n)
<1>1. /\ t \in Seq(Nat) /\ Len(t) = n /\ Numbers(t) \subseteq Numbers(s)
      /\ \A i \in 1 .. n : t[i] = s[Len(s) - n + i]
  BY CutTypes, CutApart DEF Distinct
<1>2. Len(s) \in Nat /\ DOMAIN s = 1 .. Len(s) /\ DOMAIN t = 1 .. n
  BY <1>1, LenProperties
<1> HIDE DEF t
<1>3. ASSUME NEW i \in 1 .. n, NEW j \in 1 .. n, i # j
      PROVE  t[i] # t[j]
  <2> DEFINE a == Len(s) - n + i
             b == Len(s) - n + j
  <2>1. a \in DOMAIN s /\ b \in DOMAIN s /\ a # b
    BY <1>2, <1>3
  <2>2. t[i] = s[a] /\ t[j] = s[b]
    BY <1>1
  <2> HIDE DEF a, b
  <2> QED BY <2>1, <2>2 DEF Distinct
<1>4. Distinct(t)
  BY <1>2, <1>3 DEF Distinct
<1> QED BY <1>1, <1>4 DEF t

LEMMA DirectDelivers ==
  ASSUME NEW m, Good(m), Rest(m), NEW first \in Seq(Nat), NEW n \in Nat,
         Distinct(first), Numbers(first) \subseteq m.spent,
         NEW o \in direct_transfer(m, first, n)
  PROVE  /\ Rest(o.m) /\ Talks(m, o.m)
         /\ o.ok => \E s \in Seq(Nat) :
                      /\ o.got = lava_octets(s) /\ o.qual = LAVARND
                      /\ Len(s) = Len(first) + n /\ Distinct(s)
                      /\ Numbers(s) \subseteq o.m.spent
                      /\ \A k \in Numbers(s) : k \in Numbers(first) \/ k \notin m.spent
<1>1. PICK x \in raw_lavaops(m, n) :
          LET mx == spend(talked(m, x), brought(m, x))
          IN o = IF x.ok THEN Outcome(lava_octets(first \o brought(m, x)), LAVARND, mx)
                         ELSE Failure(mx)
  BY DEF direct_transfer
<1> DEFINE mx == spend(talked(m, x), brought(m, x))
           all == lava_octets(first \o brought(m, x))
           b == brought(m, x)
<1>2. /\ o.m = mx /\ (o.ok => x.ok)
      /\ o.ok => o.got = all /\ o.qual = LAVARND
  <2> HIDE DEF mx, all
  <2>1. (x.ok /\ o = Outcome(all, LAVARND, mx)) \/ (~x.ok /\ o = Failure(mx))
    BY <1>1, OpsServe DEF mx, all
  <2> QED BY <2>1 DEF Outcome, Failure
<1>3. DOMAIN m = Fields /\ m.served \in Nat
  BY DEF Good, Fields, Memory
<1>4. /\ DOMAIN talked(m, x) = Fields /\ talked(m, x).spent = m.spent
      /\ Rest(talked(m, x)) /\ Talks(m, talked(m, x))
  BY <1>3, TalkedIs, TalkedRest
<1>5. /\ Rest(mx) /\ Talks(talked(m, x), mx) /\ mx.spent = m.spent \cup Numbers(b)
  BY <1>4, SpendRest, SpendIs
<1>6. x.n \in Nat /\ (x.ok => x.n = n)
  BY OpsBring
<1>7. /\ b \in Seq(Nat) /\ Len(b) = x.n
      /\ \A i \in 1 .. x.n : b[i] = m.served + i
      /\ Numbers(b) \subseteq m.served + 1 .. m.served + x.n
  BY <1>3, <1>6, BroughtIsNew
<1> HIDE DEF b, mx
<1>8. Distinct(b)
  <2>1. DOMAIN b = 1 .. x.n
    BY <1>7, LenProperties
  <2> QED BY <1>3, <1>7, <2>1 DEF Distinct
<1>9. \A k \in Numbers(b) : k \notin m.spent
  <2>1. m.spent \subseteq 1 .. m.served
    BY DEF Good, Apart
  <2>2. \A k \in m.served + 1 .. m.served + x.n : k \notin 1 .. m.served
    BY <1>3, <1>6
  <2> QED BY <1>7, <2>1, <2>2
<1>10. /\ first \o b \in Seq(Nat) /\ Len(first \o b) = Len(first) + x.n
       /\ Distinct(first \o b) /\ Numbers(first \o b) \subseteq Numbers(first) \cup Numbers(b)
  <2>1. Numbers(first) \cap Numbers(b) = {}
    BY <1>9
  <2>2. /\ first \o b \in Seq(Nat) /\ Len(first \o b) = Len(first) + Len(b)
        /\ Distinct(first \o b) /\ Numbers(first \o b) \subseteq Numbers(first) \cup Numbers(b)
    BY <1>7, <1>8, <2>1, JoinDistinct
  <2> QED BY <1>7, <2>2
<1>11. o.ok => \E s \in Seq(Nat) :
                      /\ o.got = lava_octets(s) /\ o.qual = LAVARND
                      /\ Len(s) = Len(first) + n /\ Distinct(s)
                      /\ Numbers(s) \subseteq o.m.spent
                      /\ \A k \in Numbers(s) : k \in Numbers(first) \/ k \notin m.spent
  <2> SUFFICES ASSUME o.ok
               PROVE \E s \in Seq(Nat) :
                      /\ o.got = lava_octets(s) /\ o.qual = LAVARND
                      /\ Len(s) = Len(first) + n /\ Distinct(s)
                      /\ Numbers(s) \subseteq o.m.spent
                      /\ \A k \in Numbers(s) : k \in Numbers(first) \/ k \notin m.spent
    OBVIOUS
  <2>1. o.got = lava_octets(first \o b) /\ o.qual = LAVARND /\ x.n = n
    BY <1>2, <1>6 DEF b
  <2>2. Numbers(first \o b) \subseteq o.m.spent
    BY <1>2, <1>5, <1>10
  <2>3. \A k \in Numbers(first \o b) : k \in Numbers(first) \/ k \notin m.spent
    BY <1>9, <1>10
  <2> HIDE DEF all
  <2> QED BY <1>6, <1>10, <2>1, <2>2, <2>3, Zenon
<1> QED BY <1>2, <1>4, <1>5, <1>11, TalksTrans

LEMMA BufferDelivers ==
  ASSUME NEW m, Good(m), Rest(m), NEW caller \in BOOLEAN, NEW first \in Seq(Nat), NEW n \in Nat,
         caller => n <= m.lavabuf.size,
         Distinct(first), Numbers(first) \subseteq m.spent,
         NEW o \in buffer_transfer(m, caller, first, n)
  PROVE  /\ Rest(o.m) /\ Talks(m, o.m)
         /\ caller /\ o.ok =>
              \E s \in Seq(Nat) :
                      /\ o.got = lava_octets(s) /\ o.qual = LAVARND
                      /\ Len(s) = Len(first) + n /\ Distinct(s)
                      /\ Numbers(s) \subseteq o.m.spent
                      /\ \A k \in Numbers(s) : k \in Numbers(first) \/ k \notin m.spent
<1> DEFINE room == m.lavabuf.size - Len(m.lavabuf.data)
           data(x) == m.lavabuf.data \o brought(m, x)
           mx(x) == [talked(m, x) EXCEPT !.lavabuf.start = TRUE, !.lavabuf.data = data(x)]
           Good3(oo) == \E s \in Seq(Nat) :
                      /\ oo.got = lava_octets(s) /\ oo.qual = LAVARND
                      /\ Len(s) = Len(first) + n /\ Distinct(s)
                      /\ Numbers(s) \subseteq oo.m.spent
                      /\ \A k \in Numbers(s) : k \in Numbers(first) \/ k \notin m.spent
<1>1. DOMAIN m = Fields /\ room \in Nat /\ Len(m.lavabuf.data) \in Nat /\ m.lavabuf.size \in Nat
  BY LenProperties DEF Good, Memory, Fields
<1>2. ASSUME NEW x \in raw_lavaops(m, room)
      PROVE  /\ Good(mx(x)) /\ Rest(mx(x)) /\ Talks(m, mx(x))
             /\ mx(x).lavabuf.data = data(x) /\ mx(x).spent = m.spent
             /\ x.ok => Len(data(x)) = m.lavabuf.size
  <2>1. x.n \in 0 .. room /\ (x.ok => x.n = room)
    BY <1>1, OpsBring
  <2>2. /\ DOMAIN talked(m, x) = Fields
        /\ talked(m, x).served = m.served + x.n /\ talked(m, x).lavabuf = m.lavabuf
        /\ talked(m, x).spent = m.spent
        /\ Rest(talked(m, x)) /\ Talks(m, talked(m, x))
    BY <1>1, TalkedIs, TalkedRest
  <2>3. /\ DOMAIN mx(x) = Fields /\ mx(x).served = m.served + x.n /\ mx(x).spent = m.spent
        /\ mx(x).lavabuf = filled(m.lavabuf, brought(m, x))
        /\ RestLike(mx(x), talked(m, x))
    BY <2>2, FieldsAre DEF filled, RestLike
  <2>4. mx(x).lavabuf.data = data(x)
    BY <2>3 DEF Good, Memory, filled
  <2> HIDE DEF mx
  <2>5. Good(mx(x)) /\ Len(mx(x).lavabuf.data) = Len(m.lavabuf.data) + x.n
    <3>1. x.n \in Nat /\ x.n <= m.lavabuf.size - Len(m.lavabuf.data)
      BY <1>1, <2>1
    <3> QED BY <2>3, <3>1, FilledGood, Zenon
  <2>6. Rest(mx(x)) /\ Talks(m, mx(x))
    BY <2>2, <2>3, RestLikeRest DEF Talks, RestLike
  <2> QED
    BY <1>1, <2>1, <2>3, <2>4, <2>5, <2>6
<1>4. ASSUME NEW x \in raw_lavaops(m, room),
             o = IF ~x.ok THEN Failure(mx(x))
                 ELSE IF ~caller THEN Outcome(<<>>, LAVARND, mx(x))
                 ELSE Outcome(lava_octets(first \o last(data(x), n)), LAVARND,
                              spend([mx(x) EXCEPT !.lavabuf = cut(@, n)], last(data(x), n)))
      PROVE  Rest(o.m) /\ Talks(m, o.m) /\ (caller /\ o.ok => Good3(o))
  <2> HIDE DEF mx, data, Good3
  <2>1. CASE ~x.ok \/ ~caller
    <3>1. CASE ~x.ok
      <4>1. o = Failure(mx(x))
        BY <1>4, <3>1
      <4> QED BY <1>2, <4>1 DEF Failure
    <3>2. CASE x.ok /\ ~caller
      <4>1. o = Outcome(<<>>, LAVARND, mx(x))
        BY <1>4, <3>2
      <4> QED BY <1>2, <3>2, <4>1 DEF Outcome
    <3> QED BY <2>1, <3>1, <3>2, Zenon
  <2>2. CASE x.ok /\ caller
    <3> DEFINE d   == data(x)
               t   == last(d, n)
               mc  == [mx(x) EXCEPT !.lavabuf = cut(mx(x).lavabuf, n)]
               after == spend(mc, t)
    <3>1. d \in Seq(Nat) /\ n \in 0 .. Len(d)
      <4>1. mx(x).lavabuf.data \in Seq(Nat) /\ mx(x).lavabuf.data = data(x)
        BY <1>2 DEF Good, Memory
      <4>2. Len(data(x)) = m.lavabuf.size /\ n <= m.lavabuf.size
        BY <1>2, <2>2
      <4> QED BY <1>1, <4>1, <4>2
    <3>2. Distinct(d) /\ Numbers(d) \cap m.spent = {}
      BY <1>2 DEF Good, Apart, Distinct
    <3>3. t \in Seq(Nat) /\ Len(t) = n /\ Distinct(t) /\ Numbers(t) \subseteq Numbers(d)
      <4> HIDE DEF d
      <4> QED BY <3>1, <3>2, LastDistinct
    <3>4. o = Outcome(lava_octets(first \o t), LAVARND, after)
      BY <1>4, <2>2, Zenon
    <3>5. /\ DOMAIN mc = Fields /\ Rest(mc) /\ Talks(mx(x), mc) /\ mc.spent = m.spent
      <4> DEFINE p   == mx(x)
                 buf == cut(p.lavabuf, n)
      <4>1. DOMAIN p = Fields /\ Rest(p) /\ p.spent = m.spent
        BY <1>2, GoodFields
      <4>2. mc = [p EXCEPT !.lavabuf = buf]
        OBVIOUS
      <4> HIDE DEF p, buf, mc
      <4>3. DOMAIN mc = Fields /\ mc.spent = p.spent
        BY <4>1, <4>2, NewBuffer
      <4>4. Rest(mc) /\ Talks(p, mc)
        BY <4>1, <4>2, BufferRest
      <4> QED BY <4>1, <4>3, <4>4 DEF p
    <3> HIDE DEF mc, t, d
    <3>6. Rest(after) /\ Talks(mc, after) /\ after.spent = m.spent \cup Numbers(t)
      BY <3>5, SpendRest, SpendIs
    <3> HIDE DEF after
    <3>7. Rest(after) /\ Talks(m, after)
      BY <1>2, <3>5, <3>6, TalksTrans
    <3>8. /\ first \o t \in Seq(Nat) /\ Len(first \o t) = Len(first) + Len(t)
          /\ Distinct(first \o t) /\ Numbers(first \o t) \subseteq Numbers(first) \cup Numbers(t)
      <4>1. Numbers(first) \cap Numbers(t) = {}
        BY <3>2, <3>3
      <4> QED BY <3>3, <4>1, JoinDistinct
    <3>9. o.m = after /\ o.got = lava_octets(first \o t) /\ o.qual = LAVARND
      BY <3>4 DEF Outcome
    <3>10. Numbers(first \o t) \subseteq o.m.spent
      BY <3>6, <3>8, <3>9
    <3>11. \A k \in Numbers(first \o t) : k \in Numbers(first) \/ k \notin m.spent
      BY <3>2, <3>3, <3>8
    <3>12. Len(first \o t) = Len(first) + n
      BY <3>3, <3>8
    <3>13. Good3(o)
      BY <3>8, <3>9, <3>10, <3>11, <3>12, Zenon DEF Good3
    <3> QED BY <3>7, <3>9, <3>13
  <2> QED BY <2>1, <2>2, Zenon
<1>5. Rest(o.m) /\ Talks(m, o.m) /\ (caller /\ o.ok => Good3(o))
  <2> HIDE DEF Good3
  <2>1. \/ o = Failure(m)
        \/ \E x \in raw_lavaops(m, room) :
             o = IF ~x.ok THEN Failure(mx(x))
                 ELSE IF ~caller THEN Outcome(<<>>, LAVARND, mx(x))
                 ELSE Outcome(lava_octets(first \o last(data(x), n)), LAVARND,
                              spend([mx(x) EXCEPT !.lavabuf = cut(@, n)], last(data(x), n)))
    BY DEF buffer_transfer
  <2>2. ASSUME o = Failure(m)
        PROVE  Rest(o.m) /\ Talks(m, o.m) /\ (caller /\ o.ok => Good3(o))
    BY <2>2 DEF Failure, Talks
  <2> QED BY <1>4, <2>1, <2>2
<1> QED BY <1>5

LEMMA LavapoolDelivers ==
  ASSUME NEW m, Good(m), Rest(m), NEW caller \in BOOLEAN, NEW n \in Nat,
         NEW o \in raw_lavapool(m, caller, n)
  PROVE  Rest(o.m) /\ Talks(m, o.m) /\ (caller => Delivers(m, n, o))
<1> DEFINE buf   == m.lavabuf
           able  == IF caller THEN lesser(Len(buf.data), n) ELSE 0
           first == last(buf.data, able)
           rest  == n - able
           left  == IF able = Len(buf.data) THEN used_up(buf) ELSE cut(buf, able)
           mc    == [m EXCEPT !.lavabuf = left]
           mb    == IF able = 0 THEN m ELSE spend(mc, first)
<1>1. DOMAIN m = Fields /\ buf.data \in Seq(Nat) /\ Len(buf.data) \in Nat /\ buf.size \in Nat \ {0}
  BY LenProperties DEF Good, Memory, Fields
<1>2. able \in 0 .. Len(buf.data) /\ rest \in Nat /\ able + rest = n
  BY <1>1 DEF lesser
<1>3. Distinct(buf.data) /\ Numbers(buf.data) \cap m.spent = {}
  BY DEF Good, Apart, Distinct
<1>4. /\ first \in Seq(Nat) /\ Len(first) = able
      /\ Distinct(first) /\ Numbers(first) \subseteq Numbers(buf.data)
  <2> HIDE DEF able
  <2> QED BY <1>1, <1>2, <1>3, LastDistinct
<1>5. /\ Good(mb) /\ mb.lavabuf.size \in Nat /\ buf.size <= mb.lavabuf.size
  <2> HIDE DEF able
  <2>1. CASE able = 0
    BY <1>1, <2>1
  <2>2. CASE able # 0 /\ able = Len(buf.data)
    <3>1. mb = spend([m EXCEPT !.lavabuf = used_up(m.lavabuf)],
                     last(m.lavabuf.data, Len(m.lavabuf.data)))
      BY <2>2
    <3> HIDE DEF mb
    <3>2. Good(mb) /\ mb.lavabuf = used_up(m.lavabuf)
      BY <3>1, TakeAllGood
    <3>3. mb.lavabuf.size = buf.size * 2
      BY <3>2 DEF used_up, BUF_GROW
    <3> QED BY <1>1, <3>2, <3>3
  <2>3. CASE able # 0 /\ able # Len(buf.data)
    <3>1. mb = spend([m EXCEPT !.lavabuf = cut(m.lavabuf, able)], last(m.lavabuf.data, able))
      BY <2>3
    <3> HIDE DEF mb
    <3>2. Good(mb) /\ mb.lavabuf = cut(m.lavabuf, able)
      BY <1>2, <3>1, TakeGood
    <3>3. mb.lavabuf.size = buf.size
      BY <3>2 DEF cut, Good, Memory
    <3> QED BY <1>1, <3>2, <3>3
  <2> QED BY <2>1, <2>2, <2>3
<1>6. o \in IF rest = 0 THEN {Outcome(lava_octets(first), LAVARND, mb)}
             ELSE IF caller /\ rest >= buf.size THEN direct_transfer(mb, first, rest)
             ELSE buffer_transfer(mb, caller, first, rest)
  BY DEF raw_lavapool
<1>7. /\ Rest(mb) /\ Talks(m, mb)
      /\ Numbers(first) \subseteq mb.spent /\ m.spent \subseteq mb.spent
  <2> HIDE DEF able, first, left
  <2>1. CASE able = 0
    <3>1. DOMAIN first = {}
      BY <1>4, <2>1, LenProperties
    <3>2. Numbers(first) = {}
      BY <3>1 DEF Numbers
    <3>3. mb = m
      BY <2>1
    <3> HIDE DEF mb
    <3>4. Rest(m)
      OBVIOUS
    <3> QED BY <3>2, <3>3, <3>4 DEF Talks
  <2>2. CASE able # 0
    <3>1. DOMAIN mc = Fields /\ Rest(mc) /\ Talks(m, mc) /\ mc.spent = m.spent
      BY <1>1, BufferRest, NewBuffer
    <3>2. mb = spend(mc, first)
      BY <2>2
    <3> HIDE DEF mc, mb
    <3>3. Rest(mb) /\ Talks(mc, mb) /\ mb.spent = mc.spent \cup Numbers(first)
      BY <3>1, <3>2, SpendRest, SpendIs
    <3> QED BY <3>1, <3>3, TalksTrans
  <2> QED BY <2>1, <2>2
<1> HIDE DEF mb, mc, left, first, rest, able
<1>8. ASSUME NEW s \in Seq(Nat), o.got = lava_octets(s), o.qual = LAVARND, Len(s) = n, Distinct(s),
             Numbers(s) \subseteq o.m.spent,
             \A k \in Numbers(s) : k \in Numbers(first) \/ k \notin mb.spent
      PROVE  Delivers(m, n, o)
  <2>1. Numbers(s) \cap m.spent = {}
    BY <1>3, <1>4, <1>7, <1>8
  <2> QED BY <1>8, <2>1, Zenon DEF Delivers
<1>9. CASE rest = 0
  <2>1. o = Outcome(lava_octets(first), LAVARND, mb)
    BY <1>6, <1>9
  <2>2. o.m = mb /\ o.got = lava_octets(first) /\ o.qual = LAVARND
    BY <2>1 DEF Outcome
  <2>3. Len(first) = n
    BY <1>2, <1>4, <1>9
  <2>4. Delivers(m, n, o)
    BY <1>4, <1>7, <1>8, <2>2, <2>3
  <2> QED BY <1>7, <2>2, <2>4
<1>10. ASSUME Rest(o.m), Talks(mb, o.m),
              caller /\ o.ok => \E s \in Seq(Nat) :
                      /\ o.got = lava_octets(s) /\ o.qual = LAVARND
                      /\ Len(s) = Len(first) + rest /\ Distinct(s)
                      /\ Numbers(s) \subseteq o.m.spent
                      /\ \A k \in Numbers(s) : k \in Numbers(first) \/ k \notin mb.spent
       PROVE  Rest(o.m) /\ Talks(m, o.m) /\ (caller => Delivers(m, n, o))
  <2>1. Talks(m, o.m)
    BY <1>7, <1>10, TalksTrans
  <2>2. ASSUME caller, o.ok PROVE Delivers(m, n, o)
    <3>1. PICK s \in Seq(Nat) :
                      /\ o.got = lava_octets(s) /\ o.qual = LAVARND
                      /\ Len(s) = Len(first) + rest /\ Distinct(s)
                      /\ Numbers(s) \subseteq o.m.spent
                      /\ \A k \in Numbers(s) : k \in Numbers(first) \/ k \notin mb.spent
      BY <1>10, <2>2
    <3>2. Len(s) = n
      BY <1>2, <1>4, <3>1
    <3> QED BY <1>8, <3>1, <3>2
  <2>3. ~o.ok => Delivers(m, n, o)
    BY DEF Delivers
  <2> QED BY <1>10, <2>1, <2>2, <2>3
<1>11. CASE rest # 0 /\ caller /\ rest >= buf.size
  <2>1. o \in direct_transfer(mb, first, rest)
    BY <1>6, <1>11
  <2> QED BY <1>2, <1>4, <1>5, <1>7, <1>10, <2>1, DirectDelivers
<1>12. CASE rest # 0 /\ ~(caller /\ rest >= buf.size)
  <2>1. caller => rest <= mb.lavabuf.size
    BY <1>1, <1>2, <1>5, <1>12
  <2>2. o \in buffer_transfer(mb, caller, first, rest)
    BY <1>6, <1>12
  <2> QED
    BY <1>2, <1>4, <1>5, <1>7, <1>10, <2>1, <2>2, BufferDelivers
<1> QED BY <1>9, <1>11, <1>12

-----------------------------------------------------------------------------
\* What an octet is worth that comes with others said to be of a quality.
Keeps(octet, quality) == octet.qual >= IF octet.late THEN quality - 1 ELSE quality

\* What an outcome brings a call that asks for n octets no poorer than low.
Answers(m, n, low, o) ==
  o.ok => /\ o.got \in Seq(Octet) /\ Len(o.got) = n
          /\ o.qual \in Quality \ {NONE} /\ o.qual >= low
          /\ \A i \in DOMAIN o.got :
               /\ Keeps(o.got[i], o.qual)
               /\ o.got[i].qual = LAVARND =>
                    /\ o.got[i].n \in o.m.spent /\ o.got[i].n \notin m.spent
                    /\ \A j \in DOMAIN o.got : i # j => o.got[i].n # o.got[j].n

LEMMA DeliveredAnswers ==
  ASSUME NEW m, NEW n \in Nat, NEW low \in Quality, NEW o,
         Good(o.m), Rest(o.m), Delivers(m, n, o)
  PROVE  Answers(m, n, low, o)
<1> SUFFICES ASSUME o.ok PROVE Answers(m, n, low, o)
  BY DEF Answers
<1>1. PICK s \in Seq(Nat) :
            /\ o.got = lava_octets(s) /\ o.qual = LAVARND /\ Len(s) = n /\ Distinct(s)
            /\ Numbers(s) \subseteq o.m.spent /\ Numbers(s) \cap m.spent = {}
  BY DEF Delivers
<1>2. DOMAIN s = 1 .. n /\ \A i \in 1 .. n : s[i] \in Numbers(s)
  BY <1>1, LenProperties DEF Numbers
<1>3. o.m.spent \subseteq 0 .. MaxServed
  <2>1. o.m.spent \subseteq 1 .. o.m.served /\ o.m.served \in Nat /\ o.m.served <= MaxServed
    BY DEF Good, Memory, Apart, Rest
  <2>2. MaxServed \in Nat
    BY FetchAssumption
  <2> QED BY <2>1, <2>2
<1>4. \A i \in 1 .. n : lava_octet(s[i]) \in Octet
  <2>1. \A i \in 1 .. n : s[i] \in 0 .. MaxServed
    BY <1>1, <1>2, <1>3
  <2> QED BY <2>1, S100Constants DEF lava_octet, Octet
<1>5. o.got \in [1 .. n -> Octet]
  BY <1>1, <1>4 DEF lava_octets
<1>6. o.got \in Seq(Octet) /\ Len(o.got) = n /\ DOMAIN o.got = 1 .. n
  BY <1>5, IsASeq, LenProperties
<1>7. \A i \in 1 .. n : o.got[i] = lava_octet(s[i])
  BY <1>1 DEF lava_octets
<1>8. \A i \in 1 .. n : /\ o.got[i].qual = LAVARND /\ o.got[i].late = FALSE
                        /\ o.got[i].n = s[i]
  <2>1. \A k : lava_octet(k).qual = LAVARND /\ lava_octet(k).n = k /\ lava_octet(k).late = FALSE
    BY DEF lava_octet
  <2> QED BY <1>7, <2>1
<1>9. LAVARND >= low /\ LAVARND \in Quality \ {NONE}
  BY S100Constants
<1>10. \A i \in 1 .. n : s[i] \in o.m.spent /\ s[i] \notin m.spent
  BY <1>1, <1>2
<1>11. \A i, j \in 1 .. n : i # j => s[i] # s[j]
  BY <1>1, <1>2 DEF Distinct
<1>12. \A i \in 1 .. n :
         /\ Keeps(o.got[i], o.qual)
         /\ o.got[i].qual = LAVARND =>
              /\ o.got[i].n \in o.m.spent /\ o.got[i].n \notin m.spent
              /\ \A j \in 1 .. n : i # j => o.got[i].n # o.got[j].n
  BY <1>1, <1>8, <1>9, <1>10, <1>11, S100Constants DEF Keeps
<1> QED BY <1>1, <1>6, <1>9, <1>12 DEF Answers

-----------------------------------------------------------------------------
(* What comes of s100.                                                     *)

LEMMA GeneratorRest ==
  ASSUME NEW m, DOMAIN m = Fields, Rest(m), NEW g, Generator(g)
  PROVE  /\ Rest([m EXCEPT !.s100 = g]) /\ Later(m, [m EXCEPT !.s100 = g])
         /\ [m EXCEPT !.s100 = g].s100 = g
BY FieldsAre DEF Rest, Later

LEMMA ErrnoRest ==
  ASSUME NEW m, DOMAIN m = Fields, Rest(m), NEW e \in Errno
  PROVE  /\ DOMAIN set_errno(m, e) = Fields /\ Rest(set_errno(m, e))
         /\ m.spent = set_errno(m, e).spent
         /\ set_errno(m, e).lastop_errno = e
         /\ e = "FAILED" => Later(m, set_errno(m, e))
BY FieldsAre DEF Rest, Later, set_errno

LEMMA FailsRest ==
  ASSUME NEW m, DOMAIN m = Fields, Rest(m)
  PROVE  /\ Rest(fails(m)) /\ Later(m, fails(m)) /\ fails(m).lastop_errno = "FAILED"
BY ErrnoRest DEF fails, Errno

LEMMA NextErr ==
  ASSUME NEW k \in 0 .. S100Retries + 1, ~ (k > S100Retries)
  PROVE  k + 1 \in 0 .. S100Retries + 1 /\ 0 \in 0 .. S100Retries + 1
<1>1. S100Retries \in Nat
  BY FetchAssumption
<1> QED BY <1>1

\* A generator that has a seed has some of it left; one that has none is worth
\* the least.
LEMMA SeedingLoads ==
  ASSUME NEW m, Good(m), Rest(m), NEW s \in seeding(m)
  PROVE  /\ Rest(s.m) /\ Later(m, s.m)
         /\ s.ok \in BOOLEAN
         /\ s.ok => s100_loadleft(s.m.s100) > 0
         /\ ~s.ok => s.m.s100.seeded /\ s.m.s100.seed_len = 0 /\ s.m.s100.rndbuf_len = 0
<1>1. SEED_SIZE \in Nat /\ 0 \in Nat
  BY S100Assumption
<1>2. ASSUME NEW g, Generator(g), NEW len \in Nat
      PROVE  s100_loadleft(s100_load(g, len)) > 0
  <2> DEFINE h == s100_load(g, len)
  <2>1. h.seeded /\ h.nextspin = S100_RESEED_CYCLES /\ h.rndbuf_len = 0
    BY <1>2, Loaded
  <2> HIDE DEF h
  <2>2. s100_loadleft(h) = S100_RESEED_CYCLES * S100_BUF
    BY <2>1, S100Constants DEF s100_loadleft
  <2>3. S100_RESEED_CYCLES * S100_BUF > 0
    BY S100Constants
  <2> QED BY <2>2, <2>3 DEF h
<1>3. CASE m.s100_seed_err > S100Retries
  <2> DEFINE g == s100_load(m.s100, 0)
  <2>1. s = [ok |-> FALSE, m |-> [m EXCEPT !.s100 = g]]
    BY <1>3 DEF seeding
  <2>2. DOMAIN m = Fields /\ Generator(m.s100)
    BY GoodFields DEF Rest
  <2>3. Generator(g) /\ g.seeded /\ g.rndbuf_len = 0 /\ g.seed_len = 0
    BY <1>1, <2>2, Loaded
  <2> HIDE DEF g
  <2>4. s.m = [m EXCEPT !.s100 = g] /\ s.ok = FALSE
    BY <2>1
  <2>5. Rest(s.m) /\ Later(m, s.m) /\ s.m.s100 = g
    BY <2>2, <2>3, <2>4, GeneratorRest
  <2> QED BY <2>3, <2>4, <2>5
<1>4. CASE ~(m.s100_seed_err > S100Retries)
  <2>1. PICK o \in raw_lavapool(m, TRUE, SEED_SIZE) :
          s = IF o.ok
              THEN [ok |-> TRUE,  m |-> [o.m EXCEPT !.s100 = s100_load(@, SEED_SIZE), !.s100_seed_err = 0]]
              ELSE [ok |-> FALSE, m |-> [o.m EXCEPT !.s100 = s100_load(@, 0), !.s100_seed_err = @ + 1]]
    BY <1>4 DEF seeding
  <2>2. /\ Good(o.m) /\ Rest(o.m) /\ Later(m, o.m)
        /\ o.m.s100_seed_err = m.s100_seed_err
    <3>1. TRUE \in BOOLEAN
      OBVIOUS
    <3>2. Good(o.m) /\ Rest(o.m) /\ Talks(m, o.m)
      BY <1>1, <3>1, RawLavapool, LavapoolDelivers, Zenon
    <3> QED BY <3>2, TalksLater DEF Talks
  <2>3. DOMAIN o.m = Fields /\ Generator(o.m.s100)
    BY <2>2, GoodFields DEF Rest
  <2>4. o.m.s100_seed_err \in 0 .. S100Retries + 1
    BY <2>2 DEF Rest
  <2>5. ASSUME NEW g, Generator(g), NEW k \in 0 .. S100Retries + 1,
               s.m = [o.m EXCEPT !.s100 = g, !.s100_seed_err = k]
        PROVE  Rest(s.m) /\ Later(m, s.m) /\ s.m.s100 = g
    <3>1. /\ s.m.s100 = g /\ s.m.s100_seed_err = k
          /\ s.m.octets_to_preseed = o.m.octets_to_preseed
          /\ s.m.daemon_err = o.m.daemon_err /\ s.m.is_cfg = o.m.is_cfg
          /\ s.m.lavarnd_errno = o.m.lavarnd_errno /\ s.m.lastop_errno = o.m.lastop_errno
          /\ s.m.served = o.m.served /\ s.m.spent = o.m.spent
      BY <2>3, <2>5, FieldsAre
    <3>2. Rest(s.m)
      BY <2>2, <2>5, <3>1 DEF Rest
    <3> QED BY <2>2, <3>1, <3>2 DEF Later
  <2>6. CASE o.ok
    <3> DEFINE g == s100_load(o.m.s100, SEED_SIZE)
    <3>1. s.ok = TRUE /\ s.m = [o.m EXCEPT !.s100 = g, !.s100_seed_err = 0]
      BY <2>1, <2>6
    <3>2. Generator(g) /\ s100_loadleft(g) > 0
      BY <1>1, <1>2, <2>3, Loaded
    <3> HIDE DEF g
    <3>3. 0 \in 0 .. S100Retries + 1
      BY FetchAssumption
    <3>4. Rest(s.m) /\ Later(m, s.m) /\ s.m.s100 = g
      BY <2>5, <3>1, <3>2, <3>3
    <3> QED BY <3>1, <3>2, <3>4
  <2>7. CASE ~o.ok
    <3> DEFINE g == s100_load(o.m.s100, 0)
               k == o.m.s100_seed_err + 1
    <3>1. s.ok = FALSE /\ s.m = [o.m EXCEPT !.s100 = g, !.s100_seed_err = k]
      BY <2>1, <2>7
    <3>2. Generator(g) /\ g.seeded /\ g.rndbuf_len = 0 /\ g.seed_len = 0
      BY <1>1, <2>3, Loaded
    <3>3. k \in 0 .. S100Retries + 1
      BY <1>4, <2>2, <2>4, NextErr
    <3> HIDE DEF g, k
    <3>4. Rest(s.m) /\ Later(m, s.m) /\ s.m.s100 = g
      BY <2>5, <3>1, <3>2, <3>3
    <3> QED BY <3>1, <3>2, <3>4
  <2> QED BY <2>6, <2>7
<1> QED BY <1>3, <1>4

LEMMA S100Answers ==
  ASSUME NEW m, Good(m), Rest(m), NEW n \in Nat, NEW low \in Quality,
         NEW o \in raw_s100lava(m, n, low)
  PROVE  Rest(o.m) /\ Later(m, o.m) /\ o.ok \in BOOLEAN /\ Answers(m, n, low, o)
<1> DEFINE quality(mm) == s100_quality(mm.s100)
           left(mm)    == s100_loadleft(mm.s100)
           copy(mm, remaining) == IF too_poor(quality(mm), low) THEN Failure(mm)
                                  ELSE pump(mm, n, remaining, quality(mm))
\* What is said to be left is so, or the generator has the default seed.
<1>1. ASSUME NEW mm, DOMAIN mm = Fields, Rest(mm), Later(m, mm), NEW remaining,
             \/ remaining = left(mm) /\ left(mm) > 0
             \/ /\ mm.s100.seeded /\ mm.s100.seed_len = 0 /\ mm.s100.rndbuf_len = 0
                /\ remaining = 0,
             o = copy(mm, remaining)
      PROVE  Rest(o.m) /\ Later(m, o.m) /\ o.ok \in BOOLEAN /\ Answers(m, n, low, o)
  <2> DEFINE g == mm.s100
             octet(i) == [qual |-> octet_quality(g, i), n |-> 0,
                          late |-> remaining > 0 /\ i > remaining]
             q  == [i \in 1 .. n |-> octet(i)]
             ma == [mm EXCEPT !.s100 = s100_randomcpy(g, n)]
  <2>1. Generator(g)
    BY <1>1 DEF Rest
  <2>2. CASE too_poor(quality(mm), low)
    <3>1. o = Failure(mm)
      BY <1>1, <2>2
    <3>2. o.m = mm /\ o.ok = FALSE
      BY <3>1 DEF Failure
    <3> QED BY <1>1, <3>2 DEF Answers
  <2>3. CASE ~too_poor(quality(mm), low)
    <3>1. o = pump(mm, n, remaining, quality(mm))
      BY <1>1, <2>3
    <3> HIDE DEF quality, copy, left
    <3>2. o = Outcome(q, quality(mm), ma)
      BY <3>1 DEF pump
    <3> HIDE DEF q, ma
    <3>3. o.ok = TRUE /\ o.got = q /\ o.qual = quality(mm) /\ o.m = ma
      BY <3>2 DEF Outcome
    <3>4. Rest(ma) /\ Later(mm, ma)
      <4> DEFINE h == s100_randomcpy(g, n)
      <4>1. Generator(h)
        BY <2>1, Copied
      <4> HIDE DEF h
      <4> QED BY <1>1, <4>1, GeneratorRest DEF ma, h
    <3>5. quality(mm) \in 1 .. 3 /\ quality(mm) >= low
      BY <2>1, <2>3, GeneratorQuality, S100Constants DEF too_poor, quality
    <3>6. \A i \in 1 .. n : octet_quality(g, i) \in 1 .. 3
      BY <2>1, Worth
    <3>7. ASSUME NEW i \in 1 .. n, ~ (remaining > 0 /\ i > remaining)
          PROVE  octet_quality(g, i) >= quality(mm)
      <4>1. i \in Nat \ {0}
        OBVIOUS
      <4>2. CASE remaining = left(mm) /\ left(mm) > 0
        <5>1. left(mm) \in Nat
          BY <2>1, GeneratorIs, S100Constants DEF s100_loadleft, left
        <5>2. 0 < s100_loadleft(g) /\ i <= s100_loadleft(g)
          BY <3>7, <4>1, <4>2, <5>1 DEF left
        <5>3. s100_quality(g) <= octet_quality(g, i)
          BY <2>1, <4>1, <5>2, Worth
        <5> QED BY <3>5, <3>6, <5>3, S100Constants DEF quality
      <4>3. CASE g.seeded /\ g.seed_len = 0 /\ g.rndbuf_len = 0
        <5>1. octet_quality(g, i) = s100_quality(g)
          BY <2>1, <4>1, <4>3, Worth
        <5> QED BY <3>5, <5>1 DEF quality
      <4> QED BY <1>1, <4>2, <4>3
    <3>8. \A i \in 1 .. n : octet(i) \in Octet
      <4>1. 0 \in 0 .. MaxServed
        BY FetchAssumption
      <4>2. \A i \in 1 .. n : octet_quality(g, i) \in Quality
        BY <3>6, S100Constants
      <4> QED BY <4>1, <4>2 DEF Octet
    <3>9. q \in [1 .. n -> Octet] /\ \A i \in 1 .. n : q[i] = octet(i)
      BY <3>8 DEF q
    <3>10. q \in Seq(Octet) /\ Len(q) = n /\ DOMAIN q = 1 .. n
      BY <3>9, IsASeq, LenProperties
    <3>11. \A i \in 1 .. n : Keeps(q[i], quality(mm)) /\ q[i].qual # LAVARND
      <4> SUFFICES ASSUME NEW i \in 1 .. n
                   PROVE  Keeps(q[i], quality(mm)) /\ q[i].qual # LAVARND
        OBVIOUS
      <4>1. q[i].qual = octet_quality(g, i) /\ q[i].late = (remaining > 0 /\ i > remaining)
        BY <3>9
      <4>2. q[i].qual # LAVARND
        BY <3>6, <4>1, S100Constants
      <4>3. CASE remaining > 0 /\ i > remaining
        <5>1. quality(mm) - 1 <= octet_quality(g, i)
          BY <2>1, Worth DEF quality
        <5> QED BY <3>5, <3>6, <4>1, <4>2, <4>3, <5>1 DEF Keeps
      <4>4. CASE ~ (remaining > 0 /\ i > remaining)
        BY <3>7, <4>1, <4>2, <4>4 DEF Keeps
      <4> QED BY <4>3, <4>4
    <3>12. Answers(m, n, low, o)
      <4>1. quality(mm) \in Quality \ {NONE}
        BY <3>5, S100Constants
      <4> QED BY <3>3, <3>5, <3>10, <3>11, <4>1 DEF Answers
    <3>13. Rest(o.m) /\ Later(m, o.m)
      BY <1>1, <3>3, <3>4, LaterTrans
    <3> QED BY <3>3, <3>12, <3>13
  <2> QED BY <2>2, <2>3
<1>2. CASE left(m) > 0
  <2>1. o = copy(m, left(m))
    BY <1>2 DEF raw_s100lava
  <2>2. DOMAIN m = Fields /\ Later(m, m)
    BY GoodFields DEF Later
  <2> HIDE DEF copy, left
  <2> QED BY <1>1, <1>2, <2>1, <2>2
<1>3. CASE ~(left(m) > 0)
  <2>1. PICK s \in seeding(m) : o = copy(s.m, IF s.ok THEN left(s.m) ELSE 0)
    BY <1>3 DEF raw_s100lava
  <2>2. DOMAIN s.m = Fields
    BY Seeding, GoodFields
  <2>3. /\ Rest(s.m) /\ Later(m, s.m)
        /\ s.ok \in BOOLEAN
        /\ s.ok => left(s.m) > 0
        /\ ~s.ok => s.m.s100.seeded /\ s.m.s100.seed_len = 0 /\ s.m.s100.rndbuf_len = 0
    BY SeedingLoads
  <2> HIDE DEF copy, left
  <2>4. CASE s.ok
    <3>1. o = copy(s.m, left(s.m))
      BY <2>1, <2>4
    <3> QED BY <1>1, <2>2, <2>3, <2>4, <3>1
  <2>5. CASE ~s.ok
    <3>1. o = copy(s.m, 0)
      BY <2>1, <2>5
    <3> QED BY <1>1, <2>2, <2>3, <2>5, <3>1
  <2> QED BY <2>4, <2>5
<1> QED BY <1>2, <1>3

-----------------------------------------------------------------------------
(* What filling the buffer ahead of need leaves.                           *)

LEMMA PreloadSeedRest ==
  ASSUME NEW m, Good(m), Rest(m)
  PROVE  Rest(preload_seed(m)) /\ Later(m, preload_seed(m))
<1> DEFINE data == m.lavabuf.data
           g  == s100_load(m.s100, SEED_SIZE)
           mg == [m EXCEPT !.s100 = g]
           mc == [m EXCEPT !.s100 = g, !.lavabuf = cut(m.lavabuf, SEED_SIZE)]
           mm == spend(mc, last(data, SEED_SIZE))
<1>1. DOMAIN m = Fields /\ Generator(m.s100)
  BY GoodFields DEF Rest
<1>2. CASE ~m.lavabuf.start \/ Len(data) < SEED_SIZE
  BY <1>1, <1>2, FailsRest DEF preload_seed
<1>3. CASE m.lavabuf.start /\ ~(Len(data) < SEED_SIZE)
  <2>1. preload_seed(m) = mm
    BY <1>3 DEF preload_seed
  <2>2. Generator(g)
    BY <1>1, Loaded, S100Assumption
  <2> HIDE DEF g
  <2>3. DOMAIN mg = Fields /\ Rest(mg) /\ Later(m, mg)
    BY <1>1, <2>2, GeneratorRest, FieldsAre
  <2>4. DOMAIN mc = Fields /\ RestLike(mc, mg) /\ mc.spent = mg.spent
    BY <1>1, FieldsAre DEF RestLike
  <2> HIDE DEF mc, mg
  <2>5. Rest(mc) /\ Later(m, mc)
    BY <2>3, <2>4, RestLikeRest DEF Later, RestLike
  <2>6. Rest(mm) /\ Talks(mc, mm)
    BY <2>4, <2>5, SpendRest
  <2> HIDE DEF mm
  <2> QED BY <2>1, <2>5, <2>6, TalksLater, LaterTrans
<1> QED BY <1>2, <1>3

LEMMA LavaPreloadRest ==
  ASSUME NEW m, Good(m), Rest(m), NEW lavacnt \in Int, NEW seed_s100 \in BOOLEAN,
         NEW mm \in lava_preload(m, lavacnt, seed_s100)
  PROVE  Rest(mm) /\ Later(m, mm)
<1> DEFINE seed  == seed_s100 /\ s100_loadleft(m.s100) = 0
           asked == (IF lavacnt < 0 THEN 0 ELSE lavacnt) + (IF seed THEN SEED_SIZE ELSE 0)
           want  == IF asked < MIN_BUF_SIZE THEN MIN_BUF_SIZE ELSE lesser(asked, MAX_BUF_SIZE)
           buf   == m.lavabuf
           grows == buf.start /\ buf.size < want
           mb    == IF ~buf.start \/ grows THEN [m EXCEPT !.lavabuf.size = bufsiz(want)] ELSE m
           ready == IF buf.start /\ Len(buf.data) >= want THEN {Outcome(<<>>, LAVARND, m)}
                    ELSE raw_lavapool(mb, FALSE, want)
                           \cup (IF grows THEN {Failure(m)} ELSE {})
<1>1. /\ MIN_BUF_SIZE \in Nat \ {0} /\ MAX_BUF_SIZE \in Nat /\ MAX_BUF_SIZE >= MIN_BUF_SIZE
      /\ SEED_SIZE \in Nat
  BY FetchAssumption, S100Assumption
<1>2. asked \in Nat
  BY <1>1
<1>3. want \in Nat /\ want <= MAX_BUF_SIZE
  <2> HIDE DEF asked
  <2> QED BY <1>1, <1>2 DEF lesser
<1>4. m.lavabuf.size \in Nat /\ DOMAIN m = Fields
  BY GoodFields DEF Good, Memory
<1>5. mm \in IF lavacnt < 0 /\ ~seed THEN {m}
              ELSE {IF ~o.ok THEN fails(o.m)
                    ELSE IF seed THEN preload_seed(o.m) ELSE o.m
                    : o \in ready}
  BY DEF lava_preload
<1> HIDE DEF want, seed
<1>6. Good(mb) /\ Rest(mb) /\ Later(m, mb)
  <2>1. bufsiz(want) \in Nat \ {0} /\ want <= bufsiz(want)
    BY <1>3, BufsizEnough
  <2>2. grows => m.lavabuf.size <= bufsiz(want)
    BY <1>3, <1>4, <2>1
  <2>3. CASE ~buf.start \/ grows
    <3> DEFINE b == [m.lavabuf EXCEPT !.size = bufsiz(want)]
    <3>1. mb = [m EXCEPT !.lavabuf = b] /\ Good(mb)
      BY <2>1, <2>2, <2>3, ResizedGood
    <3> HIDE DEF b, mb
    <3> QED BY <1>4, <3>1, BufferRest, TalksLater
  <2>4. CASE ~(~buf.start \/ grows)
    <3>1. mb = m
      BY <2>4
    <3> HIDE DEF mb
    <3> QED BY <3>1 DEF Later
  <2> QED BY <2>3, <2>4
<1>7. ASSUME NEW o \in ready
      PROVE  Good(o.m) /\ Rest(o.m) /\ Later(m, o.m)
  <2> HIDE DEF mb
  <2>1. CASE o \in raw_lavapool(mb, FALSE, want)
    <3>1. FALSE \in BOOLEAN
      OBVIOUS
    <3>2. Good(o.m)
      BY <1>3, <1>6, <2>1, <3>1, RawLavapool, Zenon
    <3>3. Rest(o.m) /\ Talks(mb, o.m)
      BY <1>3, <1>6, <2>1, <3>1, LavapoolDelivers, Zenon
    <3> QED BY <1>6, <3>2, <3>3, TalksLater, LaterTrans
  <2>2. CASE o = Outcome(<<>>, LAVARND, m) \/ o = Failure(m)
    <3>1. o.m = m
      BY <2>2 DEF Outcome, Failure
    <3> QED BY <3>1 DEF Later
  <2> QED BY <2>1, <2>2
<1> HIDE DEF ready
<1>8. CASE mm = m
  BY <1>8 DEF Later
<1>9. ASSUME NEW o \in ready,
             mm = fails(o.m) \/ mm = preload_seed(o.m) \/ mm = o.m
      PROVE  Rest(mm) /\ Later(m, mm)
  <2>1. DOMAIN o.m = Fields /\ Good(o.m) /\ Rest(o.m) /\ Later(m, o.m)
    BY <1>7, GoodFields
  <2>2. (Rest(mm) /\ Later(o.m, mm)) \/ mm = o.m
    BY <1>9, <2>1, FailsRest, PreloadSeedRest
  <2> QED BY <2>1, <2>2, LaterTrans
<1>10. CASE ~(lavacnt < 0 /\ ~seed)
  <2>1. PICK o \in ready : mm = IF ~o.ok THEN fails(o.m)
                                ELSE IF seed THEN preload_seed(o.m) ELSE o.m
    BY <1>5, <1>10
  <2> QED BY <1>9, <2>1
<1> QED
  BY <1>5, <1>8, <1>10

LEMMA ConfiguredRest ==
  ASSUME NEW m, Good(m), Rest(m), NEW mc \in configured(m)
  PROVE  Rest(mc) /\ Later(m, mc) /\ mc.spent = m.spent
<1>1. PreseedAmt \in Nat \ {0} /\ m.octets_to_preseed \in -1 .. PreseedAmt /\ DOMAIN m = Fields
  BY FetchAssumption, GoodFields DEF Rest
<1>2. ASSUME NEW amt \in -1 .. PreseedAmt,
             mc = [m EXCEPT !.is_cfg = TRUE, !.octets_to_preseed = amt]
      PROVE  Rest(mc) /\ Later(m, mc) /\ mc.spent = m.spent
  BY <1>1, <1>2, FieldsAre DEF Rest, Later
<1>3. CASE m.is_cfg
  BY <1>3 DEF configured, Later
<1>4. CASE ~m.is_cfg
  <2>1. PICK amt \in IF Preseed THEN {PreseedAmt, m.octets_to_preseed} ELSE {-1} :
          mc = [m EXCEPT !.is_cfg = TRUE, !.octets_to_preseed = amt]
    BY <1>4 DEF configured
  <2>2. amt \in -1 .. PreseedAmt
    BY <1>1
  <2> QED BY <1>2, <2>1, <2>2
<1> QED BY <1>3, <1>4

LEMMA PreseedRest ==
  ASSUME NEW m, Good(m), Rest(m), NEW callback, NEW n \in Nat, NEW mm \in preseed_s100(m, callback, n)
  PROVE  Rest(mm) /\ Later(m, mm)
<1>1. ASSUME NEW p, Good(p), Rest(p), Later(m, p), NEW k \in -1 .. PreseedAmt,
             mm = [p EXCEPT !.octets_to_preseed = k]
      PROVE  Rest(mm) /\ Later(m, mm)
  <2>1. DOMAIN p = Fields
    BY <1>1, GoodFields
  <2> QED BY <1>1, <2>1, FieldsAre DEF Rest, Later
<1>2. PreseedAmt \in Nat \ {0} /\ m.octets_to_preseed \in -1 .. PreseedAmt /\ Later(m, m)
  BY FetchAssumption DEF Rest, Later
<1>3. \/ mm = m
      \/ n < m.octets_to_preseed /\ mm = [m EXCEPT !.octets_to_preseed = m.octets_to_preseed - n]
      \/ \E p \in lava_preload(m, -1, TRUE) :
            mm = [p EXCEPT !.octets_to_preseed =
                    IF s100_loadleft(p.s100) > 0 THEN 0 ELSE -1]
  BY DEF preseed_s100
<1>4. CASE mm = m
  BY <1>2, <1>4
<1>5. CASE n < m.octets_to_preseed /\ mm = [m EXCEPT !.octets_to_preseed = m.octets_to_preseed - n]
  <2>1. m.octets_to_preseed - n \in -1 .. PreseedAmt
    BY <1>2, <1>5
  <2> QED BY <1>1, <1>2, <1>5, <2>1
<1>6. ASSUME NEW p \in lava_preload(m, -1, TRUE),
             mm = [p EXCEPT !.octets_to_preseed =
                     IF s100_loadleft(p.s100) > 0 THEN 0 ELSE -1]
      PROVE  Rest(mm) /\ Later(m, mm)
  <2>1. -1 \in Int /\ TRUE \in BOOLEAN
    OBVIOUS
  <2>2. Good(p) /\ Rest(p) /\ Later(m, p)
    BY <2>1, LavaPreload, LavaPreloadRest, Zenon
  <2> DEFINE k == IF s100_loadleft(p.s100) > 0 THEN 0 ELSE -1
  <2>3. k \in -1 .. PreseedAmt
    BY <1>2
  <2> HIDE DEF k
  <2> QED BY <1>1, <1>6, <2>2, <2>3 DEF k
<1> QED
  BY <1>3, <1>4, <1>5, <1>6

-----------------------------------------------------------------------------
(* A call, and what the program is promised meanwhile.                     *)

Busy == {"fetch", "failed"}

LEMMA MinQualIs ==
  /\ \A c \in Callbacks : MinQual[c] \in Quality
  /\ MinQual["USER"] = NONE /\ NONE \in Quality
<1>1. \A c \in DOMAIN MinQual : MinQual[c] \in Quality
  BY S100Constants DEF MinQual
<1> QED BY <1>1, FetchAssumption, S100Constants DEF MinQual

LEMMA Nothing == <<>> \in Seq(Octet) /\ Len(<<>>) = 0
BY EmptySeq

LEMMA NoCallShape == CallShape(no_call)
BY Nothing, S100Constants DEF CallShape, no_call, Errno

LEMMA InvImplies ==
  ASSUME LibraryInv
  PROVE  IInv /\ DOMAIN lib = Fields /\ DOMAIN call = DOMAIN no_call
<1>1. Lens \subseteq Nat
  BY FetchAssumption
<1>2. IsSeq(call.out) /\ call.len \in Nat
  <2>1. call.out \in Seq(Octet) /\ call.len \in Lens \cup {0}
    BY DEF LibraryInv, CallShape
  <2>2. call.len \in Nat
    <3>1. CASE call.len \in Lens
      BY <1>1, <3>1
    <3>2. CASE call.len \in {0}
      BY <3>2
    <3> QED BY <2>1, <3>1, <3>2
  <2> QED BY <2>1, <2>2, Zenon DEF IsSeq
<1>3. call.pc \in {"fetch", "failed"} => Len(call.out) < call.len
  BY Nothing DEF LibraryInv, CallShape
<1> QED BY <1>2, <1>3, GoodFields DEF LibraryInv, IInv, Proper, CallShape

\* A call in progress moves on, with what it was.
LEMMA CallMoves ==
  ASSUME NEW c, CallShape(c), c.pc \in Busy,
         NEW p \in {"fetch", "failed", "returned", "exited"}, NEW k \in Nat
  PROVE  /\ CallShape([c EXCEPT !.pc = p])
         /\ CallShape([c EXCEPT !.pc = p, !.retry_cnt = k])
BY CallIs DEF CallShape, Busy

LEMMA LaterFailed ==
  ASSUME NEW a, NEW b, Later(a, b)
  PROVE  a.spent \subseteq b.spent /\ (a.lastop_errno = "FAILED" => b.lastop_errno = "FAILED")
BY DEF Later

\* A step that shows the program nothing.
LEMMA LoseStep ==
  ASSUME lib.spent \subseteq lib'.spent,
         lib.lastop_errno = "FAILED" => lib'.lastop_errno = "FAILED",
         call'.callback = call.callback, call'.len = call.len, call'.out = call.out,
         call'.quality = call.quality,
         (call.pc \in Busy /\ call'.pc \in Busy) \/ call'.pc = call.pc
  PROVE  Library!LibraryNext
BY DEF Busy, Library!LibraryNext, Library!Lose

LEMMA AskStep ==
  ASSUME lib.spent \subseteq lib'.spent, call.pc \in {"idle", "returned"},
         NEW c, CallShape(c), c.callback \in Callbacks, c.len \in Lens,
         DOMAIN c = DOMAIN no_call, call' = [c EXCEPT !.pc = "fetch"]
  PROVE  Library!LibraryNext
<1>1. call'.pc = "fetch" /\ call'.callback = c.callback /\ call'.len = c.len
  BY CallIs
<1>2. Library!Ask(c.callback, c.len)
  BY <1>1, S100Constants DEF Library!Ask
<1> QED BY <1>2 DEF Library!LibraryNext

LEMMA RefuseStep ==
  ASSUME lib.spent \subseteq lib'.spent, call.pc \in {"idle", "returned"},
         lib'.lastop_errno = "FAILED",
         NEW c, c.callback \in Callbacks, c.len \in Lens, c.out = <<>>, c.quality = NONE,
         DOMAIN c = DOMAIN no_call, call' = [c EXCEPT !.pc = "returned"]
  PROVE  Library!LibraryNext
<1>1. /\ call'.pc = "returned" /\ call'.callback = c.callback /\ call'.len = c.len
      /\ call'.out = <<>> /\ call'.quality = NONE
  BY CallIs
<1>2. Library!Refuse(c.callback, c.len)
  BY <1>1, S100Constants DEF Library!Refuse
<1> QED BY <1>2 DEF Library!LibraryNext

LEMMA FailStep ==
  ASSUME LibraryInv, call.pc = "failed", call.callback \notin {"EXIT", "RETRY"},
         NEW m, Good(m), Rest(m), Later(lib, m), give_up(m)
  PROVE  Rest(lib') /\ CallShape(call') /\ Library!LibraryNext
<1>1. call' = [call EXCEPT !.pc = "returned"] /\ DOMAIN call = DOMAIN no_call /\ CallShape(call)
  BY InvImplies DEF give_up, LibraryInv
<1>2. CallShape(call')
  BY <1>1, CallMoves DEF Busy
<1>3. lib' = fails(m)
  <2>1. fails(m).lavarnd_errno = "FAILED"
    BY FieldsAre DEF fails, set_errno, Good, Fields
  <2> QED BY <2>1 DEF give_up, errno_firewall
<1>4. Rest(lib') /\ Later(m, lib') /\ lib'.lastop_errno = "FAILED"
  BY <1>3, FailsRest, GoodFields
<1>5. lib.spent \subseteq lib'.spent
  BY <1>4 DEF Later
<1>6. /\ call'.pc = "returned" /\ call'.callback = call.callback /\ call'.len = call.len
      /\ call'.out = <<>> /\ call'.quality = NONE
  BY <1>1, CallIs DEF CallShape
<1>7. Library!Fail
  BY <1>4, <1>6 DEF Library!Fail
<1>8. Library!LibraryNext
  BY <1>5, <1>7 DEF Library!LibraryNext, Library!Settle
<1> QED BY <1>2, <1>4, <1>8

LEMMA ExitStep ==
  ASSUME LibraryInv, call.pc = "failed", call.callback \in {"EXIT", "USER"}, exit
  PROVE  Rest(lib') /\ CallShape(call') /\ Library!LibraryNext
<1>1. /\ call' = [call EXCEPT !.pc = "exited"] /\ DOMAIN call = DOMAIN no_call /\ CallShape(call)
      /\ lib' = fails(lib) /\ Rest(lib) /\ DOMAIN lib = Fields
  BY InvImplies DEF exit, LibraryInv
<1>2. CallShape(call')
  BY <1>1, CallMoves DEF Busy
<1>3. Rest(lib') /\ Later(lib, lib')
  BY <1>1, FailsRest
<1>4. /\ call'.pc = "exited" /\ call'.callback = call.callback /\ call'.len = call.len
      /\ call'.out = <<>> /\ call'.quality = NONE
  BY <1>1, CallIs DEF CallShape
<1>5. Library!Exit
  BY <1>4 DEF Library!Exit
<1>6. Library!LibraryNext
  BY <1>3, <1>5 DEF Library!LibraryNext, Library!Settle, Later
<1> QED BY <1>2, <1>3, <1>6

LEMMA AgainStep ==
  ASSUME LibraryInv, call.pc = "failed", NEW n \in Nat, again(n)
  PROVE  Rest(lib') /\ CallShape(call') /\ Library!LibraryNext
<1>1. /\ call' = [call EXCEPT !.pc = "fetch", !.retry_cnt = n] /\ DOMAIN call = DOMAIN no_call
      /\ CallShape(call) /\ lib' = lib /\ Rest(lib)
  BY InvImplies DEF again, LibraryInv
<1>2. CallShape(call')
  BY <1>1, CallMoves DEF Busy
<1>3. /\ call'.pc = "fetch" /\ call'.callback = call.callback /\ call'.len = call.len
      /\ call'.out = call.out /\ call'.quality = call.quality
  BY <1>1, CallIs
<1>4. Rest(lib')
  BY <1>1
<1> QED BY <1>1, <1>2, <1>3, <1>4, LoseStep DEF Busy

\* Octets come, and they are all that was wanting.
LEMMA AnswerStep ==
  ASSUME LibraryInv, call.pc \in Busy,
         NEW o, o.ok, Answers(lib, wanting, MinQual[call.callback], o), took(o),
         Rest(o.m), lib.spent \subseteq o.m.spent
  PROVE  Rest(lib') /\ CallShape(call') /\ Library!LibraryNext
<1> DEFINE out == call.out \o o.got
           q   == IF call.quality = NONE \/ o.qual < call.quality THEN o.qual ELSE call.quality
<1>1. /\ DOMAIN call = DOMAIN no_call /\ CallShape(call)
      /\ call.out = <<>> /\ call.callback \in Callbacks /\ call.len \in Lens /\ call.len \in Nat
  BY FetchAssumption DEF LibraryInv, CallShape, Busy
<1>2. wanting = call.len
  BY <1>1, Nothing DEF wanting
<1>3. /\ o.got \in Seq(Octet) /\ Len(o.got) = call.len
      /\ o.qual \in Quality \ {NONE} /\ o.qual >= MinQual[call.callback]
  BY <1>2 DEF Answers
<1>4. out = o.got
  BY <1>1, <1>3, ConcatEmptySeq
<1>5. q = o.qual /\ q \in Quality
  BY <1>1, <1>3 DEF CallShape, Busy
<1>6. /\ lib' = o.m
      /\ call' = [call EXCEPT !.out = o.got, !.retry_cnt = 0, !.quality = q, !.pc = "returned"]
  <2>1. ~ (Len(out) < call.len)
    BY <1>1, <1>3, <1>4
  <2>2. /\ lib' = o.m
        /\ call' = [call EXCEPT !.out = out, !.retry_cnt = 0, !.quality = q,
                               !.pc = IF Len(out) < call.len THEN "fetch" ELSE "returned"]
    BY DEF took
  <2> HIDE DEF out, q
  <2> QED BY <1>4, <2>1, <2>2
<1> HIDE DEF out, q
<1>7. /\ DOMAIN call' = DOMAIN no_call /\ call'.pc = "returned" /\ call'.callback = call.callback
      /\ call'.len = call.len /\ call'.out = o.got /\ call'.quality = q /\ call'.retry_cnt = 0
      /\ call'.roll = call.roll /\ call'.tmp_errno = call.tmp_errno
  BY <1>1, <1>6, CallIs
<1>8. CallShape(call')
  BY <1>1, <1>3, <1>5, <1>7 DEF CallShape
<1>9. ASSUME NEW i \in DOMAIN o.got
      PROVE  /\ o.got[i].qual >= IF o.got[i].late THEN o.qual - 1 ELSE o.qual
             /\ o.got[i].qual = LAVARND => o.got[i].n \notin lib.spent
             /\ \A j \in DOMAIN o.got :
                   i # j /\ o.got[i].qual = LAVARND => o.got[i].n # o.got[j].n
  BY DEF Answers, Keeps
<1>10. \A i \in DOMAIN o.got : o.got[i].qual = LAVARND => o.got[i].n \in lib'.spent
  BY <1>6 DEF Answers
<1>11. Library!Answer
  <2>1. Library!FromPool(o.got) \subseteq lib'.spent
    BY <1>10 DEF Library!FromPool
  <2> QED BY <1>3, <1>5, <1>7, <1>9, <2>1 DEF Library!Answer, Library!FromPool, Busy
<1>12. Library!LibraryNext
  BY <1>6, <1>11 DEF Library!LibraryNext, Library!Settle
<1> QED BY <1>6, <1>8, <1>12

\* An attempt that fails, and the call is not over.
LEMMA MissStep ==
  ASSUME LibraryInv, call.pc \in Busy, NEW p \in Busy, Rest(lib'), Later(lib, lib'),
         call' = [call EXCEPT !.pc = p]
  PROVE  Rest(lib') /\ CallShape(call') /\ Library!LibraryNext
<1>1. DOMAIN call = DOMAIN no_call /\ CallShape(call)
  BY InvImplies DEF LibraryInv
<1>2. CallShape(call')
  BY <1>1, CallMoves DEF Busy
<1>3. /\ call'.pc \in Busy /\ call'.callback = call.callback /\ call'.len = call.len
      /\ call'.out = call.out /\ call'.quality = call.quality
  BY <1>1, CallIs
<1> QED BY <1>2, <1>3, LaterFailed, LoseStep

LEMMA Wanted ==
  ASSUME LibraryInv, call.pc \in Busy
  PROVE  wanting \in Nat /\ call.callback \in Callbacks /\ MinQual[call.callback] \in Quality
<1>1. wanting \in Nat
  BY InvImplies, Wanting DEF IInv, Busy
<1> QED BY <1>1, MinQualIs DEF LibraryInv, CallShape, Busy

LEMMA FetchStep ==
  ASSUME LibraryInv, fetch
  PROVE  Rest(lib') /\ CallShape(call') /\ Library!LibraryNext
<1> DEFINE low == MinQual[call.callback]
<1>1. call.pc \in Busy
  BY DEF fetch, Busy
<1>2. wanting \in Nat /\ low \in Quality
  BY <1>1, Wanted
<1>3. PICK o \in obtain(lib, call.callback, wanting) :
        IF o.ok THEN took(o)
        ELSE lib' = o.m /\ call' = [call EXCEPT !.pc = "failed"]
  BY DEF fetch
<1>4. Good(lib) /\ Rest(lib)
  BY DEF LibraryInv
<1>5. Rest(o.m) /\ Later(lib, o.m) /\ Answers(lib, wanting, low, o)
  <2> HIDE DEF low
  <2>1. CASE o \in raw_s100lava(lib, wanting, low)
    BY <1>2, <1>4, <2>1, S100Answers
  <2>2. CASE o \in raw_lavapool(lib, TRUE, wanting)
    <3>1. TRUE \in BOOLEAN
      OBVIOUS
    <3>2. Good(o.m) /\ Rest(o.m) /\ Talks(lib, o.m) /\ Delivers(lib, wanting, o)
      BY <1>2, <1>4, <2>2, <3>1, RawLavapool, LavapoolDelivers, Zenon
    <3> QED BY <1>2, <3>2, TalksLater, DeliveredAnswers
  <2> QED BY <1>3, <2>1, <2>2 DEF obtain, low
<1>6. CASE o.ok
  BY <1>1, <1>3, <1>5, <1>6, AnswerStep DEF Later
<1>7. CASE ~o.ok
  <2>1. lib' = o.m /\ call' = [call EXCEPT !.pc = "failed"]
    BY <1>3, <1>7
  <2>2. Rest(lib') /\ Later(lib, lib')
    BY <1>5, <2>1
  <2> QED BY <1>1, <2>1, <2>2, MissStep DEF Busy
<1> QED BY <1>6, <1>7

\* What falls back on s100.
LEMMA FallsBack ==
  ASSUME LibraryInv, call.pc = "failed", NEW low \in Quality, NEW o \in raw_s100lava(lib, wanting, low)
  PROVE  /\ Good(o.m) /\ Rest(o.m) /\ Later(lib, o.m) /\ o.ok \in BOOLEAN
         /\ Answers(lib, wanting, low, o)
<1>1. wanting \in Nat /\ Good(lib) /\ Rest(lib)
  BY Wanted DEF LibraryInv, Busy
<1> QED BY <1>1, RawS100lava, S100Answers

LEMMA FailedStep ==
  ASSUME LibraryInv, failed_exit \/ failed_retry \/ failed_return \/ failed_try \/ failed_s100
  PROVE  Rest(lib') /\ CallShape(call') /\ Library!LibraryNext
<1>1. Good(lib) /\ Rest(lib) /\ Later(lib, lib) /\ tried \in Nat /\ 0 \in Nat
  BY DEF LibraryInv, CallShape, Later, tried
<1>2. CASE failed_exit
  BY <1>1, <1>2, ExitStep, AgainStep DEF failed_exit
<1>3. CASE failed_retry
  BY <1>1, <1>3, AgainStep DEF failed_retry
<1>4. CASE failed_return
  BY <1>1, <1>4, FailStep, AgainStep DEF failed_return
<1>5. CASE failed_try
  <2>1. call.pc = "failed" /\ call.callback \in Try \cup TryOnce
    BY <1>5 DEF failed_try
  <2>2. PICK o \in raw_s100lava(lib, wanting, MinQual[call.callback]) :
          IF o.ok THEN took(o) ELSE give_up(o.m)
    BY <1>5 DEF failed_try
  <2>3. /\ Good(o.m) /\ Rest(o.m) /\ Later(lib, o.m)
        /\ Answers(lib, wanting, MinQual[call.callback], o)
    BY <2>1, FallsBack, Wanted DEF Busy
  <2>4. call.callback \notin {"EXIT", "RETRY"}
    BY <2>1 DEF Try, TryOnce
  <2>5. CASE o.ok
    BY <2>1, <2>2, <2>3, <2>5, AnswerStep DEF Later, Busy
  <2>6. CASE ~o.ok
    BY <2>1, <2>2, <2>3, <2>4, <2>6, FailStep
  <2> QED BY <2>5, <2>6
<1>6. CASE failed_s100
  BY <1>1, <1>6, FailStep DEF failed_s100, OnlyS100
<1> QED BY <1>2, <1>3, <1>4, <1>5, <1>6

LEMMA CallbackReturnStep ==
  ASSUME LibraryInv, callback_return
  PROVE  Rest(lib') /\ CallShape(call') /\ Library!LibraryNext
<1>1. call.pc = "failed" /\ call.callback = "USER"
  BY DEF callback_return
<1>2. PICK o \in raw_s100lava(lib, wanting, NONE) :
        IF o.ok THEN took([o EXCEPT !.m = set_errno(@, "COUNT")]) ELSE give_up(o.m)
  BY DEF callback_return
<1>3. MinQual[call.callback] = NONE /\ NONE \in Quality
  BY <1>1, MinQualIs
<1>4. /\ Good(o.m) /\ Rest(o.m) /\ Later(lib, o.m) /\ Answers(lib, wanting, NONE, o)
  BY <1>1, <1>3, FallsBack
<1>5. CASE o.ok
  <2> DEFINE p == [o EXCEPT !.m = set_errno(o.m, "COUNT")]
  <2>1. p.m = set_errno(o.m, "COUNT") /\ p.got = o.got /\ p.ok = o.ok /\ p.qual = o.qual
    BY S100Outcome
  <2>2. took(p)
    BY <1>2, <1>5
  <2> HIDE DEF p
  <2>3. Rest(p.m) /\ p.m.spent = o.m.spent
    BY <1>4, <2>1, ErrnoRest, GoodFields DEF Errno
  <2>4. Answers(lib, wanting, MinQual[call.callback], p)
    BY <1>3, <1>4, <2>1, <2>3 DEF Answers
  <2> QED BY <1>1, <1>4, <1>5, <2>1, <2>2, <2>3, <2>4, AnswerStep DEF Later, Busy
<1>6. CASE ~o.ok
  BY <1>1, <1>2, <1>4, <1>6, FailStep
<1> QED BY <1>5, <1>6

LEMMA CallbackS100Step ==
  ASSUME LibraryInv, NEW q \in {S100LOW, S100MED, S100HIGH}, callback_s100(q)
  PROVE  Rest(lib') /\ CallShape(call') /\ Library!LibraryNext
<1>1. call.pc = "failed" /\ call.callback = "USER"
  BY DEF callback_s100
<1>2. PICK o \in raw_s100lava(lib, wanting, q) :
        IF o.ok THEN took(o) ELSE lib' = fails(o.m) /\ call' = [call EXCEPT !.pc = "fetch"]
  BY DEF callback_s100
<1>3. MinQual[call.callback] = NONE /\ q \in Quality /\ q >= NONE
  BY <1>1, MinQualIs, S100Constants
<1>4. /\ Good(o.m) /\ Rest(o.m) /\ Later(lib, o.m) /\ Answers(lib, wanting, q, o)
  BY <1>1, <1>3, FallsBack
<1>5. CASE o.ok
  <2>1. Answers(lib, wanting, MinQual[call.callback], o)
    BY <1>3, <1>4, <1>5, S100Constants DEF Answers
  <2> QED BY <1>1, <1>2, <1>4, <1>5, <2>1, AnswerStep DEF Later, Busy
<1>6. CASE ~o.ok
  <2>1. lib' = fails(o.m) /\ call' = [call EXCEPT !.pc = "fetch"]
    BY <1>2, <1>6
  <2>2. Rest(lib') /\ Later(lib, lib')
    BY <1>4, <2>1, FailsRest, GoodFields, LaterTrans
  <2> QED BY <1>1, <2>1, <2>2, MissStep DEF Busy
<1> QED BY <1>5, <1>6

\* What comes of a call that begins: c is new, or the next throw of a die.
LEMMA StartStep ==
  ASSUME LibraryInv, call.pc \in {"idle", "returned"},
         NEW c, CallShape(c), c.pc = "idle", c.callback \in Callbacks, c.len \in Lens,
         c.out = <<>>, c.quality = NONE, start_call(c)
  PROVE  Rest(lib') /\ CallShape(call') /\ Library!LibraryNext
<1> DEFINE m == [lib EXCEPT !.lastop_errno = "OK"]
<1>1. Good(m) /\ Rest(m) /\ m.spent = lib.spent /\ DOMAIN m = Fields
  <2>1. DOMAIN lib = Fields /\ Good(lib) /\ Rest(lib)
    BY InvImplies DEF LibraryInv
  <2>2. Like(m, lib) /\ Rest(m)
    BY <2>1, FieldsAre DEF Like, Rest, Errno
  <2> HIDE DEF m
  <2> QED BY <2>1, <2>2, LikeGood DEF Like
<1>2. \/ refuse(m, c)
      \/ /\ \E mc \in configured(m) : lib' \in preseed_s100(mc, c.callback, c.len)
         /\ call' = [c EXCEPT !.pc = "fetch"] /\ c.len # 0
  BY DEF start_call
<1> HIDE DEF m
<1>3. DOMAIN c = DOMAIN no_call /\ c.len \in Nat
  BY FetchAssumption DEF CallShape
<1>4. CASE refuse(m, c)
  <2>1. lib' = fails(m) /\ call' = [c EXCEPT !.pc = "returned"]
    BY <1>4 DEF refuse
  <2>2. Rest(lib') /\ Later(m, lib') /\ lib'.lastop_errno = "FAILED"
    BY <1>1, <2>1, FailsRest
  <2>3. CallShape(call')
    BY <1>3, <2>1, CallIs DEF CallShape
  <2>4. lib.spent \subseteq lib'.spent
    BY <1>1, <2>2 DEF Later
  <2> QED BY <1>3, <2>1, <2>2, <2>3, <2>4, RefuseStep
<1>5. CASE /\ \E mc \in configured(m) : lib' \in preseed_s100(mc, c.callback, c.len)
           /\ call' = [c EXCEPT !.pc = "fetch"] /\ c.len # 0
  <2> PICK mc \in configured(m) : lib' \in preseed_s100(mc, c.callback, c.len)
    BY <1>5
  <2>1. Good(mc) /\ Rest(mc) /\ mc.spent = m.spent
    BY <1>1, Configured, ConfiguredRest DEF Later
  <2>2. Rest(lib') /\ Later(mc, lib')
    BY <1>3, <2>1, PreseedRest
  <2>3. CallShape(call')
    <3>1. /\ DOMAIN call' = DOMAIN no_call /\ call'.pc = "fetch" /\ call'.callback = c.callback
          /\ call'.len = c.len /\ call'.out = c.out /\ call'.quality = c.quality
          /\ call'.retry_cnt = c.retry_cnt /\ call'.roll = c.roll /\ call'.tmp_errno = c.tmp_errno
      BY <1>3, <1>5, CallIs
    <3>2. c.len > 0
      BY <1>3, <1>5
    <3> QED BY <3>1, <3>2 DEF CallShape
  <2>4. lib.spent \subseteq lib'.spent
    BY <1>1, <2>1, <2>2 DEF Later
  <2> QED BY <1>3, <1>5, <2>2, <2>3, <2>4, AskStep
<1> QED BY <1>2, <1>4, <1>5

LEMMA NewCallShape ==
  ASSUME NEW callback \in Callbacks, NEW n \in Lens, NEW roll \in BOOLEAN
  PROVE  LET c == new_call(callback, n, roll)
         IN /\ CallShape(c) /\ c.pc = "idle" /\ c.callback = callback /\ c.len = n
            /\ c.out = <<>> /\ c.quality = NONE
<1> DEFINE c == new_call(callback, n, roll)
<1>1. /\ DOMAIN c = DOMAIN no_call /\ c.pc = "idle" /\ c.callback = callback /\ c.len = n
      /\ c.out = <<>> /\ c.quality = NONE /\ c.retry_cnt = 0 /\ c.roll = roll
      /\ c.tmp_errno = "OK"
  BY DEF new_call, no_call
<1> HIDE DEF c
<1>2. <<>> \in Seq(Octet) /\ NONE \in Quality /\ "OK" \in Errno
  BY Nothing, MinQualIs DEF Errno
<1>3. CallShape(c)
  BY <1>1, <1>2 DEF CallShape
<1> QED BY <1>1, <1>3 DEF c

LEMMA NoneAskedStep ==
  ASSUME LibraryInv, NEW f \in Callbacks, NEW n \in Lens, randomcpy(f, n), ~(n > 0)
  PROVE  Rest(lib') /\ CallShape(call') /\ Library!LibraryNext
<1>0. n \in Nat /\ FALSE \in BOOLEAN
  BY FetchAssumption
<1> DEFINE c == new_call(f, n, FALSE)
<1>1. /\ lib' = [lib EXCEPT !.lastop_errno = "FAILED"] /\ call' = [c EXCEPT !.pc = "returned"]
      /\ call.pc = "idle"
  BY <1>0, NoneAsked
<1>2. /\ CallShape(c) /\ c.callback = f /\ c.len = n /\ c.out = <<>> /\ c.quality = NONE
      /\ DOMAIN c = DOMAIN no_call
  <2>1. CallShape(c) /\ c.callback = f /\ c.len = n /\ c.out = <<>> /\ c.quality = NONE
    BY <1>0, NewCallShape
  <2> QED BY <2>1 DEF CallShape
<1> HIDE DEF c
<1>3. /\ Rest(lib') /\ lib'.spent = lib.spent /\ lib'.lastop_errno = "FAILED"
  BY <1>1, InvImplies, FieldsAre DEF LibraryInv, Rest, Errno
<1>4. CallShape(call')
  BY <1>1, <1>2, CallIs DEF CallShape
<1> QED BY <1>1, <1>2, <1>3, <1>4, RefuseStep

\* The next throw of a die keeps an error.
throw(callback, n, e) == [new_call(callback, n, TRUE) EXCEPT !.tmp_errno = e]

LEMMA ThrowShape ==
  ASSUME NEW callback \in Callbacks, NEW n \in Lens, NEW e \in Errno
  PROVE  LET c == throw(callback, n, e)
         IN /\ CallShape(c) /\ c.pc = "idle" /\ c.callback = callback /\ c.len = n
            /\ c.out = <<>> /\ c.quality = NONE
<1> DEFINE c == throw(callback, n, e)
<1>1. /\ DOMAIN c = DOMAIN no_call /\ c.pc = "idle" /\ c.callback = callback /\ c.len = n
      /\ c.out = <<>> /\ c.quality = NONE /\ c.retry_cnt = 0
      /\ c.roll \in BOOLEAN /\ c.tmp_errno = e
  BY DEF throw, new_call, no_call
<1> HIDE DEF c
<1>2. <<>> \in Seq(Octet) /\ NONE \in Quality
  BY Nothing, MinQualIs
<1>3. CallShape(c)
  BY <1>1, <1>2 DEF CallShape
<1> QED BY <1>1, <1>3 DEF c

\* A call ends, and the library is used without one.
LEMMA TakeStep ==
  ASSUME LibraryInv, answered \/ roll_done
  PROVE  Rest(lib') /\ CallShape(call') /\ Library!LibraryNext
<1>1. DOMAIN lib = Fields /\ Rest(lib) /\ call.tmp_errno \in Errno
  BY InvImplies DEF LibraryInv, CallShape
<1>2. call.pc = "returned" /\ call' = no_call
  BY DEF answered, roll_done
<1>3. Rest(lib') /\ lib'.spent = lib.spent /\ lib'.lastop_errno = lib.lastop_errno
  <2>1. CASE answered
    BY <1>1, <2>1 DEF answered
  <2>2. CASE roll_done
    BY <1>1, <2>2, FieldsAre DEF roll_done, Rest
  <2> QED BY <2>1, <2>2
<1>4. Library!Take
  BY <1>2, <1>3, S100Constants DEF Library!Take, no_call
<1>5. Library!LibraryNext
  BY <1>3, <1>4 DEF Library!LibraryNext
<1> QED BY <1>2, <1>3, <1>5, NoCallShape

LEMMA IdleStep ==
  ASSUME LibraryInv,
         fetchlava_cleanup \/ (\E n \in PreloadLens, s \in BOOLEAN : preload(n, s)) \/ UNCHANGED vars
  PROVE  Rest(lib') /\ CallShape(call') /\ Library!LibraryNext
<1>1. DOMAIN lib = Fields /\ Good(lib) /\ Rest(lib) /\ CallShape(call) /\ call' = call
  BY InvImplies DEF LibraryInv, fetchlava_cleanup, preload, vars
<1>2. Rest(lib') /\ Later(lib, lib')
  <2>1. CASE fetchlava_cleanup
    BY <1>1, <2>1, FieldsAre DEF fetchlava_cleanup, Rest, Later
  <2>2. ASSUME NEW n \in PreloadLens, NEW s \in BOOLEAN, preload(n, s)
        PROVE  Rest(lib') /\ Later(lib, lib')
    <3>1. \A mc \in configured(lib) : Good(mc) /\ Rest(mc) /\ Later(lib, mc)
      BY <1>1, Configured, ConfiguredRest
    <3>2. lib' = fails(lib) \/ \E mc \in configured(lib) : lib' \in lava_preload(mc, n, s)
      BY <2>2 DEF preload
    <3>3. n \in Int
      BY FetchAssumption
    <3>4. CASE lib' = fails(lib)
      BY <1>1, <3>4, FailsRest
    <3>5. ASSUME NEW mc \in configured(lib), lib' \in lava_preload(mc, n, s)
          PROVE  Rest(lib') /\ Later(lib, lib')
      BY <3>1, <3>3, <3>5, LavaPreloadRest, LaterTrans
    <3> QED BY <3>2, <3>4, <3>5
  <2>3. CASE UNCHANGED vars
    BY <1>1, <2>3 DEF vars, Later
  <2> QED BY <2>1, <2>2, <2>3
<1>3. Library!LibraryNext
  BY <1>1, <1>2, LaterFailed, LoseStep
<1> QED BY <1>1, <1>2, <1>3

LEMMA WorkingStep ==
  ASSUME LibraryInv, working
  PROVE  Rest(lib') /\ CallShape(call') /\ Library!LibraryNext
<1>1. CASE callback_exit
  BY <1>1, ExitStep DEF callback_exit
<1>2. CASE callback_pause
  <2>1. 0 \in Nat
    OBVIOUS
  <2> QED BY <1>2, <2>1, AgainStep DEF callback_pause
<1> QED BY <1>1, <1>2, FetchStep, FailedStep, CallbackReturnStep, CallbackS100Step DEF working

LEMMA NextLibrary ==
  LibraryInv /\ [Next]_vars => LibraryInv' /\ Library!LibraryNext
<1> SUFFICES ASSUME LibraryInv, [Next]_vars PROVE LibraryInv' /\ Library!LibraryNext
  OBVIOUS
<1>1. Good(lib')
  BY InvImplies, NextGood DEF IInv
<1>2. Dice \subseteq Lens /\ TRUE \in BOOLEAN /\ FALSE \in BOOLEAN /\ "OK" \in Errno
  BY FetchAssumption DEF Errno
<1>3. ASSUME NEW f \in Callbacks, NEW n \in Lens, randomcpy(f, n) \/ (random_val(f, n) /\ n \in Dice)
      PROVE  Rest(lib') /\ CallShape(call') /\ Library!LibraryNext
  <2> SUFFICES ASSUME random_val(f, n) \/ n > 0
               PROVE  Rest(lib') /\ CallShape(call') /\ Library!LibraryNext
    BY <1>3, NoneAskedStep
  <2>1. call.pc = "idle" /\ \E roll \in BOOLEAN : start_call(new_call(f, n, roll))
    <3>1. CASE random_val(f, n)
      BY <1>2, <3>1 DEF random_val
    <3>2. CASE ~random_val(f, n)
      <4>1. n > 0 /\ n \in Nat /\ randomcpy(f, n)
        BY <3>2, <1>3, FetchAssumption
      <4> QED BY <1>2, <4>1, Asked
    <3> QED BY <3>1, <3>2
  <2>2. PICK roll \in BOOLEAN : start_call(new_call(f, n, roll))
    BY <2>1
  <2> DEFINE c == new_call(f, n, roll)
  <2>3. /\ CallShape(c) /\ c.pc = "idle" /\ c.callback = f /\ c.len = n
        /\ c.out = <<>> /\ c.quality = NONE
    BY NewCallShape
  <2> HIDE DEF c
  <2>4. start_call(c)
    BY <2>2 DEF c
  <2> QED BY <2>1, <2>3, <2>4, StartStep
<1>4. ASSUME roll_again
      PROVE  Rest(lib') /\ CallShape(call') /\ Library!LibraryNext
  <2> DEFINE e == IF lib.lavarnd_errno = "FAILED" THEN "FAILED" ELSE call.tmp_errno
             c == throw(call.callback, call.len, e)
  <2>1. call.pc = "returned" /\ start_call(c)
    BY <1>4 DEF roll_again, throw
  <2>2. e \in Errno /\ call.callback \in Callbacks /\ call.len \in Lens
    BY <2>1 DEF LibraryInv, CallShape, Errno
  <2> HIDE DEF e
  <2>3. /\ CallShape(c) /\ c.pc = "idle" /\ c.callback = call.callback /\ c.len = call.len
        /\ c.out = <<>> /\ c.quality = NONE
    BY <2>2, ThrowShape
  <2> HIDE DEF c
  <2> QED BY <2>1, <2>2, <2>3, StartStep
<1>5. Rest(lib') /\ CallShape(call') /\ Library!LibraryNext
  BY <1>2, <1>3, <1>4, TakeStep, IdleStep, WorkingStep DEF Next
<1> QED BY <1>1, <1>5 DEF LibraryInv

LEMMA InitLibrary == Init => LibraryInv /\ Library!LibraryInit
<1> SUFFICES ASSUME Init PROVE LibraryInv /\ Library!LibraryInit
  OBVIOUS
<1>1. Good(lib)
  BY InitGood DEF IInv
<1>2. lib = lib_static /\ call = no_call
  BY DEF Init
<1>3. Rest(lib)
  <2>1. Generator(s100_static)
    BY S100Constants DEF Generator, s100_static, S100State
  <2> QED BY <1>2, <2>1, FetchAssumption DEF lib_static, Rest, Errno
<1>4. Library!LibraryInit
  BY <1>2, S100Constants DEF Library!LibraryInit, no_call, lib_static
<1> QED BY <1>1, <1>2, <1>3, <1>4, NoCallShape DEF LibraryInv

\* Every variable of the library has its type, and the buffer is never fuller
\* than it is large, for lengths and sizes of every value (lib/fetchlava.c:110).
THEOREM LibraryTypes == Spec => []TypeOK
<1>1. ASSUME LibraryInv PROVE TypeOK
  <2>1. Good(lib) /\ Rest(lib) /\ CallShape(call)
    BY <1>1 DEF LibraryInv
  <2>2. lib.served \in 0 .. MaxServed /\ lib.spent \subseteq 1 .. lib.served
    <3>1. /\ lib.served \in Nat /\ lib.served <= MaxServed
          /\ lib.spent \subseteq 1 .. lib.served
      BY <2>1 DEF Good, Memory, Apart, Rest
    <3>2. MaxServed \in Nat
      BY FetchAssumption
    <3> QED BY <3>1, <3>2
  <2>3. lib.lavabuf.data \in Seq(1 .. MaxServed)
    <3> DEFINE s == lib.lavabuf.data
    <3>1. s \in Seq(Nat) /\ Numbers(s) \subseteq 1 .. lib.served
      BY <2>1 DEF Good, Memory, Apart
    <3> HIDE DEF s
    <3>a. 1 .. lib.served \subseteq 1 .. MaxServed
      BY <2>2, FetchAssumption
    <3>2. \A i \in DOMAIN s : s[i] \in 1 .. MaxServed
      <4>1. \A i \in DOMAIN s : s[i] \in Numbers(s)
        BY DEF Numbers
      <4> QED BY <3>1, <3>a, <4>1
    <3> DEFINE n == Len(s)
               S == 1 .. MaxServed
    <3>3. n \in Nat /\ DOMAIN s = 1 .. n /\ s \in [1 .. n -> Nat]
      BY <3>1, LenProperties
    <3>4. s \in [1 .. n -> S]
      BY <3>2, <3>3
    <3> HIDE DEF n, S
    <3>5. s \in Seq(S)
      BY <3>3, <3>4, IsASeq
    <3> QED BY <3>5 DEF s, S
  <2>4. /\ lib.lavabuf.start \in BOOLEAN /\ lib.lavabuf.size \in Nat \ {0}
        /\ Len(lib.lavabuf.data) <= lib.lavabuf.size
        /\ ~lib.lavabuf.start => lib.lavabuf.data = <<>>
    BY <2>1 DEF Good, Memory
  <2> QED BY <2>1, <2>2, <2>3, <2>4 DEF TypeOK, Rest, Generator, CallShape
<1> QED BY <1>1, InitLibrary, NextLibrary, PTL DEF Spec

\* The library implements RandomLibrary, with requests of every length, any dice and
\* callbacks, buffers, seeds and exchanges of every size, whatever failed: a call
\* brings all the octets it asked for, none of the daemon's twice, or shows an error,
\* or ends the program; the quality raw_random() returns is one the callback allows;
\* an octet is no poorer than that, or was made after the seed was used up in the
\* middle of a copy and is at most one class poorer (lib/fetchlava.c:1314, :1248).
\* That those late octets are acceptable is not claimed: the run poor_quality refutes
\* QualityAsAllowed.
THEOREM LibraryRefines == Spec => LibraryImplemented
<1>1. LibraryInv /\ [Next]_vars => LibraryInv' /\ [Library!LibraryNext]_(Library!libraryVars)
  BY NextLibrary
<1> QED BY <1>1, InitLibrary, PTL DEF Spec, LibraryImplemented, Library!LibrarySpec
=============================================================================
