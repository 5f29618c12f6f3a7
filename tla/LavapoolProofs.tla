--------------------------- MODULE LavapoolProofs ---------------------------
(***************************************************************************)
(* Proofs about the lavapool daemon, for every configuration, any number   *)
(* of channels, descriptors and clients, and any order of events.          *)
(***************************************************************************)
EXTENDS LavapoolProperties, SequenceTheorems, TLAPS

Assumptions ==
  /\ Chan \subseteq Nat /\ Fd \subseteq Nat /\ SysFd \subseteq Fd
  /\ MaxRequest \in Nat \ {0} /\ ReqBufLen \in Nat \ {0}
  /\ MaxAccept \in Nat /\ MaxOctets \in Nat

LEMMA AssumptionsHold == Assumptions
  BY ChannelAssumption, ListenerAssumption, PoolAssumption DEF Assumptions

LEMMA ChanNat == \A i \in Chan : i \in Nat /\ i >= 0
<1> SUFFICES ASSUME NEW i \in Chan PROVE i \in Nat
  BY SMT
<1> QED BY AssumptionsHold DEF Assumptions

LEMMA FdNat == \A f \in Fd : f \in Nat /\ f >= 0
<1> SUFFICES ASSUME NEW f \in Fd PROVE f \in Nat
  BY SMT
<1> QED BY AssumptionsHold DEF Assumptions

-----------------------------------------------------------------------------
(* What filling and draining the pool do to it.                            *)

LEMMA MaxlenNat == maxlen \in Nat
<1> DEFINE q == (PoolSize - 1 + Digest) \div Digest
<1>1. Digest \in Nat \ {0} /\ PoolSize - 1 + Digest \in Nat
  BY PoolAssumption
<1>2. q \in Nat
  BY <1>1
<1>3. Digest * q \in Nat
  <2> HIDE DEF q
  <2> QED BY <1>1, <1>2
<1> QED BY <1>3 DEF maxlen

\* drain_pool() returns no more than was asked for and than there is, and what
\* it returns and what it leaves are the pool cut in two.
LEMMA DrainProperties ==
  ASSUME pool \in Seq(Octet), NEW cnt \in Nat
  PROVE  /\ drain_count(cnt) \in 0 .. Len(pool) /\ drain_count(cnt) <= cnt
         /\ pool # <<>> /\ cnt > 0 => drain_count(cnt) > 0
         /\ drain_octets(cnt) \in Seq(Octet)
         /\ Len(drain_octets(cnt)) = drain_count(cnt)
         /\ \A k \in 1 .. drain_count(cnt) :
              drain_octets(cnt)[k] = pool[Len(pool) - drain_count(cnt) + k]
         /\ drain_rest(cnt) \in Seq(Octet)
         /\ Len(drain_rest(cnt)) = Len(pool) - drain_count(cnt)
         /\ \A k \in 1 .. Len(pool) - drain_count(cnt) : drain_rest(cnt)[k] = pool[k]
<1> DEFINE d == drain_count(cnt)
<1>1. Len(pool) \in Nat /\ (pool # <<>> => Len(pool) > 0)
  BY EmptySeq
<1>2. d \in 0 .. Len(pool) /\ d <= cnt /\ (pool # <<>> /\ cnt > 0 => d > 0)
  BY <1>1 DEF drain_count
<1> HIDE DEF d
<1>3. /\ SubSeq(pool, Len(pool) - d + 1, Len(pool)) \in Seq(Octet)
      /\ Len(SubSeq(pool, Len(pool) - d + 1, Len(pool))) = d
      /\ \A k \in 1 .. d : SubSeq(pool, Len(pool) - d + 1, Len(pool))[k]
                             = pool[Len(pool) - d + k]
  BY <1>1, <1>2, SubSeqProperties
<1>4. /\ SubSeq(pool, 1, Len(pool) - d) \in Seq(Octet)
      /\ Len(SubSeq(pool, 1, Len(pool) - d)) = Len(pool) - d
      /\ \A k \in 1 .. Len(pool) - d : SubSeq(pool, 1, Len(pool) - d)[k] = pool[k]
  BY <1>1, <1>2, SubSeqProperties
<1> QED
  BY <1>2, <1>3, <1>4 DEF d, drain_octets, drain_rest

\* The octets made next are numbered on from those made before, and go to the
\* end of the pool.
LEMMA AppendOctets ==
  ASSUME PoolTypeOK, NEW n \in Nat, Append_octets(n)
  PROVE  /\ pool' \in Seq(Octet) /\ Len(pool') = Len(pool) + n
         /\ made' \in 0 .. MaxOctets /\ made' = made + n
         /\ \A k \in 1 .. Len(pool) : pool'[k] = pool[k]
         /\ \A k \in 1 .. n : pool'[Len(pool) + k] = made + k
<1>1. MaxOctets \in Nat /\ made \in Nat /\ made + n <= MaxOctets /\ pool \in Seq(Octet)
  BY PoolAssumption DEF PoolTypeOK, Append_octets
<1>2. Fresh(n) \in [1 .. n -> Octet]
  BY <1>1 DEF Fresh, Octet
<1>3. Fresh(n) \in Seq(Octet) /\ Len(Fresh(n)) = n
  BY <1>2, SeqDef, LenProperties
<1>4. \A k \in 1 .. n : Fresh(n)[k] = made + k
  BY DEF Fresh
<1>5. pool' = pool \o Fresh(n) /\ made' = made + n
  BY DEF Append_octets
<1>6. /\ pool \o Fresh(n) \in Seq(Octet) /\ Len(pool \o Fresh(n)) = Len(pool) + n
      /\ \A k \in 1 .. Len(pool) + n :
           (pool \o Fresh(n))[k] = IF k <= Len(pool) THEN pool[k] ELSE Fresh(n)[k - Len(pool)]
  BY <1>1, <1>3, ConcatProperties
<1>7. Len(pool) \in Nat
  BY <1>1
<1> QED
  BY <1>1, <1>4, <1>5, <1>6, <1>7

LEMMA FillFromChaosType == PoolTypeOK /\ fill_pool_from_chaos => PoolTypeOK'
<1> SUFFICES ASSUME PoolTypeOK, fill_pool_from_chaos PROVE PoolTypeOK'
  OBVIOUS
<1>1. CASE UNCHANGED poolVars
  BY <1>1 DEF PoolTypeOK, poolVars
<1>2. ASSUME NEW n \in 1 .. (maxlen - Len(pool)), Append_octets(n) PROVE PoolTypeOK'
  <2>1. Len(pool) \in Nat /\ n \in Nat /\ n <= maxlen - Len(pool)
    BY MaxlenNat DEF PoolTypeOK
  <2> QED BY <1>2, <2>1, MaxlenNat, AppendOctets DEF PoolTypeOK
<1> QED BY <1>1, <1>2 DEF fill_pool_from_chaos

LEMMA FillFromFdType == PoolTypeOK /\ fill_pool_from_fd => PoolTypeOK'
<1> SUFFICES ASSUME PoolTypeOK, fill_pool_from_fd PROVE PoolTypeOK'
  OBVIOUS
<1>1. CASE UNCHANGED poolVars
  BY <1>1 DEF PoolTypeOK, poolVars
<1>2. ASSUME NEW n \in 1 .. (IF maxlen - Len(pool) > MaxPoolIO THEN MaxPoolIO
                             ELSE maxlen - Len(pool)), Append_octets(n)
      PROVE  PoolTypeOK'
  <2>1. Len(pool) \in Nat /\ n \in Nat /\ n <= maxlen - Len(pool)
    BY MaxlenNat, PoolAssumption DEF PoolTypeOK
  <2> QED BY <1>2, <2>1, MaxlenNat, AppendOctets DEF PoolTypeOK
<1> QED BY <1>1, <1>2 DEF fill_pool_from_fd

-----------------------------------------------------------------------------
(* What one channel's change does to the table.                            *)

\* A channel that is set up anew has the shape it should have.
LEMMA FreshChan ==
  ASSUME NEW t \in Type, NEW f \in Fd \cup {-1}, NEW cur \in State, NEW nxt \in State,
         nxt \notin {"GATHER", "WRITE", "CLOSE"}, cur \in {"ALLOCED", "CLOSE"} \/ t = "NONE" => f = -1
  PROVE  /\ Fresh_chan(t, cur, nxt, f) \in ChanRecord
         /\ ChannelShape(Fresh_chan(t, cur, nxt, f))
         /\ Fresh_chan(t, cur, nxt, f).fd = f
         /\ Fresh_chan(t, cur, nxt, f).type = t
         /\ Fresh_chan(t, cur, nxt, f).nxt = nxt
<1>1. <<>> \in Seq(Octet)
  BY EmptySeq
<1>2. 0 \in 0 .. ReqBufLen - 1 /\ 0 \in 0 .. MaxRequest
  BY AssumptionsHold DEF Assumptions
<1> QED
  BY <1>1, <1>2 DEF Fresh_chan, ChanRecord, ChannelShape

\* Only the record of one channel changes, and it keeps its descriptor.
LEMMA TableKeepsFd ==
  ASSUME TableInv, NEW i \in Chan, NEW r \in ChanRecord, ChannelShape(r),
         r.fd = ch[i].fd, ch' = [ch EXCEPT ![i] = r], UNCHANGED chanindx
  PROVE  TableInv'
<1>1. ch' \in [Chan -> ChanRecord] /\ ch'[i] = r /\ \A k \in Chan \ {i} : ch'[k] = ch[k]
  BY DEF TableInv
<1>2. \A k \in Chan : ch'[k].fd = ch[k].fd
  BY <1>1
<1>3. \A k \in Chan : ChannelShape(ch'[k])
  BY <1>1 DEF TableInv
<1>4. \A f \in Fd : chanindx[f] >= 0 => chanindx[f] \in Chan
  BY DEF TableInv, UNUSED, SYS
<1>5. DescriptorMap'
  BY <1>2, <1>4 DEF TableInv, DescriptorMap
<1> QED BY <1>1, <1>3, <1>5 DEF TableInv

\* A closed channel gives its descriptor back, and only that one.
LEMMA TableCloses ==
  ASSUME TableInv, NEW i \in Chan, close_chan(i)
  PROVE  /\ TableInv'
         /\ \A k \in Chan \ {i} : ch'[k] = ch[k]
         /\ \A f \in Fd : f # ch[i].fd => chanindx'[f] = chanindx[f]
<1>1. ch[i] \in ChanRecord
  BY DEF TableInv
<1>2. ch[i].type \in Type /\ ch[i].fd \in Fd \cup {-1}
  BY <1>1 DEF ChanRecord
<1> DEFINE r == Fresh_chan(ch[i].type, "CLOSE", "ALLOCED", -1)
<1>3. r \in ChanRecord /\ ChannelShape(r) /\ r.fd = -1
  BY <1>2, FreshChan DEF State
<1> HIDE DEF r
<1>4. ch' = [ch EXCEPT ![i] = r] /\ chanindx' = clear_chanindx(i, ch[i].fd)
  BY DEF close_chan, r
<1>5. ch' \in [Chan -> ChanRecord] /\ ch'[i] = r /\ \A k \in Chan \ {i} : ch'[k] = ch[k]
  BY <1>3, <1>4 DEF TableInv
<1>6. \A k \in Chan : ChannelShape(ch'[k])
  BY <1>3, <1>5 DEF TableInv
<1>7. /\ chanindx' \in [Fd -> Chan \cup {UNUSED, SYS}]
      /\ \A f \in Fd : f # ch[i].fd => chanindx'[f] = chanindx[f]
      /\ ch[i].fd \in Fd => chanindx'[ch[i].fd] = UNUSED
  <2>1. CASE ch[i].fd = -1
    BY <2>1, <1>4, AssumptionsHold DEF clear_chanindx, TableInv, Assumptions
  <2>2. CASE ch[i].fd \in Fd
    <3>1. chanindx[ch[i].fd] = i
      <4>1. ch[i].fd >= 0
        BY <2>2, FdNat
      <4> QED BY <4>1 DEF TableInv, DescriptorMap
    <3>2. chanindx' = [chanindx EXCEPT ![ch[i].fd] = UNUSED]
      BY <1>4, <2>2, <3>1 DEF clear_chanindx
    <3> QED BY <3>2, <2>2 DEF TableInv
  <2> QED BY <1>2, <2>1, <2>2
<1>8. DescriptorMap'
  <2>1. ASSUME NEW k \in Chan, ch'[k].fd >= 0 PROVE chanindx'[ch'[k].fd] = k
    <3>1. k # i /\ ch'[k] = ch[k]
      BY <1>3, <1>5, <2>1
    <3>2. ch[k].fd \in Fd /\ chanindx[ch[k].fd] = k
      BY <2>1, <3>1 DEF TableInv, DescriptorMap, ChanRecord
    <3>3. ch[k].fd # ch[i].fd
      <4> SUFFICES ASSUME ch[k].fd = ch[i].fd PROVE FALSE
        OBVIOUS
      <4>1. ch[i].fd >= 0
        BY <2>1, <3>1
      <4> QED BY <4>1, <3>1, <3>2 DEF TableInv, DescriptorMap
    <3> QED BY <1>7, <3>1, <3>2, <3>3
  <2>2. ASSUME NEW f \in Fd, chanindx'[f] >= 0 PROVE ch'[chanindx'[f]].fd = f
    <3>1. f # ch[i].fd /\ chanindx'[f] = chanindx[f]
      BY <1>7, <2>2 DEF UNUSED
    <3>2. chanindx[f] \in Chan /\ ch[chanindx[f]].fd = f
      BY <2>2, <3>1 DEF TableInv, DescriptorMap, UNUSED, SYS
    <3> QED BY <1>5, <3>1, <3>2
  <2> QED BY <2>1, <2>2 DEF DescriptorMap
<1> QED BY <1>5, <1>6, <1>7, <1>8 DEF TableInv

\* A slot that holds no descriptor is given one that no channel holds.
LEMMA TableOpens ==
  ASSUME TableInv, NEW j \in Chan, ch[j].fd = -1, NEW f \in LowestFree,
         NEW r \in ChanRecord, ChannelShape(r), r.fd = f,
         ch' = [ch EXCEPT ![j] = r], chanindx' = set_chanindx(j, f)
  PROVE  TableInv'
<1>1. f \in Fd /\ chanindx[f] = UNUSED /\ f >= 0
  BY AssumptionsHold DEF LowestFree, Assumptions
<1>2. ch' \in [Chan -> ChanRecord] /\ ch'[j] = r /\ \A k \in Chan \ {j} : ch'[k] = ch[k]
  BY DEF TableInv
<1>3. /\ chanindx' \in [Fd -> Chan \cup {UNUSED, SYS}]
      /\ chanindx'[f] = j /\ \A g \in Fd \ {f} : chanindx'[g] = chanindx[g]
  BY <1>1 DEF TableInv, set_chanindx
<1>4. \A k \in Chan : ChannelShape(ch'[k])
  BY <1>2 DEF TableInv
<1>5. DescriptorMap'
  <2>1. ASSUME NEW k \in Chan, ch'[k].fd >= 0 PROVE chanindx'[ch'[k].fd] = k
    <3>1. CASE k = j
      BY <3>1, <1>2, <1>3
    <3>2. CASE k # j
      <4>1. ch'[k] = ch[k] /\ ch[k].fd \in Fd /\ chanindx[ch[k].fd] = k
        BY <3>2, <1>2, <2>1 DEF TableInv, DescriptorMap, ChanRecord
      <4>2. ch[k].fd # f
        BY <4>1, <1>1, AssumptionsHold DEF UNUSED, Assumptions
      <4> QED BY <4>1, <4>2, <1>3
    <3> QED BY <3>1, <3>2
  <2>2. ASSUME NEW g \in Fd, chanindx'[g] >= 0 PROVE ch'[chanindx'[g]].fd = g
    <3>1. CASE g = f
      BY <3>1, <1>2, <1>3
    <3>2. CASE g # f
      <4>1. chanindx'[g] = chanindx[g] /\ chanindx[g] \in Chan /\ ch[chanindx[g]].fd = g
        BY <3>2, <1>3, <2>2 DEF TableInv, DescriptorMap, UNUSED, SYS
      <4>2. chanindx[g] # j
        BY <4>1, <2>2, <3>2, AssumptionsHold DEF Assumptions
      <4> QED BY <4>1, <4>2, <1>2
    <3> QED BY <3>1, <3>2
  <2> QED BY <2>1, <2>2 DEF DescriptorMap
<1> QED BY <1>2, <1>3, <1>4, <1>5 DEF TableInv

-----------------------------------------------------------------------------
(* What a step of the loop leaves to be dispatched.                        *)

\* With nothing to dispatch there is nothing to be stale.
LEMMA LoopIdle ==
  ASSUME ready' = {}, todo' \in SUBSET Chan,
         phase' \in {"boot", "listen", "first", "top", "preselect", "select", "exit"},
         timeout' \in {"forever", "finite"}, toggle' \in {0, 1},
         next_file' \in {"off", "later", "due"}
  PROVE  LoopInv'
  BY DEF LoopInv, DispatchIsCurrent

\* A pre-select operation runs while nothing is to be dispatched.
LEMMA LoopPreSelect ==
  ASSUME LoopInv, NEW i \in Chan, PreSelect(i), timeout' \in {"forever", "finite"},
         next_file' \in {"off", "later", "due"}
  PROVE  LoopInv'
<1>1. ready' = {} /\ todo' \in SUBSET Chan /\ toggle' \in {0, 1}
      /\ phase' \in {"preselect", "select"}
  BY DEF LoopInv, PreSelect
<1> QED BY <1>1, LoopIdle

\* The operation on one channel leaves the others, and what is still to be
\* dispatched for them, as they were.
LEMMA LoopDispatch ==
  ASSUME TableInv, LoopInv, NEW i \in Chan, NEW t, NEW c, Dispatch(i, t, c),
         \A k \in Chan \ {i} : ch[k].fd >= 0 => ch'[k].nxt = ch[k].nxt /\ ch'[k].type = ch[k].type,
         \A f \in Fd : f # ch[i].fd /\ chanindx[f] >= 0 => chanindx'[f] = chanindx[f],
         next_file' \in {"off", "later", "due"}
  PROVE  LoopInv'
<1>1. PICK p \in ready : /\ p[1] = ch[i].fd /\ chanindx[p[1]] = i
                        /\ ready' = ready \ {p}
                        /\ phase' = IF ready = {p} THEN "top" ELSE phase
  BY DEF Dispatch
<1>2. phase = "dispatch" /\ UNCHANGED <<todo, timeout, toggle>>
  BY DEF Dispatch
<1>3. \A q \in ready' : q \in ready /\ q[1] # p[1]
  BY <1>1 DEF LoopInv
<1>4. ASSUME NEW q \in ready'
      PROVE  /\ chanindx'[q[1]] = chanindx[q[1]] /\ chanindx[q[1]] \in Chan
             /\ ch'[chanindx[q[1]]].nxt = ch[chanindx[q[1]]].nxt
             /\ ch'[chanindx[q[1]]].type = ch[chanindx[q[1]]].type
  <2>1. q \in ready /\ q[1] \in Fd /\ q[1] # ch[i].fd
    BY <1>1, <1>3 DEF LoopInv
  <2>2. chanindx[q[1]] \in Chan /\ chanindx[q[1]] >= 0
    <3>1. chanindx[q[1]] \in Chan
      BY <2>1 DEF LoopInv, DispatchIsCurrent
    <3> QED BY <3>1, ChanNat
  <2>3. ch[chanindx[q[1]]].fd = q[1]
    BY <2>1, <2>2 DEF TableInv, DescriptorMap
  <2>4. chanindx[q[1]] # i /\ ch[chanindx[q[1]]].fd >= 0
    BY <2>1, <2>3, FdNat
  <2> QED BY <2>1, <2>2, <2>4
<1>5. DispatchIsCurrent'
  <2> SUFFICES ASSUME NEW q \in ready'
               PROVE  /\ chanindx'[q[1]] \in Chan
                      /\ q[2] = "read" => ch'[chanindx'[q[1]]].nxt =
                           IF ch'[chanindx'[q[1]]].type = "LISTENER" THEN "ACCEPT" ELSE "READ"
                      /\ q[2] = "write" => /\ ch'[chanindx'[q[1]]].type = "CLIENT"
                                           /\ ch'[chanindx'[q[1]]].nxt = "WRITE"
                      /\ q[2] = "exception" =>
                           ch'[chanindx'[q[1]]].nxt \in {"ACCEPT", "READ", "WRITE"}
    BY DEF DispatchIsCurrent
  <2>1. q \in ready
    BY <1>3
  <2> QED BY <1>4, <2>1 DEF LoopInv, DispatchIsCurrent
<1>6. phase' # "dispatch" => ready' = {}
  BY <1>1, <1>2
<1>7. phase' \in {"top", "dispatch"} /\ ready' \in SUBSET (Fd \X Cycle)
  BY <1>1, <1>2 DEF LoopInv
<1>8. \A q, r \in ready' : q[1] = r[1] => q = r
  BY <1>3 DEF LoopInv
<1> QED BY <1>2, <1>5, <1>6, <1>7, <1>8 DEF LoopInv

LEMMA TickType == ASSUME next_file \in {"off", "later", "due"}, next_file' \in Tick(next_file)
                  PROVE  next_file' \in {"off", "later", "due"}
  BY DEF Tick

-----------------------------------------------------------------------------
(* Every operation preserves the invariant.                                *)

LEMMA CloseInv ==
  ASSUME IInv, NEW i \in Chan, close_chan(i), NEW t, NEW c, Dispatch(i, t, c),
         next_file' \in {"off", "later", "due"}
  PROVE  TableInv' /\ LoopInv'
<1>1. TableInv' /\ (\A k \in Chan \ {i} : ch'[k] = ch[k])
      /\ (\A f \in Fd : f # ch[i].fd => chanindx'[f] = chanindx[f])
  BY TableCloses DEF IInv
<1>2. LoopInv'
  BY <1>1, LoopDispatch DEF IInv
<1> QED BY <1>1, <1>2

LEMMA PreCloseClientInv ==
  ASSUME IInv, NEW i \in Chan, PreCloseClient(i), UNCHANGED <<count, accepted, chaosVars>>
  PROVE  IInv'
<1>1. TableInv'
  BY TableCloses DEF IInv, PreCloseClient, close_client
<1>2. LoopInv'
  BY LoopPreSelect DEF IInv, PreCloseClient, LoopInv
<1>3. DataInv'
  BY DEF IInv, DataInv, PreCloseClient, PoolTypeOK, poolVars, chaosVars, frameVars
<1> QED BY <1>1, <1>2, <1>3 DEF IInv

LEMMA ExceptClientInv ==
  ASSUME IInv, NEW i \in Chan, ExceptClient(i), UNCHANGED <<count, accepted, chaosVars>>
  PROVE  IInv'
<1>1. TableInv' /\ LoopInv'
  BY CloseInv DEF IInv, ExceptClient, close_client, LoopInv
<1>2. DataInv'
  BY DEF IInv, DataInv, ExceptClient, PoolTypeOK, poolVars, chaosVars, frameVars
<1> QED BY <1>1, <1>2 DEF IInv

LEMMA ExceptListenerInv ==
  ASSUME IInv, NEW i \in Chan, ExceptListener(i), UNCHANGED chaosVars
  PROVE  IInv'
<1>1. TableInv' /\ LoopInv'
  BY CloseInv DEF IInv, ExceptListener, LoopInv
<1>2. DataInv'
  BY DEF IInv, DataInv, ExceptListener, PoolTypeOK, poolVars, chaosVars, frameVars
<1> QED BY <1>1, <1>2 DEF IInv

LEMMA ExceptChaosInv ==
  ASSUME IInv, NEW i \in Chan, ExceptChaos(i), UNCHANGED <<sent, count, accepted>>
  PROVE  IInv'
<1>1. TableInv' /\ LoopInv'
  BY CloseInv DEF IInv, ExceptChaos, close_chaos, LoopInv
<1>2. DataInv'
  BY DEF IInv, DataInv, ExceptChaos, close_chaos, PoolTypeOK, poolVars, frameVars
<1> QED BY <1>1, <1>2 DEF IInv

LEMMA PreChaosInv ==
  ASSUME IInv, NEW i \in Chan, PreChaos(i), UNCHANGED <<sent, count, accepted>>
  PROVE  IInv'
<1>1. TableInv'
  BY DEF IInv, TableInv, DescriptorMap, PreChaos, tableVars
<1>2. LoopInv'
  <2>1. timeout' \in {"forever", "finite"} /\ next_file' \in {"off", "later", "due"}
    BY DEF IInv, LoopInv, PreChaos
  <2> QED BY <2>1, LoopPreSelect DEF IInv, PreChaos
<1>3. DataInv'
  BY DEF IInv, DataInv, PreChaos, PoolTypeOK, poolVars, chaosVars, frameVars
<1> QED BY <1>1, <1>2, <1>3 DEF IInv

\* gather_client() gives a client what it wants or less, and knows which.
LEMMA GatherInv ==
  ASSUME IInv, NEW i \in Chan, gather_client(i), UNCHANGED <<count, accepted, chaosVars>>
  PROVE  IInv'
<1> DEFINE octets == drain_octets(wanted(i))
           got    == ch[i].random \o octets
           st     == gather_state(Len(got), ch[i].request)
           r      == [ch[i] EXCEPT !.random = got, !.cur = st, !.nxt = st]
<1>1. /\ ch[i] \in ChanRecord /\ ch[i].request \in Nat
      /\ ch[i].random \in Seq(Octet) /\ ChannelShape(ch[i])
  BY AssumptionsHold DEF IInv, TableInv, ChanRecord, Assumptions
<1>2. /\ ch[i].type = "CLIENT" /\ ch[i].nxt = "GATHER" /\ ch[i].cur = "GATHER"
      /\ ch[i].writecnt = 0 /\ Len(ch[i].random) < ch[i].request
  BY <1>1 DEF gather_client, ChannelShape
<1>3. /\ Len(ch[i].random) \in Nat /\ wanted(i) \in Nat
      /\ Len(ch[i].random) + wanted(i) = ch[i].request
  BY <1>1, <1>2 DEF wanted
<1>4. pool \in Seq(Octet) /\ Len(pool) <= maxlen
  BY DEF IInv, DataInv, PoolTypeOK
<1>5. /\ octets \in Seq(Octet) /\ Len(octets) \in 0 .. wanted(i)
      /\ drain_rest(wanted(i)) \in Seq(Octet) /\ Len(drain_rest(wanted(i))) <= Len(pool)
  BY <1>3, <1>4, DrainProperties
<1> HIDE DEF octets
<1>6. got \in Seq(Octet) /\ Len(got) = Len(ch[i].random) + Len(octets)
  BY <1>1, <1>5, ConcatProperties
<1> HIDE DEF got
<1>7. Len(got) \in Nat /\ Len(got) <= ch[i].request
  BY <1>3, <1>5, <1>6
<1>8. st \in {"GATHER", "WRITE"} /\ (st = "WRITE" <=> Len(got) = ch[i].request)
  BY DEF gather_state
<1> HIDE DEF st
<1>9. /\ r \in ChanRecord /\ r.fd = ch[i].fd /\ r.nxt = st /\ r.cur = st /\ r.random = got
      /\ r.request = ch[i].request /\ r.writecnt = ch[i].writecnt /\ r.type = ch[i].type
  BY <1>1, <1>6, <1>8 DEF ChanRecord, State
<1>10. has_gathered(i, octets) = r
  BY DEF has_gathered, got, st
<1> HIDE DEF r
<1>11. ChannelShape(r)
  <2>1. (st = "GATHER" => Len(got) < ch[i].request) /\ 0 < ch[i].request
    BY <1>1, <1>2, <1>3, <1>7, <1>8
  <2> QED BY <1>2, <1>8, <1>9, <2>1 DEF ChannelShape
<1>12. PoolTypeOK'
  <2>1. pool' \in Seq(Octet) /\ Len(pool') <= Len(pool)
    <3>1. pool' = pool \/ pool' = drain_rest(wanted(i))
      BY DEF gather_client
    <3> QED BY <1>4, <1>5, <3>1
  <2>2. UNCHANGED made
    BY DEF gather_client
  <2>3. Len(pool) \in Nat /\ Len(pool') \in Nat
    BY <1>4, <2>1
  <2> QED BY <1>4, <2>1, <2>2, <2>3, MaxlenNat DEF IInv, DataInv, PoolTypeOK
<1>13. DataInv'
  BY <1>12 DEF IInv, DataInv, gather_client, chaosVars, frameVars
<1>14. LoopInv'
  BY LoopPreSelect DEF IInv, gather_client, LoopInv
<1>15. TableInv'
  <2>1. CASE UNCHANGED tableVars
    BY <2>1 DEF IInv, TableInv, DescriptorMap, tableVars
  <2>2. CASE ch' = [ch EXCEPT ![i] = r] /\ UNCHANGED chanindx
    BY <1>9, <1>11, <2>2, TableKeepsFd DEF IInv
  <2>3. CASE close_client(i)
    BY <2>3, TableCloses DEF IInv, close_client
  <2> QED BY <1>10, <2>1, <2>2, <2>3 DEF gather_client, octets
<1> QED BY <1>13, <1>14, <1>15 DEF IInv

\* read_client() keeps the descriptor, or closes the channel.
LEMMA ReadClientInv ==
  ASSUME IInv, NEW i \in Chan, read_client(i), UNCHANGED <<count, accepted, chaosVars>>
  PROVE  IInv'
<1>1. next_file' \in {"off", "later", "due"}
  BY TickType DEF IInv, LoopInv, read_client
<1>2. DataInv'
  BY DEF IInv, DataInv, read_client, PoolTypeOK, poolVars, chaosVars, frameVars
<1>3. CASE close_client(i)
  <2>1. TableInv' /\ LoopInv'
    BY <1>1, <1>3, CloseInv DEF read_client, close_client
  <2> QED BY <1>2, <2>1 DEF IInv
<1>4. ASSUME NEW r \in ChanRecord, ChannelShape(r), r.fd = ch[i].fd,
             ch' = [ch EXCEPT ![i] = r], UNCHANGED chanindx
      PROVE  IInv'
  <2>1. TableInv'
    BY <1>4, TableKeepsFd DEF IInv
  <2>2. \A k \in Chan \ {i} : ch'[k] = ch[k]
    BY <1>4 DEF IInv, TableInv
  <2>3. LoopInv'
    BY <1>1, <1>4, <2>2, LoopDispatch DEF IInv, read_client
  <2> QED BY <1>2, <2>1, <2>3 DEF IInv
<1>5. /\ ch[i] \in ChanRecord /\ ChannelShape(ch[i]) /\ ch[i].nxt = "READ"
      /\ ch[i].readcnt \in 0 .. ReqBufLen - 1
  BY DEF IInv, TableInv, ChanRecord, read_client
<1>6. ch[i].random = <<>> /\ ch[i].writecnt = 0 /\ ch[i].type = "CLIENT"
  BY <1>5 DEF ChannelShape, read_client, Dispatch
<1>7. 0 \in 0 .. ReqBufLen - 1 /\ ReqBufLen \in Nat /\ MaxRequest \in Nat
  BY AssumptionsHold DEF Assumptions
<1>8. ASSUME NEW n \in 1 .. MaxRequest
      PROVE  /\ has_asked(i, n) \in ChanRecord /\ has_asked(i, n).fd = ch[i].fd
             /\ ChannelShape(has_asked(i, n))
  <2> DEFINE r == has_asked(i, n)
  <2>1. n \in 0 .. MaxRequest /\ 0 < n /\ Len(<<>>) = 0
    BY <1>7
  <2>2. r \in ChanRecord
    BY <1>5, <1>7, <2>1 DEF has_asked, ChanRecord, State
  <2>3. /\ r.nxt = "GATHER" /\ r.cur = "GATHER" /\ r.random = <<>> /\ r.request = n
        /\ r.writecnt = 0 /\ r.type = "CLIENT" /\ r.fd = ch[i].fd
    BY <1>5, <1>6 DEF has_asked, ChanRecord
  <2> QED BY <2>1, <2>2, <2>3 DEF ChannelShape
<1>9. ASSUME NEW k \in 1 .. read_room(i)
      PROVE  /\ has_sent_digits(i, k) \in ChanRecord /\ has_sent_digits(i, k).fd = ch[i].fd
             /\ ChannelShape(has_sent_digits(i, k))
  <2> DEFINE r == has_sent_digits(i, k)
  <2>1. ch[i].readcnt + k \in 0 .. ReqBufLen - 1
    BY <1>5, <1>7 DEF read_room
  <2>2. r \in ChanRecord
    BY <1>5, <2>1 DEF has_sent_digits, ChanRecord, State
  <2>3. /\ r.nxt = "READ" /\ r.cur = "READ" /\ r.random = <<>> /\ r.writecnt = 0
        /\ r.fd = ch[i].fd /\ r.type = "CLIENT"
    BY <1>5, <1>6 DEF has_sent_digits, ChanRecord
  <2> QED BY <2>2, <2>3 DEF ChannelShape
<1> QED BY <1>3, <1>4, <1>8, <1>9 DEF read_client

\* write_client() writes octets that were gathered and not written yet.
LEMMA WriteClientInv ==
  ASSUME IInv, NEW i \in Chan, write_client(i), UNCHANGED <<count, accepted, chaosVars>>
  PROVE  IInv'
<1>1. next_file' \in {"off", "later", "due"}
  BY DEF IInv, LoopInv, write_client
<1>2. CASE close_client(i) /\ UNCHANGED sent
  <2>1. TableInv' /\ LoopInv'
    BY <1>1, <1>2, CloseInv DEF write_client, close_client
  <2>2. DataInv'
    BY <1>2 DEF IInv, DataInv, write_client, PoolTypeOK, poolVars, chaosVars, frameVars
  <2> QED BY <2>1, <2>2 DEF IInv
<1>3. /\ ch[i] \in ChanRecord /\ ChannelShape(ch[i]) /\ ch[i].nxt = "WRITE"
      /\ ch[i].writecnt \in 0 .. MaxRequest /\ ch[i].request \in 0 .. MaxRequest
      /\ ch[i].random \in Seq(Octet) /\ MaxRequest \in Nat
  BY AssumptionsHold DEF IInv, TableInv, ChanRecord, write_client, Assumptions
<1>4. /\ ch[i].type = "CLIENT" /\ Len(ch[i].random) = ch[i].request
      /\ ch[i].writecnt < ch[i].request
  BY <1>3 DEF ChannelShape
<1>5. unsent(i) \in Seq(Octet) /\ Len(unsent(i)) = ch[i].request - ch[i].writecnt
  <2> DEFINE m == ch[i].writecnt + 1
             n == Len(ch[i].random)
  <2>1. m \in Int /\ n \in Int /\ 1 <= m /\ m <= n
    BY <1>3, <1>4
  <2>2. \A k \in m .. n : ch[i].random[k] \in Octet
    <3> SUFFICES ASSUME NEW k \in m .. n PROVE ch[i].random[k] \in Octet
      OBVIOUS
    <3>1. k \in 1 .. Len(ch[i].random)
      BY <2>1
    <3> QED BY <1>3, <3>1, ElementOfSeq
  <2>3. Len(SubSeq(ch[i].random, m, n)) = n - m + 1 /\ SubSeq(ch[i].random, m, n) \in Seq(Octet)
    <3> HIDE DEF m, n
    <3> QED BY <2>1, <2>2, SubSeqProperties
  <2> QED BY <1>3, <1>4, <2>3 DEF unsent
<1>6. ASSUME NEW k \in 1 .. (ch[i].request - ch[i].writecnt), UNCHANGED chanindx,
             sent' = sent \cup {unsent(i)[n] : n \in 1 .. k},
             ch' = [ch EXCEPT ![i] = has_been_sent(i, k)]
      PROVE  IInv'
  <2> DEFINE nx == IF ch[i].writecnt + k >= ch[i].request THEN "CLOSE" ELSE "WRITE"
             w  == ch[i].writecnt + k
             r  == has_been_sent(i, k)
  <2>1. w \in 0 .. MaxRequest /\ nx \in {"CLOSE", "WRITE"} /\ (nx = "WRITE" => w < ch[i].request)
    BY <1>3
  <2>2. r = [ch[i] EXCEPT !.writecnt = w, !.nxt = nx]
    BY DEF has_been_sent
  <2> HIDE DEF nx, w, r
  <2>3. /\ r \in ChanRecord /\ r.fd = ch[i].fd /\ r.nxt = nx /\ r.writecnt = w
        /\ r.random = ch[i].random /\ r.request = ch[i].request /\ r.type = ch[i].type
        /\ r.cur = ch[i].cur
    BY <1>3, <2>1, <2>2 DEF ChanRecord, State
  <2>4. ChannelShape(r)
    BY <1>3, <1>4, <2>1, <2>3 DEF ChannelShape
  <2>5. TableInv'
    BY <1>6, <2>3, <2>4, TableKeepsFd DEF IInv, r
  <2>6. \A j \in Chan \ {i} : ch'[j] = ch[j]
    BY <1>6 DEF IInv, TableInv
  <2>7. LoopInv'
    BY <1>1, <1>6, <2>6, LoopDispatch DEF IInv, write_client
  <2>8. {unsent(i)[n] : n \in 1 .. k} \subseteq Octet
    <3> SUFFICES ASSUME NEW n \in 1 .. k PROVE unsent(i)[n] \in Octet
      OBVIOUS
    <3>1. n \in 1 .. Len(unsent(i))
      BY <1>3, <1>5
    <3> QED BY <1>5, <3>1, ElementOfSeq
  <2>9. DataInv'
    BY <1>6, <2>8 DEF IInv, DataInv, write_client, PoolTypeOK, poolVars, chaosVars, frameVars
  <2> QED BY <2>5, <2>7, <2>9 DEF IInv
<1> QED BY <1>2, <1>6 DEF write_client

\* A slot that can be taken holds no descriptor.
LEMMA SlotIsClosed ==
  ASSUME TableInv, NEW t \in Type, NEW j \in SlotFor(t)
  PROVE  j \in Chan /\ ch[j].fd = -1
<1>1. j \in Chan
  BY DEF SlotFor, find_chan, mk_chan, Made
<1>2. CASE ch[j].cur \in {"ALLOCED", "CLOSE"}
  BY <1>1, <1>2 DEF TableInv, ChannelShape
<1>3. CASE ch[j].type = "NONE"
  BY <1>1, <1>3 DEF TableInv, ChannelShape
<1> QED BY <1>1, <1>2, <1>3 DEF SlotFor, find_chan, mk_chan, Made

\* accept_listener() opens a client on a descriptor and a slot that are free,
\* and changes at most the current state of the listener.
LEMMA AcceptInv ==
  ASSUME IInv, NEW i \in Chan, accept_listener(i), UNCHANGED chaosVars
  PROVE  IInv'
<1>1. next_file' \in {"off", "later", "due"}
  BY TickType DEF IInv, LoopInv, accept_listener
<1>2. /\ ch[i] \in ChanRecord /\ ChannelShape(ch[i]) /\ ch[i].nxt = "ACCEPT"
      /\ ch[i].type = "LISTENER" /\ ch[i].fd >= 0
  BY DEF IInv, TableInv, accept_listener, Dispatch
<1>3. CASE UNCHANGED <<tableVars, count, accepted>>
  <2>1. TableInv'
    BY <1>3 DEF IInv, TableInv, DescriptorMap, tableVars
  <2>2. LoopInv'
    BY <1>1, <1>3, LoopDispatch DEF IInv, accept_listener, tableVars
  <2>3. DataInv'
    BY <1>3 DEF IInv, DataInv, accept_listener, PoolTypeOK, poolVars, chaosVars, frameVars
  <2> QED BY <2>1, <2>2, <2>3 DEF IInv
<1>4. ASSUME NEW f \in LowestFree, NEW j \in SlotFor("CLIENT"), NEW lost \in BOOLEAN,
             chanindx' = set_chanindx(j, f),
             ch' = [ch EXCEPT ![j] = mk_open_client(f),
                              ![i].cur = IF lost THEN @ ELSE "ACCEPT"],
             count' = IF lost THEN count ELSE count + 1,
             accepted < MaxAccept, accepted' = accepted + 1
      PROVE  IInv'
  <2> DEFINE r == mk_open_client(f)
             l == [ch[i] EXCEPT !.cur = IF lost THEN @ ELSE "ACCEPT"]
  <2>1. j \in Chan /\ ch[j].fd = -1 /\ j # i
    BY <1>2, SlotIsClosed DEF IInv, Type
  <2>2. f \in Fd /\ chanindx[f] = UNUSED
    BY DEF LowestFree
  <2>3. r \in ChanRecord /\ ChannelShape(r) /\ r.fd = f /\ r.type = "CLIENT" /\ r.nxt = "READ"
    <3> DEFINE g == Fresh_chan("CLIENT", "OPEN", "READ", f)
    <3>1. g \in ChanRecord /\ ChannelShape(g) /\ g.fd = f /\ g.type = "CLIENT" /\ g.nxt = "READ"
      BY <2>2, FreshChan DEF Type, State
    <3>2. r = [g EXCEPT !.timeout = IF TimeoutSet THEN "later" ELSE "off"]
      BY DEF mk_open_client
    <3> HIDE DEF g, r
    <3>3. /\ r \in ChanRecord /\ r.fd = g.fd /\ r.type = g.type /\ r.nxt = g.nxt
          /\ r.cur = g.cur /\ r.random = g.random /\ r.request = g.request
          /\ r.writecnt = g.writecnt
      BY <3>1, <3>2 DEF ChanRecord
    <3> QED BY <3>1, <3>3 DEF ChannelShape
  <2>4. /\ l \in ChanRecord /\ l.fd = ch[i].fd /\ l.type = ch[i].type /\ l.nxt = "ACCEPT"
        /\ ChannelShape(l)
    <3>1. /\ l \in ChanRecord /\ l.fd = ch[i].fd /\ l.type = ch[i].type /\ l.nxt = ch[i].nxt
          /\ l.random = ch[i].random /\ l.writecnt = ch[i].writecnt
          /\ l.cur \in {ch[i].cur, "ACCEPT"}
      BY <1>2 DEF ChanRecord, State
    <3> HIDE DEF l
    <3> QED BY <1>2, <3>1 DEF ChannelShape
  <2>5. /\ ch' = [ch EXCEPT ![j] = r, ![i] = l]
        /\ ch' \in [Chan -> ChanRecord]
        /\ ch'[i] = l /\ ch'[j] = r /\ \A k \in Chan \ {i, j} : ch'[k] = ch[k]
    <3>1. ch' = [ch EXCEPT ![j] = r, ![i] = l]
      BY <1>4, <2>1
    <3> HIDE DEF r, l
    <3> QED BY <2>1, <2>3, <2>4, <3>1 DEF IInv, TableInv
  <2> HIDE DEF r, l
  <2>6. TableInv'
    <3>1. /\ chanindx' \in [Fd -> Chan \cup {UNUSED, SYS}]
          /\ chanindx'[f] = j /\ \A g \in Fd \ {f} : chanindx'[g] = chanindx[g]
      BY <1>4, <2>1, <2>2 DEF IInv, TableInv, set_chanindx
    <3>2. \A k \in Chan \ {j} : ch'[k].fd = ch[k].fd
      BY <2>4, <2>5
    <3>3. ASSUME NEW k \in Chan, ch'[k].fd >= 0 PROVE chanindx'[ch'[k].fd] = k
      <4>1. CASE k = j
        BY <4>1, <2>3, <2>5, <3>1
      <4>2. CASE k # j
        <5>1. ch[k].fd \in Fd /\ chanindx[ch[k].fd] = k /\ k >= 0
          BY <3>2, <3>3, <4>2, ChanNat DEF IInv, TableInv, DescriptorMap, ChanRecord
        <5>2. ch[k].fd # f
          BY <2>2, <5>1 DEF UNUSED
        <5> QED BY <3>1, <3>2, <4>2, <5>1, <5>2
      <4> QED BY <4>1, <4>2
    <3>4. ASSUME NEW g \in Fd, chanindx'[g] >= 0 PROVE ch'[chanindx'[g]].fd = g
      <4>1. CASE g = f
        BY <4>1, <2>3, <2>5, <3>1
      <4>2. CASE g # f
        <5>1. chanindx'[g] = chanindx[g] /\ chanindx[g] \in Chan /\ ch[chanindx[g]].fd = g
          BY <3>1, <3>4, <4>2 DEF IInv, TableInv, DescriptorMap, UNUSED, SYS
        <5>2. chanindx[g] # j
          BY <2>1, <5>1, FdNat
        <5> QED BY <3>2, <5>1, <5>2
      <4> QED BY <4>1, <4>2
    <3>5. DescriptorMap'
      BY <3>3, <3>4 DEF DescriptorMap
    <3>6. \A k \in Chan : ChannelShape(ch'[k])
      BY <2>3, <2>4, <2>5 DEF IInv, TableInv
    <3> QED BY <2>5, <3>1, <3>5, <3>6 DEF TableInv
  <2>7. LoopInv'
    <3>1. \A k \in Chan \ {i} : ch[k].fd >= 0 => ch'[k].nxt = ch[k].nxt /\ ch'[k].type = ch[k].type
      BY <2>1, <2>5
    <3>2. \A g \in Fd : g # ch[i].fd /\ chanindx[g] >= 0 => chanindx'[g] = chanindx[g]
      BY <1>4, <2>2 DEF IInv, TableInv, set_chanindx, UNUSED
    <3> QED BY <1>1, <3>1, <3>2, LoopDispatch DEF IInv, accept_listener
  <2>8. DataInv'
    <3>1. accepted' \in 0 .. MaxAccept /\ count' \in 0 .. accepted'
      BY <1>4, AssumptionsHold DEF IInv, DataInv, Assumptions
    <3> QED BY <3>1 DEF IInv, DataInv, accept_listener, PoolTypeOK, poolVars, chaosVars, frameVars
  <2> QED BY <2>6, <2>7, <2>8 DEF IInv
<1> QED BY <1>3, <1>4 DEF accept_listener

\* read_chaos() leaves the channel in READ or closes it; what a dumped frame
\* does to the files and what a frame or a pipe adds to the pool keep their
\* types.
LEMMA ReadChaosInv ==
  ASSUME IInv, NEW i \in Chan, read_chaos(i), UNCHANGED <<sent, count, accepted>>
  PROVE  IInv'
<1>1. /\ ch[i] \in ChanRecord /\ ChannelShape(ch[i]) /\ ch[i].nxt = "READ"
      /\ ch[i].type = "CHAOS"
  BY DEF IInv, TableInv, read_chaos, Dispatch
<1>2. DataInv
  BY DEF IInv
<1>3. ChaosRead(i) \/ ChaosLost(i)
  BY DEF read_chaos, read_driver, read_process
<1> DEFINE FilesOK == /\ next_file' \in {"off", "later", "due"} /\ fast_select' \in BOOLEAN
                      /\ newfile' \in {"none", "part", "frame"} /\ savefile' \in {"none", "frame"}
<1>4. FilesOK
  <2>1. CASE UNCHANGED <<next_file, frameVars>>
    BY <1>2, <2>1 DEF frameVars, DataInv, IInv, LoopInv
  <2>2. ASSUME NEW skip \in BOOLEAN, frame_dump_if_ready(i, skip) PROVE FilesOK
    <3>1. CASE ready_to_frame_dump(i, next_file)
      <4>1. frame_dump(skip) /\ fast_select' = (skip \/ fast_select) /\ next_file' = "later"
        BY <2>2, <3>1 DEF frame_dump_if_ready
      <4>2. fast_select' \in BOOLEAN
        BY <1>2, <4>1 DEF DataInv
      <4>3. newfile' \in {"none", "part", "frame"} /\ savefile' \in {"none", "frame"}
        BY <1>2, <4>1 DEF DataInv, frame_dump
      <4> QED BY <4>1, <4>2, <4>3
    <3>2. CASE ~ready_to_frame_dump(i, next_file)
      BY <2>1, <2>2, <3>2 DEF frame_dump_if_ready
    <3> QED BY <3>1, <3>2
  <2>3. \/ UNCHANGED <<next_file, frameVars>>
        \/ \E skip \in BOOLEAN : frame_dump_if_ready(i, skip)
    BY DEF read_chaos, read_driver, read_process
  <2> QED BY <2>1, <2>2, <2>3
<1>5. PoolTypeOK'
  <2>1. fill_pool_from_chaos \/ fill_pool_from_fd \/ UNCHANGED poolVars
    BY DEF read_chaos, read_driver, read_process
  <2> QED BY <1>2, <2>1, FillFromChaosType, FillFromFdType DEF DataInv, PoolTypeOK, poolVars
<1>6. driver' \in BOOLEAN
  BY <1>2, <1>3 DEF DataInv, ChaosRead, ChaosLost, close_chaos
<1>7. DataInv'
  BY <1>2, <1>4, <1>5, <1>6 DEF DataInv
<1>8. CASE ChaosLost(i)
  <2>1. TableInv' /\ LoopInv'
    BY <1>4, <1>8, CloseInv DEF ChaosLost, close_chaos, read_chaos
  <2> QED BY <1>7, <2>1 DEF IInv
<1>9. CASE ChaosRead(i)
  <2> DEFINE r == [ch[i] EXCEPT !.cur = "READ", !.nxt = "READ"]
  <2>1. ch' = [ch EXCEPT ![i] = r] /\ UNCHANGED chanindx
    BY <1>9 DEF ChaosRead
  <2>2. /\ r \in ChanRecord /\ r.fd = ch[i].fd /\ r.type = "CHAOS" /\ r.nxt = "READ"
        /\ r.cur = "READ" /\ r.random = ch[i].random /\ r.writecnt = ch[i].writecnt
    BY <1>1 DEF ChanRecord, State
  <2> HIDE DEF r
  <2>3. ChannelShape(r)
    BY <1>1, <2>2 DEF ChannelShape
  <2>4. TableInv'
    BY <2>1, <2>2, <2>3, TableKeepsFd DEF IInv
  <2>5. \A j \in Chan \ {i} : ch'[j] = ch[j]
    BY <2>1 DEF IInv, TableInv
  <2>6. LoopInv'
    BY <1>4, <2>1, <2>5, LoopDispatch DEF IInv, read_chaos
  <2> QED BY <1>7, <2>4, <2>6 DEF IInv
<1> QED BY <1>3, <1>8, <1>9

\* mk_open_chaos() and mk_open_listener().
LEMMA OpenChanInv ==
  ASSUME IInv, NEW t \in {"CHAOS", "LISTENER"}, NEW nxt \in {"READ", "ACCEPT"},
         NEW after \in {"listen", "first"}, phase \in {"boot", "listen"},
         OpenChan(t, nxt, after), UNCHANGED chaosVars,
         next_file' \in {"off", "later", "due"}
  PROVE  IInv'
<1>1. DataInv'
  BY DEF IInv, DataInv, OpenChan, PoolTypeOK, poolVars, chaosVars, frameVars
<1>2. PICK i \in SlotFor(t) :
        \/ \E f \in LowestFree :
             /\ ch' = [ch EXCEPT ![i] = Fresh_chan(t, "OPEN", nxt, f)]
             /\ chanindx' = set_chanindx(i, f)
             /\ phase' = after
        \/ /\ ch' = [ch EXCEPT ![i] = Fresh_chan(t, "ALLOCED", "OPEN", -1)]
           /\ phase' = "exit"
           /\ UNCHANGED chanindx
  BY DEF OpenChan
<1>3. t \in Type /\ i \in Chan /\ ch[i].fd = -1
  BY SlotIsClosed DEF IInv, Type
<1>4. TableInv'
  <2>1. ASSUME NEW f \in LowestFree,
               ch' = [ch EXCEPT ![i] = Fresh_chan(t, "OPEN", nxt, f)],
               chanindx' = set_chanindx(i, f)
        PROVE  TableInv'
    <3> DEFINE r == Fresh_chan(t, "OPEN", nxt, f)
    <3>1. r \in ChanRecord /\ ChannelShape(r) /\ r.fd = f
      BY <1>3, FreshChan DEF State, LowestFree
    <3> HIDE DEF r
    <3>2. ch' = [ch EXCEPT ![i] = r]
      BY <2>1 DEF r
    <3> QED BY <1>3, <2>1, <3>1, <3>2, TableOpens DEF IInv
  <2>2. ASSUME ch' = [ch EXCEPT ![i] = Fresh_chan(t, "ALLOCED", "OPEN", -1)], UNCHANGED chanindx
        PROVE  TableInv'
    <3> DEFINE r == Fresh_chan(t, "ALLOCED", "OPEN", -1)
    <3>1. r \in ChanRecord /\ ChannelShape(r) /\ r.fd = -1
      BY <1>3, FreshChan DEF State
    <3> HIDE DEF r
    <3>2. ch' = [ch EXCEPT ![i] = r]
      BY <2>2 DEF r
    <3> QED BY <1>3, <2>2, <3>1, <3>2, TableKeepsFd DEF IInv
  <2> QED BY <1>2, <2>1, <2>2
<1>5. LoopInv'
  <2>1. ready = {} /\ phase' \in {"listen", "first", "exit"}
    BY <1>2 DEF IInv, LoopInv
  <2> QED BY <2>1, LoopIdle DEF IInv, LoopInv, OpenChan
<1> QED BY <1>1, <1>4, <1>5 DEF IInv

LEMMA StartCycleInv == ASSUME IInv, StartCycle PROVE IInv'
<1>1. TableInv'
  BY DEF IInv, TableInv, DescriptorMap, StartCycle, tableVars
<1>2. DataInv'
  BY DEF IInv, DataInv, StartCycle, PoolTypeOK, poolVars, chaosVars, frameVars
<1>3. LoopInv'
  <2>1. /\ ready' = {} /\ todo' \in SUBSET Chan /\ timeout' \in {"forever", "finite"}
        /\ phase' \in {"select", "preselect"} /\ toggle' \in {0, 1}
        /\ next_file' \in {"off", "later", "due"}
    BY DEF IInv, LoopInv, StartCycle, timeout_value
  <2> QED BY <2>1, LoopIdle
<1> QED BY <1>1, <1>2, <1>3 DEF IInv

\* What select() reports was asked for by the channel of its descriptor.
LEMMA AskedIsCurrent ==
  ASSUME IInv, NEW nf, NEW tg, NEW odds, NEW p \in Asked(nf, tg, odds)
  PROVE  /\ p \in Fd \X Cycle /\ chanindx[p[1]] \in Chan
         /\ LET c == ch[chanindx[p[1]]]
            IN /\ p[2] = "read" => c.nxt = IF c.type = "LISTENER" THEN "ACCEPT" ELSE "READ"
               /\ p[2] = "write" => c.type = "CLIENT" /\ c.nxt = "WRITE"
               /\ p[2] = "exception" => c.nxt \in {"ACCEPT", "READ", "WRITE"}
<1>1. PICK i \in Chan : p \in {ch[i].fd} \X select_mask(i, nf, tg, odds)
  BY DEF Asked
<1>2. p[1] = ch[i].fd /\ p[2] \in select_mask(i, nf, tg, odds) /\ p = <<p[1], p[2]>>
  BY <1>1
<1>3. ~(ch[i].fd < 0)
  BY <1>2 DEF select_mask
<1>4. ch[i].fd \in Fd /\ chanindx[ch[i].fd] = i
  <2>1. ch[i].fd \in Fd \cup {-1}
    BY DEF IInv, TableInv, ChanRecord
  <2>2. ch[i].fd \in Fd
    BY <1>3, <2>1
  <2>3. ch[i].fd >= 0
    BY <2>2, FdNat
  <2> QED BY <2>2, <2>3 DEF IInv, TableInv, DescriptorMap
<1>5. /\ p[2] \in Cycle
      /\ p[2] = "read" => ch[i].nxt = IF ch[i].type = "LISTENER" THEN "ACCEPT" ELSE "READ"
      /\ p[2] = "write" => ch[i].type = "CLIENT" /\ ch[i].nxt = "WRITE"
      /\ p[2] = "exception" => ch[i].nxt \in {"ACCEPT", "READ", "WRITE"}
  <2>1. CASE ch[i].type = "LISTENER"
    BY <1>2, <2>1 DEF select_mask, listener_select_mask, Cycle
  <2>2. CASE ch[i].type = "CLIENT"
    BY <1>2, <2>2 DEF select_mask, client_select_mask, client_read_mask, client_write_mask,
                      client_exception_mask, Cycle
  <2>3. CASE ch[i].type \notin {"CLIENT", "LISTENER"}
    BY <1>2, <2>3 DEF select_mask, chaos_select_mask, chaos_read_mask, chaos_exception_mask,
                      Cycle
  <2> QED BY <2>1, <2>2, <2>3
<1> QED BY <1>2, <1>4, <1>5

\* select(), while which the clock of some clients runs out.
LEMMA SelectInv == ASSUME IInv, Select PROVE IInv'
<1>1. PICK late \in SUBSET {i \in open_clients : ch[i].timeout = "later"}, odds \in BOOLEAN :
        /\ ready' \in Reports(Asked(next_file', toggle', odds))
        /\ phase' = IF ready' = {} THEN "top" ELSE "dispatch"
        /\ ch' = [i \in Chan |-> IF i \in late THEN [ch[i] EXCEPT !.timeout = "due"]
                                 ELSE ch[i]]
  BY DEF Select
<1>2. /\ toggle' \in {0, 1} /\ next_file' \in {"off", "later", "due"}
      /\ UNCHANGED <<chanindx, todo, timeout>>
  BY TickType DEF IInv, LoopInv, Select
<1>3. ASSUME NEW i \in Chan
      PROVE  /\ ch'[i] \in ChanRecord /\ ChannelShape(ch'[i])
             /\ ch'[i].fd = ch[i].fd /\ ch'[i].type = ch[i].type /\ ch'[i].nxt = ch[i].nxt
  <2>1. ch[i] \in ChanRecord /\ ChannelShape(ch[i])
    BY DEF IInv, TableInv
  <2>2. CASE i \in late
    <3> DEFINE r == [ch[i] EXCEPT !.timeout = "due"]
    <3>1. /\ r \in ChanRecord /\ r.fd = ch[i].fd /\ r.type = ch[i].type /\ r.nxt = ch[i].nxt
          /\ r.cur = ch[i].cur /\ r.random = ch[i].random /\ r.request = ch[i].request
          /\ r.writecnt = ch[i].writecnt
      BY <2>1 DEF ChanRecord
    <3>2. ch'[i] = r
      BY <1>1, <2>2
    <3> HIDE DEF r
    <3> QED BY <2>1, <3>1, <3>2 DEF ChannelShape
  <2>3. CASE i \notin late
    BY <1>1, <2>1, <2>3
  <2> QED BY <2>2, <2>3
<1>4. TableInv'
  <2>1. ch' \in [Chan -> ChanRecord] /\ \A i \in Chan : ChannelShape(ch'[i])
    BY <1>1, <1>3
  <2>2. \A f \in Fd : chanindx[f] >= 0 => chanindx[f] \in Chan
    BY DEF IInv, TableInv, UNUSED, SYS
  <2>3. DescriptorMap'
    BY <1>2, <1>3, <2>2 DEF IInv, TableInv, DescriptorMap
  <2> QED BY <1>2, <2>1, <2>3 DEF IInv, TableInv
<1>5. DataInv'
  BY DEF IInv, DataInv, Select, PoolTypeOK, poolVars, chaosVars, frameVars
<1>6. /\ \A p \in ready' : p \in Asked(next_file', toggle', odds)
      /\ \A p, q \in ready' : p[1] = q[1] => p = q
  BY <1>1 DEF Reports
<1>7. ready' \in SUBSET (Fd \X Cycle)
  BY <1>6, AskedIsCurrent
<1>8. DispatchIsCurrent'
  <2> SUFFICES ASSUME NEW p \in ready'
               PROVE  /\ chanindx'[p[1]] \in Chan
                      /\ p[2] = "read" => ch'[chanindx'[p[1]]].nxt =
                           IF ch'[chanindx'[p[1]]].type = "LISTENER" THEN "ACCEPT" ELSE "READ"
                      /\ p[2] = "write" => /\ ch'[chanindx'[p[1]]].type = "CLIENT"
                                           /\ ch'[chanindx'[p[1]]].nxt = "WRITE"
                      /\ p[2] = "exception" =>
                           ch'[chanindx'[p[1]]].nxt \in {"ACCEPT", "READ", "WRITE"}
    BY DEF DispatchIsCurrent
  <2>1. p \in Asked(next_file', toggle', odds)
    BY <1>6
  <2>2. chanindx[p[1]] \in Chan
    BY <2>1, AskedIsCurrent
  <2>3. /\ ch'[chanindx[p[1]]].nxt = ch[chanindx[p[1]]].nxt
        /\ ch'[chanindx[p[1]]].type = ch[chanindx[p[1]]].type
    BY <1>3, <2>2
  <2> QED BY <1>2, <2>1, <2>2, <2>3, AskedIsCurrent
<1>9. LoopInv'
  <2>1. todo' \in SUBSET Chan /\ timeout' \in {"forever", "finite"}
    BY <1>2 DEF IInv, LoopInv
  <2>2. phase' \in {"top", "dispatch"} /\ (phase' # "dispatch" => ready' = {})
    BY <1>1
  <2> QED BY <1>2, <1>6, <1>7, <1>8, <2>1, <2>2 DEF LoopInv
<1> QED BY <1>4, <1>5, <1>9 DEF IInv

\* chan_close() closes every channel and drops every descriptor.
LEMMA ShutdownInv == ASSUME IInv, Shutdown PROVE IInv'
<1>1. \A i \in Chan : /\ ch'[i] \in ChanRecord /\ ChannelShape(ch'[i]) /\ ch'[i].fd = -1
  <2> SUFFICES ASSUME NEW i \in Chan
               PROVE  ch'[i] \in ChanRecord /\ ChannelShape(ch'[i]) /\ ch'[i].fd = -1
    OBVIOUS
  <2>1. ch[i] \in ChanRecord /\ ChannelShape(ch[i]) /\ ch[i].type \in Type
    BY DEF IInv, TableInv, ChanRecord
  <2>2. CASE ch[i].type = "NONE"
    BY <2>1, <2>2 DEF Shutdown, ChannelShape
  <2>3. CASE ch[i].type # "NONE"
    <3> DEFINE r == Fresh_chan(ch[i].type, "CLOSE", "ALLOCED", -1)
    <3>1. r \in ChanRecord /\ ChannelShape(r) /\ r.fd = -1
      BY <2>1, FreshChan DEF State
    <3>2. ch'[i] = r
      BY <2>3 DEF Shutdown
    <3> HIDE DEF r
    <3> QED BY <3>1, <3>2
  <2> QED BY <2>2, <2>3
<1>2. ch' \in [Chan -> ChanRecord]
  <2>1. ch' = [i \in Chan |-> ch'[i]]
    BY DEF Shutdown
  <2> QED BY <1>1, <2>1
<1>3. /\ chanindx' \in [Fd -> Chan \cup {UNUSED, SYS}]
      /\ \A f \in Fd : chanindx'[f] \in {UNUSED, SYS}
  BY DEF Shutdown
<1>4. TableInv'
  BY <1>1, <1>2, <1>3 DEF TableInv, DescriptorMap, UNUSED, SYS
<1>5. LoopInv'
  <2>1. ready = {} /\ phase' = "exit"
    BY DEF IInv, LoopInv, Shutdown
  <2> QED BY <2>1, LoopIdle DEF IInv, LoopInv, Shutdown
<1>6. PoolTypeOK'
  <2>1. pool' = <<>> /\ UNCHANGED made
    BY DEF Shutdown
  <2>2. <<>> \in Seq(Octet) /\ Len(<<>>) = 0
    BY EmptySeq
  <2> QED BY <2>1, <2>2, MaxlenNat DEF IInv, DataInv, PoolTypeOK
<1>7. DataInv'
  BY <1>6 DEF IInv, DataInv, Shutdown, frameVars
<1> QED BY <1>4, <1>5, <1>7 DEF IInv

LEMMA ReaderTakesFrameInv ==
  ASSUME IInv, ReaderTakesFrame, UNCHANGED <<sent, count, accepted>> PROVE IInv'
  BY DEF ReaderTakesFrame, IInv, TableInv, DescriptorMap, LoopInv, DispatchIsCurrent, DataInv,
         PoolTypeOK, tableVars, loopVars, poolVars

LEMMA StutterInv == ASSUME IInv, UNCHANGED vars PROVE IInv'
  BY DEF vars, IInv, TableInv, DescriptorMap, LoopInv, DispatchIsCurrent, DataInv,
         PoolTypeOK, tableVars, loopVars, poolVars, chaosVars, frameVars

-----------------------------------------------------------------------------
(* The theorems.                                                           *)

LEMMA InitInv == Init => IInv
<1> SUFFICES ASSUME Init PROVE IInv
  OBVIOUS
<1> DEFINE e == Fresh_chan("NONE", "ALLOCED", "ALLOCED", -1)
<1>1. e \in ChanRecord /\ ChannelShape(e) /\ e.fd = -1
  BY FreshChan DEF Type, State
<1>2. ch = [i \in Chan |-> e]
  BY DEF Init, EmptyTable
<1>3. chanindx \in [Fd -> {UNUSED, SYS}]
  BY DEF Init, EmptyIndex
<1> HIDE DEF e
<1>4. TableInv
  BY <1>1, <1>2, <1>3 DEF TableInv, DescriptorMap, UNUSED, SYS
<1>5. LoopInv
  BY DEF Init, LoopInv, DispatchIsCurrent
<1>6. PoolTypeOK
  <2>1. <<>> \in Seq(Octet) /\ Len(<<>>) = 0
    BY EmptySeq
  <2> QED BY <2>1, MaxlenNat, AssumptionsHold DEF Init, PoolInit, PoolTypeOK, Assumptions
<1>7. DataInv
  <2>1. accepted \in 0 .. MaxAccept /\ count \in 0 .. accepted
    BY AssumptionsHold DEF Init, Assumptions
  <2>2. driver \in BOOLEAN /\ fast_select \in BOOLEAN
    BY ChaosAssumption, Zenon DEF Init
  <2> QED BY <1>6, <2>1, <2>2 DEF Init, DataInv
<1> QED BY <1>4, <1>5, <1>7 DEF IInv

LEMMA NextInv == IInv /\ [Next]_vars => IInv'
<1> SUFFICES ASSUME IInv, [Next]_vars PROVE IInv'
  OBVIOUS
<1>1. CASE mk_open_chaos
  <2>1. next_file' \in {"off", "later", "due"}
    BY <1>1 DEF mk_open_chaos
  <2> QED BY <1>1, <2>1, OpenChanInv DEF mk_open_chaos
<1>2. CASE mk_open_listener
  <2>1. next_file' \in {"off", "later", "due"}
    BY <1>2 DEF mk_open_listener, IInv, LoopInv
  <2> QED BY <1>2, <2>1, OpenChanInv DEF mk_open_listener
<1>3. ASSUME NEW i \in Chan, ClientOp(i), UNCHANGED <<count, accepted, chaosVars>>
      PROVE  IInv'
  BY <1>3, GatherInv, PreCloseClientInv, ExceptClientInv, ReadClientInv, WriteClientInv
     DEF ClientOp
<1>4. ASSUME NEW i \in Chan, ListenerOp(i), UNCHANGED chaosVars PROVE IInv'
  BY <1>4, AcceptInv, ExceptListenerInv DEF ListenerOp
<1>5. ASSUME NEW i \in Chan, ChaosOp(i), UNCHANGED <<sent, count, accepted>> PROVE IInv'
  BY <1>5, PreChaosInv, ExceptChaosInv, ReadChaosInv DEF ChaosOp
<1>6. CASE DaemonStep
  BY <1>1, <1>2, <1>3, <1>4, <1>5, <1>6, StartCycleInv, SelectInv DEF DaemonStep
<1>7. CASE ReaderTakesFrame /\ UNCHANGED <<sent, count, accepted>>
  BY <1>7, ReaderTakesFrameInv
<1>8. CASE Shutdown
  BY <1>8, ShutdownInv
<1>9. CASE UNCHANGED vars
  BY <1>9, StutterInv
<1> QED BY <1>6, <1>7, <1>8, <1>9 DEF Next, Exited

LEMMA Invariance == Spec => []IInv
  BY InitInv, NextInv, PTL DEF Spec

\* Every variable of the daemon keeps its type: pool, table and counters never
\* leave their ranges, for every configuration and every number of channels
\* (chan.h, pool.c).
THEOREM LavapoolTypeCorrect == Spec => []TypeOK
<1>1. IInv => TypeOK
  BY DEF IInv, TableInv, LoopInv, DataInv, TypeOK
<1> QED BY <1>1, Invariance, PTL

\* chanindx[] and the fd fields of the channels stay inverse to each other
\* (set_chanindx, clear_chanindx).
THEOREM DescriptorsMapToTheirChannels == Spec => []DescriptorMap
<1>1. IInv => DescriptorMap
  BY DEF IInv, TableInv
<1> QED BY <1>1, Invariance, PTL

\* Within one pass of chan_select(), however many descriptors are closed and
\* reused before their turn, each operation is one its channel asked for.
THEOREM DispatchNeverStale == Spec => []DispatchIsCurrent
<1>1. IInv => DispatchIsCurrent
  BY DEF IInv, LoopInv
<1> QED BY <1>1, Invariance, PTL

\* Every channel is as far with its octets as its state says: a client in WRITE
\* holds exactly what it asked for, one in GATHER less (gather_client,
\* write_client).
THEOREM ChannelsKeepTheirShape == Spec => [](\A i \in Chan : ChannelShape(ch[i]))
<1>1. IInv => \A i \in Chan : ChannelShape(ch[i])
  BY DEF IInv, TableInv
<1> QED BY <1>1, Invariance, PTL
=============================================================================
