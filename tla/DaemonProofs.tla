---------------------------- MODULE DaemonProofs ----------------------------
(***************************************************************************)
(* What the lavapool daemon promises, proved for every configuration: the  *)
(* limit on clients, the feeding of clients that wait, that no octet is    *)
(* given twice, and that the daemon implements the service.                *)
(*                                                                         *)
(* The proofs rest on IInv, which LavapoolProofs shows to be inductive.    *)
(***************************************************************************)
EXTENDS LavapoolProofs, FiniteSetTheorems

-----------------------------------------------------------------------------
(* What a channel does next, by where it is.                               *)

LEMMA ChannelsTyped ==
  ASSUME IInv, NEW i \in Chan
  PROVE  ch[i] \in ChanRecord /\ ChannelShape(ch[i])
  BY DEF IInv, TableInv

\* A new channel that waits for its descriptor, or to be taken again.
LEMMA FreshState ==
  ASSUME NEW t \in Type, NEW cur \in State, NEW nxt \in State, NEW f \in Fd \cup {-1},
         cur \in {"ALLOCED", "CLOSE"} \/ t = "NONE" => nxt \in {"ALLOCED", "OPEN"},
         cur \notin {"ACCEPT", "GATHER"}, t = "CHAOS" /\ f >= 0 => nxt = "READ"
  PROVE  StateShape(Fresh_chan(t, cur, nxt, f))
  BY DEF StateShape, Fresh_chan

\* One channel changes.
LEMMA StateOfOne ==
  ASSUME IInv, StateInv, NEW i \in Chan, NEW r, StateShape(r), ch' = [ch EXCEPT ![i] = r]
  PROVE  StateInv'
<1>1. \A k \in Chan : ch'[k] = IF k = i THEN r ELSE ch[k]
  BY DEF IInv, TableInv
<1> QED BY <1>1 DEF StateInv

LEMMA StateSame == ASSUME StateInv, UNCHANGED ch PROVE StateInv'
  BY DEF StateInv

LEMMA CloseState == ASSUME IInv, StateInv, NEW i \in Chan, close_chan(i) PROVE StateInv'
<1> DEFINE r == Fresh_chan(ch[i].type, "CLOSE", "ALLOCED", -1)
<1>1. ch[i].type \in Type
  BY ChannelsTyped DEF ChanRecord
<1>2. StateShape(r)
  BY <1>1, FreshState DEF State
<1>3. ch' = [ch EXCEPT ![i] = r]
  BY DEF close_chan
<1> HIDE DEF r
<1> QED BY <1>2, <1>3, StateOfOne

\* A client that has something to do next is open.
LEMMA BusyClientIsOpen ==
  ASSUME IInv, StateInv, NEW i \in Chan, ch[i].type = "CLIENT",
         ch[i].nxt \in {"READ", "GATHER", "WRITE", "CLOSE"}
  PROVE  i \in open_clients
<1>1. ch[i].cur \in State
  BY ChannelsTyped DEF ChanRecord
<1> QED BY <1>1 DEF StateInv, StateShape, open_clients, Made, State

LEMMA ClientState ==
  ASSUME IInv, StateInv, NEW i \in Chan, ClientOp(i)
  PROVE  StateInv'
<1>1. ch[i] \in ChanRecord /\ StateShape(ch[i]) /\ ChannelShape(ch[i])
  BY ChannelsTyped DEF StateInv
<1>2. CASE close_client(i)
  BY <1>2, CloseState DEF close_client
<1>3. CASE UNCHANGED ch
  BY <1>3, StateSame
<1>4. CASE ch[i].nxt = "GATHER" /\ ch' = [ch EXCEPT ![i] = has_gathered(i, drain_octets(wanted(i)))]
  <2> DEFINE r == has_gathered(i, drain_octets(wanted(i)))
  <2>1. r.cur \in {"GATHER", "WRITE"} /\ r.nxt = r.cur /\ r.type = "CLIENT"
    BY <1>1, <1>4 DEF has_gathered, gather_state, ChanRecord, ChannelShape
  <2>2. StateShape(r)
    BY <2>1 DEF StateShape
  <2> HIDE DEF r
  <2> QED BY <1>4, <2>2, StateOfOne DEF r
<1>5. ASSUME NEW n, ch' = [ch EXCEPT ![i] = has_asked(i, n)], ch[i].type = "CLIENT"
      PROVE  StateInv'
  <2> DEFINE r == has_asked(i, n)
  <2>1. r.cur = "GATHER" /\ r.nxt = r.cur /\ r.type = "CLIENT"
    BY <1>1, <1>5 DEF has_asked, ChanRecord
  <2>2. StateShape(r)
    BY <2>1 DEF StateShape
  <2> HIDE DEF r
  <2> QED BY <1>5, <2>2, StateOfOne DEF r
<1>6. ASSUME NEW k, ch' = [ch EXCEPT ![i] = has_sent_digits(i, k)], ch[i].type = "CLIENT"
      PROVE  StateInv'
  <2> DEFINE r == has_sent_digits(i, k)
  <2>1. r.cur = "READ" /\ r.type = "CLIENT"
    BY <1>1, <1>6 DEF has_sent_digits, ChanRecord
  <2>2. StateShape(r)
    BY <2>1 DEF StateShape
  <2> HIDE DEF r
  <2> QED BY <1>6, <2>2, StateOfOne DEF r
<1>7. ASSUME NEW k, ch' = [ch EXCEPT ![i] = has_been_sent(i, k)], ch[i].nxt = "WRITE"
      PROVE  StateInv'
  <2> DEFINE r == has_been_sent(i, k)
  <2>1. r.cur = ch[i].cur /\ r.type = "CLIENT" /\ r.nxt \in {"CLOSE", "WRITE"} /\ ch[i].type = "CLIENT"
    BY <1>1, <1>7 DEF has_been_sent, ChanRecord, ChannelShape
  <2>2. StateShape(r)
    <3> HIDE DEF r
    <3> QED BY <1>1, <1>7, <2>1 DEF StateShape
  <2> HIDE DEF r
  <2> QED BY <1>7, <2>2, StateOfOne DEF r
<1>8. CASE gather_client(i)
  BY <1>2, <1>3, <1>4, <1>8 DEF gather_client, tableVars
<1>9. CASE read_client(i)
  BY <1>2, <1>5, <1>6, <1>9 DEF read_client, Dispatch
<1>10. CASE write_client(i)
  BY <1>2, <1>7, <1>10 DEF write_client
<1> QED BY <1>2, <1>8, <1>9, <1>10 DEF ClientOp, PreCloseClient, ExceptClient

LEMMA ListenerState ==
  ASSUME IInv, StateInv, NEW i \in Chan, ListenerOp(i)
  PROVE  StateInv'
<1>1. ch[i] \in ChanRecord /\ StateShape(ch[i])
  BY ChannelsTyped DEF StateInv
<1>2. CASE close_chan(i)
  BY <1>2, CloseState
<1>3. CASE UNCHANGED ch
  BY <1>3, StateSame
<1>4. ASSUME NEW j \in Chan, NEW f \in Fd, NEW lost \in BOOLEAN, ch[i].type = "LISTENER", j # i,
             ch' = [ch EXCEPT ![j] = mk_open_client(f),
                              ![i].cur = IF lost THEN @ ELSE "ACCEPT"]
      PROVE  StateInv'
  <2> DEFINE r == mk_open_client(f)
             l == [ch[i] EXCEPT !.cur = IF lost THEN @ ELSE "ACCEPT"]
  <2>1. r.type = "CLIENT" /\ r.cur = "OPEN"
    BY DEF mk_open_client, Fresh_chan
  <2>2. StateShape(r)
    BY <2>1 DEF StateShape
  <2>3. l.type = "LISTENER" /\ l.cur \in {ch[i].cur, "ACCEPT"} /\ l.nxt = ch[i].nxt
    BY <1>1, <1>4 DEF ChanRecord
  <2>4. StateShape(l)
    BY <1>1, <1>4, <2>3 DEF StateShape
  <2>5. \A k \in Chan : ch'[k] = IF k = i THEN l ELSE IF k = j THEN r ELSE ch[k]
    <3>1. ch' = [ch EXCEPT ![j] = r, ![i] = l]
      BY <1>4
    <3> HIDE DEF r, l
    <3> QED BY <1>4, <3>1 DEF IInv, TableInv
  <2> HIDE DEF r, l
  <2> QED BY <2>2, <2>4, <2>5 DEF StateInv
<1>5. CASE accept_listener(i)
  <2>1. ch[i].type = "LISTENER" /\ ch[i].fd >= 0
    BY <1>5 DEF accept_listener, Dispatch
  <2>2. \A j \in SlotFor("CLIENT") : j \in Chan /\ j # i
    BY <2>1, SlotIsClosed DEF IInv, Type
  <2> QED BY <1>3, <1>4, <1>5, <2>1, <2>2 DEF accept_listener, tableVars, LowestFree
<1> QED BY <1>2, <1>5 DEF ListenerOp, ExceptListener

LEMMA ChaosState ==
  ASSUME IInv, StateInv, NEW i \in Chan, ChaosOp(i)
  PROVE  StateInv'
<1>1. ch[i] \in ChanRecord /\ StateShape(ch[i])
  BY ChannelsTyped DEF StateInv
<1>2. CASE close_chan(i)
  BY <1>2, CloseState
<1>3. CASE UNCHANGED ch
  BY <1>3, StateSame
<1>4. CASE ChaosRead(i) /\ ch[i].type = "CHAOS"
  <2> DEFINE r == [ch[i] EXCEPT !.cur = "READ", !.nxt = "READ"]
  <2>1. r.type = "CHAOS" /\ r.cur = "READ" /\ r.nxt = "READ"
    BY <1>1, <1>4 DEF ChanRecord
  <2>2. StateShape(r)
    BY <2>1 DEF StateShape
  <2>3. ch' = [ch EXCEPT ![i] = r]
    BY <1>4 DEF ChaosRead
  <2> HIDE DEF r
  <2> QED BY <2>2, <2>3, StateOfOne
<1>5. CASE read_chaos(i)
  BY <1>2, <1>4, <1>5 DEF read_chaos, Dispatch, read_driver, read_process, ChaosLost, close_chaos
<1> QED BY <1>2, <1>3, <1>5 DEF ChaosOp, PreChaos, ExceptChaos, close_chaos, tableVars

\* mk_open_chaos() or mk_open_listener().
LEMMA OpenState ==
  ASSUME IInv, StateInv, NEW t \in {"CHAOS", "LISTENER"}, NEW nxt \in {"READ", "ACCEPT"},
         NEW after, OpenChan(t, nxt, after), t = "CHAOS" => nxt = "READ"
  PROVE  StateInv'
<1>1. \A i \in SlotFor(t) : i \in Chan
  BY SlotIsClosed DEF IInv, Type
<1>2. ASSUME NEW i \in Chan, NEW f \in Fd, ch' = [ch EXCEPT ![i] = Fresh_chan(t, "OPEN", nxt, f)]
      PROVE  StateInv'
  <2> DEFINE r == Fresh_chan(t, "OPEN", nxt, f)
  <2>1. StateShape(r)
    BY FreshState DEF Type, State
  <2> HIDE DEF r
  <2> QED BY <1>2, <2>1, StateOfOne DEF r
<1>3. ASSUME NEW i \in Chan, ch' = [ch EXCEPT ![i] = Fresh_chan(t, "ALLOCED", "OPEN", -1)]
      PROVE  StateInv'
  <2> DEFINE r == Fresh_chan(t, "ALLOCED", "OPEN", -1)
  <2>1. StateShape(r)
    BY FreshState DEF Type, State
  <2> HIDE DEF r
  <2> QED BY <1>3, <2>1, StateOfOne DEF r
<1> QED BY <1>1, <1>2, <1>3 DEF OpenChan, LowestFree

LEMMA StateNext == IInv /\ StateInv /\ [Next]_vars => StateInv'
<1> SUFFICES ASSUME IInv, StateInv, [Next]_vars PROVE StateInv'
  OBVIOUS
<1>1. CASE mk_open_chaos
  BY <1>1, OpenState DEF mk_open_chaos
<1>2. CASE mk_open_listener
  BY <1>2, OpenState DEF mk_open_listener
<1>3. CASE StartCycle \/ ReaderTakesFrame \/ UNCHANGED vars
  BY <1>3, StateSame DEF StartCycle, ReaderTakesFrame, vars, tableVars
<1>4. CASE Select
  <2>1. PICK late : ch' = [i \in Chan |-> IF i \in late THEN [ch[i] EXCEPT !.timeout = "due"]
                                          ELSE ch[i]]
    BY <1>4 DEF Select
  <2> SUFFICES ASSUME NEW i \in Chan PROVE StateShape(ch'[i])
    BY DEF StateInv
  <2>2. ch[i] \in ChanRecord /\ StateShape(ch[i])
    BY ChannelsTyped DEF StateInv
  <2>3. /\ ch'[i].cur = ch[i].cur /\ ch'[i].nxt = ch[i].nxt
        /\ ch'[i].type = ch[i].type /\ ch'[i].fd = ch[i].fd
    BY <2>1, <2>2 DEF ChanRecord
  <2> QED BY <2>2, <2>3 DEF StateShape
<1>5. CASE Shutdown
  <2> SUFFICES ASSUME NEW i \in Chan PROVE StateShape(ch'[i])
    BY DEF StateInv
  <2>1. ch[i].type \in Type /\ StateShape(ch[i])
    BY ChannelsTyped DEF StateInv, ChanRecord
  <2>2. StateShape(Fresh_chan(ch[i].type, "CLOSE", "ALLOCED", -1))
    BY <2>1, FreshState DEF State
  <2>3. ch'[i] = IF ch[i].type = "NONE" THEN ch[i]
                 ELSE Fresh_chan(ch[i].type, "CLOSE", "ALLOCED", -1)
    BY <1>5 DEF Shutdown
  <2> QED BY <2>1, <2>2, <2>3
<1>6. ASSUME NEW i \in Chan, ClientOp(i) \/ ListenerOp(i) \/ ChaosOp(i) PROVE StateInv'
  BY <1>6, ClientState, ListenerState, ChaosState
<1> QED BY <1>1, <1>2, <1>3, <1>4, <1>5, <1>6 DEF Next, DaemonStep, Exited

LEMMA StateInit == Init => StateInv
  BY DEF Init, EmptyTable, Fresh_chan, StateInv, StateShape

LEMMA StateInvariance == Spec => []StateInv
  BY StateInit, StateNext, Invariance, PTL DEF Spec

-----------------------------------------------------------------------------
(* The limit on clients.                                                   *)

\* What is left to be dispatched when the descriptor of channel i has had its
\* turn was there before, and is for other channels.
LEMMA LeftToDispatch ==
  ASSUME IInv, NEW i \in Chan, NEW t, NEW c, Dispatch(i, t, c),
         \A f \in Fd : f # ch[i].fd /\ chanindx[f] >= 0 => chanindx'[f] = chanindx[f]
  PROVE  \A q \in ready' : /\ q \in ready /\ q[1] # ch[i].fd
                           /\ chanindx[q[1]] \in Chan /\ chanindx'[q[1]] = chanindx[q[1]]
<1>1. PICK p \in ready : p[1] = ch[i].fd /\ ready' = ready \ {p}
  BY DEF Dispatch
<1> SUFFICES ASSUME NEW q \in ready'
             PROVE  /\ q \in ready /\ q[1] # ch[i].fd
                    /\ chanindx[q[1]] \in Chan /\ chanindx'[q[1]] = chanindx[q[1]]
  OBVIOUS
<1>2. q \in ready /\ q[1] \in Fd /\ q[1] # ch[i].fd
  BY <1>1 DEF IInv, LoopInv
<1>3. chanindx[q[1]] \in Chan
  BY <1>2 DEF IInv, LoopInv, DispatchIsCurrent
<1>4. chanindx[q[1]] >= 0
  BY <1>3, ChanNat
<1> QED BY <1>2, <1>3, <1>4

\* An operation on channel i, unless it is accept_listener(), leaves every
\* channel its type, and the others as they are.
LEMMA OneChannel ==
  ASSUME IInv, NEW i \in Chan, ClientOp(i) \/ ExceptListener(i) \/ ChaosOp(i)
  PROVE  /\ ch'[i].type = ch[i].type
         /\ \A k \in Chan \ {i} : ch'[k] = ch[k]
         /\ \A f \in Fd : f # ch[i].fd => chanindx'[f] = chanindx[f]
<1> DEFINE G == /\ ch'[i].type = ch[i].type
                /\ \A k \in Chan \ {i} : ch'[k] = ch[k]
                /\ \A f \in Fd : f # ch[i].fd => chanindx'[f] = chanindx[f]
<1> SUFFICES G
  OBVIOUS
<1>1. ch[i] \in ChanRecord /\ ch \in [Chan -> ChanRecord]
  BY DEF IInv, TableInv
<1>2. CASE close_chan(i)
  <2>1. ch'[i].type = ch[i].type
    BY <1>1, <1>2 DEF close_chan, Fresh_chan
  <2> QED BY <1>2, <2>1, TableCloses DEF IInv
<1>3. CASE UNCHANGED tableVars
  BY <1>3 DEF tableVars
<1>4. ASSUME NEW r, ch' = [ch EXCEPT ![i] = r], r.type = ch[i].type, UNCHANGED chanindx
      PROVE  G
  BY <1>1, <1>4
<1>5. \A octets : has_gathered(i, octets).type = ch[i].type
  BY <1>1 DEF has_gathered, ChanRecord
<1>6. \A n : /\ has_asked(i, n).type = ch[i].type
             /\ has_sent_digits(i, n).type = ch[i].type
             /\ has_been_sent(i, n).type = ch[i].type
  BY <1>1 DEF has_asked, has_sent_digits, has_been_sent, ChanRecord
<1>7. CASE gather_client(i)
  BY <1>2, <1>3, <1>4, <1>5, <1>7 DEF gather_client, close_client
<1>8. CASE read_client(i)
  BY <1>2, <1>4, <1>6, <1>8 DEF read_client, close_client
<1>9. CASE write_client(i)
  BY <1>2, <1>4, <1>6, <1>9 DEF write_client, close_client
<1>10. CASE ChaosRead(i)
  <2> DEFINE r == [ch[i] EXCEPT !.cur = "READ", !.nxt = "READ"]
  <2>1. r.type = ch[i].type /\ ch' = [ch EXCEPT ![i] = r] /\ UNCHANGED chanindx
    BY <1>1, <1>10 DEF ChaosRead, ChanRecord
  <2> HIDE DEF r
  <2> QED BY <1>4, <2>1
<1>11. CASE read_chaos(i)
  BY <1>2, <1>10, <1>11 DEF read_chaos, read_driver, read_process, ChaosLost, close_chaos
<1>12. CASE PreCloseClient(i) \/ ExceptClient(i) \/ ExceptListener(i) \/ ExceptChaos(i)
  BY <1>2, <1>12 DEF PreCloseClient, ExceptClient, ExceptListener, ExceptChaos, close_client,
                     close_chaos
<1>13. CASE PreChaos(i)
  BY <1>3, <1>13 DEF PreChaos
<1> HIDE DEF G
<1> QED BY <1>7, <1>8, <1>9, <1>11, <1>12, <1>13 DEF ClientOp, ChaosOp

\* The same operations open no client, and leave nothing more to be dispatched.
LEMMA OneChannelLoop ==
  ASSUME IInv, StateInv, NEW i \in Chan, ClientOp(i) \/ ExceptListener(i) \/ ChaosOp(i)
  PROVE  /\ open_clients' \subseteq open_clients
         /\ phase' \notin {"boot", "listen"}
         /\ \A q \in ready' : q \in ready /\ chanindx'[q[1]] = chanindx[q[1]]
<1>1. /\ ch'[i].type = ch[i].type
      /\ \A k \in Chan \ {i} : ch'[k] = ch[k]
      /\ \A f \in Fd : f # ch[i].fd => chanindx'[f] = chanindx[f]
  BY OneChannel
<1>2. open_clients' \subseteq open_clients
  <2>1. ch[i].type = "CLIENT" => i \in open_clients
    <3> SUFFICES ASSUME ch[i].type = "CLIENT" PROVE i \in open_clients
      OBVIOUS
    <3>1. ClientOp(i)
      BY DEF ExceptListener, ChaosOp, PreChaos, ExceptChaos, read_chaos, Dispatch
    <3>2. ch[i].nxt \in {"READ", "GATHER", "WRITE", "CLOSE"}
      BY <3>1 DEF ClientOp, gather_client, PreCloseClient, ExceptClient, read_client,
                  write_client, client_exception_mask
    <3> QED BY <3>2, BusyClientIsOpen
  <2> QED BY <1>1, <2>1 DEF open_clients, Made
<1>3. CASE PreSelect(i)
  <2>1. ready' = {} /\ phase' \in {"preselect", "select"}
    BY <1>3 DEF PreSelect, IInv, LoopInv
  <2> QED BY <1>2, <2>1
<1>4. ASSUME NEW t, NEW c, Dispatch(i, t, c)
      PROVE  /\ phase' \notin {"boot", "listen"}
             /\ \A q \in ready' : q \in ready /\ chanindx'[q[1]] = chanindx[q[1]]
  <2>1. phase' \notin {"boot", "listen"}
    BY <1>4 DEF Dispatch
  <2> QED BY <1>1, <1>4, <2>1, LeftToDispatch
<1> QED BY <1>2, <1>3, <1>4 DEF ClientOp, gather_client, PreCloseClient, ExceptClient, read_client,
              write_client, ExceptListener, ChaosOp, PreChaos, ExceptChaos, read_chaos

LEMMA ClientsFinite ==
  ASSUME NEW S, S \subseteq Chan PROVE IsFiniteSet(S) /\ Cardinality(S) \in Nat
<1>1. IsFiniteSet(S)
  BY ChannelAssumption, FS_Subset
<1> QED BY <1>1, FS_CardinalityType

\* A step that opens no client and makes no channel.
LEMMA LimitKept ==
  ASSUME IInv, LimitInv, \A k \in Chan : ch'[k].type = ch[k].type,
         open_clients' \subseteq open_clients,
         phase' \in {"boot", "listen"} => phase' = phase,
         \A q \in ready' : q \in ready /\ chanindx'[q[1]] = chanindx[q[1]]
  PROVE  LimitInv'
<1>1. \A t : Made(t)' = Made(t)
  BY DEF Made
<1>2. too_many' => too_many
  <2>1. open_clients \subseteq Chan
    BY DEF open_clients, Made
  <2>2. /\ Cardinality(open_clients') <= Cardinality(open_clients)
        /\ Cardinality(open_clients) \in Nat /\ Cardinality(open_clients') \in Nat
    BY <2>1, ClientsFinite, FS_Subset
  <2> QED BY <2>2, LavapoolAssumption DEF too_many
<1>3. ASSUME NEW q \in ready', q[2] = "read", ch'[chanindx'[q[1]]].type = "LISTENER" PROVE ~too_many'
  <2>1. q \in ready /\ chanindx'[q[1]] = chanindx[q[1]] /\ chanindx[q[1]] \in Chan
    BY <1>3 DEF IInv, LoopInv, DispatchIsCurrent
  <2> QED BY <1>2, <1>3, <2>1 DEF LimitInv
<1> QED BY <1>1, <1>3 DEF LimitInv

\* A slot is taken from the channels of its type that are not open, or, when
\* there is none of these, from those never made.
LEMMA SlotTaken ==
  ASSUME NEW t, NEW j \in SlotFor(t)
  PROVE  /\ j \in Chan
         /\ \/ ch[j].type = t /\ ch[j].cur \in {"ALLOCED", "CLOSE"}
            \/ /\ ch[j].type = "NONE"
               /\ \A k \in Made(t) : ch[k].cur \notin {"ALLOCED", "CLOSE"}
  BY DEF SlotFor, find_chan, mk_chan, Made

\* accept_listener() takes a new slot only when every client made is open, and
\* then there were fewer than maxclients of them.
LEMMA AcceptLimit ==
  ASSUME IInv, IInv', StateInv, LimitInv, NEW i \in Chan, accept_listener(i)
  PROVE  LimitInv'
<1>1. PICK p \in ready : /\ p[1] = ch[i].fd /\ chanindx[p[1]] = i /\ p[2] = "read"
                        /\ ready' = ready \ {p}
  BY DEF accept_listener, Dispatch
<1>2. /\ phase = "dispatch" /\ phase' \notin {"boot", "listen"}
      /\ ch[i].type = "LISTENER" /\ ch[i].fd >= 0
  BY DEF accept_listener, Dispatch
<1>3. ~too_many
  BY <1>1, <1>2 DEF LimitInv
<1>4. CASE UNCHANGED tableVars
  <2>1. \A q \in ready' : q \in ready /\ chanindx'[q[1]] = chanindx[q[1]]
    BY <1>1, <1>4 DEF tableVars
  <2>2. open_clients' \subseteq open_clients /\ \A k \in Chan : ch'[k].type = ch[k].type
    BY <1>4 DEF tableVars, open_clients, Made
  <2> QED BY <1>2, <2>1, <2>2, LimitKept
<1>5. ASSUME NEW f \in LowestFree, NEW j \in SlotFor("CLIENT"), NEW lost \in BOOLEAN,
             chanindx' = set_chanindx(j, f),
             ch' = [ch EXCEPT ![j] = mk_open_client(f),
                              ![i].cur = IF lost THEN @ ELSE "ACCEPT"]
      PROVE  LimitInv'
  <2>1. j \in Chan /\ j # i /\ ch \in [Chan -> ChanRecord]
    BY <1>2, SlotIsClosed DEF IInv, TableInv, Type
  <2>2. /\ ch'[j].type = "CLIENT" /\ ch'[i].type = "LISTENER"
        /\ \A k \in Chan \ {i, j} : ch'[k] = ch[k]
    <3> DEFINE r == mk_open_client(f)
               l == [ch[i] EXCEPT !.cur = IF lost THEN @ ELSE "ACCEPT"]
    <3>1. r.type = "CLIENT"
      BY DEF mk_open_client, Fresh_chan
    <3>2. l.type = "LISTENER"
      BY <1>2, <2>1 DEF ChanRecord
    <3>3. ch' = [ch EXCEPT ![j] = r, ![i] = l]
      BY <1>5, <2>1
    <3> HIDE DEF r, l
    <3> QED BY <2>1, <3>1, <3>2, <3>3
  <2>3. Made("LISTENER")' = Made("LISTENER")
    <3>1. ch[j].type # "LISTENER"
      BY SlotTaken
    <3> QED BY <1>2, <2>1, <2>2, <3>1 DEF Made
  <2>4. Made("CLIENT")' = Made("CLIENT") \cup {j}
    BY <1>2, <2>1, <2>2 DEF Made
  <2>5. ASSUME MaxClients > 0 PROVE Cardinality(Made("CLIENT")') <= MaxClients
    <3>1. CASE j \in Made("CLIENT")
      <4>1. Made("CLIENT")' = Made("CLIENT")
        BY <2>4, <3>1
      <4> QED BY <4>1, <2>5 DEF LimitInv
    <3>2. CASE j \notin Made("CLIENT")
      <4>1. \A k \in Made("CLIENT") : ch[k].cur \notin {"ALLOCED", "CLOSE", "ACCEPT"}
        BY <2>1, <3>2, SlotTaken DEF Made, StateInv, StateShape
      <4>2. Made("CLIENT") = open_clients
        BY <4>1, ChannelsTyped DEF open_clients, Made, ChanRecord, State
      <4>3. IsFiniteSet(Made("CLIENT")) /\ Cardinality(Made("CLIENT")) \in Nat
        BY ClientsFinite DEF Made
      <4>4. Cardinality(Made("CLIENT")) < MaxClients
        BY <1>3, <2>5, <4>2, <4>3, LavapoolAssumption DEF too_many
      <4>5. Cardinality(Made("CLIENT")') = Cardinality(Made("CLIENT")) + 1
        BY <2>4, <3>2, <4>3, FS_AddElement
      <4> QED BY <4>3, <4>4, <4>5, LavapoolAssumption
    <3> QED BY <3>1, <3>2
  <2>6. ASSUME NEW q \in ready', q[2] = "read", ch'[chanindx'[q[1]]].type = "LISTENER" PROVE FALSE
    <3>1. \A g \in Fd : g # ch[i].fd /\ chanindx[g] >= 0 => chanindx'[g] = chanindx[g]
      BY <1>5 DEF IInv, TableInv, set_chanindx, LowestFree, UNUSED
    <3>2. /\ q \in ready /\ q[1] # ch[i].fd /\ q[1] \in Fd /\ chanindx[q[1]] \in Chan
          /\ chanindx'[q[1]] = chanindx[q[1]]
      BY <3>1, LeftToDispatch DEF accept_listener, IInv, LoopInv
    <3>3. chanindx[q[1]] \in Made("LISTENER")' /\ i \in Made("LISTENER")
      BY <1>2, <2>6, <3>2 DEF Made
    <3>4. chanindx[q[1]] = i
      BY <2>3, <3>3 DEF LimitInv
    <3>5. ch[chanindx[q[1]]].fd = q[1]
      BY <3>2, ChanNat DEF IInv, TableInv, DescriptorMap
    <3> QED BY <3>2, <3>4, <3>5
  <2>7. \A a, b \in Made("LISTENER")' : a = b
    BY <2>3 DEF LimitInv
  <2> QED BY <1>2, <2>5, <2>6, <2>7 DEF LimitInv
<1> QED BY <1>4, <1>5 DEF accept_listener

\* The listener is made once, before the loop runs.
LEMMA OpenLimit ==
  ASSUME IInv, LimitInv, mk_open_chaos \/ mk_open_listener
  PROVE  LimitInv'
<1>1. PICK t, nxt, after :
        /\ t \in {"CHAOS", "LISTENER"}
        /\ OpenChan(t, nxt, after)
        /\ \/ t = "CHAOS" /\ after = "listen" /\ phase = "boot"
           \/ t = "LISTENER" /\ after = "first" /\ phase = "listen"
  BY DEF mk_open_chaos, mk_open_listener
<1>2. PICK i \in SlotFor(t) :
        \/ \E f \in LowestFree :
             ch' = [ch EXCEPT ![i] = Fresh_chan(t, "OPEN", nxt, f)] /\ phase' = after
        \/ ch' = [ch EXCEPT ![i] = Fresh_chan(t, "ALLOCED", "OPEN", -1)] /\ phase' = "exit"
  BY <1>1 DEF OpenChan
<1>3. i \in Chan /\ ch[i].type \in {t, "NONE"}
  BY SlotTaken
<1>4. ch'[i].type = t /\ \A k \in Chan \ {i} : ch'[k] = ch[k]
  <2>1. ch \in [Chan -> ChanRecord]
    BY DEF IInv, TableInv
  <2>2. ASSUME NEW r, ch' = [ch EXCEPT ![i] = r], r.type = t
        PROVE  ch'[i].type = t /\ \A k \in Chan \ {i} : ch'[k] = ch[k]
    BY <1>3, <2>1, <2>2
  <2>3. \A cur, nx, f : Fresh_chan(t, cur, nx, f).type = t
    BY DEF Fresh_chan
  <2> QED BY <1>2, <2>2, <2>3
<1>5. Made("CLIENT")' = Made("CLIENT")
  BY <1>1, <1>3, <1>4 DEF Made
<1>6. ready' = {}
  BY <1>1 DEF OpenChan, IInv, LoopInv
<1>7. CASE t = "CHAOS"
  <2>1. Made("LISTENER")' = {} /\ Made("LISTENER") = {}
    BY <1>1, <1>3, <1>4, <1>7 DEF Made, LimitInv
  <2> QED BY <1>5, <1>6, <2>1 DEF LimitInv
<1>8. CASE t = "LISTENER"
  <2>1. Made("LISTENER")' = {i} /\ phase' \notin {"boot", "listen"}
    BY <1>1, <1>2, <1>3, <1>4, <1>8 DEF Made, LimitInv
  <2> QED BY <1>5, <1>6, <2>1 DEF LimitInv
<1> QED BY <1>1, <1>7, <1>8

\* select() is asked for connections only when there is room for a client.
LEMMA SelectLimit == ASSUME IInv, LimitInv, Select PROVE LimitInv'
<1>1. PICK late \in SUBSET {i \in open_clients : ch[i].timeout = "later"}, odds \in BOOLEAN :
        /\ ready' \in Reports(Asked(next_file', toggle', odds))
        /\ phase' = IF ready' = {} THEN "top" ELSE "dispatch"
        /\ ch' = [i \in Chan |-> IF i \in late THEN [ch[i] EXCEPT !.timeout = "due"]
                                 ELSE ch[i]]
  BY DEF Select
<1>2. \A k \in Chan : ch'[k].type = ch[k].type /\ ch'[k].cur = ch[k].cur
  <2> SUFFICES ASSUME NEW k \in Chan PROVE ch'[k].type = ch[k].type /\ ch'[k].cur = ch[k].cur
    OBVIOUS
  <2>1. ch[k] \in ChanRecord
    BY ChannelsTyped
  <2> QED BY <1>1, <2>1 DEF ChanRecord
<1>3. /\ \A t : Made(t)' = Made(t)
      /\ open_clients' = open_clients /\ (too_many' <=> too_many)
  BY <1>2 DEF Made, open_clients, too_many
<1>4. ASSUME NEW p \in ready', p[2] = "read", ch'[chanindx'[p[1]]].type = "LISTENER" PROVE ~too_many
  <2>1. PICK i \in Chan : p \in {ch[i].fd} \X select_mask(i, next_file', toggle', odds)
    BY <1>1 DEF Reports, Asked
  <2>2. p[1] = ch[i].fd /\ p[2] \in select_mask(i, next_file', toggle', odds)
    BY <2>1
  <2>3. ch[i].fd \in Fd \cup {-1} /\ ~(ch[i].fd < 0)
    BY <2>2, ChannelsTyped DEF select_mask, ChanRecord
  <2>4. chanindx[p[1]] = i
    BY <2>2, <2>3, FdNat DEF IInv, TableInv, DescriptorMap
  <2>5. ch[i].type = "LISTENER"
    BY <1>2, <1>4, <2>4 DEF Select
  <2> QED BY <1>4, <2>2, <2>3, <2>5 DEF select_mask, listener_select_mask
<1>5. phase' \notin {"boot", "listen"}
  BY <1>1
<1> QED BY <1>3, <1>4, <1>5 DEF LimitInv

LEMMA LimitNext == IInv /\ StateInv /\ LimitInv /\ [Next]_vars => LimitInv'
<1> SUFFICES ASSUME IInv, StateInv, LimitInv, [Next]_vars PROVE LimitInv'
  OBVIOUS
<1>1. IInv'
  BY NextInv
<1>2. CASE mk_open_chaos \/ mk_open_listener
  BY <1>2, OpenLimit
<1>3. CASE StartCycle \/ ReaderTakesFrame \/ UNCHANGED vars
  <2>1. UNCHANGED tableVars /\ ready' = ready /\ (phase' \in {"boot", "listen"} => phase' = phase)
    BY <1>3 DEF StartCycle, ReaderTakesFrame, vars, loopVars
  <2> QED BY <2>1, LimitKept DEF tableVars, open_clients, Made
<1>4. CASE Select
  BY <1>4, SelectLimit
<1>5. CASE Shutdown
  <2>1. \A k \in Chan : /\ ch'[k].type = ch[k].type
                        /\ ch'[k].cur \in {ch[k].cur, "CLOSE"}
    BY <1>5 DEF Shutdown, Fresh_chan
  <2>2. open_clients' \subseteq open_clients
    BY <2>1 DEF open_clients, Made
  <2>3. ready' = {} /\ phase' = "exit"
    BY <1>5 DEF Shutdown, IInv, LoopInv
  <2> QED BY <2>1, <2>2, <2>3, LimitKept
<1>6. ASSUME NEW i \in Chan, ClientOp(i) \/ ExceptListener(i) \/ ChaosOp(i) PROVE LimitInv'
  <2>1. \A k \in Chan : ch'[k].type = ch[k].type
    BY <1>6, OneChannel
  <2> QED BY <1>6, <2>1, OneChannelLoop, LimitKept
<1>7. ASSUME NEW i \in Chan, accept_listener(i) PROVE LimitInv'
  BY <1>1, <1>7, AcceptLimit
<1> QED BY <1>2, <1>3, <1>4, <1>5, <1>6, <1>7 DEF Next, DaemonStep, Exited, ListenerOp

LEMMA LimitInit == Init => LimitInv
<1> SUFFICES ASSUME Init PROVE LimitInv
  OBVIOUS
<1>1. \A t \in {"CLIENT", "LISTENER"} : Made(t) = {}
  BY DEF Init, EmptyTable, Fresh_chan, Made
<1>2. Cardinality(Made("CLIENT")) = 0
  BY <1>1, FS_EmptySet
<1> QED BY <1>1, <1>2, LavapoolAssumption DEF Init, LimitInv

\* However connections and closes interleave, no more than maxclients clients
\* are open, and no more slots are taken for them (chan_select's too_many,
\* mk_open_client): for every limit and every size of the table.
THEOREM ClientsAreLimited == Spec => []ClientLimit
<1>1. LimitInv => ClientLimit
  <2> SUFFICES ASSUME LimitInv PROVE ClientLimit
    OBVIOUS
  <2>1. open_clients \subseteq Made("CLIENT") /\ Made("CLIENT") \subseteq Chan
    BY DEF open_clients, Made
  <2>2. /\ Cardinality(open_clients) <= Cardinality(Made("CLIENT"))
        /\ Cardinality(open_clients) \in Nat /\ Cardinality(Made("CLIENT")) \in Nat
    BY <2>1, ClientsFinite, FS_Subset
  <2> QED BY <2>2, LavapoolAssumption DEF LimitInv, ClientLimit
<1> QED BY <1>1, LimitInit, LimitNext, Invariance, StateInvariance, PTL DEF Spec

-----------------------------------------------------------------------------
(* Clients that wait.                                                      *)

\* A client that waits has its pre-select operation in every pass.
LEMMA WaitingIsPreselect ==
  ASSUME IInv, StateInv, NEW i \in Chan, ClientWaits(i) PROVE preselect_ready(i)
  BY DEF StateInv, StateShape, ClientWaits, preselect_ready, client_preselect_ready

\* gather_client() leaves a client waiting only when it has emptied the pool.
LEMMA GatherFeeds ==
  ASSUME IInv, NEW i \in Chan, gather_client(i), ClientWaits(i)'
  PROVE  pool' = <<>>
<1> DEFINE octets == drain_octets(wanted(i))
           got    == ch[i].random \o octets
           r      == has_gathered(i, octets)
<1>1. ch[i] \in ChanRecord /\ ChannelShape(ch[i]) /\ ch \in [Chan -> ChanRecord]
  BY DEF IInv, TableInv
<1>2. CASE pool = <<>> /\ UNCHANGED pool
  BY <1>2
<1>3. CASE close_client(i)
  BY <1>1, <1>3 DEF close_client, close_chan, Fresh_chan, ClientWaits
<1>4. CASE ch' = [ch EXCEPT ![i] = r] /\ pool' = drain_rest(wanted(i))
  <2>1. /\ ch[i].nxt = "GATHER" /\ Len(ch[i].random) < ch[i].request
        /\ ch[i].random \in Seq(Octet) /\ ch[i].request \in Nat
    BY <1>1, AssumptionsHold DEF gather_client, ChannelShape, ChanRecord, Assumptions
  <2>2. Len(ch[i].random) \in Nat /\ wanted(i) \in Nat
        /\ Len(ch[i].random) + wanted(i) = ch[i].request
    BY <2>1 DEF wanted
  <2>3. pool \in Seq(Octet)
    BY DEF IInv, DataInv, PoolTypeOK
  <2>4. /\ octets \in Seq(Octet) /\ Len(octets) = drain_count(wanted(i))
        /\ drain_rest(wanted(i)) \in Seq(Octet)
        /\ Len(drain_rest(wanted(i))) = Len(pool) - drain_count(wanted(i))
    BY <2>2, <2>3, DrainProperties
  <2> HIDE DEF octets
  <2>5. got \in Seq(Octet) /\ Len(got) = Len(ch[i].random) + Len(octets)
    BY <2>1, <2>4, ConcatProperties
  <2>6. r.cur = gather_state(Len(got), ch[i].request)
    BY <1>1 DEF has_gathered, ChanRecord
  <2>7. r.cur = "GATHER"
    <3> HIDE DEF r, got
    <3> QED BY <1>1, <1>4 DEF ClientWaits
  <2> HIDE DEF r, got
  <2>8. Len(got) # ch[i].request
    BY <2>6, <2>7 DEF gather_state
  <2>9. drain_count(wanted(i)) = Len(pool)
    BY <2>2, <2>3, <2>4, <2>5, <2>8 DEF drain_count
  <2>10. Len(drain_rest(wanted(i))) = 0
    BY <2>3, <2>4, <2>9
  <2> QED BY <1>4, <2>4, <2>10, EmptySeq
<1> QED BY <1>2, <1>3, <1>4 DEF gather_client

\* A pre-select operation deals with one of the channels that wait.
LEMMA PreSelectFeeds ==
  ASSUME IInv, FedInv, NEW i \in Chan, PreSelect(i),
         \A k \in Chan \ {i} : ch'[k] = ch[k],
         ClientWaits(i)' => pool' = <<>>, pool = <<>> => pool' = <<>>
  PROVE  FedInv'
<1>1. todo' = todo \ {i} /\ phase = "preselect" /\ (phase' = "select" => todo' = {})
  BY DEF PreSelect
<1>2. ASSUME NEW k \in Chan, ClientWaits(k)' PROVE k \in todo' \/ pool' = <<>>
  <2>1. CASE k = i
    BY <1>2, <2>1
  <2>2. CASE k # i
    <3>1. ClientWaits(k)
      BY <1>2, <2>2 DEF ClientWaits
    <3> QED BY <1>1, <2>2, <3>1 DEF FedInv
  <2> QED BY <2>1, <2>2
<1> QED BY <1>1, <1>2 DEF FedInv

LEMMA FedNext == IInv /\ StateInv /\ FedInv /\ [Next]_vars => FedInv'
<1> SUFFICES ASSUME IInv, StateInv, FedInv, [Next]_vars PROVE FedInv'
  OBVIOUS
<1>1. CASE phase' \notin {"preselect", "select"}
  BY <1>1 DEF FedInv
<1>2. CASE mk_open_chaos \/ mk_open_listener \/ Select \/ Shutdown
  <2>1. phase' \notin {"preselect", "select"}
    BY <1>2 DEF mk_open_chaos, mk_open_listener, OpenChan, Select, Shutdown
  <2> QED BY <1>1, <2>1
<1>3. CASE StartCycle
  <2>1. /\ todo' = {i \in Chan : preselect_ready(i)} /\ UNCHANGED ch
        /\ phase' = "select" => todo' = {}
    BY <1>3 DEF StartCycle, tableVars
  <2>2. \A i \in Chan : ClientWaits(i)' => i \in todo'
    BY <2>1, WaitingIsPreselect DEF ClientWaits
  <2> QED BY <2>1, <2>2 DEF FedInv
<1>4. CASE UNCHANGED vars
  BY <1>4 DEF vars, tableVars, loopVars, poolVars, FedInv, ClientWaits
<1>5. CASE ReaderTakesFrame
  <2>1. phase' = "top"
    BY <1>5 DEF ReaderTakesFrame, loopVars
  <2> QED BY <1>1, <2>1
<1>6. ASSUME NEW i \in Chan, NEW t, NEW c, Dispatch(i, t, c) PROVE FedInv'
  BY <1>1, <1>6 DEF Dispatch
<1>7. ASSUME NEW i \in Chan, gather_client(i) PROVE FedInv'
  <2>1. \A k \in Chan \ {i} : ch'[k] = ch[k]
    BY <1>7, OneChannel DEF ClientOp
  <2>2. pool = <<>> => pool' = <<>>
    BY <1>7 DEF gather_client
  <2> QED BY <1>7, <2>1, <2>2, GatherFeeds, PreSelectFeeds DEF gather_client
<1>8. ASSUME NEW i \in Chan, PreCloseClient(i) PROVE FedInv'
  <2>1. (\A k \in Chan \ {i} : ch'[k] = ch[k]) /\ UNCHANGED pool
    BY <1>8, OneChannel DEF ClientOp, PreCloseClient, poolVars
  <2>2. ~ClientWaits(i)'
    BY <1>8 DEF PreCloseClient, close_client, close_chan, Fresh_chan, ClientWaits, IInv, TableInv
  <2> QED BY <1>8, <2>1, <2>2, PreSelectFeeds DEF PreCloseClient
<1>9. ASSUME NEW i \in Chan, PreChaos(i) PROVE FedInv'
  <2>1. UNCHANGED <<ch, pool>> /\ ch[i].type = "CHAOS"
    BY <1>9 DEF PreChaos, tableVars, poolVars
  <2> QED BY <1>9, <2>1, PreSelectFeeds DEF PreChaos, ClientWaits
<1>10. ASSUME NEW i \in Chan, ClientOp(i) \/ ListenerOp(i) \/ ChaosOp(i) PROVE FedInv'
  BY <1>6, <1>7, <1>8, <1>9, <1>10
     DEF ClientOp, ListenerOp, ChaosOp, ExceptClient, read_client, write_client,
         accept_listener, ExceptListener, ExceptChaos, read_chaos
<1> QED BY <1>2, <1>3, <1>4, <1>5, <1>10 DEF Next, DaemonStep, Exited

LEMMA FedInit == Init => FedInv
  BY DEF Init, FedInv

\* The pool has room for a digest, so an empty one is filled as fast as can be.
LEMMA EmptyPoolIsFast == ASSUME pool = <<>> PROVE pool_rate_factor = "fast"
<1> DEFINE q == (PoolSize - 1 + Digest) \div Digest
<1>1. Digest \in Nat /\ Digest > 0 /\ PoolSize \in Nat /\ PoolSize >= 1
  BY PoolAssumption
<1>2. q \in Nat /\ q >= 1
  BY <1>1
<1>3. maxlen = Digest * q
  BY DEF maxlen
<1> HIDE DEF q
<1>4. Digest * q >= Digest /\ Digest * q \in Nat
  BY <1>1, <1>2
<1>5. Len(pool) = 0
  BY EmptySeq
<1> QED BY <1>1, <1>3, <1>4, <1>5, PoolAssumption DEF pool_rate_factor

\* A daemon that goes into select() while a client waits has emptied the pool
\* and asks for the chaos channel, whatever its toggle and the odds are
\* (gather_client, chan_select): for every size of pool, digest and request.
THEOREM WaitingClientsAreFed == Spec => []WaitingClientIsFed
<1>1. IInv /\ StateInv /\ FedInv => WaitingClientIsFed
  <2> SUFFICES ASSUME IInv, StateInv, FedInv, phase = "select",
                      NEW k \in Chan, ClientWaits(k)
               PROVE  /\ pool = <<>>
                      /\ \A i \in Made("CHAOS") : ch[i].fd >= 0 =>
                           \A tg \in {0, 1}, odds \in BOOLEAN :
                             "read" \in select_mask(i, next_file, tg, odds)
    BY DEF WaitingClientIsFed
  <2>1. pool = <<>>
    BY DEF FedInv
  <2> SUFFICES ASSUME NEW i \in Made("CHAOS"), ch[i].fd >= 0,
                      NEW tg \in {0, 1}, NEW odds \in BOOLEAN
               PROVE  "read" \in select_mask(i, next_file, tg, odds)
    BY <2>1
  <2>2. want_chaos(i, next_file, tg, odds)
    BY <2>1, EmptyPoolIsFast DEF want_chaos
  <2>3. ch[i].type = "CHAOS" /\ ch[i].nxt = "READ" /\ ~(ch[i].fd < 0)
    <3>1. i \in Chan /\ ch[i].type = "CHAOS" /\ ch[i].fd \in Fd \cup {-1}
      BY ChannelsTyped DEF Made, ChanRecord
    <3>2. ~(ch[i].fd < 0)
      BY <3>1, FdNat
    <3> QED BY <3>1, <3>2 DEF StateInv, StateShape
  <2> QED BY <2>2, <2>3 DEF select_mask, chaos_select_mask, chaos_read_mask, Cycle
<1> QED BY <1>1, FedInit, FedNext, Invariance, StateInvariance, PTL DEF Spec

-----------------------------------------------------------------------------
(* Frames that are dumped.                                                 *)

\* A frame whose dump left a trace is withheld: frame_dump() without skip leaves
\* no new file and no new part of one.
LEMMA DumpWithoutSkip ==
  ASSUME NEW i, frame_dump_if_ready(i, FALSE)
  PROVE  savefile' = savefile /\ newfile' \in {newfile, "none"}
  BY DEF frame_dump_if_ready, frame_dump, frameVars

\* A frame that reaches the disk, whole or in part, adds nothing to the pool, in
\* any state at all (read_driver, the NOTE on frame_dump).
THEOREM DumpedFramesAreWithheld == Spec => DumpedFrameIsWithheld
<1>1. ASSUME [Next]_vars,
             \/ savefile' # savefile /\ savefile' = "frame"
             \/ newfile' # newfile /\ newfile' # "none"
      PROVE  pool' = pool
  <2>1. ~UNCHANGED frameVars /\ ~UNCHANGED chaosVars /\ ~UNCHANGED vars
    BY <1>1 DEF vars, chaosVars, frameVars
  <2>2. PICK i \in Chan : ChaosOp(i)
    <3>1. ~Shutdown /\ ~ReaderTakesFrame /\ ~Exited
      BY <1>1, <2>1 DEF Shutdown, ReaderTakesFrame, Exited
    <3>2. ~mk_open_chaos /\ ~mk_open_listener /\ ~StartCycle /\ ~Select
      BY <2>1 DEF mk_open_chaos, mk_open_listener, StartCycle, Select
    <3> QED BY <1>1, <2>1, <3>1, <3>2 DEF Next, DaemonStep
  <2>3. read_chaos(i)
    BY <1>1, <2>2 DEF ChaosOp, PreChaos, ExceptChaos, chaosVars, frameVars
  <2>4. ~(savefile' = savefile /\ newfile' \in {newfile, "none"})
    BY <1>1
  <2>5. CASE UNCHANGED frameVars
    BY <2>4, <2>5 DEF frameVars
  <2> QED BY <2>3, <2>4, <2>5, DumpWithoutSkip DEF read_chaos, read_driver, read_process, poolVars
<1> QED BY <1>1, PTL DEF Spec, DumpedFrameIsWithheld

-----------------------------------------------------------------------------
(* What the octets of a channel look like from the service.                *)

\* What the client of record c has still to be sent, and to be given.
HeldOf(c) == {c.random[n] : n \in c.writecnt + 1 .. Len(c.random)}
OwedOf(c) == IF c.type = "CLIENT" /\ c.cur = "GATHER" THEN c.request - Len(c.random) ELSE 0

LEMMA HeldIs ==
  ASSUME NEW c \in ChanRecord
  PROVE  /\ InSeq(SubSeq(c.random, c.writecnt + 1, Len(c.random))) = HeldOf(c)
         /\ HeldOf(c) \subseteq Octet
<1> DEFINE m == c.writecnt + 1
           n == Len(c.random)
           s == SubSeq(c.random, m, n)
<1>1. c.random \in Seq(Octet) /\ m \in Int /\ m >= 1 /\ n \in Nat
  BY AssumptionsHold DEF ChanRecord, Assumptions
<1>2. HeldOf(c) = {c.random[k] : k \in m .. n}
  BY DEF HeldOf
<1>3. \A k \in m .. n : c.random[k] \in Octet
  <2> SUFFICES ASSUME NEW k \in m .. n PROVE c.random[k] \in Octet
    OBVIOUS
  <2>1. k \in 1 .. Len(c.random)
    BY <1>1
  <2> QED BY <1>1, <2>1, ElementOfSeq
<1> HIDE DEF m
<1>4. /\ s \in Seq(Octet) /\ Len(s) = IF m <= n THEN n - m + 1 ELSE 0
      /\ \A k \in 1 .. Len(s) : s[k] = c.random[m + k - 1]
  <2> HIDE DEF n
  <2>1. c.random = c.random /\ \A k \in m .. n : c.random[k] \in Octet
    BY <1>3
  <2> QED BY <1>1, <2>1, SubSeqProperties
<1>5. DOMAIN s = 1 .. Len(s)
  BY <1>4
<1> HIDE DEF s, n
<1>6. InSeq(s) = {c.random[k] : k \in m .. n}
  <2>1. ASSUME NEW k \in 1 .. Len(s) PROVE s[k] \in {c.random[j] : j \in m .. n}
    <3>1. m + k - 1 \in m .. n
      BY <1>1, <1>4
    <3> QED BY <1>4, <3>1
  <2>2. ASSUME NEW j \in m .. n PROVE c.random[j] \in {s[k] : k \in 1 .. Len(s)}
    <3> DEFINE k == j - m + 1
    <3>1. k \in 1 .. Len(s) /\ m + k - 1 = j
      BY <1>1, <1>4
    <3> HIDE DEF k
    <3> QED BY <1>4, <3>1
  <2> QED BY <1>5, <2>1, <2>2 DEF InSeq
<1> QED BY <1>2, <1>3, <1>6 DEF s, n, m

LEMMA Views ==
  ASSUME IInv
  PROVE  /\ \A i \in Chan : Held(i) = HeldOf(ch[i])
         /\ [i \in Chan |-> Held(i)] = [i \in Chan |-> HeldOf(ch[i])]
         /\ [i \in Chan |-> IF ClientWaits(i) THEN wanted(i) ELSE 0] = [i \in Chan |-> OwedOf(ch[i])]
<1>1. \A i \in Chan : Held(i) = HeldOf(ch[i])
  BY ChannelsTyped, HeldIs DEF Held, unsent
<1> QED BY <1>1 DEF ClientWaits, wanted, OwedOf

LEMMA ViewsNext ==
  ASSUME IInv'
  PROVE  /\ \A i \in Chan : Held(i)' = HeldOf(ch'[i])
         /\ [i \in Chan |-> Held(i)]' = [i \in Chan |-> HeldOf(ch'[i])]
         /\ [i \in Chan |-> IF ClientWaits(i) THEN wanted(i) ELSE 0]'
              = [i \in Chan |-> OwedOf(ch'[i])]
<1>1. \A i \in Chan : ch'[i] \in ChanRecord
  BY DEF IInv, TableInv
<1>2. \A i \in Chan : Held(i)' = HeldOf(ch'[i])
  BY <1>1, HeldIs DEF Held, unsent
<1> QED BY <1>2 DEF ClientWaits, wanted, OwedOf

\* What the other channels hold and are owed is left as it is.
OthersAsTheyWere(i) == \A k \in Chan \ {i} : /\ HeldOf(ch'[k]) = HeldOf(ch[k])
                                            /\ OwedOf(ch'[k]) = OwedOf(ch[k])

\* The service counts with its own instance of Cardinality.
LEMMA CardinalitySame == \A S : Service!Cardinality(S) = Cardinality(S)
  BY DEF Service!Cardinality, Service!IsFiniteSet, Cardinality, IsFiniteSet

LEMMA GiveMaps ==
  ASSUME IInv, IInv', NEW i \in Chan, OthersAsTheyWere(i), UNCHANGED <<made, sent>>,
         NEW S, S \subseteq InSeq(pool), S # {}, Cardinality(S) <= OwedOf(ch[i]),
         InSeq(pool)' = InSeq(pool) \ S,
         HeldOf(ch'[i]) = HeldOf(ch[i]) \cup S,
         OwedOf(ch'[i]) = OwedOf(ch[i]) - Cardinality(S)
  PROVE  Service!Give(i)
<1> DEFINE h == [k \in Chan |-> HeldOf(ch[k])]
           o == [k \in Chan |-> OwedOf(ch[k])]
           H == [k \in Chan |-> HeldOf(ch'[k])]
           O == [k \in Chan |-> OwedOf(ch'[k])]
<1>1. H = [h EXCEPT ![i] = @ \cup S] /\ O = [o EXCEPT ![i] = @ - Cardinality(S)]
  BY DEF OthersAsTheyWere
<1>2. S \in (SUBSET InSeq(pool)) \ {{}} /\ Cardinality(S) <= o[i]
  OBVIOUS
<1>3. /\ [k \in Chan |-> Held(k)] = h /\ [k \in Chan |-> Held(k)]' = H
      /\ [k \in Chan |-> IF ClientWaits(k) THEN wanted(k) ELSE 0] = o
      /\ [k \in Chan |-> IF ClientWaits(k) THEN wanted(k) ELSE 0]' = O
  BY Views, ViewsNext
<1> HIDE DEF h, o, H, O
<1> QED
  BY <1>1, <1>2, <1>3, CardinalitySame DEF Service!Give

LEMMA SendMaps ==
  ASSUME IInv, IInv', NEW i \in Chan, OthersAsTheyWere(i), UNCHANGED <<made, pool>>,
         NEW S, S \subseteq HeldOf(ch[i]), S # {}, OwedOf(ch[i]) = 0,
         HeldOf(ch'[i]) = HeldOf(ch[i]) \ S, OwedOf(ch'[i]) = 0, sent' = sent \cup S
  PROVE  Service!Send(i)
<1> DEFINE h == [k \in Chan |-> HeldOf(ch[k])]
           o == [k \in Chan |-> OwedOf(ch[k])]
           H == [k \in Chan |-> HeldOf(ch'[k])]
           O == [k \in Chan |-> OwedOf(ch'[k])]
<1>1. H = [h EXCEPT ![i] = @ \ S] /\ O = o
  BY DEF OthersAsTheyWere
<1>2. S \in (SUBSET h[i]) \ {{}} /\ o[i] = 0
  OBVIOUS
<1>3. /\ [k \in Chan |-> Held(k)] = h /\ [k \in Chan |-> Held(k)]' = H
      /\ [k \in Chan |-> IF ClientWaits(k) THEN wanted(k) ELSE 0] = o
      /\ [k \in Chan |-> IF ClientWaits(k) THEN wanted(k) ELSE 0]' = O
  BY Views, ViewsNext
<1>4. InSeq(pool)' = InSeq(pool)
  BY DEF InSeq
<1> HIDE DEF h, o, H, O
<1> QED
  BY <1>1, <1>2, <1>3, <1>4 DEF Service!Send

LEMMA AskMaps ==
  ASSUME IInv, IInv', NEW i \in Chan, OthersAsTheyWere(i), UNCHANGED <<made, pool, sent>>,
         HeldOf(ch[i]) = {}, OwedOf(ch[i]) = 0,
         HeldOf(ch'[i]) = {}, OwedOf(ch'[i]) \in 1 .. MaxRequest
  PROVE  Service!Ask(i)
<1> DEFINE h == [k \in Chan |-> HeldOf(ch[k])]
           o == [k \in Chan |-> OwedOf(ch[k])]
           H == [k \in Chan |-> HeldOf(ch'[k])]
           O == [k \in Chan |-> OwedOf(ch'[k])]
<1>1. H = h /\ O = [o EXCEPT ![i] = OwedOf(ch'[i])]
  BY DEF OthersAsTheyWere
<1>2. o[i] = 0 /\ h[i] = {}
  OBVIOUS
<1>3. /\ [k \in Chan |-> Held(k)] = h /\ [k \in Chan |-> Held(k)]' = H
      /\ [k \in Chan |-> IF ClientWaits(k) THEN wanted(k) ELSE 0] = o
      /\ [k \in Chan |-> IF ClientWaits(k) THEN wanted(k) ELSE 0]' = O
  BY Views, ViewsNext
<1>4. InSeq(pool)' = InSeq(pool)
  BY DEF InSeq
<1> HIDE DEF h, o, H, O
<1> QED
  BY <1>1, <1>2, <1>3, <1>4 DEF Service!Ask

LEMMA HangupMaps ==
  ASSUME IInv, IInv', NEW i \in Chan, OthersAsTheyWere(i), UNCHANGED <<made, pool, sent>>,
         HeldOf(ch'[i]) = {}, OwedOf(ch'[i]) = 0
  PROVE  Service!Hangup(i)
<1> DEFINE h == [k \in Chan |-> HeldOf(ch[k])]
           o == [k \in Chan |-> OwedOf(ch[k])]
           H == [k \in Chan |-> HeldOf(ch'[k])]
           O == [k \in Chan |-> OwedOf(ch'[k])]
<1>1. H = [h EXCEPT ![i] = {}] /\ O = [o EXCEPT ![i] = 0]
  BY DEF OthersAsTheyWere
<1>3. /\ [k \in Chan |-> Held(k)] = h /\ [k \in Chan |-> Held(k)]' = H
      /\ [k \in Chan |-> IF ClientWaits(k) THEN wanted(k) ELSE 0] = o
      /\ [k \in Chan |-> IF ClientWaits(k) THEN wanted(k) ELSE 0]' = O
  BY Views, ViewsNext
<1>4. InSeq(pool)' = InSeq(pool)
  BY DEF InSeq
<1> HIDE DEF h, o, H, O
<1> QED
  BY <1>1, <1>3, <1>4 DEF Service!Hangup

LEMMA SameViews ==
  ASSUME IInv, IInv',
         \A k \in Chan : HeldOf(ch'[k]) = HeldOf(ch[k]) /\ OwedOf(ch'[k]) = OwedOf(ch[k])
  PROVE  UNCHANGED <<[k \in Chan |-> Held(k)],
                     [k \in Chan |-> IF ClientWaits(k) THEN wanted(k) ELSE 0]>>
<1> DEFINE h == [k \in Chan |-> HeldOf(ch[k])]
           o == [k \in Chan |-> OwedOf(ch[k])]
<1>1. [k \in Chan |-> HeldOf(ch'[k])] = h /\ [k \in Chan |-> OwedOf(ch'[k])] = o
  OBVIOUS
<1> HIDE DEF h, o
<1> QED BY <1>1, Views, ViewsNext DEF h, o

LEMMA MakeMaps ==
  ASSUME IInv, IInv', NEW n \in Nat, n > 0, Append_octets(n), UNCHANGED sent,
         \A k \in Chan : HeldOf(ch'[k]) = HeldOf(ch[k]) /\ OwedOf(ch'[k]) = OwedOf(ch[k])
  PROVE  Service!Make
<1> DEFINE S == made + 1 .. made + n
<1>1. /\ pool \in Seq(Octet) /\ made \in Nat /\ MaxOctets \in Nat /\ made + n <= MaxOctets
      /\ PoolTypeOK
  BY AssumptionsHold DEF IInv, DataInv, PoolTypeOK, Append_octets, Assumptions
<1>2. /\ pool' \in Seq(Octet) /\ Len(pool') = Len(pool) + n
      /\ made' = made + n
      /\ \A k \in 1 .. Len(pool) : pool'[k] = pool[k]
      /\ \A k \in 1 .. n : pool'[Len(pool) + k] = made + k
  BY <1>1, AppendOctets
<1>3. S \in (SUBSET (Octet \ (1 .. made))) \ {{}}
  BY <1>1 DEF Octet
<1>4. Octet \ (1 .. made') = (Octet \ (1 .. made)) \ S
  BY <1>1, <1>2 DEF Octet
<1>5. InSeq(pool') = InSeq(pool) \cup S
  <2> DEFINE l == Len(pool)
  <2>1. l \in Nat /\ DOMAIN pool = 1 .. l /\ DOMAIN pool' = 1 .. l + n
    BY <1>1, <1>2
  <2> HIDE DEF l
  <2>2. ASSUME NEW k \in 1 .. l + n PROVE pool'[k] \in InSeq(pool) \cup S
    <3>1. CASE k \in 1 .. l
      BY <1>2, <2>1, <3>1 DEF InSeq, l
    <3>2. CASE k \notin 1 .. l
      <4> DEFINE j == k - l
      <4>1. j \in 1 .. n /\ l + j = k
        BY <2>1, <3>2
      <4> HIDE DEF j
      <4>2. pool'[k] = made + j
        BY <1>2, <4>1 DEF l
      <4> QED BY <1>1, <4>1, <4>2
    <3> QED BY <3>1, <3>2
  <2>3. ASSUME NEW k \in 1 .. l PROVE pool[k] \in InSeq(pool')
    <3>1. k \in 1 .. l + n /\ pool'[k] = pool[k]
      BY <1>2, <2>1 DEF l
    <3> QED BY <2>1, <3>1 DEF InSeq
  <2>4. ASSUME NEW x \in S PROVE x \in InSeq(pool')
    <3> DEFINE j == x - made
    <3>1. j \in 1 .. n /\ made + j = x /\ l + j \in 1 .. l + n
      BY <1>1, <2>1
    <3> HIDE DEF j
    <3>2. pool'[l + j] = x
      BY <1>2, <3>1 DEF l
    <3> QED BY <2>1, <3>1, <3>2 DEF InSeq
  <2> QED BY <2>1, <2>2, <2>3, <2>4 DEF InSeq
<1>6. InSeq(pool)' = InSeq(pool) \cup S /\ (Octet \ (1 .. made))' = (Octet \ (1 .. made)) \ S
  BY <1>4, <1>5 DEF Octet, InSeq
<1> HIDE DEF S
<1> QED BY <1>3, <1>6, SameViews DEF Service!Make

-----------------------------------------------------------------------------
(* Sequences that hold nothing twice.                                      *)

LEMMA InSeqConcat ==
  ASSUME NEW T, NEW s \in Seq(T), NEW t \in Seq(T)
  PROVE  /\ InSeq(s \o t) = InSeq(s) \cup InSeq(t)
         /\ Injective(s) /\ Injective(t) /\ InSeq(s) \cap InSeq(t) = {} => Injective(s \o t)
<1> DEFINE m == Len(s)
           n == Len(t)
           u == s \o t
<1>1. m \in Nat /\ n \in Nat /\ DOMAIN s = 1 .. m /\ DOMAIN t = 1 .. n
  OBVIOUS
<1>2. /\ u \in Seq(T) /\ Len(u) = m + n
      /\ \A k \in 1 .. m + n : u[k] = IF k <= m THEN s[k] ELSE t[k - m]
  BY ConcatProperties
<1>3. DOMAIN u = 1 .. m + n
  BY <1>1, <1>2
<1> HIDE DEF m, n, u
<1>4. \A k \in 1 .. m : k \in 1 .. m + n /\ u[k] = s[k]
  BY <1>1, <1>2
<1>5. \A k \in 1 .. n : m + k \in 1 .. m + n /\ u[m + k] = t[k]
  <2> SUFFICES ASSUME NEW k \in 1 .. n PROVE m + k \in 1 .. m + n /\ u[m + k] = t[k]
    OBVIOUS
  <2>1. m + k \in 1 .. m + n /\ ~(m + k <= m) /\ (m + k) - m = k
    BY <1>1
  <2>2. u[m + k] = t[(m + k) - m]
    BY <1>2, <2>1
  <2> QED BY <2>1, <2>2
<1>6. \A k \in 1 .. m + n : \/ k \in 1 .. m /\ u[k] = s[k]
                            \/ k - m \in 1 .. n /\ u[k] = t[k - m]
  <2> SUFFICES ASSUME NEW k \in 1 .. m + n
               PROVE  \/ k \in 1 .. m /\ u[k] = s[k]
                      \/ k - m \in 1 .. n /\ u[k] = t[k - m]
    OBVIOUS
  <2>1. (k <= m /\ k \in 1 .. m) \/ (~(k <= m) /\ k - m \in 1 .. n)
    BY <1>1
  <2> QED BY <1>2, <2>1
<1>7. InSeq(u) = InSeq(s) \cup InSeq(t)
  <2>1. InSeq(u) \subseteq InSeq(s) \cup InSeq(t)
    BY <1>1, <1>3, <1>6 DEF InSeq
  <2>2. InSeq(s) \subseteq InSeq(u)
    BY <1>1, <1>3, <1>4 DEF InSeq
  <2>3. InSeq(t) \subseteq InSeq(u)
    <3> SUFFICES ASSUME NEW k \in 1 .. n PROVE t[k] \in InSeq(u)
      BY <1>1 DEF InSeq
    <3> DEFINE j == m + k
    <3>1. j \in 1 .. m + n /\ u[j] = t[k]
      BY <1>5
    <3> HIDE DEF j
    <3> QED BY <1>3, <3>1 DEF InSeq
  <2> QED BY <2>1, <2>2, <2>3
<1>8. ASSUME Injective(s), Injective(t), InSeq(s) \cap InSeq(t) = {},
             NEW a \in 1 .. m + n, NEW b \in 1 .. m + n, u[a] = u[b]
      PROVE  a = b
  <2>1. CASE a \in 1 .. m /\ u[a] = s[a] /\ b \in 1 .. m /\ u[b] = s[b]
    BY <1>1, <1>8, <2>1 DEF Injective
  <2>2. CASE a - m \in 1 .. n /\ u[a] = t[a - m] /\ b - m \in 1 .. n /\ u[b] = t[b - m]
    <3>1. a - m = b - m
      BY <1>1, <1>8, <2>2 DEF Injective
    <3> QED BY <1>1, <3>1
  <2>3. CASE a \in 1 .. m /\ u[a] = s[a] /\ b - m \in 1 .. n /\ u[b] = t[b - m]
    BY <1>1, <1>8, <2>3 DEF InSeq
  <2>4. CASE a - m \in 1 .. n /\ u[a] = t[a - m] /\ b \in 1 .. m /\ u[b] = s[b]
    BY <1>1, <1>8, <2>4 DEF InSeq
  <2> QED BY <1>6, <2>1, <2>2, <2>3, <2>4
<1> QED BY <1>3, <1>7, <1>8 DEF Injective, u

\* As many members as places.
LEMMA InSeqCardinality ==
  ASSUME NEW T, NEW s \in Seq(T), Injective(s)
  PROVE  IsFiniteSet(InSeq(s)) /\ Cardinality(InSeq(s)) = Len(s)
<1> DEFINE D == 1 .. Len(s)
<1>1. Len(s) \in Nat /\ DOMAIN s = D /\ s \in [D -> T]
  OBVIOUS
<1>2. IsFiniteSet(D) /\ Cardinality(D) = Len(s)
  BY <1>1, FS_Interval
<1> HIDE DEF D
<1>3. s \in Bijection(D, InSeq(s))
  <2>1. s \in [D -> InSeq(s)]
    BY <1>1 DEF InSeq
  <2>2. \A a, b \in D : s[a] = s[b] => a = b
    BY <1>1 DEF Injective
  <2>3. \A x \in InSeq(s) : \E a \in D : s[a] = x
    BY <1>1 DEF InSeq
  <2> QED BY <2>1, <2>2, <2>3 DEF Bijection, Injection, Surjection, IsInjective
<1>4. ExistsBijection(D, InSeq(s))
  BY <1>3 DEF ExistsBijection
<1> QED BY <1>2, <1>4, FS_Bijection

\* drain_pool() cuts a pool that holds nothing twice into two parts that have
\* nothing in common.
LEMMA DrainSets ==
  ASSUME pool \in Seq(Octet), Injective(pool), NEW cnt \in Nat
  PROVE  /\ Injective(drain_octets(cnt)) /\ Injective(drain_rest(cnt))
         /\ InSeq(drain_octets(cnt)) \subseteq InSeq(pool)
         /\ InSeq(drain_rest(cnt)) = InSeq(pool) \ InSeq(drain_octets(cnt))
<1> DEFINE l == Len(pool)
           d == drain_count(cnt)
           o == drain_octets(cnt)
           r == drain_rest(cnt)
<1>1. /\ l \in Nat /\ DOMAIN pool = 1 .. l /\ d \in 0 .. l
      /\ o \in Seq(Octet) /\ Len(o) = d /\ r \in Seq(Octet) /\ Len(r) = l - d
      /\ \A k \in 1 .. d : o[k] = pool[l - d + k]
      /\ \A k \in 1 .. l - d : r[k] = pool[k]
  <2>1. l \in Nat /\ DOMAIN pool = 1 .. l
    OBVIOUS
  <2>2. /\ d \in 0 .. l
        /\ o \in Seq(Octet) /\ Len(o) = d /\ r \in Seq(Octet) /\ Len(r) = l - d
        /\ \A k \in 1 .. d : o[k] = pool[l - d + k]
        /\ \A k \in 1 .. l - d : r[k] = pool[k]
    BY DrainProperties, Zenon
  <2> QED BY <2>1, <2>2
<1>2. DOMAIN o = 1 .. d /\ DOMAIN r = 1 .. l - d
  BY <1>1
<1> HIDE DEF l, d, o, r
<1>3. \A k \in 1 .. d : \E j \in 1 .. l : j = l - d + k /\ o[k] = pool[j]
  <2> SUFFICES ASSUME NEW k \in 1 .. d PROVE \E j \in 1 .. l : j = l - d + k /\ o[k] = pool[j]
    OBVIOUS
  <2>1. l - d + k \in 1 .. l /\ o[k] = pool[l - d + k]
    BY <1>1
  <2> QED BY <2>1
<1>4. \A k \in 1 .. l - d : k \in 1 .. l
  BY <1>1
<1>5. Injective(o)
  <2> SUFFICES ASSUME NEW a \in 1 .. d, NEW b \in 1 .. d, o[a] = o[b] PROVE a = b
    BY <1>2 DEF Injective
  <2>1. PICK j \in 1 .. l : j = l - d + a /\ o[a] = pool[j]
    BY <1>3
  <2>2. PICK k \in 1 .. l : k = l - d + b /\ o[b] = pool[k]
    BY <1>3
  <2>3. j \in DOMAIN pool /\ k \in DOMAIN pool /\ pool[j] = pool[k]
    BY <1>1, <2>1, <2>2
  <2>4. j = k
    BY <2>3, Zenon DEF Injective
  <2>5. l \in Nat /\ d \in Nat
    BY <1>1
  <2> QED BY <2>1, <2>2, <2>4, <2>5
<1>6. Injective(r)
  BY <1>1, <1>2, <1>4 DEF Injective
<1>7. InSeq(o) \subseteq InSeq(pool)
  BY <1>1, <1>2, <1>3 DEF InSeq
<1>8. InSeq(r) = InSeq(pool) \ InSeq(o)
  <2>1. InSeq(r) \subseteq InSeq(pool)
    BY <1>1, <1>2, <1>4 DEF InSeq
  <2>2. ASSUME NEW a \in 1 .. l - d, NEW b \in 1 .. d PROVE r[a] # o[b]
    <3>1. PICK j \in 1 .. l : j = l - d + b /\ o[b] = pool[j]
      BY <1>3
    <3>2. a # j /\ a \in 1 .. l /\ r[a] = pool[a]
      BY <1>1, <3>1
    <3> QED BY <1>1, <3>1, <3>2 DEF Injective
  <2>3. ASSUME NEW a \in 1 .. l PROVE pool[a] \in InSeq(r) \cup InSeq(o)
    <3>1. CASE a \in 1 .. l - d
      BY <1>1, <1>2, <3>1 DEF InSeq
    <3>2. CASE a \notin 1 .. l - d
      <4> DEFINE b == a - (l - d)
      <4>1. b \in 1 .. d /\ l - d + b = a
        BY <1>1, <3>2
      <4> HIDE DEF b
      <4>2. o[b] = pool[a]
        BY <1>3, <4>1
      <4> QED BY <1>2, <4>1, <4>2 DEF InSeq
    <3> QED BY <3>1, <3>2
  <2>4. InSeq(r) \cap InSeq(o) = {}
    BY <1>2, <2>2 DEF InSeq
  <2>5. InSeq(pool) \subseteq InSeq(r) \cup InSeq(o)
    BY <1>1, <2>3 DEF InSeq
  <2> QED BY <2>1, <2>4, <2>5
<1> QED BY <1>5, <1>6, <1>7, <1>8 DEF o, r

-----------------------------------------------------------------------------
(* Octets in one place only.                                               *)

\* OctetInv, said of the records of the channels.
OctetView ==
  /\ Injective(pool) /\ \A i \in Chan : Injective(ch[i].random)
  /\ InSeq(pool) \subseteq 1 .. made /\ sent \subseteq 1 .. made
  /\ InSeq(pool) \cap sent = {}
  /\ \A i \in Chan :
       /\ HeldOf(ch[i]) \subseteq 1 .. made
       /\ HeldOf(ch[i]) \cap (sent \cup InSeq(pool)) = {}
       /\ \A j \in Chan \ {i} : HeldOf(ch[i]) \cap HeldOf(ch[j]) = {}

LEMMA OctetViews == ASSUME IInv, OctetInv PROVE OctetView
  BY Views DEF OctetInv, NoOctetTwice, OctetView

LEMMA OctetViewsNext == ASSUME IInv', OctetView' PROVE OctetInv'
<1>1. \A i \in Chan : Held(i)' = HeldOf(ch'[i])
  BY ViewsNext
<1>2. /\ Injective(pool') /\ \A i \in Chan : Injective(ch'[i].random)
      /\ InSeq(pool') \subseteq 1 .. made' /\ sent' \subseteq 1 .. made'
      /\ InSeq(pool') \cap sent' = {}
      /\ \A i \in Chan :
           /\ HeldOf(ch'[i]) \subseteq 1 .. made'
           /\ HeldOf(ch'[i]) \cap (sent' \cup InSeq(pool')) = {}
           /\ \A j \in Chan \ {i} : HeldOf(ch'[i]) \cap HeldOf(ch'[j]) = {}
  BY DEF OctetView, HeldOf, Injective, InSeq
<1> QED BY <1>1, <1>2 DEF OctetInv, NoOctetTwice

LEMMA OctetViewNext ==
  ASSUME Injective(pool'), \A i \in Chan : Injective(ch'[i].random),
         InSeq(pool') \subseteq 1 .. made', sent' \subseteq 1 .. made',
         InSeq(pool') \cap sent' = {},
         \A i \in Chan :
            /\ HeldOf(ch'[i]) \subseteq 1 .. made'
            /\ HeldOf(ch'[i]) \cap (sent' \cup InSeq(pool')) = {}
            /\ \A j \in Chan \ {i} : HeldOf(ch'[i]) \cap HeldOf(ch'[j]) = {}
  PROVE  OctetView'
  BY DEF OctetView, HeldOf, Injective, InSeq

\* A step moves octets between the pool, one channel and those sent, and makes
\* none.
LEMMA OctetsMove ==
  ASSUME OctetView, NEW i \in Chan, UNCHANGED made,
         \A k \in Chan \ {i} : HeldOf(ch'[k]) = HeldOf(ch[k]) /\ Injective(ch'[k].random),
         Injective(ch'[i].random), Injective(pool'),
         HeldOf(ch'[i]) \cup InSeq(pool') \cup sent'
           \subseteq HeldOf(ch[i]) \cup InSeq(pool) \cup sent,
         HeldOf(ch'[i]) \cap InSeq(pool') = {}, HeldOf(ch'[i]) \cap sent' = {},
         InSeq(pool') \cap sent' = {}
  PROVE  OctetView'
<1> DEFINE Before == HeldOf(ch[i]) \cup InSeq(pool) \cup sent
<1>1. Before \subseteq 1 .. made
  BY DEF OctetView
<1>2. \A k \in Chan \ {i} : HeldOf(ch[k]) \cap Before = {}
  BY DEF OctetView
<1>3. ASSUME NEW k \in Chan
      PROVE  /\ HeldOf(ch'[k]) \subseteq 1 .. made'
             /\ HeldOf(ch'[k]) \cap (sent' \cup InSeq(pool')) = {}
             /\ \A j \in Chan \ {k} : HeldOf(ch'[k]) \cap HeldOf(ch'[j]) = {}
  <2>1. CASE k = i
    BY <1>1, <1>2, <2>1
  <2>2. CASE k # i
    <3>1. HeldOf(ch'[k]) = HeldOf(ch[k]) /\ HeldOf(ch[k]) \cap Before = {}
      BY <1>2, <2>2
    <3>2. HeldOf(ch[k]) \subseteq 1 .. made /\
          \A j \in Chan \ {k} : HeldOf(ch[k]) \cap HeldOf(ch[j]) = {}
      BY DEF OctetView
    <3>3. ASSUME NEW j \in Chan \ {k} PROVE HeldOf(ch'[k]) \cap HeldOf(ch'[j]) = {}
      <4>1. CASE j = i
        BY <3>1, <4>1
      <4>2. CASE j # i
        BY <3>1, <3>2, <4>2
      <4> QED BY <4>1, <4>2
    <3> QED BY <3>1, <3>2, <3>3
  <2> QED BY <2>1, <2>2
<1>4. InSeq(pool') \subseteq 1 .. made' /\ sent' \subseteq 1 .. made'
  BY <1>1
<1> QED BY <1>3, <1>4, OctetViewNext

\* New octets enter the pool.
LEMMA OctetsEnter ==
  ASSUME IInv, OctetView, NEW n \in Nat, Append_octets(n), UNCHANGED sent,
         \A k \in Chan : HeldOf(ch'[k]) = HeldOf(ch[k]) /\ Injective(ch'[k].random)
  PROVE  OctetView'
<1> DEFINE F == Fresh(n)
<1>1. made \in Nat /\ MaxOctets \in Nat /\ pool \in Seq(Octet) /\ made + n <= MaxOctets
      /\ made' = made + n /\ pool' = pool \o F
  BY AssumptionsHold DEF IInv, DataInv, PoolTypeOK, Append_octets, Assumptions
<1>2. F \in Seq(Octet) /\ DOMAIN F = 1 .. n /\ \A k \in 1 .. n : F[k] = made + k
  <2>1. F \in [1 .. n -> Octet]
    BY <1>1 DEF Fresh, Octet
  <2> QED BY <2>1, SeqDef DEF Fresh
<1> HIDE DEF F
<1>3. Injective(F)
  BY <1>1, <1>2 DEF Injective
<1>4. InSeq(F) \subseteq made + 1 .. made + n
  <2> SUFFICES ASSUME NEW k \in 1 .. n PROVE F[k] \in made + 1 .. made + n
    BY <1>2 DEF InSeq
  <2> QED BY <1>1, <1>2
<1>5. \A x \in made + 1 .. made + n : x \notin 1 .. made
  BY <1>1
<1>6. InSeq(pool) \subseteq 1 .. made /\ Injective(pool)
  BY DEF OctetView
<1>7. InSeq(pool) \cap InSeq(F) = {}
  BY <1>4, <1>5, <1>6
<1>8. InSeq(pool') = InSeq(pool) \cup InSeq(F) /\ Injective(pool')
  BY <1>1, <1>2, <1>3, <1>6, <1>7, InSeqConcat
<1>9. 1 .. made \subseteq 1 .. made' /\ made + 1 .. made + n \subseteq 1 .. made'
  BY <1>1
<1>10. InSeq(F) \cap sent = {} /\ \A k \in Chan : HeldOf(ch[k]) \cap InSeq(F) = {}
  BY <1>4, <1>5 DEF OctetView
<1>11. InSeq(pool') \subseteq 1 .. made' /\ sent' \subseteq 1 .. made' /\ InSeq(pool') \cap sent' = {}
  BY <1>4, <1>8, <1>9, <1>10 DEF OctetView
<1>12. \A k \in Chan :
         /\ HeldOf(ch'[k]) \subseteq 1 .. made'
         /\ HeldOf(ch'[k]) \cap (sent' \cup InSeq(pool')) = {}
         /\ \A j \in Chan \ {k} : HeldOf(ch'[k]) \cap HeldOf(ch'[j]) = {}
  BY <1>8, <1>9, <1>10 DEF OctetView
<1> QED BY <1>8, <1>11, <1>12, OctetViewNext

-----------------------------------------------------------------------------
(* Every operation of the daemon is an action of the service, or none.     *)

ServiceStep == [Service!ServiceNext]_(Service!serviceVars)

LEMMA QuietMaps ==
  ASSUME IInv, IInv', UNCHANGED <<pool, made, sent>>,
         \A k \in Chan : HeldOf(ch'[k]) = HeldOf(ch[k]) /\ OwedOf(ch'[k]) = OwedOf(ch[k])
  PROVE  ServiceStep
<1>1. InSeq(pool)' = InSeq(pool) /\ (Octet \ (1 .. made))' = Octet \ (1 .. made)
  BY DEF InSeq, Octet
<1> QED BY <1>1, SameViews DEF ServiceStep, Service!serviceVars

\* A channel that has no request under way holds nothing and is owed nothing.
LEMMA IdleChannel ==
  ASSUME NEW c \in ChanRecord, ChannelShape(c), c.nxt \notin {"GATHER", "WRITE", "CLOSE"}
  PROVE  c.random = <<>> /\ HeldOf(c) = {}
<1>1. c.random = <<>> /\ c.writecnt = 0
  BY DEF ChannelShape
<1>2. Len(c.random) = 0
  BY <1>1
<1> QED BY <1>1, <1>2 DEF HeldOf

LEMMA IdleOwed ==
  ASSUME NEW c, StateShape(c), c.nxt # "GATHER" PROVE OwedOf(c) = 0
  BY DEF StateShape, OwedOf

LEMMA EmptyIsInjective == Injective(<<>>)
  BY DEF Injective

\* The record of one channel changes.
LEMMA OneRecord ==
  ASSUME IInv, OctetView, NEW i \in Chan, \A k \in Chan \ {i} : ch'[k] = ch[k]
  PROVE  /\ OthersAsTheyWere(i)
         /\ \A k \in Chan \ {i} : HeldOf(ch'[k]) = HeldOf(ch[k]) /\ Injective(ch'[k].random)
  BY DEF OthersAsTheyWere, OctetView

\* One channel changes, but neither holds nor is owed anything else.
LEMMA QuietStep ==
  ASSUME IInv, IInv', OctetView, UNCHANGED <<pool, made, sent>>,
         NEW i \in Chan, \A k \in Chan \ {i} : ch'[k] = ch[k],
         HeldOf(ch'[i]) = HeldOf(ch[i]), OwedOf(ch'[i]) = OwedOf(ch[i]),
         Injective(ch'[i].random)
  PROVE  ServiceStep /\ OctetView'
<1>1. /\ OthersAsTheyWere(i)
      /\ \A k \in Chan \ {i} : HeldOf(ch'[k]) = HeldOf(ch[k]) /\ Injective(ch'[k].random)
  BY OneRecord
<1>2. ServiceStep
  BY <1>1, QuietMaps DEF OthersAsTheyWere
<1>3. OctetView'
  <2>1. /\ HeldOf(ch[i]) \cap InSeq(pool) = {} /\ HeldOf(ch[i]) \cap sent = {}
        /\ InSeq(pool) \cap sent = {} /\ Injective(pool)
    BY DEF OctetView
  <2>2. HeldOf(ch'[i]) \cup InSeq(pool') \cup sent' = HeldOf(ch[i]) \cup InSeq(pool) \cup sent
    OBVIOUS
  <2> QED BY <1>1, <2>1, <2>2, OctetsMove
<1> QED BY <1>2, <1>3

\* A channel is closed: what it held is lost.
LEMMA CloseStep ==
  ASSUME IInv, IInv', OctetView, NEW i \in Chan, close_chan(i), UNCHANGED <<pool, made, sent>>
  PROVE  ServiceStep /\ OctetView'
<1>1. \A k \in Chan \ {i} : ch'[k] = ch[k]
  BY TableCloses DEF IInv
<1>2. ch'[i].random = <<>> /\ ch'[i].cur = "CLOSE" /\ ch'[i].writecnt = 0
  BY DEF close_chan, Fresh_chan, IInv, TableInv
<1>3. HeldOf(ch'[i]) = {} /\ OwedOf(ch'[i]) = 0 /\ Injective(ch'[i].random)
  BY <1>2, EmptyIsInjective DEF HeldOf, OwedOf
<1>4. /\ OthersAsTheyWere(i)
      /\ \A k \in Chan \ {i} : HeldOf(ch'[k]) = HeldOf(ch[k]) /\ Injective(ch'[k].random)
  BY <1>1, OneRecord
<1>5. ServiceStep
  BY <1>3, <1>4, HangupMaps DEF ServiceStep, Service!ServiceNext
<1>6. OctetView'
  <2>1. InSeq(pool) \cap sent = {} /\ Injective(pool)
    BY DEF OctetView
  <2>2. HeldOf(ch'[i]) \cup InSeq(pool') \cup sent' \subseteq HeldOf(ch[i]) \cup InSeq(pool) \cup sent
    BY <1>3
  <2> QED BY <1>3, <1>4, <2>1, <2>2, OctetsMove
<1> QED BY <1>5, <1>6

\* gather_client() gives the client what drain_pool() takes out of the pool.
LEMMA GatherStep ==
  ASSUME IInv, IInv', OctetView, NEW i \in Chan, gather_client(i)
  PROVE  ServiceStep /\ OctetView'
<1> DEFINE w      == wanted(i)
           octets == drain_octets(w)
           old    == ch[i].random
           got    == old \o octets
           r      == has_gathered(i, octets)
           S      == InSeq(octets)
<1>1. ch[i] \in ChanRecord /\ ChannelShape(ch[i]) /\ ch \in [Chan -> ChanRecord]
  BY DEF IInv, TableInv
<1>2. UNCHANGED <<made, sent>>
  BY DEF gather_client
<1>3. CASE UNCHANGED tableVars /\ UNCHANGED pool
  <2>1. Injective(ch'[i].random) /\ UNCHANGED ch
    BY <1>3 DEF OctetView, tableVars
  <2> QED BY <1>2, <1>3, <2>1, QuietStep
<1>4. CASE close_client(i) /\ UNCHANGED pool
  BY <1>2, <1>4, CloseStep DEF close_client
<1>5. CASE pool # <<>> /\ ch' = [ch EXCEPT ![i] = r] /\ pool' = drain_rest(w)
  <2>1. /\ ch[i].nxt = "GATHER" /\ ch[i].cur = "GATHER" /\ ch[i].type = "CLIENT"
        /\ ch[i].writecnt = 0 /\ Len(old) < ch[i].request
        /\ old \in Seq(Octet) /\ ch[i].request \in Nat
    BY <1>1, AssumptionsHold DEF gather_client, ChannelShape, ChanRecord, Assumptions
  <2>2. Len(old) \in Nat /\ w \in Nat /\ w > 0 /\ w = ch[i].request - Len(old)
    BY <2>1 DEF wanted
  <2>3. pool \in Seq(Octet) /\ Injective(pool) /\ Injective(old)
    BY DEF IInv, DataInv, PoolTypeOK, OctetView
  <2> HIDE DEF w
  <2>4. /\ octets \in Seq(Octet) /\ Len(octets) = drain_count(w)
        /\ drain_count(w) \in 0 .. Len(pool) /\ drain_count(w) <= w /\ drain_count(w) > 0
    BY <1>5, <2>2, <2>3, DrainProperties
  <2>5. /\ Injective(octets) /\ Injective(drain_rest(w))
        /\ InSeq(octets) \subseteq InSeq(pool)
        /\ InSeq(drain_rest(w)) = InSeq(pool) \ InSeq(octets)
    BY <2>2, <2>3, DrainSets
  <2> HIDE DEF octets
  <2>6. Cardinality(S) = Len(octets) /\ S # {}
    <3>1. Cardinality(S) = Len(octets)
      BY <2>4, <2>5, InSeqCardinality
    <3>2. DOMAIN octets = 1 .. Len(octets) /\ 1 \in 1 .. Len(octets)
      BY <2>3, <2>4
    <3> QED BY <3>1, <3>2 DEF InSeq
  <2>7. got \in Seq(Octet) /\ Len(got) = Len(old) + Len(octets)
    BY <2>1, <2>4, ConcatProperties
  <2>8. InSeq(got) = InSeq(old) \cup S
    BY <2>1, <2>4, InSeqConcat
  <2>9. HeldOf(ch[i]) = InSeq(old)
    <3>1. DOMAIN old = 1 .. Len(old) /\ ch[i].writecnt + 1 = 1
      BY <2>1
    <3> QED BY <3>1 DEF HeldOf, InSeq
  <2>10. Injective(got)
    <3>1. InSeq(old) \cap S = {}
      BY <2>5, <2>9 DEF OctetView
    <3> QED BY <2>1, <2>3, <2>4, <2>5, <3>1, InSeqConcat
  <2>11. OwedOf(ch[i]) = w
    BY <2>1, <2>2 DEF OwedOf
  <2>12. /\ r.random = got /\ r.writecnt = 0 /\ r.request = ch[i].request /\ r.type = "CLIENT"
         /\ r.cur = gather_state(Len(got), ch[i].request)
    BY <1>1, <2>1 DEF has_gathered, ChanRecord
  <2>13. DOMAIN got = 1 .. Len(got)
    BY <2>7
  <2> HIDE DEF old, got, r
  <2>14. HeldOf(r) = InSeq(got)
    BY <2>12, <2>13 DEF HeldOf, InSeq
  <2>15. OwedOf(r) = w - Len(octets)
    <3>1. CASE Len(got) = ch[i].request
      <4>1. r.cur = "WRITE" /\ w - Len(octets) = 0
        BY <2>2, <2>4, <2>7, <2>12, <3>1 DEF gather_state
      <4> QED BY <4>1 DEF OwedOf
    <3>2. CASE Len(got) # ch[i].request
      <4>1. r.cur = "GATHER" /\ r.request - Len(r.random) = w - Len(octets)
        BY <2>1, <2>2, <2>4, <2>7, <2>12, <3>2 DEF gather_state
      <4> QED BY <2>12, <4>1 DEF OwedOf
    <3> QED BY <3>1, <3>2
  <2>16. ch'[i] = r /\ \A k \in Chan \ {i} : ch'[k] = ch[k]
    BY <1>1, <1>5
  <2>17. /\ OthersAsTheyWere(i)
         /\ \A k \in Chan \ {i} : HeldOf(ch'[k]) = HeldOf(ch[k]) /\ Injective(ch'[k].random)
    BY <2>16, OneRecord
  <2>18. InSeq(pool)' = InSeq(pool) \ S
    <3>1. InSeq(pool') = InSeq(pool) \ S
      BY <1>5, <2>5
    <3> QED BY <3>1 DEF InSeq
  <2>19. HeldOf(ch'[i]) = HeldOf(ch[i]) \cup S
    BY <2>8, <2>9, <2>14, <2>16
  <2>20. Service!Give(i)
    <3>1. Cardinality(S) <= OwedOf(ch[i]) /\ OwedOf(ch'[i]) = OwedOf(ch[i]) - Cardinality(S)
      BY <2>4, <2>6, <2>11, <2>15, <2>16
    <3> HIDE DEF S
    <3> QED BY <1>2, <2>5, <2>6, <2>17, <2>18, <2>19, <3>1, GiveMaps DEF S
  <2>21. OctetView'
    <3>1. /\ HeldOf(ch[i]) \cap InSeq(pool) = {} /\ HeldOf(ch[i]) \cap sent = {}
          /\ InSeq(pool) \cap sent = {}
      BY DEF OctetView
    <3>2. InSeq(pool') = InSeq(pool) \ S /\ Injective(pool') /\ Injective(ch'[i].random)
      BY <1>5, <2>5, <2>10, <2>12, <2>16
    <3>3. HeldOf(ch'[i]) \cup InSeq(pool') \cup sent' \subseteq HeldOf(ch[i]) \cup InSeq(pool) \cup sent
      BY <1>2, <2>5, <2>19, <3>2
    <3>4. HeldOf(ch'[i]) \cap InSeq(pool') = {} /\ HeldOf(ch'[i]) \cap sent' = {}
          /\ InSeq(pool') \cap sent' = {}
      BY <1>2, <2>5, <2>19, <3>1, <3>2
    <3> QED BY <1>2, <2>17, <3>2, <3>3, <3>4, OctetsMove
  <2> QED BY <2>20, <2>21 DEF ServiceStep, Service!ServiceNext
<1> QED BY <1>3, <1>4, <1>5 DEF gather_client

\* read_client() makes a request, or leaves the client without one.
LEMMA ReadStep ==
  ASSUME IInv, IInv', StateInv, OctetView, NEW i \in Chan, read_client(i)
  PROVE  ServiceStep /\ OctetView'
<1>1. /\ ch[i] \in ChanRecord /\ ChannelShape(ch[i]) /\ StateShape(ch[i]) /\ ch[i].nxt = "READ"
      /\ ch \in [Chan -> ChanRecord]
  BY DEF IInv, TableInv, StateInv, read_client
<1>2. ch[i].random = <<>> /\ HeldOf(ch[i]) = {} /\ OwedOf(ch[i]) = 0
  BY <1>1, IdleChannel, IdleOwed
<1>3. UNCHANGED <<pool, made, sent>> /\ ch[i].type = "CLIENT"
  BY DEF read_client, poolVars, Dispatch
<1>4. CASE close_client(i)
  BY <1>3, <1>4, CloseStep DEF close_client
<1>5. ASSUME NEW n \in 1 .. MaxRequest, ch' = [ch EXCEPT ![i] = has_asked(i, n)]
      PROVE  ServiceStep /\ OctetView'
  <2> DEFINE r == has_asked(i, n)
  <2>1. r.random = <<>> /\ r.cur = "GATHER" /\ r.type = "CLIENT" /\ r.request = n
        /\ r.writecnt = ch[i].writecnt /\ Len(<<>>) = 0
    BY <1>1, <1>2, <1>3 DEF has_asked, ChanRecord
  <2>2. n \in Nat /\ ch[i].writecnt \in Nat
    BY <1>1, AssumptionsHold DEF ChanRecord, Assumptions
  <2> HIDE DEF r
  <2>3. HeldOf(r) = {} /\ OwedOf(r) = n
    BY <2>1, <2>2 DEF HeldOf, OwedOf
  <2>4. ch'[i] = r /\ \A k \in Chan \ {i} : ch'[k] = ch[k]
    BY <1>1, <1>5 DEF r
  <2>5. /\ OthersAsTheyWere(i)
        /\ \A k \in Chan \ {i} : HeldOf(ch'[k]) = HeldOf(ch[k]) /\ Injective(ch'[k].random)
    BY <2>4, OneRecord
  <2>6. Service!Ask(i)
    BY <1>2, <1>3, <1>5, <2>3, <2>4, <2>5, AskMaps
  <2>7. OctetView'
    <3>1. InSeq(pool) \cap sent = {} /\ Injective(pool) /\ Injective(ch'[i].random)
      BY <2>1, <2>4, EmptyIsInjective DEF OctetView
    <3>2. /\ HeldOf(ch'[i]) \cup InSeq(pool') \cup sent'
               \subseteq HeldOf(ch[i]) \cup InSeq(pool) \cup sent
          /\ HeldOf(ch'[i]) = {}
      BY <1>3, <2>3, <2>4
    <3> QED BY <1>3, <2>5, <3>1, <3>2, OctetsMove
  <2> QED BY <2>6, <2>7 DEF ServiceStep, Service!ServiceNext
<1>6. ASSUME NEW k \in 1 .. read_room(i), ch' = [ch EXCEPT ![i] = has_sent_digits(i, k)]
      PROVE  ServiceStep /\ OctetView'
  <2> DEFINE r == has_sent_digits(i, k)
  <2>1. r.random = <<>> /\ r.cur = "READ" /\ r.writecnt = ch[i].writecnt
    BY <1>1, <1>2 DEF has_sent_digits, ChanRecord
  <2>2. ch[i].writecnt \in Nat /\ Len(<<>>) = 0
    BY <1>1, AssumptionsHold DEF ChanRecord, Assumptions
  <2> HIDE DEF r
  <2>3. HeldOf(r) = {} /\ OwedOf(r) = 0
    BY <2>1, <2>2 DEF HeldOf, OwedOf
  <2>4. ch'[i] = r /\ \A j \in Chan \ {i} : ch'[j] = ch[j]
    BY <1>1, <1>6 DEF r
  <2> QED BY <1>2, <1>3, <2>1, <2>3, <2>4, EmptyIsInjective, QuietStep
<1> QED BY <1>4, <1>5, <1>6 DEF read_client

\* write_client() sends octets that the client holds, from the front.
LEMMA WriteStep ==
  ASSUME IInv, IInv', StateInv, OctetView, NEW i \in Chan, write_client(i)
  PROVE  ServiceStep /\ OctetView'
<1>1. /\ ch[i] \in ChanRecord /\ ChannelShape(ch[i]) /\ StateShape(ch[i]) /\ ch[i].nxt = "WRITE"
      /\ ch \in [Chan -> ChanRecord]
  BY DEF IInv, TableInv, StateInv, write_client
<1>2. UNCHANGED <<pool, made>>
  BY DEF write_client, poolVars
<1>3. CASE close_client(i) /\ UNCHANGED sent
  BY <1>2, <1>3, CloseStep DEF close_client
<1>4. ASSUME NEW k \in 1 .. (ch[i].request - ch[i].writecnt),
             sent' = sent \cup {unsent(i)[n] : n \in 1 .. k},
             ch' = [ch EXCEPT ![i] = has_been_sent(i, k)]
      PROVE  ServiceStep /\ OctetView'
  <2> DEFINE rnd == ch[i].random
             w   == ch[i].writecnt
             l   == Len(rnd)
             S   == {unsent(i)[n] : n \in 1 .. k}
             r   == has_been_sent(i, k)
  <2>1. /\ w \in Nat /\ l \in Nat /\ l = ch[i].request /\ w < l
        /\ rnd \in Seq(Octet) /\ DOMAIN rnd = 1 .. l /\ k \in 1 .. l - w
    <3>1. ch[i].writecnt \in 0 .. MaxRequest /\ ch[i].random \in Seq(Octet) /\ MaxRequest \in Nat
      BY <1>1, AssumptionsHold DEF ChanRecord, Assumptions
    <3>2. Len(rnd) = ch[i].request /\ w < ch[i].request
      BY <1>1 DEF ChannelShape
    <3> QED BY <1>4, <3>1, <3>2
  <2>2. Injective(rnd) /\ OwedOf(ch[i]) = 0
    BY <1>1, IdleOwed DEF OctetView
  <2>3. /\ r.random = rnd /\ r.writecnt = w + k /\ r.cur = ch[i].cur
    BY <1>1 DEF has_been_sent, ChanRecord
  <2>4. OwedOf(r) = 0
    <3>1. ch[i].cur # "GATHER"
      BY <1>1 DEF StateShape
    <3> HIDE DEF r
    <3> QED BY <2>3, <3>1 DEF OwedOf
  <2>5. HeldOf(ch[i]) = {rnd[n] : n \in w + 1 .. l}
    BY DEF HeldOf
  <2>6. HeldOf(r) = {rnd[n] : n \in w + k + 1 .. l}
    <3> HIDE DEF r
    <3> QED BY <2>3 DEF HeldOf
  <2>7. S = {rnd[n] : n \in w + 1 .. w + k}
    <3>1. ASSUME NEW n \in 1 .. k PROVE unsent(i)[n] = rnd[w + n] /\ w + n \in w + 1 .. w + k
      <4> DEFINE m == w + 1
      <4>1. m \in Int /\ l \in Int /\ \A x \in m .. l : rnd[x] \in Octet
        <5> SUFFICES ASSUME NEW x \in m .. l PROVE rnd[x] \in Octet
          BY <2>1
        <5>1. x \in 1 .. Len(rnd)
          BY <2>1
        <5> QED BY <2>1, <5>1, ElementOfSeq
      <4>2. n \in 1 .. l - m + 1 /\ m + n - 1 = w + n
        BY <2>1
      <4> HIDE DEF m
      <4>3. SubSeq(rnd, m, l)[n] = rnd[m + n - 1]
        <5> HIDE DEF rnd, l
        <5> QED BY <4>1, <4>2, SubSeqProperties
      <4>4. w + n \in w + 1 .. w + k
        BY <2>1
      <4> QED BY <4>2, <4>3, <4>4 DEF unsent, m
    <3>2. ASSUME NEW x \in w + 1 .. w + k PROVE rnd[x] \in S
      <4> DEFINE n == x - w
      <4>1. n \in 1 .. k /\ w + n = x
        BY <2>1
      <4> HIDE DEF n
      <4>2. unsent(i)[n] = rnd[x]
        BY <3>1, <4>1
      <4> QED BY <4>1, <4>2
    <3>3. ASSUME NEW n \in 1 .. k PROVE unsent(i)[n] \in {rnd[x] : x \in w + 1 .. w + k}
      BY <3>1
    <3> QED BY <3>2, <3>3
  <2> HIDE DEF S, r
  <2>8. S \subseteq HeldOf(ch[i]) /\ S # {} /\ HeldOf(r) = HeldOf(ch[i]) \ S
    <3> HIDE DEF rnd, w, l
    <3>1. \A n \in w + 1 .. w + k : n \in w + 1 .. l /\ n \in 1 .. l /\ n \notin w + k + 1 .. l
      BY <2>1
    <3>2. \A n \in w + 1 .. l : n \in w + 1 .. w + k \/ n \in w + k + 1 .. l
      BY <2>1
    <3>3. \A n \in w + k + 1 .. l : n \in w + 1 .. l /\ n \in 1 .. l /\ n \notin w + 1 .. w + k
      BY <2>1
    <3>4. w + 1 \in w + 1 .. w + k
      BY <2>1
    <3>5. \A a, b \in 1 .. l : rnd[a] = rnd[b] => a = b
      BY <2>1, <2>2 DEF Injective
    <3>6. S \subseteq HeldOf(ch[i]) /\ S # {}
      BY <2>5, <2>7, <3>1, <3>4
    <3>7. HeldOf(r) \subseteq HeldOf(ch[i]) /\ HeldOf(ch[i]) \subseteq HeldOf(r) \cup S
      BY <2>5, <2>6, <2>7, <3>2, <3>3
    <3>8. HeldOf(r) \cap S = {}
      BY <2>6, <2>7, <3>1, <3>3, <3>5
    <3> QED BY <3>6, <3>7, <3>8
  <2>9. ch'[i] = r /\ (\A j \in Chan \ {i} : ch'[j] = ch[j]) /\ sent' = sent \cup S
    BY <1>1, <1>4 DEF r, S
  <2>10. /\ OthersAsTheyWere(i)
         /\ \A j \in Chan \ {i} : HeldOf(ch'[j]) = HeldOf(ch[j]) /\ Injective(ch'[j].random)
    BY <2>9, OneRecord
  <2>11. Service!Send(i)
    BY <1>2, <2>2, <2>4, <2>8, <2>9, <2>10, SendMaps
  <2>12. OctetView'
    <3>1. /\ HeldOf(ch[i]) \cap InSeq(pool) = {} /\ HeldOf(ch[i]) \cap sent = {}
          /\ InSeq(pool) \cap sent = {} /\ Injective(pool)
      BY DEF OctetView
    <3>2. Injective(ch'[i].random)
      BY <2>2, <2>3, <2>9
    <3>3. HeldOf(ch'[i]) \cup InSeq(pool') \cup sent' \subseteq HeldOf(ch[i]) \cup InSeq(pool) \cup sent
      BY <1>2, <2>8, <2>9
    <3>4. HeldOf(ch'[i]) \cap InSeq(pool') = {} /\ HeldOf(ch'[i]) \cap sent' = {}
          /\ InSeq(pool') \cap sent' = {}
      BY <1>2, <2>8, <2>9, <3>1
    <3> QED BY <1>2, <2>10, <3>1, <3>2, <3>3, <3>4, OctetsMove
  <2> QED BY <2>11, <2>12 DEF ServiceStep, Service!ServiceNext
<1> QED BY <1>3, <1>4 DEF write_client

\* A slot that is taken, and one that has just been set up, hold nothing.
LEMMA SlotHoldsNothing ==
  ASSUME IInv, StateInv, NEW t, NEW j \in SlotFor(t)
  PROVE  j \in Chan /\ HeldOf(ch[j]) = {} /\ OwedOf(ch[j]) = 0
<1>1. /\ j \in Chan
      /\ ch[j].cur \in {"ALLOCED", "CLOSE"} \/ ch[j].type = "NONE"
  BY SlotTaken
<1>2. ch[j] \in ChanRecord /\ ChannelShape(ch[j]) /\ StateShape(ch[j])
  BY <1>1, ChannelsTyped DEF StateInv
<1>3. ch[j].nxt \in {"ALLOCED", "OPEN"}
  BY <1>1, <1>2 DEF StateShape
<1> QED BY <1>1, <1>2, <1>3, IdleChannel, IdleOwed

LEMMA FreshHoldsNothing ==
  ASSUME NEW t, NEW cur, cur # "GATHER", NEW nxt, NEW f
  PROVE  /\ HeldOf(Fresh_chan(t, cur, nxt, f)) = {}
         /\ OwedOf(Fresh_chan(t, cur, nxt, f)) = 0
         /\ Injective(Fresh_chan(t, cur, nxt, f).random)
<1> DEFINE c == Fresh_chan(t, cur, nxt, f)
<1>1. c.random = <<>> /\ c.writecnt = 0 /\ c.cur = cur /\ Len(<<>>) = 0
  BY DEF Fresh_chan
<1> HIDE DEF c
<1>2. HeldOf(c) = {} /\ OwedOf(c) = 0 /\ Injective(c.random)
  BY <1>1, EmptyIsInjective DEF HeldOf, OwedOf
<1> QED BY <1>2 DEF c

\* No channel holds or is owed anything else.
LEMMA QuietSteps ==
  ASSUME IInv, IInv', OctetView, UNCHANGED <<pool, made, sent>>,
         \A k \in Chan : /\ HeldOf(ch'[k]) = HeldOf(ch[k]) /\ OwedOf(ch'[k]) = OwedOf(ch[k])
                         /\ Injective(ch'[k].random)
  PROVE  ServiceStep /\ OctetView'
<1>1. ServiceStep
  BY QuietMaps
<1>2. OctetView'
  BY OctetViewNext DEF OctetView
<1> QED BY <1>1, <1>2

LEMMA SameChannels ==
  ASSUME IInv, IInv', OctetView, UNCHANGED <<ch, pool, made, sent>>
  PROVE  ServiceStep /\ OctetView'
<1>1. \A k \in Chan : /\ HeldOf(ch'[k]) = HeldOf(ch[k]) /\ OwedOf(ch'[k]) = OwedOf(ch[k])
                      /\ Injective(ch'[k].random)
  BY DEF OctetView
<1> QED BY <1>1, QuietSteps

LEMMA AcceptStep ==
  ASSUME IInv, IInv', StateInv, OctetView, NEW i \in Chan, accept_listener(i)
  PROVE  ServiceStep /\ OctetView'
<1>1. /\ ch[i] \in ChanRecord /\ ChannelShape(ch[i]) /\ StateShape(ch[i]) /\ ch[i].nxt = "ACCEPT"
      /\ ch \in [Chan -> ChanRecord] /\ ch[i].type = "LISTENER" /\ ch[i].fd >= 0
      /\ UNCHANGED <<pool, made, sent>>
  BY DEF IInv, TableInv, StateInv, accept_listener, Dispatch, poolVars
<1>2. CASE UNCHANGED tableVars
  BY <1>1, <1>2, SameChannels DEF tableVars
<1>3. ASSUME NEW f \in LowestFree, NEW j \in SlotFor("CLIENT"), NEW lost \in BOOLEAN,
             ch' = [ch EXCEPT ![j] = mk_open_client(f),
                              ![i].cur = IF lost THEN @ ELSE "ACCEPT"]
      PROVE  ServiceStep /\ OctetView'
  <2> DEFINE g == Fresh_chan("CLIENT", "OPEN", "READ", f)
             r == mk_open_client(f)
             l == [ch[i] EXCEPT !.cur = IF lost THEN @ ELSE "ACCEPT"]
  <2>1. j \in Chan /\ j # i /\ HeldOf(ch[j]) = {} /\ OwedOf(ch[j]) = 0
    BY <1>1, SlotIsClosed, SlotHoldsNothing DEF IInv, Type
  <2>2. HeldOf(r) = {} /\ OwedOf(r) = 0 /\ Injective(r.random)
    <3>1. r.random = <<>> /\ r.writecnt = 0 /\ r.cur = "OPEN" /\ Len(<<>>) = 0
      BY DEF mk_open_client, Fresh_chan
    <3> HIDE DEF r
    <3> QED BY <3>1, EmptyIsInjective DEF HeldOf, OwedOf
  <2>3. HeldOf(l) = HeldOf(ch[i]) /\ OwedOf(l) = OwedOf(ch[i]) /\ l.random = ch[i].random
    <3>1. l.random = ch[i].random /\ l.writecnt = ch[i].writecnt /\ l.type = "LISTENER"
      BY <1>1 DEF ChanRecord
    <3> HIDE DEF l
    <3> QED BY <1>1, <3>1 DEF HeldOf, OwedOf
  <2>4. ch'[i] = l /\ ch'[j] = r /\ \A k \in Chan \ {i, j} : ch'[k] = ch[k]
    <3>1. ch' = [ch EXCEPT ![j] = r, ![i] = l]
      BY <1>3, <2>1
    <3> HIDE DEF r, l
    <3> QED BY <1>1, <2>1, <3>1
  <2> HIDE DEF r, l
  <2>5. \A k \in Chan : /\ HeldOf(ch'[k]) = HeldOf(ch[k]) /\ OwedOf(ch'[k]) = OwedOf(ch[k])
                        /\ Injective(ch'[k].random)
    BY <2>1, <2>2, <2>3, <2>4 DEF OctetView
  <2> QED BY <1>1, <2>5, QuietSteps
<1> QED BY <1>2, <1>3 DEF accept_listener

\* mk_open_chaos() and mk_open_listener().
LEMMA OpenStep ==
  ASSUME IInv, IInv', StateInv, OctetView, NEW t, NEW nxt, NEW after, OpenChan(t, nxt, after)
  PROVE  ServiceStep /\ OctetView'
<1>1. PICK j, f, cur, nx :
        /\ j \in SlotFor(t) /\ f \in LowestFree \cup {-1} /\ cur \in {"OPEN", "ALLOCED"}
        /\ ch' = [ch EXCEPT ![j] = Fresh_chan(t, cur, nx, f)]
  BY DEF OpenChan
<1>2. j \in Chan /\ HeldOf(ch[j]) = {} /\ OwedOf(ch[j]) = 0
  BY <1>1, SlotHoldsNothing
<1> DEFINE r == Fresh_chan(t, cur, nx, f)
<1>3. HeldOf(r) = {} /\ OwedOf(r) = 0 /\ Injective(r.random)
  BY <1>1, FreshHoldsNothing
<1>4. ch' = [ch EXCEPT ![j] = r]
  BY <1>1
<1> HIDE DEF r
<1>5. ch'[j] = r /\ \A k \in Chan \ {j} : ch'[k] = ch[k]
  BY <1>2, <1>4 DEF IInv, TableInv
<1>6. UNCHANGED <<pool, made, sent>>
  BY DEF OpenChan, poolVars
<1> QED BY <1>2, <1>3, <1>5, <1>6, QuietStep

\* read_chaos() makes octets, or does not; the chaos channel holds none.
LEMMA ReadChaosStep ==
  ASSUME IInv, IInv', StateInv, OctetView, NEW i \in Chan, read_chaos(i), UNCHANGED sent
  PROVE  ServiceStep /\ OctetView'
<1>1. /\ ch[i] \in ChanRecord /\ ChannelShape(ch[i]) /\ StateShape(ch[i]) /\ ch[i].nxt = "READ"
      /\ ch \in [Chan -> ChanRecord] /\ ch[i].type = "CHAOS"
  BY DEF IInv, TableInv, StateInv, read_chaos, Dispatch
<1>2. ch[i].random = <<>> /\ HeldOf(ch[i]) = {} /\ OwedOf(ch[i]) = 0
  BY <1>1, IdleChannel, IdleOwed
<1>3. ChaosRead(i) \/ ChaosLost(i)
  BY DEF read_chaos, read_driver, read_process
<1>4. \E r : /\ ch' = [ch EXCEPT ![i] = r]
             /\ HeldOf(r) = {} /\ OwedOf(r) = 0 /\ Injective(r.random)
  <2>1. CASE ChaosRead(i)
    <3> DEFINE r == [ch[i] EXCEPT !.cur = "READ", !.nxt = "READ"]
    <3>1. r.random = <<>> /\ r.writecnt = ch[i].writecnt /\ r.cur = "READ"
      BY <1>1, <1>2 DEF ChanRecord
    <3>2. ch' = [ch EXCEPT ![i] = r]
      BY <2>1 DEF ChaosRead
    <3>3. ch[i].writecnt \in Nat /\ Len(<<>>) = 0
      BY <1>1, AssumptionsHold DEF ChanRecord, Assumptions
    <3> HIDE DEF r
    <3>4. HeldOf(r) = {} /\ OwedOf(r) = 0 /\ Injective(r.random)
      BY <3>1, <3>3, EmptyIsInjective DEF HeldOf, OwedOf
    <3> QED BY <3>2, <3>4
  <2>2. CASE ChaosLost(i)
    <3> DEFINE r == Fresh_chan(ch[i].type, "CLOSE", "ALLOCED", -1)
    <3>1. ch' = [ch EXCEPT ![i] = r]
      BY <2>2 DEF ChaosLost, close_chaos, close_chan
    <3>2. HeldOf(r) = {} /\ OwedOf(r) = 0 /\ Injective(r.random)
      BY FreshHoldsNothing
    <3> HIDE DEF r
    <3> QED BY <3>1, <3>2
  <2> QED BY <1>3, <2>1, <2>2
<1>5. PICK r : /\ ch' = [ch EXCEPT ![i] = r]
               /\ HeldOf(r) = {} /\ OwedOf(r) = 0 /\ Injective(r.random)
  BY <1>4
<1>6. ch'[i] = r /\ \A k \in Chan \ {i} : ch'[k] = ch[k]
  BY <1>1, <1>5
<1>7. \A k \in Chan : /\ HeldOf(ch'[k]) = HeldOf(ch[k]) /\ OwedOf(ch'[k]) = OwedOf(ch[k])
                      /\ Injective(ch'[k].random)
  BY <1>2, <1>5, <1>6 DEF OctetView
<1>8. CASE UNCHANGED poolVars
  BY <1>7, <1>8, QuietSteps DEF poolVars
<1>9. ASSUME NEW n \in Nat, n > 0, Append_octets(n) PROVE ServiceStep /\ OctetView'
  <2>1. Service!Make
    BY <1>7, <1>9, MakeMaps
  <2>2. OctetView'
    BY <1>7, <1>9, OctetsEnter
  <2> QED BY <2>1, <2>2 DEF ServiceStep, Service!ServiceNext
<1>10. \A m : \A n \in 1 .. m : n \in Nat /\ n > 0
  OBVIOUS
<1>11. UNCHANGED poolVars \/ \E m : \E n \in 1 .. m : Append_octets(n)
  <2>1. fill_pool_from_chaos \/ fill_pool_from_fd \/ UNCHANGED poolVars
    BY DEF read_chaos, read_driver, read_process
  <2> QED BY <2>1 DEF fill_pool_from_chaos, fill_pool_from_fd
<1> QED BY <1>8, <1>9, <1>10, <1>11

\* The clock of a client holds nothing.
LEMMA SelectStep ==
  ASSUME IInv, IInv', OctetView, Select PROVE ServiceStep /\ OctetView'
<1>1. PICK late \in SUBSET Chan :
        ch' = [i \in Chan |-> IF i \in late THEN [ch[i] EXCEPT !.timeout = "due"] ELSE ch[i]]
  BY DEF Select, open_clients, Made
<1>2. UNCHANGED <<pool, made, sent>>
  BY DEF Select, poolVars
<1>3. ASSUME NEW k \in Chan
      PROVE  /\ HeldOf(ch'[k]) = HeldOf(ch[k]) /\ OwedOf(ch'[k]) = OwedOf(ch[k])
             /\ Injective(ch'[k].random)
  <2>1. ch[k] \in ChanRecord
    BY ChannelsTyped
  <2>2. /\ ch'[k].random = ch[k].random /\ ch'[k].writecnt = ch[k].writecnt
        /\ ch'[k].type = ch[k].type /\ ch'[k].cur = ch[k].cur /\ ch'[k].request = ch[k].request
    BY <1>1, <2>1 DEF ChanRecord
  <2> QED BY <2>2 DEF HeldOf, OwedOf, OctetView
<1> QED BY <1>2, <1>3, QuietSteps

\* The daemon ends: what it has in store and the clients hold is lost.
LEMMA ShutdownStep ==
  ASSUME IInv, IInv', OctetView, Shutdown PROVE ServiceStep /\ OctetView'
<1>1. pool' = <<>> /\ UNCHANGED <<made, sent>>
  BY DEF Shutdown
<1>2. ASSUME NEW k \in Chan
      PROVE  HeldOf(ch'[k]) = {} /\ OwedOf(ch'[k]) = 0 /\ Injective(ch'[k].random)
  <2>1. CASE ch[k].type = "NONE"
    <3>1. ch'[k] = ch[k] /\ ch[k] \in ChanRecord /\ ChannelShape(ch[k])
      BY <2>1, ChannelsTyped DEF Shutdown
    <3>2. ch[k].nxt \notin {"GATHER", "WRITE", "CLOSE"}
      BY <2>1, <3>1 DEF ChannelShape
    <3>3. ch[k].random = <<>> /\ HeldOf(ch[k]) = {}
      BY <3>1, <3>2, IdleChannel
    <3> QED BY <2>1, <3>1, <3>3, EmptyIsInjective DEF OwedOf
  <2>2. CASE ch[k].type # "NONE"
    <3> DEFINE r == Fresh_chan(ch[k].type, "CLOSE", "ALLOCED", -1)
    <3>1. ch'[k] = r
      BY <2>2 DEF Shutdown
    <3>2. HeldOf(r) = {} /\ OwedOf(r) = 0 /\ Injective(r.random)
      BY FreshHoldsNothing
    <3> HIDE DEF r
    <3> QED BY <3>1, <3>2
  <2> QED BY <2>1, <2>2
<1>3. InSeq(pool') = {} /\ Injective(pool')
  BY <1>1, EmptyIsInjective DEF InSeq
<1>4. Service!Stop
  <2> DEFINE none == [k \in Chan |-> {}]
             zero == [k \in Chan |-> 0]
  <2>1. [k \in Chan |-> HeldOf(ch'[k])] = none /\ [k \in Chan |-> OwedOf(ch'[k])] = zero
    BY <1>2
  <2>2. /\ [k \in Chan |-> Held(k)]' = none
        /\ [k \in Chan |-> IF ClientWaits(k) THEN wanted(k) ELSE 0]' = zero
    BY <2>1, ViewsNext
  <2>3. InSeq(pool)' = {} /\ (Octet \ (1 .. made))' = Octet \ (1 .. made)
    BY <1>1, <1>3 DEF InSeq, Octet
  <2> QED BY <1>1, <2>2, <2>3 DEF Service!Stop
<1>5. OctetView'
  BY <1>1, <1>2, <1>3, OctetViewNext DEF OctetView
<1> QED BY <1>4, <1>5 DEF ServiceStep, Service!ServiceNext

LEMMA ServiceSteps ==
  ASSUME IInv, StateInv, OctetView, [Next]_vars PROVE ServiceStep /\ OctetView'
<1>1. IInv'
  BY NextInv
<1>2. CASE mk_open_chaos \/ mk_open_listener
  BY <1>1, <1>2, OpenStep DEF mk_open_chaos, mk_open_listener
<1>3. CASE StartCycle \/ (ReaderTakesFrame /\ UNCHANGED <<sent, count, accepted>>) \/ UNCHANGED vars
  <2>1. UNCHANGED <<ch, pool, made, sent>>
    BY <1>3 DEF StartCycle, ReaderTakesFrame, vars, tableVars, poolVars
  <2> QED BY <1>1, <2>1, SameChannels
<1>4. CASE Select
  BY <1>1, <1>4, SelectStep
<1>5. CASE Shutdown
  BY <1>1, <1>5, ShutdownStep
<1>6. ASSUME NEW i \in Chan, ClientOp(i) PROVE ServiceStep /\ OctetView'
  <2>1. CASE PreCloseClient(i) \/ ExceptClient(i)
    BY <1>1, <2>1, CloseStep DEF PreCloseClient, ExceptClient, close_client, poolVars
  <2> QED BY <1>1, <1>6, <2>1, GatherStep, ReadStep, WriteStep DEF ClientOp
<1>7. ASSUME NEW i \in Chan, ListenerOp(i) PROVE ServiceStep /\ OctetView'
  <2>1. CASE ExceptListener(i)
    BY <1>1, <2>1, CloseStep DEF ExceptListener, poolVars
  <2> QED BY <1>1, <1>7, <2>1, AcceptStep DEF ListenerOp
<1>8. ASSUME NEW i \in Chan, ChaosOp(i), UNCHANGED sent PROVE ServiceStep /\ OctetView'
  <2>1. CASE PreChaos(i)
    BY <1>1, <1>8, <2>1, SameChannels DEF PreChaos, tableVars, poolVars
  <2>2. CASE ExceptChaos(i)
    BY <1>1, <1>8, <2>2, CloseStep DEF ExceptChaos, close_chaos, poolVars
  <2> QED BY <1>1, <1>8, <2>1, <2>2, ReadChaosStep DEF ChaosOp
<1> QED BY <1>2, <1>3, <1>4, <1>5, <1>6, <1>7, <1>8 DEF Next, DaemonStep, Exited

LEMMA OctetNext == IInv /\ StateInv /\ OctetInv /\ [Next]_vars => OctetInv'
<1> SUFFICES ASSUME IInv, StateInv, OctetInv, [Next]_vars PROVE OctetInv'
  OBVIOUS
<1>1. IInv' /\ OctetView
  BY NextInv, OctetViews
<1> QED BY <1>1, ServiceSteps, OctetViewsNext

LEMMA OctetInit == Init => OctetInv
<1> SUFFICES ASSUME Init PROVE OctetInv
  OBVIOUS
<1>1. pool = <<>> /\ made = 0 /\ sent = {} /\ InSeq(pool) = {} /\ Injective(pool)
  BY EmptyIsInjective DEF Init, PoolInit, InSeq
<1>2. ASSUME NEW i \in Chan PROVE HeldOf(ch[i]) = {} /\ Injective(ch[i].random)
  <2> DEFINE r == Fresh_chan("NONE", "ALLOCED", "ALLOCED", -1)
  <2>1. ch[i] = r
    BY DEF Init, EmptyTable
  <2>2. HeldOf(r) = {} /\ Injective(r.random)
    BY FreshHoldsNothing
  <2> HIDE DEF r
  <2> QED BY <2>1, <2>2
<1>3. \A i \in Chan : Held(i) = {}
  BY <1>2, InitInv, Views
<1> QED BY <1>1, <1>2, <1>3 DEF OctetInv, NoOctetTwice

LEMMA OctetInvariance == Spec => []OctetInv
  BY OctetInit, OctetNext, Invariance, StateInvariance, PTL DEF Spec

\* An octet is in one place only: once in the pool, or once among what one
\* client has still to be sent, or it was sent (drain_pool, write_client): for
\* any number of octets, channels and clients.
THEOREM NoOctetIsGivenTwice == Spec => []NoOctetTwice
<1>1. OctetInv => NoOctetTwice
  BY DEF OctetInv
<1> QED BY <1>1, OctetInvariance, PTL

\* The daemon implements the service: each of its operations makes octets, takes
\* a request, gives a client no more than it is owed, sends what a client holds,
\* drops a client, ends, or is none of the service's business.
THEOREM DaemonImplementsService == Spec => ServiceImplemented
<1>1. Init => Service!ServiceInit
  <2> SUFFICES ASSUME Init PROVE Service!ServiceInit
    OBVIOUS
  <2>1. pool = <<>> /\ made = 0 /\ sent = {} /\ InSeq(pool) = {} /\ Octet \ (1 .. made) = Octet
    BY DEF Init, PoolInit, InSeq
  <2>2. \A i \in Chan : HeldOf(ch[i]) = {} /\ OwedOf(ch[i]) = 0
    <3> SUFFICES ASSUME NEW i \in Chan PROVE HeldOf(ch[i]) = {} /\ OwedOf(ch[i]) = 0
      OBVIOUS
    <3> DEFINE r == Fresh_chan("NONE", "ALLOCED", "ALLOCED", -1)
    <3>1. ch[i] = r
      BY DEF Init, EmptyTable
    <3>2. HeldOf(r) = {} /\ OwedOf(r) = 0
      BY FreshHoldsNothing
    <3> HIDE DEF r
    <3> QED BY <3>1, <3>2
  <2>3. /\ [i \in Chan |-> Held(i)] = [i \in Chan |-> {}]
        /\ [i \in Chan |-> IF ClientWaits(i) THEN wanted(i) ELSE 0] = [i \in Chan |-> 0]
    BY <2>2, InitInv, Views
  <2> QED BY <2>1, <2>3 DEF Service!ServiceInit
<1>2. IInv /\ StateInv /\ OctetInv /\ [Next]_vars => [Service!ServiceNext]_(Service!serviceVars)
  BY ServiceSteps, OctetViews DEF ServiceStep
<1> QED
  BY <1>1, <1>2, Invariance, StateInvariance, OctetInvariance, PTL
     DEF Spec, ServiceImplemented, Service!ServiceSpec
=============================================================================
