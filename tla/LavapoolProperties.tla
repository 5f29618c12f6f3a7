------------------------- MODULE LavapoolProperties -------------------------
(***************************************************************************)
(* What the lavapool daemon is checked for.                                *)
(***************************************************************************)
EXTENDS Lavapool

Injective(s) == \A a, b \in DOMAIN s : s[a] = s[b] => a = b
InSeq(s) == {s[n] : n \in DOMAIN s}
Held(i) == InSeq(unsent(i))

\* A client that has asked and is still to be given octets.
ClientWaits(i) == ch[i].type = "CLIENT" /\ ch[i].cur = "GATHER"

\* The loop runs: start-up is over and the daemon has not ended.
Serving == phase \notin {"boot", "listen", "exit"}

\* Every variable keeps its type (chan.h, the types of the channel records).
TypeOK ==
  /\ PoolTypeOK
  /\ ch \in [Chan -> ChanRecord]
  /\ chanindx \in [Fd -> Chan \cup {UNUSED, SYS}]
  /\ phase \in {"boot", "listen", "first", "top", "preselect", "select", "dispatch", "exit"}
  /\ todo \in SUBSET Chan /\ ready \in SUBSET (Fd \X Cycle)
  /\ timeout \in {"forever", "finite"} /\ toggle \in {0, 1}
  /\ accepted \in 0 .. MaxAccept /\ count \in 0 .. accepted
  /\ driver \in BOOLEAN /\ fast_select \in BOOLEAN
  /\ next_file \in {"off", "later", "due"}
  /\ newfile \in {"none", "part", "frame"} /\ savefile \in {"none", "frame"}
  /\ sent \subseteq Octet

\* chanindx[] and the fd fields of the channels are inverse to each other: no
\* descriptor leads to a channel that has another one or none, and no open
\* channel is unreachable from its descriptor, through every close, accept and
\* reuse of a slot or a descriptor (set_chanindx, clear_chanindx).
DescriptorMap ==
  /\ \A i \in Chan : ch[i].fd >= 0 => chanindx[ch[i].fd] = i
  /\ \A f \in Fd : chanindx[f] >= 0 => ch[chanindx[f]].fd = f

\* What chan_select() has still to dispatch was asked for by the channel that
\* now holds the descriptor: a channel closed or opened earlier in the same
\* pass is never handed the readiness of another, so the do_xxx_op() functions
\* never ignore a cycle.
DispatchIsCurrent ==
  \A p \in ready :
    /\ chanindx[p[1]] \in Chan
    /\ LET c == ch[chanindx[p[1]]]
       IN /\ p[2] = "read" => c.nxt = IF c.type = "LISTENER" THEN "ACCEPT" ELSE "READ"
          /\ p[2] = "write" => c.type = "CLIENT" /\ c.nxt = "WRITE"
          /\ p[2] = "exception" => c.nxt \in {"ACCEPT", "READ", "WRITE"}

\* However connections and closes interleave, no more than maxclients clients
\* are open (the too_many test of chan_select), and no more slots of the table
\* are ever taken for them: closed ones are used again (mk_open_client).
ClientLimit ==
  MaxClients > 0 => /\ Cardinality(open_clients) <= MaxClients
                    /\ Cardinality(Made("CLIENT")) <= MaxClients

\* An octet is in one place only: once in the pool, or once among what one
\* client has still to be sent, or it was sent.  So no two clients, and no
\* client twice, are ever given the same octet (drain_pool, write_client).
NoOctetTwice ==
  /\ Injective(pool)
  /\ InSeq(pool) \cap sent = {}
  /\ \A i \in Chan :
       /\ Injective(ch[i].random)
       /\ Held(i) \cap (sent \cup InSeq(pool)) = {}
       /\ \A j \in Chan \ {i} : Held(i) \cap Held(j) = {}

\* When the daemon goes into select() and a client still waits for octets, the
\* pool is empty and an open chaos channel is asked for, whatever the toggle
\* and the odds are: the wait cannot be for the clients alone, even when the
\* timeout, computed before the pool was drained, is for ever.
WaitingClientIsFed ==
  phase = "select" /\ (\E i \in Chan : ClientWaits(i)) =>
    /\ pool = <<>>
    /\ \A i \in Made("CHAOS") : ch[i].fd >= 0 =>
         \A tg \in {0, 1}, odds \in BOOLEAN :
           "read" \in select_mask(i, next_file, tg, odds)

\* A frame that reaches the disk, whole or in part, adds nothing to the pool
\* (the NOTE on frame_dump: a frame that is written out is never processed).
DumpedFrameIsWithheld ==
  [][ (savefile' # savefile /\ savefile' = "frame")
        \/ (newfile' # newfile /\ newfile' # "none") => pool' = pool ]_vars

\* The daemon implements the service: through all its cycles each octet goes
\* from the pool to at most one client, and a client is sent octets only after
\* it has been given exactly as many as it asked for.
Service == INSTANCE RandomService WITH
  Client <- Chan,
  fresh  <- Octet \ (1 .. made),
  stock  <- InSeq(pool),
  held   <- [i \in Chan |-> Held(i)],
  owed   <- [i \in Chan |-> IF ClientWaits(i) THEN wanted(i) ELSE 0]

ServiceImplemented == Service!ServiceSpec

\* A client that has sent its request is given octets or closed, as long as
\* the chaos source delivers (gather_client, the masks of chan_select).
Served == \A i \in Chan : (Serving /\ ClientWaits(i)) ~> (phase = "exit" \/ ~ClientWaits(i))

-----------------------------------------------------------------------------
(* The inductive invariant of the proofs: what TypeOK, DescriptorMap and       *)
(* DispatchIsCurrent rest on.                                                *)

\* How far a channel is with its octets, by its next state, and that a slot
\* that can be taken holds no descriptor.
ChannelShape(c) ==
  /\ c.nxt \in {"GATHER", "WRITE", "CLOSE"} => c.type = "CLIENT"
  /\ c.nxt = "GATHER" => c.cur = "GATHER" /\ Len(c.random) < c.request /\ c.writecnt = 0
  /\ c.nxt = "WRITE"  => Len(c.random) = c.request /\ c.writecnt < c.request
  /\ c.nxt = "CLOSE"  => Len(c.random) = c.request
  /\ c.nxt \notin {"GATHER", "WRITE", "CLOSE"} => c.random = <<>> /\ c.writecnt = 0
  /\ c.cur \in {"ALLOCED", "CLOSE"} \/ c.type = "NONE" => c.fd = -1

TableInv ==
  /\ ch \in [Chan -> ChanRecord]
  /\ chanindx \in [Fd -> Chan \cup {UNUSED, SYS}]
  /\ \A i \in Chan : ChannelShape(ch[i])
  /\ DescriptorMap

LoopInv ==
  /\ phase \in {"boot", "listen", "first", "top", "preselect", "select", "dispatch", "exit"}
  /\ todo \in SUBSET Chan /\ ready \in SUBSET (Fd \X Cycle)
  /\ timeout \in {"forever", "finite"} /\ toggle \in {0, 1}
  /\ next_file \in {"off", "later", "due"}
  /\ phase # "dispatch" => ready = {}
  /\ \A p, q \in ready : p[1] = q[1] => p = q
  /\ DispatchIsCurrent

DataInv ==
  /\ PoolTypeOK
  /\ accepted \in 0 .. MaxAccept /\ count \in 0 .. accepted
  /\ driver \in BOOLEAN /\ fast_select \in BOOLEAN
  /\ newfile \in {"none", "part", "frame"} /\ savefile \in {"none", "frame"}
  /\ sent \subseteq Octet

IInv == TableInv /\ LoopInv /\ DataInv

\* What a channel does next, by where it is: a slot that can be taken is not
\* half-way through a request.
StateShape(c) ==
  /\ c.cur \in {"ALLOCED", "CLOSE"} \/ c.type = "NONE" => c.nxt \in {"ALLOCED", "OPEN"}
  /\ c.type = "CLIENT" => c.cur # "ACCEPT"
  /\ c.cur = "GATHER" => c.nxt = "GATHER"
  /\ c.type = "CHAOS" /\ c.fd >= 0 => c.nxt = "READ"

StateInv == \A i \in Chan : StateShape(ch[i])

\* There is one listener, and while a connection to it is still to be accepted
\* there is room for a client.
LimitInv ==
  /\ \A i, j \in Made("LISTENER") : i = j
  /\ phase \in {"boot", "listen"} => Made("LISTENER") = {}
  /\ MaxClients > 0 => Cardinality(Made("CLIENT")) <= MaxClients
  /\ \A p \in ready : p[2] = "read" /\ ch[chanindx[p[1]]].type = "LISTENER" => ~too_many

\* The pass before select() has left no client that waits but with an empty pool.
FedInv ==
  /\ phase = "select" => todo = {}
  /\ phase \in {"preselect", "select"} =>
       \A i \in Chan : ClientWaits(i) => i \in todo \/ pool = <<>>

\* Octets are where they are only once, and none of them has yet to be made.
OctetInv ==
  /\ NoOctetTwice
  /\ InSeq(pool) \subseteq 1 .. made /\ sent \subseteq 1 .. made
  /\ \A i \in Chan : Held(i) \subseteq 1 .. made

-----------------------------------------------------------------------------
(* What the documents say, and the code does not do.                       *)

\* README-config: a client that has not submitted a request in timeout seconds
\* is closed.
IdleClientIsClosed ==
  \A i \in Chan :
    (Serving /\ ch[i].type = "CLIENT" /\ ch[i].nxt = "READ" /\ ch[i].timeout = "due")
      ~> (phase = "exit" \/ ch[i].nxt # "READ")

\* chan.h: listener.count is the number of clients accepted on the channel.
AcceptedAreCounted == count = accepted
=============================================================================
