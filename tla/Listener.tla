------------------------------ MODULE Listener ------------------------------
(***************************************************************************)
(* The listening socket of the lavapool daemon (daemon/listener.c).        *)
(***************************************************************************)
EXTENDS Client

CONSTANTS
  MaxAccept     \* bound: connections ever accepted

ASSUME ListenerAssumption == MaxAccept \in Nat

VARIABLES
  count,    \* listener.count
  accepted  \* history: client channels opened

\* listener_select_mask(); chan_select() passes no read mask when there are
\* too many clients.
listener_select_mask(i, too_many) ==
  {c \in Cycle : /\ ch[i].nxt = "ACCEPT"
                 /\ c = "exception" \/ (c = "read" /\ ~too_many)}

\* accept_listener().  After mk_chan() has moved the table its pointer is
\* stale: what it then stores, the count and its own new state, may be lost
\* with the old table.
accept_listener(i) ==
  /\ Dispatch(i, "LISTENER", "read")
  /\ ch[i].nxt = "ACCEPT"
  /\ \/ UNCHANGED <<tableVars, count, accepted>>   \* accept() or noblock_fd() fails, no slot
     \/ /\ accepted < MaxAccept
        /\ accepted' = accepted + 1
        /\ \E f \in LowestFree, j \in SlotFor("CLIENT"), lost \in BOOLEAN :
             /\ lost => Grows(j)
             /\ chanindx' = set_chanindx(j, f)
             /\ ch' = [ch EXCEPT ![j] = mk_open_client(f),
                                 ![i].cur = IF lost THEN @ ELSE "ACCEPT"]
             /\ count' = IF lost THEN count ELSE count + 1
  /\ next_file' \in Tick(next_file)
  /\ UNCHANGED <<sent, poolVars>>

\* close_listener() on a select exception.
ExceptListener(i) ==
  /\ Dispatch(i, "LISTENER", "exception")
  /\ ch[i].nxt = "ACCEPT"
  /\ close_chan(i)
  /\ UNCHANGED <<next_file, count, accepted, sent, poolVars>>

ListenerOp(i) == accept_listener(i) \/ ExceptListener(i)
=============================================================================
