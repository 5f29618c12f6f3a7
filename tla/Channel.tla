------------------------------ MODULE Channel ------------------------------
(***************************************************************************)
(* The channels of the lavapool daemon and the table that leads from a     *)
(* descriptor to its channel (daemon/chan.c, chan.h).  The three types of  *)
(* channel are in Listener, Client and Chaos; Lavapool composes them into  *)
(* the daemon's loop.                                                      *)
(*                                                                         *)
(* Two choices the code makes by rotating a static index, where a pass     *)
(* over the table starts and which of several matching slots find_chan()   *)
(* returns, are any choice here.  HALT is entered only from a state value  *)
(* that is no member of the enum, so it is left out.                       *)
(***************************************************************************)
EXTENDS Pool, FiniteSets

CONSTANTS
  Chan,       \* indices of the channel table
  Fd,         \* file descriptors below getdtablesize()
  SysFd,      \* those already open when alloc_chanindx() runs
  MaxRequest, \* cfg_random.maxrequest
  ReqBufLen,  \* LAVA_REQBUFLEN, the longest request line
  TimeoutSet, \* whether cfg_lavapool.timeout > 0.0
  AllocSet    \* ALLOC_SET, channels the table grows by

ASSUME ChannelAssumption ==
  /\ Chan \subseteq Nat /\ Fd \subseteq Nat /\ SysFd \subseteq Fd
  /\ IsFiniteSet(Chan) /\ IsFiniteSet(Fd)
  /\ MaxRequest \in Nat \ {0} /\ MaxRequest <= PoolSize
  /\ ReqBufLen \in Nat \ {0}
  /\ TimeoutSet \in BOOLEAN
  /\ AllocSet \in Nat \ {0}

VARIABLES
  ch,        \* the channel table
  chanindx,  \* descriptor -> channel index, UNUSED or SYS
  phase,     \* where the main loop is
  todo,      \* channels whose pre-select operation is still to run
  ready,     \* <<descriptor, cycle>>: select() reported it, not yet operated on
  timeout,   \* chan_cycle_timeout: how long the coming select() may wait
  toggle,    \* chan_select()'s alternating flag
  next_file  \* chaos.next_file against about_now: "off", "later" or "due"

tableVars == <<ch, chanindx>>
loopVars  == <<phase, todo, ready, timeout, toggle>>

UNUSED == -1   \* LAVA_UNUSED_FD
SYS    == -2   \* LAVA_SYS_FD

State == {"ALLOCED", "ACCEPT", "OPEN", "READ", "GATHER", "WRITE", "CLOSE"}
Type  == {"NONE", "LISTENER", "CLIENT", "CHAOS"}
Cycle == {"exception", "write", "read"}

\* The fields of listener_s, client_s and chaos_s the daemon's behaviour
\* depends on.  timeout is the client's, against about_now; random holds the
\* octets gathered so far, so gathercnt is its length.
ChanRecord ==
  [type : Type, cur : State, nxt : State, fd : Fd \cup {-1},
   timeout : {"off", "later", "due"}, readcnt : 0 .. ReqBufLen - 1,
   request : 0 .. MaxRequest, random : Seq(Octet), writecnt : 0 .. MaxRequest]

\* A channel of type t in these states on this descriptor, all else cleared.
Fresh_chan(t, cur, nxt, fd) ==
  [type |-> t, cur |-> cur, nxt |-> nxt, fd |-> fd, timeout |-> "off",
   readcnt |-> 0, request |-> 0, random |-> <<>>, writecnt |-> 0]

\* alloc_chan(): a slot of the table that no mk_xxx() has taken yet.
EmptyTable == [i \in Chan |-> Fresh_chan("NONE", "ALLOCED", "ALLOCED", -1)]

\* alloc_chanindx().
EmptyIndex == [f \in Fd |-> IF f \in SysFd THEN SYS ELSE UNUSED]

Made(t) == {i \in Chan : ch[i].type = t}

\* The kernel hands out the lowest descriptor that is free.
LowestFree == {f \in Fd : /\ chanindx[f] = UNUSED
                          /\ \A g \in Fd : chanindx[g] = UNUSED => f <= g}

\* find_chan(): a channel of this type in this current state.
find_chan(t, s) == {i \in Made(t) : ch[i].cur = s}

\* mk_chan(): a slot that was never used.  Which one is only its name, so it is
\* the first here; ChannelTable has the search that finds it.
mk_chan == {i \in Made("NONE") : \A j \in Made("NONE") : i <= j}

\* Where mk_open_xxx() puts a new channel of type t: a closed one, else one
\* made and never opened, else a new one; nowhere when the table is full.
SlotFor(t) ==
  IF find_chan(t, "CLOSE") # {} THEN find_chan(t, "CLOSE")
  ELSE IF find_chan(t, "ALLOCED") # {} THEN find_chan(t, "ALLOCED")
  ELSE mk_chan

\* Taking slot i makes mk_chan() grow the table, which may move it: every slot
\* of the sets allocated so far is taken.
Grows(i) == ch[i].type = "NONE" /\ Cardinality(Chan \ Made("NONE")) % AllocSet = 0

set_chanindx(i, f) == [chanindx EXCEPT ![f] = i]

\* mutant: the descriptor still leads to the closed channel
clear_chanindx_kept(i, f) == chanindx

clear_chanindx(i, f) ==
  IF f \in Fd /\ chanindx[f] = i THEN [chanindx EXCEPT ![f] = UNUSED] ELSE chanindx

\* What close_listener(), close_client() and close_chaos() do to the channel.
\* The fields the next mk_open_client() clears are dead from here on, and are
\* cleared here.
close_chan(i) ==
  /\ ch' = [ch EXCEPT ![i] = Fresh_chan(ch[i].type, "CLOSE", "ALLOCED", -1)]
  /\ chanindx' = clear_chanindx(i, ch[i].fd)

-----------------------------------------------------------------------------
(* The two passes of chan_cycle().                                         *)

\* The pre-select operation of channel i, in the pass over all channels.
PreSelect(i) ==
  /\ phase = "preselect" /\ i \in todo
  /\ todo' = todo \ {i}
  /\ phase' = IF todo = {i} THEN "select" ELSE phase
  /\ UNCHANGED <<ready, toggle>>

\* The operation for cycle c on channel i, of type t, whose descriptor is
\* ready: chan_indx_op().  The do_xxx_op() that follows ignores a cycle that
\* the channel's next state does not ask for: DispatchIsCurrent says that
\* never happens.
Dispatch(i, t, c) ==
  /\ phase = "dispatch"
  /\ ch[i].type = t /\ ch[i].fd >= 0
  /\ \E p \in ready :
       /\ p[1] = ch[i].fd /\ chanindx[p[1]] = i /\ p[2] = c
       /\ ready' = ready \ {p}
       /\ phase' = IF ready = {p} THEN "top" ELSE phase
  /\ UNCHANGED <<todo, timeout, toggle>>

\* about_now = right_now(): the clock may reach a time that was still ahead.
Tick(t) == IF t = "later" THEN {"later", "due"} ELSE {t}
=============================================================================
