------------------------------ MODULE Lavapool ------------------------------
(***************************************************************************)
(* The lavapool daemon: one process that serves random octets to socket    *)
(* clients (daemon/lavapool.c and the loop of daemon/chan.c).              *)
(*                                                                         *)
(* The daemon is a single loop.  Each turn of it, chan_cycle(), runs the   *)
(* pre-select operation of every channel, then select()s on the            *)
(* descriptors the channels ask for, then runs one operation per ready     *)
(* descriptor.  The kernel, the clients and the camera are free: what      *)
(* select() reports and what each system call returns are chosen by \E.    *)
(***************************************************************************)
EXTENDS Listener, Chaos

CONSTANTS
  MaxClients,    \* cfg_lavapool.maxclients, 0 for no limit
  RunTime,       \* whether -t gave the daemon an end time
  MaxReady       \* bound: descriptors one select() reports

ASSUME LavapoolAssumption ==
  /\ MaxClients \in Nat /\ RunTime \in BOOLEAN /\ MaxReady \in Nat \ {0}

vars == <<tableVars, loopVars, next_file, sent, count, accepted, chaosVars, poolVars>>

-----------------------------------------------------------------------------
(* Start-up, the part of main() before the loop.                           *)

Init ==
  /\ PoolInit
  /\ ch = EmptyTable /\ chanindx = EmptyIndex
  /\ phase = "boot" /\ todo = {} /\ ready = {} /\ timeout = "finite" /\ toggle = 0
  /\ count = 0 /\ accepted = 0
  /\ driver \in Drivers
  /\ fast_select = FALSE /\ next_file = "off"
  /\ newfile = "none" /\ savefile = "none"
  /\ sent = {}

\* mk_open_chaos() or mk_open_listener(): the channel gets a descriptor and
\* waits in OPEN, or cannot be opened and the daemon ends with fatal().
OpenChan(t, nxt, after) ==
  /\ \E i \in SlotFor(t) :
       \/ \E f \in LowestFree :
            /\ ch' = [ch EXCEPT ![i] = Fresh_chan(t, "OPEN", nxt, f)]
            /\ chanindx' = set_chanindx(i, f)
            /\ phase' = after
       \/ /\ ch' = [ch EXCEPT ![i] = Fresh_chan(t, "ALLOCED", "OPEN", -1)]
          /\ phase' = "exit"
          /\ UNCHANGED chanindx
  /\ UNCHANGED <<todo, ready, timeout, toggle, count, accepted, sent, poolVars>>

mk_open_chaos ==
  /\ phase = "boot"
  /\ OpenChan("CHAOS", "READ", "listen")
  /\ next_file' = IF willing_to_frame_dump THEN "later" ELSE "off"
  /\ UNCHANGED chaosVars

mk_open_listener ==
  /\ phase = "listen"
  /\ OpenChan("LISTENER", "ACCEPT", "first")
  /\ UNCHANGED <<next_file, chaosVars>>

-----------------------------------------------------------------------------
(* chan_cycle(), up to select().                                           *)

\* timeout_value(): a full pool means select() may wait for ever.
timeout_value == IF pool_rate_factor = "full" THEN "forever" ELSE "finite"

preselect_ready(i) ==
  \/ ch[i].type = "CLIENT" /\ ch[i].nxt \in client_preselect_ready
  \/ ch[i].type = "CHAOS"  /\ ch[i].nxt \in chaos_preselect_ready

StartCycle ==
  /\ phase \in {"first", "top"}
  /\ timeout' = timeout_value
  /\ todo' = {i \in Chan : preselect_ready(i)}
  /\ phase' = IF todo' = {} THEN "select" ELSE "preselect"
  /\ UNCHANGED <<tableVars, ready, toggle, next_file, sent, count, accepted, chaosVars,
                 poolVars>>

-----------------------------------------------------------------------------
(* chan_select().                                                          *)

\* mutant: one client too many
too_many_late == MaxClients > 0 /\ Cardinality(open_clients) > MaxClients

too_many == MaxClients > 0 /\ Cardinality(open_clients) >= MaxClients

\* mutant: an empty pool is filled no faster than a half empty one
want_chaos_no_fast(i, nf, tg, odds) ==
  \/ ready_to_frame_dump(i, nf)
  \/ fast_select /\ pool_rate_factor # "full"
  \/ pool_rate_factor \in {"fast", "medium"} /\ (tg = 1 \/ odds)
  \/ pool_rate_factor = "slow" /\ tg = 1

\* Whether the chaos channel is asked for, when the toggle is tg and next_file
\* stands at nf: odds tells whether fill_speed > fnv_seq().
want_chaos(i, nf, tg, odds) ==
  \/ ready_to_frame_dump(i, nf)
  \/ fast_select /\ pool_rate_factor # "full"
  \/ pool_rate_factor = "fast"
  \/ pool_rate_factor = "medium" /\ (tg = 1 \/ odds)
  \/ pool_rate_factor = "slow" /\ tg = 1

\* What select() is asked to report of channel i.
select_mask(i, nf, tg, odds) ==
  IF ch[i].fd < 0 THEN {}
  ELSE IF ch[i].type = "LISTENER" THEN listener_select_mask(i, too_many)
  ELSE IF ch[i].type = "CLIENT" THEN client_select_mask(i)
  ELSE IF want_chaos(i, nf, tg, odds) THEN chaos_select_mask(i)
  ELSE {}

Asked(nf, tg, odds) == UNION {{ch[i].fd} \X select_mask(i, nf, tg, odds) : i \in Chan}

\* mutant: every cycle a descriptor is ready for is operated on
Reports_all_cycles(asked) ==
  {r \in SUBSET asked :
     /\ Cardinality(r) <= MaxReady
     /\ ChaosFails \/ \A p \in r : p[2] = "exception" => ch[chanindx[p[1]]].type # "CHAOS"}

\* What select() may report of that.  Of a descriptor that is ready for more
\* than one cycle only the first of exception, write and read is operated on.
Reports(asked) ==
  {r \in SUBSET asked :
     /\ Cardinality(r) <= MaxReady
     /\ \A p, q \in r : p[1] = q[1] => p = q
     /\ ChaosFails \/ \A p \in r : p[2] = "exception" => ch[chanindx[p[1]]].type # "CHAOS"}

\* An empty request is given IDLE_TIMEOUT, so it always returns.
Select ==
  /\ phase = "select"
  /\ toggle' = 1 - toggle
  /\ next_file' \in Tick(next_file)
  /\ \E late \in SUBSET {i \in open_clients : ch[i].timeout = "later"}, odds \in BOOLEAN :
       LET asked == Asked(next_file', toggle', odds)
       IN /\ ready' \in Reports(asked)
          /\ ready' = {} => timeout = "finite" \/ asked = {}
          /\ phase' = IF ready' = {} THEN "top" ELSE "dispatch"
          /\ ch' = [i \in Chan |-> IF i \in late THEN [ch[i] EXCEPT !.timeout = "due"]
                                   ELSE ch[i]]
  /\ UNCHANGED <<chanindx, todo, timeout, sent, count, accepted, chaosVars, poolVars>>

-----------------------------------------------------------------------------
\* The end time has come: chan_close(), free_pool() and the end of main().
Shutdown ==
  /\ RunTime /\ phase = "top"
  /\ phase' = "exit"
  /\ ch' = [i \in Chan |-> IF ch[i].type = "NONE" THEN ch[i]
                           ELSE Fresh_chan(ch[i].type, "CLOSE", "ALLOCED", -1)]
  /\ chanindx' = [f \in Fd |-> IF chanindx[f] = SYS THEN SYS ELSE UNUSED]
  /\ driver' = FALSE
  /\ pool' = <<>>
  /\ UNCHANGED <<todo, ready, timeout, toggle, next_file, sent, count, accepted, frameVars,
                 made>>

Exited == phase = "exit" /\ UNCHANGED vars

DaemonStep ==
  \/ mk_open_chaos
  \/ mk_open_listener
  \/ StartCycle
  \/ Select
  \/ \E i \in Chan :
       \/ ClientOp(i)   /\ UNCHANGED <<count, accepted, chaosVars>>
       \/ ListenerOp(i) /\ UNCHANGED chaosVars
       \/ ChaosOp(i)    /\ UNCHANGED <<sent, count, accepted>>

Next ==
  \/ DaemonStep
  \/ ReaderTakesFrame /\ UNCHANGED <<sent, count, accepted>>
  \/ Shutdown
  \/ Exited

Spec == Init /\ [][Next]_vars

-----------------------------------------------------------------------------
(* Fairness.  The loop never stops of its own accord: a daemon step waits  *)
(* for nothing but a select() without a timeout.  For the second form, the *)
(* chaos source delivers: asked for again and again, it is reported        *)
(* readable, and one of its frames makes octets.                           *)

LoopStep == DaemonStep /\ ~(phase = "select" /\ timeout = "forever")

ChaosReported ==
  Select /\ \E p \in ready' : p[2] = "read" /\ ch[chanindx[p[1]]].type = "CHAOS"

ChaosDelivers == DaemonStep /\ made' > made

FairLoop == WF_vars(LoopStep)
FairChaos == SF_vars(ChaosReported) /\ SF_vars(ChaosDelivers)

FairSpec == Spec /\ FairLoop
FairChaosSpec == Spec /\ FairLoop /\ FairChaos
=============================================================================
