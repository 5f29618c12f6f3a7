--------------------------- MODULE RawIOProperties ---------------------------
(* What the I/O loops and the alarms of the library guarantee: see RawIO.   *)
EXTENDS RawIO

Dispositions == {"handler", "default", "ignore", "mine"}

\* The types of the alarm state and of the locals of the loops
\* (lib/rawio.c:59, :73, :120).
TypeOK ==
  /\ lava_ring \subseteq Flag /\ isalarm \in BOOLEAN /\ issimple \in BOOLEAN
  /\ {old_timer, tmp_timer} \subseteq {"invalid", "none", "app"}
  /\ {saved, handler} \subseteq Dispositions
  /\ itimer \in {"off", "mine", "app", "restored"}
  /\ pending \in {"none", "mine", "app", "restored"}
  /\ pc \in InCall \cup
            {"idle", "done", "killed", "set_stop", "set_ignore", "set_catch", "set_start", "set_end",
             "simple_catch", "simple_start",
             "clear_ignore", "clear_handler", "clear_timer", "clear_simple"}
  /\ io.fn \in Functions /\ io.write \in BOOLEAN /\ io.chk \in BOOLEAN
  /\ io.count \in Count \cup {1} /\ io.total \in 0 .. io.count /\ io.moved \in 0 .. io.count
  /\ io.ret \in {"none", "COUNT", "TIMEOUT", "NONBLOCK", "IOERR"}
  /\ ready \in 0 .. MaxReady /\ peer \in {"open", "closed"} /\ nonblock \in BOOLEAN
  /\ hist.failed \in 0 .. CallsFail /\ {hist.simple, hist.missed, hist.timer} \subseteq BOOLEAN

\* However signals and the other end interleave with the loop, what a call says
\* it moved is what was moved, and a call that timed out or would have blocked has
\* moved nothing ("If chk_alarm and we detect a lava_ring we will simply return the
\* current I/O count", lib/rawio.c:107).  Only an error of a system call drops octets,
\* and raw_read() or read_once() of a descriptor set by noblock_fd().
ResultTellsOctets ==
  pc = "done" =>
    \/ io.ret = "COUNT" /\ io.total = io.moved
    \/ io.ret \in {"TIMEOUT", "NONBLOCK"} /\ io.moved = 0
    \/ io.ret = "NONBLOCK" /\ nonblock /\ io.fn \notin Selects
    \/ io.ret = "IOERR"

\* An alarm the program had set before set_alarm() is never taken for ours: what
\* my_alarm() notes as our ring comes of a timer of the library, even when the old
\* alarm goes off while set_alarm() changes the timer and the handler step by step
\* ("We distinguish between our internal and the previous interval",
\* lib/rawio.c:1391).
MyRingIsMine ==
  [][pending = "app" /\ "MY_RING" \notin lava_ring => "MY_RING" \notin lava_ring']_vars

\* When no alarm is set, and no system call failed, SIGALRM is not caught by
\* my_alarm(), so no signal changes lava_ring any more; the alarm that was set, even
\* one that goes off while it is cleared, does not reach the program; and a program
\* that used set_alarm() only has its own disposition back (lib/rawio.c:1248, :1351).
\* The timer is another matter: TimerIsGivenBack.
HandlerIsGivenBack ==
  pc = "idle" /\ ~isalarm /\ hist.failed = 0 =>
    /\ handler # "mine" /\ "mine" \notin {itimer, pending}
    /\ hist.simple \/ handler = Original

\* "restore old alarm state", "so that the previous alarm state can be restored",
\* "restore the old timer, if it was set" (lib/rawio.c:1203, :1209, :1279): when no
\* alarm is set, no system call failed and no simple alarm was used, a timer runs if
\* and only if the program has set one that has not gone off.
TimerIsGivenBack ==
  pc = "idle" /\ ~isalarm /\ hist.failed = 0 /\ ~hist.simple =>
    (itimer # "off" <=> hist.timer)

\* A call that heeds the alarm ends once one is set, though the other end does
\* nothing: the signal interrupts it, or the test finds it.  The exception is a
\* ring between the last test and the system call, which then blocks for good; a
\* call ended before its alarm is another matter (lib/rawio.c:138).
TimedCallEnds ==
  pc \in InCall /\ io.chk /\ isalarm ~> pc \notin InCall \/ hist.missed

-----------------------------------------------------------------------------
(* What is proved inductive in RawIOProofs.                                *)

Idle    == {"idle", "done"} \cup InCall
Setting == {"set_stop", "set_ignore", "set_catch", "set_start", "set_end",
            "simple_catch", "simple_start"}
Clearing == {"clear_ignore", "clear_handler", "clear_timer", "clear_simple"}

\* The types, as those of whole records.
AlarmTypes ==
  /\ lava_ring \subseteq Flag
  /\ old_timer \in {"invalid", "none", "app"} /\ tmp_timer \in {"invalid", "none", "app"}
  /\ saved \in Dispositions /\ handler \in Dispositions
  /\ itimer \in {"off", "mine", "app", "restored"}
  /\ pending \in {"none", "mine", "app", "restored"}

IOTypes ==
  /\ io \in [fn: Functions, write: BOOLEAN, chk: BOOLEAN, count: Count \cup {1}, total: Nat,
             ret: {"none", "COUNT", "TIMEOUT", "NONBLOCK", "IOERR"}, moved: Nat]
  /\ ready \in 0 .. MaxReady /\ peer \in {"open", "closed"} /\ nonblock \in BOOLEAN

Types ==
  /\ AlarmTypes /\ IOTypes /\ isalarm \in BOOLEAN /\ issimple \in BOOLEAN
  /\ pc \in Idle \cup Setting \cup Clearing \cup {"killed"}
  /\ hist \in [failed: 0 .. CallsFail, simple: BOOLEAN, missed: BOOLEAN, timer: BOOLEAN]

\* What has been counted has been moved; a call after select() does not block.
ResultInv ==
  /\ io.total = io.moved /\ io.total <= io.count
  /\ pc \in {"select", "blocked"} => (io.fn \in Selects <=> pc = "select")
  /\ pc = "call" /\ io.fn \in Selects => unblocked
  /\ ResultTellsOctets

\* While the program's own timer runs, or its signal is raised, no alarm is set and
\* the program has its own handler.
AppInv ==
  itimer = "app" \/ pending = "app" =>
    /\ handler = "handler" /\ ~isalarm
    /\ pc \in Idle \cup {"set_stop", "set_ignore", "killed"}
    /\ itimer = "app" => pc # "set_ignore"

\* A disposition the program may be left with.
Given(h) == h # "mine" /\ (hist.simple \/ h = Original)

\* Where the program's disposition and the timer are, in each step of the four
\* functions, when no system call has failed.
GivenInv ==
  hist.failed = 0 =>
    /\ pc \in Idle \cup {"set_stop", "set_ignore"} /\ ~isalarm =>
         Given(handler) /\ itimer # "mine" /\ pending # "mine"
    /\ pc \in {"set_catch", "set_start", "set_end", "clear_ignore", "clear_handler"} => Given(saved)
    /\ isalarm /\ ~issimple => Given(saved)
    /\ pc \in {"clear_ignore", "clear_handler", "clear_timer"} => itimer = "off"
    /\ pc = "clear_timer" => Given(handler)
    /\ pc = "clear_simple" => handler = "ignore"
    /\ pc \in {"clear_handler", "clear_timer", "clear_simple"} => pending # "mine"
    /\ pc \in {"clear_simple", "simple_catch", "simple_start"} \/ issimple => hist.simple
    /\ pc \in Setting \cup {"clear_timer"} => ~isalarm

IInv == Types /\ ResultInv /\ AppInv /\ GivenInv
=============================================================================
