-------------------------------- MODULE RawIO --------------------------------
(***************************************************************************)
(* Reading, writing and alarms of the library (lib/rawio.c): loops over    *)
(* read() and write() on a pipe or a socket, ended by an alarm.  SIGALRM   *)
(* comes between any two steps; a step is one system call, or a test of    *)
(* lava_ring with what leads to the next call.  The loops that read and    *)
(* the loops that write differ in what ends the data only.                 *)
(***************************************************************************)
EXTENDS Integers

CONSTANTS
  Count,      \* how many octets a call may be asked to move
  MaxReady,   \* bound: octets that can be moved without blocking
  Original,   \* the program's own disposition of SIGALRM: "handler" or "default"
  CallsFail   \* bound: how many setitimer() and sigaction() calls may fail

ASSUME RawIOAssumption ==
  /\ Count \subseteq Nat \ {0} /\ MaxReady \in Nat
  /\ Original \in {"handler", "default"} /\ CallsFail \in Nat

Functions == {"raw", "once", "noblock", "nilblock"}   \* raw_read(), read_once() ...
Selects   == {"noblock", "nilblock"}                  \* those that select() first
Flag      == {"MY_RING", "OLD_RING", "ALARM_ERR"}

VARIABLES
  lava_ring,      \* the flags of the alarm state; {} is LAVA_NO_ALARM
  isalarm, issimple,
  old_timer,      \* the timer before set_alarm(): "invalid", "none" or "app"
  tmp_timer,      \* the same, until set_alarm() is through
  saved,          \* old_sigaction
  handler,        \* kernel: the disposition of SIGALRM
  itimer,         \* kernel: whose timer runs: "off", "mine", "app" or "restored"
  pending,        \* kernel: whose SIGALRM is raised and not delivered
  pc,             \* where the thread is
  io,             \* the locals of the call that reads or writes
  ready, peer, nonblock,  \* the descriptor: octets that do not block, the other end, O_NONBLOCK
  hist            \* history: what the properties need to tell cases apart

alarm  == <<lava_ring, isalarm, issimple, old_timer, tmp_timer, saved>>
kernel == <<handler, itimer, pending>>
fd     == <<ready, peer, nonblock>>
vars   == <<lava_ring, isalarm, issimple, old_timer, tmp_timer, saved, handler, itimer, pending,
            pc, io, ready, peer, nonblock, hist>>

no_io == [fn |-> "raw", write |-> FALSE, chk |-> FALSE, count |-> 1, total |-> 0,
          ret |-> "none", moved |-> 0]

\* failed: system calls for the alarm that failed; simple: a simple alarm was
\* used; missed: the ring came after the last test of lava_ring and before the call;
\* timer: the program has set a timer, and it has not gone off.
no_hist == [failed |-> 0, simple |-> FALSE, missed |-> FALSE, timer |-> FALSE]

Init ==
  /\ lava_ring = {} /\ isalarm = FALSE /\ issimple = FALSE
  /\ old_timer = "invalid" /\ tmp_timer = "invalid" /\ saved = Original
  /\ handler = Original /\ itimer = "off" /\ pending = "none"
  /\ pc = "idle" /\ io = no_io
  /\ ready = 0 /\ peer = "open" /\ nonblock = FALSE
  /\ hist = no_hist

-----------------------------------------------------------------------------
(* The loops that read and write.                                          *)

InCall == {"test", "select", "call", "blocked"}

start_io(fn, write, chk, n) ==
  /\ pc = "idle" /\ pc' = "test"
  /\ io' = [fn |-> fn, write |-> write, chk |-> chk, count |-> n, total |-> 0,
            ret |-> "none", moved |-> 0]
  /\ hist' = [hist EXCEPT !.missed = FALSE]
  /\ UNCHANGED <<alarm, kernel, fd>>

return_io(ret) == pc' = "done" /\ io' = [io EXCEPT !.ret = ret]

\* mutant: the alarm ends the call as if nothing had been moved
alarm_result_bare(total) == "TIMEOUT"

\* What an alarm makes of a call that has moved so many octets.
alarm_result(total) == IF total = 0 THEN "TIMEOUT" ELSE "COUNT"

block_result(total) == IF total = 0 THEN "NONBLOCK" ELSE "COUNT"

\* The test of lava_ring at the head of the loop.
test_ring ==
  /\ pc = "test"
  /\ IF io.chk /\ lava_ring # {} THEN return_io(alarm_result(io.total))
     ELSE pc' = (IF io.fn \in Selects THEN "select" ELSE "call") /\ UNCHANGED io
  /\ UNCHANGED <<alarm, kernel, fd, hist>>

\* What can be done without blocking: octets, or finding the other end closed.
unblocked == ready > 0 \/ peer = "closed"

\* noblock_read() and nilblock_read() look whether the call would block, the one
\* waiting no time and the other next to none.
select ==
  /\ pc = "select"
  /\ IF unblocked THEN pc' = "call" /\ UNCHANGED io
     ELSE return_io(block_result(io.total))
  /\ UNCHANGED <<alarm, kernel, fd, hist>>

\* read() or write() moves n octets.
transfer(n) ==
  /\ ready' = ready - n
  /\ LET total == io.total + n
         done  == total = io.count \/ io.fn = "once"
     IN /\ io' = [io EXCEPT !.total = total, !.moved = @ + n, !.ret = IF done THEN "COUNT" ELSE @]
        /\ pc' = IF done THEN "done" ELSE "test"
  /\ UNCHANGED <<peer, nonblock>>

\* mutant: every call asks for the whole buffer
asked_all(count, total) == count

\* What one system call asks for.
asked(count, total) == count - total

\* The system call returns: with octets, or with the end of the data, which is an
\* error for a write.
call_returns ==
  /\ pc \in {"call", "blocked"}
  /\ \/ \E n \in 1 .. ready : n <= asked(io.count, io.total) /\ transfer(n)
     \/ /\ ready = 0 /\ peer = "closed"
        /\ return_io(IF io.write THEN "IOERR" ELSE "COUNT")
        /\ UNCHANGED fd
  /\ UNCHANGED <<alarm, kernel, hist>>

\* A system call fails, which drops what had been moved.  It may also do so after it
\* has blocked, but no call comes to its end because of that: Spec is not fair to it.
io_error ==
  /\ pc \in {"select", "call", "blocked"} /\ return_io("IOERR")
  /\ UNCHANGED <<alarm, kernel, fd, hist>>

\* It would block: it does, or a descriptor set by noblock_fd() gives EAGAIN.
call_blocks ==
  /\ pc = "call" /\ ~unblocked
  /\ IF nonblock THEN return_io("NONBLOCK") ELSE pc' = "blocked" /\ UNCHANGED io
  /\ UNCHANGED <<alarm, kernel, fd, hist>>

\* The caller has its result.
end_io == /\ pc = "done" /\ pc' = "idle" /\ io' = no_io
          /\ UNCHANGED <<alarm, kernel, fd, hist>>

\* The other end reads or writes, or goes away.
Peer ==
  /\ peer = "open"
  /\ \/ ready < MaxReady /\ ready' = ready + 1 /\ UNCHANGED peer
     \/ peer' = "closed" /\ UNCHANGED ready
  /\ UNCHANGED <<alarm, kernel, pc, io, nonblock, hist>>

noblock_fd == /\ pc = "idle" /\ nonblock' = TRUE
              /\ UNCHANGED <<alarm, kernel, pc, io, ready, peer, hist>>

-----------------------------------------------------------------------------
(* SIGALRM.                                                                *)

\* A timer expires.  A signal that is ignored is not raised.
Expire ==
  /\ itimer # "off" /\ itimer' = "off"
  /\ pending' = IF handler = "ignore" THEN "none" ELSE itimer
  /\ hist' = [hist EXCEPT !.timer = @ /\ itimer = "mine"]
  /\ UNCHANGED <<alarm, handler, pc, io, fd>>

\* my_alarm(): whose alarm went off.  old_timer is invalid until set_alarm() is
\* through, and for as long as only set_simple_alarm() is used.
ring_of(old) == IF old = "invalid" THEN "OLD_RING" ELSE "MY_RING"

\* mutant: SIGALRM restarts the system call (SA_RESTART)
interrupted_not(at) == at

\* A handler interrupts a call that blocks (sa_flags is 0): it goes round its loop.
interrupted(at) == IF at = "blocked" THEN "test" ELSE at

\* The signal is delivered.  The default disposition ends the program.
Deliver ==
  /\ pending # "none" /\ pending' = "none"
  /\ lava_ring' = IF handler = "mine" THEN lava_ring \cup {ring_of(old_timer)} ELSE lava_ring
  /\ pc' = IF handler = "default" THEN "killed" ELSE interrupted(pc)
  /\ hist' = [hist EXCEPT !.missed = @ \/ (pc = "call" /\ handler = "mine")]
  /\ UNCHANGED <<isalarm, issimple, old_timer, tmp_timer, saved, handler, itimer, io, fd>>

\* sigaction(): a signal that is ignored is not pending either.
sigaction(h) == /\ handler' = h
                /\ pending' = IF h = "ignore" THEN "none" ELSE pending

\* A system call of the four functions below fails: they return at once.
call_fails ==
  /\ hist.failed < CallsFail
  /\ hist' = [hist EXCEPT !.failed = @ + 1]
  /\ lava_ring' = lava_ring \cup {"ALARM_ERR"}
  /\ pc' = "idle"

-----------------------------------------------------------------------------
(* set_alarm() and set_simple_alarm().                                     *)

\* The program sets a timer of its own, when it has a handler for it.
AppTimer == /\ pc = "idle" /\ handler = "handler" /\ ~isalarm /\ itimer = "off"
            /\ itimer' = "app" /\ hist' = [hist EXCEPT !.timer = TRUE]
            /\ UNCHANGED <<alarm, handler, pending, pc, io, fd>>

\* set_alarm() with a duration of 0 clears the alarm, but there is none to clear
\* (LAVA_NOSET_ALARM).
set_alarm_nothing ==
  /\ pc = "idle" /\ ~isalarm /\ issimple' = FALSE
  /\ UNCHANGED <<lava_ring, isalarm, old_timer, tmp_timer, saved, kernel, pc, io, fd, hist>>

\* While an alarm is set it does nothing (LAVA_DUP_ALARM).
set_alarm ==
  /\ pc = "idle" /\ ~isalarm
  /\ issimple' = FALSE /\ lava_ring' = {} /\ old_timer' = "invalid"
  /\ pc' = "set_stop"
  /\ UNCHANGED <<isalarm, tmp_timer, saved, kernel, io, fd, hist>>

\* The timer that runs is stopped and remembered.
set_alarm_stop ==
  /\ pc = "set_stop"
  /\ \/ /\ itimer' = "off" /\ tmp_timer' = IF itimer = "off" THEN "none" ELSE "app"
        /\ pc' = "set_ignore" /\ UNCHANGED <<lava_ring, hist>>
     \/ call_fails /\ tmp_timer' = "invalid" /\ UNCHANGED itimer
  /\ UNCHANGED <<isalarm, issimple, old_timer, saved, handler, pending, io, fd>>

\* mutant: SIGALRM is not ignored before it is caught
ignored_first_not == "handler"

\* What SIGALRM is set to before it is caught.
ignored_first == "ignore"

set_alarm_ignore ==
  /\ pc = "set_ignore"
  /\ \/ /\ sigaction(ignored_first) /\ saved' = handler /\ lava_ring' = {}
        /\ pc' = "set_catch" /\ UNCHANGED hist
     \/ call_fails /\ UNCHANGED <<saved, handler, pending>>
  /\ UNCHANGED <<isalarm, issimple, old_timer, tmp_timer, itimer, io, fd>>

set_alarm_catch ==
  /\ pc = "set_catch"
  /\ \/ sigaction("mine") /\ pc' = "set_start" /\ UNCHANGED <<lava_ring, hist>>
     \/ call_fails /\ UNCHANGED <<handler, pending>>
  /\ UNCHANGED <<isalarm, issimple, old_timer, tmp_timer, saved, itimer, io, fd>>

set_alarm_start ==
  /\ pc = "set_start"
  /\ \/ itimer' = "mine" /\ pc' = "set_end" /\ UNCHANGED <<lava_ring, hist>>
     \/ call_fails /\ UNCHANGED itimer
  /\ UNCHANGED <<isalarm, issimple, old_timer, tmp_timer, saved, handler, pending, io, fd>>

\* From here on my_alarm() knows that the alarm is ours.
set_alarm_end ==
  /\ pc = "set_end" /\ pc' = "idle"
  /\ old_timer' = tmp_timer /\ isalarm' = TRUE
  /\ UNCHANGED <<lava_ring, issimple, tmp_timer, saved, kernel, io, fd, hist>>

\* set_simple_alarm(): "Assume there is no existing alarm in effect".
set_simple_alarm ==
  /\ pc = "idle" /\ ~isalarm /\ itimer # "app" /\ pending # "app"
  /\ lava_ring' = {} /\ pc' = "simple_catch"
  /\ hist' = [hist EXCEPT !.simple = TRUE]
  /\ UNCHANGED <<isalarm, issimple, old_timer, tmp_timer, saved, kernel, io, fd>>

set_simple_catch ==
  /\ pc = "simple_catch"
  /\ \/ sigaction("mine") /\ pc' = "simple_start" /\ UNCHANGED <<lava_ring, hist>>
     \/ call_fails /\ UNCHANGED <<handler, pending>>
  /\ UNCHANGED <<isalarm, issimple, old_timer, tmp_timer, saved, itimer, io, fd>>

set_simple_start ==
  /\ pc = "simple_start"
  /\ \/ /\ itimer' = "mine" /\ isalarm' = TRUE /\ issimple' = TRUE /\ pc' = "idle"
        /\ UNCHANGED <<lava_ring, hist>>
     \/ call_fails /\ UNCHANGED <<itimer, isalarm, issimple>>
  /\ UNCHANGED <<old_timer, tmp_timer, saved, handler, pending, io, fd>>

-----------------------------------------------------------------------------
(* clear_alarm() and clear_simple_alarm().  Each calls the other when the  *)
(* alarm is of the other kind.                                             *)

clear_alarm ==
  /\ pc = "idle" /\ isalarm /\ ~issimple
  /\ \/ itimer' = "off" /\ pc' = "clear_ignore" /\ UNCHANGED <<lava_ring, isalarm, hist>>
     \/ call_fails /\ isalarm' = FALSE /\ UNCHANGED itimer
  /\ UNCHANGED <<issimple, old_timer, tmp_timer, saved, handler, pending, io, fd>>

\* mutant: the ring that is raised is kept
ring_dropped_not == "mine"

\* What SIGALRM is set to before it is given back.
ring_dropped == "ignore"

clear_alarm_ignore ==
  /\ pc = "clear_ignore"
  /\ \/ sigaction(ring_dropped) /\ pc' = "clear_handler" /\ UNCHANGED <<lava_ring, hist>>
     \/ call_fails /\ UNCHANGED <<handler, pending>>
  /\ UNCHANGED <<isalarm, issimple, old_timer, tmp_timer, saved, itimer, io, fd>>

clear_alarm_handler ==
  /\ pc = "clear_handler"
  /\ \/ /\ sigaction(saved) /\ isalarm' = FALSE /\ pc' = "clear_timer"
        /\ UNCHANGED <<lava_ring, hist>>
     \/ call_fails /\ UNCHANGED <<handler, pending, isalarm>>
  /\ UNCHANGED <<issimple, old_timer, tmp_timer, saved, itimer, io, fd>>

\* A timer is started again if memcmp() finds the old one equal to no_time: when
\* the program had none.  It then expires almost at once.  A timer the program had
\* is not started again.
clear_alarm_timer ==
  /\ pc = "clear_timer"
  /\ \/ /\ old_timer = "none" /\ old_timer' = "app"
        /\ \/ itimer' = "restored" /\ pc' = "idle" /\ UNCHANGED <<lava_ring, hist>>
           \/ call_fails /\ UNCHANGED itimer
     \/ old_timer # "none" /\ pc' = "idle" /\ UNCHANGED <<lava_ring, old_timer, itimer, hist>>
  /\ UNCHANGED <<isalarm, issimple, tmp_timer, saved, handler, pending, io, fd>>

clear_simple_alarm ==
  /\ pc = "idle" /\ isalarm /\ issimple
  /\ \/ sigaction("ignore") /\ pc' = "clear_simple" /\ UNCHANGED <<lava_ring, hist>>
     \/ call_fails /\ UNCHANGED <<handler, pending>>
  /\ UNCHANGED <<isalarm, issimple, old_timer, tmp_timer, saved, itimer, io, fd>>

clear_simple_stop ==
  /\ pc = "clear_simple" /\ isalarm' = FALSE /\ issimple' = FALSE
  /\ \/ itimer' = "off" /\ pc' = "idle" /\ UNCHANGED <<lava_ring, hist>>
     \/ call_fails /\ UNCHANGED itimer
  /\ UNCHANGED <<old_timer, tmp_timer, saved, handler, pending, io, fd>>

-----------------------------------------------------------------------------
(* The program calls these in any order.                                   *)

io_step == test_ring \/ select \/ call_returns \/ call_blocks \/ end_io

alarm_step ==
  \/ set_alarm_stop \/ set_alarm_ignore \/ set_alarm_catch \/ set_alarm_start \/ set_alarm_end
  \/ set_simple_catch \/ set_simple_start
  \/ clear_alarm_ignore \/ clear_alarm_handler \/ clear_alarm_timer \/ clear_simple_stop

Next ==
  \/ \E f \in Functions, w, c \in BOOLEAN, n \in Count : start_io(f, w, c, n)
  \/ io_step \/ io_error \/ noblock_fd
  \/ set_alarm_nothing \/ set_alarm \/ set_simple_alarm \/ clear_alarm \/ clear_simple_alarm
  \/ alarm_step
  \/ AppTimer
  \/ Peer \/ Expire \/ Deliver

\* The thread goes on with a call it is in, unless it is blocked, and its system
\* calls need not fail; a timer that runs expires and a signal that is raised is delivered.
Spec == Init /\ [][Next]_vars
             /\ WF_vars(io_step \/ alarm_step) /\ WF_vars(Expire) /\ WF_vars(Deliver)
=============================================================================
