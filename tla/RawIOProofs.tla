----------------------------- MODULE RawIOProofs -----------------------------
(***************************************************************************)
(* What the I/O loops and the alarms of the library guarantee, for every   *)
(* length of a call and any number of system calls that fail.  An action   *)
(* is a step of the loops or a step of the alarm functions (or a signal),  *)
(* and each kind leaves the state of the other alone.                      *)
(***************************************************************************)
EXTENDS RawIOProperties, TLAPS

start_any == \E f \in Functions, w, c \in BOOLEAN, n \in Count : start_io(f, w, c, n)

\* The steps of the loops, and those of the alarm functions.
IOStep    == start_any \/ io_step \/ io_error \/ noblock_fd \/ Peer
AlarmStep == \/ set_alarm_nothing \/ set_alarm \/ set_simple_alarm
             \/ clear_alarm \/ clear_simple_alarm \/ alarm_step \/ AppTimer

LEMMA StepKinds ==
  ASSUME [Next]_vars
  PROVE  IOStep \/ AlarmStep \/ Expire \/ Deliver \/ UNCHANGED vars
BY DEF Next, IOStep, AlarmStep, start_any

\* A step of the loops leaves the alarm alone, and goes from one place of the
\* loops to another.
LEMMA IOLeavesAlarm ==
  ASSUME Types, IOStep
  PROVE  /\ UNCHANGED <<lava_ring, isalarm, issimple, old_timer, tmp_timer, saved>>
         /\ UNCHANGED <<handler, itimer, pending>>
         /\ hist' \in [failed: 0 .. CallsFail, simple: BOOLEAN, missed: BOOLEAN, timer: BOOLEAN]
         /\ hist'.failed = hist.failed /\ hist'.simple = hist.simple
         /\ pc' = pc \/ (pc \in Idle /\ pc' \in Idle)
<1>1. CASE start_any
  BY <1>1 DEF start_any, start_io, Types, alarm, kernel, Idle, InCall
<1>2. CASE test_ring
  BY <1>2 DEF test_ring, return_io, Types, alarm, kernel, Idle, InCall
<1>3. CASE select
  BY <1>3 DEF select, return_io, Types, alarm, kernel, Idle, InCall
<1>4. CASE call_returns
  BY <1>4 DEF call_returns, transfer, asked, return_io, Types, alarm, kernel, fd, Idle, InCall
<1>5. CASE call_blocks
  BY <1>5 DEF call_blocks, return_io, Types, alarm, kernel, Idle, InCall
<1>6. CASE end_io
  BY <1>6 DEF end_io, Types, alarm, kernel, Idle
<1>7. CASE noblock_fd
  BY <1>7 DEF noblock_fd, Types, alarm, kernel
<1>8. CASE io_error
  BY <1>8 DEF io_error, return_io, Types, alarm, kernel, Idle, InCall
<1>9. CASE Peer
  BY <1>9 DEF Peer, Types, alarm, kernel
<1> QED
  BY <1>1, <1>2, <1>3, <1>4, <1>5, <1>6, <1>7, <1>8, <1>9 DEF IOStep, io_step

\* A step of the alarm functions leaves the descriptor and the locals of the loops
\* alone, and goes to no place within a loop.
LEMMA AlarmLeavesIO ==
  ASSUME Types, AlarmStep
  PROVE  /\ UNCHANGED <<io, ready, peer, nonblock>>
         /\ pc' = pc \/ pc' \in {"idle"} \cup Setting \cup Clearing
<1>1. CASE set_alarm_nothing
  BY <1>1 DEF set_alarm_nothing, fd
<1>2. CASE set_alarm
  BY <1>2 DEF set_alarm, fd, Setting
<1>3. CASE set_simple_alarm
  BY <1>3 DEF set_simple_alarm, fd, Setting
<1>4. CASE clear_alarm
  BY <1>4 DEF clear_alarm, call_fails, fd, Clearing
<1>5. CASE clear_simple_alarm
  BY <1>5 DEF clear_simple_alarm, call_fails, fd, Clearing
<1>6. CASE set_alarm_stop
  BY <1>6 DEF set_alarm_stop, call_fails, fd, Setting
<1>7. CASE set_alarm_ignore
  BY <1>7 DEF set_alarm_ignore, call_fails, fd, Setting
<1>8. CASE set_alarm_catch
  BY <1>8 DEF set_alarm_catch, call_fails, fd, Setting
<1>9. CASE set_alarm_start
  BY <1>9 DEF set_alarm_start, call_fails, fd, Setting
<1>10. CASE set_alarm_end
  BY <1>10 DEF set_alarm_end, fd
<1>11. CASE set_simple_catch
  BY <1>11 DEF set_simple_catch, call_fails, fd, Setting
<1>12. CASE set_simple_start
  BY <1>12 DEF set_simple_start, call_fails, fd
<1>13. CASE clear_alarm_ignore
  BY <1>13 DEF clear_alarm_ignore, call_fails, fd, Clearing
<1>14. CASE clear_alarm_handler
  BY <1>14 DEF clear_alarm_handler, call_fails, fd, Clearing
<1>15. CASE clear_alarm_timer
  BY <1>15 DEF clear_alarm_timer, call_fails, fd
<1>16. CASE clear_simple_stop
  BY <1>16 DEF clear_simple_stop, call_fails, fd
<1>17. CASE AppTimer
  BY <1>17 DEF AppTimer, fd
<1> QED
  BY <1>1, <1>2, <1>3, <1>4, <1>5, <1>6, <1>7, <1>8, <1>9, <1>10, <1>11, <1>12, <1>13, <1>14,
     <1>15, <1>16, <1>17 DEF AlarmStep, alarm_step

-----------------------------------------------------------------------------
(* Types and results.                                                      *)

LEMMA InitInv ==
  ASSUME Init
  PROVE  IInv
<1>1. AlarmTypes
  BY RawIOAssumption DEF Init, AlarmTypes, Dispositions
<1>2. IOTypes
  <2>1. no_io \in [fn: Functions, write: BOOLEAN, chk: BOOLEAN, count: Count \cup {1}, total: Nat,
                   ret: {"none", "COUNT", "TIMEOUT", "NONBLOCK", "IOERR"}, moved: Nat]
    BY DEF no_io, Functions
  <2>2. ready \in 0 .. MaxReady
    BY RawIOAssumption DEF Init
  <2> QED
    BY <2>1, <2>2, Zenon DEF Init, IOTypes
<1>5. Types
  <2>1. no_hist \in [failed: 0 .. CallsFail, simple: BOOLEAN, missed: BOOLEAN, timer: BOOLEAN]
    BY RawIOAssumption DEF no_hist
  <2> QED
    BY <1>1, <1>2, <2>1 DEF Init, Types, Idle
<1>3. ResultInv /\ AppInv
  BY DEF Init, ResultInv, ResultTellsOctets, AppInv, no_io
<1>4. GivenInv
  BY RawIOAssumption DEF Init, GivenInv, Given
<1> QED
  BY <1>3, <1>4, <1>5 DEF IInv

LEMMA IOKeepsTypes ==
  ASSUME Types, ResultInv, IOStep
  PROVE  Types' /\ ResultInv'
<1> USE RawIOAssumption
<1>a. AlarmTypes' /\ isalarm' \in BOOLEAN /\ issimple' \in BOOLEAN /\ pc' \in Idle \cup Setting \cup Clearing \cup {"killed"}
  BY IOLeavesAlarm DEF Types, AlarmTypes
<1>b. hist' \in [failed: 0 .. CallsFail, simple: BOOLEAN, missed: BOOLEAN, timer: BOOLEAN]
  BY IOLeavesAlarm
<1> SUFFICES IOTypes' /\ ResultInv'
  BY <1>a, <1>b DEF Types
<1>1. CASE start_any
  BY <1>1 DEF start_any, start_io, Types, IOTypes, ResultInv, ResultTellsOctets, fd
<1>2. CASE test_ring
  BY <1>2 DEF test_ring, return_io, alarm_result, Types, IOTypes, ResultInv, ResultTellsOctets,
     fd
<1>3. CASE select
  BY <1>3 DEF select, return_io, block_result, unblocked, Types, IOTypes, ResultInv,
     ResultTellsOctets, fd
<1>4. CASE call_returns
  <2>1. ASSUME NEW n \in 1 .. ready, n <= asked(io.count, io.total), transfer(n)
        PROVE  IOTypes' /\ ResultInv'
    <3>1. io.total \in Nat /\ io.moved \in Nat /\ io.count \in Nat /\ ready \in 0 .. MaxReady
      <4>1. io \in [fn: Functions, write: BOOLEAN, chk: BOOLEAN, count: Count \cup {1}, total: Nat,
                    ret: {"none", "COUNT", "TIMEOUT", "NONBLOCK", "IOERR"}, moved: Nat]
        BY DEF Types, IOTypes
      <4>2. io.total \in Nat /\ io.moved \in Nat /\ io.count \in Count \cup {1}
        BY <4>1
      <4>3. Count \cup {1} \subseteq Nat
        BY RawIOAssumption
      <4> QED
        BY <4>2, <4>3 DEF Types, IOTypes
    <3>2. /\ n \in Nat /\ io.total + n <= io.count
          /\ ready - n \in 0 .. MaxReady
      BY <2>1, <3>1 DEF asked
    <3>3. io.total + n \in Nat /\ io.moved + n \in Nat
      BY <3>1, <3>2
    <3>4. IOTypes'
      BY <2>1, <3>2, <3>3 DEF transfer, Types, IOTypes
    <3>5. ResultInv'
      BY <2>1, <3>1, <3>2 DEF transfer, ResultInv, ResultTellsOctets
    <3> QED BY <3>4, <3>5
  <2>2. ASSUME return_io(IF io.write THEN "IOERR" ELSE "COUNT"), UNCHANGED fd
        PROVE  IOTypes' /\ ResultInv'
    BY <2>2 DEF return_io, fd, Types, IOTypes, ResultInv, ResultTellsOctets
  <2> QED
    BY <1>4, <2>1, <2>2 DEF call_returns
<1>5. CASE call_blocks
  BY <1>5 DEF call_blocks, return_io, Types, IOTypes, ResultInv, ResultTellsOctets, fd
<1>6. CASE end_io
  BY <1>6 DEF end_io, no_io, Types, IOTypes, ResultInv, ResultTellsOctets, fd, Functions
<1>7. CASE noblock_fd
  BY <1>7 DEF noblock_fd, Types, IOTypes, ResultInv, ResultTellsOctets
<1>8. CASE io_error
  BY <1>8 DEF io_error, return_io, fd, Types, IOTypes, ResultInv, ResultTellsOctets
<1>9. CASE Peer
  BY <1>9 DEF Peer, Types, IOTypes, ResultInv, ResultTellsOctets, unblocked
<1> QED
  BY <1>1, <1>2, <1>3, <1>4, <1>5, <1>6, <1>7, <1>8, <1>9 DEF IOStep, io_step

LEMMA AlarmKeepsTypes ==
  ASSUME Types, AlarmStep
  PROVE  Types'
<1> USE RawIOAssumption
<1>a. IOTypes' /\ pc' \in Idle \cup Setting \cup Clearing \cup {"killed"}
  BY AlarmLeavesIO DEF Types, IOTypes, Idle
<1>b. isalarm' \in BOOLEAN /\ issimple' \in BOOLEAN
  <2> USE DEF Types, alarm
  <2> QED
    BY Zenon DEF AlarmStep, alarm_step, set_alarm_nothing, set_alarm, set_simple_alarm,
       clear_alarm,
       clear_simple_alarm, set_alarm_stop, set_alarm_ignore, set_alarm_catch, set_alarm_start,
       set_alarm_end, set_simple_catch, set_simple_start, clear_alarm_ignore, clear_alarm_handler,
       clear_alarm_timer, clear_simple_stop, AppTimer
<1> SUFFICES AlarmTypes' /\ hist' \in [failed: 0 .. CallsFail, simple: BOOLEAN, missed: BOOLEAN, timer: BOOLEAN]
  BY <1>a, <1>b DEF Types
<1>1. CASE set_alarm_nothing
  BY <1>1 DEF set_alarm_nothing, Types, AlarmTypes, kernel
<1>2. CASE set_alarm
  BY <1>2 DEF set_alarm, Types, AlarmTypes, kernel
<1>3. CASE set_simple_alarm
  BY <1>3 DEF set_simple_alarm, Types, AlarmTypes, kernel
<1>4. CASE clear_alarm
  <2>1. CASE call_fails
    BY <1>4, <2>1 DEF clear_alarm, call_fails, Types, AlarmTypes, Flag
  <2>2. CASE UNCHANGED <<lava_ring, isalarm, hist>> /\ itimer' = "off"
    BY <1>4, <2>2 DEF clear_alarm, Types, AlarmTypes
  <2> QED
    BY <1>4, <2>1, <2>2 DEF clear_alarm
<1>5. CASE clear_simple_alarm
  BY <1>5 DEF clear_simple_alarm, call_fails, sigaction, Types, AlarmTypes, Flag, Dispositions
<1>6. CASE set_alarm_stop
  BY <1>6 DEF set_alarm_stop, call_fails, Types, AlarmTypes, Flag
<1>7. CASE set_alarm_ignore
  BY <1>7 DEF set_alarm_ignore, call_fails, sigaction, ignored_first, Types, AlarmTypes, Flag,
     Dispositions
<1>8. CASE set_alarm_catch
  BY <1>8 DEF set_alarm_catch, call_fails, sigaction, Types, AlarmTypes, Flag, Dispositions
<1>9. CASE set_alarm_start
  BY <1>9 DEF set_alarm_start, call_fails, Types, AlarmTypes, Flag
<1>10. CASE set_alarm_end
  BY <1>10 DEF set_alarm_end, Types, AlarmTypes, kernel
<1>11. CASE set_simple_catch
  BY <1>11 DEF set_simple_catch, call_fails, sigaction, Types, AlarmTypes, Flag, Dispositions
<1>12. CASE set_simple_start
  BY <1>12 DEF set_simple_start, call_fails, Types, AlarmTypes, Flag
<1>13. CASE clear_alarm_ignore
  BY <1>13 DEF clear_alarm_ignore, call_fails, sigaction, ring_dropped, Types, AlarmTypes, Flag,
     Dispositions
<1>14. CASE clear_alarm_handler
  BY <1>14 DEF clear_alarm_handler, call_fails, sigaction, Types, AlarmTypes, Flag
<1>15. CASE clear_alarm_timer
  BY <1>15 DEF clear_alarm_timer, call_fails, Types, AlarmTypes, Flag
<1>16. CASE clear_simple_stop
  BY <1>16 DEF clear_simple_stop, call_fails, Types, AlarmTypes, Flag
<1>17. CASE AppTimer
  BY <1>17 DEF AppTimer, Types, AlarmTypes, alarm
<1> QED
  BY <1>1, <1>2, <1>3, <1>4, <1>5, <1>6, <1>7, <1>8, <1>9, <1>10, <1>11, <1>12, <1>13, <1>14,
     <1>15, <1>16, <1>17 DEF AlarmStep, alarm_step

LEMMA TypesAndResults ==
  ASSUME Types, ResultInv, [Next]_vars
  PROVE  Types' /\ ResultInv'
<1>1. CASE IOStep
  BY <1>1, IOKeepsTypes
<1>2. CASE AlarmStep
  <2>1. Types'
    BY <1>2, AlarmKeepsTypes
  <2>2. ResultInv'
    BY <1>2, AlarmLeavesIO DEF ResultInv, ResultTellsOctets, unblocked, Setting, Clearing
  <2> QED BY <2>1, <2>2
<1>3. CASE Expire
  <2>1. AlarmTypes' /\ IOTypes'
    BY <1>3 DEF Expire, Types, AlarmTypes, IOTypes, alarm, fd
  <2>2. Types'
    BY <1>3, <2>1 DEF Expire, Types, alarm
  <2>3. ResultInv'
    BY <1>3 DEF Expire, ResultInv, ResultTellsOctets, unblocked, fd
  <2> QED BY <2>2, <2>3
<1>4. CASE Deliver
  <2>1. AlarmTypes' /\ IOTypes'
    BY <1>4 DEF Deliver, ring_of, Types, AlarmTypes, IOTypes, fd, Flag
  <2>2. Types'
    BY <1>4, <2>1 DEF Deliver, interrupted, Types, Idle, InCall
  <2>3. ResultInv'
    BY <1>4 DEF Deliver, interrupted, fd, Types, Idle, InCall, Setting, Clearing,
       ResultInv, ResultTellsOctets, unblocked
  <2> QED BY <2>2, <2>3
<1>5. CASE UNCHANGED vars
  BY <1>5 DEF vars, Types, AlarmTypes, IOTypes, ResultInv, ResultTellsOctets, unblocked
<1> QED
  BY <1>1, <1>2, <1>3, <1>4, <1>5, StepKinds

-----------------------------------------------------------------------------
(* Whose alarm it is.                                                      *)

\* set_alarm() stops the program's timer before it catches the signal, and ignores
\* the signal in between, which drops one that has been raised.
LEMMA AppStep ==
  ASSUME Types, AppInv, [Next]_vars
  PROVE  AppInv'
<1>1. CASE IOStep
  BY <1>1, IOLeavesAlarm DEF AppInv, Idle, InCall
<1>2. CASE AlarmStep
  <2>1. CASE set_alarm_nothing
    BY <2>1 DEF set_alarm_nothing, AppInv, kernel
  <2>2. CASE set_alarm
    BY <2>2 DEF set_alarm, AppInv, kernel
  <2>3. CASE set_simple_alarm
    BY <2>3 DEF set_simple_alarm, AppInv, kernel
  <2>4. CASE clear_alarm
    BY <2>4 DEF clear_alarm, AppInv
  <2>5. CASE clear_simple_alarm
    BY <2>5 DEF clear_simple_alarm, sigaction, AppInv
  <2>6. CASE set_alarm_stop
    BY <2>6 DEF set_alarm_stop, call_fails, AppInv, Idle
  <2>7. CASE set_alarm_ignore
    BY <2>7 DEF set_alarm_ignore, call_fails, sigaction, ignored_first, AppInv, Idle
  <2>8. CASE set_alarm_catch
    BY <2>8 DEF set_alarm_catch, sigaction, AppInv, Idle, InCall
  <2>9. CASE set_alarm_start
    BY <2>9 DEF set_alarm_start, AppInv, Idle, InCall
  <2>10. CASE set_alarm_end
    BY <2>10 DEF set_alarm_end, AppInv, kernel, Idle, InCall
  <2>11. CASE set_simple_catch
    BY <2>11 DEF set_simple_catch, sigaction, AppInv, Idle, InCall
  <2>12. CASE set_simple_start
    BY <2>12 DEF set_simple_start, AppInv, Idle, InCall
  <2>13. CASE clear_alarm_ignore
    BY <2>13 DEF clear_alarm_ignore, sigaction, ring_dropped, AppInv, Idle, InCall
  <2>14. CASE clear_alarm_handler
    BY <2>14 DEF clear_alarm_handler, sigaction, AppInv, Idle, InCall
  <2>15. CASE clear_alarm_timer
    BY <2>15 DEF clear_alarm_timer, call_fails, AppInv, Idle
  <2>16. CASE clear_simple_stop
    BY <2>16 DEF clear_simple_stop, call_fails, AppInv, Idle
  <2>17. CASE AppTimer
    BY <2>17 DEF AppTimer, AppInv, alarm, Idle
  <2> QED
    BY <1>2, <2>1, <2>2, <2>3, <2>4, <2>5, <2>6, <2>7, <2>8, <2>9, <2>10, <2>11, <2>12, <2>13,
       <2>14, <2>15, <2>16, <2>17 DEF AlarmStep, alarm_step
<1>3. CASE Expire
  BY <1>3 DEF Expire, AppInv, alarm
<1>4. CASE Deliver
  BY <1>4 DEF Deliver, interrupted, AppInv, Idle, InCall
<1>5. CASE UNCHANGED vars
  BY <1>5 DEF vars, AppInv
<1> QED
  BY <1>1, <1>2, <1>3, <1>4, <1>5, StepKinds

\* From set_alarm_ignore() to clear_alarm_handler() the disposition is in saved.
LEMMA GivenStep ==
  ASSUME Types, GivenInv, [Next]_vars
  PROVE  GivenInv'
<1> USE RawIOAssumption
<1>1. CASE IOStep
  BY <1>1, IOLeavesAlarm DEF GivenInv, Given, Idle, InCall, Setting
<1>2. CASE AlarmStep
  <2>1. CASE set_alarm_nothing
    BY <2>1 DEF set_alarm_nothing, GivenInv, Given, kernel
  <2>2. CASE set_alarm
    BY <2>2 DEF set_alarm, GivenInv, Given, kernel, Idle
  <2>3. CASE set_simple_alarm
    BY <2>3 DEF set_simple_alarm, GivenInv, Given, kernel, Idle
  <2>4. CASE clear_alarm
    <3>1. CASE call_fails
      BY <3>1 DEF call_fails, GivenInv, Types
    <3>2. CASE /\ UNCHANGED <<lava_ring, isalarm, hist>>
               /\ itimer' = "off" /\ pc' = "clear_ignore"
      BY <2>4, <3>2 DEF clear_alarm, GivenInv, Given, Setting
    <3> QED
      BY <2>4, <3>1, <3>2 DEF clear_alarm
  <2>5. CASE clear_simple_alarm
    BY <2>5 DEF clear_simple_alarm, call_fails, sigaction, GivenInv, Types, Setting
  <2>6. CASE set_alarm_stop
    BY <2>6 DEF set_alarm_stop, call_fails, GivenInv, Given, Types, Setting
  <2>7. CASE set_alarm_ignore
    BY <2>7 DEF set_alarm_ignore, call_fails, GivenInv, Given, Types, Idle, InCall, Setting
  <2>8. CASE set_alarm_catch
    BY <2>8 DEF set_alarm_catch, call_fails, GivenInv, Given, Types, Idle, InCall, Setting
  <2>9. CASE set_alarm_start
    BY <2>9 DEF set_alarm_start, call_fails, GivenInv, Given, Types, Idle, InCall, Setting
  <2>10. CASE set_alarm_end
    BY <2>10 DEF set_alarm_end, GivenInv, Given, Setting
  <2>11. CASE set_simple_catch
    BY <2>11 DEF set_simple_catch, call_fails, GivenInv, Types, Idle, InCall, Setting
  <2>12. CASE set_simple_start
    BY <2>12 DEF set_simple_start, call_fails, GivenInv, Types, Setting
  <2>13. CASE clear_alarm_ignore
    BY <2>13 DEF clear_alarm_ignore, call_fails, sigaction, ring_dropped, GivenInv, Given, Types,
       Idle, InCall, Setting
  <2>14. CASE clear_alarm_handler
    BY <2>14 DEF clear_alarm_handler, call_fails, sigaction, GivenInv, Given, Types
  <2>15. CASE clear_alarm_timer
    BY <2>15 DEF clear_alarm_timer, call_fails, GivenInv, Given, Types
  <2>16. CASE clear_simple_stop
    BY <2>16 DEF clear_simple_stop, call_fails, GivenInv, Given, Types
  <2>17. CASE AppTimer
    BY <2>17 DEF AppTimer, GivenInv, Given, alarm
  <2> QED
    BY <1>2, <2>1, <2>2, <2>3, <2>4, <2>5, <2>6, <2>7, <2>8, <2>9, <2>10, <2>11, <2>12, <2>13,
       <2>14, <2>15, <2>16, <2>17 DEF AlarmStep, alarm_step
<1>3. CASE Expire
  BY <1>3 DEF Expire, GivenInv, Given, alarm
<1>4. CASE Deliver
  BY <1>4 DEF Deliver, interrupted, GivenInv, Given, Idle, InCall, Setting
<1>5. CASE UNCHANGED vars
  BY <1>5 DEF vars, GivenInv, Given
<1> QED
  BY <1>1, <1>2, <1>3, <1>4, <1>5, StepKinds

\* Of all steps only the delivery of a signal notes a ring of ours.
LEMMA RingStep ==
  ASSUME Types, AppInv, [Next]_vars, pending = "app", "MY_RING" \notin lava_ring
  PROVE  "MY_RING" \notin lava_ring'
<1>1. CASE IOStep
  BY <1>1, IOLeavesAlarm
<1>2. CASE AlarmStep
  <2> USE DEF alarm, call_fails
  <2> QED
    BY <1>2 DEF AlarmStep, alarm_step, set_alarm_nothing, set_alarm, set_simple_alarm,
       clear_alarm,
       clear_simple_alarm, set_alarm_stop, set_alarm_ignore, set_alarm_catch, set_alarm_start,
       set_alarm_end, set_simple_catch, set_simple_start, clear_alarm_ignore, clear_alarm_handler,
       clear_alarm_timer, clear_simple_stop, AppTimer
<1>3. CASE Expire
  BY <1>3 DEF Expire, alarm
<1>4. CASE Deliver
  BY <1>4 DEF Deliver, AppInv
<1>5. CASE UNCHANGED vars
  BY <1>5 DEF vars
<1> QED
  BY <1>1, <1>2, <1>3, <1>4, <1>5, StepKinds

-----------------------------------------------------------------------------
(* The theorems.                                                           *)

LEMMA InvStep ==
  ASSUME IInv, [Next]_vars
  PROVE  IInv'
BY TypesAndResults, AppStep, GivenStep DEF IInv

LEMMA InvHolds == Spec => []IInv
<1>1. Init => IInv
  BY InitInv
<1>2. IInv /\ [Next]_vars => IInv'
  BY InvStep
<1> QED
  BY <1>1, <1>2, PTL DEF Spec

\* Every variable of the loops and of the alarm has its type, and no call counts
\* more than it was asked to move (lib/rawio.c:59, :120).
THEOREM RawIOTypeCorrect == Spec => []TypeOK
<1>1. IInv => TypeOK
  BY RawIOAssumption DEF IInv, Types, AlarmTypes, IOTypes, ResultInv, TypeOK, Idle, Setting,
     Clearing
<1> QED
  BY <1>1, InvHolds, PTL

\* What a read or a write says it moved is what it moved, for calls of every length
\* and wherever in the loop the alarm or the other end comes (lib/rawio.c:107).
THEOREM ResultsTellOctets == Spec => []ResultTellsOctets
<1>1. IInv => ResultTellsOctets
  BY DEF IInv, ResultInv
<1> QED
  BY <1>1, InvHolds, PTL

\* An alarm of the program is never taken for one of the library, whichever system
\* calls fail while its timer and its handler are changed (lib/rawio.c:1391).
THEOREM RingsAreToldApart == Spec => MyRingIsMine
<1>1. IInv /\ [Next]_vars =>
       [pending = "app" /\ "MY_RING" \notin lava_ring => "MY_RING" \notin lava_ring']_vars
  BY RingStep DEF IInv
<1> QED
  BY <1>1, InvHolds, PTL DEF Spec, MyRingIsMine

\* Once every alarm is cleared, if no system call failed, the signal is not caught by
\* the library, no signal of the alarm is still to reach the program, and a program
\* that used set_alarm() only has its disposition back, however often alarms were set,
\* rang or were cleared (lib/rawio.c:1248, :1351).  Nothing is said of the timer that
\* clear_alarm() starts or loses: the run old_timer refutes TimerIsGivenBack.
THEOREM HandlersAreGivenBack == Spec => []HandlerIsGivenBack
<1>1. IInv => HandlerIsGivenBack
  BY DEF IInv, GivenInv, Given, HandlerIsGivenBack, Idle
<1> QED
  BY <1>1, InvHolds, PTL
=============================================================================
