------------------------------- MODULE Capture -------------------------------
(***************************************************************************)
(* The programs that use a camera: the tools lavadump, camdump, camget and *)
(* camset (tool/*.c), and the chaos driver of lavapool (daemon/chaos.c),   *)
(* one process after another on one camera.  A process parses its options, *)
(* opens the camera, takes frames, checks and hashes the sane ones, gives  *)
(* each frame back and closes.  What fails ends a tool without a close.    *)
(***************************************************************************)
EXTENDS Camera, LavaTurn

CONSTANTS
  Lines,        \* command lines, by type of camera: sequences of <<option, value>>
  Cameras,      \* external: by type, the settings a camera may come with, and whether it has
                \* the optional requests
  Lengths,      \* lengths asked of a dump: -1 for ever, 0 for one frame
  Rooms,        \* room in the pool of lavapool
  Rates,        \* rates of lavadump and lavapool, in sixteenths
  Prefix,       \* cfg_lavapool.prefix
  MaxFrames     \* bound: frames that are taken by one process

ASSUME CaptureAssumption ==
  /\ MaxFrames \in Nat /\ Prefix \in BOOLEAN
  /\ Lengths \subseteq Int /\ Rooms \subseteq Nat /\ Rates \subseteq Nat

\* external: a value that a camera of the type may have for a setting, which are
\* those that the driver's check lets through.
allowed(type, s, v) == s = "palette" \/ (IF cam_switch[type] = "pwc" THEN pwc_in_range(s, v)
                                        ELSE ov511_in_range(s, v))

camera_settings(type) == IF cam_switch[type] = "pwc" THEN PwcSettings ELSE Ov511Settings

ASSUME CamerasAssumption ==
  \A type \in DOMAIN Cameras :
    /\ type \in DOMAIN cam_switch
    /\ \A cam \in Cameras[type] :
         /\ DOMAIN cam.set = camera_settings(type)
         /\ \A s \in DOMAIN cam.set : allowed(type, s, cam.set[s])

VARIABLES
  pc,
  job,   \* the running program, the options it has still to parse, and how much it has to
         \* put out, counts and has put out
  hist   \* history: the limits asked for, and the frame that was accepted last

vars == <<w, pc, job, hist, turnVars>>

Dumps == {"lavadump", "camdump"}
Tools == Dumps \cup {"camget", "camset", "lavapool"}

no_job  == [tool |-> "none", line |-> <<>>, maxlen |-> 0, written |-> 0, out |-> 0]
no_hist == [asked |-> <<0, 0, 0, 0>>, last |-> "none"]

\* A world without a process: only the device is left as it is.
gone(x) == [type |-> x.type, ret |-> "OK", saved |-> x.saved,
            hw |-> [x.hw EXCEPT !.capture = "none"],
            o_cam |-> no_cam({}), n_cam |-> no_cam({}),
            siz |-> no_siz, flag |-> default_flag, mem |-> no_mem]

Init ==
  /\ \E type \in DOMAIN Cameras :
       \E cam \in Cameras[type] :
         w = gone([type |-> type, saved |-> cam.set,
                   hw |-> [set |-> cam.set, capture |-> "none", optional |-> cam.optional,
                           frame |-> CHOOSE f \in DOMAIN Patterns : TRUE]])
  /\ pc = "idle" /\ job = no_job /\ hist = no_hist
  /\ TurnInit

\* What follows a call that went well, and one that failed.
go(y, next, otherwise) == w' = y /\ pc' = IF y.ret = "OK" THEN next ELSE otherwise

-----------------------------------------------------------------------------
(* From the command line to the first frame.                               *)

\* camget has no options for the driver and leaves the camera as it is.
start(tool, line, maxlen) ==
  /\ pc = "idle"
  /\ IF tool = "camget"
       THEN /\ w' = gone(w) /\ pc' = "parsed"
            /\ job' = [no_job EXCEPT !.tool = tool, !.maxlen = maxlen]
       ELSE /\ w' = lavacam_argv_start(gone(w)) /\ pc' = "options"
            /\ job' = [no_job EXCEPT !.tool = tool, !.maxlen = maxlen, !.line = line]
  /\ UNCHANGED <<hist, turnVars>>

\* The value of an option that the driver ignores is read as the next argument.
at_value == job.line # <<>> /\ Head(job.line)[1] \in lavacam_ignored(w)

option ==
  /\ pc = "options" /\ job.line # <<>> /\ ~at_value
  /\ go(lavacam_option(w, Head(job.line)), "options", "ended")
  /\ job' = [job EXCEPT !.line = Tail(@)]
  /\ UNCHANGED <<hist, turnVars>>

options_end(files) ==
  /\ pc = "options" /\ job.line = <<>>
  /\ \E y \in lavacam_argv_end(w, files) : go(y, "parsed", "ended")
  /\ UNCHANGED <<job, hist, turnVars>>

\* That value is no option and ends them.  What follows it makes it the name of a
\* frame file: an interval does, an option is no good as one.  If nothing follows
\* it is left over, which camset and lavapool do not accept.
value_ends(interval) ==
  /\ pc = "options" /\ at_value
  /\ \/ /\ Tail(job.line) # <<>>
        /\ \E err \in {"ARG", "MALLOC"} : go(fail(w, err), "parsed", "ended")
     \/ /\ Tail(job.line) = <<>>
        /\ \E y \in lavacam_argv_end(w, interval) :
             go(y, IF interval \/ job.tool \in Dumps THEN "parsed" ELSE "ended", "ended")
  /\ UNCHANGED <<job, hist, turnVars>>

open ==
  /\ pc = "parsed"
  /\ \E y \in lavacam_open(w, job.tool # "camget") :
       /\ go(y, "opened", "ended")
       /\ job' = IF job.maxlen = 0 THEN [job EXCEPT !.maxlen = y.siz.chaos_len] ELSE job
  /\ hist' = [no_hist EXCEPT !.asked = IF job.tool # "camget" THEN w.n_cam.tmp
                                       ELSE IF driver(w) = "pwc" THEN PwcLimits ELSE Ov511Limits]
  /\ UNCHANGED turnVars

\* The state is fetched again and checked by camget and camset, which then leave,
\* and by a dump that is verbose.
fetch_state ==
  /\ pc = "opened" /\ job.tool # "lavapool"
  /\ \E y \in lavacam_get(w, "n_cam") :
       go(IF y.ret = "OK" /\ ~lavacam_check(y) THEN fail(y, "RANGE") ELSE y,
          IF job.tool \in Dumps THEN "waiting" ELSE "leaving", "ended")
  /\ UNCHANGED <<job, hist, turnVars>>

\* lavadump may lack the memory for its output.
begin ==
  /\ pc = "opened" /\ job.tool \in Dumps \cup {"lavapool"}
  /\ \/ pc' = "waiting"
     \/ job.tool = "lavadump" /\ pc' = "ended"
  /\ UNCHANGED <<w, job, hist, turnVars>>

-----------------------------------------------------------------------------
(* Frame after frame.                                                      *)

\* What a failure leads to once frames are taken: lavapool closes the channel.
failed == IF job.tool = "lavapool" THEN "leaving" ELSE "ended"

enough == job.tool \in Dumps /\ job.maxlen >= 0 /\ job.written >= job.maxlen

get_frame ==
  /\ pc = "waiting" /\ ~enough /\ w.siz.frame_num < MaxFrames
  /\ lavacam_wait_frame(w)
  /\ \E y \in lavacam_get_frame(w) : go(y, "got", failed)
  /\ UNCHANGED <<job, hist, turnVars>>

\* The wait for a frame fails, or the program is told to end.
wait_ends ==
  /\ pc = "waiting" /\ ~enough
  /\ pc' = failed
  /\ UNCHANGED <<w, job, hist, turnVars>>

wrote_all ==
  /\ pc = "waiting" /\ enough
  /\ pc' = "leaving"
  /\ UNCHANGED <<w, job, hist, turnVars>>

\* An insane frame is skipped.
sanity ==
  /\ pc = "got"
  /\ LET y == lavacam_sanity(w)
     IN /\ w' = [y EXCEPT !.ret = "OK"]
        /\ pc' = IF y.ret = "OK" THEN "sane" ELSE "insane"
        /\ hist' = IF y.ret = "OK" THEN [hist EXCEPT !.last = w.hw.frame] ELSE hist
  /\ UNCHANGED <<job, turnVars>>

\* mutant: the last write is not cut to what is still wanted
put_out_all(n) == n

\* Octets of the given number that are put out, so that it is not too much.
put_out(n) == IF job.maxlen < 0 \/ job.written + n <= job.maxlen THEN n ELSE job.maxlen - job.written

\* A write of nothing is taken for the end.
lavadump_sane(rate) ==
  /\ pc = "sane" /\ job.tool = "lavadump"
  /\ lavarnd(TRUE, w.siz.chaos_len, rate, lava_nway_value(w.siz.chaos_len, rate) * SHA_DIGESTSIZE)
  /\ IF turn'.ret <= 0 THEN pc' = "ended" /\ UNCHANGED job
     ELSE /\ pc' = "done"
          /\ job' = [job EXCEPT !.written = @ + turn'.ret, !.out = @ + put_out(turn'.ret)]
  /\ UNCHANGED <<w, hist>>

\* mutant: an insane frame is counted as it is in camdump
lavadump_skipped_len == -w.siz.chaos_len

\* What lavadump counts for a frame that it skips.
lavadump_skipped == 0

\* camdump counts a frame that it skips as one taken away.
skip_frame ==
  /\ pc = "insane" /\ pc' = "done"
  /\ job' = IF job.tool \in Dumps
              THEN [job EXCEPT !.written = @ + (IF job.tool = "camdump" THEN -w.siz.chaos_len
                                                ELSE lavadump_skipped)]
              ELSE job
  /\ UNCHANGED <<w, hist, turnVars>>

camdump_sane ==
  /\ pc = "sane" /\ job.tool = "camdump" /\ pc' = "done"
  /\ LET n == IF job.maxlen <= 0 THEN w.siz.chaos_len ELSE put_out(w.siz.chaos_len)
     IN job' = [job EXCEPT !.written = @ + n, !.out = @ + n]
  /\ UNCHANGED <<w, hist, turnVars>>

\* Nobody takes what is written.
write_fails ==
  /\ pc = "sane" /\ job.tool \in Dumps
  /\ pc' = "ended"
  /\ UNCHANGED <<w, job, hist, turnVars>>

\* The frame goes into the pool, at a rate that falls as the pool fills.
lavapool_sane(rate, room) ==
  /\ pc = "sane" /\ job.tool = "lavapool"
  /\ lavarnd(Prefix, w.siz.chaos_len, rate, room)
  /\ pc' = IF turn'.ret < 0 THEN failed ELSE "done"
  /\ UNCHANGED <<w, job, hist>>

\* The pool is too full, or the frame is written to a file instead.
lavapool_unused ==
  /\ pc = "sane" /\ job.tool = "lavapool" /\ pc' = "done"
  /\ UNCHANGED <<w, job, hist, turnVars>>

msync ==
  /\ pc = "done"
  /\ \E y \in lavacam_msync(w) : go(y, "waiting", failed)
  /\ turn_forgotten
  /\ UNCHANGED <<job, hist>>

-----------------------------------------------------------------------------
\* Whether the close went well makes no difference.
close ==
  /\ pc = "leaving" /\ pc' = "closed"
  /\ w' \in lavacam_close([w EXCEPT !.ret = "OK"])
  /\ turn_forgotten
  /\ UNCHANGED <<job, hist>>

\* Only lavapool gives the turned buffer back before it ends.
cleanup ==
  /\ pc = "closed" /\ job.tool = "lavapool" /\ pc' = "ended"
  /\ lavarnd_cleanup
  /\ UNCHANGED <<w, job, hist>>

\* The process is gone and all that it held with it.
exit ==
  /\ pc = "ended" \/ (pc = "closed" /\ job.tool # "lavapool")
  /\ pc' = "idle" /\ w' = gone(w) /\ job' = no_job /\ hist' = no_hist
  /\ turn_gone

camera_step == CaptureDone /\ UNCHANGED <<pc, job, hist, turnVars>>

frame_step == get_frame \/ wrote_all \/ msync

loop == get_frame \/ wrote_all \/ sanity \/ skip_frame \/ camdump_sane
        \/ lavapool_unused \/ msync \/ close \/ cleanup \/ exit
        \/ (\E rate \in Rates : lavadump_sane(rate))
        \/ \E rate \in Rates, room \in Rooms : lavapool_sane(rate, room)

Next ==
  \/ \E tool \in Tools : \E line \in Lines[w.type],
                            maxlen \in IF tool \in Dumps THEN Lengths ELSE {-1} :
       start(tool, line, maxlen)
  \/ option \/ \E files \in BOOLEAN : options_end(files)
  \/ \E interval \in BOOLEAN : value_ends(interval)
  \/ open \/ fetch_state \/ begin
  \/ loop \/ wait_ends \/ write_fails
  \/ camera_step

\* A process that has something to do does it, and a camera that captures a frame
\* completes it.
Spec == Init /\ [][Next]_vars /\ WF_vars(frame_step) /\ WF_vars(camera_step)
=============================================================================
