------------------------------- MODULE Camera -------------------------------
(***************************************************************************)
(* The camera layer (lib/camop.c): calls that are handed to the driver of  *)
(* the camera's type, and the check of a frame's sanity.  A frame is the   *)
(* name of what was captured, see Patterns; an octet holds OctetBits bits. *)
(***************************************************************************)
EXTENDS Ov511
LOCAL INSTANCE FiniteSetsExt
LOCAL INSTANCE SequencesExt

\* cam_switch: types and their drivers.  pwc740 is the driver of pwc730 with a
\* model number that pwc_model() treats alike.
cam_switch == [pwc730 |-> "pwc", dsbc100 |-> "ov511"]
driver(x) == cam_switch[x.type]

-----------------------------------------------------------------------------
lavacam_get(x, into) == IF driver(x) = "pwc" THEN pwc_get(x, into) ELSE ov511_get(x, into)

lavacam_check(x) == IF driver(x) = "pwc" THEN pwc_check(x.n_cam) ELSE ov511_check(x.n_cam)

\* lavacam_argv(): what the options are put into, the next option, and the end.
lavacam_argv_start(x) == IF driver(x) = "pwc" THEN pwc_argv_start(x) ELSE ov511_argv_start(x)

lavacam_option(x, o) == IF driver(x) = "pwc" THEN pwc_option(x, o) ELSE ov511_option(x, o)

\* Options that the driver ignores.
lavacam_ignored(x) == IF driver(x) = "pwc" THEN pwc_ignored ELSE ov511_ignored

\* A frame file and an interval follow the options; the interval may be no good,
\* and the memory for the names may lack: both give back what was allocated.
argv_files(x, files) ==
  IF files THEN {fail(x, "ARG"), fail(x, "MALLOC"), [x EXCEPT !.flag.files = TRUE, !.mem.files = @ + 1]}
  ELSE {x}

\* What the driver's check refuses has left the file names allocated.
lavacam_argv_end(x, files) ==
  Then(argv_files(x, files), LAMBDA y : {IF lavacam_check(y) THEN y ELSE fail(y, "RANGE")})

lavacam_open(x, given) == IF driver(x) = "pwc" THEN pwc_open(x, given) ELSE ov511_open(x, given)

\* The device stops capturing when it is closed (external).
lavacam_close(x) ==
  {[y EXCEPT !.hw.capture = "none"] : y \in IF driver(x) = "pwc" THEN pwc_close(x) ELSE ov511_close(x)}

\* frame_num counts the frames: the sanity check does not compare the first one.
lavacam_get_frame(x) ==
  {IF y.ret = "OK" THEN [y EXCEPT !.siz.frame_num = @ + 1] ELSE y :
     y \in IF driver(x) = "pwc" THEN pwc_get_frame(x) ELSE ov511_get_frame(x)}

lavacam_msync(x) == IF driver(x) = "pwc" THEN pwc_msync(x) ELSE ov511_msync(x)

\* lavacam_wait_frame() with no limit, when it returns a frame.
lavacam_wait_frame(x) == IF driver(x) = "pwc" THEN pwc_frame_waits(x) ELSE ov511_frame_waits(x)

-----------------------------------------------------------------------------
(* The sanity of a frame.                                                  *)

Octet(frame, i) == IF frame = "zero" THEN 0 ELSE Patterns[frame][i]

\* How often each octet value is in the frame, the most common one first.
tally(frame, len) ==
  SortSeq([v \in 1 .. OCTET_CNT |-> Cardinality({i \in 0 .. len - 1 : Octet(frame, i) = v - 1})],
          LAMBDA m, n : m > n)

\* Octets that have one of the n most common values.
common(frame, len, n) == FoldLeft(LAMBDA m, k : m + k, 0, SubSeq(tally(frame, len), 1, n))

\* lavacam_uncom_fract(): the percentage of octets that are uncommon, rounded
\* down, and the half level, one less than the values that half of the octets have.
lavacam_uncom_fract(frame, len, top_x) ==
  LET top == IF top_x > OCTET_CNT THEN OCTET_CNT ELSE top_x
  IN ((len - common(frame, len, top)) * 100) \div len

half_level(frame, len) == Min({n \in 1 .. OCTET_CNT : common(frame, len, n) >= len \div 2}) - 1

onebit(a, k) == (a \div 2 ^ k) % 2

\* lavacam_bitdiff_fract(): how many bits differ in so many octets of the frames.
lavacam_bitdiff(frame1, frame2, len) ==
  Cardinality({p \in (0 .. len - 1) \X (0 .. OctetBits - 1) :
                 onebit(Octet(frame1, p[1]), p[2]) # onebit(Octet(frame2, p[1]), p[2])})

\* mutant: the frame is not kept for the next comparison
kept_never(x) == FALSE

\* A frame becomes the previous one when it has passed, if frames are compared.
kept(x) == x.siz.limits[4] > 0

enough_uncommon(siz, frame) ==
  siz.limits[2] > 0 =>
    /\ lavacam_uncom_fract(frame, siz.chaos_len, siz.limits[1]) >= siz.limits[2]
    /\ half_level(frame, siz.chaos_len) >= siz.limits[3]

\* Neither too similar to the previous frame nor too different from it.
differs(siz, frame) ==
  siz.frame_num > 1 /\ siz.limits[4] > 0 =>
    LET bits  == lavacam_bitdiff(frame, siz.prev, siz.chaos_len)
        total == siz.chaos_len * OctetBits
    IN bits * 100 >= siz.limits[4] * total /\ (total - bits) * 100 >= siz.limits[4] * total

\* lavacam_sanity(): the frame that a sane one is compared with next is that one.
lavacam_sanity(x) ==
  IF ~enough_uncommon(x.siz, x.hw.frame) THEN fail(x, "UNCOMMON")
  ELSE IF ~differs(x.siz, x.hw.frame) THEN fail(x, "OVERSAME")
  ELSE IF kept(x) THEN [x EXCEPT !.siz.prev = x.hw.frame] ELSE x
=============================================================================
