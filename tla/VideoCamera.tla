----------------------------- MODULE VideoCamera -----------------------------
(***************************************************************************)
(* What both drivers of the library are written with: a Video4Linux device *)
(* with its settings and its mapped buffer, the structures a camera is     *)
(* described by, and calls as sets of outcomes.  A world w holds all that  *)
(* one call can see and change; an outcome is a world with the result.     *)
(***************************************************************************)
EXTENDS Palette, Sequences, FiniteSets, TLC

CONSTANTS
  MBuf,      \* external: what VIDIOCGMBUF tells: the mapped buffer and where frames are in it
  Patterns,  \* external: what a camera may capture, functions from a position to an octet
  OctetBits  \* bound: BITS_PER_OCTET

ASSUME CameraAssumption ==
  /\ OctetBits \in Nat \ {0}
  /\ DOMAIN Patterns # {} /\ {"none", "zero"} \cap DOMAIN Patterns = {}

\* external: every frame of the buffer lies within it, at its offset and if the
\* frames lie close together; the code relies on that and does not test it.
ASSUME MBufAssumption ==
  /\ MBuf.size \in Nat /\ MBuf.frames \in Nat
  /\ \A k \in 1 .. MBuf.frames : MBuf.offsets[k] \in Int
  /\ MBuf.size > 0 /\ MBuf.frames > 0 =>
       LET framesize == frame_size(0, MBuf.size, MBuf.frames, MBuf.offsets, 0, 0)
       IN /\ MBuf.frames * framesize <= MBuf.size
          /\ \A k \in 1 .. MBuf.frames : MBuf.offsets[k] + framesize <= MBuf.size

VARIABLE w

OCTET_CNT == 2 ^ OctetBits

\* An outcome that ends the call with an error, and a step that follows if the
\* steps before it went well.
fail(x, err) == [x EXCEPT !.ret = err]

Then(S, Step(_)) == UNION {IF x.ret = "OK" THEN Step(x) ELSE {x} : x \in S}

\* An ioctl() that leaves the world in y, or fails.
ioctl(x, y, err) == {y, fail(x, err)}

-----------------------------------------------------------------------------
(* The device (external).  hw.set gives the settings in force, saved those *)
(* in its EEPROM; capture is what VIDIOCMCAPTURE has started in the last   *)
(* frame of the mapped buffer, frame what is in the buffer.                *)

SetHw(x, f) == [x EXCEPT !.hw.set = [s \in DOMAIN @ |-> IF s \in DOMAIN f THEN f[s] ELSE @[s]]]

SetGroup(x, cam, settings) ==
  LET f == [s \in cam.mask \cap settings |-> cam.val[s]]
  IN IF DOMAIN f = {} THEN {x} ELSE ioctl(x, SetHw(x, f), "SETPARAM")

MCAPTURE(x) == ioctl(x, [x EXCEPT !.hw.capture = "busy"], "SYNC")

\* VIDIOCSYNC waits for the capture of the frame.
SYNC(x) == ioctl(x, [x EXCEPT !.hw.capture = "none"], "SYNC")

\* A frame that is being captured is complete.
CaptureDone ==
  /\ w.hw.capture = "busy"
  /\ \E f \in DOMAIN Patterns : w' = [w EXCEPT !.hw.capture = "done", !.hw.frame = f]

-----------------------------------------------------------------------------
(* The structures.                                                         *)

\* struct pwc_state, struct ov511_state: the settings, those to be changed, the
\* limits of the sanity check, and the mapped buffer.
no_cam(settings) ==
  [val |-> [s \in settings |-> 0], mask |-> {}, tmp |-> <<0, 0, 0, 0>>, bufsize |-> 0, frames |-> 0]

\* struct lavacam_flag
default_flag == [A |-> FALSE, M |-> TRUE, T |-> FALSE, files |-> FALSE]

\* struct opsize
no_siz == [image |-> "none", image_len |-> 0, lavaoff |-> 0, chaos_len |-> 0, prev |-> "none",
           readsize |-> 0, mmapsize |-> 0, mmap_lavaoff |-> 0, lavalen |-> 0,
           use_read |-> FALSE, palette |-> 0, limits |-> <<0, 0, 0, 0>>,
           frame_num |-> 0]

\* What the process holds: descriptors, buffers, and the names of the frame file.
no_mem == [fd |-> 0, image |-> 0, prev |-> 0, files |-> 0]

-----------------------------------------------------------------------------
(* The command line: options <<letter, value>>, which are parsed one after *)
(* the other into the new state n_cam and the flags of a world.            *)

\* The options that both drivers take alike: X, x, 2 and d are the limits of the
\* sanity check, M asks for read() and A for the whole frame.
common_option(x, o) ==
  CASE o[1] = "X" -> IF o[2] \in 0 .. OCTET_CNT THEN [x EXCEPT !.n_cam.tmp[1] = o[2]] ELSE fail(x, "ARG")
    [] o[1] = "x" -> IF o[2] \in 0 .. 100 THEN [x EXCEPT !.n_cam.tmp[2] = o[2]] ELSE fail(x, "ARG")
    [] o[1] = "2" -> IF o[2] \in 0 .. OCTET_CNT \div 2 THEN [x EXCEPT !.n_cam.tmp[3] = o[2]] ELSE fail(x, "ARG")
    [] o[1] = "d" -> IF o[2] \in 0 .. 50 THEN [x EXCEPT !.n_cam.tmp[4] = o[2]] ELSE fail(x, "ARG")
    [] o[1] = "M" -> [x EXCEPT !.flag.M = FALSE]
    [] o[1] = "A" -> [x EXCEPT !.flag.A = TRUE]
    [] o[1] = "T" -> [x EXCEPT !.flag.T = TRUE]
    [] o[1] \in {"v", "E", "D", "V"} -> x
    [] OTHER -> fail(x, "ARG")

\* An option that gives a setting a value within its range.
setting_option(x, o, opt) ==
  LET s == opt[o[1]][1]
  IN IF o[2] \in opt[o[1]][2] .. opt[o[1]][3]
       THEN [x EXCEPT !.n_cam.val[s] = o[2], !.n_cam.mask = @ \cup {s}]
       ELSE fail(x, "ARG")

-----------------------------------------------------------------------------
(* frame dimensions                                                        *)

\* The framesize of a camera, and the chaotic octets in a frame.
size_of(cam) ==
  frame_size(cam.val["palette"], cam.bufsize, cam.frames, MBuf.offsets, cam.val["height"], cam.val["width"])

zone_of(cam) == chaos_zone(cam.val["palette"], size_of(cam), cam.val["height"] * cam.val["width"])

\* A camera state as a driver finds it: the given settings have the values of the
\* device, the others the given value.
fetched(x, settings, known, unset) ==
  [no_cam(settings) EXCEPT
     !.val     = [s \in settings |-> IF s \in known THEN x.hw.set[s]
                                     ELSE IF s \in DOMAIN unset THEN unset[s] ELSE 0],
     !.bufsize = MBuf.size, !.frames = MBuf.frames]
=============================================================================
