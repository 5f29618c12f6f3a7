-------------------------------- MODULE Ov511 --------------------------------
(***************************************************************************)
(* The driver of the webcams with an OV511 (lib/ov511_drvr.c): fewer       *)
(* settings, one of which is the palette, and nothing kept in the camera.  *)
(* Where its code is that of lib/pwc_drvr.c with the names changed it is   *)
(* given by the operator of Pwc.                                           *)
(***************************************************************************)
EXTENDS Pwc

CONSTANTS
  Ov511Limits,   \* top_x, min_fract, half_x, diff_fract of lava_state[], fractions in percent
  Ov511Size      \* bound: height and width of the preset, 288 and 352 in the code

ASSUME Ov511Assumption == Ov511Limits \in [1 .. 4 -> Nat]

Ov511Picture  == {"bright", "hue", "colour", "contrast"}
Ov511Window   == {"height", "width"}
Ov511Settings == Ov511Picture \cup Ov511Window \cup {"palette"}

OV511_MAX_PICT    == 65535
OV511_DEF_PALETTE == YUV420P
VIDEO_MAX_FRAME   == 32

\* dsb_c100, the values best for entropy: every setting is to be changed.
ov511_state ==
  [bright |-> 48640, hue |-> OV511_MAX_PICT, colour |-> OV511_MAX_PICT, contrast |-> OV511_MAX_PICT,
   height |-> Ov511Size[1], width |-> Ov511Size[2], palette |-> OV511_DEF_PALETTE]

ov511_LavaRnd ==
  [no_cam(Ov511Settings) EXCEPT !.val = ov511_state, !.mask = Ov511Settings, !.tmp = Ov511Limits]

-----------------------------------------------------------------------------
(* ov511_argv() and ov511_check().                                         *)

ov511_opt ==
  [b |-> <<"bright", 0, OV511_MAX_PICT>>, h |-> <<"hue", 0, OV511_MAX_PICT>>,
   c |-> <<"colour", 0, OV511_MAX_PICT>>, n |-> <<"contrast", 0, OV511_MAX_PICT>>,
   H |-> <<"height", 1, INT_MAX>>, W |-> <<"width", 1, INT_MAX>>,
   P |-> <<"palette", GREY, YUV410P>>]

\* Options of the other driver, which are ignored but for their values.
ov511_ignored == {"g", "f", "C", "a", "s", "m", "R", "B", "o", "O", "S", "l", "F", "N"}

ov511_option(x, o) ==
  CASE o[1] \in DOMAIN ov511_opt -> setting_option(x, o, ov511_opt)
    [] o[1] = "L" -> [x EXCEPT !.n_cam = ov511_LavaRnd]
    [] OTHER -> common_option(x, o)

ov511_argv_start(x) ==
  [x EXCEPT !.n_cam = [no_cam(Ov511Settings) EXCEPT !.tmp = Ov511Limits], !.flag = default_flag]

\* The camera's own limits on height and width are not known where it is called.
ov511_in_range(s, v) ==
  CASE s \in Ov511Picture -> v \in 0 .. OV511_MAX_PICT
    [] s = "palette" -> valid_palette(v)
    [] s \in Ov511Window -> v \in 1 .. OV511_MAX_PICT

ov511_check(cam) == \A s \in cam.mask : ov511_in_range(s, cam.val[s])

-----------------------------------------------------------------------------
(* ov511_get() and ov511_set().                                            *)

ov511_identify(x) == {x, fail(x, "NOCAM"), fail(x, "IDENT")}

\* Into o_cam or n_cam, all of which it clears first.
ov511_get(x, into) ==
  Then(ov511_identify(x),
       LAMBDA y : ioctl(y, [y EXCEPT ![into] = fetched(y, Ov511Settings, Ov511Settings, <<>>)], "GETPARAM"))

ov511_set_palette(x, cam) ==
  IF "palette" \notin cam.mask THEN {x} ELSE ioctl(x, SetHw(x, [palette |-> cam.val["palette"]]), "PALETTE")

\* Group by group, each of which may fail and leave the ones before it changed.
ov511_set(x, cam) ==
  IF cam.mask = {} THEN {x}
  ELSE Then(Then(Then(ov511_identify(x), LAMBDA y : SetGroup(y, cam, Ov511Picture)),
                 LAMBDA y : ov511_set_palette(y, cam)),
            LAMBDA y : SetGroup(y, cam, Ov511Window))

-----------------------------------------------------------------------------
(* ov511_open() and what only it calls.                                    *)

\* Where the device says that the last frame is, if it says so.
says_last(t) == t.bufsize > 0 /\ t.frames \in 1 .. VIDEO_MAX_FRAME - 1 /\ MBuf.offsets[t.frames] > 0

ov511_opsize(x, t) ==
  {IF y.ret = "OK" /\ says_last(t) THEN [y EXCEPT !.siz.mmap_lavaoff = MBuf.offsets[t.frames]]
   ELSE y : y \in pwc_opsize(x, t)}

ov511_msync(x) == pwc_msync(x)

ov511_mmap(x) == pwc_mmap(x)

\* The limits of the sanity check are carried round the fetching of the new state.
ov511_limits(y) == [y EXCEPT !.n_cam.tmp = y.o_cam.tmp]

\* As the other driver, but nothing that was saved is put in force first.
ov511_open_state(x, given) ==
  LET tmp == IF given THEN x.n_cam.tmp ELSE Ov511Limits
      old == {[y EXCEPT !.o_cam.tmp = tmp] : y \in ov511_get(x, "o_cam")}
  IN IF ~given THEN old
     ELSE Then(Then(Then(old, LAMBDA y : ov511_set(y, x.n_cam)), LAMBDA y : ov511_get(y, "n_cam")),
               LAMBDA y : {ov511_limits(y)})

\* The palette of the opening state, which a new state may have changed since.
ov511_open_palette(x) == pwc_open_palette(x)

ov511_open_buffer(x) == pwc_open_buffer(x)

ov511_warmup(x) == pwc_warmup(x)

\* A failure leaves the device open.  The palette is looked at after the state
\* that the sizes are computed from has been copied.
ov511_open(x, given) ==
  LET state == Then(pwc_device(x), LAMBDA y : ov511_open_state(y, given))
  IN Then(state, LAMBDA y :
       LET t == IF given THEN y.n_cam ELSE y.o_cam
       IN Then(Then(Then(Then(ov511_open_palette(y), LAMBDA z : ov511_opsize(z, t)),
                         ov511_open_buffer),
                    pwc_open_prev),
               ov511_warmup))

-----------------------------------------------------------------------------
(* The frames.                                                             *)

ov511_close(x) == pwc_close(x)

ov511_get_frame(x) == pwc_get_frame(x)

ov511_frame_waits(x) == pwc_frame_waits(x)
=============================================================================
