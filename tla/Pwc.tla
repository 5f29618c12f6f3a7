--------------------------------- MODULE Pwc ---------------------------------
(***************************************************************************)
(* The driver of the Philips webcams (lib/pwc_drvr.c).  A call is the set  *)
(* of its outcomes.  VIDIOC.. requests that fetch and requests that set    *)
(* fail with errors that are not told apart (LAVACAM_ERR_GETPARAM).        *)
(***************************************************************************)
EXTENDS VideoCamera

CONSTANTS
  PwcLimits,   \* top_x, min_fract, half_x, diff_fract of lava_state[], fractions in percent
  PwcSize      \* bound: height and width of the preset, 120 and 160 in the code

ASSUME PwcAssumption == PwcLimits \in [1 .. 4 -> Nat]

PwcPicture  == {"bright", "hue", "colour", "contrast", "gamma"}
PwcWindow   == {"height", "width", "fps"}
PwcWhite    == {"white_mode", "white_red", "white_blue"}
PwcOptional == {"on", "off", "sharpness", "backlight", "flicker", "dyn_noise"}  \* not every camera has these
PwcWritten  == {"agc", "speed"}                                                 \* cannot be fetched
PwcSettings == PwcPicture \cup PwcWindow \cup {"compress"} \cup PwcWhite \cup PwcOptional
                          \cup PwcWritten \cup {"palette"}

PWC_MAX_PICT == 65534
PWC_UNSET    == -2        \* PWC_UNSET_BACKLIGHT, PWC_UNSET_FLICKER
INT_MAX      == 2147483647
PWC_WB_MANUAL == 3

\* cam_730740, the values best for entropy: every setting is to be changed.
pwc_state ==
  [bright |-> PWC_MAX_PICT, hue |-> PWC_MAX_PICT, colour |-> PWC_MAX_PICT,
   contrast |-> PWC_MAX_PICT, gamma |-> PWC_MAX_PICT,
   height |-> PwcSize[1], width |-> PwcSize[2], fps |-> 30, compress |-> 0,
   white_mode |-> 2, white_red |-> 31488, white_blue |-> 21248, on |-> 0, off |-> 0,
   sharpness |-> 65536, backlight |-> 0, flicker |-> 0, dyn_noise |-> 0,
   agc |-> 65535, speed |-> 65535, palette |-> 0]

pwc_LavaRnd ==
  [no_cam(PwcSettings) EXCEPT !.val = pwc_state, !.mask = PwcSettings \ {"palette"}, !.tmp = PwcLimits]

-----------------------------------------------------------------------------
(* pwc_argv(): the options, by the settings they give and their ranges.    *)

pwc_picture_opt ==
  [b |-> <<"bright", 0, PWC_MAX_PICT>>, h |-> <<"hue", 0, PWC_MAX_PICT>>,
   c |-> <<"colour", 0, PWC_MAX_PICT>>, n |-> <<"contrast", 0, PWC_MAX_PICT>>,
   g |-> <<"gamma", 0, PWC_MAX_PICT>>]

pwc_window_opt ==
  [H |-> <<"height", 1, INT_MAX>>, W |-> <<"width", 1, INT_MAX>>, f |-> <<"fps", 1, INT_MAX>>,
   C |-> <<"compress", 0, 3>>, a |-> <<"agc", -1, 65535>>, s |-> <<"speed", -1, 65535>>]

pwc_other_opt ==
  [m |-> <<"white_mode", 0, 4>>, R |-> <<"white_red", 0, 65535>>, B |-> <<"white_blue", 0, 65535>>,
   o |-> <<"on", 0, 25000>>, O |-> <<"off", 0, 25000>>, S |-> <<"sharpness", -1, 65536>>,
   N |-> <<"dyn_noise", 0, 3>>]

pwc_opt == pwc_picture_opt @@ pwc_window_opt @@ pwc_other_opt

\* Options that are ignored: their values are not passed over.
pwc_ignored == {"P"}

\* -l and -F take any value but one.
pwc_option(x, o) ==
  CASE o[1] \in DOMAIN pwc_opt -> setting_option(x, o, pwc_opt)
    [] o[1] = "l" -> IF o[2] = PWC_UNSET THEN fail(x, "ARG")
                     ELSE [x EXCEPT !.n_cam.val["backlight"] = o[2], !.n_cam.mask = @ \cup {"backlight"}]
    [] o[1] = "F" -> IF o[2] = PWC_UNSET THEN fail(x, "ARG")
                     ELSE [x EXCEPT !.n_cam.val["flicker"] = o[2], !.n_cam.mask = @ \cup {"flicker"}]
    [] o[1] = "L" -> [x EXCEPT !.n_cam = pwc_LavaRnd]
    [] OTHER -> common_option(x, o)

\* What the options are put into.
pwc_argv_start(x) ==
  [x EXCEPT !.n_cam = [no_cam(PwcSettings) EXCEPT !.tmp = PwcLimits], !.flag = default_flag]

\* pwc_check(), setting by setting; the camera's own limits on height and width
\* are not known where it is called.
pwc_in_range(s, v) ==
  CASE s \in PwcPicture -> v \in 0 .. PWC_MAX_PICT
    [] s \in PwcWindow -> v \in 1 .. PWC_MAX_PICT
    [] s = "compress" -> v \in 0 .. 3
    [] s = "agc" -> v \in -65535 .. 65535
    [] s = "speed" -> v \in -1 .. 65535
    [] s = "white_mode" -> v \in 0 .. 4
    [] s \in {"white_red", "white_blue"} -> v \in 0 .. 65535
    [] s \in {"on", "off"} -> v \in 0 .. 25000
    [] s = "sharpness" -> v \in -1 .. 65536
    [] s \in {"backlight", "flicker"} -> v # PWC_UNSET
    [] s = "dyn_noise" -> v \in 0 .. 3

\* mutant: nothing is checked
pwc_check_not(cam) == TRUE

pwc_check(cam) == \A s \in cam.mask : pwc_in_range(s, cam.val[s])

-----------------------------------------------------------------------------
(* pwc_get() and pwc_set().                                                *)

\* The camera is asked for its name and type, then for what it is set to.
pwc_identify(x) == {x, fail(x, "NOCAM"), fail(x, "IDENT"), fail(x, "TYPE")}

\* A palette that is not known is made RAW.
pwc_get_palette(x) ==
  IF valid_palette(x.hw.set["palette"]) THEN {x} ELSE ioctl(x, SetHw(x, [palette |-> RAW]), "SETPARAM")

\* What a camera without the optional requests is said to be set to.
pwc_unset == [on |-> -2, off |-> -2, sharpness |-> -2, backlight |-> -2, flicker |-> -2, dyn_noise |-> -1]

\* Into o_cam or n_cam, all of which it clears first: the channel, the limits of
\* the sanity check and what is to be changed.
pwc_fetch(x, into) ==
  LET known == (PwcSettings \ PwcWritten) \ (IF x.hw.optional THEN {} ELSE PwcOptional)
  IN ioctl(x, [x EXCEPT ![into] = fetched(x, PwcSettings, known, pwc_unset)], "GETPARAM")

pwc_get(x, into) ==
  Then(Then(pwc_identify(x), pwc_get_palette), LAMBDA y : pwc_fetch(y, into))

\* Red and blue are given to a camera only when the mode is manual.
pwc_white(x, cam) ==
  LET mode == IF "white_mode" \in cam.mask THEN cam.val["white_mode"] ELSE x.hw.set["white_mode"]
  IN IF cam.mask \cap PwcWhite = {} THEN {x}
     ELSE IF mode = PWC_WB_MANUAL THEN SetGroup(x, cam, PwcWhite)
     ELSE ioctl(x, SetHw(x, [s \in cam.mask \cap {"white_mode"} |-> mode]), "SETPARAM")

\* Whether these are taken is not looked at.
pwc_optional(x, cam) ==
  {IF x.hw.optional THEN SetHw(x, [s \in cam.mask \cap PwcOptional |-> cam.val[s]]) ELSE x}

\* VIDIOCPWCSUSER: what the camera is set to is kept in the camera.
pwc_save(x) == ioctl(x, [x EXCEPT !.saved = x.hw.set], "SETPARAM")

pwc_set_picture(x, cam) ==
  Then(SetGroup(x, cam, PwcPicture), LAMBDA y : SetGroup(y, cam, PwcWindow))

pwc_set_light(x, cam) ==
  Then(Then(SetGroup(x, cam, {"compress"}), LAMBDA y : SetGroup(y, cam, {"agc"})),
       LAMBDA y : SetGroup(y, cam, {"speed"}))

\* Group by group, each of which may fail and leave the ones before it changed;
\* nothing is done when nothing is to be changed.
pwc_set(x, cam) ==
  IF cam.mask = {} THEN {x}
  ELSE Then(Then(Then(Then(Then(pwc_identify(x), LAMBDA y : pwc_set_picture(y, cam)),
                           LAMBDA y : pwc_set_light(y, cam)),
                      LAMBDA y : pwc_white(y, cam)),
                 LAMBDA y : pwc_optional(y, cam)),
            pwc_save)

-----------------------------------------------------------------------------
(* pwc_open() and what only it calls.                                      *)

\* pwc_opsize(): where the chaos is for a camera in state t, by read() and in the
\* mapped buffer, of which the last frame is used.
pwc_opsize(x, t) ==
  LET len == IF x.flag.A THEN size_of(t) ELSE zone_of(t)
      siz == [no_siz EXCEPT
                !.limits = t.tmp, !.palette = t.val["palette"], !.lavalen = len,
                !.readsize = IF t.val["height"] > 0 /\ t.val["width"] > 0 THEN size_of(t) ELSE 0,
                !.mmapsize = IF t.bufsize > 0 /\ t.frames > 0 THEN t.bufsize ELSE 0,
                !.mmap_lavaoff = (t.frames - 1) * size_of(t)]
  IN IF size_of(t) = 0 THEN {fail(x, "NOSIZE")}
     ELSE IF ~chaos_known(t.val["palette"]) THEN {fail(x, "PALETTE")}
     ELSE ioctl(x, [x EXCEPT !.siz = siz], "GETPARAM")

\* mutant: the next capture is started before the frame is given back
pwc_msync_swapped(x) == IF x.siz.use_read THEN {x} ELSE Then(MCAPTURE(x), SYNC)

\* pwc_msync(): the frame is given back, and the next one is captured into it.
pwc_msync(x) == IF x.siz.use_read THEN {x} ELSE Then(SYNC(x), MCAPTURE)

\* pwc_mmap(): the mapping stays when the camera does not capture into it.
pwc_mmap(x) ==
  {fail(x, "NOMMAP")} \cup
  {IF y.ret = "OK" THEN [y EXCEPT !.siz.image = "map"] ELSE fail(y, "NOMMAP") :
     y \in Then(MCAPTURE([x EXCEPT !.mem.image = @ + 1]), pwc_msync)}

pwc_device(x) ==
  LET y == [x EXCEPT !.mem.fd = @ + 1]
  IN {fail(x, "OPEN"), fail(x, "PERMOPEN"), fail(y, "CHAN"), y}

\* mutant: the camera is left as it is
pwc_restore_not(x) == {x}

\* What was saved in the camera is put in force again: every caller has def 0.
pwc_restore(x) == ioctl(x, [x EXCEPT !.hw.set = x.saved], "SETPARAM")

\* mutant: the limits are lost when the new state is fetched again
pwc_limits_lost(y) == [y EXCEPT !.o_cam.tmp = y.n_cam.tmp]

\* The limits of the sanity check are carried round the fetching of the new state.
pwc_limits(y) == [y EXCEPT !.n_cam.tmp = y.o_cam.tmp]

\* The opening state is fetched; a new state, if given, is set and fetched.
pwc_open_state(x, given) ==
  LET tmp == IF given THEN x.n_cam.tmp ELSE PwcLimits
      old == {[y EXCEPT !.o_cam.tmp = tmp] : y \in pwc_get(x, "o_cam")}
  IN IF ~given THEN old
     ELSE Then(Then(Then(old, LAMBDA y : pwc_set(y, x.n_cam)), LAMBDA y : pwc_get(y, "n_cam")),
               LAMBDA y : {pwc_limits(y)})

\* pwc_get() leaves no palette that this would change.
pwc_open_palette(x) ==
  IF valid_palette(x.o_cam.val["palette"]) THEN {x}
  ELSE {[y EXCEPT !.o_cam.val["palette"] = YUV420P] :
          y \in ioctl(x, SetHw(x, [palette |-> YUV420P]), "SETPARAM")}

\* Which of read() and mmap() is used, and its buffer.  M is what -M takes away,
\* and is tested the other way round here.
pwc_open_buffer(x) ==
  LET read == [x EXCEPT !.siz.use_read = TRUE, !.siz.image_len = x.siz.readsize,
                        !.siz.chaos_len = x.siz.lavalen]
      map  == [x EXCEPT !.siz.image_len = x.siz.mmapsize, !.siz.lavaoff = x.siz.mmap_lavaoff,
                        !.siz.chaos_len = x.siz.lavalen]
  IN IF x.siz.readsize = 0 /\ x.flag.M THEN {fail(x, "NOREAD")}
     ELSE IF x.siz.mmapsize = 0 /\ ~x.flag.M THEN {fail(x, "NOMMAP")}
     ELSE IF x.flag.M THEN (IF x.siz.mmapsize = 0 THEN {fail(x, "NOMMAP")} ELSE pwc_mmap(map))
     ELSE IF x.siz.readsize = 0 THEN {fail(x, "NOREAD")}
     ELSE {fail(x, "NOREAD"), [read EXCEPT !.siz.image = "heap", !.mem.image = @ + 1]}

pwc_open_prev(x) ==
  {fail(x, "MALLOC"), [x EXCEPT !.siz.prev = "zero", !.mem.prev = @ + 1]}

\* Frames are tossed for a while.  A failure gives the image back, but not when the
\* time is not known at the start or it is pwc_msync() that fails.
pwc_warmup(x) ==
  {x, fail(x, "GETTIME"), fail([x EXCEPT !.siz.image = "none", !.siz.image_len = 0, !.mem.image = @ - 1], "WARMUP")}
  \cup {fail(y, "WARMUP") : y \in {z \in pwc_msync(x) : z.ret # "OK"}}

\* A failure leaves the device open.
pwc_open(x, given) ==
  LET state == Then(Then(pwc_device(x), pwc_restore), LAMBDA y : pwc_open_state(y, given))
  IN Then(state, LAMBDA y :
       LET t == IF given THEN y.n_cam ELSE y.o_cam
       IN Then(Then(Then(Then(pwc_open_palette(y), LAMBDA z : pwc_opsize(z, t)),
                         pwc_open_buffer),
                    pwc_open_prev),
               pwc_warmup))

-----------------------------------------------------------------------------
(* The frames.                                                             *)

\* mutant: the image is given back only when it was read
pwc_free_image_read(x) ==
  IF x.siz.use_read THEN [x EXCEPT !.mem.image = @ - 1, !.siz.image = "none"] ELSE x

pwc_free_image(x) ==
  IF x.siz.image # "none" THEN [x EXCEPT !.mem.image = @ - 1, !.siz.image = "none"] ELSE x

pwc_close(x) ==
  LET y == pwc_free_image(x)
      z == [y EXCEPT !.mem.prev = @ - (IF y.siz.prev # "none" THEN 1 ELSE 0),
                     !.siz.prev = "none", !.siz.image_len = 0, !.siz.chaos_len = 0,
                     !.mem.files = @ - (IF y.flag.files THEN 1 ELSE 0), !.flag.files = FALSE,
                     !.mem.fd = @ - 1]
  IN {z, fail(z, "CLOSE")}

\* mutant: there is no wait
pwc_frame_waits_not(x) == TRUE

\* pwc_wait_frame() has a frame: by read() that is for the camera to say.
pwc_frame_waits(x) == x.siz.use_read \/ x.hw.capture = "done"

\* pwc_get_frame(): a frame is read whole, or it fails; a mapped one is there.
pwc_get_frame(x) ==
  IF ~x.siz.use_read THEN {x}
  ELSE IF x.siz.image = "none" THEN {fail(x, "NOSIZE")}
  ELSE {[x EXCEPT !.hw.frame = f] : f \in DOMAIN Patterns} \cup {fail(x, "IOERR"), fail(x, "FRAME")}
=============================================================================
