---------------------------- MODULE CaptureProofs ----------------------------
(***************************************************************************)
(* What the programs that use a camera promise, for every camera, command  *)
(* line, buffer and length, whatever call fails: a camera is opened, used  *)
(* and closed under the invariant CaptureInv.  A call is a set of outcomes *)
(* and each call has a lemma about its outcomes, the calls that are made   *)
(* of others after those.                                                  *)
(***************************************************************************)
EXTENDS CaptureProperties, TurnProofs

-----------------------------------------------------------------------------
(* Worlds.                                                                 *)

LEMMA Domains ==
  /\ DOMAIN no_cam({}) = {"val", "mask", "tmp", "bufsize", "frames"}
  /\ \A S : DOMAIN no_cam(S) = DOMAIN no_cam({})
  /\ DOMAIN default_flag = {"A", "M", "T", "files"}
  /\ DOMAIN no_mem = {"fd", "image", "prev", "files"}
  /\ DOMAIN no_siz = {"image", "image_len", "lavaoff", "chaos_len", "prev", "readsize", "mmapsize",
                      "mmap_lavaoff", "lavalen", "use_read", "palette", "limits", "frame_num"}
  BY DEF no_cam, default_flag, no_mem, no_siz

LEMMA FailWorld ==
  ASSUME NEW x, World(x), NEW err
  PROVE  /\ World(fail(x, err)) /\ fail(x, err).ret = err
         /\ fail(x, err).type = x.type /\ fail(x, err).saved = x.saved /\ fail(x, err).hw = x.hw
         /\ fail(x, err).o_cam = x.o_cam /\ fail(x, err).n_cam = x.n_cam
         /\ fail(x, err).siz = x.siz /\ fail(x, err).flag = x.flag /\ fail(x, err).mem = x.mem
<1> DEFINE y == fail(x, err)
<1>1. /\ DOMAIN y = DOMAIN x
      /\ y.ret = err /\ y.type = x.type /\ y.saved = x.saved /\ y.hw = x.hw
      /\ y.o_cam = x.o_cam /\ y.n_cam = x.n_cam /\ y.siz = x.siz /\ y.flag = x.flag /\ y.mem = x.mem
  BY DEF fail, World, Shape
<1> HIDE DEF y
<1>2. World(y)
  BY <1>1 DEF World, Shape
<1> QED BY <1>1, <1>2 DEF y

-----------------------------------------------------------------------------
(* What the device is set to.                                              *)

\* From x to y only the result, the camera states and what the device is set to
\* have changed.
Tuned(x, y) ==
  /\ World(y)
  /\ y.type = x.type /\ y.siz = x.siz /\ y.flag = x.flag /\ y.mem = x.mem
  /\ y.hw.capture = x.hw.capture /\ y.hw.frame = x.hw.frame

\* Nor the camera states.
SetIn(x, y) == Tuned(x, y) /\ y.o_cam = x.o_cam /\ y.n_cam = x.n_cam

\* Of the settings that can be kept, those in S are now as asked, and no others have
\* changed.
Put(x, y, cam, S) ==
  \A s \in Kept \cap DOMAIN x.hw.set :
    y.hw.set[s] = IF s \in cam.mask \cap S THEN cam.val[s] ELSE x.hw.set[s]

\* A part of a set: what is saved stays, and if all went well S has been put.
Sets(x, y, cam, S) == SetIn(x, y) /\ y.saved = x.saved /\ (y.ret = "OK" => Put(x, y, cam, S))

AllowedBy(x, cam) == \A s \in cam.mask : allowed(x.type, s, cam.val[s])

LEMMA TunedTrans ==
  ASSUME NEW x, NEW y, NEW z, Tuned(x, y)
  PROVE  /\ Tuned(y, z) => Tuned(x, z)
         /\ SetIn(x, y) /\ SetIn(y, z) => SetIn(x, z)
  BY DEF Tuned, SetIn

LEMMA TunedSame ==
  ASSUME NEW x, World(x)
  PROVE  /\ SetIn(x, x)
         /\ \A err : SetIn(x, fail(x, err)) /\ fail(x, err).saved = x.saved /\ fail(x, err).ret = err
  BY FailWorld DEF Tuned, SetIn

LEMMA SetHwTunes ==
  ASSUME NEW x, World(x), NEW f, \A s \in DOMAIN f : allowed(x.type, s, f[s])
  PROVE  /\ SetIn(x, SetHw(x, f)) /\ SetHw(x, f).saved = x.saved /\ SetHw(x, f).ret = x.ret
         /\ SetHw(x, f).hw.optional = x.hw.optional
         /\ \A s \in DOMAIN x.hw.set :
              SetHw(x, f).hw.set[s] = IF s \in DOMAIN f THEN f[s] ELSE x.hw.set[s]
<1> DEFINE y == SetHw(x, f)
           set == [s \in DOMAIN x.hw.set |-> IF s \in DOMAIN f THEN f[s] ELSE x.hw.set[s]]
<1>1. /\ DOMAIN y = DOMAIN x /\ y.hw = [x.hw EXCEPT !.set = set]
      /\ y.ret = x.ret /\ y.type = x.type /\ y.saved = x.saved
      /\ y.o_cam = x.o_cam /\ y.n_cam = x.n_cam /\ y.siz = x.siz /\ y.flag = x.flag /\ y.mem = x.mem
  BY DEF SetHw, World, Shape
<1>2. Settings(x.type, set)
  BY DEF World, Settings
<1>3. \A s \in DOMAIN x.hw.set : set[s] = IF s \in DOMAIN f THEN f[s] ELSE x.hw.set[s]
  OBVIOUS
<1> HIDE DEF y, set
<1>4. /\ y.hw.set = set /\ y.hw.capture = x.hw.capture /\ y.hw.frame = x.hw.frame
      /\ y.hw.optional = x.hw.optional /\ DOMAIN y.hw = DOMAIN x.hw
  BY <1>1 DEF World, Shape
<1>5. World(y)
  BY <1>1, <1>2, <1>4 DEF World, Shape
<1> QED BY <1>1, <1>3, <1>4, <1>5 DEF y, SetIn, Tuned

\* A group of settings is put into the device, or not.
LEMMA SetGroupTunes ==
  ASSUME NEW x, World(x), NEW cam, AllowedBy(x, cam), NEW S, NEW y \in SetGroup(x, cam, S)
  PROVE  Sets(x, y, cam, S)
<1> DEFINE f == [s \in cam.mask \cap S |-> cam.val[s]]
           z == SetHw(x, f)
<1>1. DOMAIN f = cam.mask \cap S /\ \A s \in DOMAIN f : f[s] = cam.val[s]
  OBVIOUS
<1>2. y \in {x, z, fail(x, "SETPARAM")} /\ (y = x => DOMAIN f = {} \/ x = z \/ x = fail(x, "SETPARAM"))
  BY DEF SetGroup, ioctl
<1> HIDE DEF f
<1>3. \A s \in DOMAIN f : allowed(x.type, s, f[s])
  BY <1>1 DEF AllowedBy
<1>4. SetIn(x, z) /\ z.saved = x.saved /\ Put(x, z, cam, S)
  BY <1>1, <1>3, SetHwTunes DEF Put
<1> HIDE DEF z
<1>5. CASE y = z
  BY <1>4, <1>5 DEF Sets
<1>6. CASE y = fail(x, "SETPARAM")
  BY <1>6, TunedSame DEF Sets
<1>7. CASE y = x /\ DOMAIN f = {}
  BY <1>1, <1>7, TunedSame DEF Put, Sets
<1> QED BY <1>2, <1>5, <1>6, <1>7

LEMMA SetsThen ==
  ASSUME NEW x, World(x), NEW y, NEW z, NEW cam, NEW S, NEW T, Sets(x, y, cam, S),
         IF y.ret = "OK" THEN Sets(y, z, cam, T) ELSE z = y
  PROVE  Sets(x, z, cam, S \cup T)
<1>1. CASE y.ret # "OK"
  BY <1>1 DEF Sets
<1>2. CASE y.ret = "OK" /\ Sets(y, z, cam, T)
  <2>1. SetIn(x, z) /\ z.saved = x.saved
    BY <1>2, TunedTrans DEF Sets, SetIn
  <2>2. DOMAIN y.hw.set = DOMAIN x.hw.set
    BY DEF Sets, SetIn, Tuned, World, Settings
  <2>3. z.ret = "OK" => Put(x, z, cam, S \cup T)
    BY <1>2, <2>2 DEF Sets, Put
  <2> QED BY <2>1, <2>3 DEF Sets
<1> QED BY <1>1, <1>2

\* Nothing is put, whether or not it fails.
LEMMA SetsNone ==
  ASSUME NEW x, World(x), NEW cam
  PROVE  /\ Sets(x, x, cam, {})
         /\ \A err, S : err # "OK" => Sets(x, fail(x, err), cam, S)
  BY TunedSame DEF Sets, Put

LEMMA SetsAllows ==
  ASSUME NEW x, NEW y, NEW cam, NEW S, Sets(x, y, cam, S), AllowedBy(x, cam)
  PROVE  World(y) /\ AllowedBy(y, cam)
  BY DEF Sets, SetIn, Tuned, AllowedBy

LEMMA IdentifyTunes ==
  ASSUME NEW x, World(x), NEW cam, NEW y \in pwc_identify(x)
  PROVE  Sets(x, y, cam, {})
  BY SetsNone DEF pwc_identify

LEMMA PictureSets ==
  ASSUME NEW x, World(x), NEW cam, AllowedBy(x, cam), NEW z \in pwc_set_picture(x, cam)
  PROVE  Sets(x, z, cam, PwcPicture \cup PwcWindow)
<1>1. PICK y \in SetGroup(x, cam, PwcPicture) :
        IF y.ret = "OK" THEN z \in SetGroup(y, cam, PwcWindow) ELSE z = y
  BY DEF pwc_set_picture, Then
<1>2. Sets(x, y, cam, PwcPicture)
  BY SetGroupTunes
<1>3. World(y) /\ AllowedBy(y, cam)
  BY <1>2, SetsAllows
<1>4. y.ret = "OK" => Sets(y, z, cam, PwcWindow)
  BY <1>1, <1>3, SetGroupTunes
<1> QED BY <1>1, <1>2, <1>4, SetsThen

LEMMA LightSets ==
  ASSUME NEW x, World(x), NEW cam, AllowedBy(x, cam), NEW z \in pwc_set_light(x, cam)
  PROVE  Sets(x, z, cam, {"compress", "agc", "speed"})
<1>1. PICK u \in Then(SetGroup(x, cam, {"compress"}), LAMBDA v : SetGroup(v, cam, {"agc"})) :
        IF u.ret = "OK" THEN z \in SetGroup(u, cam, {"speed"}) ELSE z = u
  BY DEF pwc_set_light, Then
<1>2. PICK y \in SetGroup(x, cam, {"compress"}) :
        IF y.ret = "OK" THEN u \in SetGroup(y, cam, {"agc"}) ELSE u = y
  BY DEF Then
<1>3. Sets(x, y, cam, {"compress"})
  BY SetGroupTunes
<1>4. World(y) /\ AllowedBy(y, cam)
  BY <1>3, SetsAllows
<1>5. y.ret = "OK" => Sets(y, u, cam, {"agc"})
  BY <1>2, <1>4, SetGroupTunes
<1>6. Sets(x, u, cam, {"compress"} \cup {"agc"})
  BY <1>2, <1>3, <1>5, SetsThen
<1>7. World(u) /\ AllowedBy(u, cam)
  BY <1>6, SetsAllows
<1>8. u.ret = "OK" => Sets(u, z, cam, {"speed"})
  BY <1>1, <1>7, SetGroupTunes
<1>9. Sets(x, z, cam, ({"compress"} \cup {"agc"}) \cup {"speed"})
  BY <1>1, <1>6, <1>8, SetsThen
<1>10. ({"compress"} \cup {"agc"}) \cup {"speed"} = {"compress", "agc", "speed"}
  OBVIOUS
<1> QED BY <1>9, <1>10

\* The white balance and what only some cameras have is not kept.
LEMMA NotKept == Kept \cap (PwcWhite \cup PwcOptional \cup {"palette"}) = {}
  BY DEF Kept, PwcPicture, PwcWindow, PwcWritten, PwcWhite, PwcOptional

\* A setting that is not kept may be put into the device in any way.
LEMMA SetHwSets ==
  ASSUME NEW x, World(x), NEW cam, NEW f, \A s \in DOMAIN f : allowed(x.type, s, f[s]),
         DOMAIN f \cap Kept = {}
  PROVE  Sets(x, SetHw(x, f), cam, {})
<1> DEFINE z == SetHw(x, f)
<1>1. /\ SetIn(x, z) /\ z.saved = x.saved
      /\ \A s \in DOMAIN x.hw.set : z.hw.set[s] = IF s \in DOMAIN f THEN f[s] ELSE x.hw.set[s]
  BY SetHwTunes
<1> HIDE DEF z
<1>2. Put(x, z, cam, {})
  BY <1>1 DEF Put
<1>3. Sets(x, z, cam, {})
  BY <1>1, <1>2 DEF Sets
<1> QED BY <1>3 DEF z

LEMMA SetsNothing ==
  ASSUME NEW x, NEW y, NEW cam, NEW S, Sets(x, y, cam, S), S \cap Kept = {}
  PROVE  Sets(x, y, cam, {})
  BY DEF Sets, Put

LEMMA WhiteSets ==
  ASSUME NEW x, World(x), cam_switch[x.type] = "pwc", NEW cam, AllowedBy(x, cam),
         NEW z \in pwc_white(x, cam)
  PROVE  Sets(x, z, cam, {})
<1> DEFINE mode == IF "white_mode" \in cam.mask THEN cam.val["white_mode"] ELSE x.hw.set["white_mode"]
           f == [s \in cam.mask \cap {"white_mode"} |-> mode]
<1>1. \/ z = x
      \/ z \in SetGroup(x, cam, PwcWhite)
      \/ z \in {SetHw(x, f), fail(x, "SETPARAM")}
  BY DEF pwc_white, ioctl
<1>2. CASE z = x
  BY <1>2, SetsNone
<1>3. CASE z \in SetGroup(x, cam, PwcWhite)
  BY <1>3, SetGroupTunes, SetsNothing, NotKept
<1>4. CASE z = SetHw(x, f)
  <2>1. DOMAIN f \subseteq {"white_mode"} /\ \A s \in DOMAIN f : s \in cam.mask /\ f[s] = cam.val[s]
    OBVIOUS
  <2> HIDE DEF f
  <2>2. DOMAIN f \cap Kept = {} /\ \A s \in DOMAIN f : allowed(x.type, s, f[s])
    BY <2>1, NotKept DEF AllowedBy, PwcWhite
  <2> QED BY <1>4, <2>2, SetHwSets
<1>5. CASE z = fail(x, "SETPARAM")
  BY <1>5, SetsNone
<1> QED BY <1>1, <1>2, <1>3, <1>4, <1>5

LEMMA OptionalSets ==
  ASSUME NEW x, World(x), NEW cam, AllowedBy(x, cam), NEW z \in pwc_optional(x, cam)
  PROVE  Sets(x, z, cam, {})
<1> DEFINE f == [s \in cam.mask \cap PwcOptional |-> cam.val[s]]
<1>1. z = x \/ z = SetHw(x, f)
  BY DEF pwc_optional
<1>2. DOMAIN f \subseteq PwcOptional /\ \A s \in DOMAIN f : s \in cam.mask /\ f[s] = cam.val[s]
  OBVIOUS
<1> HIDE DEF f
<1>3. DOMAIN f \cap Kept = {} /\ \A s \in DOMAIN f : allowed(x.type, s, f[s])
  BY <1>2, NotKept DEF AllowedBy
<1> QED BY <1>1, <1>3, SetHwSets, SetsNone

-----------------------------------------------------------------------------
(* pwc_set() and ov511_set().                                              *)

\* What is kept in the camera stays, or is what the device was set to with the
\* settings asked for.
Saves(x, y, cam) ==
  /\ SetIn(x, y)
  /\ \/ y.saved = x.saved
     \/ \A s \in Kept \cap DOMAIN x.hw.set :
          y.saved[s] = IF s \in cam.mask THEN cam.val[s] ELSE x.hw.set[s]

LEMMA SaveSaves ==
  ASSUME NEW x, World(x), NEW z \in pwc_save(x)
  PROVE  SetIn(x, z) /\ (z.saved = x.saved \/ z.saved = x.hw.set)
<1> DEFINE y == [x EXCEPT !.saved = x.hw.set]
<1>1. z = y \/ z = fail(x, "SETPARAM")
  BY DEF pwc_save, ioctl
<1>2. CASE z = y
  <2>1. /\ DOMAIN y = DOMAIN x /\ y.saved = x.hw.set /\ y.hw = x.hw /\ y.type = x.type
        /\ y.o_cam = x.o_cam /\ y.n_cam = x.n_cam /\ y.siz = x.siz /\ y.flag = x.flag /\ y.mem = x.mem
    BY DEF World, Shape
  <2> HIDE DEF y
  <2>2. World(y)
    BY <2>1 DEF World, Shape
  <2> QED BY <1>2, <2>1, <2>2 DEF SetIn, Tuned
<1>3. CASE z = fail(x, "SETPARAM")
  BY <1>3, TunedSame
<1> QED BY <1>1, <1>2, <1>3

LEMMA PwcSetSaves ==
  ASSUME NEW x, World(x), cam_switch[x.type] = "pwc", NEW cam, AllowedBy(x, cam),
         NEW z \in pwc_set(x, cam)
  PROVE  Saves(x, z, cam)
<1>1. CASE cam.mask = {}
  BY <1>1, TunedSame DEF pwc_set, Saves
<1>2. CASE cam.mask # {}
  <2>1. PICK e \in Then(Then(Then(Then(pwc_identify(x), LAMBDA y : pwc_set_picture(y, cam)),
                                  LAMBDA y : pwc_set_light(y, cam)),
                             LAMBDA y : pwc_white(y, cam)),
                        LAMBDA y : pwc_optional(y, cam)) :
          IF e.ret = "OK" THEN z \in pwc_save(e) ELSE z = e
    BY <1>2 DEF pwc_set, Then
  <2>2. PICK d \in Then(Then(Then(pwc_identify(x), LAMBDA y : pwc_set_picture(y, cam)),
                             LAMBDA y : pwc_set_light(y, cam)),
                        LAMBDA y : pwc_white(y, cam)) :
          IF d.ret = "OK" THEN e \in pwc_optional(d, cam) ELSE e = d
    BY <2>1 DEF Then
  <2>3. PICK c \in Then(Then(pwc_identify(x), LAMBDA y : pwc_set_picture(y, cam)),
                        LAMBDA y : pwc_set_light(y, cam)) :
          IF c.ret = "OK" THEN d \in pwc_white(c, cam) ELSE d = c
    BY <2>2 DEF Then
  <2>4. PICK b \in Then(pwc_identify(x), LAMBDA y : pwc_set_picture(y, cam)) :
          IF b.ret = "OK" THEN c \in pwc_set_light(b, cam) ELSE c = b
    BY <2>3 DEF Then
  <2>5. PICK a \in pwc_identify(x) :
          IF a.ret = "OK" THEN b \in pwc_set_picture(a, cam) ELSE b = a
    BY <2>4 DEF Then
  <2> DEFINE Light == {"compress", "agc", "speed"}
             All == PwcPicture \cup PwcWindow \cup Light
  <2>6. Sets(x, a, cam, {}) /\ World(a) /\ AllowedBy(a, cam)
    BY IdentifyTunes, SetsAllows
  <2>7. Sets(x, b, cam, {} \cup (PwcPicture \cup PwcWindow))
    BY <2>5, <2>6, PictureSets, SetsThen
  <2>8. World(b) /\ AllowedBy(b, cam)
    BY <2>7, SetsAllows
  <2>17. b.ret = "OK" => Sets(b, c, cam, Light)
    BY <2>4, <2>8, LightSets
  <2> HIDE DEF Light
  <2>9. Sets(x, c, cam, ({} \cup (PwcPicture \cup PwcWindow)) \cup Light)
    BY <2>4, <2>7, <2>17, SetsThen
  <2>10. ({} \cup (PwcPicture \cup PwcWindow)) \cup Light = All
    BY DEF All
  <2> HIDE DEF All
  <2>11. Sets(x, c, cam, All) /\ World(c) /\ AllowedBy(c, cam) /\ cam_switch[c.type] = "pwc"
    BY <2>9, <2>10, SetsAllows DEF Sets, SetIn, Tuned
  <2>12. Sets(x, d, cam, All)
    BY <2>3, <2>11, WhiteSets, SetsThen, All \cup {} = All
  <2>13. World(d) /\ AllowedBy(d, cam)
    BY <2>12, SetsAllows
  <2>14. Sets(x, e, cam, All)
    BY <2>2, <2>12, <2>13, OptionalSets, SetsThen, All \cup {} = All
  <2>15. CASE e.ret # "OK"
    BY <2>1, <2>14, <2>15 DEF Sets, Saves
  <2>16. CASE e.ret = "OK"
    <3>1. World(e) /\ SetIn(x, e) /\ e.saved = x.saved /\ Put(x, e, cam, All)
      BY <2>14, <2>16, SetsAllows DEF Sets
    <3>2. SetIn(e, z) /\ (z.saved = e.saved \/ z.saved = e.hw.set)
      BY <2>1, <2>16, <3>1, SaveSaves
    <3>3. SetIn(x, z)
      BY <3>1, <3>2, TunedTrans DEF SetIn
    <3>4. Kept \subseteq All
      BY DEF Kept, All, Light, PwcWritten
    <3> QED BY <3>1, <3>2, <3>3, <3>4 DEF Saves, Put
  <2> QED BY <2>15, <2>16
<1> QED BY <1>1, <1>2

LEMMA Ov511SetSaves ==
  ASSUME NEW x, World(x), NEW cam, AllowedBy(x, cam), NEW z \in ov511_set(x, cam)
  PROVE  SetIn(x, z) /\ z.saved = x.saved
<1>1. CASE cam.mask = {}
  BY <1>1, TunedSame DEF ov511_set
<1>2. CASE cam.mask # {}
  <2>1. PICK c \in Then(Then(ov511_identify(x), LAMBDA y : SetGroup(y, cam, Ov511Picture)),
                        LAMBDA y : ov511_set_palette(y, cam)) :
          IF c.ret = "OK" THEN z \in SetGroup(c, cam, Ov511Window) ELSE z = c
    BY <1>2 DEF ov511_set, Then
  <2>2. PICK b \in Then(ov511_identify(x), LAMBDA y : SetGroup(y, cam, Ov511Picture)) :
          IF b.ret = "OK" THEN c \in ov511_set_palette(b, cam) ELSE c = b
    BY <2>1 DEF Then
  <2>3. PICK a \in ov511_identify(x) :
          IF a.ret = "OK" THEN b \in SetGroup(a, cam, Ov511Picture) ELSE b = a
    BY <2>2 DEF Then
  <2>4. Sets(x, a, cam, {}) /\ World(a) /\ AllowedBy(a, cam)
    BY SetsNone, SetsAllows DEF ov511_identify
  <2>5. Sets(x, b, cam, {} \cup Ov511Picture)
    BY <2>3, <2>4, SetGroupTunes, SetsThen
  <2>6. World(b) /\ AllowedBy(b, cam)
    BY <2>5, SetsAllows
  <2>7. b.ret = "OK" => Sets(b, c, cam, {})
    <3> SUFFICES ASSUME b.ret = "OK" PROVE Sets(b, c, cam, {})
      OBVIOUS
    <3> DEFINE f == [palette |-> cam.val["palette"]]
    <3>1. c \in {b, SetHw(b, f), fail(b, "PALETTE")}
      BY <2>2 DEF ov511_set_palette, ioctl
    <3>2. DOMAIN f = {"palette"}
      OBVIOUS
    <3> HIDE DEF f
    <3>3. DOMAIN f \cap Kept = {} /\ \A s \in DOMAIN f : allowed(b.type, s, f[s])
      BY <3>2, NotKept DEF allowed
    <3> QED BY <2>6, <3>1, <3>3, SetHwSets, SetsNone
  <2>8. Sets(x, c, cam, ({} \cup Ov511Picture) \cup {})
    BY <2>2, <2>5, <2>7, SetsThen
  <2>9. World(c) /\ AllowedBy(c, cam)
    BY <2>8, SetsAllows
  <2>10. Sets(x, z, cam, (({} \cup Ov511Picture) \cup {}) \cup Ov511Window)
    BY <2>1, <2>8, <2>9, SetGroupTunes, SetsThen
  <2> QED BY <2>10 DEF Sets
<1> QED BY <1>1, <1>2

-----------------------------------------------------------------------------
(* pwc_get() and ov511_get().                                              *)

\* A camera state as it is found: all that the size of a frame depends on.
Fetched(cam) ==
  /\ DOMAIN cam = DOMAIN no_cam({})
  /\ cam.bufsize = MBuf.size /\ cam.frames = MBuf.frames
  /\ cam.val["height"] \in Nat \ {0} /\ cam.val["width"] \in Nat \ {0}

\* None of the settings that can be kept has changed.
Still(x, y) == \A s \in Kept \cap DOMAIN x.hw.set : y.hw.set[s] = x.hw.set[s]

Gets(x, y, into) ==
  /\ Tuned(x, y) /\ y.saved = x.saved
  /\ into = "o_cam" => y.n_cam = x.n_cam
  /\ into = "n_cam" => y.o_cam = x.o_cam
  /\ y.ret = "OK" => Fetched(y[into]) /\ Still(x, y)

LEMMA FrameAllowed ==
  ASSUME NEW x, World(x), NEW s \in {"height", "width"}
  PROVE  s \in DOMAIN x.hw.set /\ x.hw.set[s] \in Nat \ {0}
<1>1. DOMAIN x.hw.set = camera_settings(x.type) /\ \A k \in DOMAIN x.hw.set : allowed(x.type, k, x.hw.set[k])
  BY DEF World, Settings
<1>2. s \in DOMAIN x.hw.set
  BY <1>1 DEF camera_settings, PwcSettings, PwcWindow, Ov511Settings, Ov511Window
<1>3. ASSUME NEW v, pwc_in_range(s, v)
      PROVE  v \in Nat \ {0}
  <2>1. v \in 1 .. PWC_MAX_PICT
    <3>1. CASE s = "height"
      BY <1>3, <3>1 DEF pwc_in_range, PwcWindow, PwcPicture
    <3>2. CASE s = "width"
      BY <1>3, <3>2 DEF pwc_in_range, PwcWindow, PwcPicture
    <3> QED BY <3>1, <3>2
  <2> QED BY <2>1 DEF PWC_MAX_PICT
<1>4. ASSUME NEW v, ov511_in_range(s, v)
      PROVE  v \in Nat \ {0}
  <2>1. v \in 1 .. OV511_MAX_PICT
    <3>1. CASE s = "height"
      BY <1>4, <3>1 DEF ov511_in_range, Ov511Picture, Ov511Window
    <3>2. CASE s = "width"
      BY <1>4, <3>2 DEF ov511_in_range, Ov511Picture, Ov511Window
    <3> QED BY <3>1, <3>2
  <2> QED BY <2>1 DEF OV511_MAX_PICT
<1>5. allowed(x.type, s, x.hw.set[s]) /\ s # "palette"
  BY <1>1, <1>2
<1>6. pwc_in_range(s, x.hw.set[s]) \/ ov511_in_range(s, x.hw.set[s])
  BY <1>5 DEF allowed
<1> QED BY <1>2, <1>3, <1>4, <1>6

LEMMA FetchedIs ==
  ASSUME NEW x, World(x), NEW settings, NEW known, NEW unset, {"height", "width"} \subseteq settings,
         {"height", "width"} \subseteq known
  PROVE  Fetched(fetched(x, settings, known, unset))
<1> DEFINE c == fetched(x, settings, known, unset)
           val == [s \in settings |-> IF s \in known THEN x.hw.set[s]
                                      ELSE IF s \in DOMAIN unset THEN unset[s] ELSE 0]
<1>1. DOMAIN c = DOMAIN no_cam(settings) /\ c.val = val /\ c.bufsize = MBuf.size /\ c.frames = MBuf.frames
  BY DEF fetched, no_cam
<1>2. val["height"] = x.hw.set["height"] /\ val["width"] = x.hw.set["width"]
  OBVIOUS
<1> HIDE DEF c, val
<1>3. DOMAIN c = DOMAIN no_cam({})
  BY <1>1, Domains
<1> QED BY <1>1, <1>2, <1>3, FrameAllowed DEF Fetched, c

LEMMA GetsThen ==
  ASSUME NEW x, NEW y, NEW z, NEW into, NEW cam, World(x), Sets(x, y, cam, {}),
         IF y.ret = "OK" THEN Gets(y, z, into) ELSE z = y
  PROVE  Gets(x, z, into)
<1>1. CASE y.ret # "OK"
  BY <1>1 DEF Gets, Sets, SetIn
<1>2. CASE y.ret = "OK" /\ Gets(y, z, into)
  <2>1. Tuned(x, y) /\ Tuned(y, z) /\ World(y) /\ y.type = x.type
    BY <1>2 DEF Sets, SetIn, Gets, Tuned
  <2>2. Tuned(x, z)
    BY <2>1, TunedTrans
  <2>3. DOMAIN y.hw.set = DOMAIN x.hw.set
    BY <2>1 DEF World, Settings
  <2>4. Put(x, y, cam, {}) /\ (z.ret = "OK" => Still(y, z))
    BY <1>2 DEF Sets, Gets
  <2>5. z.ret = "OK" => Still(x, z)
    BY <2>3, <2>4 DEF Put, Still
  <2> QED BY <1>2, <2>2, <2>5 DEF Gets, Sets, SetIn
<1> QED BY <1>1, <1>2

\* The state is stored in one of the two camera states.
LEMMA FetchGets ==
  ASSUME NEW x, World(x), NEW into \in {"o_cam", "n_cam"}, NEW cam, Fetched(cam),
         NEW z \in ioctl(x, [x EXCEPT ![into] = cam], "GETPARAM")
  PROVE  Gets(x, z, into)
<1>1. CASE z = [x EXCEPT ![into] = cam]
  <2>1. /\ DOMAIN z = DOMAIN x /\ z[into] = cam /\ z.saved = x.saved /\ z.hw = x.hw
        /\ z.type = x.type /\ z.siz = x.siz /\ z.flag = x.flag /\ z.mem = x.mem
        /\ into = "o_cam" => z.n_cam = x.n_cam
        /\ into = "n_cam" => z.o_cam = x.o_cam
    BY <1>1 DEF World, Shape
  <2>2. DOMAIN z.o_cam = DOMAIN no_cam({}) /\ DOMAIN z.n_cam = DOMAIN no_cam({})
    BY <2>1 DEF World, Shape, Fetched
  <2>3. World(z)
    BY <2>1, <2>2 DEF World, Shape
  <2> QED BY <2>1, <2>3 DEF Gets, Still, Tuned
<1>2. CASE z = fail(x, "GETPARAM")
  BY <1>2, TunedSame DEF Gets, SetIn
<1> QED BY <1>1, <1>2 DEF ioctl

LEMMA PwcGetGets ==
  ASSUME NEW x, World(x), NEW into \in {"o_cam", "n_cam"}, cam_switch[x.type] = "pwc",
         NEW z \in pwc_get(x, into)
  PROVE  Gets(x, z, into)
<1>1. PICK y \in Then(pwc_identify(x), pwc_get_palette) : IF y.ret = "OK" THEN z \in pwc_fetch(y, into) ELSE z = y
  BY DEF pwc_get, Then
<1>2. PICK a \in pwc_identify(x) : IF a.ret = "OK" THEN y \in pwc_get_palette(a) ELSE y = a
  BY <1>1 DEF Then
<1> DEFINE none == no_cam({})
<1>3. Sets(x, a, none, {}) /\ World(a)
  BY IdentifyTunes DEF Sets, SetIn, Tuned
<1> HIDE DEF none
<1>4. a.ret = "OK" => Sets(a, y, none, {})
  <2> SUFFICES ASSUME a.ret = "OK" PROVE Sets(a, y, none, {})
    OBVIOUS
  <2> DEFINE f == [palette |-> RAW]
  <2>1. y \in {a, SetHw(a, f), fail(a, "SETPARAM")}
    BY <1>2 DEF pwc_get_palette, ioctl
  <2>2. DOMAIN f = {"palette"}
    OBVIOUS
  <2> HIDE DEF f
  <2>3. DOMAIN f \cap Kept = {} /\ \A s \in DOMAIN f : allowed(a.type, s, f[s])
    BY <2>2, NotKept DEF allowed
  <2> QED BY <1>3, <2>1, <2>3, SetHwSets, SetsNone
<1>5. Sets(x, y, none, {} \cup {})
  BY <1>2, <1>3, <1>4, SetsThen
<1>6. Sets(x, y, none, {}) /\ World(y) /\ y.type = x.type
  BY <1>5, {} \cup {} = {} DEF Sets, SetIn, Tuned
<1>7. y.ret = "OK" => Gets(y, z, into)
  <2> DEFINE known == (PwcSettings \ PwcWritten) \ (IF y.hw.optional THEN {} ELSE PwcOptional)
             cam == fetched(y, PwcSettings, known, pwc_unset)
  <2>1. y.ret = "OK" => z \in ioctl(y, [y EXCEPT ![into] = cam], "GETPARAM")
    BY <1>1 DEF pwc_fetch
  <2>2. {"height", "width"} \subseteq PwcSettings /\ {"height", "width"} \subseteq known
    BY DEF PwcSettings, PwcWindow, PwcWritten, PwcOptional
  <2> HIDE DEF known
  <2>3. Fetched(cam)
    BY <1>6, <2>2, FetchedIs
  <2> HIDE DEF cam
  <2> QED BY <1>6, <2>1, <2>3, FetchGets
<1> QED BY <1>1, <1>6, <1>7, GetsThen

LEMMA Ov511GetGets ==
  ASSUME NEW x, World(x), cam_switch[x.type] # "pwc", NEW into \in {"o_cam", "n_cam"},
         NEW z \in ov511_get(x, into)
  PROVE  Gets(x, z, into)
<1> DEFINE none == no_cam({})
           cam(y) == fetched(y, Ov511Settings, Ov511Settings, <<>>)
<1>1. PICK y \in ov511_identify(x) :
        IF y.ret = "OK" THEN z \in ioctl(y, [y EXCEPT ![into] = cam(y)], "GETPARAM") ELSE z = y
  BY DEF ov511_get, Then
<1> HIDE DEF none, cam
<1>2. Sets(x, y, none, {}) /\ World(y) /\ y.type = x.type
  <2>1. Sets(x, y, none, {})
    BY SetsNone DEF ov511_identify
  <2> QED BY <2>1 DEF Sets, SetIn, Tuned
<1>3. {"height", "width"} \subseteq Ov511Settings
  BY DEF Ov511Settings, Ov511Window
<1>4. Fetched(cam(y))
  BY <1>2, <1>3, FetchedIs DEF cam
<1>5. y.ret = "OK" => Gets(y, z, into)
  BY <1>1, <1>2, <1>4, FetchGets
<1> QED BY <1>1, <1>2, <1>5, GetsThen

LEMMA LavacamGetGets ==
  ASSUME NEW x, World(x), NEW into \in {"o_cam", "n_cam"}, NEW z \in lavacam_get(x, into)
  PROVE  Gets(x, z, into)
  BY PwcGetGets, Ov511GetGets DEF lavacam_get, driver

-----------------------------------------------------------------------------
(* The first half of pwc_open() and ov511_open(): the states.              *)

\* The state that the sizes are computed from.
State(y, given) == IF given THEN y.n_cam ELSE y.o_cam

Stated(x, y, given, limits) ==
  /\ Tuned(x, y)
  /\ y.ret = "OK" => Fetched(State(y, given)) /\ State(y, given).tmp = limits

LEMMA LimitsStored ==
  ASSUME NEW x, World(x), NEW limits, NEW y,
         y = [x EXCEPT !.o_cam.tmp = limits] \/ y = [x EXCEPT !.n_cam.tmp = limits]
  PROVE  /\ Tuned(x, y) /\ y.ret = x.ret /\ y.saved = x.saved /\ y.hw = x.hw
<1>1. CASE y = [x EXCEPT !.o_cam.tmp = limits]
  <2>1. /\ DOMAIN y = DOMAIN x /\ y.ret = x.ret /\ y.saved = x.saved /\ y.hw = x.hw
        /\ y.type = x.type /\ y.siz = x.siz /\ y.flag = x.flag /\ y.mem = x.mem
        /\ DOMAIN y.o_cam = DOMAIN x.o_cam /\ y.n_cam = x.n_cam
    BY <1>1 DEF World, Shape
  <2> QED BY <2>1 DEF World, Shape, Tuned
<1>2. CASE y = [x EXCEPT !.n_cam.tmp = limits]
  <2>1. /\ DOMAIN y = DOMAIN x /\ y.ret = x.ret /\ y.saved = x.saved /\ y.hw = x.hw
        /\ y.type = x.type /\ y.siz = x.siz /\ y.flag = x.flag /\ y.mem = x.mem
        /\ DOMAIN y.n_cam = DOMAIN x.n_cam /\ y.o_cam = x.o_cam
    BY <1>2 DEF World, Shape
  <2> QED BY <2>1 DEF World, Shape, Tuned
<1> QED BY <1>1, <1>2

LEMMA FetchedLimits ==
  ASSUME NEW cam, Fetched(cam), NEW limits
  PROVE  Fetched([cam EXCEPT !.tmp = limits]) /\ [cam EXCEPT !.tmp = limits].tmp = limits
  BY Domains DEF Fetched

\* The opening state is given the limits of the sanity check.
OldLimits(y, limits) == [y EXCEPT !.o_cam.tmp = limits]

\* From x to y the limits have got into the opening state.
Carried(x, y, limits) == Tuned(x, y) /\ y.o_cam.tmp = limits

\* The opening state is fetched, with those limits.
LEMMA OldState ==
  ASSUME NEW x, World(x), NEW u, Gets(x, u, "o_cam"), NEW limits
  PROVE  /\ Stated(x, OldLimits(u, limits), FALSE, limits) /\ Carried(x, OldLimits(u, limits), limits)
         /\ OldLimits(u, limits).saved = x.saved /\ OldLimits(u, limits).n_cam = x.n_cam
         /\ OldLimits(u, limits).ret = "OK" => Still(x, OldLimits(u, limits))
<1> DEFINE a == OldLimits(u, limits)
<1>1. World(u) /\ Tuned(x, u) /\ u.saved = x.saved /\ u.n_cam = x.n_cam
  BY DEF Gets, Tuned
<1>2. Tuned(u, a) /\ a.ret = u.ret /\ a.saved = u.saved /\ a.hw = u.hw
  BY <1>1, LimitsStored DEF OldLimits
<1>3. a.n_cam = u.n_cam /\ a.o_cam = [u.o_cam EXCEPT !.tmp = limits]
  BY <1>1 DEF World, Shape, OldLimits
<1> HIDE DEF a
<1>4. Tuned(x, a)
  BY <1>1, <1>2, TunedTrans
<1>5. "tmp" \in DOMAIN u.o_cam
  BY <1>1, Domains DEF World, Shape
<1>6. a.o_cam.tmp = limits
  BY <1>3, <1>5
<1>7. a.ret = "OK" => Fetched(u.o_cam) /\ Still(x, u)
  BY <1>2 DEF Gets
<1>8. a.ret = "OK" => Fetched(a.o_cam)
  BY <1>3, <1>7, FetchedLimits
<1>9. a.ret = "OK" => Still(x, a)
  BY <1>2, <1>7 DEF Still
<1>10. Stated(x, a, FALSE, limits) /\ Carried(x, a, limits)
  BY <1>4, <1>6, <1>8 DEF Stated, State, Carried
<1> QED BY <1>1, <1>2, <1>3, <1>9, <1>10 DEF a

\* A new state is set and fetched, and the limits carried round that.
LEMMA StateSet ==
  ASSUME NEW x, NEW a, NEW limits, Carried(x, a, limits),
         NEW b, IF a.ret = "OK" THEN SetIn(a, b) ELSE b = a
  PROVE  Carried(x, b, limits)
<1>1. CASE a.ret = "OK"
  BY <1>1, TunedTrans DEF SetIn, Carried
<1>2. CASE a.ret # "OK"
  BY <1>2
<1> QED BY <1>1, <1>2

LEMMA StateFetched ==
  ASSUME NEW x, NEW b, NEW limits, Carried(x, b, limits),
         NEW c, IF b.ret = "OK" THEN Gets(b, c, "n_cam") ELSE c = b
  PROVE  /\ Carried(x, c, limits) /\ c.saved = b.saved
         /\ c.ret = "OK" => Fetched(c.n_cam)
<1>1. CASE b.ret = "OK"
  BY <1>1, TunedTrans DEF Gets, Carried
<1>2. CASE b.ret # "OK"
  BY <1>2
<1> QED BY <1>1, <1>2

LEMMA LimitsCarried ==
  ASSUME NEW x, NEW c, NEW limits, Carried(x, c, limits), c.ret = "OK" => Fetched(c.n_cam),
         NEW d, IF c.ret = "OK" THEN d = pwc_limits(c) ELSE d = c
  PROVE  Stated(x, d, TRUE, limits) /\ d.saved = c.saved
<1>1. World(c) /\ Tuned(x, c) /\ c.o_cam.tmp = limits
  BY DEF Carried, Tuned
<1>2. CASE c.ret = "OK"
  <2>1. d = [c EXCEPT !.n_cam.tmp = limits]
    BY <1>1, <1>2 DEF pwc_limits
  <2>2. Tuned(c, d) /\ d.saved = c.saved
    BY <1>1, <2>1, LimitsStored
  <2>3. d.n_cam = [c.n_cam EXCEPT !.tmp = limits]
    BY <1>1, <2>1 DEF World, Shape
  <2>4. Fetched(d.n_cam) /\ d.n_cam.tmp = limits
    BY <1>2, <2>3, FetchedLimits
  <2> QED BY <1>1, <2>2, <2>4, TunedTrans DEF Stated, State
<1>3. CASE c.ret # "OK"
  BY <1>1, <1>3 DEF Stated
<1> QED BY <1>2, <1>3

\* What is kept in the camera stays, or becomes what was asked for.
KeptIs(x, y) ==
  \/ y.saved = x.saved
  \/ \A s \in Kept : y.saved[s] = IF s \in x.n_cam.mask THEN x.n_cam.val[s] ELSE x.saved[s]

LEMMA PwcOpenState ==
  ASSUME NEW x, World(x), cam_switch[x.type] = "pwc", x.hw.set = x.saved, NEW given \in BOOLEAN,
         given => AllowedBy(x, x.n_cam), NEW d \in pwc_open_state(x, given)
  PROVE  Stated(x, d, given, IF given THEN x.n_cam.tmp ELSE PwcLimits) /\ KeptIs(x, d)
<1> DEFINE limits == IF given THEN x.n_cam.tmp ELSE PwcLimits
           old == {OldLimits(y, limits) : y \in pwc_get(x, "o_cam")}
<1>1. ASSUME NEW a \in old
      PROVE  /\ Stated(x, a, FALSE, limits) /\ Carried(x, a, limits)
             /\ a.saved = x.saved
             /\ a.ret = "OK" => Still(x, a)
  <2>1. PICK u \in pwc_get(x, "o_cam") : a = OldLimits(u, limits)
    OBVIOUS
  <2>2. Gets(x, u, "o_cam")
    BY PwcGetGets
  <2> HIDE DEF limits
  <2>3. LET y == OldLimits(u, limits)
        IN /\ Stated(x, y, FALSE, limits) /\ Carried(x, y, limits) /\ y.saved = x.saved
           /\ y.ret = "OK" => Still(x, y)
    BY <2>2, OldState
  <2> QED BY <2>1, <2>3
<1>2. CASE ~given
  BY <1>1, <1>2 DEF pwc_open_state, KeptIs, OldLimits
<1>3. CASE given
  <2>1. PICK c \in Then(Then(old, LAMBDA y : pwc_set(y, x.n_cam)), LAMBDA y : pwc_get(y, "n_cam")) :
          IF c.ret = "OK" THEN d = pwc_limits(c) ELSE d = c
    BY <1>3 DEF pwc_open_state, Then, OldLimits
  <2>2. PICK b \in Then(old, LAMBDA y : pwc_set(y, x.n_cam)) :
          IF b.ret = "OK" THEN c \in pwc_get(b, "n_cam") ELSE c = b
    BY <2>1 DEF Then
  <2>3. PICK a \in old : IF a.ret = "OK" THEN b \in pwc_set(a, x.n_cam) ELSE b = a
    BY <2>2 DEF Then
  <2> HIDE DEF limits, old
  <2>4. /\ Carried(x, a, limits) /\ a.saved = x.saved
        /\ a.ret = "OK" => Still(x, a)
    BY <1>1
  <2>5. World(a) /\ a.type = x.type /\ AllowedBy(a, x.n_cam)
    BY <1>3, <2>4 DEF Carried, Tuned, AllowedBy
  <2>6. a.ret = "OK" => Saves(a, b, x.n_cam)
    BY <2>3, <2>5, PwcSetSaves
  <2>7. World(b) /\ b.type = x.type
    BY <2>3, <2>5, <2>6 DEF Saves, SetIn, Tuned
  <2>8. b.ret = "OK" => Gets(b, c, "n_cam")
    BY <2>2, <2>7, PwcGetGets
  <2>13. IF a.ret = "OK" THEN SetIn(a, b) ELSE b = a
    BY <2>3, <2>6 DEF Saves
  <2>14. IF b.ret = "OK" THEN Gets(b, c, "n_cam") ELSE c = b
    BY <2>2, <2>8
  <2>15. Carried(x, b, limits)
    BY <2>4, <2>13, StateSet
  <2>16. Carried(x, c, limits) /\ c.saved = b.saved /\ (c.ret = "OK" => Fetched(c.n_cam))
    BY <2>14, <2>15, StateFetched
  <2>9. Stated(x, d, TRUE, limits) /\ d.saved = b.saved
    BY <2>1, <2>16, LimitsCarried
  <2>10. DOMAIN a.hw.set = camera_settings(x.type) /\ DOMAIN x.hw.set = camera_settings(x.type)
    BY <2>5 DEF World, Settings
  <2>11. Kept \subseteq camera_settings(x.type)
    BY DEF Kept, camera_settings, PwcSettings
  <2>12. KeptIs(x, d)
    <3>1. CASE a.ret # "OK"
      BY <2>3, <2>4, <2>9, <3>1 DEF KeptIs
    <3>2. CASE a.ret = "OK" /\ b.saved = a.saved
      BY <2>4, <2>9, <3>2 DEF KeptIs
    <3>3. CASE a.ret = "OK" /\ b.saved # a.saved
      <4>1. \A s \in Kept : b.saved[s] = IF s \in x.n_cam.mask THEN x.n_cam.val[s] ELSE a.hw.set[s]
        BY <2>6, <2>10, <2>11, <3>3 DEF Saves
      <4>2. \A s \in Kept : a.hw.set[s] = x.hw.set[s]
        BY <2>4, <2>10, <2>11, <3>3 DEF Still
      <4> QED BY <2>9, <4>1, <4>2 DEF KeptIs
    <3> QED BY <3>1, <3>2, <3>3
  <2> QED BY <1>3, <2>9, <2>12 DEF limits
<1> QED BY <1>2, <1>3

LEMMA Ov511OpenState ==
  ASSUME NEW x, World(x), cam_switch[x.type] # "pwc", NEW given \in BOOLEAN,
         given => AllowedBy(x, x.n_cam), NEW d \in ov511_open_state(x, given)
  PROVE  Stated(x, d, given, IF given THEN x.n_cam.tmp ELSE Ov511Limits) /\ d.saved = x.saved
<1> DEFINE limits == IF given THEN x.n_cam.tmp ELSE Ov511Limits
           old == {OldLimits(y, limits) : y \in ov511_get(x, "o_cam")}
<1>1. ASSUME NEW a \in old
      PROVE  Stated(x, a, FALSE, limits) /\ Carried(x, a, limits) /\ a.saved = x.saved
  <2>1. PICK u \in ov511_get(x, "o_cam") : a = OldLimits(u, limits)
    OBVIOUS
  <2>2. Gets(x, u, "o_cam")
    BY Ov511GetGets
  <2> HIDE DEF limits, old
  <2>3. /\ Stated(x, OldLimits(u, limits), FALSE, limits) /\ Carried(x, OldLimits(u, limits), limits)
        /\ OldLimits(u, limits).saved = x.saved
    BY <2>2, OldState
  <2> QED BY <2>1, <2>3
<1>2. CASE ~given
  BY <1>1, <1>2 DEF ov511_open_state, OldLimits
<1>3. CASE given
  <2>1. PICK c \in Then(Then(old, LAMBDA y : ov511_set(y, x.n_cam)), LAMBDA y : ov511_get(y, "n_cam")) :
          IF c.ret = "OK" THEN d = ov511_limits(c) ELSE d = c
    BY <1>3 DEF ov511_open_state, Then, OldLimits
  <2>2. PICK b \in Then(old, LAMBDA y : ov511_set(y, x.n_cam)) :
          IF b.ret = "OK" THEN c \in ov511_get(b, "n_cam") ELSE c = b
    BY <2>1 DEF Then
  <2>3. PICK a \in old : IF a.ret = "OK" THEN b \in ov511_set(a, x.n_cam) ELSE b = a
    BY <2>2 DEF Then
  <2> HIDE DEF limits, old
  <2>4. Carried(x, a, limits) /\ a.saved = x.saved
    BY <1>1
  <2>5. World(a) /\ a.type = x.type /\ AllowedBy(a, x.n_cam)
    BY <1>3, <2>4 DEF Carried, Tuned, AllowedBy
  <2>6. a.ret = "OK" => SetIn(a, b) /\ b.saved = a.saved
    BY <2>3, <2>5, Ov511SetSaves
  <2>7. World(b) /\ b.type = x.type /\ b.saved = x.saved
    BY <2>3, <2>4, <2>5, <2>6 DEF SetIn, Tuned
  <2>8. b.ret = "OK" => Gets(b, c, "n_cam")
    BY <2>2, <2>7, Ov511GetGets
  <2>9. IF a.ret = "OK" THEN SetIn(a, b) ELSE b = a
    BY <2>3, <2>6
  <2>10. IF b.ret = "OK" THEN Gets(b, c, "n_cam") ELSE c = b
    BY <2>2, <2>8
  <2>12. IF c.ret = "OK" THEN d = pwc_limits(c) ELSE d = c
    BY <2>1 DEF ov511_limits, pwc_limits
  <2>13. Carried(x, b, limits)
    BY <2>4, <2>9, StateSet
  <2>14. Carried(x, c, limits) /\ c.saved = b.saved /\ (c.ret = "OK" => Fetched(c.n_cam))
    BY <2>10, <2>13, StateFetched
  <2>11. Stated(x, d, TRUE, limits) /\ d.saved = b.saved
    BY <2>12, <2>14, LimitsCarried
  <2> QED BY <1>3, <2>7, <2>11 DEF limits
<1> QED BY <1>2, <1>3

\* From x to y no more than the device has been opened.
Begun(x, y) ==
  /\ World(y) /\ y.type = x.type /\ y.saved = x.saved /\ y.n_cam = x.n_cam
  /\ y.siz = x.siz /\ y.flag = x.flag /\ y.hw.capture = x.hw.capture
  /\ y.ret = "OK" => y.mem = [x.mem EXCEPT !.fd = @ + 1]

LEMMA DeviceBegins ==
  ASSUME NEW x, World(x), x.mem.fd = 0, NEW y \in pwc_device(x)
  PROVE  Begun(x, y)
<1> DEFINE z == [x EXCEPT !.mem.fd = @ + 1]
<1>1. y = z \/ y = fail(z, "CHAN") \/ y = fail(x, "OPEN") \/ y = fail(x, "PERMOPEN")
  BY DEF pwc_device
<1>2. /\ DOMAIN z = DOMAIN x /\ z.type = x.type /\ z.saved = x.saved /\ z.hw = x.hw
      /\ z.o_cam = x.o_cam /\ z.n_cam = x.n_cam /\ z.siz = x.siz /\ z.flag = x.flag
      /\ z.mem = [x.mem EXCEPT !.fd = @ + 1]
  BY DEF World, Shape
<1> HIDE DEF z
<1>3. /\ DOMAIN z.mem = DOMAIN x.mem /\ z.mem.fd = 1
      /\ z.mem.image = x.mem.image /\ z.mem.prev = x.mem.prev /\ z.mem.files = x.mem.files
  BY <1>2, Domains DEF World, Shape
<1>4. {z.mem.fd, z.mem.image, z.mem.prev, z.mem.files} \subseteq 0 .. 1
  BY <1>3 DEF World
<1>5. World(z)
  BY <1>2, <1>3, <1>4 DEF World, Shape
<1>6. Begun(x, z)
  BY <1>2, <1>5 DEF Begun
<1>7. CASE y = fail(z, "CHAN")
  BY <1>2, <1>5, <1>7, FailWorld DEF Begun
<1>8. CASE y = fail(x, "OPEN") \/ y = fail(x, "PERMOPEN")
  BY <1>8, FailWorld DEF Begun
<1> QED BY <1>1, <1>6, <1>7, <1>8

LEMMA RestoreBegins ==
  ASSUME NEW x, World(x), NEW z \in pwc_restore(x)
  PROVE  SetIn(x, z) /\ z.saved = x.saved /\ (z.ret = "OK" => z.hw.set = z.saved)
<1>1. CASE z = [x EXCEPT !.hw.set = x.saved]
  <2>1. /\ DOMAIN z = DOMAIN x /\ z.type = x.type /\ z.saved = x.saved
        /\ z.o_cam = x.o_cam /\ z.n_cam = x.n_cam /\ z.siz = x.siz /\ z.flag = x.flag /\ z.mem = x.mem
        /\ z.hw = [x.hw EXCEPT !.set = x.saved]
    BY <1>1 DEF World, Shape
  <2>2. /\ z.hw.set = x.saved /\ z.hw.capture = x.hw.capture /\ z.hw.frame = x.hw.frame
        /\ DOMAIN z.hw = DOMAIN x.hw
    BY <2>1 DEF World, Shape
  <2>3. World(z)
    BY <2>1, <2>2 DEF World, Shape
  <2> QED BY <2>1, <2>2, <2>3 DEF SetIn, Tuned
<1>2. CASE z = fail(x, "SETPARAM")
  BY <1>2, TunedSame
<1> QED BY <1>1, <1>2 DEF pwc_restore, ioctl

\* From x to y the first half of the open.
HalfOpen(x, y, given, limits) ==
  /\ World(y) /\ y.type = x.type /\ KeptIs(x, y)
  /\ y.siz = x.siz /\ y.flag = x.flag /\ y.hw.capture = x.hw.capture
  /\ y.ret = "OK" =>
       /\ y.mem = [x.mem EXCEPT !.fd = @ + 1]
       /\ Fetched(State(y, given)) /\ State(y, given).tmp = limits

\* The device has been opened, but the states have not been fetched.
LEMMA BegunHalf ==
  ASSUME NEW x, NEW y, Begun(x, y), NEW given, NEW limits
  PROVE  /\ y.ret # "OK" => HalfOpen(x, y, given, limits)
         /\ \A z : y.ret = "OK" /\ Stated(y, z, given, limits) /\ KeptIs(y, z) => HalfOpen(x, z, given, limits)
<1>1. y.ret # "OK" => HalfOpen(x, y, given, limits)
  BY DEF Begun, HalfOpen, KeptIs
<1>2. ASSUME NEW z, y.ret = "OK", Stated(y, z, given, limits), KeptIs(y, z)
      PROVE  HalfOpen(x, z, given, limits)
  <2>1. KeptIs(x, z)
    BY <1>2 DEF Begun, KeptIs
  <2>2. /\ World(z) /\ z.type = x.type /\ z.siz = x.siz /\ z.flag = x.flag /\ z.hw.capture = x.hw.capture
        /\ z.mem = [x.mem EXCEPT !.fd = @ + 1]
    BY <1>2 DEF Begun, Stated, Tuned
  <2>3. z.ret = "OK" => Fetched(State(z, given)) /\ State(z, given).tmp = limits
    BY <1>2 DEF Stated
  <2> QED BY <2>1, <2>2, <2>3 DEF HalfOpen
<1> QED BY <1>1, <1>2

LEMMA PwcHalfOpen ==
  ASSUME NEW x, World(x), cam_switch[x.type] = "pwc", x.mem.fd = 0, NEW given \in BOOLEAN,
         given => AllowedBy(x, x.n_cam),
         NEW z \in Then(Then(pwc_device(x), pwc_restore), LAMBDA y : pwc_open_state(y, given))
  PROVE  HalfOpen(x, z, given, IF given THEN x.n_cam.tmp ELSE PwcLimits)
<1> DEFINE limits == IF given THEN x.n_cam.tmp ELSE PwcLimits
<1>1. PICK b \in Then(pwc_device(x), pwc_restore) : IF b.ret = "OK" THEN z \in pwc_open_state(b, given) ELSE z = b
  BY DEF Then
<1>2. PICK a \in pwc_device(x) : IF a.ret = "OK" THEN b \in pwc_restore(a) ELSE b = a
  BY DEF Then
<1>3. Begun(x, a) /\ World(a)
  BY DeviceBegins DEF Begun
<1>4. Begun(x, b) /\ (b.ret = "OK" => b.hw.set = b.saved)
  <2>1. CASE a.ret = "OK"
    <3>1. SetIn(a, b) /\ b.saved = a.saved /\ (b.ret = "OK" => b.hw.set = b.saved)
      BY <1>2, <1>3, <2>1, RestoreBegins
    <3> QED BY <1>3, <2>1, <3>1 DEF Begun, SetIn, Tuned
  <2>2. CASE a.ret # "OK"
    BY <1>2, <1>3, <2>2
  <2> QED BY <2>1, <2>2
<1>5. World(b) /\ b.type = x.type /\ b.n_cam = x.n_cam
  BY <1>4 DEF Begun
<1>6. given => AllowedBy(b, b.n_cam)
  BY <1>5 DEF AllowedBy
<1>7. b.ret = "OK" => Stated(b, z, given, IF given THEN b.n_cam.tmp ELSE PwcLimits) /\ KeptIs(b, z)
  BY <1>1, <1>4, <1>5, <1>6, PwcOpenState
<1>8. b.ret = "OK" => Stated(b, z, given, limits) /\ KeptIs(b, z)
  BY <1>5, <1>7
<1> HIDE DEF limits
<1>9. HalfOpen(x, z, given, limits)
  BY <1>1, <1>4, <1>8, BegunHalf
<1> QED BY <1>9 DEF limits

LEMMA Ov511HalfOpen ==
  ASSUME NEW x, World(x), cam_switch[x.type] # "pwc", x.mem.fd = 0, NEW given \in BOOLEAN,
         given => AllowedBy(x, x.n_cam),
         NEW z \in Then(pwc_device(x), LAMBDA y : ov511_open_state(y, given))
  PROVE  HalfOpen(x, z, given, IF given THEN x.n_cam.tmp ELSE Ov511Limits)
<1> DEFINE limits == IF given THEN x.n_cam.tmp ELSE Ov511Limits
<1>1. PICK b \in pwc_device(x) : IF b.ret = "OK" THEN z \in ov511_open_state(b, given) ELSE z = b
  BY DEF Then
<1>2. Begun(x, b)
  BY DeviceBegins
<1>3. World(b) /\ b.type = x.type /\ b.n_cam = x.n_cam
  BY <1>2 DEF Begun
<1>4. given => AllowedBy(b, b.n_cam)
  BY <1>3 DEF AllowedBy
<1>5. b.ret = "OK" => Stated(b, z, given, IF given THEN b.n_cam.tmp ELSE Ov511Limits) /\ z.saved = b.saved
  BY <1>1, <1>3, <1>4, Ov511OpenState
<1>6. b.ret = "OK" => Stated(b, z, given, limits) /\ KeptIs(b, z)
  BY <1>3, <1>5 DEF KeptIs
<1> HIDE DEF limits
<1>7. HalfOpen(x, z, given, limits)
  BY <1>1, <1>2, <1>6, BegunHalf
<1> QED BY <1>7 DEF limits

-----------------------------------------------------------------------------
(* The second half: where the chaos is.                                    *)

LEMMA PixelSizeNat == ASSUME NEW p PROVE pixel_size(p) \in Nat
  BY DEF pixel_size

LEMMA Product == ASSUME NEW a \in Nat, NEW b \in Nat PROVE a * b \in Nat
  OBVIOUS

LEMMA Quotient == ASSUME NEW a \in Nat, NEW b \in Nat \ {0} PROVE a \div b \in Nat
  OBVIOUS

\* The framesize is a number of octets, and when the buffer is mapped all its
\* frames are in it, at where they are expected and at where the device says.
LEMMA FrameFits ==
  ASSUME NEW cam, Fetched(cam)
  PROVE  /\ size_of(cam) \in Nat
         /\ cam.bufsize \in Nat /\ cam.frames \in Nat
         /\ cam.bufsize > 0 /\ cam.frames > 0 =>
              /\ cam.frames * size_of(cam) <= cam.bufsize
              /\ \A k \in 1 .. cam.frames : MBuf.offsets[k] \in Int /\ MBuf.offsets[k] + size_of(cam) <= cam.bufsize
<1> DEFINE h == cam.val["height"]
           v == cam.val["width"]
           p == cam.val["palette"]
           f == size_of(cam)
<1>1. /\ cam.bufsize = MBuf.size /\ cam.frames = MBuf.frames /\ h \in Nat \ {0} /\ v \in Nat \ {0}
      /\ MBuf.size \in Nat /\ MBuf.frames \in Nat
      /\ \A k \in 1 .. MBuf.frames : MBuf.offsets[k] \in Int
  BY MBufAssumption DEF Fetched
<1>2. f = frame_size(p, MBuf.size, MBuf.frames, MBuf.offsets, h, v)
  BY <1>1 DEF size_of
<1> HIDE DEF f
<1>3. f \in Nat
  <2>1. CASE MBuf.frames > 1 /\ MBuf.offsets[1] >= 0 /\ MBuf.offsets[2] > MBuf.offsets[1]
    <3>1. f = MBuf.offsets[2] - MBuf.offsets[1]
      BY <1>2, <2>1 DEF frame_size
    <3>2. MBuf.offsets[1] \in Int /\ MBuf.offsets[2] \in Int
      BY <1>1, <2>1
    <3> QED BY <2>1, <3>1, <3>2
  <2>2. CASE ~(MBuf.frames > 1 /\ MBuf.offsets[1] >= 0 /\ MBuf.offsets[2] > MBuf.offsets[1])
             /\ MBuf.size > 0 /\ MBuf.frames > 0
    <3>1. f = MBuf.size \div MBuf.frames
      BY <1>2, <2>2 DEF frame_size
    <3> QED BY <1>1, <2>2, <3>1, Quotient
  <2>3. CASE ~(MBuf.frames > 1 /\ MBuf.offsets[1] >= 0 /\ MBuf.offsets[2] > MBuf.offsets[1])
             /\ ~(MBuf.size > 0 /\ MBuf.frames > 0)
    <3>1. f = (pixel_size(p) * h * v) \div 16
      <4>1. h > 0 /\ v > 0
        BY <1>1
      <4> HIDE DEF h, v
      <4> QED BY <1>2, <2>3, <4>1 DEF frame_size
    <3>2. pixel_size(p) * h \in Nat
      BY <1>1, PixelSizeNat, Product
    <3>3. (pixel_size(p) * h) * v \in Nat
      BY <1>1, <3>2, Product
    <3> QED BY <3>1, <3>3, Quotient
  <2> QED BY <2>1, <2>2, <2>3
<1>4. ASSUME MBuf.size > 0, MBuf.frames > 0
      PROVE  /\ MBuf.frames * f <= MBuf.size
             /\ \A k \in 1 .. MBuf.frames : MBuf.offsets[k] + f <= MBuf.size
  <2>1. f = frame_size(0, MBuf.size, MBuf.frames, MBuf.offsets, 0, 0)
    BY <1>2, <1>4 DEF frame_size
  <2> QED BY <1>4, <2>1, MBufAssumption
<1> QED BY <1>1, <1>3, <1>4 DEF f

\* The chaotic octets are no more than the frame has.
LEMMA ZoneFits ==
  ASSUME NEW cam, Fetched(cam)
  PROVE  zone_of(cam) \in Nat /\ zone_of(cam) <= size_of(cam)
<1> DEFINE p == cam.val["palette"]
           pixels == cam.val["height"] * cam.val["width"]
           f == size_of(cam)
           o == chaos_octets(p, f, pixels)
<1>1. f \in Nat
  BY FrameFits
<1>2. pixels \in Nat
  BY Product DEF Fetched
<1> HIDE DEF pixels, f
<1>5. pixels > 0
  BY DEF Fetched, pixels
<1>3. o \in Nat
  <2>1. pixel_size(p) * pixels \in Nat
    BY <1>2, PixelSizeNat, Product
  <2>2. (pixel_size(p) * pixels) \div 16 \in Nat
    BY <2>1, Quotient
  <2> QED BY <1>1, <1>2, <1>5, <2>2 DEF chaos_octets
<1>4. zone_of(cam) = IF o > f THEN f ELSE o
  BY DEF zone_of, chaos_zone, pixels, f
<1> HIDE DEF o
<1> QED BY <1>1, <1>3, <1>4 DEF f

\* Where the chaos is by read() and in the mapped buffer, before one is chosen.
Sized(siz, limits) ==
  /\ DOMAIN siz = DOMAIN no_siz /\ siz.limits = limits
  /\ siz.image = "none" /\ siz.prev = "none" /\ siz.chaos_len = 0 /\ siz.lavaoff = 0
  /\ siz.use_read = FALSE /\ siz.frame_num = 0
  /\ siz.lavalen \in Nat /\ siz.readsize \in Int /\ siz.lavalen <= siz.readsize
  /\ siz.mmapsize \in Int /\ siz.mmap_lavaoff \in Int
  /\ siz.mmapsize # 0 => siz.mmap_lavaoff + siz.lavalen <= siz.mmapsize

\* From x to y the sizes have been computed.
Opsized(x, y, limits) ==
  /\ World(y) /\ y.type = x.type /\ y.hw = x.hw /\ y.saved = x.saved /\ y.n_cam = x.n_cam
  /\ y.flag = x.flag /\ y.mem = x.mem
  /\ y.ret = "OK" => Sized(y.siz, limits)

LEMMA SizStored ==
  ASSUME NEW x, World(x), NEW siz, DOMAIN siz = DOMAIN no_siz, siz.chaos_len \in Nat,
         siz.prev \in DOMAIN Patterns \cup {"none", "zero"}
  PROVE  LET y == [x EXCEPT !.siz = siz]
         IN /\ World(y) /\ y.type = x.type /\ y.hw = x.hw /\ y.saved = x.saved /\ y.n_cam = x.n_cam
            /\ y.flag = x.flag /\ y.mem = x.mem /\ y.ret = x.ret /\ y.siz = siz
<1> DEFINE y == [x EXCEPT !.siz = siz]
<1>1. /\ DOMAIN y = DOMAIN x /\ y.type = x.type /\ y.hw = x.hw /\ y.saved = x.saved /\ y.n_cam = x.n_cam
      /\ y.flag = x.flag /\ y.mem = x.mem /\ y.ret = x.ret /\ y.siz = siz /\ y.o_cam = x.o_cam
  BY DEF World, Shape
<1> HIDE DEF y
<1>2. World(y)
  BY <1>1 DEF World, Shape
<1> QED BY <1>1, <1>2 DEF y

LEMMA PwcOpsize ==
  ASSUME NEW x, World(x), NEW t, Fetched(t), NEW y \in pwc_opsize(x, t)
  PROVE  /\ Opsized(x, y, t.tmp)
         /\ y.ret = "OK" => /\ y.siz.lavalen <= size_of(t)
                            /\ y.siz.mmapsize = IF t.bufsize > 0 /\ t.frames > 0 THEN t.bufsize ELSE 0
<1> DEFINE len == IF x.flag.A THEN size_of(t) ELSE zone_of(t)
           size == IF t.bufsize > 0 /\ t.frames > 0 THEN t.bufsize ELSE 0
           siz == [no_siz EXCEPT
                     !.limits = t.tmp, !.palette = t.val["palette"], !.lavalen = len,
                     !.readsize = IF t.val["height"] > 0 /\ t.val["width"] > 0 THEN size_of(t) ELSE 0,
                     !.mmapsize = size,
                     !.mmap_lavaoff = (t.frames - 1) * size_of(t)]
           z == [x EXCEPT !.siz = siz]
<1>1. y \in {z, fail(x, "NOSIZE"), fail(x, "PALETTE"), fail(x, "GETPARAM")}
  BY DEF pwc_opsize, ioctl
<1>2. t.val["height"] > 0 /\ t.val["width"] > 0
  BY DEF Fetched
<1>3. /\ DOMAIN siz = DOMAIN no_siz /\ siz.limits = t.tmp
      /\ siz.image = "none" /\ siz.prev = "none" /\ siz.chaos_len = 0 /\ siz.lavaoff = 0
      /\ siz.use_read = FALSE /\ siz.frame_num = 0 /\ siz.lavalen = len /\ siz.readsize = size_of(t)
      /\ siz.mmapsize = size /\ siz.mmap_lavaoff = (t.frames - 1) * size_of(t)
  <2> HIDE DEF len, size
  <2> QED BY <1>2 DEF no_siz
<1> DEFINE f == size_of(t)
<1>4. f \in Nat /\ len \in Nat /\ len <= f /\ t.bufsize \in Nat /\ t.frames \in Nat
  BY FrameFits, ZoneFits
<1>5. t.bufsize > 0 /\ t.frames > 0 => t.frames * f <= t.bufsize
  BY FrameFits
<1> HIDE DEF len, siz
<1>6. size \in Int /\ (size # 0 => size = t.bufsize /\ t.frames * f <= size)
  BY <1>4, <1>5
<1> HIDE DEF size, f
<1>7. (t.frames - 1) * f \in Int /\ (t.frames - 1) * f = t.frames * f - f /\ t.frames * f \in Int
  BY <1>4
<1>8. size # 0 => (t.frames - 1) * f + len <= size
  BY <1>4, <1>6, <1>7
<1>9. Sized(siz, t.tmp)
  BY <1>3, <1>4, <1>6, <1>7, <1>8 DEF Sized, f
<1>10. CASE y = z
  <2>1. DOMAIN siz = DOMAIN no_siz /\ siz.chaos_len \in Nat /\ siz.prev \in DOMAIN Patterns \cup {"none", "zero"}
    BY <1>3
  <2>2. /\ World(y) /\ y.type = x.type /\ y.hw = x.hw /\ y.saved = x.saved /\ y.n_cam = x.n_cam
        /\ y.flag = x.flag /\ y.mem = x.mem /\ y.siz = siz
    BY <1>10, <2>1, SizStored
  <2> QED BY <1>3, <1>4, <1>9, <2>2 DEF Opsized, size, f
<1>11. CASE y = fail(x, "NOSIZE") \/ y = fail(x, "PALETTE") \/ y = fail(x, "GETPARAM")
  BY <1>11, FailWorld DEF Opsized
<1> QED BY <1>1, <1>10, <1>11

LEMMA Ov511Opsize ==
  ASSUME NEW x, World(x), NEW t, Fetched(t), NEW y \in ov511_opsize(x, t)
  PROVE  Opsized(x, y, t.tmp)
<1>1. PICK z \in pwc_opsize(x, t) :
        y = IF z.ret = "OK" /\ says_last(t) THEN [z EXCEPT !.siz.mmap_lavaoff = MBuf.offsets[t.frames]] ELSE z
  BY DEF ov511_opsize
<1>2. /\ Opsized(x, z, t.tmp)
      /\ z.ret = "OK" => /\ z.siz.lavalen <= size_of(t)
                         /\ z.siz.mmapsize = IF t.bufsize > 0 /\ t.frames > 0 THEN t.bufsize ELSE 0
  BY PwcOpsize
<1>3. CASE z.ret = "OK" /\ says_last(t)
  <2> DEFINE off == MBuf.offsets[t.frames]
             siz == [z.siz EXCEPT !.mmap_lavaoff = off]
  <2>1. t.bufsize > 0 /\ t.frames \in 1 .. t.frames
    BY <1>3, FrameFits DEF says_last, VIDEO_MAX_FRAME
  <2>2. off \in Int /\ off + size_of(t) <= t.bufsize /\ size_of(t) \in Nat /\ t.bufsize \in Nat
    BY <2>1, FrameFits
  <2>3. Sized(z.siz, t.tmp) /\ World(z)
    BY <1>2, <1>3 DEF Opsized
  <2>4. z.siz.mmapsize = t.bufsize /\ z.siz.lavalen <= size_of(t) /\ z.siz.lavalen \in Nat
    BY <1>2, <1>3, <2>1, <2>3 DEF Sized
  <2>5. off + z.siz.lavalen <= z.siz.mmapsize
    BY <2>2, <2>4
  <2>6. y = [z EXCEPT !.siz = siz]
    BY <1>1, <1>3, <2>3 DEF World, Shape
  <2>7. /\ DOMAIN siz = DOMAIN z.siz /\ siz.mmap_lavaoff = off
        /\ siz.limits = z.siz.limits /\ siz.image = z.siz.image /\ siz.prev = z.siz.prev
        /\ siz.chaos_len = z.siz.chaos_len /\ siz.lavaoff = z.siz.lavaoff
        /\ siz.use_read = z.siz.use_read /\ siz.frame_num = z.siz.frame_num
        /\ siz.lavalen = z.siz.lavalen /\ siz.readsize = z.siz.readsize /\ siz.mmapsize = z.siz.mmapsize
    BY <2>3, Domains DEF Sized
  <2> HIDE DEF siz, off
  <2>8. Sized(siz, t.tmp)
    BY <2>2, <2>3, <2>5, <2>7 DEF Sized
  <2>9. DOMAIN siz = DOMAIN no_siz /\ siz.chaos_len \in Nat /\ siz.prev \in DOMAIN Patterns \cup {"none", "zero"}
    BY <2>8 DEF Sized
  <2>10. /\ World(y) /\ y.type = z.type /\ y.hw = z.hw /\ y.saved = z.saved /\ y.n_cam = z.n_cam
         /\ y.flag = z.flag /\ y.mem = z.mem /\ y.siz = siz
    BY <2>3, <2>6, <2>9, SizStored
  <2> QED BY <1>2, <2>8, <2>10 DEF Opsized
<1>4. CASE ~(z.ret = "OK" /\ says_last(t))
  BY <1>1, <1>2, <1>4
<1> QED BY <1>3, <1>4

-----------------------------------------------------------------------------
(* The buffers, and frames that are captured into the mapped one.          *)

\* From x to y nothing has changed but what is being captured, and the result.
Captures(x, y) ==
  /\ World(y) /\ y.type = x.type /\ y.saved = x.saved /\ y.n_cam = x.n_cam
  /\ y.siz = x.siz /\ y.flag = x.flag /\ y.mem = x.mem
  /\ y.hw.set = x.hw.set /\ y.hw.frame = x.hw.frame

LEMMA CapturesOnly ==
  ASSUME NEW x, World(x), NEW c \in {"none", "busy", "done"}
  PROVE  LET y == [x EXCEPT !.hw.capture = c]
         IN Captures(x, y) /\ y.ret = x.ret /\ y.hw.capture = c
<1> DEFINE y == [x EXCEPT !.hw.capture = c]
<1>1. /\ DOMAIN y = DOMAIN x /\ y.type = x.type /\ y.saved = x.saved /\ y.ret = x.ret
      /\ y.o_cam = x.o_cam /\ y.n_cam = x.n_cam /\ y.siz = x.siz /\ y.flag = x.flag /\ y.mem = x.mem
      /\ y.hw = [x.hw EXCEPT !.capture = c]
  BY DEF World, Shape
<1> HIDE DEF y
<1>2. /\ DOMAIN y.hw = DOMAIN x.hw /\ y.hw.capture = c
      /\ y.hw.set = x.hw.set /\ y.hw.frame = x.hw.frame
  BY <1>1 DEF World, Shape
<1>3. World(y)
  BY <1>1, <1>2 DEF World, Shape
<1> QED BY <1>1, <1>2, <1>3 DEF y, Captures

LEMMA IoctlCaptures ==
  ASSUME NEW x, World(x), NEW y \in MCAPTURE(x) \cup SYNC(x)
  PROVE  Captures(x, y)
<1>1. y \in {[x EXCEPT !.hw.capture = "busy"], [x EXCEPT !.hw.capture = "none"], fail(x, "SYNC")}
  BY DEF MCAPTURE, SYNC, ioctl
<1>2. CASE y = [x EXCEPT !.hw.capture = "busy"]
  BY <1>2, CapturesOnly
<1>3. CASE y = [x EXCEPT !.hw.capture = "none"]
  BY <1>3, CapturesOnly
<1>4. CASE y = fail(x, "SYNC")
  BY <1>4, FailWorld DEF Captures
<1> QED BY <1>1, <1>2, <1>3, <1>4

LEMMA MsyncCaptures ==
  ASSUME NEW x, World(x), NEW y \in pwc_msync(x)
  PROVE  Captures(x, y) /\ (x.siz.use_read => y = x)
<1>1. CASE x.siz.use_read
  BY <1>1 DEF pwc_msync, Captures
<1>2. CASE ~x.siz.use_read
  <2>1. PICK a \in SYNC(x) : IF a.ret = "OK" THEN y \in MCAPTURE(a) ELSE y = a
    BY <1>2 DEF pwc_msync, Then
  <2>2. Captures(x, a)
    BY IoctlCaptures
  <2>3. a.ret = "OK" => Captures(a, y)
    BY <2>1, <2>2, IoctlCaptures DEF Captures
  <2> QED BY <1>2, <2>1, <2>2, <2>3 DEF Captures
<1> QED BY <1>1, <1>2

\* From x to y the image, which siz describes, has been allocated or mapped.
Imaged(x, y, siz) ==
  /\ World(y) /\ y.type = x.type /\ y.saved = x.saved /\ y.n_cam = x.n_cam /\ y.flag = x.flag
  /\ y.ret = "OK" =>
       /\ y.mem = [x.mem EXCEPT !.image = @ + 1]
       /\ \E image \in {"map", "heap"} : y.siz = [siz EXCEPT !.image = image]

LEMMA ImageCounted ==
  ASSUME NEW x, World(x), x.mem.image = 0
  PROVE  LET y == [x EXCEPT !.mem.image = @ + 1]
         IN /\ World(y) /\ y.type = x.type /\ y.hw = x.hw /\ y.saved = x.saved /\ y.n_cam = x.n_cam
            /\ y.flag = x.flag /\ y.siz = x.siz /\ y.ret = x.ret /\ y.mem = [x.mem EXCEPT !.image = @ + 1]
<1> DEFINE y == [x EXCEPT !.mem.image = @ + 1]
<1>1. /\ DOMAIN y = DOMAIN x /\ y.type = x.type /\ y.hw = x.hw /\ y.saved = x.saved /\ y.n_cam = x.n_cam
      /\ y.flag = x.flag /\ y.siz = x.siz /\ y.ret = x.ret /\ y.o_cam = x.o_cam
      /\ y.mem = [x.mem EXCEPT !.image = @ + 1]
  BY DEF World, Shape
<1> HIDE DEF y
<1>2. /\ DOMAIN y.mem = DOMAIN x.mem /\ y.mem.image = 1
      /\ y.mem.fd = x.mem.fd /\ y.mem.prev = x.mem.prev /\ y.mem.files = x.mem.files
  BY <1>1, Domains DEF World, Shape
<1>3. {y.mem.fd, y.mem.image, y.mem.prev, y.mem.files} \subseteq 0 .. 1
  BY <1>2 DEF World
<1>4. World(y)
  BY <1>1, <1>2, <1>3 DEF World, Shape
<1> QED BY <1>1, <1>4 DEF y

LEMMA MmapImages ==
  ASSUME NEW x, World(x), x.mem.image = 0, NEW y \in pwc_mmap(x)
  PROVE  Imaged(x, y, x.siz)
<1> DEFINE m == [x EXCEPT !.mem.image = @ + 1]
<1>1. CASE y = fail(x, "NOMMAP")
  BY <1>1, FailWorld DEF Imaged
<1>2. CASE y # fail(x, "NOMMAP")
  <2>1. PICK b \in Then(MCAPTURE(m), pwc_msync) :
          y = IF b.ret = "OK" THEN [b EXCEPT !.siz.image = "map"] ELSE fail(b, "NOMMAP")
    BY <1>2 DEF pwc_mmap
  <2>2. PICK a \in MCAPTURE(m) : IF a.ret = "OK" THEN b \in pwc_msync(a) ELSE b = a
    BY DEF Then
  <2>3. /\ World(m) /\ m.type = x.type /\ m.saved = x.saved /\ m.n_cam = x.n_cam
        /\ m.flag = x.flag /\ m.siz = x.siz /\ m.mem = [x.mem EXCEPT !.image = @ + 1]
    BY ImageCounted
  <2> HIDE DEF m
  <2>4. Captures(m, a)
    BY <2>3, IoctlCaptures
  <2>5. Captures(m, b)
    <3>1. a.ret = "OK" => Captures(a, b)
      BY <2>2, <2>4, MsyncCaptures DEF Captures
    <3> QED BY <2>2, <2>4, <3>1 DEF Captures
  <2>6. CASE b.ret = "OK"
    <3> DEFINE siz == [b.siz EXCEPT !.image = "map"]
    <3>1. World(b)
      BY <2>5 DEF Captures
    <3>2. y = [b EXCEPT !.siz = siz]
      BY <2>1, <2>6, <3>1 DEF World, Shape
    <3>3. DOMAIN siz = DOMAIN no_siz /\ siz.chaos_len = b.siz.chaos_len /\ siz.prev = b.siz.prev
      BY <3>1, Domains DEF World, Shape
    <3> HIDE DEF siz
    <3>4. siz.chaos_len \in Nat /\ siz.prev \in DOMAIN Patterns \cup {"none", "zero"}
      BY <3>1, <3>3 DEF World
    <3>5. /\ World(y) /\ y.type = b.type /\ y.saved = b.saved /\ y.n_cam = b.n_cam
          /\ y.flag = b.flag /\ y.mem = b.mem /\ y.siz = siz
      BY <3>1, <3>2, <3>3, <3>4, SizStored
    <3>6. y.siz = [x.siz EXCEPT !.image = "map"]
      BY <2>3, <2>5, <3>5 DEF siz, Captures
    <3>7. \E image \in {"map", "heap"} : y.siz = [x.siz EXCEPT !.image = image]
      BY <3>6
    <3> QED BY <2>3, <2>5, <3>5, <3>7 DEF Captures, Imaged
  <2>7. CASE b.ret # "OK"
    BY <2>1, <2>3, <2>5, <2>7, FailWorld DEF Captures, Imaged
  <2> QED BY <2>6, <2>7
<1> QED BY <1>1, <1>2

\* The chaos is inside the image, and no frame has been compared yet.
ChaosIn(siz, limits) ==
  /\ DOMAIN siz = DOMAIN no_siz /\ siz.limits = limits /\ siz.prev = "none" /\ siz.frame_num = 0
  /\ siz.lavaoff \in Int /\ siz.image_len \in Int /\ siz.chaos_len \in Nat
  /\ siz.lavaoff + siz.chaos_len <= siz.image_len

LEMMA ImageNamed ==
  ASSUME NEW siz, NEW limits, ChaosIn(siz, limits), NEW image \in {"map", "heap"}
  PROVE  LET z == [siz EXCEPT !.image = image]
         IN ChaosIn(z, limits) /\ z.image # "none" /\ z.use_read = siz.use_read
<1> DEFINE z == [siz EXCEPT !.image = image]
<1>1. /\ DOMAIN z = DOMAIN siz /\ z.limits = siz.limits /\ z.prev = siz.prev /\ z.frame_num = siz.frame_num
      /\ z.lavaoff = siz.lavaoff /\ z.image_len = siz.image_len /\ z.chaos_len = siz.chaos_len
      /\ z.image = image /\ z.use_read = siz.use_read
  BY Domains DEF ChaosIn
<1> HIDE DEF z
<1> QED BY <1>1 DEF ChaosIn, z

\* From x to y the buffer has been chosen and is there.
Buffered(x, y, limits) ==
  /\ World(y) /\ y.type = x.type /\ y.saved = x.saved /\ y.n_cam = x.n_cam /\ y.flag = x.flag
  /\ y.ret = "OK" =>
       /\ y.mem = [x.mem EXCEPT !.image = @ + 1]
       /\ ChaosIn(y.siz, limits) /\ y.siz.image # "none"
       /\ y.siz.use_read => y.hw.capture = x.hw.capture

LEMMA BufferBuffers ==
  ASSUME NEW x, World(x), x.mem.image = 0, NEW limits, Sized(x.siz, limits), NEW y \in pwc_open_buffer(x)
  PROVE  Buffered(x, y, limits)
<1> DEFINE rsiz == [x.siz EXCEPT !.use_read = TRUE, !.image_len = x.siz.readsize, !.chaos_len = x.siz.lavalen]
           msiz == [x.siz EXCEPT !.image_len = x.siz.mmapsize, !.lavaoff = x.siz.mmap_lavaoff,
                                 !.chaos_len = x.siz.lavalen]
           hsiz == [rsiz EXCEPT !.image = "heap"]
           map  == [x EXCEPT !.siz = msiz]
           heap == [[x EXCEPT !.mem.image = @ + 1] EXCEPT !.siz = hsiz]
<1>1. /\ DOMAIN rsiz = DOMAIN x.siz /\ rsiz.limits = x.siz.limits /\ rsiz.prev = x.siz.prev
      /\ rsiz.frame_num = x.siz.frame_num /\ rsiz.lavaoff = x.siz.lavaoff
      /\ rsiz.image_len = x.siz.readsize /\ rsiz.chaos_len = x.siz.lavalen
  BY Domains DEF Sized
<1>2. /\ DOMAIN msiz = DOMAIN x.siz /\ msiz.limits = x.siz.limits /\ msiz.prev = x.siz.prev
      /\ msiz.frame_num = x.siz.frame_num /\ msiz.lavaoff = x.siz.mmap_lavaoff
      /\ msiz.image_len = x.siz.mmapsize /\ msiz.chaos_len = x.siz.lavalen
      /\ msiz.use_read = FALSE /\ msiz.mmapsize = x.siz.mmapsize
  BY Domains DEF Sized
<1>3. \/ \E err : y = fail(x, err) /\ err # "OK"
      \/ y \in pwc_mmap(map) /\ x.siz.mmapsize # 0
      \/ y = heap
  <2>1. [x EXCEPT !.siz.image_len = x.siz.mmapsize, !.siz.lavaoff = x.siz.mmap_lavaoff,
                  !.siz.chaos_len = x.siz.lavalen] = map
    BY DEF World, Shape
  <2>2. [[x EXCEPT !.siz.use_read = TRUE, !.siz.image_len = x.siz.readsize,
                   !.siz.chaos_len = x.siz.lavalen] EXCEPT !.siz.image = "heap", !.mem.image = @ + 1] = heap
    BY DEF World, Shape
  <2> HIDE DEF map, heap
  <2> QED BY <2>1, <2>2 DEF pwc_open_buffer
<1>4. CASE \E err : y = fail(x, err) /\ err # "OK"
  BY <1>4, FailWorld DEF Buffered
<1>5. CASE y \in pwc_mmap(map) /\ x.siz.mmapsize # 0
  <2> HIDE DEF msiz
  <2>1. ChaosIn(msiz, limits)
    BY <1>2, <1>5 DEF Sized, ChaosIn
  <2>2. DOMAIN msiz = DOMAIN no_siz /\ msiz.chaos_len \in Nat /\ msiz.prev \in DOMAIN Patterns \cup {"none", "zero"}
    BY <2>1 DEF ChaosIn
  <2>3. /\ World(map) /\ map.type = x.type /\ map.saved = x.saved /\ map.n_cam = x.n_cam
        /\ map.flag = x.flag /\ map.mem = x.mem /\ map.siz = msiz
    BY <2>2, SizStored
  <2> HIDE DEF map
  <2>4. Imaged(map, y, msiz)
    BY <1>5, <2>3, MmapImages
  <2>5. y.ret = "OK" => ChaosIn(y.siz, limits) /\ y.siz.image # "none" /\ y.siz.use_read = FALSE
    <3> SUFFICES ASSUME y.ret = "OK"
                 PROVE  ChaosIn(y.siz, limits) /\ y.siz.image # "none" /\ y.siz.use_read = FALSE
      OBVIOUS
    <3>1. PICK image \in {"map", "heap"} : y.siz = [msiz EXCEPT !.image = image]
      BY <2>4 DEF Imaged
    <3> DEFINE z == [msiz EXCEPT !.image = image]
    <3>2. ChaosIn(z, limits) /\ z.image # "none" /\ z.use_read = msiz.use_read
      BY <2>1, ImageNamed
    <3> HIDE DEF z
    <3> QED BY <1>2, <3>1, <3>2 DEF z
  <2> QED BY <2>3, <2>4, <2>5 DEF Imaged, Buffered
<1>6. CASE y = heap
  <2>1. rsiz.lavaoff = 0
    BY <1>1 DEF Sized
  <2> DEFINE c == [x EXCEPT !.mem.image = @ + 1]
  <2> HIDE DEF rsiz
  <2>2. ChaosIn(rsiz, limits)
    BY <1>1, <2>1 DEF Sized, ChaosIn
  <2>3. ChaosIn(hsiz, limits) /\ hsiz.image # "none"
    BY <2>2, ImageNamed
  <2> HIDE DEF hsiz
  <2>4. DOMAIN hsiz = DOMAIN no_siz /\ hsiz.chaos_len \in Nat /\ hsiz.prev \in DOMAIN Patterns \cup {"none", "zero"}
    BY <2>3 DEF ChaosIn
  <2>5. /\ World(c) /\ c.type = x.type /\ c.hw = x.hw /\ c.saved = x.saved /\ c.n_cam = x.n_cam
        /\ c.flag = x.flag /\ c.mem = [x.mem EXCEPT !.image = @ + 1]
    BY ImageCounted
  <2>6. y = [c EXCEPT !.siz = hsiz]
    BY <1>6
  <2> HIDE DEF c
  <2>7. /\ World(y) /\ y.type = c.type /\ y.hw = c.hw /\ y.saved = c.saved /\ y.n_cam = c.n_cam
        /\ y.flag = c.flag /\ y.mem = c.mem /\ y.siz = hsiz
    BY <2>4, <2>5, <2>6, SizStored
  <2> QED BY <2>3, <2>5, <2>7 DEF Buffered
<1> QED BY <1>3, <1>4, <1>5, <1>6

-----------------------------------------------------------------------------
(* The open as a whole.                                                    *)

LEMMA PaletteTunes ==
  ASSUME NEW x, World(x), NEW y \in pwc_open_palette(x)
  PROVE  Tuned(x, y) /\ y.saved = x.saved /\ y.n_cam = x.n_cam
<1>1. CASE valid_palette(x.o_cam.val["palette"])
  BY <1>1, TunedSame DEF pwc_open_palette, SetIn
<1>2. CASE ~valid_palette(x.o_cam.val["palette"])
  <2> DEFINE f == [palette |-> YUV420P]
  <2>1. PICK z \in {SetHw(x, f), fail(x, "SETPARAM")} : y = [z EXCEPT !.o_cam.val["palette"] = YUV420P]
    BY <1>2 DEF pwc_open_palette, ioctl
  <2>2. DOMAIN f = {"palette"}
    OBVIOUS
  <2> HIDE DEF f
  <2>3. \A s \in DOMAIN f : allowed(x.type, s, f[s])
    BY <2>2 DEF allowed
  <2>4. SetIn(x, z) /\ z.saved = x.saved
    BY <2>1, <2>3, SetHwTunes, TunedSame
  <2>5. World(z)
    BY <2>4 DEF SetIn, Tuned
  <2>6. /\ DOMAIN y = DOMAIN z /\ y.type = z.type /\ y.saved = z.saved /\ y.hw = z.hw
        /\ y.siz = z.siz /\ y.flag = z.flag /\ y.mem = z.mem /\ y.n_cam = z.n_cam
        /\ DOMAIN y.o_cam = DOMAIN z.o_cam
    BY <2>1, <2>5 DEF World, Shape
  <2>7. World(y)
    BY <2>5, <2>6 DEF World, Shape
  <2> QED BY <2>4, <2>6, <2>7 DEF SetIn, Tuned
<1> QED BY <1>1, <1>2

\* From x to y memory for the previous frame has been allocated.
LEMMA PrevAllocated ==
  ASSUME NEW x, World(x), x.mem.prev = 0, NEW limits, ChaosIn(x.siz, limits), NEW y \in pwc_open_prev(x)
  PROVE  /\ World(y) /\ y.type = x.type /\ y.saved = x.saved /\ y.n_cam = x.n_cam /\ y.flag = x.flag
         /\ y.ret = "OK" =>
              /\ y.mem = [x.mem EXCEPT !.prev = 1] /\ y.hw = x.hw
              /\ y.siz = [x.siz EXCEPT !.prev = "zero"]
<1>1. CASE y = fail(x, "MALLOC")
  BY <1>1, FailWorld
<1>2. CASE y = [x EXCEPT !.siz.prev = "zero", !.mem.prev = @ + 1]
  <2>1. /\ DOMAIN y = DOMAIN x /\ y.type = x.type /\ y.hw = x.hw /\ y.saved = x.saved
        /\ y.n_cam = x.n_cam /\ y.flag = x.flag /\ y.o_cam = x.o_cam
        /\ y.siz = [x.siz EXCEPT !.prev = "zero"] /\ y.mem = [x.mem EXCEPT !.prev = 1]
    BY <1>2 DEF World, Shape
  <2>2. /\ DOMAIN y.mem = DOMAIN x.mem /\ y.mem.prev = 1
        /\ y.mem.fd = x.mem.fd /\ y.mem.image = x.mem.image /\ y.mem.files = x.mem.files
    BY <2>1, Domains DEF World, Shape
  <2>3. {y.mem.fd, y.mem.image, y.mem.prev, y.mem.files} \subseteq 0 .. 1
    BY <2>2 DEF World
  <2>4. DOMAIN y.siz = DOMAIN x.siz /\ y.siz.prev = "zero" /\ y.siz.chaos_len = x.siz.chaos_len
    BY <2>1, Domains DEF World, Shape
  <2>5. World(y)
    BY <2>1, <2>2, <2>3, <2>4 DEF World, Shape
  <2> QED BY <2>1, <2>5
<1> QED BY <1>1, <1>2 DEF pwc_open_prev

\* Frames are tossed: if that goes well all is as it was.
LEMMA WarmupWarms ==
  ASSUME NEW x, World(x), x.mem.image = 1, NEW y \in pwc_warmup(x)
  PROVE  /\ World(y) /\ y.type = x.type /\ y.saved = x.saved /\ y.n_cam = x.n_cam
         /\ y.ret = "OK" => y = x
<1> DEFINE u == [x EXCEPT !.siz.image = "none", !.siz.image_len = 0, !.mem.image = @ - 1]
<1>1. \/ y = x \/ y = fail(x, "GETTIME")
      \/ y = fail(u, "WARMUP")
      \/ \E z \in pwc_msync(x) : y = fail(z, "WARMUP")
  BY DEF pwc_warmup
<1>2. CASE y = fail(u, "WARMUP")
  <2>1. /\ DOMAIN u = DOMAIN x /\ u.type = x.type /\ u.hw = x.hw /\ u.saved = x.saved
        /\ u.n_cam = x.n_cam /\ u.flag = x.flag /\ u.o_cam = x.o_cam
        /\ u.siz = [x.siz EXCEPT !.image = "none", !.image_len = 0] /\ u.mem = [x.mem EXCEPT !.image = @ - 1]
    BY DEF World, Shape
  <2> HIDE DEF u
  <2>2. /\ DOMAIN u.mem = DOMAIN x.mem /\ u.mem.image = 0
        /\ u.mem.fd = x.mem.fd /\ u.mem.prev = x.mem.prev /\ u.mem.files = x.mem.files
    BY <2>1, Domains DEF World, Shape
  <2>3. {u.mem.fd, u.mem.image, u.mem.prev, u.mem.files} \subseteq 0 .. 1
    BY <2>2 DEF World
  <2>4. DOMAIN u.siz = DOMAIN x.siz /\ u.siz.prev = x.siz.prev /\ u.siz.chaos_len = x.siz.chaos_len
    BY <2>1, Domains DEF World, Shape
  <2>5. World(u)
    BY <2>1, <2>2, <2>3, <2>4 DEF World, Shape
  <2> QED BY <1>2, <2>1, <2>5, FailWorld
<1>3. CASE \E z \in pwc_msync(x) : y = fail(z, "WARMUP")
  <2>1. PICK z \in pwc_msync(x) : y = fail(z, "WARMUP")
    BY <1>3
  <2>2. Captures(x, z)
    BY MsyncCaptures
  <2> QED BY <2>1, <2>2, FailWorld DEF Captures
<1>4. CASE y = fail(x, "GETTIME")
  BY <1>4, FailWorld
<1>5. CASE y = x
  BY <1>5
<1> QED BY <1>1, <1>2, <1>3, <1>4, <1>5

\* From x to y the camera has been opened.
Opens(x, y, limits) ==
  /\ World(y) /\ y.type = x.type /\ KeptIs(x, y)
  /\ y.ret = "OK" => Opened(y) /\ y.siz.limits = limits /\ y.siz.frame_num = 0

\* What a failure leaves.
Failed(x, y) == World(y) /\ y.type = x.type /\ y.saved = x.saved /\ y.n_cam = x.n_cam

LEMMA OpenFails ==
  ASSUME NEW x, NEW y, NEW z, NEW given, NEW limits, HalfOpen(x, y, given, limits), Failed(y, z), z.ret # "OK"
  PROVE  Opens(x, z, limits)
  BY DEF HalfOpen, Failed, Opens, KeptIs

LEMMA FailedTrans ==
  ASSUME NEW x, NEW y, NEW z, Failed(x, y), Failed(y, z)
  PROVE  Failed(x, z)
  BY DEF Failed

LEMMA SecondHalf ==
  ASSUME NEW x, World(x), Parsing(x), NEW limits \in [1 .. 4 -> Nat], NEW given,
         NEW y, HalfOpen(x, y, given, limits), y.ret = "OK",
         NEW a \in pwc_open_palette(y),
         NEW b, IF a.ret = "OK" THEN Opsized(a, b, limits) ELSE b = a,
         NEW c, IF b.ret = "OK" THEN c \in pwc_open_buffer(b) ELSE c = b,
         NEW d, IF c.ret = "OK" THEN d \in pwc_open_prev(c) ELSE d = c,
         NEW z, IF d.ret = "OK" THEN z \in pwc_warmup(d) ELSE z = d
  PROVE  Opens(x, z, limits)
<1>1. /\ World(y) /\ y.siz = no_siz /\ y.flag = x.flag /\ y.hw.capture = "none"
      /\ y.mem = [x.mem EXCEPT !.fd = @ + 1]
  BY DEF HalfOpen, Parsing
<1>2. /\ y.mem.fd = 1 /\ y.mem.image = 0 /\ y.mem.prev = 0
      /\ y.mem.files = IF x.flag.files THEN 1 ELSE 0
      /\ DOMAIN y.mem = DOMAIN no_mem
  <2>1. DOMAIN x.mem = {"fd", "image", "prev", "files"}
    BY Domains DEF World, Shape
  <2>2. x.mem.fd = 0 /\ x.mem.image = 0 /\ x.mem.prev = 0 /\ x.mem.files = IF x.flag.files THEN 1 ELSE 0
    BY DEF Parsing, Held, no_siz
  <2> QED BY <1>1, <2>1, <2>2, Domains
<1>3. Failed(y, a) /\ a.flag = x.flag /\ a.mem = y.mem /\ a.hw.capture = "none"
  BY <1>1, PaletteTunes DEF Failed, Tuned
<1>4. Failed(y, b) /\ (b.ret = "OK" => Sized(b.siz, limits) /\ b.flag = x.flag /\ b.mem = y.mem /\ b.hw.capture = "none")
  BY <1>3 DEF Opsized, Failed
<1>5. /\ Failed(y, c)
      /\ c.ret = "OK" =>
           /\ c.mem = [y.mem EXCEPT !.image = @ + 1] /\ c.flag = x.flag
           /\ ChaosIn(c.siz, limits) /\ c.siz.image # "none"
           /\ c.siz.use_read => c.hw.capture = "none"
  <2>1. CASE b.ret = "OK"
    <3>1. Buffered(b, c, limits)
      BY <1>2, <1>4, <2>1, BufferBuffers DEF Failed
    <3>2. Failed(b, c)
      BY <3>1 DEF Buffered, Failed
    <3> QED BY <1>4, <2>1, <3>1, <3>2, FailedTrans DEF Buffered
  <2>2. CASE b.ret # "OK"
    BY <1>4, <2>2
  <2> QED BY <2>1, <2>2
<1>6. c.ret = "OK" => c.mem.fd = 1 /\ c.mem.image = 1 /\ c.mem.prev = 0 /\ c.mem.files = y.mem.files
                      /\ DOMAIN c.mem = DOMAIN no_mem
  BY <1>2, <1>5, Domains
<1>7. /\ Failed(y, d)
      /\ d.ret = "OK" =>
           /\ c.ret = "OK" /\ d.hw = c.hw /\ d.flag = x.flag
           /\ d.mem = [c.mem EXCEPT !.prev = 1] /\ d.siz = [c.siz EXCEPT !.prev = "zero"]
  <2>1. CASE c.ret = "OK"
    <3>1. World(c) /\ c.mem.prev = 0 /\ ChaosIn(c.siz, limits)
      BY <1>5, <1>6, <2>1 DEF Failed
    <3>2. /\ Failed(c, d) /\ d.flag = c.flag
          /\ d.ret = "OK" => d.hw = c.hw /\ d.mem = [c.mem EXCEPT !.prev = 1] /\ d.siz = [c.siz EXCEPT !.prev = "zero"]
      BY <2>1, <3>1, PrevAllocated DEF Failed
    <3> QED BY <1>5, <2>1, <3>2, FailedTrans
  <2>2. CASE c.ret # "OK"
    BY <1>5, <2>2
  <2> QED BY <2>1, <2>2
<1>8. d.ret = "OK" => /\ d.mem.fd = 1 /\ d.mem.image = 1 /\ d.mem.prev = 1 /\ d.mem.files = y.mem.files
  BY <1>6, <1>7, Domains
<1>9. d.ret = "OK" => Opened(d) /\ d.siz.limits = limits /\ d.siz.frame_num = 0
  <2> SUFFICES ASSUME d.ret = "OK" PROVE Opened(d) /\ d.siz.limits = limits /\ d.siz.frame_num = 0
    OBVIOUS
  <2>1. ChaosIn(c.siz, limits) /\ c.siz.image # "none" /\ (c.siz.use_read => c.hw.capture = "none")
    BY <1>5, <1>7
  <2>2. /\ d.siz.limits = c.siz.limits /\ d.siz.frame_num = c.siz.frame_num /\ d.siz.image = c.siz.image
        /\ d.siz.lavaoff = c.siz.lavaoff /\ d.siz.image_len = c.siz.image_len
        /\ d.siz.chaos_len = c.siz.chaos_len /\ d.siz.use_read = c.siz.use_read /\ d.siz.prev = "zero"
    BY <1>7, <2>1, Domains DEF ChaosIn
  <2>3. Held(d)
    BY <1>2, <1>7, <1>8, <2>1, <2>2 DEF Held
  <2>4. d.siz.use_read => d.hw.capture = "none"
    BY <1>7, <2>1, <2>2
  <2> QED BY <1>8, <2>1, <2>2, <2>3, <2>4 DEF Opened, ChaosIn
<1>10. Failed(y, z) /\ (z.ret = "OK" => d.ret = "OK" /\ z = d)
  <2>1. CASE d.ret = "OK"
    <3>1. World(d) /\ d.mem.image = 1
      BY <1>7, <1>8, <2>1 DEF Failed
    <3>2. Failed(d, z) /\ (z.ret = "OK" => z = d)
      BY <2>1, <3>1, WarmupWarms DEF Failed
    <3> QED BY <1>7, <2>1, <3>2, FailedTrans
  <2>2. CASE d.ret # "OK"
    BY <1>7, <2>2
  <2> QED BY <2>1, <2>2
<1>11. CASE z.ret = "OK"
  <2>1. Opened(z) /\ z.siz.limits = limits /\ z.siz.frame_num = 0
    BY <1>9, <1>10, <1>11
  <2>2. World(z) /\ z.type = x.type /\ KeptIs(x, z)
    BY <1>10 DEF HalfOpen, Failed, KeptIs
  <2> QED BY <2>1, <2>2 DEF Opens
<1>12. CASE z.ret # "OK"
  BY <1>10, <1>12, OpenFails
<1> QED BY <1>11, <1>12

\* The limits that an open goes by.
limits_of(x, given) == IF given THEN x.n_cam.tmp ELSE IF driver(x) = "pwc" THEN PwcLimits ELSE Ov511Limits

LEMMA PwcOpens ==
  ASSUME NEW x, World(x), cam_switch[x.type] = "pwc", Parsing(x), NEW given \in BOOLEAN,
         given => Asked(x) /\ Checked(x), NEW z \in pwc_open(x, given)
  PROVE  Opens(x, z, limits_of(x, given))
<1> DEFINE limits == limits_of(x, given)
           t(y) == IF given THEN y.n_cam ELSE y.o_cam
<1>1. PICK y \in Then(Then(pwc_device(x), pwc_restore), LAMBDA u : pwc_open_state(u, given)) :
        IF y.ret = "OK"
        THEN z \in Then(Then(Then(Then(pwc_open_palette(y), LAMBDA u : pwc_opsize(u, t(y))), pwc_open_buffer),
                             pwc_open_prev), pwc_warmup)
        ELSE z = y
  BY DEF pwc_open, Then
<1> HIDE DEF t
<1>2. limits \in [1 .. 4 -> Nat] /\ limits = IF given THEN x.n_cam.tmp ELSE PwcLimits
  BY PwcAssumption DEF limits_of, Asked, driver
<1>3. (given => AllowedBy(x, x.n_cam)) /\ x.mem.fd = 0
  BY DEF AllowedBy, Checked, Parsing
<1>4. HalfOpen(x, y, given, IF given THEN x.n_cam.tmp ELSE PwcLimits)
  BY <1>3, PwcHalfOpen
<1>5. HalfOpen(x, y, given, limits)
  BY <1>2, <1>4
<1> HIDE DEF limits
<1>6. CASE y.ret # "OK"
  BY <1>1, <1>5, <1>6 DEF HalfOpen, Opens
<1>7. CASE y.ret = "OK"
  <2>1. PICK d \in Then(Then(Then(pwc_open_palette(y), LAMBDA u : pwc_opsize(u, t(y))), pwc_open_buffer),
                        pwc_open_prev) : IF d.ret = "OK" THEN z \in pwc_warmup(d) ELSE z = d
    BY <1>1, <1>7 DEF Then
  <2>2. PICK c \in Then(Then(pwc_open_palette(y), LAMBDA u : pwc_opsize(u, t(y))), pwc_open_buffer) :
          IF c.ret = "OK" THEN d \in pwc_open_prev(c) ELSE d = c
    BY DEF Then
  <2>3. PICK b \in Then(pwc_open_palette(y), LAMBDA u : pwc_opsize(u, t(y))) :
          IF b.ret = "OK" THEN c \in pwc_open_buffer(b) ELSE c = b
    BY DEF Then
  <2>4. PICK a \in pwc_open_palette(y) : IF a.ret = "OK" THEN b \in pwc_opsize(a, t(y)) ELSE b = a
    BY DEF Then
  <2>5. Fetched(t(y)) /\ t(y).tmp = limits /\ World(y)
    BY <1>5, <1>7 DEF HalfOpen, State, t
  <2>6. World(a)
    BY <2>5, PaletteTunes DEF Tuned
  <2>7. a.ret = "OK" => Opsized(a, b, t(y).tmp)
    BY <2>4, <2>5, <2>6, PwcOpsize
  <2>8. IF a.ret = "OK" THEN Opsized(a, b, limits) ELSE b = a
    BY <2>4, <2>5, <2>7
  <2> QED BY <1>2, <1>5, <1>7, <2>1, <2>2, <2>3, <2>8, SecondHalf DEF limits
<1> QED BY <1>6, <1>7 DEF limits

LEMMA Ov511Opens ==
  ASSUME NEW x, World(x), cam_switch[x.type] # "pwc", Parsing(x), NEW given \in BOOLEAN,
         given => Asked(x) /\ Checked(x), NEW z \in ov511_open(x, given)
  PROVE  Opens(x, z, limits_of(x, given))
<1> DEFINE limits == limits_of(x, given)
           t(y) == IF given THEN y.n_cam ELSE y.o_cam
<1>1. PICK y \in Then(pwc_device(x), LAMBDA u : ov511_open_state(u, given)) :
        IF y.ret = "OK"
        THEN z \in Then(Then(Then(Then(ov511_open_palette(y), LAMBDA u : ov511_opsize(u, t(y))),
                                  ov511_open_buffer), pwc_open_prev), ov511_warmup)
        ELSE z = y
  BY DEF ov511_open, Then
<1> HIDE DEF t
<1>2. limits \in [1 .. 4 -> Nat] /\ limits = IF given THEN x.n_cam.tmp ELSE Ov511Limits
  BY Ov511Assumption DEF limits_of, Asked, driver
<1>3. (given => AllowedBy(x, x.n_cam)) /\ x.mem.fd = 0
  BY DEF AllowedBy, Checked, Parsing
<1>4. HalfOpen(x, y, given, IF given THEN x.n_cam.tmp ELSE Ov511Limits)
  BY <1>3, Ov511HalfOpen
<1>5. HalfOpen(x, y, given, limits)
  BY <1>2, <1>4
<1> HIDE DEF limits
<1>6. CASE y.ret # "OK"
  BY <1>1, <1>5, <1>6 DEF HalfOpen, Opens
<1>7. CASE y.ret = "OK"
  <2>1. PICK d \in Then(Then(Then(ov511_open_palette(y), LAMBDA u : ov511_opsize(u, t(y))), ov511_open_buffer),
                        pwc_open_prev) : IF d.ret = "OK" THEN z \in pwc_warmup(d) ELSE z = d
    BY <1>1, <1>7 DEF Then, ov511_warmup
  <2>2. PICK c \in Then(Then(ov511_open_palette(y), LAMBDA u : ov511_opsize(u, t(y))), ov511_open_buffer) :
          IF c.ret = "OK" THEN d \in pwc_open_prev(c) ELSE d = c
    BY DEF Then
  <2>3. PICK b \in Then(ov511_open_palette(y), LAMBDA u : ov511_opsize(u, t(y))) :
          IF b.ret = "OK" THEN c \in pwc_open_buffer(b) ELSE c = b
    BY DEF Then, ov511_open_buffer
  <2>4. PICK a \in pwc_open_palette(y) : IF a.ret = "OK" THEN b \in ov511_opsize(a, t(y)) ELSE b = a
    BY DEF Then, ov511_open_palette
  <2>5. Fetched(t(y)) /\ t(y).tmp = limits /\ World(y)
    BY <1>5, <1>7 DEF HalfOpen, State, t
  <2>6. World(a)
    BY <2>5, PaletteTunes DEF Tuned
  <2>7. a.ret = "OK" => Opsized(a, b, t(y).tmp)
    BY <2>4, <2>5, <2>6, Ov511Opsize
  <2>8. IF a.ret = "OK" THEN Opsized(a, b, limits) ELSE b = a
    BY <2>4, <2>5, <2>7
  <2> QED BY <1>2, <1>5, <1>7, <2>1, <2>2, <2>3, <2>8, SecondHalf DEF limits
<1> QED BY <1>6, <1>7 DEF limits

LEMMA LavacamOpens ==
  ASSUME NEW x, World(x), Parsing(x), NEW given \in BOOLEAN, given => Asked(x) /\ Checked(x),
         NEW z \in lavacam_open(x, given)
  PROVE  Opens(x, z, limits_of(x, given))
  BY PwcOpens, Ov511Opens DEF lavacam_open, driver

-----------------------------------------------------------------------------
(* The options.                                                            *)

\* From x to y only the result, the new state and the flags have changed, and
\* the limits that are asked for are still numbers.
Options(x, y) ==
  /\ World(y) /\ y.type = x.type /\ y.saved = x.saved /\ y.hw = x.hw /\ y.siz = x.siz /\ y.mem = x.mem
  /\ Asked(y)
  /\ y.flag.files = x.flag.files

LEMMA LimitAsked ==
  ASSUME NEW x, World(x), Asked(x), NEW i \in 1 .. 4, NEW v \in Nat
  PROVE  Options(x, [x EXCEPT !.n_cam.tmp[i] = v])
<1> DEFINE y == [x EXCEPT !.n_cam.tmp[i] = v]
<1>1. /\ DOMAIN y = DOMAIN x /\ y.type = x.type /\ y.saved = x.saved /\ y.hw = x.hw
      /\ y.o_cam = x.o_cam /\ y.siz = x.siz /\ y.flag = x.flag /\ y.mem = x.mem
      /\ y.n_cam = [x.n_cam EXCEPT !.tmp[i] = v]
  BY DEF World, Shape
<1> HIDE DEF y
<1>2. DOMAIN y.n_cam = DOMAIN x.n_cam /\ y.n_cam.tmp = [x.n_cam.tmp EXCEPT ![i] = v]
  BY <1>1, Domains DEF World, Shape
<1>3. Asked(y)
  BY <1>2 DEF Asked
<1>4. World(y)
  BY <1>1, <1>2 DEF World, Shape
<1> QED BY <1>1, <1>3, <1>4 DEF Options, y

LEMMA FlagSet ==
  ASSUME NEW x, World(x), Asked(x), NEW v \in BOOLEAN,
         NEW y \in {[x EXCEPT !.flag.M = v], [x EXCEPT !.flag.A = v], [x EXCEPT !.flag.T = v]}
  PROVE  Options(x, y)
<1>1. /\ DOMAIN y = DOMAIN x /\ y.type = x.type /\ y.saved = x.saved /\ y.hw = x.hw
      /\ y.o_cam = x.o_cam /\ y.n_cam = x.n_cam /\ y.siz = x.siz /\ y.mem = x.mem
      /\ \E k \in {"M", "A", "T"} : y.flag = [x.flag EXCEPT ![k] = v]
  BY DEF World, Shape
<1>2. DOMAIN y.flag = DOMAIN x.flag /\ y.flag.files = x.flag.files
  BY <1>1, Domains DEF World, Shape
<1>3. World(y)
  BY <1>1, <1>2 DEF World, Shape
<1> QED BY <1>1, <1>2, <1>3 DEF Options, Asked

LEMMA NewSetting ==
  ASSUME NEW x, World(x), Asked(x), NEW s, NEW v
  PROVE  Options(x, [x EXCEPT !.n_cam.val[s] = v, !.n_cam.mask = @ \cup {s}])
<1> DEFINE y == [x EXCEPT !.n_cam.val[s] = v, !.n_cam.mask = @ \cup {s}]
<1>1. /\ DOMAIN y = DOMAIN x /\ y.type = x.type /\ y.saved = x.saved /\ y.hw = x.hw
      /\ y.o_cam = x.o_cam /\ y.siz = x.siz /\ y.flag = x.flag /\ y.mem = x.mem
      /\ DOMAIN y.n_cam = DOMAIN x.n_cam /\ y.n_cam.tmp = x.n_cam.tmp
  BY Domains DEF World, Shape
<1> HIDE DEF y
<1>2. World(y)
  BY <1>1 DEF World, Shape
<1> QED BY <1>1, <1>2 DEF Options, Asked, y

LEMMA NewCam ==
  ASSUME NEW x, World(x), NEW cam, DOMAIN cam = DOMAIN no_cam({}), cam.tmp \in [1 .. 4 -> Nat]
  PROVE  Options(x, [x EXCEPT !.n_cam = cam])
<1> DEFINE y == [x EXCEPT !.n_cam = cam]
<1>1. /\ DOMAIN y = DOMAIN x /\ y.type = x.type /\ y.saved = x.saved /\ y.hw = x.hw
      /\ y.o_cam = x.o_cam /\ y.siz = x.siz /\ y.flag = x.flag /\ y.mem = x.mem /\ y.n_cam = cam
  BY DEF World, Shape
<1> HIDE DEF y
<1>2. World(y)
  BY <1>1 DEF World, Shape
<1> QED BY <1>1, <1>2 DEF Options, Asked, y

LEMMA OptionRefused ==
  ASSUME NEW x, World(x), Asked(x), NEW err
  PROVE  Options(x, fail(x, err))
  BY FailWorld DEF Options, Asked

LEMMA CommonOption ==
  ASSUME NEW x, World(x), Asked(x), NEW o
  PROVE  Options(x, common_option(x, o))
<1> DEFINE y == common_option(x, o)
<1>1. \/ y = fail(x, "ARG")
      \/ \E i \in 1 .. 4 : o[2] \in Nat /\ y = [x EXCEPT !.n_cam.tmp[i] = o[2]]
      \/ y \in {[x EXCEPT !.flag.M = FALSE], [x EXCEPT !.flag.A = TRUE], [x EXCEPT !.flag.T = TRUE]}
      \/ y = x
  <2>1. CASE o[1] = "X"
    <3>1. y = IF o[2] \in 0 .. OCTET_CNT THEN [x EXCEPT !.n_cam.tmp[1] = o[2]] ELSE fail(x, "ARG")
      BY <2>1 DEF common_option
    <3>2. o[2] \in 0 .. OCTET_CNT => o[2] \in Nat
      OBVIOUS
    <3> HIDE DEF y
    <3> QED BY <3>1, <3>2, 1 \in 1 .. 4
  <2>2. CASE o[1] = "x"
    <3>1. y = IF o[2] \in 0 .. 100 THEN [x EXCEPT !.n_cam.tmp[2] = o[2]] ELSE fail(x, "ARG")
      BY <2>2 DEF common_option
    <3>2. o[2] \in 0 .. 100 => o[2] \in Nat
      OBVIOUS
    <3> HIDE DEF y
    <3> QED BY <3>1, <3>2, 2 \in 1 .. 4
  <2>3. CASE o[1] = "2"
    <3>1. y = IF o[2] \in 0 .. OCTET_CNT \div 2 THEN [x EXCEPT !.n_cam.tmp[3] = o[2]] ELSE fail(x, "ARG")
      BY <2>3 DEF common_option
    <3>2. o[2] \in 0 .. OCTET_CNT \div 2 => o[2] \in Nat
      OBVIOUS
    <3> HIDE DEF y
    <3> QED BY <3>1, <3>2, 3 \in 1 .. 4
  <2>4. CASE o[1] = "d"
    <3>1. y = IF o[2] \in 0 .. 50 THEN [x EXCEPT !.n_cam.tmp[4] = o[2]] ELSE fail(x, "ARG")
      BY <2>4 DEF common_option
    <3>2. o[2] \in 0 .. 50 => o[2] \in Nat
      OBVIOUS
    <3> HIDE DEF y
    <3> QED BY <3>1, <3>2, 4 \in 1 .. 4
  <2>5. CASE o[1] \notin {"X", "x", "2", "d"}
    BY <2>5 DEF common_option
  <2> QED BY <2>1, <2>2, <2>3, <2>4, <2>5
<1> HIDE DEF y
<1>2. Options(x, y)
  <2>1. CASE \E i \in 1 .. 4 : o[2] \in Nat /\ y = [x EXCEPT !.n_cam.tmp[i] = o[2]]
    BY <2>1, LimitAsked
  <2>2. CASE y \in {[x EXCEPT !.flag.M = FALSE], [x EXCEPT !.flag.A = TRUE], [x EXCEPT !.flag.T = TRUE]}
    BY <2>2, FlagSet
  <2>3. CASE y = x
    BY <2>3 DEF Options
  <2>4. CASE y = fail(x, "ARG")
    BY <2>4, OptionRefused
  <2> QED BY <1>1, <2>1, <2>2, <2>3, <2>4
<1> QED BY <1>2 DEF y

LEMMA SettingOption ==
  ASSUME NEW x, World(x), Asked(x), NEW o, NEW opt
  PROVE  Options(x, setting_option(x, o, opt))
<1> DEFINE s == opt[o[1]][1]
           y == [x EXCEPT !.n_cam.val[s] = o[2], !.n_cam.mask = @ \cup {s}]
<1>1. setting_option(x, o, opt) = y \/ setting_option(x, o, opt) = fail(x, "ARG")
  BY DEF setting_option
<1>2. Options(x, y)
  BY NewSetting
<1> HIDE DEF y
<1> QED BY <1>1, <1>2, OptionRefused

LEMMA PresetsAsked ==
  /\ DOMAIN pwc_LavaRnd = DOMAIN no_cam({}) /\ pwc_LavaRnd.tmp = PwcLimits
  /\ DOMAIN ov511_LavaRnd = DOMAIN no_cam({}) /\ ov511_LavaRnd.tmp = Ov511Limits
  BY Domains DEF pwc_LavaRnd, ov511_LavaRnd, no_cam

LEMMA LavacamOption ==
  ASSUME NEW x, World(x), Asked(x), NEW o
  PROVE  Options(x, lavacam_option(x, o))
<1> DEFINE back(v) == [x EXCEPT !.n_cam.val["backlight"] = v, !.n_cam.mask = @ \cup {"backlight"}]
           flick(v) == [x EXCEPT !.n_cam.val["flicker"] = v, !.n_cam.mask = @ \cup {"flicker"}]
<1>1. lavacam_option(x, o) \in
        {setting_option(x, o, pwc_opt), setting_option(x, o, ov511_opt), fail(x, "ARG"), back(o[2]), flick(o[2]),
         [x EXCEPT !.n_cam = pwc_LavaRnd], [x EXCEPT !.n_cam = ov511_LavaRnd], common_option(x, o)}
  BY DEF lavacam_option, pwc_option, ov511_option
<1>2. Options(x, back(o[2])) /\ Options(x, flick(o[2]))
  BY NewSetting
<1>3. Options(x, [x EXCEPT !.n_cam = pwc_LavaRnd]) /\ Options(x, [x EXCEPT !.n_cam = ov511_LavaRnd])
  BY PresetsAsked, NewCam, PwcAssumption, Ov511Assumption
<1> HIDE DEF back, flick
<1> QED BY <1>1, <1>2, <1>3, SettingOption, CommonOption, OptionRefused

LEMMA LavacamArgvStart ==
  ASSUME NEW x, World(x)
  PROVE  LET y == lavacam_argv_start(x)
         IN /\ World(y) /\ y.type = x.type /\ y.saved = x.saved /\ y.hw = x.hw /\ y.siz = x.siz
            /\ y.mem = x.mem /\ y.ret = x.ret /\ Asked(y) /\ ~y.flag.files
<1> DEFINE cam == IF driver(x) = "pwc" THEN [no_cam(PwcSettings) EXCEPT !.tmp = PwcLimits]
                  ELSE [no_cam(Ov511Settings) EXCEPT !.tmp = Ov511Limits]
           y == [x EXCEPT !.n_cam = cam, !.flag = default_flag]
<1>1. lavacam_argv_start(x) = y
  BY DEF lavacam_argv_start, pwc_argv_start, ov511_argv_start
<1>2. DOMAIN cam = DOMAIN no_cam({}) /\ cam.tmp \in [1 .. 4 -> Nat]
  BY Domains, PwcAssumption, Ov511Assumption DEF no_cam
<1> HIDE DEF cam
<1>3. /\ DOMAIN y = DOMAIN x /\ y.type = x.type /\ y.saved = x.saved /\ y.hw = x.hw
      /\ y.o_cam = x.o_cam /\ y.siz = x.siz /\ y.mem = x.mem /\ y.ret = x.ret
      /\ y.n_cam = cam /\ y.flag = default_flag
  BY DEF World, Shape
<1> HIDE DEF y
<1>4. World(y)
  BY <1>2, <1>3 DEF World, Shape
<1> QED BY <1>1, <1>2, <1>3, <1>4 DEF Asked, default_flag

LEMMA ArgvStartMask ==
  ASSUME NEW x, World(x)
  PROVE  lavacam_argv_start(x).n_cam.mask = {}
<1>1. PICK cam \in {[no_cam(PwcSettings) EXCEPT !.tmp = PwcLimits], [no_cam(Ov511Settings) EXCEPT !.tmp = Ov511Limits]} :
        lavacam_argv_start(x) = [x EXCEPT !.n_cam = cam, !.flag = default_flag]
  BY DEF lavacam_argv_start, pwc_argv_start, ov511_argv_start
<1>2. cam.mask = {}
  BY DEF no_cam
<1> QED BY <1>1, <1>2 DEF World, Shape

\* The driver's check looks at every setting that is to be changed.
LEMMA LavacamCheck ==
  ASSUME NEW x, lavacam_check(x)
  PROVE  Checked(x)
  BY DEF lavacam_check, driver, pwc_check, ov511_check, Checked, allowed

LEMMA LavacamArgvEnd ==
  ASSUME NEW x, World(x), Parsing(x), Asked(x), ~x.flag.files, NEW files \in BOOLEAN,
         NEW z \in lavacam_argv_end(x, files)
  PROVE  /\ World(z) /\ z.type = x.type /\ z.saved = x.saved
         /\ z.ret = "OK" => Parsing(z) /\ Asked(z) /\ Checked(z)
<1> DEFINE u == [x EXCEPT !.flag.files = TRUE, !.mem.files = @ + 1]
<1>1. PICK y \in argv_files(x, files) :
        IF y.ret = "OK" THEN z = (IF lavacam_check(y) THEN y ELSE fail(y, "RANGE")) ELSE z = y
  BY DEF lavacam_argv_end, Then
<1>2. y \in {u, x, fail(x, "ARG"), fail(x, "MALLOC")}
  BY DEF argv_files
<1>3. /\ World(u) /\ u.type = x.type /\ u.saved = x.saved /\ Parsing(u) /\ Asked(u)
  <2>1. /\ DOMAIN u = DOMAIN x /\ u.type = x.type /\ u.saved = x.saved /\ u.hw = x.hw /\ u.ret = x.ret
        /\ u.o_cam = x.o_cam /\ u.n_cam = x.n_cam /\ u.siz = x.siz
        /\ u.flag = [x.flag EXCEPT !.files = TRUE] /\ u.mem = [x.mem EXCEPT !.files = @ + 1]
    BY DEF World, Shape
  <2> HIDE DEF u
  <2>2. x.mem.files = 0
    BY DEF Parsing, Held
  <2>3. /\ DOMAIN u.mem = DOMAIN x.mem /\ u.mem.files = 1
        /\ u.mem.fd = x.mem.fd /\ u.mem.image = x.mem.image /\ u.mem.prev = x.mem.prev
    BY <2>1, <2>2, Domains DEF World, Shape
  <2>4. DOMAIN u.flag = DOMAIN x.flag /\ u.flag.files
    BY <2>1, Domains DEF World, Shape
  <2>5. {u.mem.fd, u.mem.image, u.mem.prev, u.mem.files} \subseteq 0 .. 1
    BY <2>3 DEF World
  <2>6. World(u)
    BY <2>1, <2>3, <2>4, <2>5 DEF World, Shape
  <2>7. Parsing(u)
    BY <2>1, <2>3, <2>4 DEF Parsing, Held
  <2> QED BY <2>1, <2>6, <2>7 DEF Asked
<1> HIDE DEF u
<1>4. /\ World(y) /\ y.type = x.type /\ y.saved = x.saved
      /\ y.ret = "OK" => Parsing(y) /\ Asked(y)
  BY <1>2, <1>3, FailWorld
<1>5. y.ret = "OK" /\ lavacam_check(y) => z = y /\ Checked(y)
  BY <1>1, LavacamCheck
<1>6. y.ret = "OK" /\ ~lavacam_check(y) => z = fail(y, "RANGE")
  BY <1>1
<1> QED BY <1>1, <1>4, <1>5, <1>6, FailWorld

-----------------------------------------------------------------------------
(* The frames.                                                             *)

\* From x to y nothing has changed but what is in the buffer, what is captured,
\* and the result.
SameStructs(x, y) ==
  /\ World(y) /\ y.type = x.type /\ y.saved = x.saved /\ y.n_cam = x.n_cam
  /\ y.flag = x.flag /\ y.mem = x.mem

LEMMA FrameNumbered ==
  ASSUME NEW x, World(x), Opened(x)
  PROVE  LET y == [x EXCEPT !.siz.frame_num = @ + 1]
         IN /\ SameStructs(x, y) /\ y.hw = x.hw /\ y.ret = x.ret /\ Opened(y)
            /\ y.siz.limits = x.siz.limits /\ y.siz.frame_num = x.siz.frame_num + 1
            /\ y.siz.prev = x.siz.prev /\ y.siz.use_read = x.siz.use_read
            /\ y.siz.chaos_len = x.siz.chaos_len
<1> DEFINE siz == [x.siz EXCEPT !.frame_num = @ + 1]
           y == [x EXCEPT !.siz.frame_num = @ + 1]
<1>1. y = [x EXCEPT !.siz = siz]
  BY DEF World, Shape
<1>2. /\ DOMAIN siz = DOMAIN x.siz /\ siz.frame_num = x.siz.frame_num + 1
      /\ siz.image = x.siz.image /\ siz.image_len = x.siz.image_len /\ siz.lavaoff = x.siz.lavaoff
      /\ siz.chaos_len = x.siz.chaos_len /\ siz.prev = x.siz.prev /\ siz.limits = x.siz.limits
      /\ siz.use_read = x.siz.use_read
  BY Domains DEF World, Shape
<1> HIDE DEF siz
<1>3. DOMAIN siz = DOMAIN no_siz /\ siz.chaos_len \in Nat /\ siz.prev \in DOMAIN Patterns \cup {"none", "zero"}
  BY <1>2 DEF World, Shape
<1> HIDE DEF y
<1>4. /\ World(y) /\ y.type = x.type /\ y.hw = x.hw /\ y.saved = x.saved /\ y.n_cam = x.n_cam
      /\ y.flag = x.flag /\ y.mem = x.mem /\ y.ret = x.ret /\ y.siz = siz
  BY <1>1, <1>3, SizStored
<1>5. Opened(y)
  BY <1>2, <1>4 DEF Opened, Held
<1> QED BY <1>2, <1>4, <1>5 DEF SameStructs, y

\* A frame that has been got is not being captured.
LEMMA GetFrame ==
  ASSUME NEW x, World(x), Opened(x), x.ret = "OK", lavacam_wait_frame(x), NEW y \in lavacam_get_frame(x)
  PROVE  /\ SameStructs(x, y) /\ Opened(y) /\ y.siz.limits = x.siz.limits /\ y.siz.prev = x.siz.prev
         /\ y.hw.capture # "busy" /\ y.siz.chaos_len = x.siz.chaos_len
         /\ y.ret = "OK" => y.siz.frame_num = x.siz.frame_num + 1
<1>1. PICK z \in pwc_get_frame(x) : y = IF z.ret = "OK" THEN [z EXCEPT !.siz.frame_num = @ + 1] ELSE z
  BY DEF lavacam_get_frame, ov511_get_frame
<1>2. x.hw.capture # "busy"
  BY DEF lavacam_wait_frame, pwc_frame_waits, ov511_frame_waits, Opened
<1>3. /\ SameStructs(x, z) /\ z.siz = x.siz /\ z.hw.capture = x.hw.capture
  <2>1. CASE z = x
    BY <2>1 DEF SameStructs
  <2>2. CASE z \in {fail(x, "NOSIZE"), fail(x, "IOERR"), fail(x, "FRAME")}
    BY <2>2, FailWorld DEF SameStructs
  <2>3. CASE \E f \in DOMAIN Patterns : z = [x EXCEPT !.hw.frame = f]
    <3>1. PICK f \in DOMAIN Patterns : z = [x EXCEPT !.hw.frame = f]
      BY <2>3
    <3>2. /\ DOMAIN z = DOMAIN x /\ z.type = x.type /\ z.saved = x.saved
          /\ z.o_cam = x.o_cam /\ z.n_cam = x.n_cam /\ z.siz = x.siz /\ z.flag = x.flag /\ z.mem = x.mem
          /\ z.hw = [x.hw EXCEPT !.frame = f]
      BY <3>1 DEF World, Shape
    <3>3. DOMAIN z.hw = DOMAIN x.hw /\ z.hw.frame = f /\ z.hw.capture = x.hw.capture /\ z.hw.set = x.hw.set
      BY <3>2 DEF World, Shape
    <3>4. World(z)
      BY <3>2, <3>3 DEF World, Shape
    <3> QED BY <3>2, <3>3, <3>4 DEF SameStructs
  <2> QED BY <2>1, <2>2, <2>3 DEF pwc_get_frame
<1>4. World(z) /\ Opened(z)
  BY <1>3 DEF SameStructs, Opened, Held
<1>5. CASE z.ret = "OK"
  <2>1. y = [z EXCEPT !.siz.frame_num = @ + 1]
    BY <1>1, <1>5
  <2>2. /\ SameStructs(z, y) /\ y.hw = z.hw /\ Opened(y)
        /\ y.siz.limits = z.siz.limits /\ y.siz.frame_num = z.siz.frame_num + 1
        /\ y.siz.prev = z.siz.prev /\ y.siz.chaos_len = z.siz.chaos_len
    BY <1>4, <2>1, FrameNumbered
  <2> QED BY <1>2, <1>3, <2>2 DEF SameStructs
<1>6. CASE z.ret # "OK"
  BY <1>1, <1>2, <1>3, <1>4, <1>6
<1> QED BY <1>5, <1>6

LEMMA Msync ==
  ASSUME NEW x, World(x), Opened(x), NEW y \in lavacam_msync(x)
  PROVE  SameStructs(x, y) /\ Opened(y) /\ y.siz = x.siz
<1>1. Captures(x, y) /\ (x.siz.use_read => y = x)
  BY MsyncCaptures DEF lavacam_msync, ov511_msync
<1> QED BY <1>1 DEF Captures, SameStructs, Opened, Held

\* The check of a frame's sanity, after which the process goes on in any case.
LEMMA Sanity ==
  ASSUME NEW x, World(x), Opened(x), NEW y, y = lavacam_sanity(x), x.ret = "OK"
  PROVE  LET z == [y EXCEPT !.ret = "OK"]
         IN /\ SameStructs(x, z) /\ Opened(z) /\ z.ret = "OK" /\ z.hw = x.hw
            /\ z.siz.limits = x.siz.limits /\ z.siz.frame_num = x.siz.frame_num
            /\ z.siz.chaos_len = x.siz.chaos_len
            /\ y.ret = "OK" => /\ differs(x.siz, x.hw.frame)
                               /\ x.siz.limits[4] > 0 => z.siz.prev = x.hw.frame
            /\ y.ret # "OK" => z.siz.prev = x.siz.prev
<1> DEFINE z == [y EXCEPT !.ret = "OK"]
<1>1. z = fail(y, "OK")
  BY DEF fail
<1>2. CASE y \in {fail(x, "UNCOMMON"), fail(x, "OVERSAME")}
  <2>1. /\ World(y) /\ y.ret # "OK" /\ y.type = x.type /\ y.saved = x.saved /\ y.n_cam = x.n_cam
        /\ y.flag = x.flag /\ y.mem = x.mem /\ y.hw = x.hw /\ y.siz = x.siz
    BY <1>2, FailWorld
  <2>2. SameStructs(x, z) /\ z.ret = "OK" /\ z.hw = x.hw /\ z.siz = x.siz
    BY <1>1, <2>1, FailWorld DEF SameStructs
  <2> HIDE DEF z
  <2>3. Opened(z)
    BY <2>2 DEF SameStructs, Opened, Held
  <2> QED BY <2>1, <2>2, <2>3 DEF z
<1>3. CASE y \notin {fail(x, "UNCOMMON"), fail(x, "OVERSAME")}
  <2>1. differs(x.siz, x.hw.frame) /\ y = IF kept(x) THEN [x EXCEPT !.siz.prev = x.hw.frame] ELSE x
    BY <1>3 DEF lavacam_sanity
  <2>2. /\ World(y) /\ y.ret = "OK" /\ y.type = x.type /\ y.saved = x.saved /\ y.n_cam = x.n_cam
        /\ y.flag = x.flag /\ y.mem = x.mem /\ y.hw = x.hw
        /\ y.siz.limits = x.siz.limits /\ y.siz.frame_num = x.siz.frame_num
        /\ y.siz.use_read = x.siz.use_read /\ y.siz.image = x.siz.image
        /\ y.siz.image_len = x.siz.image_len /\ y.siz.lavaoff = x.siz.lavaoff
        /\ y.siz.chaos_len = x.siz.chaos_len
        /\ y.siz.prev = IF x.siz.limits[4] > 0 THEN x.hw.frame ELSE x.siz.prev
    <3>1. CASE kept(x)
      <4> DEFINE siz == [x.siz EXCEPT !.prev = x.hw.frame]
      <4>1. y = [x EXCEPT !.siz = siz]
        BY <2>1, <3>1 DEF World, Shape
      <4>2. /\ DOMAIN siz = DOMAIN x.siz /\ siz.frame_num = x.siz.frame_num
            /\ siz.image = x.siz.image /\ siz.image_len = x.siz.image_len /\ siz.lavaoff = x.siz.lavaoff
            /\ siz.chaos_len = x.siz.chaos_len /\ siz.prev = x.hw.frame /\ siz.limits = x.siz.limits
            /\ siz.use_read = x.siz.use_read
        BY Domains DEF World, Shape
      <4> HIDE DEF siz
      <4>3. DOMAIN siz = DOMAIN no_siz /\ siz.chaos_len \in Nat /\ siz.prev \in DOMAIN Patterns \cup {"none", "zero"}
        BY <4>2 DEF World, Shape
      <4>4. /\ World(y) /\ y.type = x.type /\ y.hw = x.hw /\ y.saved = x.saved /\ y.n_cam = x.n_cam
            /\ y.flag = x.flag /\ y.mem = x.mem /\ y.ret = x.ret /\ y.siz = siz
        BY <4>1, <4>3, SizStored
      <4> QED BY <3>1, <4>2, <4>4 DEF kept
    <3>2. CASE ~kept(x)
      <4>1. y = x
        BY <2>1, <3>2
      <4> QED BY <3>2, <4>1 DEF kept
    <3> QED BY <3>1, <3>2
  <2>3. SameStructs(x, z) /\ z.ret = "OK" /\ z.hw = x.hw /\ z.siz = y.siz
    BY <1>1, <2>2, FailWorld DEF SameStructs
  <2> HIDE DEF z
  <2>4. x.hw.frame # "none"
    BY CameraAssumption DEF World
  <2>5. Opened(z)
    <3>1. Held(z)
      BY <2>2, <2>3, <2>4 DEF SameStructs, Opened, Held
    <3> QED BY <2>2, <2>3, <2>4, <3>1 DEF SameStructs, Opened
  <2> QED BY <2>1, <2>2, <2>3, <2>5 DEF z
<1> QED BY <1>2, <1>3

\* A close gives back all that is held.
LEMMA Close ==
  ASSUME NEW x, World(x), Opened(x), NEW y \in lavacam_close(x)
  PROVE  /\ World(y) /\ y.type = x.type /\ y.saved = x.saved /\ y.mem = no_mem
<1> DEFINE u == pwc_free_image(x)
           v == [u EXCEPT !.mem.prev = @ - (IF u.siz.prev # "none" THEN 1 ELSE 0),
                          !.siz.prev = "none", !.siz.image_len = 0, !.siz.chaos_len = 0,
                          !.mem.files = @ - (IF u.flag.files THEN 1 ELSE 0), !.flag.files = FALSE,
                          !.mem.fd = @ - 1]
<1>1. PICK z \in {v, fail(v, "CLOSE")} : y = [z EXCEPT !.hw.capture = "none"]
  BY DEF lavacam_close, ov511_close, pwc_close
<1>2. /\ DOMAIN u = DOMAIN x /\ u.type = x.type /\ u.saved = x.saved /\ u.hw = x.hw
      /\ u.o_cam = x.o_cam /\ u.n_cam = x.n_cam /\ u.flag = x.flag
      /\ DOMAIN u.siz = DOMAIN x.siz /\ u.siz.prev = x.siz.prev
      /\ DOMAIN u.mem = DOMAIN x.mem /\ u.mem.fd = 1 /\ u.mem.image = 0
      /\ u.mem.prev = x.mem.prev /\ u.mem.files = x.mem.files
  <2>1. CASE x.siz.image # "none"
    <3>1. u = [x EXCEPT !.mem.image = @ - 1, !.siz.image = "none"]
      BY <2>1 DEF pwc_free_image
    <3> HIDE DEF u
    <3>2. /\ DOMAIN u = DOMAIN x /\ u.type = x.type /\ u.saved = x.saved /\ u.hw = x.hw
          /\ u.o_cam = x.o_cam /\ u.n_cam = x.n_cam /\ u.flag = x.flag
          /\ u.mem = [x.mem EXCEPT !.image = @ - 1] /\ u.siz = [x.siz EXCEPT !.image = "none"]
      BY <3>1 DEF World, Shape
    <3>3. x.mem.image = 1 /\ x.mem.fd = 1
      BY <2>1 DEF Opened, Held
    <3> QED BY <3>2, <3>3, Domains DEF World, Shape
  <2>2. CASE x.siz.image = "none"
    <3>1. u = x
      BY <2>2 DEF pwc_free_image
    <3> QED BY <2>2, <3>1 DEF Opened, Held
  <2> QED BY <2>1, <2>2
<1> HIDE DEF u
<1>3. /\ DOMAIN v = DOMAIN u /\ v.type = u.type /\ v.saved = u.saved /\ v.hw = u.hw
      /\ v.o_cam = u.o_cam /\ v.n_cam = u.n_cam
      /\ v.siz = [u.siz EXCEPT !.prev = "none", !.image_len = 0, !.chaos_len = 0]
      /\ v.flag = [u.flag EXCEPT !.files = FALSE]
      /\ v.mem = [u.mem EXCEPT !.prev = @ - (IF u.siz.prev # "none" THEN 1 ELSE 0),
                               !.files = @ - (IF u.flag.files THEN 1 ELSE 0), !.fd = @ - 1]
  <2>1. DOMAIN u = {"type", "ret", "saved", "hw", "o_cam", "n_cam", "siz", "flag", "mem"}
    BY <1>2 DEF World, Shape
  <2>2. /\ DOMAIN v = DOMAIN u /\ v.type = u.type /\ v.saved = u.saved /\ v.hw = u.hw
        /\ v.o_cam = u.o_cam /\ v.n_cam = u.n_cam
    BY <2>1
  <2>3. v.siz = [u.siz EXCEPT !.prev = "none", !.image_len = 0, !.chaos_len = 0]
    BY <2>1
  <2>4. v.flag = [u.flag EXCEPT !.files = FALSE]
    BY <2>1
  <2>5. v.mem = [u.mem EXCEPT !.prev = @ - (IF u.siz.prev # "none" THEN 1 ELSE 0),
                              !.files = @ - (IF u.flag.files THEN 1 ELSE 0), !.fd = @ - 1]
    BY <2>1
  <2> QED BY <2>2, <2>3, <2>4, <2>5
<1> HIDE DEF v
<1>4. DOMAIN v.siz = DOMAIN no_siz /\ v.siz.prev = "none" /\ v.siz.chaos_len = 0
  BY <1>2, <1>3, Domains DEF World, Shape
<1>5. DOMAIN v.flag = DOMAIN default_flag
  BY <1>2, <1>3, Domains DEF World, Shape
<1>6. DOMAIN v.mem = DOMAIN no_mem /\ v.mem.fd = 0 /\ v.mem.image = 0 /\ v.mem.prev = 0 /\ v.mem.files = 0
  <2>1. x.mem.prev = (IF u.siz.prev # "none" THEN 1 ELSE 0) /\ x.mem.files = (IF u.flag.files THEN 1 ELSE 0)
    BY <1>2 DEF Opened, Held
  <2> QED BY <1>2, <1>3, <2>1, Domains DEF World, Shape
<1>7. v.mem = no_mem
  BY <1>2, <1>3, <1>6, Domains DEF no_mem
<1>8. World(v)
  BY <1>2, <1>3, <1>4, <1>5, <1>6 DEF World, Shape
<1>9. World(z) /\ z.type = x.type /\ z.saved = x.saved /\ z.mem = no_mem
  BY <1>1, <1>2, <1>3, <1>7, <1>8, FailWorld
<1>10. Captures(z, y)
  BY <1>1, <1>9, CapturesOnly
<1> QED BY <1>9, <1>10 DEF Captures

-----------------------------------------------------------------------------
(* The invariant.  Each step preserves it, and changes what is kept in the *)
(* camera only as it was asked to.                                         *)

\* A world without a process.
LEMMA GoneWorld ==
  ASSUME NEW x, x.type \in DOMAIN Cameras, DOMAIN x.hw = {"set", "capture", "optional", "frame"},
         Settings(x.type, x.hw.set), Settings(x.type, x.saved), x.hw.frame \in DOMAIN Patterns
  PROVE  /\ World(gone(x)) /\ Parsing(gone(x)) /\ gone(x).saved = x.saved /\ gone(x).type = x.type
         /\ ~gone(x).flag.files
<1> DEFINE y == gone(x)
<1>1. /\ DOMAIN y = {"type", "ret", "saved", "hw", "o_cam", "n_cam", "siz", "flag", "mem"}
      /\ y.type = x.type /\ y.ret = "OK" /\ y.saved = x.saved /\ y.hw = [x.hw EXCEPT !.capture = "none"]
      /\ y.o_cam = no_cam({}) /\ y.n_cam = no_cam({}) /\ y.siz = no_siz /\ y.flag = default_flag
      /\ y.mem = no_mem
  BY DEF gone
<1>2. /\ no_siz.prev = "none" /\ no_siz.chaos_len = 0 /\ no_siz.image = "none" /\ default_flag.files = FALSE
      /\ no_mem.fd = 0 /\ no_mem.image = 0 /\ no_mem.prev = 0 /\ no_mem.files = 0
  BY DEF no_siz, no_mem, default_flag
<1> HIDE DEF y
<1>3. /\ DOMAIN y.hw = {"set", "capture", "optional", "frame"} /\ y.hw.set = x.hw.set
      /\ y.hw.capture = "none" /\ y.hw.frame = x.hw.frame
  BY <1>1
<1>4. World(y)
  BY <1>1, <1>2, <1>3 DEF World, Shape
<1>5. Parsing(y)
  BY <1>1, <1>2, <1>3 DEF Parsing, Held
<1> QED BY <1>1, <1>2, <1>4, <1>5 DEF y

LEMMA WorldGone ==
  ASSUME NEW x, World(x)
  PROVE  /\ World(gone(x)) /\ Parsing(gone(x)) /\ gone(x).saved = x.saved /\ gone(x).type = x.type
         /\ ~gone(x).flag.files
  BY GoneWorld DEF World, Shape

LEMMA NoJob ==
  /\ DOMAIN no_job = {"tool", "line", "maxlen", "written", "out"}
  /\ no_job.tool = "none" /\ no_job.maxlen = 0 /\ no_job.written = 0 /\ no_job.out = 0
  /\ DOMAIN no_hist = {"asked", "last"} /\ no_hist.last = "none"
  BY DEF no_job, no_hist

LEMMA CaptureInitInv == Init => CaptureInv /\ TurnInv
<1> SUFFICES ASSUME Init PROVE CaptureInv /\ TurnInv
  OBVIOUS
<1>8. PICK type \in DOMAIN Cameras : \E cam \in Cameras[type] :
        w = gone([type |-> type, saved |-> cam.set,
                  hw |-> [set |-> cam.set, capture |-> "none", optional |-> cam.optional,
                          frame |-> CHOOSE f \in DOMAIN Patterns : TRUE]])
  BY DEF Init
<1>1. PICK cam \in Cameras[type] :
        w = gone([type |-> type, saved |-> cam.set,
                  hw |-> [set |-> cam.set, capture |-> "none", optional |-> cam.optional,
                          frame |-> CHOOSE f \in DOMAIN Patterns : TRUE]])
  BY <1>8
<1> DEFINE frame == CHOOSE f \in DOMAIN Patterns : TRUE
<1>2. frame \in DOMAIN Patterns
  BY CameraAssumption
<1> HIDE DEF frame
<1> DEFINE x == [type |-> type, saved |-> cam.set,
                 hw |-> [set |-> cam.set, capture |-> "none", optional |-> cam.optional, frame |-> frame]]
<1>3. w = gone(x)
  BY <1>1 DEF frame
<1>4. /\ x.type = type /\ DOMAIN x.hw = {"set", "capture", "optional", "frame"}
      /\ x.hw.set = cam.set /\ x.saved = cam.set /\ x.hw.frame = frame
  OBVIOUS
<1> HIDE DEF x
<1>5. Settings(type, cam.set)
  BY CamerasAssumption DEF Settings
<1>6. World(w)
  BY <1>2, <1>3, <1>4, <1>5, GoneWorld
<1>7. PhaseInv /\ FrameInv /\ JobInv
  BY NoJob DEF Init, PhaseInv, FrameInv, JobInv, Capturing
<1> QED BY <1>6, <1>7, TurnInitInv DEF Init, CaptureInv

\* What a step has to show.
Steps == CaptureInv' /\ KeptIs(w, w')

\* While a camera is open, what it keeps and what frames are compared by stay.
SameRule == w'.saved = w.saved /\ w'.siz.chaos_len = w.siz.chaos_len /\ hist'.asked = hist.asked

LEMMA StartStep ==
  ASSUME CaptureInv, NEW tool \in Tools, NEW line, NEW maxlen \in Int, start(tool, line, maxlen)
  PROVE  Steps
<1>1. World(w) /\ pc = "idle" /\ hist' = hist /\ hist.last = "none" /\ DOMAIN hist = DOMAIN no_hist
  BY DEF CaptureInv, FrameInv, JobInv, start
<1>2. World(gone(w)) /\ Parsing(gone(w)) /\ gone(w).saved = w.saved /\ ~gone(w).flag.files
  BY <1>1, WorldGone
<1>3. JobInv'
  <2>1. job' \in {[no_job EXCEPT !.tool = tool, !.maxlen = maxlen],
                  [no_job EXCEPT !.tool = tool, !.maxlen = maxlen, !.line = line]}
    BY DEF start
  <2>2. /\ DOMAIN job' = DOMAIN no_job /\ job'.tool = tool /\ job'.maxlen = maxlen
        /\ job'.written = 0 /\ job'.out = 0
    BY <2>1, NoJob
  <2>3. pc' \in {"parsed", "options"}
    BY DEF start
  <2> QED BY <1>1, <2>2, <2>3 DEF JobInv, Tools, Dumps
<1>4. CASE tool = "camget"
  <2>1. w' = gone(w) /\ pc' = "parsed" /\ job'.tool = "camget"
    BY <1>4, NoJob DEF start
  <2>2. PhaseInv'
    BY <1>2, <2>1 DEF PhaseInv, Capturing
  <2>3. FrameInv'
    BY <1>1, <2>1 DEF FrameInv, Capturing
  <2> QED BY <1>2, <1>3, <2>1, <2>2, <2>3 DEF Steps, CaptureInv, KeptIs
<1>5. CASE tool # "camget"
  <2> DEFINE y == lavacam_argv_start(gone(w))
  <2>1. w' = y /\ pc' = "options"
    BY <1>5 DEF start
  <2>2. /\ World(y) /\ y.saved = gone(w).saved /\ y.hw = gone(w).hw /\ y.siz = gone(w).siz
        /\ y.mem = gone(w).mem /\ y.ret = gone(w).ret /\ Asked(y) /\ ~y.flag.files
    BY <1>2, LavacamArgvStart
  <2> HIDE DEF y
  <2>3. Parsing(y)
    BY <1>2, <2>2 DEF Parsing, Held
  <2>4. PhaseInv'
    BY <2>1, <2>2, <2>3 DEF PhaseInv, Capturing
  <2>5. FrameInv'
    BY <1>1, <2>1 DEF FrameInv, Capturing
  <2> QED BY <1>2, <1>3, <2>1, <2>2, <2>4, <2>5 DEF Steps, CaptureInv, KeptIs
<1> QED BY <1>4, <1>5

LEMMA OptionStep ==
  ASSUME CaptureInv, option
  PROVE  Steps
<1> DEFINE y == lavacam_option(w, Head(job.line))
<1>1. /\ pc = "options" /\ World(w) /\ Parsing(w) /\ Asked(w) /\ ~w.flag.files /\ hist.last = "none"
      /\ DOMAIN hist = DOMAIN no_hist
  BY DEF option, CaptureInv, PhaseInv, FrameInv, JobInv
<1>2. w' = y /\ pc' = (IF y.ret = "OK" THEN "options" ELSE "ended") /\ hist' = hist
      /\ job' = [job EXCEPT !.line = Tail(@)]
  BY DEF option, go
<1>3. Options(w, y)
  BY <1>1, LavacamOption
<1> HIDE DEF y
<1>4. World(y) /\ y.saved = w.saved /\ (y.ret = "OK" => Parsing(y) /\ Asked(y) /\ ~y.flag.files)
  BY <1>1, <1>3 DEF Options, Parsing, Held
<1>5. PhaseInv'
  BY <1>2, <1>4 DEF PhaseInv, Capturing
<1>6. FrameInv'
  BY <1>1, <1>2 DEF FrameInv, Capturing
<1>7. JobInv'
  <2>1. /\ DOMAIN job' = DOMAIN job /\ job'.tool = job.tool /\ job'.maxlen = job.maxlen
        /\ job'.written = job.written /\ job'.out = job.out
    BY <1>2, NoJob DEF CaptureInv, JobInv
  <2> QED BY <1>1, <1>2, <2>1 DEF CaptureInv, JobInv
<1> QED BY <1>2, <1>4, <1>5, <1>6, <1>7 DEF Steps, CaptureInv, KeptIs

\* The options end in a world that was checked, or with an error.
LEMMA OptionsOver ==
  ASSUME CaptureInv, pc = "options", job' = job, hist' = hist, pc' \in {"parsed", "ended"},
         World(w'), w'.saved = w.saved,
         pc' = "parsed" => Parsing(w') /\ Asked(w') /\ Checked(w')
  PROVE  Steps
<1>1. hist.last = "none"
  BY DEF CaptureInv, FrameInv
<1>2. PhaseInv'
  BY DEF PhaseInv, Capturing
<1>3. FrameInv'
  BY <1>1 DEF FrameInv, Capturing
<1>4. JobInv'
  BY DEF CaptureInv, JobInv
<1> QED BY <1>2, <1>3, <1>4 DEF Steps, CaptureInv, KeptIs

LEMMA OptionsEndStep ==
  ASSUME CaptureInv, NEW files \in BOOLEAN, options_end(files)
  PROVE  Steps
<1>1. /\ pc = "options" /\ World(w) /\ Parsing(w) /\ Asked(w) /\ ~w.flag.files
  BY DEF options_end, CaptureInv, PhaseInv
<1>2. PICK y \in lavacam_argv_end(w, files) : w' = y /\ pc' = IF y.ret = "OK" THEN "parsed" ELSE "ended"
  BY DEF options_end, go
<1>3. World(y) /\ y.saved = w.saved /\ (y.ret = "OK" => Parsing(y) /\ Asked(y) /\ Checked(y))
  BY <1>1, LavacamArgvEnd
<1>4. hist' = hist /\ job' = job
  BY DEF options_end
<1> QED BY <1>1, <1>2, <1>3, <1>4, OptionsOver

LEMMA ValueEnds ==
  ASSUME CaptureInv, NEW interval \in BOOLEAN, value_ends(interval)
  PROVE  /\ pc = "options" /\ job' = job /\ hist' = hist /\ pc' \in {"parsed", "ended"}
         /\ World(w') /\ w'.saved = w.saved
         /\ pc' = "parsed" => Parsing(w') /\ Asked(w') /\ Checked(w')
<1>1. /\ pc = "options" /\ World(w) /\ Parsing(w) /\ Asked(w) /\ ~w.flag.files
      /\ job' = job /\ hist' = hist
  BY DEF value_ends, CaptureInv, PhaseInv
<1>2. CASE \E err \in {"ARG", "MALLOC"} : go(fail(w, err), "parsed", "ended")
  <2>1. PICK err \in {"ARG", "MALLOC"} : go(fail(w, err), "parsed", "ended")
    BY <1>2
  <2>2. World(fail(w, err)) /\ fail(w, err).saved = w.saved /\ fail(w, err).ret = err
    BY <1>1, FailWorld DEF fail, World, Shape
  <2>3. w' = fail(w, err) /\ pc' = "ended"
    BY <2>1, <2>2 DEF go
  <2> QED BY <1>1, <2>2, <2>3
<1>3. CASE \E y \in lavacam_argv_end(w, interval) :
             go(y, IF interval \/ job.tool \in Dumps THEN "parsed" ELSE "ended", "ended")
  <2>1. PICK y \in lavacam_argv_end(w, interval) :
             go(y, IF interval \/ job.tool \in Dumps THEN "parsed" ELSE "ended", "ended")
    BY <1>3
  <2>2. World(y) /\ y.saved = w.saved /\ (y.ret = "OK" => Parsing(y) /\ Asked(y) /\ Checked(y))
    BY <1>1, LavacamArgvEnd
  <2>3. w' = y /\ pc' \in {"parsed", "ended"} /\ (pc' = "parsed" => y.ret = "OK")
    BY <2>1 DEF go
  <2> QED BY <1>1, <2>2, <2>3
<1> QED BY <1>2, <1>3 DEF value_ends

LEMMA ValueEndsStep ==
  ASSUME CaptureInv, NEW interval \in BOOLEAN, value_ends(interval)
  PROVE  Steps
BY ValueEnds, OptionsOver

LEMMA OpenStep ==
  ASSUME CaptureInv, open
  PROVE  Steps
<1> DEFINE given == job.tool # "camget"
           limits == limits_of(w, given)
<1>1. pc = "parsed" /\ World(w) /\ Parsing(w) /\ (given => Asked(w) /\ Checked(w)) /\ given \in BOOLEAN
  BY DEF open, CaptureInv, PhaseInv
<1>2. PICK y \in lavacam_open(w, given) :
        /\ w' = y /\ pc' = IF y.ret = "OK" THEN "opened" ELSE "ended"
        /\ job' = IF job.maxlen = 0 THEN [job EXCEPT !.maxlen = y.siz.chaos_len] ELSE job
  BY DEF open, go
<1>3. hist' = [no_hist EXCEPT !.asked = limits]
  BY DEF open, limits_of
<1> HIDE DEF given
<1>4. Opens(w, y, limits)
  BY <1>1, LavacamOpens
<1> HIDE DEF limits
<1>5. DOMAIN hist' = DOMAIN no_hist /\ hist'.asked = limits /\ hist'.last = "none"
  BY <1>3, NoJob
<1>6. World(y) /\ KeptIs(w, y) /\ (y.ret = "OK" => Opened(y) /\ y.siz.limits = limits)
  BY <1>4 DEF Opens
<1>7. PhaseInv'
  BY <1>2, <1>5, <1>6 DEF PhaseInv, Capturing
<1>8. FrameInv'
  BY <1>2, <1>5 DEF FrameInv, Capturing
<1>9. JobInv'
  <2>1. y.siz.chaos_len \in Nat
    BY <1>6 DEF World
  <2>2. /\ DOMAIN job = DOMAIN no_job /\ job.tool \in Tools \cup {"none"}
        /\ {job.maxlen, job.written, job.out} \subseteq Int
        /\ job.tool = "lavadump" /\ job.maxlen >= 0 => job.out = 0 /\ job.written = 0
    BY <1>1 DEF CaptureInv, JobInv
  <2>3. CASE job.maxlen = 0
    <3>1. /\ DOMAIN job' = DOMAIN no_job /\ job'.tool = job.tool /\ job'.maxlen = y.siz.chaos_len
          /\ job'.written = job.written /\ job'.out = job.out
      BY <1>2, <2>2, <2>3, NoJob
    <3> QED BY <1>2, <1>5, <2>1, <2>2, <2>3, <3>1 DEF JobInv
  <2>4. CASE job.maxlen # 0
    <3>1. job' = job /\ pc' \in {"opened", "ended"}
      BY <1>2, <2>4
    <3> QED BY <1>5, <2>2, <3>1 DEF JobInv
  <2> QED BY <2>3, <2>4
<1> QED BY <1>2, <1>6, <1>7, <1>8, <1>9 DEF Steps, CaptureInv

LEMMA FetchStateStep ==
  ASSUME CaptureInv, fetch_state
  PROVE  Steps /\ SameRule
<1>1. /\ pc = "opened" /\ World(w) /\ Opened(w) /\ w.siz.limits = hist.asked /\ hist.last = "none"
  BY DEF fetch_state, CaptureInv, PhaseInv, FrameInv
<1>2. PICK y \in lavacam_get(w, "n_cam") :
        go(IF y.ret = "OK" /\ ~lavacam_check(y) THEN fail(y, "RANGE") ELSE y,
           IF job.tool \in Dumps THEN "waiting" ELSE "leaving", "ended")
  BY DEF fetch_state
<1>3. Gets(w, y, "n_cam")
  BY <1>1, LavacamGetGets
<1>4. Tuned(w, y) /\ World(y) /\ y.saved = w.saved
  BY <1>3 DEF Gets, Tuned
<1>5. /\ Tuned(w, w') /\ World(w') /\ w'.saved = w.saved
  <2>1. CASE w' = y
    BY <1>4, <2>1
  <2>2. CASE w' = fail(y, "RANGE")
    <3>1. Tuned(y, w') /\ w'.saved = y.saved
      BY <1>4, <2>2, TunedSame DEF SetIn
    <3> QED BY <1>4, <3>1, TunedTrans DEF Tuned
  <2> QED BY <1>2, <2>1, <2>2 DEF go
<1>6. /\ pc' \in {"waiting", "leaving", "ended"} /\ (pc' # "ended" => w'.ret = "OK")
      /\ (pc' = "leaving" => job.tool # "lavadump")
  BY <1>2 DEF go, Dumps
<1>7. hist' = hist /\ job' = job
  BY DEF fetch_state
<1>8. Opened(w') /\ w'.siz = w.siz
  BY <1>1, <1>5 DEF Tuned, Opened, Held
<1>9. PhaseInv'
  BY <1>1, <1>6, <1>7, <1>8 DEF PhaseInv, Capturing
<1>10. FrameInv'
  BY <1>1, <1>6, <1>7 DEF FrameInv, Capturing
<1>11. JobInv'
  BY <1>1, <1>6, <1>7 DEF CaptureInv, JobInv
<1> QED BY <1>5, <1>6, <1>7, <1>8, <1>9, <1>10, <1>11 DEF Steps, SameRule, CaptureInv, KeptIs

LEMMA BeginStep ==
  ASSUME CaptureInv, begin
  PROVE  Steps
<1>1. /\ pc = "opened" /\ World(w) /\ Opened(w) /\ w.siz.limits = hist.asked /\ hist.last = "none"
      /\ w.ret = "OK"
  BY DEF begin, CaptureInv, PhaseInv, FrameInv
<1>2. w' = w /\ job' = job /\ hist' = hist /\ pc' \in {"waiting", "ended"}
  BY DEF begin
<1>3. PhaseInv'
  BY <1>1, <1>2 DEF PhaseInv, Capturing
<1>4. FrameInv'
  BY <1>1, <1>2 DEF FrameInv, Capturing
<1>5. JobInv'
  BY <1>1, <1>2 DEF CaptureInv, JobInv
<1> QED BY <1>1, <1>2, <1>3, <1>4, <1>5 DEF Steps, CaptureInv, KeptIs

LEMMA GetFrameStep ==
  ASSUME CaptureInv, get_frame
  PROVE  Steps /\ SameRule
<1>1. /\ pc = "waiting" /\ World(w) /\ Opened(w) /\ w.siz.limits = hist.asked /\ w.ret = "OK"
      /\ hist.last \in DOMAIN Patterns \cup {"none"}
      /\ hist.last # "none" => /\ w.siz.frame_num > 0
                               /\ w.siz.limits[4] > 0 => w.siz.prev = hist.last
  BY DEF get_frame, CaptureInv, PhaseInv, FrameInv, Capturing
<1>2. PICK y \in lavacam_get_frame(w) : w' = y /\ pc' = IF y.ret = "OK" THEN "got" ELSE failed
  BY DEF get_frame, go
<1>3. /\ SameStructs(w, y) /\ Opened(y) /\ y.siz.limits = w.siz.limits /\ y.siz.prev = w.siz.prev
      /\ y.hw.capture # "busy" /\ y.siz.chaos_len = w.siz.chaos_len
      /\ y.ret = "OK" => y.siz.frame_num = w.siz.frame_num + 1
  BY <1>1, GetFrame DEF get_frame
<1>4. World(y) /\ y.saved = w.saved
  BY <1>3 DEF SameStructs
<1>5. hist' = hist /\ job' = job /\ (pc' = "got" => y.ret = "OK") /\ pc' \in {"got", "leaving", "ended"}
      /\ (pc' = "leaving" => job.tool = "lavapool")
  BY <1>2 DEF get_frame, failed
<1>6. w.siz.frame_num \in Nat
  BY <1>1 DEF Opened
<1>7. PhaseInv'
  BY <1>1, <1>2, <1>3, <1>5 DEF PhaseInv, Capturing
<1>8. FrameInv'
  <2>1. CASE pc' = "got"
    <3>1. y.siz.frame_num = w.siz.frame_num + 1
      BY <1>3, <1>5, <2>1
    <3>2. y.siz.frame_num > 0 /\ (hist.last # "none" => y.siz.frame_num > 1)
      BY <1>1, <1>6, <3>1
    <3> QED BY <1>1, <1>2, <1>3, <1>5, <2>1, <3>2 DEF FrameInv, Capturing
  <2>2. CASE pc' # "got"
    BY <1>1, <1>5, <2>2 DEF FrameInv, Capturing
  <2> QED BY <2>1, <2>2
<1>9. JobInv'
  <2>1. job.tool = "lavadump" /\ job.maxlen >= 0 => job.written < job.maxlen
    <3>1. job.maxlen \in Int /\ job.written \in Int
      BY DEF CaptureInv, JobInv
    <3> QED BY <3>1 DEF get_frame, enough, Dumps
  <2> QED BY <1>1, <1>5, <2>1 DEF CaptureInv, JobInv
<1> QED BY <1>2, <1>3, <1>4, <1>5, <1>7, <1>8, <1>9 DEF Steps, SameRule, CaptureInv, KeptIs

\* The frame is done with, or the process ends, and the world is as it was.
LEMMA SameWorld ==
  ASSUME CaptureInv, Capturing, w' = w, hist' = hist, pc' \in {"done", "leaving", "ended"},
         pc' = "done" => pc \in {"sane", "insane"}, JobInv'
  PROVE  Steps
<1>1. /\ World(w) /\ Opened(w) /\ w.siz.limits = hist.asked /\ w.ret = "OK"
  BY DEF CaptureInv, PhaseInv, Capturing
<1>2. PhaseInv'
  BY <1>1 DEF PhaseInv, Capturing
<1>3. FrameInv'
  BY DEF CaptureInv, FrameInv, Capturing
<1> QED BY <1>1, <1>2, <1>3 DEF Steps, CaptureInv, KeptIs

LEMMA EndStep ==
  ASSUME CaptureInv, wait_ends \/ wrote_all \/ write_fails \/ lavapool_unused
  PROVE  Steps
<1>1. /\ Capturing /\ w' = w /\ hist' = hist /\ job' = job /\ pc' \in {"done", "leaving", "ended"}
      /\ pc' = "done" => pc \in {"sane", "insane"}
  BY DEF wait_ends, wrote_all, write_fails, lavapool_unused, Capturing, failed
<1>2. pc' = "leaving" /\ job.tool = "lavadump" => job.written >= job.maxlen
  BY DEF wait_ends, wrote_all, write_fails, lavapool_unused, failed, enough
<1>3. JobInv'
  BY <1>1, <1>2 DEF CaptureInv, JobInv
<1> QED BY <1>1, <1>3, SameWorld

LEMMA SanityStep ==
  ASSUME CaptureInv, sanity
  PROVE  Steps /\ SameRule /\ w'.hw = w.hw
<1> DEFINE y == lavacam_sanity(w)
<1>1. /\ pc = "got" /\ World(w) /\ Opened(w) /\ w.siz.limits = hist.asked /\ w.ret = "OK"
      /\ hist.last \in DOMAIN Patterns \cup {"none"}
      /\ w.hw.capture # "busy" /\ w.siz.frame_num > 0
      /\ hist.last # "none" => /\ w.siz.frame_num > 1
                               /\ w.siz.limits[4] > 0 => w.siz.prev = hist.last
  BY DEF sanity, CaptureInv, PhaseInv, FrameInv, Capturing
<1>2. /\ w' = [y EXCEPT !.ret = "OK"] /\ job' = job
      /\ pc' = IF y.ret = "OK" THEN "sane" ELSE "insane"
      /\ hist' = IF y.ret = "OK" THEN [hist EXCEPT !.last = w.hw.frame] ELSE hist
  BY DEF sanity
<1> HIDE DEF y
<1>3. /\ SameStructs(w, w') /\ Opened(w') /\ w'.ret = "OK" /\ w'.hw = w.hw
      /\ w'.siz.limits = w.siz.limits /\ w'.siz.frame_num = w.siz.frame_num
      /\ w'.siz.chaos_len = w.siz.chaos_len
      /\ y.ret = "OK" => (w.siz.limits[4] > 0 => w'.siz.prev = w.hw.frame)
      /\ y.ret # "OK" => w'.siz.prev = w.siz.prev
  BY <1>1, <1>2, Sanity DEF y
<1>4. World(w') /\ w'.saved = w.saved /\ w.hw.frame \in DOMAIN Patterns
  BY <1>1, <1>3 DEF SameStructs, World
<1>5. /\ DOMAIN hist' = DOMAIN no_hist /\ hist'.asked = hist.asked
      /\ hist'.last = IF y.ret = "OK" THEN w.hw.frame ELSE hist.last
  BY <1>2, NoJob DEF CaptureInv, JobInv
<1>6. PhaseInv'
  BY <1>1, <1>2, <1>3, <1>5 DEF PhaseInv, Capturing
<1>7. FrameInv'
  <2>1. w.siz.frame_num \in Nat
    BY <1>1 DEF Opened
  <2>2. CASE y.ret = "OK"
    <3>1. pc' = "sane" /\ hist'.last = w.hw.frame
      BY <1>2, <1>5, <2>2
    <3> QED BY <1>1, <1>3, <1>4, <2>2, <3>1 DEF FrameInv, Capturing
  <2>3. CASE y.ret # "OK"
    <3>1. pc' = "insane" /\ hist'.last = hist.last
      BY <1>2, <1>5, <2>3
    <3>2. hist.last # "none" => w.siz.frame_num > 0
      BY <1>1, <2>1
    <3> QED BY <1>1, <1>3, <2>3, <3>1, <3>2 DEF FrameInv, Capturing
  <2> QED BY <2>2, <2>3
<1>8. JobInv'
  BY <1>1, <1>2, <1>5 DEF CaptureInv, JobInv
<1> QED BY <1>2, <1>3, <1>4, <1>5, <1>6, <1>7, <1>8 DEF Steps, SameRule, CaptureInv, KeptIs

\* The call of lavarnd() by lavadump, as one that TurnProofs is about.
LEMMA LavadumpTurns ==
  ASSUME CaptureInv, TurnInv, NEW rate \in Rates, lavadump_sane(rate)
  PROVE  TurnInv'
<1> DEFINE len == w.siz.chaos_len
           out == lava_nway_value(len, rate) * SHA_DIGESTSIZE
<1>1. lavarnd(TRUE, len, rate, out)
  BY DEF lavadump_sane
<1>2. len \in Nat /\ rate \in Nat
  BY CaptureAssumption DEF CaptureInv, World
<1> HIDE DEF len
<1>3. lava_nway_value(len, rate) \in Nat
  BY <1>2, NwayValue
<1>4. out \in Nat
  BY <1>3, SizesNat, ProductNat
<1> HIDE DEF out
<1> QED BY <1>1, <1>2, <1>4, LavarndInv

LEMMA LavapoolTurns ==
  ASSUME CaptureInv, TurnInv, NEW rate \in Rates, NEW room \in Rooms, lavapool_sane(rate, room)
  PROVE  TurnInv'
<1> DEFINE len == w.siz.chaos_len
<1>1. lavarnd(Prefix, len, rate, room)
  BY DEF lavapool_sane
<1>2. len \in Nat
  BY DEF CaptureInv, World
<1>3. Prefix \in BOOLEAN /\ rate \in Nat /\ room \in Nat
  BY CaptureAssumption
<1> HIDE DEF len
<1> QED BY <1>1, <1>2, <1>3, LavarndInv

LEMMA LavadumpStep ==
  ASSUME CaptureInv, TurnInv, NEW rate \in Rates, lavadump_sane(rate)
  PROVE  Steps /\ job'.tool = job.tool /\ job'.maxlen = job.maxlen /\ job'.out >= job.out
<1>1. pc = "sane" /\ w' = w /\ hist' = hist /\ job.tool = "lavadump"
  BY DEF lavadump_sane
<1>2. turn'.ret \in Int
  BY LavadumpTurns DEF TurnInv, Turn
<1>3. \/ pc' = "ended" /\ job' = job
      \/ /\ pc' = "done" /\ turn'.ret >= 0
         /\ job' = [job EXCEPT !.written = @ + turn'.ret, !.out = @ + put_out(turn'.ret)]
  BY <1>2 DEF lavadump_sane
<1>4. JobInv' /\ job'.tool = job.tool /\ job'.maxlen = job.maxlen /\ job'.out >= job.out
  <2>1. CASE pc' = "ended" /\ job' = job
    BY <1>1, <2>1 DEF CaptureInv, JobInv
  <2>2. CASE /\ pc' = "done" /\ turn'.ret >= 0
             /\ job' = [job EXCEPT !.written = @ + turn'.ret, !.out = @ + put_out(turn'.ret)]
    <3> DEFINE n == turn'.ret
    <3>1. n \in Int /\ n >= 0 /\ job.maxlen \in Int /\ job.written \in Int /\ job.out \in Int
      BY <1>2, <2>2 DEF CaptureInv, JobInv
    <3>2. /\ DOMAIN job' = DOMAIN job /\ job'.tool = job.tool /\ job'.maxlen = job.maxlen
          /\ job'.written = job.written + n /\ job'.out = job.out + put_out(n)
      BY <2>2, NoJob DEF CaptureInv, JobInv
    <3> HIDE DEF n
    <3>3. put_out(n) = IF job.maxlen < 0 \/ job.written + n <= job.maxlen THEN n
                       ELSE job.maxlen - job.written
      BY DEF put_out
    <3>4. put_out(n) \in Int
      BY <3>1, <3>3
    <3>5. job.maxlen >= 0 => /\ job.written >= 0 /\ job.written < job.maxlen /\ job.out = job.written
      BY <1>1, <3>1 DEF CaptureInv, JobInv
    <3>6. job.maxlen >= 0 =>
            /\ job.written + n >= 0
            /\ job.out + put_out(n) = IF job.written + n < job.maxlen THEN job.written + n ELSE job.maxlen
      BY <3>1, <3>3, <3>5
    <3>7. job'.written \in Int /\ job'.out \in Int /\ job'.maxlen \in Int
      BY <3>1, <3>2, <3>4
    <3>8. DOMAIN job' = DOMAIN no_job /\ job'.tool \in Tools \cup {"none"} /\ DOMAIN hist' = DOMAIN no_hist
      BY <1>1, <3>2 DEF CaptureInv, JobInv
    <3>9. job'.maxlen >= 0 =>
            /\ job'.written >= 0
            /\ job'.out = IF job'.written < job'.maxlen THEN job'.written ELSE job'.maxlen
      BY <3>2, <3>6
    <3>10. put_out(n) >= 0
      BY <3>1, <3>3, <3>5
    <3>11. JobInv'
      BY <2>2, <3>7, <3>8, <3>9 DEF JobInv
    <3> QED BY <3>1, <3>2, <3>4, <3>10, <3>11
  <2> QED BY <1>3, <2>1, <2>2
<1> QED BY <1>1, <1>3, <1>4, SameWorld DEF Capturing

LEMMA CamdumpStep ==
  ASSUME CaptureInv, skip_frame \/ camdump_sane
  PROVE  /\ Steps /\ job'.tool = job.tool /\ job'.maxlen = job.maxlen
         /\ job.tool = "lavadump" => skip_frame /\ job'.out = job.out
<1>1. /\ pc \in {"sane", "insane"} /\ w' = w /\ hist' = hist /\ pc' = "done"
  BY DEF skip_frame, camdump_sane
<1>2. /\ JobInv' /\ job'.tool = job.tool /\ job'.maxlen = job.maxlen
      /\ job.tool = "lavadump" => skip_frame /\ job'.out = job.out
  <2>1. w.siz.chaos_len \in Nat /\ job.maxlen \in Int /\ job.written \in Int /\ job.out \in Int
        /\ DOMAIN job = DOMAIN no_job /\ job.tool \in Tools \cup {"none"} /\ DOMAIN hist = DOMAIN no_hist
    BY DEF CaptureInv, World, JobInv
  <2>2. CASE skip_frame
    <3> DEFINE n == IF job.tool = "camdump" THEN -w.siz.chaos_len ELSE lavadump_skipped
    <3>1. n \in Int /\ (job.tool = "lavadump" => n = 0)
      BY <2>1 DEF lavadump_skipped
    <3>2. job' = job \/ job' = [job EXCEPT !.written = @ + n]
      BY <2>2 DEF skip_frame
    <3> HIDE DEF n
    <3>3. /\ DOMAIN job' = DOMAIN job /\ job'.tool = job.tool /\ job'.maxlen = job.maxlen
          /\ job'.written \in {job.written, job.written + n} /\ job'.out = job.out
      BY <2>1, <3>2, NoJob
    <3>4. job.written + n \in Int /\ (job.tool = "lavadump" => job.written + n = job.written)
      BY <2>1, <3>1
    <3>5. job'.written \in Int /\ (job.tool = "lavadump" => job'.written = job.written)
      BY <2>1, <3>3, <3>4
    <3> QED BY <1>1, <2>1, <2>2, <3>3, <3>5 DEF CaptureInv, JobInv
  <2>3. CASE camdump_sane
    <3> DEFINE n == IF job.maxlen <= 0 THEN w.siz.chaos_len ELSE put_out(w.siz.chaos_len)
    <3>1. n \in Int
      BY <2>1 DEF put_out
    <3>2. job' = [job EXCEPT !.written = @ + n, !.out = @ + n] /\ job.tool = "camdump"
      BY <2>3 DEF camdump_sane
    <3> HIDE DEF n
    <3>3. /\ DOMAIN job' = DOMAIN job /\ job'.tool = job.tool /\ job'.maxlen = job.maxlen
          /\ job'.written = job.written + n /\ job'.out = job.out + n
      BY <2>1, <3>2, NoJob
    <3>4. job'.written \in Int /\ job'.out \in Int
      BY <2>1, <3>1, <3>3
    <3> QED BY <1>1, <2>1, <3>2, <3>3, <3>4 DEF JobInv
  <2> QED BY <2>2, <2>3
<1> QED BY <1>1, <1>2, SameWorld DEF Capturing

LEMMA LavapoolStep ==
  ASSUME CaptureInv, NEW rate \in Rates, NEW room \in Rooms, lavapool_sane(rate, room)
  PROVE  Steps
<1>1. /\ pc = "sane" /\ w' = w /\ hist' = hist /\ job' = job /\ pc' \in {"done", "leaving"}
      /\ job.tool = "lavapool"
  BY DEF lavapool_sane, failed
<1>2. JobInv'
  BY <1>1 DEF CaptureInv, JobInv
<1> QED BY <1>1, <1>2, SameWorld DEF Capturing

LEMMA MsyncStep ==
  ASSUME CaptureInv, msync
  PROVE  Steps /\ SameRule
<1>1. /\ pc = "done" /\ World(w) /\ Opened(w) /\ w.siz.limits = hist.asked /\ hist' = hist /\ job' = job
      /\ hist.last \in DOMAIN Patterns \cup {"none"}
      /\ hist.last # "none" => /\ w.siz.frame_num > 0
                               /\ w.siz.limits[4] > 0 => w.siz.prev = hist.last
  BY DEF msync, CaptureInv, PhaseInv, FrameInv, Capturing
<1>2. PICK y \in lavacam_msync(w) : w' = y /\ pc' = IF y.ret = "OK" THEN "waiting" ELSE failed
  BY DEF msync, go
<1>3. SameStructs(w, y) /\ Opened(y) /\ y.siz = w.siz
  BY <1>1, Msync
<1>4. World(y) /\ y.saved = w.saved
  BY <1>3 DEF SameStructs
<1>5. pc' \in {"waiting", "leaving", "ended"} /\ (pc' = "waiting" => y.ret = "OK")
      /\ (pc' = "leaving" => job.tool = "lavapool")
  BY <1>2 DEF failed
<1>6. PhaseInv'
  BY <1>1, <1>2, <1>3, <1>5 DEF PhaseInv, Capturing
<1>7. FrameInv'
  BY <1>1, <1>2, <1>3, <1>5 DEF FrameInv, Capturing
<1>8. JobInv'
  BY <1>1, <1>5 DEF CaptureInv, JobInv
<1> QED BY <1>1, <1>2, <1>3, <1>4, <1>5, <1>6, <1>7, <1>8 DEF Steps, SameRule, CaptureInv, KeptIs

LEMMA CloseStep ==
  ASSUME CaptureInv, close
  PROVE  Steps /\ w'.saved = w.saved
<1> DEFINE x == [w EXCEPT !.ret = "OK"]
<1>1. pc = "leaving" /\ pc' = "closed" /\ job' = job /\ hist' = hist /\ World(w) /\ Opened(w)
      /\ hist.last \in DOMAIN Patterns \cup {"none"}
  BY DEF close, CaptureInv, PhaseInv, FrameInv
<1>2. w' \in lavacam_close(x)
  BY DEF close
<1>3. x = fail(w, "OK")
  BY DEF fail
<1> HIDE DEF x
<1>4. World(x) /\ x.saved = w.saved /\ x.siz = w.siz /\ x.flag = w.flag /\ x.mem = w.mem /\ x.hw = w.hw
  BY <1>1, <1>3, FailWorld
<1>5. Opened(x)
  BY <1>1, <1>4 DEF Opened, Held
<1>6. World(w') /\ w'.saved = w.saved /\ w'.mem = no_mem
  BY <1>2, <1>4, <1>5, Close
<1>7. PhaseInv' /\ FrameInv'
  BY <1>1 DEF PhaseInv, FrameInv, Capturing
<1>8. JobInv'
  BY <1>1 DEF CaptureInv, JobInv
<1> QED BY <1>1, <1>6, <1>7, <1>8 DEF Steps, CaptureInv, KeptIs

LEMMA CleanupStep ==
  ASSUME CaptureInv, cleanup
  PROVE  Steps
<1>1. pc = "closed" /\ pc' = "ended" /\ job' = job /\ hist' = hist /\ w' = w
  BY DEF cleanup
<1>2. PhaseInv' /\ FrameInv' /\ JobInv'
  BY <1>1 DEF CaptureInv, PhaseInv, FrameInv, JobInv, Capturing
<1> QED BY <1>1, <1>2 DEF Steps, CaptureInv, KeptIs

LEMMA ExitStep ==
  ASSUME CaptureInv, exit
  PROVE  Steps
<1>1. pc' = "idle" /\ w' = gone(w) /\ job' = no_job /\ hist' = no_hist
  BY DEF exit
<1>2. World(w') /\ w'.saved = w.saved
  BY <1>1, WorldGone DEF CaptureInv
<1>3. PhaseInv' /\ FrameInv' /\ JobInv'
  BY <1>1, NoJob DEF PhaseInv, FrameInv, JobInv, Capturing
<1> QED BY <1>1, <1>2, <1>3 DEF Steps, CaptureInv, KeptIs

\* A capture that is running, and so none when a frame is there, is completed.
LEMMA CameraStep ==
  ASSUME CaptureInv, camera_step
  PROVE  /\ Steps /\ SameRule
         /\ pc' = pc /\ job' = job /\ hist' = hist
         /\ pc \notin {"options", "parsed", "got", "sane", "insane", "done"}
<1>1. /\ World(w) /\ w.hw.capture = "busy" /\ pc' = pc /\ job' = job /\ hist' = hist
  BY DEF camera_step, CaptureDone, CaptureInv
<1>2. PICK f \in DOMAIN Patterns : w' = [w EXCEPT !.hw.capture = "done", !.hw.frame = f]
  BY DEF camera_step, CaptureDone
<1>3. /\ DOMAIN w' = DOMAIN w /\ w'.type = w.type /\ w'.saved = w.saved /\ w'.ret = w.ret
      /\ w'.o_cam = w.o_cam /\ w'.n_cam = w.n_cam /\ w'.siz = w.siz /\ w'.flag = w.flag /\ w'.mem = w.mem
      /\ w'.hw = [w.hw EXCEPT !.capture = "done", !.frame = f]
  BY <1>1, <1>2 DEF World, Shape
<1>4. DOMAIN w'.hw = DOMAIN w.hw /\ w'.hw.frame = f /\ w'.hw.capture = "done" /\ w'.hw.set = w.hw.set
  BY <1>1, <1>3 DEF World, Shape
<1>5. World(w')
  BY <1>1, <1>3, <1>4 DEF World, Shape
<1>6. Opened(w) => Opened(w')
  BY <1>1, <1>3 DEF Opened, Held
<1>7. pc \notin {"options", "parsed", "got", "sane", "insane", "done"}
  BY <1>1 DEF CaptureInv, PhaseInv, FrameInv, Parsing
<1>8. PhaseInv'
  BY <1>1, <1>3, <1>6, <1>7 DEF CaptureInv, PhaseInv, Capturing
<1>9. FrameInv'
  BY <1>1, <1>3, <1>7 DEF CaptureInv, FrameInv, Capturing
<1>10. JobInv'
  BY <1>1 DEF CaptureInv, JobInv
<1> QED BY <1>1, <1>3, <1>5, <1>7, <1>8, <1>9, <1>10 DEF Steps, SameRule, CaptureInv, KeptIs

-----------------------------------------------------------------------------
(* The specification.                                                      *)

LEMMA NextTurns == CaptureInv /\ TurnInv /\ [Next]_vars => TurnInv'
<1> SUFFICES ASSUME CaptureInv, TurnInv, [Next]_vars PROVE TurnInv'
  OBVIOUS
<1>1. CASE \E rate \in Rates : lavadump_sane(rate)
  BY <1>1, LavadumpTurns
<1>2. CASE \E rate \in Rates, room \in Rooms : lavapool_sane(rate, room)
  BY <1>2, LavapoolTurns
<1>3. CASE turn_forgotten
  BY <1>3, NoTurn DEF turn_forgotten, TurnInv, Turning
<1>4. CASE lavarnd_cleanup
  BY <1>4, NoTurn DEF lavarnd_cleanup, TurnInv, Turning
<1>5. CASE turn_gone
  BY <1>5, NoTurn DEF turn_gone, TurnInv, Turning
<1>6. CASE UNCHANGED turnVars
  BY <1>6 DEF turnVars, TurnInv, Turning
<1>7. CASE msync \/ close \/ cleanup \/ exit
  BY <1>3, <1>4, <1>5, <1>7 DEF msync, close, cleanup, exit
<1>8. CASE UNCHANGED vars
  BY <1>6, <1>8 DEF vars
<1>9. CASE Next /\ ~(msync \/ close \/ cleanup \/ exit)
              /\ ~(\E rate \in Rates : lavadump_sane(rate))
              /\ ~(\E rate \in Rates, room \in Rooms : lavapool_sane(rate, room))
  <2>1. CASE \E tool \in Tools : \E line \in Lines[w.type],
               maxlen \in IF tool \in Dumps THEN Lengths ELSE {-1} : start(tool, line, maxlen)
    BY <1>6, <2>1 DEF start
  <2>2. CASE option \/ (\E files \in BOOLEAN : options_end(files)) \/ open \/ fetch_state \/ begin
             \/ (\E interval \in BOOLEAN : value_ends(interval))
    BY <1>6, <2>2 DEF option, options_end, value_ends, open, fetch_state, begin, turnVars
  <2>3. CASE get_frame \/ wrote_all \/ sanity \/ skip_frame \/ camdump_sane \/ lavapool_unused
             \/ wait_ends \/ write_fails \/ camera_step
    BY <1>6, <2>3 DEF get_frame, wrote_all, sanity, skip_frame, camdump_sane, lavapool_unused,
                      wait_ends, write_fails, camera_step
  <2> QED BY <1>9, <2>1, <2>2, <2>3 DEF Next, loop
<1> QED BY <1>1, <1>2, <1>7, <1>8, <1>9

LEMMA NextSteps == CaptureInv /\ TurnInv /\ [Next]_vars => Steps
<1> SUFFICES ASSUME CaptureInv, TurnInv, [Next]_vars PROVE Steps
  OBVIOUS
<1>1. CASE \E tool \in Tools : \E line \in Lines[w.type],
             maxlen \in IF tool \in Dumps THEN Lengths ELSE {-1} : start(tool, line, maxlen)
  <2>1. PICK tool \in Tools : \E line \in Lines[w.type],
               maxlen \in IF tool \in Dumps THEN Lengths ELSE {-1} : start(tool, line, maxlen)
    BY <1>1
  <2>2. PICK line \in Lines[w.type], maxlen \in IF tool \in Dumps THEN Lengths ELSE {-1} :
               start(tool, line, maxlen)
    BY <2>1
  <2>3. maxlen \in Int
    BY CaptureAssumption
  <2> QED BY <2>2, <2>3, StartStep
<1>2. CASE option
  BY <1>2, OptionStep
<1>3. CASE \E files \in BOOLEAN : options_end(files)
  BY <1>3, OptionsEndStep
<1>4. CASE open
  BY <1>4, OpenStep
<1>5. CASE fetch_state
  BY <1>5, FetchStateStep
<1>6. CASE begin
  BY <1>6, BeginStep
<1>7. CASE get_frame
  BY <1>7, GetFrameStep
<1>8. CASE wait_ends \/ wrote_all \/ write_fails \/ lavapool_unused
  BY <1>8, EndStep
<1>9. CASE sanity
  BY <1>9, SanityStep
<1>10. CASE \E rate \in Rates : lavadump_sane(rate)
  BY <1>10, LavadumpStep
<1>11. CASE skip_frame \/ camdump_sane
  BY <1>11, CamdumpStep
<1>12. CASE \E rate \in Rates, room \in Rooms : lavapool_sane(rate, room)
  BY <1>12, LavapoolStep
<1>13. CASE msync
  BY <1>13, MsyncStep
<1>14. CASE close
  BY <1>14, CloseStep
<1>15. CASE cleanup
  BY <1>15, CleanupStep
<1>16. CASE exit
  BY <1>16, ExitStep
<1>17. CASE camera_step
  BY <1>17, CameraStep
<1>18. CASE UNCHANGED vars
  <2>1. w' = w /\ pc' = pc /\ job' = job /\ hist' = hist
    BY <1>18 DEF vars
  <2>2. PhaseInv' /\ FrameInv' /\ JobInv'
    BY <2>1 DEF CaptureInv, PhaseInv, FrameInv, JobInv, Capturing
  <2> QED BY <2>1, <2>2 DEF Steps, CaptureInv, KeptIs
<1>19. CASE \E interval \in BOOLEAN : value_ends(interval)
  BY <1>19, ValueEndsStep
<1> QED BY <1>1, <1>2, <1>3, <1>4, <1>5, <1>6, <1>7, <1>8, <1>9, <1>10, <1>11, <1>12, <1>13, <1>14,
           <1>15, <1>16, <1>17, <1>18, <1>19 DEF Next, loop

\* A camera, the process that uses it, the frames that were accepted and the
\* octets that were put out are as CaptureInv says, whatever calls fail.
LEMMA CaptureInvariant == Spec => [](CaptureInv /\ TurnInv)
<1>1. CaptureInv /\ TurnInv /\ [Next]_vars => (CaptureInv /\ TurnInv)'
  BY NextSteps, NextTurns DEF Steps
<1> QED BY <1>1, CaptureInitInv, PTL DEF Spec

\* Every variable has its type: above all, a camera is only ever given values
\* that the driver lets through, and nothing is allocated twice.
THEOREM CaptureTypes == Spec => []TypeOK
<1>1. CaptureInv /\ TurnInv => TypeOK
  BY DEF CaptureInv, World, Settings, JobInv, TurnInv, TypeOK
<1> QED BY <1>1, CaptureInvariant, PTL

\* An open camera is checked against the limits that were asked for: they outlive
\* the new state that the open fetches over the structure that held them
\* (lib/pwc_drvr.c:2690).
THEOREM LimitsSurviveTheOpen == Spec => []SanityAsAsked
<1>1. CaptureInv /\ TurnInv => SanityAsAsked
  BY DEF CaptureInv, PhaseInv, SanityAsAsked
<1> QED BY <1>1, CaptureInvariant, PTL

\* The frame that is hashed or put out is the one that was accepted, and the camera
\* does not write into it meanwhile (lavacam_wait_frame(), lavacam_msync()).
THEOREM NothingElseIsHashed == Spec => []AcceptedIsUsed
<1>1. CaptureInv /\ TurnInv => AcceptedIsUsed
  BY DEF CaptureInv, FrameInv, AcceptedIsUsed
<1> QED BY <1>1, CaptureInvariant, PTL

\* The chaotic octets lie within the image for every palette, size and buffer that
\* the device tells of, be the frames read or mapped (pwc_opsize(),
\* ov511_opsize(), chaos_zone()).
THEOREM ChaosNeverOutsideImage == Spec => []ChaosInsideImage
<1>1. CaptureInv /\ TurnInv => ChaosInsideImage
  BY DEF CaptureInv, PhaseInv, Opened, ChaosInsideImage
<1> QED BY <1>1, CaptureInvariant, PTL

\* Closing gives back what the options and the open took (lib/pwc_drvr.c:2938).
THEOREM CloseGivesAllBack == Spec => []AllGivenBack
<1>1. CaptureInv /\ TurnInv => AllGivenBack
  BY DEF CaptureInv, AllGivenBack
<1> QED BY <1>1, CaptureInvariant, PTL

\* lavadump puts out what it was asked for and no more, however many frames were
\* insane and whatever each gave (tool/lavadump.c:226).
THEOREM LavadumpPutsOutAsMuch == Spec => []LavadumpIsAsLong
<1>1. CaptureInv /\ TurnInv => LavadumpIsAsLong
  BY DEF CaptureInv, JobInv, LavadumpIsAsLong
<1> QED BY <1>1, CaptureInvariant, PTL

\* What a camera keeps changes only by what a process was asked to set, whichever
\* of the calls that set it failed before (lib/pwc_drvr.c:2639).
THEOREM SavedOnlyAsAsked == Spec => KeptAsAsked
<1>1. CaptureInv /\ TurnInv /\ [Next]_vars
        => [w'.saved # w.saved
            => \A s \in Kept : w'.saved[s] = IF s \in w.n_cam.mask THEN w.n_cam.val[s] ELSE w.saved[s]]_vars
  BY NextSteps DEF Steps, KeptIs
<1> QED BY <1>1, CaptureInvariant, PTL DEF Spec, KeptAsAsked

\* How many bits two frames differ in is a number and the same both ways round.
LEMMA BitsDiffer ==
  ASSUME NEW f, NEW g, NEW len \in Nat
  PROVE  lavacam_bitdiff(f, g, len) \in Nat /\ lavacam_bitdiff(f, g, len) = lavacam_bitdiff(g, f, len)
<1> DEFINE P == (0 .. len - 1) \X (0 .. OctetBits - 1)
           D(a, b) == {p \in P : onebit(Octet(a, p[1]), p[2]) # onebit(Octet(b, p[1]), p[2])}
<1>1. IsFiniteSet(0 .. len - 1) /\ IsFiniteSet(0 .. OctetBits - 1)
  BY FS_Interval, CameraAssumption
<1>2. IsFiniteSet(P)
  BY <1>1, FS_Product
<1>3. D(f, g) \subseteq P /\ D(f, g) = D(g, f)
  <2> HIDE DEF P
  <2> QED OBVIOUS
<1>4. IsFiniteSet(D(f, g)) /\ Cardinality(D(f, g)) \in Nat
  <2> HIDE DEF P, D
  <2> QED BY <1>2, <1>3, FS_Subset, FS_CardinalityType
<1>5. lavacam_bitdiff(f, g, len) = Cardinality(D(f, g)) /\ lavacam_bitdiff(g, f, len) = Cardinality(D(g, f))
  BY DEF lavacam_bitdiff
<1> QED BY <1>3, <1>4, <1>5, Zenon

\* The bounds on the share of bits that differ, as the code tests them.
LEMMA NeitherTooSimilar ==
  ASSUME NEW bits \in Nat, NEW all \in Nat, NEW L \in Nat,
         bits * 100 >= L * all, (all - bits) * 100 >= L * all
  PROVE  bits * 100 \in L * all .. (100 - L) * all
<1> DEFINE p == L * all
<1>1. p \in Nat
  BY Product
<1>2. (100 - L) * all = 100 * all - p
  OBVIOUS
<1> HIDE DEF p
<1>3. bits * 100 <= 100 * all - p
  BY <1>1 DEF p
<1>4. bits * 100 >= p
  BY DEF p
<1>5. bits * 100 \in Int /\ 100 * all - p \in Int
  BY <1>1
<1>6. bits * 100 \in p .. 100 * all - p
  BY <1>1, <1>3, <1>4, <1>5
<1> QED BY <1>2, <1>6 DEF p

\* A frame that is accepted differs as it should from the one accepted before.
LEMMA AcceptedApart ==
  ASSUME CaptureInv, sanity, pc' = "sane", hist.last # "none"
  PROVE  apart(hist.last, w.hw.frame, <<hist.asked[4], w.siz.chaos_len>>)
<1> DEFINE L    == hist.asked[4]
           bits == lavacam_bitdiff(hist.last, w.hw.frame, w.siz.chaos_len)
           all  == w.siz.chaos_len * OctetBits
<1>1. SUFFICES ASSUME L > 0 PROVE bits * 100 \in L * all .. (100 - L) * all
  BY DEF apart
<1>2. /\ pc = "got" /\ World(w) /\ Opened(w) /\ w.siz.limits = hist.asked /\ w.ret = "OK"
      /\ w.siz.frame_num > 1 /\ (w.siz.limits[4] > 0 => w.siz.prev = hist.last)
  BY DEF sanity, CaptureInv, PhaseInv, FrameInv, Capturing
<1>3. lavacam_sanity(w).ret = "OK"
  BY DEF sanity
<1>4. differs(w.siz, w.hw.frame)
  BY <1>2, <1>3, Sanity
<1>5. w.siz.limits[4] = L /\ w.siz.prev = hist.last /\ L \in Nat
  BY <1>1, <1>2 DEF Opened
<1>6. w.siz.chaos_len \in Nat /\ all \in Nat
  BY <1>2, CameraAssumption, Product DEF World
<1>7. bits \in Nat /\ bits = lavacam_bitdiff(w.hw.frame, hist.last, w.siz.chaos_len)
  BY <1>6, BitsDiffer
<1>8. bits * 100 >= L * all /\ (all - bits) * 100 >= L * all
  BY <1>1, <1>2, <1>4, <1>5, <1>7 DEF differs
<1> HIDE DEF L, all, bits
<1>9. bits * 100 \in L * all .. (100 - L) * all
  BY <1>5, <1>6, <1>7, <1>8, NeitherTooSimilar
<1> QED BY <1>9

\* Of two frames accepted one after the other, neither too few nor too many bits
\* differ, whatever insane frames came between: the frame that is compared with
\* is the last one that was accepted (lib/camop.c:1049).
THEOREM AcceptedFramesDiffer == Spec => AcceptedDiffer
<1> DEFINE Accepts == pc = "got" /\ pc' = "sane" /\ hist.last # "none" /\ hist.asked[4] > 0
           bits    == lavacam_bitdiff(hist.last, w.hw.frame, w.siz.chaos_len)
           all     == w.siz.chaos_len * OctetBits
<1>1. ASSUME CaptureInv, TurnInv, [Next]_vars, Accepts
      PROVE  bits * 100 \in hist.asked[4] * all .. (100 - hist.asked[4]) * all
  <2>1. sanity
    <3>1. pc = "got" /\ pc' = "sane"
      BY <1>1
    <3>2. UNCHANGED vars => pc' = pc
      BY DEF vars
    <3>3. Next
      BY <1>1, <3>1, <3>2
    <3>4. ~loop \/ sanity
      BY <3>1 DEF loop, get_frame, wrote_all, lavadump_sane, skip_frame, camdump_sane, lavapool_sane,
                  lavapool_unused, msync, close, cleanup, exit
    <3> QED BY <3>1, <3>3, <3>4 DEF Next, start, option, options_end, value_ends, open, fetch_state, begin,
                                    wait_ends, write_fails, camera_step
  <2> QED BY <1>1, <2>1, AcceptedApart DEF apart
<1>2. CaptureInv /\ TurnInv /\ [Next]_vars => [Accepts => bits * 100 \in hist.asked[4] * all .. (100 - hist.asked[4]) * all]_vars
  BY <1>1
<1> QED BY <1>2, CaptureInvariant, PTL DEF Spec, AcceptedDiffer

\* What holds of any calls of lavarnd() holds of those that the programs make, one
\* process after another: the turned buffer is not overrun, the digests fit, and
\* each octet of the salt and the frame is hashed once.
THEOREM CapturedOctetsHashedOnce == Spec => [](TurnedFits /\ OutputFits /\ EachHashedOnce)
<1>1. CaptureInv /\ TurnInv => TurnedFits
  BY DEF TurnInv, TurnedFits
<1>2. CaptureInv /\ TurnInv => OutputFits
  BY DEF TurnInv, Turn, OutputFits
<1>3. CaptureInv /\ TurnInv => EachHashedOnce
  BY OctetsHashed DEF TurnInv, Turning, Turn, EachHashedOnce
<1> QED BY <1>1, <1>2, <1>3, CaptureInvariant, PTL
-----------------------------------------------------------------------------
(* The programs, the camera layer and the drivers do what FrameService     *)
(* says: each step of theirs is one of it, or cannot be seen in it.        *)

ServiceStep == [Service!FrameNext]_(Service!frameVars)

\* Where a process is.
StageInv ==
  /\ pc \in {"idle", "ended"} \/ Opening \/ Open \/ pc = "closed"
  /\ pc \in {"idle", "ended"} => ~Opening /\ ~Open
  /\ Open => ~Opening /\ pc # "closed"
  /\ Opening => pc # "closed" /\ hist.last = "none"
  /\ pc = "sane" => Open

LEMMA Stages == (CaptureInv => StageInv) /\ (CaptureInv' => StageInv')
  BY DEF CaptureInv, FrameInv, Opening, Open, Capturing, StageInv

\* What is still to be put out is a number, or without end.
OwingInv ==
  /\ owing \in Nat \cup {-1}
  /\ pc \in {"got", "sane"} => owing # 0
  /\ pc \in {"leaving", "closed"} => owing \in {0, -1}

LEMMA OwingNat == (CaptureInv => OwingInv) /\ (CaptureInv' => OwingInv')
<1>1. ASSUME CaptureInv PROVE OwingInv
  <2>1. job.maxlen \in Int /\ job.written \in Int /\ job.out \in Int
    BY <1>1 DEF CaptureInv, JobInv
  <2> QED BY <1>1, <2>1 DEF CaptureInv, JobInv, owing, OwingInv
<1>2. ASSUME CaptureInv' PROVE OwingInv'
  <2>1. job'.maxlen \in Int /\ job'.written \in Int /\ job'.out \in Int
    BY <1>2 DEF CaptureInv, JobInv
  <2> QED BY <1>2, <2>1 DEF CaptureInv, JobInv, owing, OwingInv
<1> QED BY <1>1, <1>2

LEMMA ServiceComes ==
  ASSUME CaptureInv, CaptureInv', pc = "idle", Opening', w'.saved = w.saved, w'.n_cam.mask = {}
  PROVE  ServiceStep
<1>1. owing' \in Nat \cup {-1} /\ pc' \notin {"idle", "ended"}
  BY OwingNat DEF Opening, OwingInv
<1>2. ~Opening /\ ~Open /\ ~Open' /\ pc' # "closed" /\ pc' # "sane"
  BY Stages DEF StageInv
<1>3. Service!Come
  BY <1>1, <1>2 DEF Service!Come, Service!nothing
<1> QED BY <1>3 DEF ServiceStep, Service!FrameNext

LEMMA ServiceSays ==
  ASSUME CaptureInv, CaptureInv', Opening, Opening', w'.saved = w.saved, owing' = owing
  PROVE  ServiceStep
<1>1. ~Open /\ ~Open' /\ pc # "sane" /\ pc' # "sane" /\ pc \notin {"idle", "ended"}
      /\ pc' \notin {"idle", "ended"}
  BY Stages DEF StageInv
<1>2. Service!Say
  BY <1>1 DEF Service!Say
<1> QED BY <1>2 DEF ServiceStep, Service!FrameNext

LEMMA ServiceOpens ==
  ASSUME CaptureInv, CaptureInv', Opening, pc' = "opened", KeptIs(w, w'),
         owing' = owing \/ (owing = 0 /\ owing' \in Nat)
  PROVE  ServiceStep
<1>1. /\ ~Open /\ Open' /\ ~Opening' /\ pc # "sane" /\ pc' # "sane"
      /\ pc \notin {"idle", "ended"} /\ pc' \notin {"idle", "ended"}
  BY Stages DEF Open, StageInv
<1>2. hist'.last = "none"
  BY DEF CaptureInv, FrameInv
<1>3. hist'.asked[4] \in Nat /\ w'.siz.chaos_len \in Nat
  BY DEF CaptureInv, PhaseInv, Opened, World
<1>4. w'.saved = w.saved \/ Service!KeepAsAsked
  BY DEF KeptIs, Service!KeepAsAsked
<1>5. Service!Open
  BY <1>1, <1>2, <1>3, <1>4 DEF Service!Open, Service!nothing
<1> QED BY <1>5 DEF ServiceStep, Service!FrameNext

LEMMA ServiceAccepts ==
  ASSUME CaptureInv, CaptureInv', sanity, pc' = "sane", SameRule, w'.hw = w.hw
  PROVE  ServiceStep
<1>1. pc = "got" /\ job' = job
  BY DEF sanity
<1>2. Open /\ Open' /\ ~Opening /\ ~Opening'
  BY <1>1 DEF Open, Opening, Capturing
<1>3. owing # 0 /\ owing' = owing
  BY <1>1, OwingNat DEF owing, OwingInv
<1>4. hist'.last = w'.hw.frame /\ w'.hw.frame \in DOMAIN Patterns
  BY DEF CaptureInv, FrameInv, World
<1>5. hist.last # "none" => apart(hist.last, w'.hw.frame, <<hist.asked[4], w.siz.chaos_len>>)
  BY AcceptedApart
<1>6. Service!Accept
  BY <1>1, <1>2, <1>3, <1>4, <1>5 DEF Service!Accept, SameRule
<1> QED BY <1>6 DEF ServiceStep, Service!FrameNext

LEMMA ServiceUses ==
  ASSUME CaptureInv, CaptureInv', pc = "sane", Open', pc' # "sane", w' = w, hist' = hist,
         job'.tool = job.tool, job'.maxlen = job.maxlen,
         job.tool = "lavadump" => job'.out >= job.out
  PROVE  ServiceStep
<1>1. Open /\ ~Opening /\ ~Opening' /\ pc' \notin {"idle", "ended"}
  BY Stages DEF StageInv
<1>2. w.hw.frame # "none"
  BY CameraAssumption DEF CaptureInv, World
<1>3. owing = -1 => owing' = -1
  <2>1. job.maxlen \in Int /\ job.out \in Int
    BY DEF CaptureInv, JobInv
  <2>2. job.tool = "lavadump" /\ job.maxlen >= 0 => owing \in Nat
    BY <2>1, OwingNat DEF owing, CaptureInv, JobInv, OwingInv
  <2> QED BY <2>2 DEF owing
<1>4. owing # -1 => owing' \in 0 .. owing
  <2>1. {job.maxlen, job.out, job'.out} \subseteq Int
    BY DEF CaptureInv, JobInv
  <2>2. job.tool = "lavadump" /\ job.maxlen >= 0 => job'.out <= job'.maxlen
    BY <2>1 DEF CaptureInv, JobInv
  <2> QED BY <2>1, <2>2 DEF owing
<1>5. Service!Use
  BY <1>1, <1>2, <1>3, <1>4 DEF Service!Use
<1> QED BY <1>5 DEF ServiceStep, Service!FrameNext

LEMMA ServiceCloses ==
  ASSUME CaptureInv, pc = "leaving", pc' = "closed", job' = job, w'.saved = w.saved
  PROVE  ServiceStep
<1>1. Open /\ ~Opening /\ ~Open' /\ ~Opening'
  BY DEF Open, Opening, Capturing
<1>2. owing \in {0, -1} /\ owing' = owing
  BY OwingNat DEF owing, OwingInv
<1>3. Service!Close
  BY <1>1, <1>2 DEF Service!Close, Service!no_rule
<1> QED BY <1>3 DEF ServiceStep, Service!FrameNext

LEMMA ServiceLeaves ==
  ASSUME CaptureInv, CaptureInv', pc \notin {"idle", "ended"}, pc' \in {"idle", "ended"},
         w'.saved = w.saved \/ (Opening /\ KeptIs(w, w'))
  PROVE  ServiceStep
<1>1. ~Opening' /\ ~Open' /\ pc' # "closed" /\ pc' # "sane" /\ (Opening \/ Open \/ pc = "closed")
  BY Stages DEF StageInv
<1>2. w'.saved = w.saved \/ (Opening /\ Service!KeepAsAsked)
  BY DEF KeptIs, Service!KeepAsAsked
<1>3. Service!Leave
  BY <1>1, <1>2 DEF Service!Leave, Service!nothing, Service!no_rule
<1> QED BY <1>3 DEF ServiceStep, Service!FrameNext

\* While the camera is open, but for frames that are accepted and used.
LEMMA ServiceGoesOn ==
  ASSUME CaptureInv, Open, Open', pc # "sane", pc' # "sane", SameRule, hist'.last = hist.last,
         owing' = owing
  PROVE  ServiceStep
<1>1. ~Opening /\ ~Opening' /\ pc \notin {"idle", "ended"} /\ pc' \notin {"idle", "ended"}
  BY DEF Open, Opening, Capturing
<1>2. UNCHANGED Service!frameVars
  BY <1>1 DEF Service!frameVars, SameRule
<1> QED BY <1>2 DEF ServiceStep

\* Where there is no camera, and after the close.
LEMMA ServiceRests ==
  ASSUME pc \in {"idle", "ended"} => pc' \in {"idle", "ended"},
         pc \notin {"idle", "ended"} => pc = "closed" /\ pc' = "closed" /\ job' = job,
         w'.saved = w.saved
  PROVE  ServiceStep
<1>1. ~Opening /\ ~Opening' /\ ~Open /\ ~Open' /\ pc # "sane" /\ pc' # "sane"
  BY DEF Open, Opening, Capturing
<1>2. pc = "closed" => owing' = owing
  BY DEF owing
<1>3. UNCHANGED Service!frameVars
  BY <1>1, <1>2 DEF Service!frameVars
<1> QED BY <1>3 DEF ServiceStep

LEMMA StartServes ==
  ASSUME CaptureInv, CaptureInv', NEW tool \in Tools, NEW line, NEW maxlen, start(tool, line, maxlen)
  PROVE  ServiceStep
<1>1. World(gone(w)) /\ gone(w).saved = w.saved /\ gone(w).n_cam.mask = {}
  BY WorldGone DEF CaptureInv, gone, no_cam
<1>2. pc = "idle" /\ pc' \in {"parsed", "options"} /\ w' \in {gone(w), lavacam_argv_start(gone(w))}
  BY DEF start
<1>3. lavacam_argv_start(gone(w)).saved = w.saved
  BY <1>1, LavacamArgvStart
<1>4. lavacam_argv_start(gone(w)).n_cam.mask = {}
  BY <1>1, ArgvStartMask
<1> QED BY <1>1, <1>2, <1>3, <1>4, ServiceComes DEF Opening

LEMMA OptionServes ==
  ASSUME CaptureInv, CaptureInv',
         option \/ \E b \in BOOLEAN : options_end(b) \/ value_ends(b)
  PROVE  ServiceStep
<1>1. /\ pc = "options" /\ World(w) /\ Parsing(w) /\ Asked(w) /\ ~w.flag.files
      /\ DOMAIN job = DOMAIN no_job
  BY DEF option, options_end, value_ends, CaptureInv, PhaseInv, JobInv
<1>2. pc' \in {"options", "parsed", "ended"} /\ w'.saved = w.saved
  <2>1. CASE option
    <3>1. Options(w, w')
      BY <1>1, <2>1, LavacamOption DEF option, go
    <3> QED BY <2>1, <3>1 DEF option, go, Options
  <2>2. CASE \E files \in BOOLEAN : options_end(files)
    <3>1. PICK files \in BOOLEAN : options_end(files)
      BY <2>2
    <3> QED BY <1>1, <3>1, LavacamArgvEnd DEF options_end, go
  <2>3. CASE \E interval \in BOOLEAN : value_ends(interval)
    BY <2>3, ValueEnds
  <2> QED BY <2>1, <2>2, <2>3
<1>3. owing' = owing
  <2>1. job' = job \/ job' = [job EXCEPT !.line = Tail(@)]
    BY DEF option, options_end, value_ends
  <2>2. job'.tool = job.tool /\ job'.maxlen = job.maxlen /\ job'.out = job.out
    BY <1>1, <2>1, NoJob
  <2> QED BY <2>2 DEF owing
<1> QED BY <1>1, <1>2, <1>3, ServiceSays, ServiceLeaves DEF Opening

LEMMA OpenServes ==
  ASSUME CaptureInv, CaptureInv', KeptIs(w, w'), open
  PROVE  ServiceStep
<1>1. /\ pc = "parsed" /\ pc' \in {"opened", "ended"}
      /\ job' = (IF job.maxlen = 0 THEN [job EXCEPT !.maxlen = w'.siz.chaos_len] ELSE job)
  BY DEF open, go
<1>2. owing' = owing \/ (owing = 0 /\ owing' \in Nat)
  <2>1. CASE job.maxlen = 0
    <3>1. DOMAIN job = DOMAIN no_job /\ (job.tool = "lavadump" => job.out = 0)
      BY <1>1, <2>1 DEF CaptureInv, JobInv
    <3>2. /\ job'.tool = job.tool /\ job'.out = job.out /\ job'.maxlen = w'.siz.chaos_len
          /\ w'.siz.chaos_len \in Nat
      BY <1>1, <2>1, <3>1, NoJob DEF CaptureInv, World
    <3> QED BY <2>1, <3>1, <3>2 DEF owing
  <2>2. CASE job.maxlen # 0
    BY <1>1, <2>2 DEF owing
  <2> QED BY <2>1, <2>2
<1> QED BY <1>1, <1>2, ServiceOpens, ServiceLeaves DEF Opening

LEMMA FramesServe ==
  ASSUME CaptureInv, CaptureInv', fetch_state \/ begin \/ get_frame \/ wait_ends \/ wrote_all \/ msync
  PROVE  ServiceStep
<1>1. SameRule
  <2>1. CASE fetch_state
    BY <2>1, FetchStateStep
  <2>2. CASE get_frame
    BY <2>2, GetFrameStep
  <2>3. CASE msync
    BY <2>3, MsyncStep
  <2>4. CASE begin \/ wait_ends \/ wrote_all
    BY <2>4 DEF begin, wait_ends, wrote_all, SameRule
  <2> QED BY <2>1, <2>2, <2>3, <2>4
<1>2. /\ pc \in {"opened", "waiting", "done"} /\ job' = job /\ hist' = hist
      /\ pc' \in {"waiting", "leaving", "got", "ended"}
  BY DEF fetch_state, begin, get_frame, wait_ends, wrote_all, msync, go, failed
<1>3. owing' = owing
  BY <1>2 DEF owing
<1>4. CASE pc' = "ended"
  BY <1>1, <1>2, <1>4, ServiceLeaves DEF SameRule
<1>5. CASE pc' # "ended"
  BY <1>1, <1>2, <1>3, <1>5, ServiceGoesOn DEF Open, Capturing
<1> QED BY <1>4, <1>5

LEMMA SanityServes ==
  ASSUME CaptureInv, CaptureInv', sanity
  PROVE  ServiceStep
<1>1. SameRule /\ w'.hw = w.hw
  BY SanityStep
<1>2. pc = "got" /\ job' = job /\ pc' \in {"sane", "insane"} /\ (pc' = "insane" => hist' = hist)
  BY DEF sanity
<1>3. CASE pc' = "sane"
  BY <1>1, <1>3, ServiceAccepts
<1>4. CASE pc' = "insane"
  <2>1. owing' = owing
    BY <1>2 DEF owing
  <2> QED BY <1>1, <1>2, <1>4, <2>1, ServiceGoesOn DEF Open, Capturing
<1> QED BY <1>2, <1>3, <1>4

\* An accepted frame is put out, hashed or left.
LEMMA UseServes ==
  ASSUME CaptureInv, CaptureInv', TurnInv,
         \/ camdump_sane \/ lavapool_unused \/ write_fails
         \/ (\E rate \in Rates : lavadump_sane(rate))
         \/ \E rate \in Rates, room \in Rooms : lavapool_sane(rate, room)
  PROVE  ServiceStep
<1>1. pc = "sane" /\ w' = w /\ hist' = hist /\ pc' \in {"done", "leaving", "ended"}
  BY DEF lavadump_sane, camdump_sane, lavapool_unused, write_fails, lavapool_sane, failed
<1>2. /\ job'.tool = job.tool /\ job'.maxlen = job.maxlen
      /\ job.tool = "lavadump" => job'.out >= job.out
  <2>1. CASE \E rate \in Rates : lavadump_sane(rate)
    BY <2>1, LavadumpStep
  <2>2. CASE camdump_sane
    BY <2>2, CamdumpStep DEF camdump_sane
  <2>3. CASE \/ lavapool_unused \/ write_fails
             \/ \E rate \in Rates, room \in Rooms : lavapool_sane(rate, room)
    <3>1. job' = job /\ job.out \in Int
      BY <2>3 DEF lavapool_unused, write_fails, lavapool_sane, CaptureInv, JobInv
    <3> QED BY <3>1
  <2> QED BY <2>1, <2>2, <2>3
<1>3. CASE pc' = "ended"
  BY <1>1, <1>3, ServiceLeaves
<1>4. CASE pc' # "ended"
  BY <1>1, <1>2, <1>4, ServiceUses DEF Open, Capturing
<1> QED BY <1>3, <1>4

LEMMA SkipServes ==
  ASSUME CaptureInv, skip_frame
  PROVE  ServiceStep
<1>1. pc = "insane" /\ pc' = "done" /\ w' = w /\ hist' = hist
  BY DEF skip_frame
<1>2. /\ job'.tool = job.tool /\ job'.maxlen = job.maxlen
      /\ job.tool = "lavadump" => job'.out = job.out
  BY CamdumpStep
<1>3. owing' = owing
  BY <1>2 DEF owing
<1> QED BY <1>1, <1>3, ServiceGoesOn DEF Open, Capturing, SameRule

LEMMA EndServes ==
  ASSUME CaptureInv, CaptureInv', close \/ cleanup \/ exit \/ camera_step
  PROVE  ServiceStep
<1>1. CASE close
  BY <1>1, CloseStep, ServiceCloses DEF close
<1>2. CASE cleanup
  BY <1>2, ServiceLeaves DEF cleanup
<1>3. CASE exit
  <2>1. pc \in {"ended", "closed"} /\ pc' = "idle" /\ w'.saved = w.saved
    BY <1>3, WorldGone DEF exit, CaptureInv
  <2>2. CASE pc = "ended"
    BY <2>1, <2>2, ServiceRests
  <2>3. CASE pc = "closed"
    BY <2>1, <2>3, ServiceLeaves
  <2> QED BY <2>1, <2>2, <2>3
<1>4. CASE camera_step
  <2>1. /\ SameRule /\ pc' = pc /\ job' = job /\ hist' = hist
        /\ pc \notin {"options", "parsed", "got", "sane", "insane", "done"}
    BY <1>4, CameraStep
  <2>2. owing' = owing
    BY <2>1 DEF owing
  <2>3. CASE Open
    BY <2>1, <2>2, <2>3, ServiceGoesOn DEF Open, Capturing
  <2>4. CASE ~Open
    BY <2>1, <2>4, Stages, ServiceRests DEF Opening, SameRule, StageInv
  <2> QED BY <2>3, <2>4
<1> QED BY <1>1, <1>2, <1>3, <1>4

LEMMA NextServes ==
  ASSUME CaptureInv, CaptureInv', TurnInv, KeptIs(w, w'), [Next]_vars
  PROVE  ServiceStep
<1>1. CASE \E tool \in Tools : \E line \in Lines[w.type],
             maxlen \in IF tool \in Dumps THEN Lengths ELSE {-1} : start(tool, line, maxlen)
  <2>1. PICK tool \in Tools : \E line \in Lines[w.type],
               maxlen \in IF tool \in Dumps THEN Lengths ELSE {-1} : start(tool, line, maxlen)
    BY <1>1
  <2>2. PICK line \in Lines[w.type], maxlen \in IF tool \in Dumps THEN Lengths ELSE {-1} :
               start(tool, line, maxlen)
    BY <2>1
  <2> QED BY <2>2, StartServes
<1>2. CASE option \/ \E b \in BOOLEAN : options_end(b) \/ value_ends(b)
  BY <1>2, OptionServes
<1>3. CASE open
  BY <1>3, OpenServes
<1>4. CASE fetch_state \/ begin \/ get_frame \/ wait_ends \/ wrote_all \/ msync
  BY <1>4, FramesServe
<1>5. CASE sanity
  BY <1>5, SanityServes
<1>6. CASE \/ camdump_sane \/ lavapool_unused \/ write_fails
           \/ (\E rate \in Rates : lavadump_sane(rate))
           \/ \E rate \in Rates, room \in Rooms : lavapool_sane(rate, room)
  BY <1>6, UseServes
<1>7. CASE skip_frame
  BY <1>7, SkipServes
<1>8. CASE close \/ cleanup \/ exit \/ camera_step
  BY <1>8, EndServes
<1>9. CASE UNCHANGED vars
  <2>1. w' = w /\ pc' = pc /\ job' = job /\ hist' = hist
    BY <1>9 DEF vars
  <2>2. UNCHANGED Service!frameVars
    BY <2>1 DEF Service!frameVars, Open, Opening, Capturing, owing
  <2> QED BY <2>2 DEF ServiceStep
<1> QED BY <1>1, <1>2, <1>3, <1>4, <1>5, <1>6, <1>7, <1>8, <1>9 DEF Next, loop

LEMMA InitServes == Init => Service!FrameInit
  BY NoJob DEF Init, Service!FrameInit, Service!nothing, Service!no_rule, Open, Opening, Capturing

\* The camera programs implement FrameService: each frame that is put out, hashed
\* or given to the pool was accepted and is used once, those accepted differ by one
\* rule from the open to the close, lavadump closes with nothing owing, and the
\* camera keeps what it kept but for what an open was asked to change.
THEOREM ProgramsServeFrames == Spec => FramesServed
<1>1. CaptureInv /\ TurnInv /\ [Next]_vars
        => (CaptureInv /\ TurnInv)' /\ [Service!FrameNext]_(Service!frameVars)
  BY NextSteps, NextTurns, NextServes DEF Steps, ServiceStep
<1> QED BY <1>1, CaptureInitInv, InitServes, PTL DEF Spec, FramesServed, Service!FrameSpec
=============================================================================
