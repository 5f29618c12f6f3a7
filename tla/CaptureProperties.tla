-------------------------- MODULE CaptureProperties --------------------------
(* What the camera layer guarantees: see Capture.                           *)
EXTENDS Capture, TurnProperties

\* Every variable has its type.  The camera itself is only ever set to values that
\* the driver's check allows (pwc_check(), ov511_check()), and a process has at
\* most one image, one previous frame and one descriptor (lib/pwc_drvr.c:2567).
TypeOK ==
  /\ pc \in {"idle", "options", "parsed", "opened", "waiting", "got", "sane", "insane", "done",
             "leaving", "closed", "ended"}
  /\ job.tool \in Tools \cup {"none"} /\ {job.maxlen, job.written, job.out} \subseteq Int
  /\ \A s \in DOMAIN w.hw.set : allowed(w.type, s, w.hw.set[s])
  /\ w.hw.capture \in {"none", "busy", "done"} /\ w.hw.frame \in DOMAIN Patterns
  /\ {w.mem.fd, w.mem.image, w.mem.prev, w.mem.files} \subseteq 0 .. 1
  /\ w.siz.prev \in DOMAIN Patterns \cup {"none", "zero"}
  /\ {turned, turned_maxlen, turned_len} \subseteq Nat

-----------------------------------------------------------------------------
Capturing == pc \in {"waiting", "got", "sane", "insane", "done"}

\* An open camera is checked against the limits that the command line gave, or
\* those of its model: they survive a new state that is put into the camera and
\* fetched again into the structure that held them (lib/pwc_drvr.c:2690).
SanityAsAsked == Capturing => w.siz.limits = hist.asked

\* Of two frames accepted one after the other, neither too few nor too many bits
\* differ, whatever insane frames came between (lib/camop.c:1049).
AcceptedDiffer ==
  [][pc = "got" /\ pc' = "sane" /\ hist.last # "none" /\ hist.asked[4] > 0
     => LET bits == lavacam_bitdiff(hist.last, w.hw.frame, w.siz.chaos_len)
            all  == w.siz.chaos_len * OctetBits
        IN bits * 100 \in hist.asked[4] * all .. (100 - hist.asked[4]) * all]_vars

\* What is hashed or put out is the frame that was accepted: no capture runs in
\* the mapped buffer from when a frame is there until it is given back
\* (lavacam_wait_frame() before it and lavacam_msync() after it).
AcceptedIsUsed ==
  /\ pc = "sane" => w.hw.frame = hist.last
  /\ pc \in {"got", "sane", "insane", "done"} => w.hw.capture # "busy"

\* The chaotic octets lie within the image, be it read or mapped
\* (pwc_opsize() and chaos_zone()).
ChaosInsideImage == Capturing => w.siz.lavaoff + w.siz.chaos_len <= w.siz.image_len

\* What is kept in a camera changes only by what a process was asked to set: the
\* settings that one which failed half-way left in force are not kept by the next,
\* because the open puts the kept ones in force first (lib/pwc_drvr.c:2639).
Kept == PwcPicture \cup PwcWindow \cup PwcWritten \cup {"compress"}

KeptAsAsked ==
  [][w'.saved # w.saved
     => \A s \in Kept : w'.saved[s] = IF s \in w.n_cam.mask THEN w.n_cam.val[s] ELSE w.saved[s]]_vars

\* Closing gives back all that the open and the options took, however they went
\* about it (lib/pwc_drvr.c:2938).
AllGivenBack == pc = "closed" => w.mem = no_mem

\* A program that waits for a frame comes to see one, or stops: the open leaves a
\* capture running, and so does the giving back of each frame (pwc_msync(),
\* lib/pwc_drvr.c:3122).
FrameFollows ==
  pc = "waiting" /\ w.siz.frame_num < MaxFrames ~> pc \in {"got", "leaving", "ended"}

\* lavadump puts out as many octets as it was asked for and no more, however many
\* frames were insane (tool/lavadump.c:226).
LavadumpIsAsLong ==
  job.tool = "lavadump" /\ job.maxlen >= 0
    => job.out <= job.maxlen /\ (pc = "closed" => job.out = job.maxlen)

-----------------------------------------------------------------------------
Opening == pc \in {"options", "parsed"}
Open    == Capturing \/ pc \in {"opened", "leaving"}

\* Whether two frames differ as a limit asks, in so many octets.
apart(f, g, rule) ==
  rule[1] > 0 =>
    LET all == rule[2] * OctetBits
    IN lavacam_bitdiff(f, g, rule[2]) * 100 \in rule[1] * all .. (100 - rule[1]) * all

\* What a program has still to put out: only lavadump owes a number of octets, for
\* camdump counts the frames it skips against it.
owing == IF job.tool = "lavadump" /\ job.maxlen >= 0 THEN job.maxlen - job.out ELSE -1

Service == INSTANCE FrameService WITH
  Frame <- DOMAIN Patterns, None <- "none", Setting <- Kept, Differ <- apart,
  stage <- IF Opening THEN "asking" ELSE IF Open THEN "open"
           ELSE IF pc = "closed" THEN "closed" ELSE "away",
  saved <- w.saved,
  asked <- IF Opening THEN [s \in w.n_cam.mask |-> w.n_cam.val[s]] ELSE [s \in {} |-> 0],
  rule  <- IF Open THEN <<hist.asked[4], w.siz.chaos_len>> ELSE <<0, 0>>,
  owed  <- IF pc \in {"idle", "ended"} THEN 0 ELSE owing,
  last  <- IF Open THEN hist.last ELSE "none",
  using <- IF pc = "sane" THEN w.hw.frame ELSE "none"

\* The drivers, the sanity check and the programs together do what FrameService
\* says, a camera of either driver, by read() or from the mapped buffer: a frame
\* that was not accepted is never put out and one that was is used once; frames
\* are compared by one limit and length from the open to the close, and what is
\* kept changes at an open only (lib/camop.c, tool/lavadump.c, daemon/chaos.c).
FramesServed == Service!FrameSpec

-----------------------------------------------------------------------------
(* What is proved inductive in CaptureProofs.                              *)

\* The records of a world.
Shape(x) ==
  /\ DOMAIN x = {"type", "ret", "saved", "hw", "o_cam", "n_cam", "siz", "flag", "mem"}
  /\ x.type \in DOMAIN Cameras
  /\ DOMAIN x.hw = {"set", "capture", "optional", "frame"}
  /\ DOMAIN x.o_cam = DOMAIN no_cam({}) /\ DOMAIN x.n_cam = DOMAIN no_cam({})
  /\ DOMAIN x.siz = DOMAIN no_siz /\ DOMAIN x.flag = DOMAIN default_flag
  /\ DOMAIN x.mem = DOMAIN no_mem

\* Values for all settings of a camera of the type, each allowed.
Settings(type, set) ==
  DOMAIN set = camera_settings(type) /\ \A s \in DOMAIN set : allowed(type, s, set[s])

World(x) ==
  /\ Shape(x)
  /\ Settings(x.type, x.hw.set) /\ Settings(x.type, x.saved)
  /\ x.hw.capture \in {"none", "busy", "done"} /\ x.hw.frame \in DOMAIN Patterns
  /\ x.siz.prev \in DOMAIN Patterns \cup {"none", "zero"} /\ x.siz.chaos_len \in Nat
  /\ {x.mem.fd, x.mem.image, x.mem.prev, x.mem.files} \subseteq 0 .. 1

\* What the process holds is what the structures say that it holds.
Held(x) ==
  /\ x.mem.image = IF x.siz.image = "none" THEN 0 ELSE 1
  /\ x.mem.prev = IF x.siz.prev = "none" THEN 0 ELSE 1
  /\ x.mem.files = IF x.flag.files THEN 1 ELSE 0

\* Before the open nothing is held but the names of the frame file, and nothing
\* is captured; the settings asked for are allowed.
Parsing(x) ==
  /\ Held(x) /\ x.mem.fd = 0 /\ x.siz = no_siz /\ x.hw.capture = "none" /\ x.ret = "OK"

Asked(x) == x.n_cam.tmp \in [1 .. 4 -> Nat]

Checked(x) == \A s \in x.n_cam.mask : allowed(x.type, s, x.n_cam.val[s])

\* An open camera: the chaos is inside the image, and nothing is captured that
\* will be read.
Opened(x) ==
  /\ Held(x) /\ x.mem.fd = 1 /\ x.siz.prev # "none"
  /\ x.siz.limits \in [1 .. 4 -> Nat] /\ x.siz.frame_num \in Nat
  /\ x.siz.lavaoff \in Int /\ x.siz.image_len \in Int
  /\ x.siz.lavaoff + x.siz.chaos_len <= x.siz.image_len
  /\ x.siz.use_read => x.hw.capture = "none"

PhaseInv ==
  /\ pc = "options" => Parsing(w) /\ Asked(w) /\ ~w.flag.files
  /\ pc = "parsed" => Parsing(w) /\ (job.tool # "camget" => Asked(w) /\ Checked(w))
  /\ Capturing \/ pc \in {"opened", "leaving"} =>
       Opened(w) /\ w.siz.limits = hist.asked /\ (pc # "leaving" => w.ret = "OK")

\* The last frame accepted is the one in the buffer until another is captured, and
\* the one that the next will be compared with.
FrameInv ==
  /\ hist.last \in DOMAIN Patterns \cup {"none"}
  /\ pc \in {"got", "sane", "insane", "done"} => w.hw.capture # "busy" /\ w.siz.frame_num > 0
  /\ pc = "sane" => w.hw.frame = hist.last
  /\ pc \in {"idle", "options", "parsed", "opened"} => hist.last = "none"
  /\ Capturing /\ hist.last # "none" =>
       /\ w.siz.frame_num > (IF pc = "got" THEN 1 ELSE 0)
       /\ w.siz.limits[4] > 0 => w.siz.prev = hist.last

JobInv ==
  /\ DOMAIN job = DOMAIN no_job /\ job.tool \in Tools \cup {"none"}
  /\ {job.maxlen, job.written, job.out} \subseteq Int
  /\ DOMAIN hist = DOMAIN no_hist
  /\ job.tool = "lavadump" /\ job.maxlen >= 0 =>
       /\ job.written >= 0 /\ job.out = IF job.written < job.maxlen THEN job.written ELSE job.maxlen
       /\ pc \in {"options", "parsed"} => job.written = 0
       /\ pc \in {"got", "sane", "insane"} => job.written < job.maxlen
       /\ pc \in {"leaving", "closed"} => job.written >= job.maxlen

CaptureInv ==
  /\ pc \in {"idle", "options", "parsed", "opened", "waiting", "got", "sane", "insane", "done",
             "leaving", "closed", "ended"}
  /\ World(w) /\ PhaseInv /\ FrameInv /\ JobInv
  /\ pc = "closed" => w.mem = no_mem
=============================================================================
