# LavaRnd in TLA+

LavaRnd turns the noise of a capped camera into random numbers.  A daemon,
`lavapool`, reads frames from the camera driver (or octets from a co-process),
turns them into random octets, keeps them in a pool and gives them to clients
over a socket.  A library, `liblava`, is what programs link with: it asks the
daemon for octets, seeds a software generator (s100) with them, and chooses
between the two.

This directory models the daemon, in full, down to the descriptor; the side of
the library that fetches random data; its reads, writes and alarms; and the
camera: both drivers, the sanity of frames, the LavaRnd process that hashes
them, and the programs that put these together.  TLC checks the models on small
instances; TLAPS proves every safety property of the daemon, the library, raw I/O, the
LavaRnd process and the camera programs that TLC checks, and that daemon, library and
camera programs implement what they promise, for every configuration.

## 1. Inventory

| component | source | state it keeps | operations | modelled in |
|---|---|---|---|---|
| octet pool | `daemon/pool.c` | `pool`, `poollen`, `maxlen` | fill from a frame, fill from a descriptor, drain, rate factor | `Pool` |
| channel table | `daemon/chan.c`, `chan.h` | `ch[]`, `chanindx[]`, the rotating indices of three searches | find, make, grow, the two passes of `chan_cycle()` | `Channel`, `ChannelTable`, `ChannelWalk` |
| client channels | `daemon/client.c` | per client: state, next state, descriptor, request, octets, timeout | open, read, gather, write, close | `Client` |
| listener | `daemon/listener.c` | socket, count of accepted clients | open, accept, close | `Listener` |
| chaos channel | `daemon/chaos.c` | driver or co-process, frame-dump times and files, `fast_select` | open, read, frame dump, close | `Chaos` |
| daemon loop | `daemon/lavapool.c` | end time | start, loop, shut down | `Lavapool` |
| daemon configuration | `daemon/cfg_lavapool.c` | `cfg_lavapool` | parse, validate | the `ASSUME`s on the constants |
| debug, syslog | `daemon/dbg.c` | none that matters | print | not modelled |
| lavaurl | `daemon/lavaurl.c`, `simple_url.c` | none between runs | fetch a URL, print a digest | not modelled |
| s100 generator | `lib/s100.c` | generator state, turns to go, left-over octets and their quality | seed, turn, copy, quality | `S100` |
| daemon client | `lib/fetchlava.c`, `lib/random.c` | `lavabuf`, the generator, `daemon_err`, `s100_seed_err`, the error indicators | fetch under thirteen callbacks, preload, preseed, retry, dice, clean up | `FetchLava`, `RandomLibrary` |
| raw I/O | `lib/rawio.c` | alarm state, previous timer and handler | eight read and write loops, set and clear two kinds of alarm, the handler | `RawIO` |
| lavarnd transform | `lib/lavarnd.c` | the turned buffer and its two lengths | n-way turn, hash, clean up | `LavaTurn` |
| hash functions | `lib/sha1.c`, `fnv1.c` | none | digest | not modelled |
| palettes | `lib/palette.c` | none | frame size, chaos zone | `Palette` |
| camera drivers | `lib/pwc_drvr.c`, `ov511_drvr.c` | camera states, sizes, the image | parse options, check, get, set, open, close, wait, get frame, give back | `VideoCamera`, `Pwc`, `Ov511` |
| camera layer | `lib/camop.c` | frame count, previous frame | the driver of a type, sanity | `Camera` |
| camera programs | `tool/lavadump.c`, `camdump.c`, `camget.c`, `camset.c`, `daemon/chaos.c` | octets written | open, loop over frames, close | `Capture`, `FrameService` |
| other tools, Perl module, front ends | `tool/`, `perllib/`, `lib/liblava_*.c` | none | filters and wrappers | not modelled |

**How they interact.**  The daemon is one process and one thread.  Each turn of
its loop, `chan_cycle()`, runs the *pre-select* operation of every channel that
is ready for one, calls `select()` on the descriptors the channels' states ask
for, then runs one operation per descriptor that is ready, looked up through
`chanindx[]`.  Channels share the table, the pool and the clock; a channel
operation may open or close another table entry.  Everything outside is
concurrent with the loop: clients connect, send, read and vanish at any time,
the camera delivers or fails, a reader takes the dumped frame away.  The library
talks to the daemon through the socket only: it sends a decimal count and a
newline and reads octets.  Inside the library a call of `random_val()` and its
kin goes through `raw_random()`, which asks `raw_lavapool()` (buffer, then
daemon) and `raw_s100lava()` (generator, seeded from the former) in an order the
callback decides; the daemon is reached under an alarm of `rawio.c`.  The camera
is reached through `camop.c` by the daemon and by four tools; frames that pass
`lavacam_sanity()` go to `lavarnd()`.

**What is hard.**  A descriptor closed early in a pass can be given to a new
client by an `accept()` later in the same pass, while the result of the same
`select()` is still worked off.  A request larger than the pool is filled over
many turns while others drain the same pool.  Decisions are taken on values
computed earlier in the turn: the `select()` timeout before the pool is
drained, the client count before the accepts, a pointer into the table before
the table is moved.  Timeouts are looked at only when `select()` reports the
client.  A frame dump has four system calls, each of which can fail, and a
reader who removes the file between them.  And a client in GATHER is in no
`select()` mask: it depends on the chaos channel being asked for.

In the library, one buffer serves callers and seedings, and exchanges that fill
it can fail half way; which source is asked depends on failures of earlier
calls.  SIGALRM comes between any two steps of a loop that tests a flag before
it blocks, and while the handler and the timer are being changed one after the
other.  The camera captures into the buffer the program reads from.  Its
settings outlive the process that made them, and an open has a dozen points at
which it can stop.  And sizes that must agree are computed from different
sources: the device, the palette, the options, lengths of earlier calls.

**What makes each component correct.**

- pool: an octet leaves it once;
- channel table: table and descriptor index are inverse to each other, a slot
  opened is a slot that was free, the table grows only when it is full, every
  ready descriptor is visited once;
- clients: exactly the octets asked for, no octet shared with anyone, served
  in the end; no more clients than configured;
- listener: closes its door while there are too many clients;
- chaos channel: is asked for when someone waits; a frame on disk is never also
  in the pool;
- loop: what is dispatched is what the channel now on the descriptor asked for;
- library: a call brings all it asked for, as good as its callback promises (which
  the code does not always keep, see `poor_quality`), or shows an error or ends the
  program as the callback says; no octet of the
  daemon is used twice; a call ends if its callback limits its tries;
- raw I/O: a result tells what was moved; a timed call ends; the program's own
  alarm and handler are neither taken for ours nor lost (the alarm is: `old_timer`);
- drivers: the checks are made with the limits asked for, chaos data lie inside
  the image, a frame is not overwritten while in use, what is kept in the camera
  is what was asked for, what an open takes a close gives back;
- sanity: two frames accepted in a row differ, but not in everything;
- transform: what is dealt out fits the buffer, each octet is hashed once, the
  digests fit the output;
- camera programs: as many octets as asked for; a frame that was not accepted is
  never put out, one that was is used once.

`PROJECT.json` lists 38 hazards, each at the line of the code where it bites.

## 2. Modules

    Pool <- Channel <- Client <- Listener <-+
                  ^                         +- Lavapool <- LavapoolProperties <- MCLavapool
                  +------------- Chaos <----+                     |
                                                     RandomService (abstract), INSTANCE
    LavapoolProperties <- LavapoolProofs <- DaemonProofs
    RandomService <- ServiceProofs

    ChannelTable <-+- MCChannelTable
    ChannelWalk  <-+- ChannelTableProofs

    S100 <- FetchLava <- FetchLavaProperties <- MCFetchLava
                                  |  ^
                                  |  +-- FetchLavaProofs
                     RandomLibrary (abstract), INSTANCE

    RawIO <- RawIOProperties <- MCRawIO
                    ^
                    +-- RawIOProofs

    Palette <- VideoCamera <- Pwc <- Ov511 <- Camera <-+
                                                       +- Capture <-+
    LavaTurn <-----------------------------------------+            +- CaptureProperties <- MCCapture
        ^                                                           |    |     ^
        +----------------- TurnProperties <-------------------------+    |     |
                                 ^                                       |     |
                             TurnProofs <----------------------------------- CaptureProofs
                                                                         |
                                                  FrameService (abstract), INSTANCE

(an arrow points to the module that is extended).

**Pool.**  An octet is its serial number, so that "the same octet twice" can be
said; `made` counts them.  `fill_pool_from_chaos` adds a whole number of digests
up to the room, `fill_pool_from_fd` any number up to `MAXPOOL_IO`;
`drain_octets`/`drain_rest` are the two halves of `drain_pool()`, which takes
from the end.  `pool_rate_factor()` returns a number the caller compares with
-1.0, 0.0, 1.0 and, between 0.0 and 1.0, with a pseudo-random number: the model
has these four cases, and the comparison is the boolean `odds` of `want_chaos`.

**Channel.**  `ch` is the table, one record per slot with the fields the
daemon's behaviour depends on, and `chanindx` the descriptor index.  A slot of
type "NONE" has not been made yet.  `PreSelect` is the loop over all channels
before `select()`, `Dispatch` the loop over ready descriptors after it; each
operation of a channel is one of these two joined with what the operation does.
A client's `timeout` and `chaos.next_file` are only ever compared with
`about_now`: each is "off", "later" or "due".  `about_now` is read at the top of
a turn, after `select()` and in three operations; a "later" that becomes "due"
at `Select` covers the client timeouts, and `Tick` covers `next_file`.
`close_chan` clears at once the fields that the next `mk_open_xxx()` clears;
nothing reads them in between.

**Client.**  The state machine OPEN, READ, GATHER, WRITE, CLOSE, with every way
each operation can close the channel.  A request is the number it parses to and
`readcnt` the number of digits waiting for the rest of the line.  `malloc()` may
fail for a client that has no octet yet.

**Listener.**  `accept_listener` includes the call of `mk_open_client()`.  When
that call makes the table grow, the `listener` pointer it goes on with is
dangling; what it stores then may or may not be lost (`lost`).

**Chaos.**  Driver and co-process, frame dump with each of its failures, the
`-E` flag.  A sane, insane or missing frame is a choice.  `ReaderTakesFrame` is
the outside reader `-E` exists for.

**Lavapool.**  `main()` up to the loop (`mk_open_chaos`, `mk_open_listener`; a
failure there is fatal), `StartCycle`, `Select`, and the end (`Shutdown`).
`phase` is the program counter of the loop.  `Reports(asked)` says what
`select()` and the walk after it make of the masks: one operation for each
descriptor, the first of exception, write and read.  `Asked` is the masks of the
channels, with the decision of `chan_select()` about the chaos channel in
`want_chaos`.

**LavapoolProperties.**  What is checked of the daemon, and what is proved inductive:
`IInv`, then `StateInv`, `LimitInv`, `FedInv` and `OctetInv`, which rest on it.

**RandomService.**  The abstract daemon, without channels, descriptors or
`select()`: octets are made, stocked, given to a client that asked, sent when
all are there.  The refinement mapping is in `LavapoolProperties`.

**ChannelTable.**  `chan.c`'s searches index by index.  `Channel` lets
`mk_chan()` take any free slot (the first: slots are only names).  `ChannelTable`
has the real `last_indx` arithmetic and shows that a free slot is always found, so
that this abstraction is sound.

**ChannelWalk.**  `Channel` lets the pass over ready descriptors take any order.
`ChannelWalk` has the loop of `chan_select()` as it is, an action for each thing an
iteration can do: jump from the end of the masks to descriptor 0 (`go_around`), pass
over a descriptor that is not ready or no longer a channel's (`skip`), operate
(`operate`), or stop (`walked`).  `pass` has the locals of the function: the three
masks, `n`, `i`, `looped`, and `action`, the operations still to do, which begins as
the number of *bits* that `select()` left.  An operation may close its own descriptor
or have another one opened.  Each descriptor that was ready has its turn once, so
that any order is sound too.

**S100.**  The generator as operators on its state: turns to go, length of the
seed, octets left over and what they are worth.  An octet is its quality.
`s100_randomcpy` is the generator after a copy, `octet_quality` what each octet
of that copy was worth when it was made.

**FetchLava.**  `lib` has the statics of `fetchlava.c`, `call` the locals of
`raw_random()` and, for a die, of `random_val()`.  Functions with an outcome are
sets of outcomes: octets of some quality or an error, and the memory they leave.
`raw_lavaops` is a run of exchanges with the daemon, of which all succeed or one
fails after some have.  The daemon's octets are numbered; `lavabuf.data` is the
sequence of those in the buffer, taken from the end as the code does.  `fetch`
is one turn of the loop of `raw_random()` up to the outcome, and there is an
action for each callback after a failure.  The callback of a program itself
(USER) may answer anything at each call.  The length of timeouts is left out:
an exchange succeeds or fails.  `late` marks octets a copy brought after it had
used up the seed it started with.  `configured` is what `preload_cfg()` leaves: a
configuration file that is parsed starts the count to the preseeding again.
`randomcpy()` refuses a length of 0 by itself, and notes that in `lastop_errno` only.

**RandomLibrary.**  The abstract library: ask, answer, fail, exit.  It has no
buffer and no generator.  `told` is the quality that the library says its answer is
of.  It is never one the callback does not allow, and the octets are as good as
told, but those that are `late` may be one class poorer.  That is what the code
does and less than `lava_callback.h` promises: `QualityAsAllowed`, which makes no
exception, is violated (`poor_quality`).  The refinement mapping is in
`FetchLavaProperties`.

**RawIO.**  One step is one system call, or one test of `lava_ring` with what
leads to the next call.  The eight loops have one shape and are one loop with
four variants (`fn`) and a direction; `map` gives each of its parts one of
the eight functions.  SIGALRM is raised when a timer expires (`Expire`) and
delivered at any later step (`Deliver`); a signal that is ignored is discarded.
Whose timer it was that expired is history the code does not have: `itimer` is
"mine" after `set_alarm()`, "app" if the program set it, and "restored" if
`clear_alarm()` did, which by the test at `rawio.c:1284` is a timer of a program
that had none.  `hist.timer` remembers whether the program has set a timer that has
not gone off, which is what `TimerIsGivenBack` compares with `itimer`.  A `read()`,
`write()` or `select()` may fail.  A system call of the alarm functions may fail;
`CallsFail` bounds how often.

**Palette, VideoCamera, Pwc, Ov511, Camera.**  A *world* `w` is all a call can
see and change: the device with its settings, those saved in it and what it
captures (external), the camera states, `struct opsize`, the flags, and what the
process has allocated.  A call is the set of worlds it may leave; `Then` goes on
with those that have no error.  Options are pairs of letter and value, ranges as
in the code.  `ov511_drvr.c` repeats `pwc_drvr.c` with other names in many
places: there its operators are those of `Pwc`, and `map` names its own lines.
A frame is a function from positions to octets of `OctetBits` bits, so that the
tally of octet values and the bits that differ are computed, not chosen.

**LavaTurn.**  `turn_nway` says for each place of the turned buffer which octet
of salt or input is there, `hashed_len` how far each sub-buffer is hashed;
`turned`, `turned_maxlen`, `turned_len` are the static buffer and its lengths.

**Capture.**  A program runs from its options to its end, one after another on
one camera: the four tools and the driver side of `chaos.c`.  This composes the
camera layer with the LavaRnd process.  The pool is there only as the room it
has; that what the pool is given is a whole number of digests is the `Pool`
module's matter.  Options are parsed one at a time (`option`), so that
an option which is refused leaves what those before it have set; `options_end` is the
frame file, which every program's arguments may name, and the driver's check.  A driver
ignores options of the other one without passing over their values: such a value ends
the options (`value_ends`) and is taken for the name of a frame file if something
follows it.  A rate of `lavadump` may be any of `Rates`.

**FrameService.**  The abstract camera, without drivers, buffers or hash: a program
comes, says what it wants and opens; frames are accepted, each of which differs from
the one before it by a rule that is fixed at the open, and each is used before the
next; what the camera keeps changes at an open, and as asked.  The refinement mapping
is in `CaptureProperties`: `using` is the frame in the buffer while `pc` is "sane", so
that a frame which is captured into too early, given to the hash without having
passed, or used twice is a step that the service does not have.  Only lavadump owes a
number of octets; `camdump` counts skipped frames against what it puts out (below).

**CaptureProperties.**  What is checked of the camera programs, and what is proved
inductive: `CaptureInv`.

What is abstracted throughout the daemon: the value of an octet, log and debug output,
`HALT` (entered only from a state value that is no member of the enum), process
ids, and chroot, fork and privileges before the loop.  `chan_force_close()` of
all channels at the end is one step, for nothing is served any more.  `Chan` and
`Fd` are finite, and an open that finds no slot or descriptor fails, as it does
in the code when `malloc()` or `accept()` fails.

## 3. Runs

| run | states | what it asks |
|---|---|---|
| `lavapool_clients` | 251,042 | `TypeOK`, `DescriptorMap`, `DispatchIsCurrent`, `ClientLimit` |
| `lavapool_service` | 925,620 | `NoOctetTwice`, `WaitingClientIsFed`, `DumpedFrameIsWithheld`, `ServiceImplemented` |
| `lavapool_live` | 53,247 | `Served` |
| `channel_table` | 139,248 | `OpenGetsOwnSlot`, `GrowsOnlyWhenFull`, `WalkIsComplete`, `OperatesOnce` |
| `library` | 383,197 | `TypeOK`, `NoOctetReused`, `LibraryImplemented`, `CallsEnd` |
| `rawio` | 1,380,050 | `TypeOK`, `ResultTellsOctets`, `HandlerIsGivenBack`, `MyRingIsMine`, `TimedCallEnds` |
| `capture` | 468,800 | `TypeOK`, `SanityAsAsked`, `AcceptedDiffer`, `AcceptedIsUsed`, `ChaosInsideImage`, `KeptAsAsked`, `AllGivenBack`, `FrameFollows`, `LavadumpIsAsLong`, `TurnedFits`, `EachHashedOnce`, `OutputFits`, `FramesServed` |
| `idle_client` | violation | `IdleClientIsClosed` |
| `accept_count` | violation | `AcceptedAreCounted` |
| `tryonce` | violation | `DaemonErrIsCurrent` |
| `old_timer` | violation | `TimerIsGivenBack` |
| `poor_quality` | violation | `QualityAsAllowed` |

**Bounds.**  `Chan` has four slots: the chaos channel, the listener and two
clients, the smallest number with which clients share the pool, reuse each
other's slot and stand before and after each other in a pass.  In
`lavapool_clients` there is a fifth slot, and a descriptor for it, so that
nothing but the `too_many` test keeps a third client out; `MaxAccept = 3` makes
a slot and a descriptor be used again while another client is open, and with
`AllocSet = 2` the table grows while the listener accepts.
`SysFd = {0}` makes one descriptor belong to
nobody.  `MaxReady` bounds how many descriptors one `select()` reports: three in
`lavapool_clients`, all there can be but one.  `PoolSize = 3` with
`FastPool = 1` and `SlowPool = 2` gives every value of `pool_rate_factor()`;
`Digest = 2` in `lavapool_service` makes the rounding of `maxlen` matter, and a
co-process brings an octet at a time, so that the pool has every level.
`MaxRequest = 2` with a pool that may hold one octet makes a request be gathered
over several turns.  `MaxOctets` and `MaxAccept` stop the two counters;
`MaxOctets = 4` is enough for the pool to be filled, drained by two clients and
filled again.  `lavapool_clients` has `MaxOctets = 1` since it is about slots,
and the runs about octets have short requests (`ReqBufLen = 1`) and no
timeouts.  In `channel_table`, `ALLOC_SET` has its real value 8 and up to 26
channels are made, so that the table grows four times; `MaxClosed = 2` leaves
two closed slots at a time, anywhere, so that the search has one to pass over.
`DescLen = 4` lets the walk begin at each of four descriptors with every length of
the masks, and with `MaxBits = 3` there are walks over three descriptors and walks in
which one or two descriptors have all the bits.  The searches and the walk share no
variable: `MCSpec` takes the steps of one while the other has not begun.

`library` has a callback of each way of going on after a failure, and `S100_HIGH`,
which a poor seed fails, beside `S100_ANY`, which nothing does.  A seed is 3
octets and a turn makes 2, so that seeds do not match buffers or requests; one
turn uses a seed up, so that a copy of 3 octets goes over the end of it.  Buffers
grow from 2 to 4, one exchange brings 2 at most: a request of 3 takes octets
from the buffer and from exchanges that fail between.  `LAVA_MAX_LEN_ARG = 2`
lets only s100 callbacks ask for 3.  `MaxServed = 5` bounds what the daemon ever
sends: two seedings, or a seeding and a request, with the remains of exchanges.
`rawio` moves 2 octets, so that a call can be interrupted with none, one or all
moved.  One failing system call is enough to leave each function at each point.
`capture` has octets of 2 bits and four frames: even, the same but shifted, its
complement and dark, so that all verdicts of the sanity check occur.  Images are
5 by 5, which no palette or digest divides evenly; the buffer has two frames of
60 octets.  The lines of options are, of each driver, its preset, single
settings with limits and `-M`, and one that is refused, and with an option that is
ignored, first (`-P`) or last (`-g`).  `lavadump` is asked for 20 octets, for no end of
them (-1) and for a length of 0, and its rate is 1.0 or 0.0, for which `lavarnd()`
brings nothing and the dump ends.  A process takes up to 3 frames, so that an
insane one can lie between two accepted ones.

`CHECK_DEADLOCK` stays on for the daemon: `Exited` is the only state in which
nothing happens, and it is a step of its own.  The same holds of `Capture`,
where one process follows another.  In `FetchLava` a program that exits has
stopped, and in `RawIO` one that SIGALRM has killed or whose call blocks for ever
with no alarm: there it is off.

**Fairness.**  `Spec` has none, and all safety properties are checked with it.
`FairLoop` is weak fairness of a daemon step, except in a `select()` without a
timeout: a single-threaded loop whose every other call returns goes on.
`FairChaos` adds that the chaos source delivers: asked for again and again it is
reported readable, and of the readings infinitely many make octets.  This is an
assumption on the camera, not on the daemon; without it no client can be served
and the code promises nothing.  `idle_client` needs only `FairLoop`.

`FetchLava` has weak fairness of the steps of a call in progress, by its one
thread; what the daemon does is any outcome, so nothing is assumed of it.
`RawIO` assumes that a thread which is not blocked goes on, that a timer which
runs expires and that a raised signal is delivered; nothing is assumed of the
other end, and a system call that may fail (`io_error`) need not.  `Capture` assumes that a program in its frame loop goes on and that a
camera told to capture completes the frame, as `VIDIOCSYNC` does.

`MaxOctets` is a bound on a counter, and a client that waits when it is reached
would wait for ever in the model, though not in the code.  `lavapool_live`
therefore allows as many octets as all its clients together may ask for
(`MaxAccept * MaxRequest = 4`): the bound never takes an octet from a client
that waits for it.

**What the violations show.**  Each is the code against a sentence of the
repository.

- `idle_client`: `doc/README-config` promises that a client is closed that
  does not submit a request in `timeout` seconds.  `read_client()` compares the
  time only when `select()` has reported input, and no `select()` timeout is
  set for it: a silent client stays, and counts against `maxclients`.
- `accept_count`: `chan.h` says `count` is the number of clients accepted.  An
  accept that makes `mk_chan()` grow the table counts into the old table.
- `tryonce`: `lava_callback.h` says that the TRYONCE callbacks keep away from
  the daemon until another callback has reached it.  `daemon_err` is set at each
  failed exchange and never reset, so that they keep away for good.
- `old_timer`: the comments of `clear_alarm()` say that the old alarm state and the
  old timer are restored.  Its test of whether there was a timer is inverted
  (`rawio.c:1284`): a program that had a timer loses it, and one that had none is
  given one that expires almost at once, to its own disposition.
- `poor_quality`: `lava_callback.h` says that `LAVA_S100_HIGH` accepts only
  `LAVA_QUAL_S100HIGH` and that anything less is an error.  `raw_s100lava()` does
  not lower `remaining` as it copies, so that a call longer than what is left
  before the next seeding is served from the old seed to its end, in octets of a
  lower class, without an error.

`idle_client` is about a client that does not submit its request (READ).  That one
in WRITE which stops reading is not closed either is not contradicted by the sentence
of the document, and has no run.

**What the code does that a reader of the models should know.**  The models
have these; no run states a property about them.  For most the repository says
nothing that they contradict, or says it of another case; the first three do
contradict a comment or a usage text, and one look at the line shows it.

- `frame_dump_if_ready()` sets `fast_select` and nothing clears it, so that after
  the first dump the rate decision of `chan_select()` is void; `chan.h:169` says it
  is for the next cycle.
- `raw_lavapool()` doubles the buffer each time it has been used up, also beyond
  `MAX_BUF_SIZE`, which `fetchlava.c:179` calls the largest size; only
  `lava_preload()` keeps to it.
- `camdump` counts an insane frame as minus one frame and so puts out more than the
  `len` octets of its usage text (`camdump.c:91`); `lavadump` counts none.
- With length 0, "single frame" in the usage, `lavadump` puts out as many octets as a
  frame has chaos, from as many frames as that takes.
- A seeding that fails leaves a seed of low quality, which is not tried again
  until it has been used up; the HIGH and MED callbacks get an error till then.
- `set_simple_alarm()` leaves `old_timer` invalid, so that its ring counts as that
  of an old alarm, and `raw_lavaop()` reports an alarm error for a timeout.
- A ring after the test of `lava_ring` and before the system call is not noticed
  until that call returns (the exception in `TimedCallEnds`).
- With a salt and one sub-buffer the padding of `lava_salt_blk_turn()` lands in
  the data (the exception in `EachHashedOnce`).
- The open tests the sizes of `read()` and `mmap()` the other way round
  (`pwc_drvr.c:2751`), and so refuses a camera for lack of the one it would not use.
- An open that fails leaves its descriptor and buffers to the end of the process.
- `mk_chan()` finds a slot in the part it has just added by the arithmetic of
  `ALLOC_SET` 8 (`chan.c:254`); with 3 or 9, say, it would return NULL after some
  opens (section 4).
- `read_client()` puts its NUL at `readbuf[readcnt+ret]` after it has added `ret` to
  `readcnt` (`client.c:651`), up to octet 44 of a buffer of 23 (see `Client`).

## 4. Proofs

`LavapoolProofs` proves, for every value of the constants that the named
assumptions allow (any number of channels, descriptors, clients, octets, any
pool sizes with fast < slow < size):

- `LavapoolTypeCorrect`: `Spec => []TypeOK`;
- `DescriptorsMapToTheirChannels`: `Spec => []DescriptorMap`;
- `DispatchNeverStale`: `Spec => []DispatchIsCurrent`;
- `ChannelsKeepTheirShape`: `Spec => []` `ChannelShape` of each channel.

None of these is inductive alone.  `IInv` is the conjunction of `TableInv`
(types of the table, `ChannelShape`, `DescriptorMap`), `LoopInv` (types of the
loop, *one* report per descriptor, nothing ready outside "dispatch",
`DispatchIsCurrent`) and `DataInv`.  The reasons it is needed:

- `TypeOK` needs `ChannelShape`: that `request - writecnt` is never negative
  and that an octet sequence is never longer than its request comes from how
  far the client is in its state machine.
- `DispatchIsCurrent` needs `DescriptorMap` and one report per descriptor: an
  operation may change its own channel, because its own report is the one just
  taken off `ready`; and any other report left belongs to another descriptor,
  so to another channel.
- `accept_listener` is the hard action.  The new client's descriptor is free,
  so by `DescriptorMap` no channel has it, and no report in `ready` is for it,
  because `DispatchIsCurrent` says that those lead to channels; and the slot it
  takes is closed, so by `ChannelShape` no report leads to it.

The proof has one lemma per action (`GatherInv`, `AcceptInv`, `SelectInv`, ...)
over lemmas about what happens to the table when a channel keeps its
descriptor, closes or opens (`TableKeepsFd`, `TableCloses`, `TableOpens`) and to
the loop when an operation is dispatched (`LoopPreSelect`, `LoopDispatch`).
Of the pool, `DrainProperties` says that draining cuts it in two and loses nothing,
and `AppendOctets` that what enters goes to its end.

`DaemonProofs` builds on these, for the same constants:

- `ClientsAreLimited`: `Spec => []ClientLimit`;
- `WaitingClientsAreFed`: `Spec => []WaitingClientIsFed`;
- `NoOctetIsGivenTwice`: `Spec => []NoOctetTwice`;
- `DumpedFramesAreWithheld`: `Spec => DumpedFrameIsWithheld`;
- `DaemonImplementsService`: `Spec => ServiceImplemented`.

`StateInv` says what a channel does next by where it is; the others need it to know
that a slot which can be taken is not half-way through a request.  Each property has
then an invariant that fits it:

- `LimitInv`: `ClientLimit` is not inductive, because an accept adds a client without
  looking at the count.  What keeps it is that a report for the listener is still to
  be dispatched only while there is room: `chan_select()` asks for the listener only
  when `too_many` is false, there is one listener and one report for it, and
  `accept_listener` uses it up.
- `FedInv`: during the pass before `select()` a client that waits is still to be
  visited, or has found the pool empty.  `gather_client` takes all it wants or all
  there is, and nothing is added to the pool before `select()`.
- `OctetInv`: to `NoOctetTwice` it adds that no octet above `made` is anywhere, so
  that those made next are new.

`DumpedFrameIsWithheld` needs no invariant; it depends on which operations may touch
the two files.  The refinement is proved action by action (`ServiceSteps`): each maps
to making octets, a request, a gift of no more than is owed, a sending, a hang-up or
the end of the service, or leaves the abstract state alone.  It needs `StateInv` where a
slot is taken again, and `OctetInv` where octets move, because the service has sets
where the daemon has sequences.

`ServiceProofs` proves of the abstract service that no octet is ever in two
places.

`ChannelTableProofs` proves of the searches of `chan.c`, for tables of every length
and any order of opening and closing:

- `TableKeepsShape`: `Spec => []TableShape`;
- `GrowsWhenFull`: `Spec => GrowsOnlyWhenFull`;
- `EachOpenGetsItsOwnSlot`: `Spec => OpenGetsOwnSlot` where `AllocSet = 8`.

The last has the value of `chan.c` as a hypothesis because it is not true for every
`ALLOC_SET`.  `mk_chan()` makes the table longer and then searches as many steps as it
has added slots, from wherever its last search left `last_indx`, and it sets
`last_indx` from the step, not from the slot found.  TLC shows that with 3, 4, 5, 7, 9
or 11 it comes to the end of such a search without a slot and returns NULL after some
number of opens; with 8 it does not, because the starting points fall into a cycle.
`SearchInv` is this cycle: which of the eight slots added last are unused, and where the
next search begins, through the first set, the second, and from the third on each set
alike.  Closing and reusing a channel leaves it alone, so that it holds for every order
of opens and closes.

Of the walk over what `select()` reported it proves, for descriptor tables of any size,
wherever the walk begins and whatever the operations close and open:

- `WalkMeetsAll`: `WalkSpec => WalkIsComplete`;
- `NoneIsMetTwice`: `WalkSpec => OperatesOnce`.

The invariant is `WalkInv`.  `turn_of` says which iteration comes to a descriptor, and
`Passed` that what has been operated on is exactly what was ready and has had its turn;
by that none is met twice.  The rest of `Passed` excludes the two ways of ending early.
The jump to descriptor 0 leaves none out: before it the walk has met descriptors of the
masks only, and from then on it is past the end of the table (`NoTurnLeft`).  And the
count does not run out: `action` is the number of bits less the operations done, and
there are at least as many bits as descriptors (`BitsEnough`), so that something of it is
left while a descriptor waits (`NoActionLeft`).  That a descriptor which waits still
belongs to its channel is because an operation closes none but its own (`StillOwned`).

`TurnProofs` proves of the LavaRnd process, for every size of digest, block and
salt and every sequence of calls, cleanups and failed allocations:

- `BufferNeverOverrun`: `TurnSpec => []TurnedFits`;
- `OutputAlwaysFits`: `TurnSpec => []OutputFits`;
- `EachOctetHashedOnce`: `TurnSpec => []EachHashedOnce`.

The first two follow from one invariant about the three lengths and the last
call; `TurnedFits` is inductive only with what `turned_maxlen` may be: at the
first allocation it is the length of the output, which is never more than that of
what is dealt out (`RoomForDigests`).  The third is about arithmetic: `Dealt` and
`SubLen` give the length of each sub-buffer, `OctetInPlace` that place (row, col)
holds octet `(col - off) * nway + row`, and `PlaceInjective` and `OctetsHashed`
that this is one-to-one onto salt and input over the places that are hashed.
`TurnSpec` allows any call at any time; `CaptureProofs` applies its lemmas to the calls
that the programs of `Capture` make.

`RawIOProofs` proves of the loops and of the alarm functions, for calls of every
length, `select()`s of any size, either disposition the program may begin with
and any number of system calls that fail:

- `RawIOTypeCorrect`: `Spec => []TypeOK`;
- `ResultsTellOctets`: `Spec => []ResultTellsOctets`;
- `RingsAreToldApart`: `Spec => MyRingIsMine`, an action property;
- `HandlersAreGivenBack`: `Spec => []HandlerIsGivenBack`.

Its `IInv` has four parts.  `Types` says where in the program the thread can be.
`ResultInv` adds to `ResultTellsOctets` that the two counts of a loop agree, and
that a call made after `select()` does not block, without which a call could
return "nothing" with octets moved.  `AppInv` is why the two kinds of ring are told
apart: while the program's timer runs, or its signal is raised, our handler is
not yet there, because `set_alarm()` stops the timer and ignores the signal,
which discards it, before it catches the signal.  `GivenInv` follows the program's
disposition through the functions, step by step: from `handler` to `saved` when the
signal is ignored, and back when it is cleared; our timer is stopped before, and what
it has raised is discarded while the signal is ignored, so that nothing of it reaches
the program.  The theorem says nothing of the timer the program had: that it comes
back is false (`old_timer`).  The actions of the loops and those
of the alarm leave each other's variables alone (`IOLeavesAlarm`,
`AlarmLeavesIO`), which halves the cases.

`FetchLavaProofs` proves of the library, for buffers, requests, exchanges and seeds
of every size and whatever callbacks are used:

- `OctetsUsedOnce`: `Spec => []NoOctetReused`;
- `LibraryTypes`: `Spec => []TypeOK`;
- `LibraryRefines`: `Spec => LibraryImplemented`.

For the first the invariant is `Good` of the memory: the octets in the buffer and those spent
have all been sent (an octet that will be sent is in neither), and each is at one
place.  The buffer must also never be fuller than its size, which is what makes
the number of octets asked for to fill it not negative.  As the functions of the
library are sets of outcomes, the proof has one lemma per function, that every
outcome of it keeps `Good` (`RawLavapool`, `RawS100lava`, `LavaPreload`, ...), over
lemmas about cutting and filling the buffer (`CutGood`, `UsedUpGood`, `FilledGood`);
functions that touch other fields are `Like`.  `BufsizEnough` needs that a least size
exists, by the well-foundedness of `<`.  Of the call, `Proper` says that one in
progress still wants octets.

The other two rest on `LibraryInv`: `Good`, `Rest` of the memory (the types of the
other fields, and `Generator`: what the generator has left over came from some seed,
so that it has a quality) and `CallShape`.  The last has what the refinement turns on: a
call in progress has no octet yet.  `raw_random()` goes round with `len` and `out`
unchanged after a failure, and what succeeds at last brings all that was asked for.
`Later` says how a function may change the memory (octets are sent and spent, never taken
back), `Delivers` what an outcome of `raw_lavapool()` brings, and `Answers` what an
outcome of a fetch has to be for an answer of `RandomLibrary`: as many octets as
asked for, told to be of a quality the callback allows, those of the daemon new ones.
How good what s100 brings is compared with what it says is `Worth`:
`octet_quality` of each octet of a copy, across the turns it takes, is at least that of
the seed the copy is judged by until this is used up, and one class less after.  The
theorem therefore has `RandomLibrary`'s exception for late octets in it and does not
say that the floor of a callback is kept, which is false (`poor_quality`).  There is then one lemma for each action (`AskStep`, `AnswerStep`,
`AgainStep`, ...): an exchange that fails, a retry and a new die cannot be seen from
outside, the others are the steps of the same name.

`CaptureProofs` proves of the camera programs, for cameras with any settings, command
lines of any length, any mapped buffer and palette, patterns of any shape and any
number of processes and frames:

- `CaptureTypes`: `Spec => []TypeOK`;
- `LimitsSurviveTheOpen`: `Spec => []SanityAsAsked`;
- `NothingElseIsHashed`: `Spec => []AcceptedIsUsed`;
- `ChaosNeverOutsideImage`: `Spec => []ChaosInsideImage`;
- `CloseGivesAllBack`: `Spec => []AllGivenBack`;
- `LavadumpPutsOutAsMuch`: `Spec => []LavadumpIsAsLong`;
- `SavedOnlyAsAsked`: `Spec => KeptAsAsked`, an action property;
- `AcceptedFramesDiffer`: `Spec => AcceptedDiffer`, an action property;
- `ProgramsServeFrames`: `Spec => FramesServed`, the refinement of `FrameService`;
- `CapturedOctetsHashedOnce`: `Spec => [](TurnedFits /\ OutputFits /\ EachHashedOnce)`.

They rest on `CaptureInv`, the conjunction of what a world always is (`World`: its
records, settings the driver allows, at most one of each buffer), of what it is in each
phase of a process (`PhaseInv`), of the frames (`FrameInv`) and of the octets put out
(`JobInv`).  None of the properties is inductive alone:

- `AllGivenBack` needs `Held`: how many images, previous frames and names the process
  holds is what `struct opsize` and the flags say, which is what the close goes by.
- `ChaosInsideImage` needs `Opened`, which the open establishes at its very end, from
  sizes that the device, the palette and the options give (`PwcOpsize`, `Ov511Opsize`,
  `ZoneFits`) after a palette may have been forced (`PaletteTunes`).
- `AcceptedIsUsed` needs that a camera used by `read()` has no capture running.
- `AcceptedDiffer` needs that the frame kept for comparison is the last one accepted,
  and that `frame_num` is then above 1, without which the first comparison is skipped
  (`FrameInv`).
- `LavadumpIsAsLong` needs that a frame is fetched only while octets are wanting.

A call of the library is a set of outcomes, and there is one lemma for each call on its
outcomes, from requests to the device (`SetGroupTunes`, `MCAPTURE` in `CapturesOnly`)
over the parts of an open (`PwcOpenState`, `PwcHalfOpen`, `SecondHalf`) to the calls of
`camop.c` (`LavacamOpens`, `GetFrame`, `Msync`, `Sanity`, `Close`); then one lemma for
each action (`OpenStep`, `SanityStep`, `LavadumpStep`, ...).  `KeptIs` goes along with
these: `RestoreBegins` says that the open first puts in force what is kept, `Sets` which
settings a request changes and to what, and `Saves` that therefore what `pwc_set()` saves
at its end is what was asked for, and the rest as it was.

The refinement has one lemma for each step of the service, which says what a step of a
program needs in order to be it (`ServiceComes`, `ServiceAccepts`, `ServiceUses`, ...),
and one for each action of the programs that finds the step it is (`OpenServes`,
`SanityServes`, `UseServes`, ...): options are said, a wait and an insane frame cannot be
seen from outside, a frame that passes is accepted, what is done with it uses it.  Two
consequences of `CaptureInv` carry it: `StageInv`, that no frame is in use or remembered
where the service has none, and `OwingInv`, that a frame is fetched only while octets
are owed and the camera closed only when none are.  `SameRule` goes along with every step
from the open to the close: limit, chaos length and what is kept stay as they were,
although each call may change the rest of `struct opsize`.  That an accepted frame
differs by this rule is `AcceptedApart`, which `AcceptedFramesDiffer` rests on too.

The proofs assume what the code takes from outside: `MBufAssumption`, that the frames the
device tells of lie in the buffer it tells of; `CamerasAssumption`, that a camera's settings
are among those the driver's check allows; `PwcAssumption` and `Ov511Assumption`, that the
default limits are numbers; `CameraAssumption`, that the names of frames are not those
of the two special values; and `CaptureAssumption` on the programs' arguments.

**Only model-checked:**

- `Served`, `CallsEnd`, `TimedCallEnds` and `FrameFollows`: liveness, which is out of the
  prover's reach.

## 5. Not modelled, and why

- Parsing and printing (`cfg_lavapool.c`, the `cfg.random` part of
  `fetchlava.c`, `dbg.c`, `lava_debug.c`, the chaos line, URLs, `lavacam_print`
  and usage): pure functions of their input; what a parser lets through is in the
  `ASSUME`s.
- `sha1.c`, `fnv1.c` and the arithmetic of `s100.c`: numeric code with no state
  machine.  `random_libc.c` and the floating point calls only convert octets.
- How long is slept and waited, in the library and in the programs: the models
  have the outcomes, a timeout among them.
- The device: what a webcam's driver in the kernel does is modelled from how the
  code uses it (external): `VIDIOCMCAPTURE` starts a capture, `VIDIOCSYNC` waits
  for its end, any request may fail.
- `PWC_SIMULATION` and `OV511_SIMULATION`: `ioctl()`s for machines without one.
- The co-process: `close_chaos()` ends it only when `ch->pid > 0`, and no code
  puts the forked pid there; the pipe is all the daemon acts on.
- That a failed chaos channel is opened again: no code does so.  `Served` and
  `WaitingClientIsFed` speak of an open one.
- `lava_turn()`, which only a test program calls, `s100_unload()`, which writes a
  seed out, `lavaurl.c`, the Perl module and the filters in `tool/`: sequential
  programs whose output is a function of their input.

## 6. The plan

1. *Done:* the daemon, its abstract service, type correctness, the descriptor
   map and the currency of dispatch.
2. *Done:* the library (`S100`, `FetchLava`, `RandomLibrary`), `RawIO`, the camera
   (`Palette` to `Capture`) and the LavaRnd process; proofs of the LavaRnd process,
   of raw I/O and of the library's use of octets.
3. *Done:* proofs of the daemon's remaining safety properties and of its service, of
   the channel table, of the library's types and its implementation of
   `RandomLibrary`, and of the camera programs.
4. *Done:* the walk of `chan_select()`, iteration by iteration, with its proof; the
   abstract camera, `FrameService`, and the proof that `Capture` implements it.
5. *To do:* of the library, that lengths never exceed what the callback may ask for;
   the lengths of timeouts, which the models leave out.
