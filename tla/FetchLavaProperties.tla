------------------------- MODULE FetchLavaProperties -------------------------
(* What the library guarantees when it fetches random data: see FetchLava.  *)
EXTENDS FetchLava

\* Every variable of the library has its type (lib/fetchlava.c:110, :165 and
\* :187); the buffer is never fuller than it is large.
TypeOK ==
  /\ lib.lavabuf.start \in BOOLEAN
  /\ lib.lavabuf.data \in Seq(1 .. MaxServed)
  /\ lib.lavabuf.size \in Nat \ {0}
  /\ Len(lib.lavabuf.data) <= lib.lavabuf.size
  /\ ~lib.lavabuf.start => lib.lavabuf.data = <<>>
  /\ lib.s100 \in S100State
  /\ lib.s100_seed_err \in 0 .. S100Retries + 1
  /\ lib.octets_to_preseed \in -1 .. PreseedAmt
  /\ lib.daemon_err \in BOOLEAN /\ lib.is_cfg \in BOOLEAN
  /\ lib.lavarnd_errno \in Errno /\ lib.lastop_errno \in Errno
  /\ lib.served \in 0 .. MaxServed /\ lib.spent \subseteq 1 .. lib.served
  /\ call.pc \in {"idle", "fetch", "failed", "returned", "exited"}
  /\ call.callback \in Callbacks \cup {"none"} /\ call.len \in Lens \cup {0}
  /\ call.out \in Seq(Octet) /\ call.quality \in Quality
  /\ call.retry_cnt \in Nat /\ call.roll \in BOOLEAN /\ call.tmp_errno \in Errno

\* An octet the daemon sent is in the buffer at one place only, and not at all
\* once it has been given to a caller or used in a seed, whatever exchanges
\* failed half-way and whatever mix of requests, seedings and preloads there was.
\* raw_lavapool() and lava_preload() take octets from the end of the buffer and
\* account for them by its length alone.
NoOctetReused ==
  LET data == lib.lavabuf.data
  IN /\ \A i, j \in DOMAIN data : i # j => data[i] # data[j]
     /\ Numbers(data) \cap lib.spent = {}

\* Once there is an exchange with the daemon that brings a call its octets, the
\* daemon is known to be up, and TRYONCE_x asks it again ("at least keep using
\* s100 until some other callback (such as LAVACALL_TRY_XYZ) manages to
\* successfully communicate with the daemon", LavaRnd/lava_callback.h:88).
DaemonErrIsCurrent ==
  [][lib'.served > lib.served /\ call'.pc = "returned" /\ call'.out # <<>>
     => ~lib'.daemon_err]_vars

\* "Only data of LAVA_QUAL_S100HIGH is acceptable.  If the data quality is too low,
\* then the LAVAERR_POORQUAL error code will be returned"
\* (LavaRnd/lava_callback.h:292, and the same of the other callbacks): no call brings
\* an octet poorer than its callback allows.
QualityAsAllowed ==
  call.pc = "returned" =>
    \A i \in DOMAIN call.out : call.out[i].qual >= MinQual[call.callback]

-----------------------------------------------------------------------------
(* The library implements what RandomLibrary promises.                     *)

Library == INSTANCE RandomLibrary WITH
  Callback <- Callbacks, MinQuality <- MinQual, Pool <- LAVARND, Request <- Lens,
  state  <- IF call.pc \in {"fetch", "failed"} THEN "busy"
            ELSE IF call.pc = "exited" THEN "exited" ELSE "idle",
  want   <- [callback |-> call.callback, len |-> call.len],
  answer <- IF call.pc \in {"fetch", "failed"} THEN <<>> ELSE call.out,
  told   <- IF call.pc \in {"fetch", "failed"} THEN NONE ELSE call.quality,
  error  <- lib.lastop_errno = "FAILED",
  gone   <- lib.spent

\* Every call brings all the octets it asked for and never the same octet of the
\* daemon twice, or shows an error, or ends the program if its callback does that;
\* LAVA_EXIT and LAVA_RETRY never return without (raw_random(), lib/fetchlava.c:1314).
\* The quality raw_random() returns is one the callback allows and no octet is poorer,
\* but for those made after the seed was used up in the middle of a copy, which are at
\* most one class poorer: QualityAsAllowed, which has no such exception, fails.
LibraryImplemented == Library!LibrarySpec

\* A call comes to an end, however long the daemon is down, with every callback
\* but LAVA_RETRY and the program's own: retries are counted, seedings given up
\* and what s100 makes is taken (lib/fetchlava.c:1491).
CallsEnd == Library!LibraryEnds

-----------------------------------------------------------------------------
(* What is proved inductive in FetchLavaProofs.                            *)

\* The part of the memory that knows where octets of the daemon are.
Memory(m) ==
  /\ m.lavabuf \in [start: BOOLEAN, data: Seq(Nat), size: Nat \ {0}]
  /\ Len(m.lavabuf.data) <= m.lavabuf.size
  /\ ~m.lavabuf.start => m.lavabuf.data = <<>>
  /\ m.served \in Nat

\* What is in the buffer or spent has been sent, and is at one place only.
Apart(m) ==
  LET data == m.lavabuf.data
  IN /\ Numbers(data) \subseteq 1 .. m.served /\ m.spent \subseteq 1 .. m.served
     /\ \A i, j \in DOMAIN data : i # j => data[i] # data[j]
     /\ Numbers(data) \cap m.spent = {}

Good(m) == DOMAIN m = DOMAIN lib_static /\ Memory(m) /\ Apart(m)

\* The state of the s100 generator; what it has buffered came from some seed.
Generator(g) == g \in S100State /\ (g.rndbuf_len > 0 => g.bufqual \in S100LOW .. S100HIGH)

\* The rest of the memory.
Rest(m) ==
  /\ Generator(m.s100)
  /\ m.s100_seed_err \in 0 .. S100Retries + 1
  /\ m.octets_to_preseed \in -1 .. PreseedAmt
  /\ m.daemon_err \in BOOLEAN /\ m.is_cfg \in BOOLEAN
  /\ m.lavarnd_errno \in Errno /\ m.lastop_errno \in Errno
  /\ m.served <= MaxServed

\* A call; while it is in progress it has no octet yet: what succeeds at last
\* brings it all that it asked for.
CallShape(c) ==
  /\ DOMAIN c = DOMAIN no_call
  /\ c.pc \in {"idle", "fetch", "failed", "returned", "exited"}
  /\ c.callback \in Callbacks \cup {"none"} /\ c.len \in Lens \cup {0}
  /\ c.out \in Seq(Octet) /\ c.quality \in Quality
  /\ c.retry_cnt \in Nat /\ c.roll \in BOOLEAN /\ c.tmp_errno \in Errno
  /\ c.pc \in {"fetch", "failed", "returned"} => c.callback \in Callbacks /\ c.len \in Lens
  /\ c.pc \in {"fetch", "failed"} => c.len > 0 /\ c.out = <<>> /\ c.quality = NONE

LibraryInv == Good(lib) /\ Rest(lib) /\ CallShape(call)
=============================================================================
