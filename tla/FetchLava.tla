------------------------------ MODULE FetchLava ------------------------------
(***************************************************************************)
(* The side of the library that fetches random data (lib/fetchlava.c and   *)
(* lib/random.c): the buffer of octets got from the lavapool daemon, the   *)
(* private s100 generator it falls back on, and what each callback does    *)
(* when the daemon cannot be reached.  The library is called by one thread *)
(* and talks to a daemon that answers or not; its octets are numbered in   *)
(* the order they are sent.  How long the library sleeps and waits is left *)
(* out.                                                                    *)
(*                                                                         *)
(* Operators that model functions with an outcome take the memory m of the *)
(* library and are the set of their outcomes.                              *)
(***************************************************************************)
EXTENDS S100, FiniteSets

CONSTANTS
  MIN_BUF_SIZE, MAX_BUF_SIZE,   \* smallest and largest size of lavabuf
  LAVA_MAX_LEN_ARG,             \* the longest request when LavaRnd data may be used
  MaxRequest,                   \* cfg: octets in one exchange with the daemon
  ExitRetries, ReturnRetries,   \* cfg: retries of LAVA_EXIT and LAVA_RETURN
  S100Retries,                  \* cfg: retries of seeding s100
  Preseed,                      \* cfg: whether s100_preseed_amt is not -1
  PreseedAmt,                   \* cfg: that amount; also LAVA_DEF_S100_PRESEED_AMT
  Callbacks,                    \* the callbacks that are used
  Lens,                         \* the lengths that are asked for
  Dice,                         \* the lengths a die of random_val() asks for
  PreloadLens,                  \* the lengths lava_preload() is asked for
  MaxServed                     \* bound: octets the daemon will ever send

BUF_GROW == 2

\* What the callbacks fall back on: the poorest quality that will do.
MinQual ==
  [EXIT |-> LAVARND, RETRY |-> LAVARND, RETURN |-> LAVARND,
   TRY_HIGH |-> S100HIGH, TRY_MED |-> S100MED, TRY_ANY |-> S100LOW,
   TRYONCE_HIGH |-> S100HIGH, TRYONCE_MED |-> S100MED, TRYONCE_ANY |-> S100LOW,
   S100_HIGH |-> S100HIGH, S100_MED |-> S100MED, S100_ANY |-> S100LOW,
   USER |-> NONE]

OnlyPool == {"EXIT", "RETRY", "RETURN"}
Try      == {"TRY_HIGH", "TRY_MED", "TRY_ANY"}
TryOnce  == {"TRYONCE_HIGH", "TRYONCE_MED", "TRYONCE_ANY"}
OnlyS100 == {"S100_HIGH", "S100_MED", "S100_ANY"}

ASSUME FetchAssumption ==
  /\ {MIN_BUF_SIZE, MaxRequest, PreseedAmt} \subseteq Nat \ {0}
  /\ {LAVA_MAX_LEN_ARG, ExitRetries, ReturnRetries, S100Retries, MaxServed} \subseteq Nat
  /\ MAX_BUF_SIZE \in Nat /\ MAX_BUF_SIZE >= MIN_BUF_SIZE /\ MAX_BUF_SIZE >= SEED_SIZE
  /\ Preseed \in BOOLEAN
  /\ Callbacks \subseteq DOMAIN MinQual
  /\ Lens \subseteq Nat /\ Dice \subseteq Lens /\ PreloadLens \subseteq Int

VARIABLES
  lib,    \* the statics of the library, and two histories: octets served, octets spent
  call    \* the call of the library in progress

vars == <<lib, call>>

\* An octet the caller is given: one of the daemon's, or one s100 made.  It is
\* late if the copy it was made for had used up the seed before: raw_s100lava()
\* copies on, it never comes to notice that nothing remains.
Octet == [qual: Quality, n: 0 .. MaxServed, late: BOOLEAN]
lava_octet(n) == [qual |-> LAVARND, n |-> n, late |-> FALSE]
lava_octets(s) == [i \in 1 .. Len(s) |-> lava_octet(s[i])]

\* An error indicator: LAVAERR_OK, a count, or any error.
Errno == {"OK", "COUNT", "FAILED"}

lib_static ==
  [lavabuf |-> [start |-> FALSE, data |-> <<>>, size |-> MIN_BUF_SIZE],
   s100 |-> s100_static, s100_seed_err |-> 0, octets_to_preseed |-> PreseedAmt,
   daemon_err |-> FALSE, is_cfg |-> FALSE, lavarnd_errno |-> "OK", lastop_errno |-> "OK",
   served |-> 0, spent |-> {}]

no_call == [pc |-> "idle", callback |-> "none", len |-> 0, out |-> <<>>, quality |-> NONE,
            retry_cnt |-> 0, roll |-> FALSE, tmp_errno |-> "OK"]

Init == lib = lib_static /\ call = no_call

-----------------------------------------------------------------------------
(* Sequences of octet numbers.                                             *)

Numbers(s) == {s[i] : i \in DOMAIN s}
last(s, n)    == SubSeq(s, Len(s) - n + 1, Len(s))
without(s, n) == SubSeq(s, 1, Len(s) - n)
lesser(a, b)  == IF a < b THEN a ELSE b

\* What comes of a function: octets of some quality, or an error, and the memory.
Outcome(got, qual, m) == [ok |-> TRUE, got |-> got, qual |-> qual, m |-> m]
Failure(m) == [ok |-> FALSE, got |-> <<>>, qual |-> NONE, m |-> m]

\* Both error indicators are set together.
set_errno(m, e) == [m EXCEPT !.lavarnd_errno = e, !.lastop_errno = e]
fails(m) == set_errno(m, "FAILED")

spend(m, octets) == [m EXCEPT !.spent = @ \cup Numbers(octets)]

-----------------------------------------------------------------------------
(* raw_lavaop() and raw_lavapool().                                        *)

\* Getting n octets takes an exchange for every MaxRequest of them.  Either all
\* of them succeed, or one fails and those before it have succeeded.
raw_lavaops(m, n) ==
  {x \in {[n |-> n, ok |-> TRUE]}
           \cup {[n |-> k * MaxRequest, ok |-> FALSE] : k \in 0 .. (n - 1) \div MaxRequest} :
     m.served + x.n <= MaxServed}

\* The octets an exchange brings, and the library after it.
brought(m, x) == [i \in 1 .. x.n |-> m.served + i]
talked(m, x)  == [m EXCEPT !.served = @ + x.n, !.daemon_err = @ \/ ~x.ok]

\* Straight into the caller's buffer, after what came from ours.
direct_transfer(m, first, n) ==
  {LET mx == spend(talked(m, x), brought(m, x))
   IN IF x.ok THEN Outcome(lava_octets(first \o brought(m, x)), LAVARND, mx)
              ELSE Failure(mx)
   : x \in raw_lavaops(m, n)}

\* mutant: the octets handed out stay in the buffer
cut_keep(buf, n) == buf

\* The buffer when n octets have been taken from its end.
cut(buf, n) == [buf EXCEPT !.data = without(@, n)]

\* Through our buffer, filled to its size; no caller takes nothing out of it.
buffer_transfer(m, caller, first, n) ==
  LET avail == m.lavabuf.data
  IN (IF m.lavabuf.start THEN {} ELSE {Failure(m)})
     \cup {LET data == avail \o brought(m, x)
               mx   == [talked(m, x) EXCEPT !.lavabuf.start = TRUE, !.lavabuf.data = data]
           IN IF ~x.ok THEN Failure(mx)
              ELSE IF ~caller THEN Outcome(<<>>, LAVARND, mx)
              ELSE Outcome(lava_octets(first \o last(data, n)), LAVARND,
                           spend([mx EXCEPT !.lavabuf = cut(@, n)], last(data, n)))
           : x \in raw_lavaops(m, m.lavabuf.size - Len(avail))}

\* mutant: how full the buffer was is not reset
used_up_full(buf) == [buf EXCEPT !.start = FALSE, !.size = @ * BUF_GROW]

\* A buffer that is used up is freed, and the next one will be larger.
used_up(buf) == [start |-> FALSE, data |-> <<>>, size |-> buf.size * BUF_GROW]

\* raw_lavapool() for n octets; caller is FALSE for its NULL buffer.
raw_lavapool(m, caller, n) ==
  LET buf   == m.lavabuf
      able  == IF caller THEN lesser(Len(buf.data), n) ELSE 0
      first == last(buf.data, able)
      rest  == n - able
      mb    == IF able = 0 THEN m
               ELSE spend([m EXCEPT !.lavabuf = IF able = Len(buf.data)
                                                THEN used_up(buf) ELSE cut(buf, able)], first)
  IN IF rest = 0 THEN {Outcome(lava_octets(first), LAVARND, mb)}
     ELSE IF caller /\ rest >= buf.size THEN direct_transfer(mb, first, rest)
     ELSE buffer_transfer(mb, caller, first, rest)

-----------------------------------------------------------------------------
(* raw_s100lava().                                                         *)

\* The octets and the generator after a copy of n octets, when so many were left
\* before a reseed (0: none, copy whatever is asked).
pump(m, n, remaining, quality) ==
  Outcome([i \in 1 .. n |-> [qual |-> octet_quality(m.s100, i), n |-> 0,
                     late |-> remaining > 0 /\ i > remaining]],
          quality, [m EXCEPT !.s100 = s100_randomcpy(@, n)])

\* mutant: data of any quality will do
too_poor_never(quality, minqual) == FALSE

too_poor(quality, minqual) == quality < minqual

\* Seeding, or loading the default seed if that fails or was given up.
seeding(m) ==
  IF m.s100_seed_err > S100Retries
  THEN {[ok |-> FALSE, m |-> [m EXCEPT !.s100 = s100_load(@, 0)]]}
  ELSE {IF o.ok
        THEN [ok |-> TRUE,  m |-> [o.m EXCEPT !.s100 = s100_load(@, SEED_SIZE), !.s100_seed_err = 0]]
        ELSE [ok |-> FALSE, m |-> [o.m EXCEPT !.s100 = s100_load(@, 0), !.s100_seed_err = @ + 1]]
        : o \in raw_lavapool(m, TRUE, SEED_SIZE)}

raw_s100lava(m, n, minqual) ==
  LET quality(mm) == s100_quality(mm.s100)
      left(mm)    == s100_loadleft(mm.s100)
      copy(mm, remaining) == IF too_poor(quality(mm), minqual) THEN Failure(mm)
                             ELSE pump(mm, n, remaining, quality(mm))
  IN IF left(m) > 0 THEN {copy(m, left(m))}
     ELSE {copy(s.m, IF s.ok THEN left(s.m) ELSE 0) : s \in seeding(m)}

-----------------------------------------------------------------------------
(* lava_preload() and preseed_s100().                                      *)

\* The size of the buffer for so many octets: doubled from the least as needed.
bufsiz(n) ==
  CHOOSE s \in MIN_BUF_SIZE .. MAX_BUF_SIZE :
    LET Enough(z) == z >= n /\ (z = MAX_BUF_SIZE \/ \E k \in 0 .. z : z = MIN_BUF_SIZE * BUF_GROW ^ k)
    IN Enough(s) /\ \A z \in MIN_BUF_SIZE .. s - 1 : ~Enough(z)

\* Seeding from the end of the buffer.
preload_seed(m) ==
  LET data == m.lavabuf.data
  IN IF ~m.lavabuf.start \/ Len(data) < SEED_SIZE THEN fails(m)
     ELSE spend([m EXCEPT !.s100 = s100_load(@, SEED_SIZE), !.lavabuf = cut(@, SEED_SIZE)],
                last(data, SEED_SIZE))

\* lava_preload() once the library is configured: the library it may leave.
lava_preload(m, lavacnt, seed_s100) ==
  LET seed  == seed_s100 /\ s100_loadleft(m.s100) = 0
      asked == (IF lavacnt < 0 THEN 0 ELSE lavacnt) + (IF seed THEN SEED_SIZE ELSE 0)
      want  == IF asked < MIN_BUF_SIZE THEN MIN_BUF_SIZE ELSE lesser(asked, MAX_BUF_SIZE)
      buf   == m.lavabuf
      grows == buf.start /\ buf.size < want
      mb    == IF ~buf.start \/ grows THEN [m EXCEPT !.lavabuf.size = bufsiz(want)] ELSE m
      ready == IF buf.start /\ Len(buf.data) >= want THEN {Outcome(<<>>, LAVARND, m)}
               ELSE raw_lavapool(mb, FALSE, want)
                      \cup (IF grows THEN {Failure(m)} ELSE {})
  IN IF lavacnt < 0 /\ ~seed THEN {m}
     ELSE {IF ~o.ok THEN fails(o.m)
           ELSE IF seed THEN preload_seed(o.m) ELSE o.m
           : o \in ready}

preseed_s100(m, callback, n) ==
  IF \/ callback \in OnlyPool \cup OnlyS100
     \/ s100_loadleft(m.s100) > 0
     \/ ~Preseed
     \/ m.octets_to_preseed < 0
  THEN {m}
  ELSE IF n < m.octets_to_preseed
  THEN {[m EXCEPT !.octets_to_preseed = @ - n]}
  ELSE {[p EXCEPT !.octets_to_preseed = IF s100_loadleft(p.s100) > 0 THEN 0 ELSE -1]
        : p \in lava_preload(m, -1, TRUE)}

-----------------------------------------------------------------------------
(* raw_random(), called by random8() to random64(), randomcpy() and the    *)
(* dice of random_val().                                                   *)

\* preload_cfg(): the library when it has been configured, if that succeeds.  A
\* configuration file, which is needed for no preseeding, starts the count to the
\* preseeding again.
configured(m) ==
  IF m.is_cfg THEN {m}
  ELSE {[m EXCEPT !.is_cfg = TRUE, !.octets_to_preseed = amt] :
          amt \in IF Preseed THEN {PreseedAmt, m.octets_to_preseed} ELSE {-1}}

lava_maxlen_ok(callback, n) == callback \in OnlyS100 \/ n <= LAVA_MAX_LEN_ARG

\* What raw_random() leaves when it returns: a call that got less than it asked
\* for has an error to show.
errno_firewall(m, got, n) ==
  IF got < n /\ m.lavarnd_errno # "FAILED" THEN fails(m) ELSE m

\* The call c refused at once.
refuse(m, c) == /\ lib' = fails(m)
                /\ call' = [c EXCEPT !.pc = "returned"]

\* The start of raw_random() for the call c: what is checked before any data is
\* looked for, then the preseeding.  lastop_errno has been cleared by the caller.
start_call(c) ==
  LET m == [lib EXCEPT !.lastop_errno = "OK"]
      n == c.len
  IN IF ~lava_maxlen_ok(c.callback, n) THEN refuse(m, c)
     ELSE IF n = 0 THEN refuse(m, c)
     ELSE \/ /\ ~m.is_cfg
             /\ refuse(m, c)
          \/ /\ \E mc \in configured(m) : lib' \in preseed_s100(mc, c.callback, n)
             /\ call' = [c EXCEPT !.pc = "fetch"]

new_call(callback, n, roll) ==
  [no_call EXCEPT !.callback = callback, !.len = n, !.roll = roll]

\* random8() to random64(), randomcpy(): a request of n octets.  randomcpy() itself
\* refuses one of none, and notes that in one of the error indicators.
randomcpy(callback, n) ==
  /\ call.pc = "idle"
  /\ \/ n > 0 /\ start_call(new_call(callback, n, FALSE))
     \/ /\ n = 0
        /\ lib' = [lib EXCEPT !.lastop_errno = "FAILED"]
        /\ call' = [new_call(callback, n, FALSE) EXCEPT !.pc = "returned"]

\* random_val(): the same for one throw of a die.
random_val(callback, n) ==
  /\ call.pc = "idle"
  /\ start_call(new_call(callback, n, TRUE))

\* Where the data comes from first.
obtain(m, callback, n) ==
  IF callback \in OnlyS100 \/ (callback \in TryOnce /\ m.daemon_err)
  THEN raw_s100lava(m, n, MinQual[callback])
  ELSE raw_lavapool(m, TRUE, n)

\* What the loop does with data: it counts it and goes on until it has all.
took(o) ==
  LET out == call.out \o o.got
  IN /\ lib' = o.m
     /\ call' = [call EXCEPT !.out = out, !.retry_cnt = 0,
                             !.quality = IF @ = NONE \/ o.qual < @ THEN o.qual ELSE @,
                             !.pc = IF Len(out) < call.len THEN "fetch" ELSE "returned"]

wanting == call.len - Len(call.out)

fetch ==
  /\ call.pc = "fetch"
  /\ \E o \in obtain(lib, call.callback, wanting) :
        IF o.ok THEN took(o)
        ELSE /\ lib' = o.m
             /\ call' = [call EXCEPT !.pc = "failed"]

\* The call ends with what it has; the error indicators are set to its status.
give_up(m) ==
  /\ lib' = errno_firewall(fails(m), Len(call.out), call.len)
  /\ call' = [call EXCEPT !.pc = "returned"]

exit == /\ lib' = fails(lib)
        /\ call' = [call EXCEPT !.pc = "exited"]

\* mutant: every try is the first
tried_first == 0

\* The tries made, this failed one included.
tried == call.retry_cnt + 1

again(n) == /\ call' = [call EXCEPT !.pc = "fetch", !.retry_cnt = n]
            /\ UNCHANGED lib

\* LAVA_EXIT, LAVA_RETRY (whose tries are not limited, nor counted here) and
\* LAVA_RETURN after a failure.
failed_exit ==
  /\ call.pc = "failed" /\ call.callback = "EXIT"
  /\ IF tried > ExitRetries THEN exit ELSE again(tried)

failed_retry ==
  /\ call.pc = "failed" /\ call.callback = "RETRY"
  /\ again(0)

failed_return ==
  /\ call.pc = "failed" /\ call.callback = "RETURN"
  /\ IF tried > ReturnRetries THEN give_up(lib) ELSE again(tried)

\* TRY_x and TRYONCE_x fall back on s100, once.
failed_try ==
  /\ call.pc = "failed" /\ call.callback \in Try \cup TryOnce
  /\ \E o \in raw_s100lava(lib, wanting, MinQual[call.callback]) :
        IF o.ok THEN took(o) ELSE give_up(o.m)

failed_s100 ==
  /\ call.pc = "failed" /\ call.callback \in OnlyS100
  /\ give_up(lib)

\* A callback function is asked, and answers EXIT or something unexpected...
callback_exit ==
  /\ call.pc = "failed" /\ call.callback = "USER"
  /\ exit

\* ... to return the best there is: the error indicators get whatever comes of
\* it, a count included, and the loop ends ...
callback_return ==
  /\ call.pc = "failed" /\ call.callback = "USER"
  /\ \E o \in raw_s100lava(lib, wanting, NONE) :
        IF o.ok
        THEN took([o EXCEPT !.m = set_errno(@, "COUNT")])
        ELSE give_up(o.m)

\* ... to try s100 of some quality, and the daemon again if there is none ...
callback_s100(minqual) ==
  /\ call.pc = "failed" /\ call.callback = "USER"
  /\ \E o \in raw_s100lava(lib, wanting, minqual) :
        IF o.ok THEN took(o)
        ELSE /\ lib' = fails(o.m)
             /\ call' = [call EXCEPT !.pc = "fetch"]

\* ... or to pause and try again.
callback_pause ==
  /\ call.pc = "failed" /\ call.callback = "USER"
  /\ again(0)

\* raw_random() has returned.  random8() to random64() and randomcpy() pass on
\* what it left.
answered ==
  /\ call.pc = "returned" /\ ~call.roll
  /\ call' = no_call
  /\ UNCHANGED lib

\* random_val() has a number.  Some are thrown again, keeping their error; at the
\* end lavarnd_errno has the error of the throws before the last one.
roll_again ==
  /\ call.pc = "returned" /\ call.roll
  /\ start_call([new_call(call.callback, call.len, TRUE) EXCEPT
                   !.tmp_errno = IF lib.lavarnd_errno = "FAILED" THEN "FAILED" ELSE call.tmp_errno])

roll_done ==
  /\ call.pc = "returned" /\ call.roll
  /\ lib' = [lib EXCEPT !.lavarnd_errno = call.tmp_errno]
  /\ call' = no_call

\* The program calls lava_preload() or fetchlava_cleanup() itself.
preload(lavacnt, seed_s100) ==
  /\ call.pc = "idle"
  /\ \/ /\ ~lib.is_cfg
        /\ lib' = fails(lib)
     \/ \E mc \in configured(lib) : lib' \in lava_preload(mc, lavacnt, seed_s100)
  /\ UNCHANGED call

fetchlava_cleanup ==
  /\ call.pc = "idle"
  /\ lib' = [lib EXCEPT !.is_cfg = FALSE, !.lavabuf = lib_static.lavabuf]
  /\ UNCHANGED call

working == \/ fetch
           \/ failed_exit \/ failed_retry \/ failed_return \/ failed_try \/ failed_s100
           \/ callback_exit \/ callback_return \/ callback_pause
           \/ \E q \in {S100LOW, S100MED, S100HIGH} : callback_s100(q)

Next == \/ \E c \in Callbacks, n \in Lens : randomcpy(c, n)
        \/ \E c \in Callbacks, n \in Dice : random_val(c, n)
        \/ working
        \/ answered \/ roll_again \/ roll_done
        \/ \E n \in PreloadLens, s \in BOOLEAN : preload(n, s)
        \/ fetchlava_cleanup

\* A call in progress is carried on with by its thread.
Spec == Init /\ [][Next]_vars /\ WF_vars(working)
=============================================================================
