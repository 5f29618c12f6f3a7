-------------------------------- MODULE S100 --------------------------------
(***************************************************************************)
(* The subtractive 100 shuffle generator of the library (lib/s100.c), as   *)
(* operators on its state.  What a seed or an output octet is worth is     *)
(* modelled, what it is, is not: an octet made here stands for its quality.*)
(* One s100_turn() makes a buffer of S100_BUF octets, and the generator    *)
(* asks for a new seed after S100_RESEED_CYCLES turns.                     *)
(***************************************************************************)
EXTENDS Integers, Sequences

CONSTANTS
  S100_RESEED_CYCLES,  \* turns before a reseed is recommended
  S100_BUF,            \* octets made by one turn
  SEED_SIZE            \* octets of a full seed

ASSUME S100Assumption == /\ S100_RESEED_CYCLES \in Nat \ {0}
                         /\ S100_BUF \in Nat \ {0}
                         /\ SEED_SIZE \in Nat \ {0}

\* The qualities of data, poorest first.
NONE     == 0
S100LOW  == 1
S100MED  == 2
S100HIGH == 3
LAVARND  == 4
Quality  == NONE .. LAVARND

S100State == [seeded: BOOLEAN, nextspin: 0 .. S100_RESEED_CYCLES,
              seed_len: 0 .. SEED_SIZE, rndbuf_len: 0 .. S100_BUF, bufqual: Quality]

s100_static == [seeded |-> FALSE, nextspin |-> 0, seed_len |-> 0,
                rndbuf_len |-> 0, bufqual |-> NONE]

\* s100_load() with len octets of seed.  What a full seed lacks is filled from
\* the default seed, mixed with what can be gathered from the system.
s100_load(g, len) ==
  [g EXCEPT !.seeded = TRUE, !.nextspin = S100_RESEED_CYCLES, !.rndbuf_len = 0,
            !.seed_len = IF len >= SEED_SIZE THEN SEED_SIZE ELSE len]

s100_loadleft(g) == IF g.seeded THEN g.nextspin * S100_BUF + g.rndbuf_len ELSE 0

\* What a generator with so many turns to go is worth, its buffer apart.
seed_quality(g, nextspin) ==
  LET full == g.seed_len >= SEED_SIZE
  IN IF ~g.seeded THEN S100LOW
     ELSE IF nextspin > 0
          THEN IF full THEN S100HIGH ELSE IF g.seed_len > 0 THEN S100MED ELSE S100LOW
          ELSE IF full THEN S100MED ELSE S100LOW

s100_quality(g) ==
  LET quality == seed_quality(g, g.nextspin)
      worst   == IF g.rndbuf_len > 0 /\ g.bufqual < quality THEN g.bufqual ELSE quality
  IN IF worst <= S100LOW THEN S100LOW ELSE worst

\* How many turns it takes to copy out len octets, and the turns that are then
\* left before a reseed.
turns(g, len) ==
  IF len <= g.rndbuf_len THEN 0 ELSE (len - g.rndbuf_len + S100_BUF - 1) \div S100_BUF

s100_turn(g, n) == IF n < g.nextspin THEN g.nextspin - n ELSE 0

\* s100_randomcpy(): the generator after len octets are copied out.  Each turn
\* notes the quality of what it buffers before it counts itself.
s100_randomcpy(g, len) ==
  LET n == turns(g, len)
  IN IF n = 0 THEN [g EXCEPT !.rndbuf_len = @ - len]
     ELSE [g EXCEPT !.rndbuf_len = g.rndbuf_len + n * S100_BUF - len,
                    !.nextspin   = s100_turn(g, n),
                    !.bufqual    = seed_quality(g, s100_turn(g, n - 1))]

\* What the i-th of the octets copied out is worth.
octet_quality(g, i) ==
  IF i <= g.rndbuf_len THEN g.bufqual
  ELSE seed_quality(g, s100_turn(g, turns(g, i) - 1))
=============================================================================
