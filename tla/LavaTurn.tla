------------------------------ MODULE LavaTurn ------------------------------
(***************************************************************************)
(* The LavaRnd process (lib/lavarnd.c): the chaos data, after the salt, is *)
(* dealt out over nway sub-buffers of one buffer that is kept from call to *)
(* call, and each sub-buffer is hashed.  What the digests are is left out; *)
(* which octet of the input is where, and which are hashed, is not.        *)
(***************************************************************************)
EXTENDS Integers, FiniteSets

CONSTANTS
  SHA_DIGESTSIZE, SHA_BLOCKSIZE,
  SaltSize        \* sizeof(struct system_stuff)

ASSUME LavaTurnAssumption == {SHA_DIGESTSIZE, SHA_BLOCKSIZE, SaltSize} \subseteq Nat \ {0}

VARIABLES
  turned,         \* octets allocated for the turned buffer, 0 when it is NULL
  turned_maxlen,  \* what the code takes that to be
  turned_len,
  turn            \* history: the last call of lavarnd()

turnVars == <<turned, turned_maxlen, turned_len, turn>>

LAVA_DIVUP(x, y)   == (x - 1 + y) \div y
LAVA_ROUNDUP(x, y) == y * LAVA_DIVUP(x, y)

\* Octets that are dealt out: the salt is padded to a multiple of nway.
dealt(salt_len, len, nway) == LAVA_ROUNDUP(salt_len, nway) + len

\* LAVA_SALT_BLK_TURN_SUBDIFF: from one sub-buffer to the next.
SUBDIFF(salt_len, len, nway) ==
  LAVA_ROUNDUP(LAVA_DIVUP(dealt(salt_len, len, nway), nway), SHA_DIGESTSIZE)

\* LAVA_SALT_BLK_TURN_SUBLEN: octets in the n-th sub-buffer.
SUBLEN(salt_len, len, nway, n) ==
  (dealt(salt_len, len, nway) \div nway) + (IF n < dealt(salt_len, len, nway) % nway THEN 1 ELSE 0)

TURN_LEN(salt_len, len, nway) == nway * SUBDIFF(salt_len, len, nway)

-----------------------------------------------------------------------------
(* What lava_blk_turn() and lava_salt_blk_turn() leave in the buffer, as a *)
(* function of the position: an octet of the salt or of the input, a NUL,  *)
(* or whatever was there before.                                           *)

Nul  == <<"nul", 0>>
Left == <<"left", 0>>

\* A copy of input with the salt in front.  The NULs that pad it are put at
\* output+len though the copy ends at output+salt_len+len.
turn_1way(salt_len, len, k) ==
  LET extra == LAVA_ROUNDUP(salt_len + len, SHA_DIGESTSIZE) - salt_len - len
  IN IF len <= k /\ k < len + extra THEN Nul
     ELSE IF k < salt_len THEN <<"salt", k>>
     ELSE IF k < salt_len + len THEN <<"input", k - salt_len>>
     ELSE Left

\* Columns the salt takes.
salt_sub_off(salt_len, nway) == LAVA_ROUNDUP(salt_len, nway) \div nway

\* Row by row and column by column; the rest of a column, and of a row, is NULs.
turn_nway(salt_len, len, nway, row, col) ==
  LET off == salt_sub_off(salt_len, nway)
      i   == (col - off) * nway + row
  IN IF col < off
       THEN IF col * nway + row < salt_len THEN <<"salt", col * nway + row>> ELSE Nul
       ELSE IF i < len THEN <<"input", i>> ELSE Nul

\* The octet in the given row and column.
turned_octet(salt_len, len, nway, row, col) ==
  IF nway = 1 THEN turn_1way(salt_len, len, col) ELSE turn_nway(salt_len, len, nway, row, col)

-----------------------------------------------------------------------------
\* The square root, rounded down.
isqrt(n) == Cardinality({r \in 1 .. n : r * r <= n})

\* Steps to a number that is 1 or 5 modulo 6.
up_mod6(n)   == CASE n % 6 = 0 -> 1 [] n % 6 = 2 -> 3 [] n % 6 = 3 -> 2 [] n % 6 = 4 -> 1 [] OTHER -> 0
down_mod6(n) == CASE n % 6 = 0 -> 1 [] n % 6 = 2 -> 1 [] n % 6 = 3 -> 2 [] n % 6 = 4 -> 3 [] OTHER -> 0

\* lava_nway_value(); rate is in sixteenths.
lava_nway_value(length, rate) ==
  LET n == isqrt((length * rate) \div (16 * SHA_BLOCKSIZE)) IN n + up_mod6(n)

\* mutant: nway is not lowered to what the output can take
nway_of_unlowered(inlen, rate, outlen) == lava_nway_value(inlen, rate)

\* The nway of lavarnd(): lowered when the output cannot take so much.
nway_of(inlen, rate, outlen) ==
  LET nway == lava_nway_value(inlen, rate)
      most == outlen \div SHA_DIGESTSIZE
  IN IF nway * SHA_DIGESTSIZE > outlen THEN most - down_mod6(most) ELSE nway

\* mutant: every sub-buffer is taken to be as short as the last
hashed_len_short(salt_len, inlen, nway, n) == SUBLEN(salt_len, inlen, nway, nway - 1)

\* How much of the n-th sub-buffer is hashed: sublen0 up to indxjump, then sublen1.
hashed_len(salt_len, inlen, nway, n) ==
  IF n < inlen % nway THEN SUBLEN(salt_len, inlen, nway, 0) ELSE SUBLEN(salt_len, inlen, nway, nway - 1)

no_turn == [salt_len |-> 0, inlen |-> 0, nway |-> 1, outlen |-> 0, ret |-> 0]

TurnInit == /\ turned = 0 /\ turned_maxlen = 0 /\ turned_len = 0
            /\ turn = no_turn

\* mutant: the buffer of an earlier call is always taken to be large enough
needs_room_never(need) == turned = 0

\* The buffer is allocated, or is made larger when it is thought to be too small.
needs_room(need) == turned = 0 \/ turned_maxlen < need

\* The first time turned_maxlen is set to the length of the output instead.
make_room(need, nway) ==
  /\ turned' = need
  /\ turned_maxlen' = IF turned = 0 THEN nway * SHA_DIGESTSIZE ELSE need

\* lavarnd(): nothing is done for no data or too little room; malloc() and
\* realloc() may fail, after turned_len was set.
lavarnd(use_salt, inlen, rate, outlen) ==
  LET nway     == nway_of(inlen, rate, outlen)
      salt_len == IF use_salt THEN SaltSize ELSE 0
      need     == TURN_LEN(salt_len, inlen, nway)
      called   == [salt_len |-> salt_len, inlen |-> inlen, nway |-> nway, outlen |-> outlen, ret |-> 0]
  IN IF inlen = 0 \/ rate = 0 \/ outlen < SHA_DIGESTSIZE
       THEN turn' = no_turn /\ UNCHANGED <<turned, turned_maxlen, turned_len>>
       ELSE /\ turned_len' = need
            /\ \/ /\ needs_room(need) /\ make_room(need, nway)
                  /\ turn' = [called EXCEPT !.ret = nway * SHA_DIGESTSIZE]
               \/ /\ needs_room(need) /\ UNCHANGED <<turned, turned_maxlen>>
                  /\ turn' = [called EXCEPT !.ret = -1]
               \/ /\ ~needs_room(need) /\ UNCHANGED <<turned, turned_maxlen>>
                  /\ turn' = [called EXCEPT !.ret = nway * SHA_DIGESTSIZE]

lavarnd_cleanup == /\ turned' = 0 /\ turned_maxlen' = 0 /\ turn' = no_turn
                   /\ UNCHANGED turned_len

\* The last call is of no interest any more.
turn_forgotten == turn' = no_turn /\ UNCHANGED <<turned, turned_maxlen, turned_len>>

\* The process ends, and the next one starts.
turn_gone == turned' = 0 /\ turned_maxlen' = 0 /\ turned_len' = 0 /\ turn' = no_turn

\* Any calls whatever.
TurnNext ==
  \/ \E use_salt \in BOOLEAN, inlen, rate, outlen \in Nat : lavarnd(use_salt, inlen, rate, outlen)
  \/ lavarnd_cleanup \/ turn_forgotten \/ turn_gone

TurnSpec == TurnInit /\ [][TurnNext]_turnVars
=============================================================================
