----------------------------- MODULE TurnProofs -----------------------------
(***************************************************************************)
(* What lavarnd() does with its buffer and its output, for every input,    *)
(* rate, salt and digest, and whatever calls came before.                  *)
(***************************************************************************)
EXTENDS TurnProperties, FiniteSetTheorems, FunctionTheorems, TLAPS

-----------------------------------------------------------------------------
(* Division.                                                               *)

LEMMA DivMod ==
  ASSUME NEW x \in Nat, NEW y \in Nat \ {0}
  PROVE  x \div y \in Nat /\ x % y \in 0 .. y - 1 /\ x = y * (x \div y) + (x % y)
OBVIOUS

LEMMA DivIs ==
  ASSUME NEW x \in Nat, NEW y \in Nat \ {0}, NEW q \in Int, NEW r \in 0 .. y - 1, x = y * q + r
  PROVE  x \div y = q /\ x % y = r
OBVIOUS

LEMMA Monotone ==
  ASSUME NEW y \in Nat, NEW a \in Int, NEW b \in Int, a <= b
  PROVE  y * a <= y * b
OBVIOUS

LEMMA ProductNat ==
  ASSUME NEW x \in Nat, NEW y \in Nat
  PROVE  x * y \in Nat
OBVIOUS

\* LAVA_ROUNDUP() gives the next multiple.
LEMMA RoundUp ==
  ASSUME NEW x \in Nat, NEW y \in Nat \ {0}
  PROVE  /\ LAVA_DIVUP(x, y) \in Nat /\ LAVA_ROUNDUP(x, y) \in Nat
         /\ LAVA_ROUNDUP(x, y) = y * LAVA_DIVUP(x, y)
         /\ x <= LAVA_ROUNDUP(x, y)
         /\ x > 0 => LAVA_DIVUP(x, y) >= 1 /\ y <= LAVA_ROUNDUP(x, y)
<1> DEFINE z == x - 1 + y
           q == z \div y
<1>1. z \in Nat
  OBVIOUS
<1>2. q \in Nat /\ z % y \in 0 .. y - 1 /\ z = y * q + (z % y)
  <2> HIDE DEF z
  <2> QED BY <1>1, DivMod
<1>3. y * q \in Nat
  <2> HIDE DEF q
  <2> QED BY <1>2, ProductNat
<1>4. x <= y * q
  <2> HIDE DEF q
  <2> QED BY <1>2, <1>3
<1>5. ASSUME x > 0 PROVE q >= 1 /\ y <= y * q
  <2> HIDE DEF q
  <2>1. q # 0
    BY <1>2, <1>5
  <2> QED BY <2>1, <1>2, Monotone
<1> QED
  BY <1>2, <1>3, <1>4, <1>5 DEF LAVA_DIVUP, LAVA_ROUNDUP

-----------------------------------------------------------------------------
(* The value of nway.                                                      *)

LEMMA SizesNat == SHA_DIGESTSIZE \in Nat \ {0} /\ SHA_BLOCKSIZE \in Nat \ {0} /\ SaltSize \in Nat \ {0}
BY LavaTurnAssumption

LEMMA IsqrtNat ==
  ASSUME NEW n \in Nat
  PROVE  isqrt(n) \in Nat
<1> DEFINE S == {r \in 1 .. n : r * r <= n}
<1>1. IsFiniteSet(1 .. n)
  BY FS_Interval
<1>2. IsFiniteSet(S)
  BY <1>1, FS_Subset
<1> QED
  BY <1>2, FS_CardinalityType DEF isqrt

\* There is always a sub-buffer.
LEMMA NwayValue ==
  ASSUME NEW length \in Nat, NEW rate \in Nat
  PROVE  lava_nway_value(length, rate) \in Nat \ {0}
<1> DEFINE m == (length * rate) \div (16 * SHA_BLOCKSIZE)
<1>1. m \in Nat
  <2>1. length * rate \in Nat /\ 16 * SHA_BLOCKSIZE \in Nat \ {0}
    BY SizesNat, ProductNat
  <2> QED BY <2>1, DivMod
<1>2. isqrt(m) \in Nat
  <2> HIDE DEF m
  <2> QED BY <1>1, IsqrtNat
<1>3. \A n \in Nat : n + up_mod6(n) \in Nat \ {0}
  BY DEF up_mod6
<1> QED
  BY <1>2, <1>3 DEF lava_nway_value

\* lavarnd() lowers nway so far that the output can take the digests, but not to 0.
LEMMA NwayOf ==
  ASSUME NEW inlen \in Nat, NEW rate \in Nat, NEW outlen \in Nat, outlen >= SHA_DIGESTSIZE
  PROVE  /\ nway_of(inlen, rate, outlen) \in Nat \ {0}
         /\ nway_of(inlen, rate, outlen) * SHA_DIGESTSIZE <= outlen
<1> DEFINE nway == lava_nway_value(inlen, rate)
           most == outlen \div SHA_DIGESTSIZE
<1>1. nway \in Nat \ {0}
  BY NwayValue
<1>2. /\ most \in Nat /\ outlen % SHA_DIGESTSIZE \in 0 .. SHA_DIGESTSIZE - 1
      /\ outlen = SHA_DIGESTSIZE * most + (outlen % SHA_DIGESTSIZE)
  BY SizesNat, DivMod
<1> HIDE DEF nway, most
<1>3. most # 0
  BY <1>2, SizesNat
<1>4. most - down_mod6(most) \in Nat \ {0} /\ most - down_mod6(most) <= most
  BY <1>2, <1>3 DEF down_mod6
<1>5. SHA_DIGESTSIZE * (most - down_mod6(most)) <= SHA_DIGESTSIZE * most
  BY <1>2, <1>4, SizesNat, Monotone
<1>6. (most - down_mod6(most)) * SHA_DIGESTSIZE <= outlen
  <2> DEFINE k == most - down_mod6(most)
  <2> HIDE DEF k
  <2>1. SHA_DIGESTSIZE * k <= SHA_DIGESTSIZE * most /\ k \in Nat
    BY <1>4, <1>5 DEF k
  <2>2. k * SHA_DIGESTSIZE <= outlen
    BY <2>1, <1>2, SizesNat
  <2> QED BY <2>2 DEF k
<1> QED
  BY <1>1, <1>4, <1>6, SizesNat DEF nway_of, nway, most

-----------------------------------------------------------------------------
(* The turned buffer.                                                      *)

LEMMA Dealt ==
  ASSUME NEW salt_len \in Nat, NEW len \in Nat, NEW nway \in Nat \ {0}
  PROVE  /\ dealt(salt_len, len, nway) \in Nat /\ dealt(salt_len, len, nway) >= len
         /\ dealt(salt_len, len, nway) = nway * LAVA_DIVUP(salt_len, nway) + len
BY RoundUp DEF dealt

\* Every sub-buffer has room for a digest, so that the room first noted, as many
\* digests as there are sub-buffers, is never more than what was allocated.
LEMMA RoomForDigests ==
  ASSUME NEW salt_len \in Nat, NEW len \in Nat \ {0}, NEW nway \in Nat \ {0}
  PROVE  /\ TURN_LEN(salt_len, len, nway) \in Nat \ {0}
         /\ nway * SHA_DIGESTSIZE <= TURN_LEN(salt_len, len, nway)
<1> DEFINE D == dealt(salt_len, len, nway)
           diff == SUBDIFF(salt_len, len, nway)
<1>1. D \in Nat /\ D > 0
  BY Dealt
<1>2. LAVA_DIVUP(D, nway) \in Nat /\ LAVA_DIVUP(D, nway) >= 1
  BY <1>1, RoundUp
<1>3. diff \in Nat /\ SHA_DIGESTSIZE <= diff
  <2> DEFINE q == LAVA_DIVUP(D, nway)
  <2>1. q \in Nat /\ q > 0
    BY <1>2
  <2> HIDE DEF q
  <2>2. LAVA_ROUNDUP(q, SHA_DIGESTSIZE) \in Nat /\ SHA_DIGESTSIZE <= LAVA_ROUNDUP(q, SHA_DIGESTSIZE)
    BY <2>1, SizesNat, RoundUp
  <2> QED BY <2>2 DEF q, SUBDIFF
<1> HIDE DEF diff
<1>4. nway * SHA_DIGESTSIZE <= nway * diff /\ nway * diff \in Nat
  BY <1>3, SizesNat, Monotone, ProductNat
<1>5. nway * diff # 0
  BY <1>3, SizesNat
<1> QED
  BY <1>4, <1>5 DEF TURN_LEN, diff

-----------------------------------------------------------------------------
(* The invariant: sizes are numbers, what is noted of the buffer is no more *)
(* than there is of it, and the last call that put out digests had an nway  *)
(* that its output could take and a buffer that took what it dealt out.     *)

Turn == [salt_len : Nat, inlen : Nat, nway : Nat \ {0}, outlen : Nat, ret : Int]

TurnInv ==
  /\ turned \in Nat /\ turned_maxlen \in Nat /\ turned_len \in Nat
  /\ turned_maxlen <= turned
  /\ turn \in Turn
  /\ Turning => turned_len <= turned /\ turn.ret <= turn.outlen

LEMMA NoTurn == no_turn \in Turn /\ no_turn.ret = 0
BY DEF no_turn, Turn

LEMMA TurnInitInv == TurnInit => TurnInv
BY NoTurn DEF TurnInit, TurnInv, Turning

\* A call preserves the invariant, whether the buffer is allocated, made larger,
\* large enough or not to be had.
LEMMA LavarndInv ==
  ASSUME TurnInv, NEW use_salt \in BOOLEAN, NEW inlen \in Nat, NEW rate \in Nat, NEW outlen \in Nat,
         lavarnd(use_salt, inlen, rate, outlen)
  PROVE  TurnInv'
<1> DEFINE nway     == nway_of(inlen, rate, outlen)
           salt_len == IF use_salt THEN SaltSize ELSE 0
           need     == TURN_LEN(salt_len, inlen, nway)
           called   == [salt_len |-> salt_len, inlen |-> inlen, nway |-> nway, outlen |-> outlen, ret |-> 0]
<1>1. CASE inlen = 0 \/ rate = 0 \/ outlen < SHA_DIGESTSIZE
  <2>1. turn' = no_turn /\ UNCHANGED <<turned, turned_maxlen, turned_len>>
    BY <1>1 DEF lavarnd
  <2> QED BY <2>1, NoTurn DEF TurnInv, Turning
<1>2. CASE ~(inlen = 0 \/ rate = 0 \/ outlen < SHA_DIGESTSIZE)
  <2>1. nway \in Nat \ {0} /\ nway * SHA_DIGESTSIZE <= outlen /\ nway * SHA_DIGESTSIZE \in Nat
    <3>1. nway \in Nat \ {0} /\ nway * SHA_DIGESTSIZE <= outlen
      BY <1>2, SizesNat, NwayOf
    <3> HIDE DEF nway
    <3> QED BY <3>1, SizesNat, ProductNat
  <2>2. salt_len \in Nat
    BY SizesNat
  <2>3. need \in Nat \ {0} /\ nway * SHA_DIGESTSIZE <= need
    <3> HIDE DEF nway, salt_len
    <3> QED BY <1>2, <2>1, <2>2, RoomForDigests
  <2>4. /\ turned_len' = need
        /\ \/ /\ needs_room(need) /\ make_room(need, nway)
              /\ turn' = [called EXCEPT !.ret = nway * SHA_DIGESTSIZE]
           \/ /\ needs_room(need) /\ UNCHANGED <<turned, turned_maxlen>>
              /\ turn' = [called EXCEPT !.ret = -1]
           \/ /\ ~needs_room(need) /\ UNCHANGED <<turned, turned_maxlen>>
              /\ turn' = [called EXCEPT !.ret = nway * SHA_DIGESTSIZE]
    BY <1>2 DEF lavarnd
  <2> HIDE DEF nway, salt_len, need
  <2>5. /\ called \in Turn /\ called.outlen = outlen
        /\ \A r \in Int : /\ [called EXCEPT !.ret = r] \in Turn
                         /\ [called EXCEPT !.ret = r].ret = r
                         /\ [called EXCEPT !.ret = r].outlen = outlen
    BY <2>1, <2>2 DEF Turn
  <2> HIDE DEF called
  <2>6. CASE needs_room(need) /\ make_room(need, nway) /\ turn' = [called EXCEPT !.ret = nway * SHA_DIGESTSIZE]
    <3>1. /\ turned' = need /\ turned_len' = need
          /\ turned_maxlen' = nway * SHA_DIGESTSIZE \/ turned_maxlen' = need
      BY <2>4, <2>6 DEF make_room
    <3>2. turn' \in Turn /\ turn'.ret = nway * SHA_DIGESTSIZE /\ turn'.outlen = outlen
      BY <2>1, <2>5, <2>6
    <3> QED BY <2>1, <2>3, <3>1, <3>2 DEF TurnInv, Turning
  <2>7. CASE UNCHANGED <<turned, turned_maxlen>> /\ turn' = [called EXCEPT !.ret = -1]
    <3>1. turn' \in Turn /\ turn'.ret = -1
      BY <2>5, <2>7
    <3> QED BY <2>3, <2>4, <2>7, <3>1 DEF TurnInv, Turning
  <2>8. CASE /\ ~needs_room(need) /\ UNCHANGED <<turned, turned_maxlen>>
             /\ turn' = [called EXCEPT !.ret = nway * SHA_DIGESTSIZE]
    <3>1. turn' \in Turn /\ turn'.ret = nway * SHA_DIGESTSIZE /\ turn'.outlen = outlen
      BY <2>1, <2>5, <2>8
    <3>2. need <= turned_maxlen
      BY <2>3, <2>8 DEF needs_room, TurnInv
    <3> QED BY <2>1, <2>3, <2>4, <2>8, <3>1, <3>2 DEF TurnInv, Turning
  <2> QED BY <2>4, <2>6, <2>7, <2>8
<1> QED BY <1>1, <1>2

LEMMA TurnStepInv == TurnInv /\ [TurnNext]_turnVars => TurnInv'
<1> SUFFICES ASSUME TurnInv, [TurnNext]_turnVars PROVE TurnInv'
  OBVIOUS
<1>1. CASE \E use_salt \in BOOLEAN, inlen, rate, outlen \in Nat : lavarnd(use_salt, inlen, rate, outlen)
  BY <1>1, LavarndInv
<1>2. CASE lavarnd_cleanup
  BY <1>2, NoTurn DEF lavarnd_cleanup, TurnInv, Turning
<1>3. CASE turn_forgotten
  BY <1>3, NoTurn DEF turn_forgotten, TurnInv, Turning
<1>4. CASE turn_gone
  BY <1>4, NoTurn DEF turn_gone, TurnInv, Turning
<1>5. CASE UNCHANGED turnVars
  BY <1>5 DEF turnVars, TurnInv, Turning
<1> QED BY <1>1, <1>2, <1>3, <1>4, <1>5 DEF TurnNext

LEMMA TurnInvariant == TurnSpec => []TurnInv
BY TurnInitInv, TurnStepInv, PTL DEF TurnSpec

\* The buffer is never taken to be larger than it is, for any sequence of calls:
\* what lavarnd() notes when it first allocates the buffer is not its length but
\* that of the output (lib/lavarnd.c:1217), and never more.
THEOREM BufferNeverOverrun == TurnSpec => []TurnedFits
<1>1. TurnInv => TurnedFits
  BY DEF TurnInv, TurnedFits
<1> QED BY <1>1, TurnInvariant, PTL

\* The digests always fit in the output.
THEOREM OutputAlwaysFits == TurnSpec => []OutputFits
<1>1. TurnInv => OutputFits
  BY DEF TurnInv, Turn, OutputFits
<1> QED BY <1>1, TurnInvariant, PTL

-----------------------------------------------------------------------------
(* Where the octets go.  They are dealt out one by one, to each sub-buffer *)
(* in turn: the k-th comes to place k \div nway of sub-buffer k % nway.     *)

Place(k, nway) == <<k % nway, k \div nway>>

\* The k-th octet that is dealt out.
Dealt_octet(salt_len, nway, k) ==
  IF k < LAVA_ROUNDUP(salt_len, nway) THEN (IF k < salt_len THEN <<"salt", k>> ELSE Nul)
  ELSE <<"input", k - LAVA_ROUNDUP(salt_len, nway)>>

\* Of the octets that are dealt out, so many come to a sub-buffer.
LEMMA SubLen ==
  ASSUME NEW salt_len \in Nat, NEW len \in Nat, NEW nway \in Nat \ {0}, NEW row \in 0 .. nway - 1
  PROVE  /\ SUBLEN(salt_len, len, nway, row) \in Nat
         /\ \A col \in Nat : col < SUBLEN(salt_len, len, nway, row)
                               <=> nway * col + row < dealt(salt_len, len, nway)
<1> DEFINE D == dealt(salt_len, len, nway)
           q == D \div nway
           r == D % nway
<1>1. D \in Nat
  BY Dealt
<1>2. q \in Nat /\ r \in 0 .. nway - 1 /\ D = nway * q + r
  <2> HIDE DEF D
  <2> QED BY <1>1, DivMod
<1>3. SUBLEN(salt_len, len, nway, row) = q + (IF row < r THEN 1 ELSE 0)
  BY DEF SUBLEN
<1> HIDE DEF D, q, r
<1>4. ASSUME NEW col \in Nat
      PROVE  col < q + (IF row < r THEN 1 ELSE 0) <=> nway * col + row < D
  <2>0. nway * col \in Nat /\ nway * q \in Nat
    BY <1>2, ProductNat
  <2>1. CASE col < q
    <3>1. nway * (col + 1) <= nway * q
      BY <1>2, <2>1, Monotone
    <3>2. nway * (col + 1) = nway * col + nway
      OBVIOUS
    <3> QED BY <1>2, <2>0, <2>1, <3>1, <3>2
  <2>2. CASE col = q
    BY <1>2, <2>0, <2>2
  <2>3. CASE col > q
    <3>1. nway * (q + 1) <= nway * col
      BY <1>2, <2>3, Monotone
    <3>2. nway * (q + 1) = nway * q + nway
      BY <1>2
    <3> QED BY <1>2, <2>0, <2>3, <3>1, <3>2
  <2> QED BY <1>2, <2>1, <2>2, <2>3
<1> QED BY <1>2, <1>3, <1>4 DEF D

\* lavarnd() hashes each sub-buffer as far as octets have come to it, though it
\* tells long and short ones apart by the length of the input alone.
LEMMA HashedLen ==
  ASSUME NEW salt_len \in Nat, NEW len \in Nat, NEW nway \in Nat \ {0}, NEW row \in 0 .. nway - 1
  PROVE  hashed_len(salt_len, len, nway, row) = SUBLEN(salt_len, len, nway, row)
<1> DEFINE D == dealt(salt_len, len, nway)
           u == LAVA_DIVUP(salt_len, nway)
           q == len \div nway
           r == len % nway
<1>1. D \in Nat /\ D = nway * u + len /\ u \in Nat
  BY Dealt, RoundUp
<1>2. q \in Nat /\ r \in 0 .. nway - 1 /\ len = nway * q + r
  BY DivMod
<1> HIDE DEF D, u, q, r
<1>3. D = nway * (u + q) + r
  BY <1>1, <1>2
<1>4. D % nway = r
  <2> DEFINE v == u + q
  <2>1. v \in Nat /\ D = nway * v + r
    BY <1>1, <1>2, <1>3
  <2> HIDE DEF v
  <2>2. D \in Nat /\ r \in 0 .. nway - 1 /\ v \in Int /\ D = nway * v + r
    BY <1>1, <1>2, <2>1
  <2> QED BY <2>2, DivIs
<1>5. \A n \in Nat : SUBLEN(salt_len, len, nway, n) = (D \div nway) + (IF n < r THEN 1 ELSE 0)
  BY <1>4 DEF SUBLEN, D
<1> QED BY <1>2, <1>5 DEF hashed_len, r

\* The places that are hashed are those of the octets that are dealt out.
LEMMA HashedPlaces ==
  ASSUME NEW salt_len \in Nat, NEW len \in Nat, NEW nway \in Nat \ {0}
  PROVE  hashed(salt_len, len, nway) = {Place(k, nway) : k \in 0 .. dealt(salt_len, len, nway) - 1}
<1> DEFINE D == dealt(salt_len, len, nway)
           L(row) == hashed_len(salt_len, len, nway, row)
<1>1. D \in Nat
  BY Dealt
<1>2. \A row \in 0 .. nway - 1 : L(row) \in Nat /\ \A col \in Nat : col < L(row) <=> nway * col + row < D
  <2> SUFFICES ASSUME NEW row \in 0 .. nway - 1
               PROVE  L(row) \in Nat /\ \A col \in Nat : col < L(row) <=> nway * col + row < D
    OBVIOUS
  <2>1. L(row) = SUBLEN(salt_len, len, nway, row)
    BY HashedLen
  <2> HIDE DEF L
  <2> QED BY <2>1, SubLen
<1> HIDE DEF D, L
<1>3. ASSUME NEW row \in 0 .. nway - 1, NEW col \in 0 .. L(row) - 1
      PROVE  \E k \in 0 .. D - 1 : <<row, col>> = Place(k, nway)
  <2> DEFINE k == nway * col + row
  <2>1. L(row) \in Nat /\ col \in Nat /\ col < L(row)
    BY <1>2
  <2>2. k \in Nat /\ k < D
    <3>1. nway * col \in Nat
      BY <2>1, ProductNat
    <3>2. nway * col + row < D
      BY <1>2, <2>1
    <3> QED BY <3>1, <3>2
  <2>3. k \div nway = col /\ k % nway = row
    <3>1. k = nway * col + row
      OBVIOUS
    <3> HIDE DEF k
    <3>2. k \in Nat /\ col \in Int
      BY <2>1, <2>2
    <3> QED BY <3>1, <3>2, DivIs
  <2> HIDE DEF k
  <2>4. k \in 0 .. D - 1
    BY <1>1, <2>2
  <2> QED BY <2>3, <2>4 DEF Place
<1>4. ASSUME NEW k \in 0 .. D - 1
      PROVE  k % nway \in 0 .. nway - 1 /\ k \div nway \in 0 .. L(k % nway) - 1
  <2> DEFINE row == k % nway
             col == k \div nway
  <2>0. k \in Nat /\ k < D
    BY <1>1
  <2>1. row \in 0 .. nway - 1 /\ col \in Nat /\ k = nway * col + row
    BY <2>0, DivMod
  <2> HIDE DEF row, col
  <2>2. col < L(row) /\ L(row) \in Nat
    BY <1>2, <2>0, <2>1
  <2> QED BY <2>1, <2>2 DEF row, col
<1>5. hashed(salt_len, len, nway) = UNION {{<<row, col>> : col \in 0 .. L(row) - 1} : row \in 0 .. nway - 1}
  BY DEF hashed, L
<1> QED BY <1>3, <1>4, <1>5 DEF Place, D

\* In the place of the k-th octet is the k-th octet.
LEMMA OctetInPlace ==
  ASSUME NEW salt_len \in Nat, NEW len \in Nat, NEW nway \in Nat \ {0}, nway > 1 \/ salt_len = 0,
         NEW k \in 0 .. dealt(salt_len, len, nway) - 1
  PROVE  turned_octet(salt_len, len, nway, k % nway, k \div nway) = Dealt_octet(salt_len, nway, k)
<1> DEFINE row == k % nway
           col == k \div nway
           off == LAVA_DIVUP(salt_len, nway)
           up  == LAVA_ROUNDUP(salt_len, nway)
<1>1. off \in Nat /\ up \in Nat /\ up = nway * off /\ salt_len <= up
  BY RoundUp
<1>2. k \in Nat /\ k < up + len
  BY Dealt, <1>1 DEF dealt
<1>3. row \in 0 .. nway - 1 /\ col \in Nat /\ k = nway * col + row
  BY <1>2, DivMod
<1>4. CASE nway > 1
  <2>1. salt_sub_off(salt_len, nway) = off
    <3>1. up \div nway = off
      <4> HIDE DEF up, off
      <4>1. 0 \in 0 .. nway - 1 /\ up = nway * off + 0
        BY <1>1
      <4> QED BY <1>1, <4>1, DivIs
    <3> QED BY <3>1 DEF salt_sub_off
  <2> HIDE DEF row, col, off, up
  <2>2. col * nway + row = k /\ (col - off) * nway + row = k - up
    <3>1. col * nway = nway * col /\ (col - off) * nway = nway * col - nway * off
      BY <1>1, <1>3
    <3>2. nway * col \in Nat /\ nway * off \in Nat
      BY <1>1, <1>3, ProductNat
    <3> QED BY <1>1, <1>3, <3>1, <3>2
  <2>3. col < off <=> k < up
    <3>1. CASE col < off
      <4>1. nway * (col + 1) <= nway * off
        BY <1>1, <1>3, <3>1, Monotone
      <4>2. nway * (col + 1) = nway * col + nway /\ nway * col \in Nat
        BY <1>3, ProductNat
      <4> QED BY <1>1, <1>3, <3>1, <4>1, <4>2
    <3>2. CASE col >= off
      <4>1. nway * off <= nway * col /\ nway * col \in Nat
        BY <1>1, <1>3, <3>2, Monotone, ProductNat
      <4> QED BY <1>1, <1>3, <3>2, <4>1
    <3> QED BY <1>1, <1>3, <3>1, <3>2
  <2>4. turned_octet(salt_len, len, nway, row, col) = turn_nway(salt_len, len, nway, row, col)
    BY <1>4 DEF turned_octet
  <2>5. turn_nway(salt_len, len, nway, row, col) =
          IF k < up THEN (IF k < salt_len THEN <<"salt", k>> ELSE Nul)
          ELSE (IF k - up < len THEN <<"input", k - up>> ELSE Nul)
    BY <2>1, <2>2, <2>3 DEF turn_nway
  <2>6. k - up < len
    BY <1>1, <1>2
  <2> QED BY <2>4, <2>5, <2>6 DEF Dealt_octet, row, col, up
<1>5. CASE nway = 1 /\ salt_len = 0
  <2>1. row = 0 /\ col = k
    <3> HIDE DEF row, col
    <3> QED BY <1>3, <1>5
  <2>2. up = 0
    <3>1. LAVA_ROUNDUP(0, 1) = 0
      BY DEF LAVA_ROUNDUP, LAVA_DIVUP
    <3> QED BY <1>5, <3>1
  <2>3. turned_octet(salt_len, len, nway, row, col) = turn_1way(0, len, k)
    BY <1>5, <2>1 DEF turned_octet
  <2> HIDE DEF row, col, up, off
  <2>4. k < len
    BY <1>2, <2>2
  <2>5. turn_1way(0, len, k) = <<"input", k - 0>>
    BY <1>2, <2>4 DEF turn_1way
  <2> QED BY <1>2, <1>5, <2>2, <2>3, <2>5 DEF Dealt_octet, row, col, up
<1> QED BY <1>4, <1>5

\* Where the j-th octet of the salt and the input comes in what is dealt out.
Rank(salt_len, nway, j) == IF j < salt_len THEN j ELSE j - salt_len + LAVA_ROUNDUP(salt_len, nway)

\* All that is dealt out and is no padding comes from the salt or the input.
LEMMA Ranked ==
  ASSUME NEW salt_len \in Nat, NEW len \in Nat, NEW nway \in Nat \ {0}
  PROVE  /\ \A j \in 0 .. salt_len + len - 1 :
              /\ Rank(salt_len, nway, j) \in 0 .. dealt(salt_len, len, nway) - 1
              /\ Dealt_octet(salt_len, nway, Rank(salt_len, nway, j))
                   = IF j < salt_len THEN <<"salt", j>> ELSE <<"input", j - salt_len>>
         /\ \A k \in 0 .. dealt(salt_len, len, nway) - 1 :
              Dealt_octet(salt_len, nway, k) # Nul
                => \E j \in 0 .. salt_len + len - 1 : k = Rank(salt_len, nway, j)
<1> DEFINE up == LAVA_ROUNDUP(salt_len, nway)
<1>1. up \in Nat /\ salt_len <= up
  BY RoundUp
<1>2. dealt(salt_len, len, nway) = up + len
  BY DEF dealt
<1> HIDE DEF up
<1>3. ASSUME NEW j \in 0 .. salt_len + len - 1
      PROVE  /\ Rank(salt_len, nway, j) \in 0 .. up + len - 1
             /\ Dealt_octet(salt_len, nway, Rank(salt_len, nway, j))
                  = IF j < salt_len THEN <<"salt", j>> ELSE <<"input", j - salt_len>>
  <2>1. CASE j < salt_len
    BY <1>1, <2>1 DEF Rank, Dealt_octet, up
  <2>2. CASE j >= salt_len
    <3>1. Rank(salt_len, nway, j) = j - salt_len + up
      BY <2>2 DEF Rank, up
    <3>2. Dealt_octet(salt_len, nway, j - salt_len + up) = <<"input", j - salt_len + up - up>>
      BY <1>1, <2>2 DEF Dealt_octet, up
    <3> QED BY <1>1, <2>2, <3>1, <3>2
  <2> QED BY <2>1, <2>2
<1>4. ASSUME NEW k \in 0 .. up + len - 1, Dealt_octet(salt_len, nway, k) # Nul
      PROVE  \E j \in 0 .. salt_len + len - 1 : k = Rank(salt_len, nway, j)
  <2>1. CASE k < up
    <3>1. k < salt_len
      BY <1>4, <2>1 DEF Dealt_octet, up
    <3>2. k \in 0 .. salt_len + len - 1 /\ k = Rank(salt_len, nway, k)
      BY <1>1, <3>1 DEF Rank
    <3> QED BY <3>2
  <2>2. CASE k >= up
    <3> DEFINE j == k - up + salt_len
    <3>1. j \in 0 .. salt_len + len - 1 /\ j - salt_len + up = k /\ ~(j < salt_len)
      BY <1>1, <2>2
    <3> HIDE DEF j
    <3>2. k = Rank(salt_len, nway, j)
      BY <3>1 DEF Rank, up
    <3> QED BY <3>1, <3>2
  <2> QED BY <1>1, <2>1, <2>2
<1> DEFINE D == dealt(salt_len, len, nway)
<1>5. D - 1 = up + len - 1
  <2>1. D = up + len
    BY <1>2
  <2> HIDE DEF D
  <2> QED BY <1>1, <2>1
<1>6. \A j \in 0 .. salt_len + len - 1 :
        /\ Rank(salt_len, nway, j) \in 0 .. up + len - 1
        /\ Dealt_octet(salt_len, nway, Rank(salt_len, nway, j))
             = IF j < salt_len THEN <<"salt", j>> ELSE <<"input", j - salt_len>>
  BY <1>3
<1>7. \A k \in 0 .. up + len - 1 :
        Dealt_octet(salt_len, nway, k) # Nul
          => \E j \in 0 .. salt_len + len - 1 : k = Rank(salt_len, nway, j)
  BY <1>4, Zenon
<1> QED BY <1>5, <1>6, <1>7, Zenon

\* No two octets of the salt and the input come to one place.
LEMMA PlaceInjective ==
  ASSUME NEW salt_len \in Nat, NEW len \in Nat, NEW nway \in Nat \ {0},
         NEW i \in 0 .. salt_len + len - 1, NEW j \in 0 .. salt_len + len - 1,
         Place(Rank(salt_len, nway, i), nway) = Place(Rank(salt_len, nway, j), nway)
  PROVE  i = j
<1> DEFINE a == Rank(salt_len, nway, i)
           b == Rank(salt_len, nway, j)
           up == LAVA_ROUNDUP(salt_len, nway)
<1>1. up \in Nat /\ salt_len <= up
  BY RoundUp
<1>2. dealt(salt_len, len, nway) = up + len
  BY DEF dealt
<1>3. a \in 0 .. up + len - 1 /\ b \in 0 .. up + len - 1
  <2>1. a \in 0 .. dealt(salt_len, len, nway) - 1 /\ b \in 0 .. dealt(salt_len, len, nway) - 1
    BY Ranked, Zenon
  <2>2. dealt(salt_len, len, nway) - 1 = up + len - 1
    <3> DEFINE D == dealt(salt_len, len, nway)
    <3>1. D = up + len
      BY <1>2
    <3> HIDE DEF D, up
    <3> QED BY <1>1, <3>1 DEF D
  <2> QED BY <2>1, <2>2, Zenon
<1>4. a % nway = b % nway /\ a \div nway = b \div nway
  BY DEF Place
<1>5. a = (IF i < salt_len THEN i ELSE i - salt_len + up) /\ b = (IF j < salt_len THEN j ELSE j - salt_len + up)
  BY DEF Rank
<1> HIDE DEF a, b, up
<1>6. a \in Nat /\ b \in Nat
  BY <1>1, <1>3
<1>7. a = nway * (a \div nway) + (a % nway) /\ b = nway * (b \div nway) + (b % nway)
  BY <1>6, DivMod
<1>8. a = b
  BY <1>4, <1>7
<1> QED BY <1>1, <1>5, <1>8

\* Each octet of the salt and of the input is hashed, and once.
LEMMA OctetsHashed ==
  ASSUME NEW salt_len \in Nat, NEW len \in Nat, NEW nway \in Nat \ {0}, nway > 1 \/ salt_len = 0
  PROVE  LET octet_at(p) == turned_octet(salt_len, len, nway, p[1], p[2])
             places      == hashed(salt_len, len, nway)
         IN /\ {octet_at(p) : p \in places} \ {Nul} = salt_and_input(salt_len, len)
            /\ Cardinality({p \in places : octet_at(p) # Nul}) = salt_len + len
<1> DEFINE octet_at(p) == turned_octet(salt_len, len, nway, p[1], p[2])
           places      == hashed(salt_len, len, nway)
           D           == dealt(salt_len, len, nway)
           P(j)        == Place(Rank(salt_len, nway, j), nway)
           J           == 0 .. salt_len + len - 1
           Full        == {p \in places : octet_at(p) # Nul}
           O(j)        == IF j < salt_len THEN <<"salt", j>> ELSE <<"input", j - salt_len>>
<1>1. places = {Place(k, nway) : k \in 0 .. D - 1}
  BY HashedPlaces
<1>2. \A k \in 0 .. D - 1 : octet_at(Place(k, nway)) = Dealt_octet(salt_len, nway, k)
  BY OctetInPlace DEF Place
<1>3. \A j \in J : Rank(salt_len, nway, j) \in 0 .. D - 1 /\ Dealt_octet(salt_len, nway, Rank(salt_len, nway, j)) = O(j)
  BY Ranked
<1>4. \A k \in 0 .. D - 1 : Dealt_octet(salt_len, nway, k) # Nul => \E j \in J : k = Rank(salt_len, nway, j)
  BY Ranked
<1>5. \A j \in J : O(j) # Nul
  BY DEF Nul
<1>6. \A i, j \in J : P(i) = P(j) => i = j
  BY PlaceInjective
<1>7. {O(j) : j \in J} = salt_and_input(salt_len, len)
  <2>1. ASSUME NEW j \in J PROVE O(j) \in salt_and_input(salt_len, len)
    BY DEF salt_and_input
  <2>2. ASSUME NEW k \in 0 .. salt_len - 1 PROVE k \in J /\ O(k) = <<"salt", k>>
    OBVIOUS
  <2>3. ASSUME NEW k \in 0 .. len - 1 PROVE k + salt_len \in J /\ O(k + salt_len) = <<"input", k>>
    OBVIOUS
  <2> QED BY <2>1, <2>2, <2>3 DEF salt_and_input
<1> HIDE DEF octet_at, places, D, J, O
<1>8. \A j \in J : P(j) \in places /\ octet_at(P(j)) = O(j)
  BY <1>1, <1>2, <1>3
<1>9. Full = {P(j) : j \in J}
  BY <1>1, <1>2, <1>4, <1>5, <1>8
<1>10. {octet_at(p) : p \in places} \ {Nul} = {O(j) : j \in J}
  <2>1. {octet_at(p) : p \in places} \ {Nul} = {octet_at(p) : p \in Full}
    OBVIOUS
  <2> HIDE DEF Full
  <2> QED BY <1>8, <1>9, <2>1
<1>11. Cardinality(Full) = Cardinality(J) /\ Cardinality(J) = salt_len + len
  <2> HIDE DEF Full, P
  <2>1. [j \in J |-> P(j)] \in Bijection(J, Full)
    BY <1>6, <1>9, Fun_IsBij
  <2>2. ExistsBijection(J, Full)
    BY <2>1, Fun_ExistsBij
  <2>3. IsFiniteSet(J) /\ Cardinality(J) = salt_len + len
    BY FS_Interval DEF J
  <2> QED BY <2>2, <2>3, FS_Bijection
<1> QED BY <1>7, <1>10, <1>11 DEF octet_at, places

\* Whatever the sizes, no octet of the salt or of the input is lost, none is
\* hashed twice, and nothing of an earlier call is hashed: lavarnd() tells the
\* lengths of the sub-buffers by the input alone (lib/lavarnd.c:1272).
THEOREM EachOctetHashedOnce == TurnSpec => []EachHashedOnce
<1>1. TurnInv => EachHashedOnce
  BY OctetsHashed DEF TurnInv, Turn, EachHashedOnce
<1> QED BY <1>1, TurnInvariant, PTL
=============================================================================
