------------------------------- MODULE Pool -------------------------------
(***************************************************************************)
(* The pool of random octets of the lavapool daemon (daemon/pool.c).       *)
(*                                                                         *)
(* An octet is its serial number: the octets that lavarnd() or the chaos   *)
(* co-process delivers are numbered 1, 2, 3, ... as they enter the pool,   *)
(* so that "the same octet twice" can be said.  The pool is a stack:       *)
(* octets are appended at its end and drained from its end.                *)
(***************************************************************************)
EXTENDS Integers, Sequences

CONSTANTS
  Digest,      \* SHA_DIGESTSIZE, the unit of lavarnd() output (20 in the code)
  PoolSize,    \* cfg_lavapool.poolsize
  FastPool,    \* cfg_lavapool.fastpool
  SlowPool,    \* cfg_lavapool.slowpool
  MaxPoolIO,   \* MAXPOOL_IO, the largest read from a co-process
  MaxOctets    \* bound: octets ever put into the pool

\* config_priv() refuses a cfg.lavapool file that is not of this form.
ASSUME PoolAssumption ==
  /\ Digest \in Nat \ {0}
  /\ PoolSize \in Nat /\ FastPool \in Nat \ {0} /\ SlowPool \in Nat
  /\ FastPool < SlowPool /\ SlowPool < PoolSize
  /\ MaxPoolIO \in Nat \ {0}
  /\ MaxOctets \in Nat

VARIABLES
  pool,   \* the octets pool[0 .. poollen-1]
  made    \* how many octets have ever entered the pool

poolVars == <<pool, made>>

Octet == 1 .. MaxOctets

\* init_pool() rounds the configured size up to a whole number of digests.
maxlen == Digest * ((PoolSize - 1 + Digest) \div Digest)

PoolInit == pool = <<>> /\ made = 0

PoolTypeOK ==
  /\ pool \in Seq(Octet)
  /\ Len(pool) <= maxlen
  /\ made \in 0 .. MaxOctets

-----------------------------------------------------------------------------
(* pool_rate_factor(): -1.0, 0.0, strictly between 0.0 and 1.0, or 1.0.    *)

pool_rate_factor ==
  IF Len(pool) > maxlen - Digest THEN "full"
  ELSE IF Len(pool) > SlowPool   THEN "slow"
  ELSE IF Len(pool) > FastPool   THEN "medium"
  ELSE "fast"

\* The n octets that enter the pool next.
Fresh(n) == [k \in 1 .. n |-> made + k]

Append_octets(n) ==
  /\ made + n <= MaxOctets
  /\ pool' = pool \o Fresh(n)
  /\ made' = made + n

(* fill_pool_from_chaos(): a full pool takes nothing; otherwise lavarnd()  *)
(* turns the frame into a whole number of digests, no more than the room   *)
(* that is left.  (When lavarnd() fails, read_chaos closes the channel.)   *)
fill_pool_from_chaos ==
  \/ /\ pool_rate_factor = "full"
     /\ UNCHANGED poolVars
  \/ /\ pool_rate_factor # "full"
     /\ \E n \in 1 .. (maxlen - Len(pool)) : n % Digest = 0 /\ Append_octets(n)

(* fill_pool_from_fd(): nilblock_read() of the room that is left, at most  *)
(* MaxPoolIO octets.  Nothing to read now, and end of file, both add 0.    *)
fill_pool_from_fd ==
  \/ UNCHANGED poolVars
  \/ \E n \in 1 .. (IF maxlen - Len(pool) > MaxPoolIO THEN MaxPoolIO
                    ELSE maxlen - Len(pool)) : Append_octets(n)

-----------------------------------------------------------------------------
(* drain_pool(buf, cnt) copies the last octets of the pool and cuts them   *)
(* off: at most cnt, fewer when the pool holds fewer.                      *)

drain_count(cnt) == IF cnt <= Len(pool) THEN cnt ELSE Len(pool)

drain_octets(cnt) == SubSeq(pool, Len(pool) - drain_count(cnt) + 1, Len(pool))

\* mutant: the octets at the other end are cut off
drain_rest_front(cnt) == SubSeq(pool, drain_count(cnt) + 1, Len(pool))

drain_rest(cnt) == SubSeq(pool, 1, Len(pool) - drain_count(cnt))
=============================================================================
