--------------------------- MODULE TurnProperties ---------------------------
(* What the LavaRnd process guarantees: see LavaTurn.                       *)
EXTENDS LavaTurn

Turning == turn.ret > 0

\* The turned buffer, kept from call to call, is never taken to be larger than it
\* is, and what is dealt out fits in (lib/lavarnd.c:1235).
TurnedFits ==
  /\ turned_maxlen <= turned
  /\ Turning => turned_len <= turned

\* The places, by sub-buffer, of the octets that are hashed.
hashed(salt_len, inlen, nway) ==
  UNION {{<<row, col>> : col \in 0 .. hashed_len(salt_len, inlen, nway, row) - 1} :
           row \in 0 .. nway - 1}

salt_and_input(salt_len, inlen) ==
  ({"salt"} \X (0 .. salt_len - 1)) \cup ({"input"} \X (0 .. inlen - 1))

\* Every octet of the salt and of the input is hashed, in one of the sub-buffers,
\* once; nothing that an earlier call left in the buffer is.  (With a salt and one
\* sub-buffer the padding is misplaced.)
EachHashedOnce ==
  Turning /\ (turn.nway > 1 \/ turn.salt_len = 0)
    => LET octet_at(p) == turned_octet(turn.salt_len, turn.inlen, turn.nway, p[1], p[2])
           places      == hashed(turn.salt_len, turn.inlen, turn.nway)
       IN /\ {octet_at(p) : p \in places} \ {Nul} = salt_and_input(turn.salt_len, turn.inlen)
          /\ Cardinality({p \in places : octet_at(p) # Nul}) = turn.salt_len + turn.inlen

\* The digests fit in the output, and there is one at least.
OutputFits == Turning => turn.nway >= 1 /\ turn.ret <= turn.outlen
=============================================================================
