------------------------------- MODULE Client -------------------------------
(***************************************************************************)
(* The client channels of the lavapool daemon (daemon/client.c).  A client *)
(* sends a line with the number of octets it wants, is given them from the *)
(* pool as they come, and is then sent them:                               *)
(*    OPEN -> READ -> GATHER -> WRITE -> CLOSE.                            *)
(***************************************************************************)
EXTENDS Channel

VARIABLES
  sent  \* history: the octets written to clients

client_read_mask      == {"READ"}
client_write_mask     == {"WRITE"}
client_exception_mask == {"READ", "WRITE"}

\* mutant: GATHER is missing from the array
client_preselect_ready_close == {"CLOSE"}

client_preselect_ready == {"GATHER", "CLOSE"}

client_select_mask(i) ==
  {c \in Cycle : \/ c = "read"      /\ ch[i].nxt \in client_read_mask
                 \/ c = "write"     /\ ch[i].nxt \in client_write_mask
                 \/ c = "exception" /\ ch[i].nxt \in client_exception_mask}

open_clients == {i \in Made("CLIENT") : ch[i].cur \in {"OPEN", "READ", "GATHER", "WRITE"}}

\* mk_open_client(): the channel it leaves on descriptor f.
mk_open_client(f) ==
  [Fresh_chan("CLIENT", "OPEN", "READ", f)
     EXCEPT !.timeout = IF TimeoutSet THEN "later" ELSE "off"]

\* What is left to write of a client's octets.
unsent(i) == SubSeq(ch[i].random, ch[i].writecnt + 1, Len(ch[i].random))

close_client(i) == close_chan(i) /\ ch[i].type = "CLIENT"

-----------------------------------------------------------------------------
(* client_pre_select_op().                                                 *)

\* mutant: the first octets gathered end the state
gather_state_early(n, request) == IF n > 0 THEN "WRITE" ELSE "GATHER"

\* The state of a client that has gathered n octets of its request.
gather_state(n, request) == IF n = request THEN "WRITE" ELSE "GATHER"

\* How many octets a client has still to be given.
wanted(i) == ch[i].request - Len(ch[i].random)

\* The channel when it is given these octets.
has_gathered(i, octets) ==
  LET got == ch[i].random \o octets
      st  == gather_state(Len(got), ch[i].request)
  IN [ch[i] EXCEPT !.random = got, !.cur = st, !.nxt = st]

\* gather_client(): take what the pool has, up to what is still wanted.  A
\* client waits while the pool is empty.
gather_client(i) ==
  /\ PreSelect(i)
  /\ ch[i].type = "CLIENT" /\ ch[i].nxt = "GATHER"
  /\ \/ /\ pool = <<>>
        /\ UNCHANGED <<tableVars, pool>>
     \/ /\ pool # <<>>
        /\ ch' = [ch EXCEPT ![i] = has_gathered(i, drain_octets(wanted(i)))]
        /\ pool' = drain_rest(wanted(i))
        /\ UNCHANGED chanindx
     \/ /\ ch[i].random = <<>>   \* no octet yet: malloc() of their buffer fails
        /\ close_client(i)
        /\ UNCHANGED pool
  /\ UNCHANGED <<timeout, next_file, sent, made>>

\* A client whose octets are all written is closed.
PreCloseClient(i) ==
  /\ PreSelect(i)
  /\ ch[i].nxt = "CLOSE"
  /\ close_client(i)
  /\ UNCHANGED <<timeout, next_file, sent, poolVars>>

-----------------------------------------------------------------------------
(* do_client_op() after select().                                          *)

\* Select-exception: the client is closed.
ExceptClient(i) ==
  /\ Dispatch(i, "CLIENT", "exception")
  /\ ch[i].nxt \in client_exception_mask
  /\ close_client(i)
  /\ UNCHANGED <<next_file, sent, poolVars>>

\* mutant: the test for a full buffer is off by one
read_room_over(i) == ReqBufLen - ch[i].readcnt

\* The most digits read_client() can take with no end of line: a buffer that
\* they fill closes the client.
read_room(i) == ReqBufLen - ch[i].readcnt - 1

\* The channel when a request for n octets is complete (the characters read are
\* dead from here on), when k more digits of it have come, and when k more
\* octets are written.
has_asked(i, n) ==
  [ch[i] EXCEPT !.cur = "GATHER", !.nxt = "GATHER", !.timeout = "off",
                !.request = n, !.readcnt = 0]

has_sent_digits(i, k) == [ch[i] EXCEPT !.cur = "READ", !.readcnt = @ + k]

has_been_sent(i, k) ==
  [ch[i] EXCEPT !.writecnt = @ + k,
                !.nxt = IF ch[i].writecnt + k >= ch[i].request THEN "CLOSE" ELSE "WRITE"]

\* read_client().  It closes on a passed timeout, a read error, the end of the
\* input, a character that is no digit, a count out of range or a full buffer.
\* It looks at the clock again when the line is complete.  The NUL it puts after
\* what it read goes too far, up to readbuf[44] of 23 (daemon/client.c:651), and
\* changes nothing: behind readbuf are padding, the pointer random, which is NULL
\* as long as the client is read, and room of the union that a client has no use
\* for; the digits are looked for among those that were read.
read_client(i) ==
  /\ Dispatch(i, "CLIENT", "read")
  /\ ch[i].nxt = "READ"
  /\ \/ close_client(i)
     \/ /\ ch[i].timeout # "due"
        /\ \/ \E n \in 1 .. MaxRequest : ch' = [ch EXCEPT ![i] = has_asked(i, n)]
           \/ \E k \in 1 .. read_room(i) : ch' = [ch EXCEPT ![i] = has_sent_digits(i, k)]
        /\ UNCHANGED chanindx
  /\ next_file' \in Tick(next_file)
  /\ UNCHANGED <<sent, poolVars>>

\* write_client().  It closes on a passed timeout and on a write error.
write_client(i) ==
  /\ Dispatch(i, "CLIENT", "write")
  /\ ch[i].nxt = "WRITE"
  /\ \/ close_client(i) /\ UNCHANGED sent
     \/ /\ ch[i].timeout # "due"
        /\ \E k \in 1 .. (ch[i].request - ch[i].writecnt) :
             /\ sent' = sent \cup {unsent(i)[n] : n \in 1 .. k}
             /\ ch' = [ch EXCEPT ![i] = has_been_sent(i, k)]
        /\ UNCHANGED chanindx
  /\ UNCHANGED <<next_file, poolVars>>

ClientOp(i) ==
  \/ gather_client(i)
  \/ PreCloseClient(i)
  \/ ExceptClient(i)
  \/ read_client(i)
  \/ write_client(i)
=============================================================================
