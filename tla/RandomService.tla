--------------------------- MODULE RandomService ---------------------------
(***************************************************************************)
(* What the lavapool daemon promises, with no channels, descriptors or     *)
(* select(): random octets are made, kept in a pool, given to clients that *)
(* asked for them, and sent.  An octet leaves the pool for one client at   *)
(* most; a client is given no more octets than it asked for, and is sent   *)
(* nothing before it has been given all of them.                           *)
(***************************************************************************)
EXTENDS Integers, FiniteSets

CONSTANTS
  Octet,     \* the octets there are
  Client,    \* the clients (the slots they occupy)
  MaxRequest \* the most octets one request may be for

VARIABLES
  fresh,  \* octets that are yet to be made
  stock,  \* octets in the pool
  held,   \* what each client has been given and not sent
  sent,   \* octets sent
  owed    \* how many octets each client is still to be given

serviceVars == <<fresh, stock, held, sent, owed>>

ServiceInit ==
  /\ fresh = Octet /\ stock = {} /\ sent = {}
  /\ held = [i \in Client |-> {}]
  /\ owed = [i \in Client |-> 0]

Make ==
  \E S \in (SUBSET fresh) \ {{}} :
    /\ fresh' = fresh \ S /\ stock' = stock \cup S
    /\ UNCHANGED <<held, sent, owed>>

Ask(i) ==
  /\ owed[i] = 0 /\ held[i] = {}
  /\ \E n \in 1 .. MaxRequest : owed' = [owed EXCEPT ![i] = n]
  /\ UNCHANGED <<fresh, stock, held, sent>>

Give(i) ==
  \E S \in (SUBSET stock) \ {{}} :
    /\ Cardinality(S) <= owed[i]
    /\ stock' = stock \ S
    /\ held' = [held EXCEPT ![i] = @ \cup S]
    /\ owed' = [owed EXCEPT ![i] = @ - Cardinality(S)]
    /\ UNCHANGED <<fresh, sent>>

Send(i) ==
  /\ owed[i] = 0
  /\ \E S \in (SUBSET held[i]) \ {{}} :
       /\ held' = [held EXCEPT ![i] = @ \ S]
       /\ sent' = sent \cup S
  /\ UNCHANGED <<fresh, stock, owed>>

\* What a client that goes away has not been sent is lost.
Hangup(i) ==
  /\ held' = [held EXCEPT ![i] = {}]
  /\ owed' = [owed EXCEPT ![i] = 0]
  /\ UNCHANGED <<fresh, stock, sent>>

Stop ==
  /\ stock' = {}
  /\ held' = [i \in Client |-> {}] /\ owed' = [i \in Client |-> 0]
  /\ UNCHANGED <<fresh, sent>>

ServiceNext ==
  \/ Make \/ Stop
  \/ \E i \in Client : Ask(i) \/ Give(i) \/ Send(i) \/ Hangup(i)

ServiceSpec == ServiceInit /\ [][ServiceNext]_serviceVars

-----------------------------------------------------------------------------
ServiceTypeOK ==
  /\ fresh \subseteq Octet /\ stock \subseteq Octet /\ sent \subseteq Octet
  /\ held \in [Client -> SUBSET Octet]

\* No octet is in two places.
EachOctetOnce ==
  /\ fresh \cap stock = {} /\ fresh \cap sent = {} /\ stock \cap sent = {}
  /\ \A i \in Client :
       /\ held[i] \cap (fresh \cup stock \cup sent) = {}
       /\ \A j \in Client \ {i} : held[i] \cap held[j] = {}
=============================================================================
