--------------------------- MODULE ServiceProofs ---------------------------
(***************************************************************************)
(* The service the daemon implements keeps its word, for any octets and    *)
(* any clients.                                                            *)
(***************************************************************************)
EXTENDS RandomService, TLAPS

ServiceInv == ServiceTypeOK /\ EachOctetOnce

LEMMA ServiceInitInv == ServiceInit => ServiceInv
  BY DEF ServiceInit, ServiceInv, ServiceTypeOK, EachOctetOnce

\* What is in every place is made of the octets that were in it before and of
\* octets that have left another place, so no step puts one in two places.
LEMMA ServiceStepInv == ServiceInv /\ [ServiceNext]_serviceVars => ServiceInv'
<1> SUFFICES ASSUME ServiceInv, [ServiceNext]_serviceVars PROVE ServiceInv'
  OBVIOUS
<1> USE DEF ServiceInv, ServiceTypeOK, EachOctetOnce
<1>1. CASE Make
  BY <1>1 DEF Make
<1>2. CASE Stop
  BY <1>2 DEF Stop
<1>3. ASSUME NEW i \in Client, Ask(i) PROVE ServiceInv'
  BY <1>3 DEF Ask
<1>4. ASSUME NEW i \in Client, Give(i) PROVE ServiceInv'
  BY <1>4 DEF Give
<1>5. ASSUME NEW i \in Client, Send(i) PROVE ServiceInv'
  BY <1>5 DEF Send
<1>6. ASSUME NEW i \in Client, Hangup(i) PROVE ServiceInv'
  BY <1>6 DEF Hangup
<1>7. CASE UNCHANGED serviceVars
  BY <1>7 DEF serviceVars
<1> QED
  BY <1>1, <1>2, <1>3, <1>4, <1>5, <1>6, <1>7 DEF ServiceNext

\* The service never has an octet in two places, whatever the octets and the
\* clients are (what drain_pool() and write_client() must not break).
THEOREM ServiceKeepsOctetsApart == ServiceSpec => []EachOctetOnce
<1>1. ServiceInv => EachOctetOnce
  BY DEF ServiceInv
<1> QED
  BY <1>1, ServiceInitInv, ServiceStepInv, PTL DEF ServiceSpec
=============================================================================
