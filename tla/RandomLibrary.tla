---------------------------- MODULE RandomLibrary ----------------------------
(***************************************************************************)
(* What the library promises a program that asks it for random octets,     *)
(* with no buffer, generator or daemon: a call brings all the octets asked *)
(* for and says of what quality they are, one its callback allows, or it   *)
(* brings none, and then an error is shown or the program ends.  An octet  *)
(* of the daemon is given to the program once.  What is said is not always *)
(* kept: see Answer.                                                       *)
(***************************************************************************)
EXTENDS Integers, Sequences

CONSTANTS
  Callback,     \* the callbacks
  MinQuality,   \* the poorest quality each of them allows
  Pool,         \* the quality of the daemon's octets
  Request       \* the lengths asked for

VARIABLES
  state,  \* "idle", "busy" or "exited"
  want,   \* the call in progress, or the last one: its callback and length
  answer, \* what the last call brought
  told,   \* the quality the library says that is; 0 of nothing
  error,  \* whether the error indicator of the last call shows a failure
  gone    \* the daemon's octets that have been given or used up

libraryVars == <<state, want, answer, told, error, gone>>

LibraryInit ==
  /\ state = "idle" /\ answer = <<>> /\ told = 0 /\ error = FALSE /\ gone = {}
  /\ want = [callback |-> "none", len |-> 0]

\* The daemon's octets in a sequence of octets.
FromPool(octets) == {octets[i].n : i \in {j \in DOMAIN octets : octets[j].qual = Pool}}

Ask(c, n) ==
  /\ state = "idle" /\ state' = "busy"
  /\ want' = [callback |-> c, len |-> n]
  /\ answer' = <<>> /\ told' = 0 /\ error' \in BOOLEAN

\* A call that cannot be taken up is refused.
Refuse(c, n) ==
  /\ state = "idle" /\ UNCHANGED state
  /\ want' = [callback |-> c, len |-> n]
  /\ answer' = <<>> /\ told' = 0 /\ error' = TRUE

\* The quality that is told is one the callback allows, and the octets are no
\* poorer.  Those that are late, made after the seed of the s100 generator was used
\* up, may be one class poorer than is told: this falls short of
\* LavaRnd/lava_callback.h:292, which makes no exception (QualityAsAllowed of
\* FetchLavaProperties), and is all that the library does.
Answer ==
  /\ state = "busy" /\ state' = "idle"
  /\ Len(answer') = want.len
  /\ told' >= MinQuality[want.callback]
  /\ \A i \in DOMAIN answer' :
        /\ answer'[i].qual >= IF answer'[i].late THEN told' - 1 ELSE told'
        /\ answer'[i].qual = Pool => answer'[i].n \notin gone
        /\ \A j \in DOMAIN answer' :
              i # j /\ answer'[i].qual = Pool => answer'[i].n # answer'[j].n
  /\ FromPool(answer') \subseteq gone'
  /\ UNCHANGED want

\* LAVA_EXIT and LAVA_RETRY never return without their octets.
Fail ==
  /\ state = "busy" /\ state' = "idle"
  /\ want.callback \notin {"EXIT", "RETRY"}
  /\ error' = TRUE
  /\ UNCHANGED <<want, answer, told>>

Exit ==
  /\ state = "busy" /\ state' = "exited"
  /\ want.callback \in {"EXIT", "USER"}
  /\ UNCHANGED <<want, answer, told>>

\* The program has looked at the answer.
Take ==
  /\ state = "idle"
  /\ want' = [callback |-> "none", len |-> 0] /\ answer' = <<>> /\ told' = 0
  /\ UNCHANGED <<state, error>>

\* Octets may be used for something else, such as a seed, and an error shown
\* that did not keep the call from its octets.
Lose ==
  /\ UNCHANGED <<state, want, answer, told>>
  /\ error => error'

Settle == Answer \/ Fail \/ Exit

LibraryNext ==
  /\ gone \subseteq gone'
  /\ \/ \E c \in Callback, n \in Request : Ask(c, n) \/ Refuse(c, n)
     \/ Settle
     \/ Take
     \/ Lose

LibrarySpec == LibraryInit /\ [][LibraryNext]_libraryVars

\* The callbacks that do not try for ever, and what becomes of their calls.
Ends == want.callback \notin {"RETRY", "USER"}
LibraryEnds == state = "busy" /\ Ends ~> state # "busy"
=============================================================================
