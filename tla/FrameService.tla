---------------------------- MODULE FrameService ----------------------------
(***************************************************************************)
(* What the camera promises the programs that use it, with no driver,      *)
(* buffer or hash.  A program comes, says what it wants, and opens the     *)
(* camera.  Frames are then accepted one at a time; each differs from the  *)
(* one accepted before it, by a rule that stays as it was at the open, and *)
(* is used up before the next is accepted.  A program that was to put out  *)
(* so many octets does not put out more, nor closes before it has.  What   *)
(* the camera keeps changes only as was asked, and only at an open.        *)
(***************************************************************************)
EXTENDS Integers

CONSTANTS
  Frame,            \* what a frame may be
  None,             \* no frame
  Setting,          \* what a program can have the camera keep
  Differ(_, _, _)   \* whether two frames differ enough, and not too much, by a rule

VARIABLES
  stage,  \* of the program that uses the camera: "away", "asking", "open" or "closed"
  saved,   \* the settings that the camera keeps
  asked,  \* the settings that the program has asked for
  rule,   \* by which frames are compared
  owed,   \* octets that are still to be put out, or -1
  last,   \* the frame accepted last
  using   \* the frame that is being used

frameVars == <<stage, saved, asked, rule, owed, last, using>>

nothing == [s \in {} |-> 0]
no_rule == <<0, 0>>

FrameInit ==
  /\ stage = "away" /\ asked = nothing /\ rule = no_rule /\ owed = 0
  /\ last = None /\ using = None

Come ==
  /\ stage = "away" /\ stage' = "asking"
  /\ owed' \in Nat \cup {-1}
  /\ asked' = nothing
  /\ UNCHANGED <<saved, rule, last, using>>

\* The settings asked for, so far.
Say ==
  /\ stage = "asking"
  /\ UNCHANGED <<stage, saved, rule, owed, last, using>>

KeepAsAsked ==
  \A s \in Setting : saved'[s] = IF s \in DOMAIN asked THEN asked[s] ELSE saved[s]

\* A program that wants one frame is told here how long that is.
Open ==
  /\ stage = "asking" /\ stage' = "open"
  /\ UNCHANGED saved \/ KeepAsAsked
  /\ asked' = nothing
  /\ rule' \in Nat \X Nat
  /\ owed' = owed \/ (owed = 0 /\ owed' \in Nat)
  /\ UNCHANGED <<last, using>>

Accept ==
  /\ stage = "open" /\ using = None /\ owed # 0
  /\ using' \in Frame /\ last' = using'
  /\ last # None => Differ(last, using', rule)
  /\ UNCHANGED <<stage, saved, asked, rule, owed>>

\* The frame is put out, hashed or left, and done with.
Use ==
  /\ stage = "open" /\ using # None /\ using' = None
  /\ IF owed = -1 THEN UNCHANGED owed ELSE owed' \in 0 .. owed
  /\ UNCHANGED <<stage, saved, asked, rule, last>>

Close ==
  /\ stage = "open" /\ stage' = "closed"
  /\ using = None /\ owed \in {0, -1}
  /\ rule' = no_rule /\ last' = None
  /\ UNCHANGED <<saved, asked, owed, using>>

\* The program ends, be it for an error.  One that is opening the camera may have
\* had it keep what it was asked to by then.
Leave ==
  /\ stage # "away" /\ stage' = "away"
  /\ UNCHANGED saved \/ (stage = "asking" /\ KeepAsAsked)
  /\ asked' = nothing /\ rule' = no_rule /\ owed' = 0 /\ last' = None /\ using' = None

FrameNext == Come \/ Say \/ Open \/ Accept \/ Use \/ Close \/ Leave

FrameSpec == FrameInit /\ [][FrameNext]_frameVars
=============================================================================
