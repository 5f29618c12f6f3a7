------------------------------- MODULE Chaos -------------------------------
(***************************************************************************)
(* The chaos channel of the lavapool daemon: the camera driver or the      *)
(* co-process its octets come from (daemon/chaos.c), and the dump of a     *)
(* driver's frames into a file.                                            *)
(***************************************************************************)
EXTENDS Channel

CONSTANTS
  Drivers,     \* the kinds of chaos source: TRUE a driver, FALSE a co-process
  FrameDump,   \* whether the chaos line has "savefile interval"
  EFlag,       \* whether it has -E
  ChaosFails   \* whether the chaos source may fail once opened

ASSUME ChaosAssumption ==
  /\ Drivers \subseteq BOOLEAN
  /\ {FrameDump, EFlag, ChaosFails} \subseteq BOOLEAN

VARIABLES
  driver,            \* the chaos source is a driver
  fast_select,       \* chaos.fast_select
  newfile, savefile  \* the frame files: "none", "part" or "frame"

frameVars == <<fast_select, newfile, savefile>>
chaosVars == <<driver, frameVars>>

chaos_read_mask       == {"READ"}
chaos_exception_mask  == {"READ"}
chaos_preselect_ready == {"READ"}

chaos_select_mask(i) ==
  {c \in Cycle : \/ c = "read"      /\ ch[i].nxt \in chaos_read_mask
                 \/ c = "exception" /\ ch[i].nxt \in chaos_exception_mask}

\* close_chaos(): a closed driver is one no longer and forgets its flags, so
\* that nothing is dumped any more.
close_chaos(i) == close_chan(i) /\ driver' = FALSE

willing_to_frame_dump == driver /\ FrameDump

\* When next_file stands at nf against the clock.
ready_to_frame_dump(i, nf) ==
  /\ willing_to_frame_dump
  /\ nf = "due"
  /\ ch[i].cur \in chaos_read_mask \/ ch[i].nxt \in chaos_read_mask

\* chaos_pre_select_op(): need_cycle_before() the next frame dump.
PreChaos(i) ==
  /\ PreSelect(i)
  /\ ch[i].type = "CHAOS" /\ ch[i].nxt = "READ"
  /\ timeout' = IF willing_to_frame_dump THEN "finite" ELSE timeout
  /\ UNCHANGED <<tableVars, next_file, chaosVars, poolVars>>

ExceptChaos(i) ==
  /\ Dispatch(i, "CHAOS", "exception")
  /\ ch[i].nxt \in chaos_exception_mask
  /\ close_chaos(i)
  /\ UNCHANGED <<next_file, frameVars, poolVars>>

-----------------------------------------------------------------------------
(* read_chaos().                                                           *)

\* mutant: a frame that rename() could not move is not withheld
frame_dump_renamed(skip) ==
  \/ /\ EFlag /\ savefile # "none"
     /\ skip = FALSE /\ UNCHANGED <<newfile, savefile>>
  \/ /\ ~(EFlag /\ savefile # "none")
     /\ \/ skip = FALSE /\ newfile' \in {newfile, "none"} /\ UNCHANGED savefile
        \/ skip = TRUE /\ newfile' \in {"part", "none"} /\ UNCHANGED savefile
        \/ skip = TRUE /\ newfile' = "none" /\ savefile' = "frame"
        \/ skip = FALSE /\ newfile' = "frame" /\ UNCHANGED savefile

\* frame_dump(): skip tells whether the frame is withheld from the pool.
frame_dump(skip) ==
  \/ /\ EFlag /\ savefile # "none"              \* -E and the last one is still there
     /\ skip = FALSE /\ UNCHANGED <<newfile, savefile>>
  \/ /\ ~(EFlag /\ savefile # "none")
     /\ \/ /\ skip = FALSE                      \* cannot open newfile
           /\ newfile' \in {newfile, "none"} /\ UNCHANGED savefile
        \/ /\ skip = TRUE                       \* bad or short write, then unlink()
           /\ newfile' \in {"part", "none"} /\ UNCHANGED savefile
        \/ /\ skip = TRUE                       \* written, rename() works or fails
           /\ \/ newfile' = "none" /\ savefile' = "frame"
              \/ newfile' = "frame" /\ UNCHANGED savefile

frame_dump_if_ready(i, skip) ==
  IF ready_to_frame_dump(i, next_file)
    THEN /\ frame_dump(skip)
         /\ fast_select' = (skip \/ fast_select)
         /\ next_file' = "later"
    ELSE skip = FALSE /\ UNCHANGED <<next_file, frameVars>>

\* How read_chaos() leaves the channel: in READ, or closed by a failure.
ChaosRead(i) ==
  /\ ch' = [ch EXCEPT ![i] = [@ EXCEPT !.cur = "READ", !.nxt = "READ"]]
  /\ UNCHANGED <<chanindx, driver>>

ChaosLost(i) == ChaosFails /\ close_chaos(i)

\* A driver frame may fail to come, or be insane and ignored.  A sane one is
\* dumped when a dump is due, and else goes through lavarnd() into the pool.
\* Then lavacam_msync() asks for the next one.
read_driver(i) ==
  \/ /\ ChaosLost(i) \/ ChaosRead(i)
     /\ UNCHANGED <<next_file, frameVars, poolVars>>
  \/ /\ frame_dump_if_ready(i, TRUE)
     /\ ChaosRead(i) \/ ChaosLost(i)
     /\ UNCHANGED poolVars
  \/ /\ frame_dump_if_ready(i, FALSE)
     /\ \/ fill_pool_from_chaos /\ (ChaosRead(i) \/ ChaosLost(i))
        \/ ChaosLost(i) /\ UNCHANGED poolVars   \* lavarnd() fails

\* A co-process: what nilblock_read() finds in the pipe goes into the pool.
read_process(i) ==
  /\ \/ fill_pool_from_fd /\ ChaosRead(i)
     \/ ChaosLost(i) /\ UNCHANGED poolVars
  /\ UNCHANGED <<next_file, frameVars>>

read_chaos(i) ==
  /\ Dispatch(i, "CHAOS", "read")
  /\ ch[i].nxt = "READ"
  /\ \/ driver /\ read_driver(i)
     \/ ~driver /\ read_process(i)

ChaosOp(i) == PreChaos(i) \/ ExceptChaos(i) \/ read_chaos(i)

-----------------------------------------------------------------------------
\* The reader of the frame file takes it away (external).
ReaderTakesFrame ==
  /\ phase = "top" /\ savefile # "none"
  /\ savefile' = "none"
  /\ UNCHANGED <<tableVars, loopVars, next_file, driver, fast_select, newfile, poolVars>>
=============================================================================
