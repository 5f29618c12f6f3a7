--------------------------- MODULE MCChannelTable ---------------------------
(* An instance of the channel table and of the walk over its descriptors   *)
(* for TLC: see channel_table.cfg.  The searches and the walk have no      *)
(* variable in common, so that a behaviour of one while the other is at    *)
(* rest shows all that it can do.                                          *)
EXTENDS ChannelTable, ChannelWalk

TableAtRest == chanlen = 0 /\ UNCHANGED vars
WalkAtRest  == owned = {} /\ last_desc = 0 /\ ~pass.running /\ UNCHANGED walkVars

MCInit == Init /\ WalkInit
MCNext == (Next /\ WalkAtRest) \/ (WalkNext /\ TableAtRest)
MCSpec == MCInit /\ [][MCNext]_<<vars, walkVars>>
=============================================================================
