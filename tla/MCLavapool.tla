----------------------------- MODULE MCLavapool -----------------------------
(* Instances of the lavapool daemon for TLC: see the .cfg files.            *)
EXTENDS LavapoolProperties
=============================================================================
