----------------------------- MODULE MCFetchLava -----------------------------
(* Instances of the library for TLC: see the .cfg files.                    *)
EXTENDS FetchLavaProperties

\* What lava_preload() is asked for: nothing, the least, more than the least.
MCPreloadLens == {-1, 0, 3}
=============================================================================
