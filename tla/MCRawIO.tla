------------------------------- MODULE MCRawIO -------------------------------
(* Instances of the I/O loops and alarms for TLC: see the .cfg files.       *)
EXTENDS RawIOProperties
=============================================================================
