---------------------------- MODULE MCNetMalloc -----------------------------
(* Small instances of NetMalloc for TLC. *)
EXTENDS NetMalloc

NoForeign == {}
=============================================================================
