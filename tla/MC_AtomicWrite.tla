--------------------------- MODULE MC_AtomicWrite ---------------------------
(* Three writers share two plans, for TLC. *)
EXTENDS AtomicWrite
=============================================================================
