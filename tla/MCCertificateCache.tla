------------------------- MODULE MCCertificateCache -------------------------
(* Three names in a cache of two, two concurrent writers; certificates that   *)
(* are fresh for 0 or 1 tick and a cleaning round every tick.                 *)
EXTENDS TTLCertificateCache, TLC

Symmetry == Permutations(Names) \cup Permutations(Writers)
=============================================================================
