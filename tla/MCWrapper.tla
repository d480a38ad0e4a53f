----------------------------- MODULE MCWrapper -----------------------------
(* Two prefixes, two callbacks, one interest, two deaths of the daemon.      *)
EXTENDS Wrapper
=============================================================================
