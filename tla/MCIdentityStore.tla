-------------------------- MODULE MCIdentityStore --------------------------
(* Two processes share the storage of two identities; identities and         *)
(* processes are interchangeable.  A certificate of version 1 expires in the *)
(* last second, one of version 2 is not valid before it.                     *)
EXTENDS Keychain, TLC

MCNotBefore == (1 :> 0) @@ (2 :> 1)
MCNotAfter  == (1 :> 2) @@ (2 :> 3)

Symmetry == Permutations(Identities) \cup Permutations(Procs)
=============================================================================
