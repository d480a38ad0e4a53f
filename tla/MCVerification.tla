--------------------------- MODULE MCVerification ---------------------------
(* A small PKI below one trust anchor R.  C names a genuine certificate and   *)
(* a forged one; E certifies below C; L certifies itself in a loop through M; *)
(* D is a prefix of E, and alias names D for a signature made with E's key;   *)
(* free is exempt from verification, wild satisfies no rule, banned satisfies *)
(* a must-fail rule.                                                          *)
EXTENDS Verification, TLC

CONSTANTS R, C, D, E, L, M, kr, kc, ke, kx,
          certC, fakeC, certE, certL, certM, good, deep, bad, alias, loop, free, wild, banned

Certs == {certC, fakeC, certE, certL, certM}
MCPackets == Certs \cup {good, deep, bad, alias, loop, free, wild, banned}
MCReceived == MCPackets \ Certs
MCNames == {R, C, D, E, L, M}
MCKeys == {kr, kc, ke, kx}
MCLocator == certC :> R @@ fakeC :> R @@ certE :> C @@ certL :> M @@ certM :> L
             @@ good :> C @@ deep :> E @@ bad :> C @@ loop :> L @@ free :> NoName @@ wild :> C
             @@ banned :> C @@ alias :> D
MCNameOf == certC :> C @@ fakeC :> C @@ certE :> E @@ certL :> L @@ certM :> M
            @@ [p \in MCPackets \ Certs |-> R]
MCSigner == certC :> kr @@ fakeC :> kx @@ certE :> kc @@ certL :> kx @@ certM :> kx
            @@ good :> kc @@ deep :> ke @@ bad :> kx @@ loop :> kx @@ free :> kx @@ wild :> kc
            @@ banned :> kc @@ alias :> ke
MCKeyOf == certC :> kc @@ fakeC :> kx @@ certE :> ke @@ certL :> kx @@ certM :> kx
           @@ [p \in MCPackets \ Certs |-> kx]
MCUnder == [n \in MCNames |-> IF n = D THEN {D, E} ELSE {n}]
MCAnchors == R :> kr
MCRequired == MCPackets \ {free}
MCSatisfies == MCPackets \ {free, wild}
MCAgeing == {certC}
=============================================================================
