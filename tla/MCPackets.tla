----------------------------- MODULE MCPackets -----------------------------
(***************************************************************************)
(* Small instances of PacketLife.  A signature of SigSize bytes stands for *)
(* one of 256: both take two bytes of header, and both are longer than the *)
(* 16 bytes a signature is padded to.                                      *)
(***************************************************************************)
EXTENDS PacketLife

A == <<65>>

MCSigSize == 32
MCComps == {A, <<47>>, <<37>>, <<37, 254>>, <<>>}
MCCompUris == {<<66>>, <<37, 50, 98>>, <<37, 52>>, <<94>>}      \* B, %2b, %4, ^
MCNumbers == {0, 47, 300}
MCPacketNames == {<<A>>, <<<<200>>, [i \in 1..16 |-> 0]>>}
MCSuffixCounts == {ncomps, 12}
MCSelectors == {<<AOK_DEFAULT, CHILD_DEFAULT>>, <<4, 0>>}
MCScopes == {NO_SCOPE, 2}
MCLifetimes == {Unset, [s |-> 4, us |-> 500000], [s |-> 0, us |-> 50000],
                [s |-> 3000, us |-> 999900], [s |-> 79999, us |-> 999900]}
MCExcludeFields == {<<>>, <<[comp |-> <<>>, any |-> TRUE], [comp |-> A, any |-> FALSE]>>}
MCUniverse == 0..5
MCParsedInterests == {[max |-> 32767, min |-> 0, orderpref |-> 1, answerfrom |-> 3, scope |-> 2],
                      [max |-> 5, min |-> 0, orderpref |-> 4, answerfrom |-> 5, scope |-> 1]}
MCContents == {<<1, 2, 3>>}
MCTypes == {"DATA", "KEY"}
MCFinalBlocks == {<<200>>}
MCTimes == {[s |-> 100000, us |-> 250000]}
MCNow == [s |-> 100000, us |-> 250000]
MCSigLens == {32, 24}
MCCertSigLens == {32}
MCCertNames == {<<A, <<253, 1>>>>}
MCKeyNames == {<<A, <<107>>>>}
MCVersions == {1}
MCSubjects == {[oid |-> <<1, 39, 16384>>, value |-> [i \in 1..60 |-> 65]]}
MCExtensions == IntroExtension(<<A>>, 1, 100) \cup IntroExtension(<<A>>, 1, 101)
MCKeyBlobs == KeyBlob(<<1, 2, 840, 113549, 1, 1, 1>>, <<3, 1, 4>>)
MCValidityEnds == {[s |-> 2000000000, us |-> 5]}
=============================================================================
