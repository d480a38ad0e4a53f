----------------------------- MODULE ByteStream -----------------------------
(***************************************************************************)
(* InputIterator (common.h): a std::istream read byte by byte.  A stream   *)
(* is its bytes, the next position and the eof flag, which the first read  *)
(* or peek past the end raises, not the read of the last byte; a read past *)
(* the end returns 255, the low byte of EOF.                               *)
(***************************************************************************)
EXTENDS Integers, Sequences

Stream(bytes) == [b |-> bytes, at |-> 1, eof |-> FALSE]
AtEnd(in) == in.eof \/ in.at > Len(in.b)
PeekU8(in) == IF AtEnd(in) THEN 255 ELSE in.b[in.at]
AfterPeek(in) == [in EXCEPT !.eof = AtEnd(in)]
ReadU8(in) == IF AtEnd(in) THEN AfterPeek(in) ELSE [in EXCEPT !.at = @ + 1]
=============================================================================
