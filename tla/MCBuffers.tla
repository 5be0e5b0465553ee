---------------------------- MODULE MCBuffers ----------------------------
EXTENDS Buffers, TLC
CONSTANTS one, two, x, y
MCBuffers == {one, two}
MCReaders == {one}
MCChars == {x, y}
(* Nothing, and a part of a block. *)
MCStrings == {<<>>, <<x>>}
(* A block of three bytes but one, and a whole one. *)
MCReads == {<<x, y>>, <<y, x, y>>}
=============================================================================
