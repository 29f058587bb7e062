------------------------------- MODULE MCPipe -------------------------------
(* A pipe of two bytes whose counters wrap at four, one write that fits in *)
(* it and one that does not.                                               *)
EXTENDS Pipe

CONSTANTS w1, w2, r1, r2

MCWrites == {<<0>>, <<0, 1, 1>>}
=============================================================================
