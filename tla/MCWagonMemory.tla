---------------------------- MODULE MCWagonMemory ----------------------------
(***************************************************************************)
(* WagonMemory with bytes of one bit, pages of four bytes, addresses of    *)
(* five bits and operands of four bytes.                                   *)
(***************************************************************************)
EXTENDS WagonMemory

MCOperands == {<<1, 0, 0, 0>>, <<1, 1, 0, 1>>}
MCContents == {<<>>, <<1>>, <<1, 0, 1>>}
MCGrowths == {-1, 0, 1, 4, 6, 8}
MCHeapStarts == {2, NoHeap}
=============================================================================
