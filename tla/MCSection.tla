------------------------------ MODULE MCSection ------------------------------
(***************************************************************************)
(* Section with at most two calls of emitters.  The registers are rax, rsp *)
(* and rbp, whose codes ModRM gives a meaning of their own, and one of the *)
(* upper half; the numbers lie on both sides of the border between one     *)
(* byte and four.  From capacity 1, and from the 0 a destroyed section has, *)
(* most writes are more than twice the capacity; 16 is doubled.            *)
(***************************************************************************)
EXTENDS Encoding

MCInitCapacities == {1, 16}
MCRegisters      == {0, 4, 5, 9}
MCXmms           == {0, 3, 8}
MCFrames         == {0, 127, 128, 300}
MCDisplacements  == {0, -8, 127, 128}
MCImmediates     == {-2, 70000}
MCShorts         == {-2, 5}
MCLongs          == {-5, 131072}
=============================================================================
