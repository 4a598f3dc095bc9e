------------------------------ MODULE MCStack ------------------------------
(***************************************************************************)
(* Stack with two values.  The initial capacities include 0 and 1, which   *)
(* stack_init and stack_resize round up, 3, which is not a power of two,   *)
(* the SPU's own 8, and 16, from which a pop shrinks twice.                *)
(***************************************************************************)
EXTENDS Stack

MCInitCapacities == {0, 1, 3, 8, 16}
=============================================================================
