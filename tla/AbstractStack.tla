--------------------------- MODULE AbstractStack ---------------------------
(***************************************************************************)
(* What the interface in headers/processor_h/stack.h promises to the SPU:  *)
(* a last-in first-out list.  A push may be refused for lack of memory, in *)
(* which case the list is as it was; a pop of an empty list yields 0 and   *)
(* an error.  Nothing is said of capacities: Stack refines this module.    *)
(***************************************************************************)
EXTENDS Naturals, Sequences

CONSTANTS
  Elem,        (* the values of type StackElem                              *)
  Zero         (* the value 0                                               *)

VARIABLES
  phase,       (* "raw" | "live" | "failed" | "destroyed"                   *)
  items,       (* the values on the stack, oldest first                     *)
  ret          (* what the last call returned                               *)

avars == <<phase, items, ret>>

Init ==
  /\ phase = "raw"
  /\ items = << >>
  /\ ret = [op |-> "none", err |-> "OK", value |-> Zero]

Create ==
  /\ phase = "raw"
  /\ items' = << >>
  /\ \/ phase' = "live"   /\ ret' = [op |-> "init", err |-> "OK", value |-> Zero]
     \/ phase' = "failed" /\ ret' = [op |-> "init", err |-> "ALLOC", value |-> Zero]

Push(v) ==
  /\ phase = "live"
  /\ \/ /\ items' = Append(items, v)
        /\ ret' = [op |-> "push", err |-> "OK", value |-> Zero]
     \/ /\ items' = items
        /\ ret' = [op |-> "push", err |-> "ALLOC", value |-> Zero]
  /\ UNCHANGED phase

Pop ==
  /\ phase = "live"
  /\ items # << >>
  /\ items' = SubSeq(items, 1, Len(items) - 1)
  /\ ret' = [op |-> "pop", err |-> "OK", value |-> items[Len(items)]]
  /\ UNCHANGED phase

PopEmpty ==
  /\ phase = "live"
  /\ items = << >>
  /\ ret' = [op |-> "pop", err |-> "UNDERFLOW", value |-> Zero]
  /\ UNCHANGED <<phase, items>>

Destroy ==
  /\ phase = "live"
  /\ phase' = "destroyed"
  /\ items' = << >>
  /\ ret' = [op |-> "destroy", err |-> "OK", value |-> Zero]

Next == Create \/ (\E v \in Elem : Push(v)) \/ Pop \/ PopEmpty \/ Destroy

Spec == Init /\ [][Next]_avars
=============================================================================
