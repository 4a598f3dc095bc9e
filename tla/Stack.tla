------------------------------- MODULE Stack -------------------------------
(***************************************************************************)
(* The growing and shrinking array of source/processor/stack.cpp, on which *)
(* the SPU keeps its operands and its return addresses.                    *)
(*                                                                         *)
(* data is the heap block: a function on 0..capacity-1, or NoBlock for the *)
(* NULL pointer.  A cell realloc has just added holds Undef, the           *)
(* indeterminate value.  calloc and realloc may fail on any call.          *)
(***************************************************************************)
EXTENDS Integers, Sequences

CONSTANTS
  Elem,            (* the values of type StackElem                          *)
  Zero,            (* the value 0                                           *)
  Undef,           (* an indeterminate cell                                 *)
  InitCapacities,  (* the capacities stack_init is called with              *)
  MaxSize          (* BOUND: no push on a stack of MaxSize elements         *)

ASSUME ElemAssumption     == Zero \in Elem /\ Undef \notin Elem
ASSUME CapacityAssumption == InitCapacities \subseteq Nat

VARIABLES
  phase,           (* where the owner of the stack is: see AbstractStack    *)
  data,            (* stack->data                                           *)
  size,            (* stack->size                                           *)
  capacity,        (* stack->capacity                                       *)
  ret              (* what the last call returned, and through *value       *)

vars == <<phase, data, size, capacity, ret>>

MinCapacity == 4
NoBlock     == << >>

Ret(op, err, value) == [op |-> op, err |-> err, value |-> value]

-----------------------------------------------------------------------------
Init ==
  /\ phase = "raw"
  /\ data = NoBlock
  /\ size = 0
  /\ capacity = 0
  /\ ret = Ret("none", "OK", Zero)

stack_init(c) ==
  /\ phase = "raw"
  /\ size' = 0
  /\ capacity' = IF c < 1 THEN MinCapacity ELSE c
  /\ \/ /\ data' = [i \in 0..capacity' - 1 |-> Zero]
        /\ phase' = "live"
        /\ ret' = Ret("init", "OK", Zero)
     \/ /\ data' = NoBlock
        /\ phase' = "failed"
        /\ ret' = Ret("init", "ALLOC", Zero)

(* Seeded fault: malloc in the place of realloc.                           *)
FaultResizeNoCopy(block, n, newCapacity) ==
  LET c == IF newCapacity < MinCapacity THEN MinCapacity ELSE newCapacity
  IN  [data |-> [i \in 0..c - 1 |-> Undef], size |-> n, capacity |-> c]

(* The block, size and capacity stack_resize leaves when realloc succeeds
   and the array holds n elements.                                         *)
resize(block, n, newCapacity) ==
  LET c == IF newCapacity < MinCapacity THEN MinCapacity ELSE newCapacity
  IN  [data     |-> [i \in 0..c - 1 |-> IF i \in 0..capacity - 1 THEN block[i] ELSE Undef],
       size     |-> IF n > c THEN c ELSE n,
       capacity |-> c]

(* Seeded faults: the full test off by one; size counted before the write. *)
FaultPushWhenFull(v) ==
  /\ size <= capacity
  /\ data' = [data EXCEPT ![size] = v]
  /\ size' = size + 1
  /\ ret' = Ret("push", "OK", Zero)
  /\ UNCHANGED capacity

FaultPushPreIncrement(v) ==
  /\ size < capacity
  /\ data' = [data EXCEPT ![size + 1] = v]
  /\ size' = size + 1
  /\ ret' = Ret("push", "OK", Zero)
  /\ UNCHANGED capacity

PushInPlace(v) ==
  /\ size < capacity
  /\ data' = [data EXCEPT ![size] = v]
  /\ size' = size + 1
  /\ ret' = Ret("push", "OK", Zero)
  /\ UNCHANGED capacity

(* Seeded fault: the new capacity is not recorded.                         *)
FaultGrowKeepsCapacity(v) ==
  /\ size >= capacity
  /\ data' = [resize(data, size, capacity * 2).data EXCEPT ![size] = v]
  /\ size' = size + 1
  /\ capacity' = capacity
  /\ ret' = Ret("push", "OK", Zero)

PushGrow(v) ==
  /\ size >= capacity
  /\ LET r == resize(data, size, capacity * 2) IN
       /\ data' = [r.data EXCEPT ![r.size] = v]
       /\ size' = r.size + 1
       /\ capacity' = r.capacity
  /\ ret' = Ret("push", "OK", Zero)

PushNoMemory ==
  /\ size >= capacity
  /\ ret' = Ret("push", "ALLOC", Zero)
  /\ UNCHANGED <<data, size, capacity>>

stack_push(v) ==
  /\ phase = "live"
  /\ size < MaxSize
  /\ PushInPlace(v) \/ PushGrow(v) \/ PushNoMemory
  /\ UNCHANGED phase

(* Seeded fault: shrinks at half full.                                     *)
FaultSparseAtHalf(n) == n > 0 /\ n <= capacity \div 2

Sparse(n) == n > 0 /\ n < capacity \div 4

(* A failing shrink is ignored: the block stays as it is.                  *)
PopKeep ==
  /\ size' = size - 1
  /\ UNCHANGED <<data, capacity>>

PopShrink ==
  /\ Sparse(size - 1)
  /\ LET r == resize(data, size - 1, capacity \div 2) IN
       /\ data' = r.data
       /\ size' = r.size
       /\ capacity' = r.capacity

stack_pop ==
  /\ phase = "live"
  /\ size > 0
  /\ PopKeep \/ PopShrink
  /\ ret' = Ret("pop", "OK", data[size - 1])
  /\ UNCHANGED phase

stack_pop_empty ==
  /\ phase = "live"
  /\ size = 0
  /\ ret' = Ret("pop", "UNDERFLOW", Zero)
  /\ UNCHANGED <<phase, data, size, capacity>>

stack_destroy ==
  /\ phase = "live"
  /\ phase' = "destroyed"
  /\ data' = NoBlock
  /\ size' = 0
  /\ capacity' = 0
  /\ ret' = Ret("destroy", "OK", Zero)

Next ==
  \/ \E c \in InitCapacities : stack_init(c)
  \/ \E v \in Elem : stack_push(v)
  \/ stack_pop
  \/ stack_pop_empty
  \/ stack_destroy

Spec == Init /\ [][Next]_vars

-----------------------------------------------------------------------------
(* The types of the variables: a live block has exactly capacity cells.    *)
TypeOK ==
  /\ phase \in {"raw", "live", "failed", "destroyed"}
  /\ size \in Nat
  /\ capacity \in Nat
  /\ ret \in [op : {"none", "init", "push", "pop", "destroy"},
             err : {"OK", "ALLOC", "UNDERFLOW"}, value : Elem]
  /\ phase = "live" => data \in [0..capacity - 1 -> Elem \union {Undef}]

(* The write index of stack_push and the read index of stack_pop stay
   inside the block: size never passes capacity, whichever of the
   reallocations failed (stack.cpp:55 and 69 do not check).                *)
SizeFitsBlock == phase = "live" => size <= capacity /\ capacity > 0

(* Every element below size was written by a push: realloc's fresh cells
   are never read, so a pop never returns an indeterminate value.          *)
LiveCellsWritten == phase = "live" => \A i \in 0..size - 1 : data[i] \in Elem

(* A reallocation, growing or shrinking, leaves room for the next push, so
   that a push and a pop in turn do not reallocate every time.             *)
ReallocationLeavesRoom ==
  [][phase = "live" /\ phase' = "live" /\ capacity' # capacity
       => size' < capacity']_vars

(* Seen through its elements, the array is a last-in first-out list: no
   growth, shrink or failed allocation loses, reorders or invents one.     *)
Items == IF phase = "live" THEN [i \in 1..size |-> data[i - 1]] ELSE << >>

Abstract == INSTANCE AbstractStack WITH items <- Items
AbstractSpec == Abstract!Spec
=============================================================================
