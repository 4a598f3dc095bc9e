---------------------------- MODULE StackProofs ----------------------------
(***************************************************************************)
(* Proofs about Stack for every element type, every initial capacity and   *)
(* every length of run.                                                    *)
(***************************************************************************)
EXTENDS Stack, SequenceTheorems, TLAPS

(* The three state invariants together are inductive: the types give the
   domain of the block, the sizes that an index is in it, and the written
   cells what a pop may return.                                            *)
IInv == TypeOK /\ SizeFitsBlock /\ LiveCellsWritten

(* What stack_resize leaves of a live stack: the elements it held, in a
   block of the new capacity, provided they fit.                           *)
LEMMA ResizeKeepsElements ==
  ASSUME IInv, phase = "live",
         NEW n \in 0..size, NEW c \in Nat, n <= c
  PROVE  LET r == resize(data, n, c) IN
           /\ r.size = n
           /\ r.capacity \in Nat
           /\ r.capacity >= c /\ r.capacity >= 4
           /\ r.data \in [0..r.capacity - 1 -> Elem \union {Undef}]
           /\ \A i \in 0..n - 1 : r.data[i] = data[i]
  BY DEF IInv, TypeOK, SizeFitsBlock, LiveCellsWritten, resize, MinCapacity

(* The inductive invariant holds initially. *)
LEMMA InitOK == Init => IInv
  BY ElemAssumption
  DEF Init, IInv, TypeOK, SizeFitsBlock, LiveCellsWritten, Ret, NoBlock

(* One step of the list keeps the invariant.                               *)
LEMMA StepOK == IInv /\ [Next]_vars => IInv'
<1> SUFFICES ASSUME IInv, [Next]_vars PROVE IInv'
  OBVIOUS
<1> USE ElemAssumption, CapacityAssumption DEF IInv, TypeOK, SizeFitsBlock, LiveCellsWritten, Ret
<1>1. ASSUME NEW c \in InitCapacities, stack_init(c) PROVE IInv'
  BY <1>1 DEF stack_init, MinCapacity, NoBlock
<1>2. ASSUME NEW v \in Elem, stack_push(v) PROVE IInv'
  <2>1. CASE PushInPlace(v)
    BY <1>2, <2>1 DEF stack_push, PushInPlace
  <2>2. CASE PushGrow(v)
    <3> DEFINE r == resize(data, size, capacity * 2)
    <3>1. /\ size \in 0..size /\ capacity * 2 \in Nat /\ size <= capacity * 2
          /\ phase = "live"
      BY <1>2 DEF stack_push
    <3>2. /\ r.size = size
          /\ r.capacity \in Nat
          /\ r.capacity >= capacity * 2
          /\ r.data \in [0..r.capacity - 1 -> Elem \union {Undef}]
          /\ \A i \in 0..size - 1 : r.data[i] = data[i]
      BY <3>1, ResizeKeepsElements
    <3>3. /\ data' = [r.data EXCEPT ![r.size] = v]
          /\ size' = r.size + 1
          /\ capacity' = r.capacity
          /\ ret' = Ret("push", "OK", Zero)
          /\ phase' = phase
      BY <1>2, <2>2 DEF PushGrow, stack_push
    <3> HIDE DEF r
    <3> QED BY <3>1, <3>2, <3>3
  <2>3. CASE PushNoMemory
    BY <1>2, <2>3 DEF stack_push, PushNoMemory
  <2> QED BY <1>2, <2>1, <2>2, <2>3 DEF stack_push
<1>3. ASSUME stack_pop PROVE IInv'
  <2>1. CASE PopKeep
    BY <1>3, <2>1 DEF stack_pop, PopKeep
  <2>2. CASE PopShrink
    <3> DEFINE r == resize(data, size - 1, capacity \div 2)
    <3>1. /\ size - 1 \in 0..size /\ capacity \div 2 \in Nat
          /\ size - 1 <= capacity \div 2 /\ phase = "live"
      BY <1>3, <2>2 DEF stack_pop, PopShrink, Sparse
    <3>2. /\ r.size = size - 1
          /\ r.capacity \in Nat
          /\ r.capacity >= capacity \div 2 /\ r.capacity >= 4
          /\ r.data \in [0..r.capacity - 1 -> Elem \union {Undef}]
          /\ \A i \in 0..size - 2 : r.data[i] = data[i]
      BY <3>1, ResizeKeepsElements
    <3>3. /\ data' = r.data
          /\ size' = r.size
          /\ capacity' = r.capacity
          /\ ret' = Ret("pop", "OK", data[size - 1])
          /\ phase' = phase
      BY <1>3, <2>2 DEF PopShrink, stack_pop
    <3> HIDE DEF r
    <3>4. data[size - 1] \in Elem /\ size' <= capacity' /\ capacity' > 0
      BY <1>3, <3>1, <3>2, <3>3 DEF stack_pop
    <3> QED BY <3>1, <3>2, <3>3, <3>4
  <2> QED BY <1>3, <2>1, <2>2 DEF stack_pop
<1>4. ASSUME stack_pop_empty PROVE IInv'
  BY <1>4 DEF stack_pop_empty
<1>5. ASSUME stack_destroy PROVE IInv'
  BY <1>5 DEF stack_destroy
<1>6. CASE UNCHANGED vars
  BY <1>6 DEF vars
<1> QED BY <1>1, <1>2, <1>3, <1>4, <1>5, <1>6 DEF Next

(* The inductive invariant holds in every reachable state of the stack. *)
THEOREM Invariance == Spec => []IInv
  BY InitOK, StepOK, PTL DEF Spec

(* The types hold; above all, a live block has exactly capacity cells,
   whichever reallocation failed (stack.cpp:79-92).                        *)
THEOREM TypesHold == Spec => []TypeOK
  BY Invariance, PTL DEF IInv

(* Whatever the calls and whichever allocations fail, stack_push and
   stack_pop index inside the block they own (stack.cpp:55, 69).           *)
THEOREM SizeAlwaysFits == Spec => []SizeFitsBlock
  BY Invariance, PTL DEF IInv

(* No pop returns what malloc left in a cell (stack.cpp:69, 84).           *)
THEOREM NoIndeterminateRead == Spec => []LiveCellsWritten
  BY Invariance, PTL DEF IInv

(* stack_push never finds the block it has just resized still full, nor
   the next push the one stack_pop has just shrunk (stack.cpp:51, 73).     *)
THEOREM RoomAfterReallocation == Spec => ReallocationLeavesRoom
<1>1. IInv /\ [Next]_vars =>
        [phase = "live" /\ phase' = "live" /\ capacity' # capacity
           => size' < capacity']_vars
  <2> SUFFICES ASSUME IInv, Next, phase = "live", phase' = "live", capacity' # capacity
               PROVE  size' < capacity'
    BY DEF vars
  <2> USE DEF IInv, TypeOK, SizeFitsBlock
  <2>1. ASSUME NEW v \in Elem, stack_push(v) PROVE size' < capacity'
    BY <2>1 DEF stack_push, PushInPlace, PushGrow, PushNoMemory, resize, MinCapacity
  <2>2. ASSUME stack_pop PROVE size' < capacity'
    BY <2>2 DEF stack_pop, PopKeep, PopShrink, Sparse, resize, MinCapacity
  <2> QED BY <2>1, <2>2 DEF Next, stack_init, stack_pop_empty, stack_destroy
<1> QED BY <1>1, Invariance, PTL DEF Spec, ReallocationLeavesRoom

-----------------------------------------------------------------------------
(* A block seen through its first n cells is a sequence of values.         *)
LEMMA CellsAreSequence ==
  ASSUME NEW n \in Nat, NEW f, \A i \in 0..n - 1 : f[i] \in Elem
  PROVE  LET s == [i \in 1..n |-> f[i - 1]] IN s \in Seq(Elem) /\ Len(s) = n
<1> DEFINE s == [i \in 1..n |-> f[i - 1]]
<1>1. s \in [1..n -> Elem]
  OBVIOUS
<1>2. s \in Seq(Elem)
  BY <1>1, SeqDef
<1>3. DOMAIN s = 1..n
  OBVIOUS
<1> HIDE DEF s
<1>4. Len(s) = n
  BY <1>2, <1>3, LenProperties
<1> QED BY <1>2, <1>4 DEF s

(* Writing cell n and counting it is Append.                               *)
LEMMA WriteIsAppend ==
  ASSUME NEW n \in Nat, NEW f, NEW g, NEW v \in Elem,
         \A i \in 0..n - 1 : f[i] \in Elem /\ g[i] = f[i],
         g[n] = v
  PROVE  [i \in 1..n + 1 |-> g[i - 1]] = Append([i \in 1..n |-> f[i - 1]], v)
<1> DEFINE s == [i \in 1..n |-> f[i - 1]]
           t == [i \in 1..n + 1 |-> g[i - 1]]
<1>1. s \in Seq(Elem) /\ Len(s) = n
  BY CellsAreSequence
<1>2. \A i \in 0..n : g[i] \in Elem
  OBVIOUS
<1>3. t \in Seq(Elem) /\ Len(t) = n + 1
  BY <1>2, CellsAreSequence, n + 1 \in Nat, (n + 1) - 1 = n
<1>4. Append(s, v) \in Seq(Elem) /\ Len(Append(s, v)) = n + 1
  BY <1>1, AppendProperties
<1>5. \A i \in 1..n + 1 : t[i] = Append(s, v)[i]
  <2> TAKE i \in 1..n + 1
  <2>1. CASE i = n + 1
    BY <1>1, <2>1, AppendProperties
  <2>2. CASE i \in 1..n
    <3>1. Append(s, v)[i] = s[i]
      BY <1>1, <2>2, AppendProperties
    <3>2. s[i] = f[i - 1] /\ t[i] = g[i - 1] /\ i - 1 \in 0..n - 1
      BY <2>2
    <3> QED BY <3>1, <3>2
  <2> QED BY <2>1, <2>2
<1> HIDE DEF s, t
<1>6. t = Append(s, v)
  BY <1>3, <1>4, <1>5, SeqEqual
<1> QED BY <1>6 DEF s, t

(* One call on the array is one call on the list, or leaves it alone.      *)
LEMMA StepSimulation == IInv /\ IInv' /\ [Next]_vars => [Abstract!Next]_(Abstract!avars)
<1> SUFFICES ASSUME IInv, IInv', [Next]_vars
             PROVE  Abstract!Next \/ UNCHANGED Abstract!avars
  OBVIOUS
<1> USE DEF IInv, TypeOK, SizeFitsBlock, LiveCellsWritten, Ret, Abstract!Next, Abstract!avars
<1>1. ASSUME NEW c \in InitCapacities, stack_init(c) PROVE Abstract!Create
  BY <1>1 DEF stack_init, Abstract!Create, Items
<1>2. ASSUME NEW v \in Elem, stack_push(v) PROVE Abstract!Push(v)
  <2>1. CASE PushInPlace(v)
    <3>1. /\ \A i \in 0..size - 1 : data[i] \in Elem /\ data'[i] = data[i]
          /\ data'[size] = v /\ size' = size + 1
          /\ phase = "live" /\ phase' = "live"
      BY <1>2, <2>1 DEF stack_push, PushInPlace
    <3>2. /\ Items = [i \in 1..size |-> data[i - 1]]
          /\ Items' = [i \in 1..size + 1 |-> data'[i - 1]]
          /\ size \in Nat
      BY <3>1 DEF Items
    <3>3. Items' = Append(Items, v)
      <4> HIDE DEF IInv, TypeOK, SizeFitsBlock, LiveCellsWritten, Abstract!Next, Abstract!avars
      <4> QED BY <3>1, <3>2, WriteIsAppend
    <3> QED BY <1>2, <2>1, <3>1, <3>3 DEF stack_push, PushInPlace, Abstract!Push
  <2>2. CASE PushGrow(v)
    <3>1. /\ \A i \in 0..size - 1 : data[i] \in Elem /\ data'[i] = data[i]
          /\ data'[size] = v /\ size' = size + 1
          /\ phase = "live" /\ phase' = "live"
      BY <1>2, <2>2 DEF stack_push, PushGrow, resize, MinCapacity
    <3>2. /\ Items = [i \in 1..size |-> data[i - 1]]
          /\ Items' = [i \in 1..size + 1 |-> data'[i - 1]]
          /\ size \in Nat
      BY <3>1 DEF Items
    <3>3. Items' = Append(Items, v)
      <4> HIDE DEF IInv, TypeOK, SizeFitsBlock, LiveCellsWritten, Abstract!Next, Abstract!avars
      <4> QED BY <3>1, <3>2, WriteIsAppend
    <3> QED BY <1>2, <2>2, <3>1, <3>3 DEF stack_push, PushGrow, Abstract!Push
  <2>3. CASE PushNoMemory
    BY <1>2, <2>3 DEF stack_push, PushNoMemory, Abstract!Push, Items
  <2> QED BY <1>2, <2>1, <2>2, <2>3 DEF stack_push
<1>3. ASSUME stack_pop PROVE Abstract!Pop
  <2>1. /\ \A i \in 0..size - 1 : data[i] \in Elem
        /\ size \in Nat \ {0}
        /\ phase = "live" /\ phase' = "live"
        /\ ret' = [op |-> "pop", err |-> "OK", value |-> data[size - 1]]
    BY <1>3 DEF stack_pop
  <2>2. size' = size - 1 /\ \A i \in 0..size - 2 : data'[i] = data[i]
    <3>1. CASE PopKeep
      BY <3>1 DEF PopKeep
    <3>2. CASE PopShrink
      <4>1. /\ size - 1 \in 0..size /\ capacity \div 2 \in Nat
            /\ size - 1 <= capacity \div 2
        BY <2>1, <3>2 DEF PopShrink, Sparse
      <4> QED BY <2>1, <3>2, <4>1, ResizeKeepsElements DEF PopShrink
    <3> QED BY <1>3, <3>1, <3>2 DEF stack_pop
  <2>4. Items = [i \in 1..size |-> data[i - 1]] /\ Items' = [i \in 1..size - 1 |-> data'[i - 1]]
    BY <2>1, <2>2 DEF Items
  <2>5. /\ Len(Items) = size /\ Items[size] = data[size - 1]
        /\ Items' = SubSeq(Items, 1, Len(Items) - 1)
    <3> HIDE DEF IInv, TypeOK, SizeFitsBlock, LiveCellsWritten, Abstract!Next, Abstract!avars
    <3>1. Items \in Seq(Elem) /\ Len(Items) = size
      BY <2>1, <2>4, CellsAreSequence
    <3>2. \A i \in 0..size - 2 : data'[i] \in Elem
      BY <2>1, <2>2
    <3>3. Items' \in Seq(Elem) /\ Len(Items') = size - 1
      BY <2>1, <2>4, <3>2, size - 1 \in Nat, (size - 1) - 1 = size - 2, CellsAreSequence
    <3>4. \A i \in 1..size : Items[i] = data[i - 1]
      BY <2>4
    <3>5. \A i \in 1..size - 1 : Items'[i] = Items[i]
      BY <2>1, <2>2, <2>4
    <3>6. SubSeq(Items, 1, size - 1) \in Seq(Elem) /\ Len(SubSeq(Items, 1, size - 1)) = size - 1
      BY <2>1, <3>1, SubSeqProperties
    <3>7. \A i \in 1..size - 1 : SubSeq(Items, 1, size - 1)[i] = Items[i]
      BY <2>1, <3>1, SubSeqProperties
    <3>8. Items' = SubSeq(Items, 1, size - 1)
      BY <3>3, <3>5, <3>6, <3>7, SeqEqual
    <3> QED BY <2>1, <3>1, <3>4, <3>8
  <2>3. Items # << >>
    BY <2>1, <2>5
  <2> QED BY <2>1, <2>5, <2>3 DEF Abstract!Pop
<1>4. ASSUME stack_pop_empty PROVE Abstract!PopEmpty
  BY <1>4 DEF stack_pop_empty, Abstract!PopEmpty, Items
<1>5. ASSUME stack_destroy PROVE Abstract!Destroy
  BY <1>5 DEF stack_destroy, Abstract!Destroy, Items
<1>6. CASE UNCHANGED vars
  BY <1>6 DEF vars, Items
<1> QED BY <1>1, <1>2, <1>3, <1>4, <1>5, <1>6 DEF Next

(* The array implements the list: through every growth, shrink and refused
   allocation, stack_pop returns what was pushed last and not yet popped.  *)
THEOREM StackIsLifo == Spec => AbstractSpec
<1>1. Init => Abstract!Init
  BY DEF Init, Ret, Items, Abstract!Init
<1> QED BY <1>1, Invariance, StepSimulation, PTL DEF Spec, AbstractSpec, Abstract!Spec
=============================================================================
