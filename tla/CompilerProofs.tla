--------------------------- MODULE CompilerProofs ---------------------------
(***************************************************************************)
(* What is proved for all inputs of the data structures the compiler's     *)
(* stages share: the table of variables of the native backend, the trees   *)
(* that are handed over in files, the scopes and slots of the semantic     *)
(* analysis, and the cells of the strings in the translation for the SPU.  *)
(***************************************************************************)
EXTENDS NativeVariables, Codegen, Induction, SequenceTheorems

(* The variables of f that Before counts are among the cells of the list;  *)
(* every one that lies between two indices is counted at the second only.  *)
LEMMA BeforeType ==
  ASSUME NEW list \in Seq(Entries), NEW f, NEW i \in Nat, NEW p
  PROVE  Before(list, f, i, p) \in Nat
<1> DEFINE Seen == {k \in 1..Len(list) : k <= i /\ list[k].func = f /\ list[k].param = p}
<1>1. IsFiniteSet(Seen)
  <2>1. IsFiniteSet(1..Len(list))
    BY FS_Interval
  <2>2. Seen \in SUBSET (1..Len(list))
    OBVIOUS
  <2> HIDE DEF Seen
  <2> QED BY <2>1, <2>2, FS_Subset
<1> QED BY <1>1, FS_CardinalityType DEF Before

(* Counting to a later index counts what lies at the earlier one, too.     *)
LEMMA BeforeGrows ==
  ASSUME NEW list \in Seq(Entries), NEW i \in Nat, NEW j \in Nat, i < j, i < Len(list),
         NEW f, list[i + 1].func = f, NEW p, list[i + 1].param = p
  PROVE  Before(list, f, i, p) + 1 <= Before(list, f, j, p)
<1> DEFINE Seen(n) == {k \in 1..Len(list) : k <= n /\ list[k].func = f /\ list[k].param = p}
<1>1. IsFiniteSet(Seen(j))
  <2>1. IsFiniteSet(1..Len(list))
    BY FS_Interval
  <2>2. Seen(j) \in SUBSET (1..Len(list))
    OBVIOUS
  <2> HIDE DEF Seen
  <2> QED BY <2>1, <2>2, FS_Subset
<1>2. Seen(i) \in SUBSET Seen(j) /\ i + 1 \in Seen(j) /\ i + 1 \notin Seen(i)
  OBVIOUS
<1>3. Before(list, f, i, p) = Cardinality(Seen(i)) /\ Before(list, f, j, p) = Cardinality(Seen(j))
  BY DEF Before
<1>4. Before(list, f, i, p) \in Nat /\ Before(list, f, j, p) \in Nat
  BY BeforeType
<1>5. Cardinality(Seen(i)) <= Cardinality(Seen(j)) /\ Cardinality(Seen(i)) # Cardinality(Seen(j))
  <2> HIDE DEF Seen
  <2> QED BY <1>1, <1>2, FS_Subset
<1> HIDE DEF Seen
<1> QED BY <1>3, <1>4, <1>5

ParamsBefore(list, f, i) == Before(list, f, i, TRUE)
LocalsBefore(list, f, i) == Before(list, f, i, FALSE)

(* Where a slot lies: of a parameter by its place among the parameters, of *)
(* another variable behind all of them.                                    *)
LEMMA OffsetOfParameter ==
  ASSUME NEW list \in Seq(Entries), NEW i \in Nat, i < Len(list), NEW f,
         list[i + 1].func = f, list[i + 1].param = TRUE
  PROVE  /\ Offset(list, i) = -8 * (ParamsBefore(list, f, i) + 1)
         /\ ParamsBefore(list, f, i) \in Nat /\ Params(list, f) \in Nat
         /\ ParamsBefore(list, f, i) + 1 <= Params(list, f)
<1>1. Offset(list, i) = -8 * (ParamsBefore(list, f, i) + 1 + 0)
  BY DEF Offset, ParamsBefore
<1>2. Len(list) \in Nat
  OBVIOUS
<1>3. ParamsBefore(list, f, i) \in Nat /\ Params(list, f) \in Nat
  BY <1>2, BeforeType DEF Params, ParamsBefore
<1>4. ParamsBefore(list, f, i) + 1 <= Params(list, f)
  BY <1>2, BeforeGrows, Zenon DEF Params, ParamsBefore
<1> QED BY <1>1, <1>3, <1>4

(* The slot of a local variable, and the counts it is made of.             *)
LEMMA OffsetOfLocal ==
  ASSUME NEW list \in Seq(Entries), NEW i \in Nat, i < Len(list), NEW f,
         list[i + 1].func = f, list[i + 1].param = FALSE
  PROVE  /\ Offset(list, i) = -8 * (LocalsBefore(list, f, i) + 1 + Params(list, f))
         /\ LocalsBefore(list, f, i) \in Nat /\ Params(list, f) \in Nat /\ Locals(list, f) \in Nat
         /\ LocalsBefore(list, f, i) + 1 <= Locals(list, f)
<1>1. Offset(list, i) = -8 * (LocalsBefore(list, f, i) + 1 + Params(list, f))
  BY DEF Offset, LocalsBefore
<1>2. Len(list) \in Nat
  OBVIOUS
<1>3. LocalsBefore(list, f, i) \in Nat /\ Params(list, f) \in Nat /\ Locals(list, f) \in Nat
  BY <1>2, BeforeType DEF Params, Locals, LocalsBefore
<1>4. LocalsBefore(list, f, i) + 1 <= Locals(list, f)
  BY <1>2, BeforeGrows, Zenon DEF Locals, LocalsBefore
<1> QED BY <1>1, <1>3, <1>4

(* Every entry of the table is one or the other.                           *)
LEMMA ParameterOrLocal ==
  ASSUME NEW list \in Seq(Entries), NEW i \in 0..Len(list) - 1
  PROVE  /\ i \in Nat /\ i < Len(list)
         /\ list[i + 1].param = TRUE \/ list[i + 1].param = FALSE
<1>1. i \in Nat /\ i < Len(list) /\ Len(list) \in Nat
  OBVIOUS
<1>2. list[i + 1] \in Entries
  BY <1>1
<1> QED BY <1>1, <1>2 DEF Entries

(* assign_offset_for_function gives no slot to two variables of a function *)
(* (backend_variables.cpp:138-168), whatever the order in which parameters *)
(* and other variables stand in the table.                                 *)
THEOREM SlotsLieApart ==
  ASSUME NEW list, IsList(list)
  PROVE  SlotsApart(list)
<1>0. list \in Seq(Entries) /\ Len(list) \in Nat
  BY DEF IsList
<1>1. ASSUME NEW i \in 0..Len(list) - 1, NEW j \in 0..Len(list) - 1, i < j,
             list[i + 1].func = list[j + 1].func
      PROVE  Offset(list, i) # Offset(list, j)
  <2> DEFINE f == list[i + 1].func
  <2>1. /\ i \in Nat /\ j \in Nat /\ i < Len(list) /\ j < Len(list)
        /\ list[i + 1].param = TRUE \/ list[i + 1].param = FALSE
        /\ list[j + 1].param = TRUE \/ list[j + 1].param = FALSE
    BY <1>0, ParameterOrLocal
  <2>2. CASE list[i + 1].param = TRUE /\ list[j + 1].param = TRUE
    <3>1. ParamsBefore(list, f, i) + 1 <= ParamsBefore(list, f, j)
      BY <1>0, <1>1, <2>1, <2>2, BeforeGrows DEF ParamsBefore
    <3>2. Offset(list, i) = -8 * (ParamsBefore(list, f, i) + 1) /\ ParamsBefore(list, f, i) \in Nat
      BY <1>0, <2>1, <2>2, OffsetOfParameter
    <3>3. Offset(list, j) = -8 * (ParamsBefore(list, f, j) + 1) /\ ParamsBefore(list, f, j) \in Nat
      BY <1>0, <1>1, <2>1, <2>2, OffsetOfParameter
    <3> QED BY <3>1, <3>2, <3>3
  <2>3. CASE list[i + 1].param = FALSE /\ list[j + 1].param = FALSE
    <3>1. LocalsBefore(list, f, i) + 1 <= LocalsBefore(list, f, j)
      BY <1>0, <1>1, <2>1, <2>3, BeforeGrows DEF LocalsBefore
    <3>2. /\ Offset(list, i) = -8 * (LocalsBefore(list, f, i) + 1 + Params(list, f))
          /\ LocalsBefore(list, f, i) \in Nat /\ Params(list, f) \in Nat
      BY <1>0, <2>1, <2>3, OffsetOfLocal
    <3>3. /\ Offset(list, j) = -8 * (LocalsBefore(list, f, j) + 1 + Params(list, f))
          /\ LocalsBefore(list, f, j) \in Nat
      BY <1>0, <1>1, <2>1, <2>3, OffsetOfLocal
    <3> QED BY <3>1, <3>2, <3>3
  <2>4. ASSUME NEW k \in {i, j}, NEW l \in {i, j}, list[k + 1].func = f, list[l + 1].func = f,
               list[k + 1].param = TRUE, list[l + 1].param = FALSE
        PROVE  Offset(list, k) # Offset(list, l)
    <3>1. k \in Nat /\ l \in Nat /\ k < Len(list) /\ l < Len(list)
      BY <2>1
    <3>2. /\ Offset(list, k) = -8 * (ParamsBefore(list, f, k) + 1)
          /\ ParamsBefore(list, f, k) \in Nat /\ Params(list, f) \in Nat
          /\ ParamsBefore(list, f, k) + 1 <= Params(list, f)
      BY <1>0, <2>4, <3>1, OffsetOfParameter
    <3>3. /\ Offset(list, l) = -8 * (LocalsBefore(list, f, l) + 1 + Params(list, f))
          /\ LocalsBefore(list, f, l) \in Nat
      BY <1>0, <2>4, <3>1, OffsetOfLocal
    <3> QED BY <3>2, <3>3
  <2> QED
    <3>1. list[j + 1].func = f
      BY <1>1
    <3> QED BY <2>1, <2>2, <2>3, <2>4, <3>1
<1>2. \A i, j \in 0..Len(list) - 1 : i # j => i < j \/ j < i
  BY <1>0
<1> QED BY <1>1, <1>2 DEF SlotsApart
(* Every slot lies below rbp and above what the function has to keep free: *)
(* inside of the frame for main and for every function of at most four     *)
(* variables more than the first one has besides its parameters; the       *)
(* others write below their rsp (translate_to_nasm.cpp:333).               *)
THEOREM SlotsLieWithin ==
  ASSUME NEW list, IsList(list)
  PROVE  SlotsWithin(list)
<1>0. list \in Seq(Entries) /\ Len(list) \in Nat
  BY DEF IsList
<1> SUFFICES ASSUME NEW i \in 0..Len(list) - 1, NEW f, f = list[i + 1].func
             PROVE  /\ Offset(list, i) \in -Depth(list, f)..-8
                    /\ f = 0 \/ Depth(list, f) <= 8 * (Locals(list, 1) + 4) => Offset(list, i) >= -FrameOf(list, f)
  BY DEF SlotsWithin
<1>1. i \in Nat /\ i < Len(list)
  BY <1>0
<1>2. \A g : Params(list, g) \in Nat /\ Locals(list, g) \in Nat
  BY <1>0, BeforeType DEF Params, Locals
<1>3. Offset(list, i) \in Int /\ Offset(list, i) <= -8 /\ Offset(list, i) >= -Depth(list, f)
  <2>1. CASE list[i + 1].param = TRUE
    <3>1. /\ Offset(list, i) = -8 * (ParamsBefore(list, f, i) + 1)
          /\ ParamsBefore(list, f, i) \in Nat
          /\ ParamsBefore(list, f, i) + 1 <= Params(list, f)
      BY <1>0, <1>1, <2>1, OffsetOfParameter
    <3> QED BY <1>2, <3>1 DEF Depth
  <2>2. CASE list[i + 1].param = FALSE
    <3>1. /\ Offset(list, i) = -8 * (LocalsBefore(list, f, i) + 1 + Params(list, f))
          /\ LocalsBefore(list, f, i) \in Nat
          /\ LocalsBefore(list, f, i) + 1 <= Locals(list, f)
      BY <1>0, <1>1, <2>2, OffsetOfLocal
    <3> QED BY <1>2, <3>1 DEF Depth
  <2> QED BY <1>0, <2>1, <2>2, ParameterOrLocal
<1>4. Depth(list, f) \in Nat
  BY <1>2 DEF Depth
<1>5. Offset(list, i) \in -Depth(list, f)..-8
  BY <1>3, <1>4
<1>6. \A g : FrameSize(list, g) \in Nat /\ FrameSize(list, g) >= 8 * (Locals(list, g) + 4)
  BY <1>2 DEF FrameSize, To16, get_frame_size_for_func
<1>7. CASE f = 0
  <2>1. Params(list, 0) = 0
    <3>1. {k \in 1..Len(list) : k <= Len(list) /\ list[k].func = 0 /\ list[k].param = TRUE} = {}
      BY <1>0 DEF IsList
    <3> QED BY <3>1, FS_EmptySet DEF Params, Before
  <2>2. Depth(list, f) = 8 * Locals(list, 0)
    BY <1>2, <1>7, <2>1 DEF Depth
  <2>3. FrameOf(list, f) = FrameSize(list, 0)
    BY <1>7 DEF FrameOf
  <2>4. Offset(list, i) >= -FrameOf(list, f)
    BY <1>2, <1>3, <1>6, <2>2, <2>3
  <2> QED BY <1>5, <2>4
<1>8. CASE f # 0
  <2>1. FrameOf(list, f) = FrameSize(list, 1)
    BY <1>8 DEF FrameOf
  <2>2. Depth(list, f) <= 8 * (Locals(list, 1) + 4) => Offset(list, i) >= -FrameOf(list, f)
    BY <1>2, <1>3, <1>4, <1>6, <2>1
  <2> QED BY <1>5, <1>8, <2>2
<1> QED BY <1>7, <1>8

(* What collect_variables starts with is a table (backend_variables.cpp:9).*)
LEMMA FirstTable == IsTable(NoVariables)
BY DEF IsTable, IsList, NoVariables, Entries, Tables

(* find_variable_in_current_func finds the only variable of that function  *)
(* and that name, and nothing only where there is none.                    *)
LEMMA FindFinds ==
  ASSUME NEW list, IsList(list), NEW f, NEW name
  PROVE  /\ Find(list, f, name) \in -1..Len(list) - 1
         /\ \A i \in 1..Len(list) : list[i].func = f /\ list[i].name = name <=> i - 1 = Find(list, f, name)
<1>0. list \in Seq(Entries) /\ Len(list) \in Nat
  BY DEF IsList
<1>1. CASE \E i \in 1..Len(list) : list[i].func = f /\ list[i].name = name
  <2> DEFINE c == CHOOSE i \in 1..Len(list) : list[i].func = f /\ list[i].name = name
  <2>1. c \in 1..Len(list) /\ list[c].func = f /\ list[c].name = name
    BY <1>1
  <2>2. Find(list, f, name) = c - 1
    BY <1>1 DEF Find
  <2>3. \A i \in 1..Len(list) : list[i].func = f /\ list[i].name = name <=> i = c
    <3> HIDE DEF c
    <3> QED BY <2>1 DEF IsList
  <2> HIDE DEF c
  <2> QED BY <1>0, <2>1, <2>2, <2>3
<1>2. CASE ~ \E i \in 1..Len(list) : list[i].func = f /\ list[i].name = name
  <2>1. Find(list, f, name) = -1
    BY <1>2 DEF Find
  <2> QED BY <1>0, <1>2, <2>1
<1> QED BY <1>1, <1>2

(* add_variable (backend_variables.cpp:30-53) leaves a table a table, after*)
(* it the name is found in the function it was added to, and every index   *)
(* handed out before still means the same variable.                        *)
THEOREM AddingKeepsIndices ==
  ASSUME NEW v, IsTable(v), NEW f \in 0..v.counter, NEW name \in STRING, NEW param \in BOOLEAN,
         param => f # 0
  PROVE  LET w == add_variable(v, f, name, param) IN
         /\ IsTable(w)
         /\ Find(w.list, f, name) # -1
         /\ \A g, other : Find(v.list, g, other) # -1 => Find(w.list, g, other) = Find(v.list, g, other)
<1> DEFINE w == add_variable(v, f, name, param)
           list == v.list
           entry == [name |-> name, func |-> f, param |-> param]
<1>0. list \in Seq(Entries) /\ Len(list) \in Nat /\ IsList(list) /\ v.counter \in Nat
  BY DEF IsTable, IsList, Tables
<1>1. CASE Find(list, f, name) # -1
  BY <1>1 DEF add_variable
<1>2. CASE Find(list, f, name) = -1
  <2>1. w = [v EXCEPT !.list = Append(list, entry)]
    BY <1>2 DEF add_variable
  <2>2. w = [list |-> Append(list, entry), counter |-> v.counter]
    BY <2>1 DEF IsTable, Tables
  <2>3. entry \in Entries
    BY <1>0 DEF Entries
  <2> DEFINE new == Append(list, entry)
  <2>4. /\ new \in Seq(Entries) /\ Len(new) = Len(list) + 1
        /\ \A i \in 1..Len(list) : new[i] = list[i]
        /\ new[Len(list) + 1] = entry
    BY <1>0, <2>3
  <2>5. \A i \in 1..Len(new) : i \in 1..Len(list) \/ i = Len(list) + 1
    BY <1>0, <2>4
  <2>6. \A i \in 1..Len(list) : ~ (list[i].func = f /\ list[i].name = name)
    <3>1. \A i \in 1..Len(list) : i - 1 # Find(list, f, name)
      BY <1>0, <1>2
    <3> QED BY <1>0, <3>1, FindFinds
  <2>7. entry.func = f /\ entry.name = name /\ entry.param = param
    OBVIOUS
  <2> HIDE DEF new, entry
  <2>8. IsList(new)
    <3>1. \A i \in 1..Len(new) : new[i].param => new[i].func # 0
      BY <1>0, <2>4, <2>5, <2>7 DEF IsList
    <3>2. \A i, j \in 1..Len(new) : new[i].func = new[j].func /\ new[i].name = new[j].name => i = j
      BY <1>0, <2>4, <2>5, <2>6, <2>7 DEF IsList
    <3> QED BY <2>4, <3>1, <3>2 DEF IsList
  <2>9. IsTable(w)
    <3>1. \A i \in 1..Len(new) : new[i].func <= v.counter
      BY <1>0, <2>4, <2>5, <2>7 DEF IsTable
    <3>2. w.list = new /\ w.counter = v.counter /\ w = [list |-> new, counter |-> v.counter]
      BY <2>2 DEF new, entry
    <3>3. w \in Tables
      BY <1>0, <2>4, <3>2 DEF Tables
    <3> QED BY <2>8, <3>1, <3>2, <3>3 DEF IsTable
  <2>10. w.list = new
    BY <2>2 DEF new, entry
  <2>11. Find(new, f, name) # -1
    <3>1. Len(list) + 1 \in 1..Len(new) /\ new[Len(list) + 1].func = f /\ new[Len(list) + 1].name = name
      BY <1>0, <2>4, <2>7
    <3>2. (Len(list) + 1) - 1 = Find(new, f, name)
      BY <2>8, <3>1, FindFinds
    <3> QED BY <1>0, <3>2
  <2>12. ASSUME NEW g, NEW other, Find(list, g, other) # -1
         PROVE  Find(new, g, other) = Find(list, g, other)
    <3> DEFINE k == Find(list, g, other) + 1
    <3>1. k \in 1..Len(list) /\ k - 1 = Find(list, g, other)
      BY <1>0, <2>12, FindFinds
    <3>2. list[k].func = g /\ list[k].name = other
      BY <1>0, <3>1, FindFinds
    <3>3. k \in 1..Len(new) /\ new[k].func = g /\ new[k].name = other
      BY <1>0, <2>4, <3>1, <3>2
    <3>4. k - 1 = Find(new, g, other)
      <4> HIDE DEF k
      <4> QED BY <2>8, <3>3, FindFinds
    <3> QED BY <3>1, <3>4
  <2> QED BY <2>9, <2>10, <2>11, <2>12
<1> QED BY <1>1, <1>2

-----------------------------------------------------------------------------
(* Trees is the function its recursive definition describes.               *)
LEMMA TreesDefined ==
  Trees = [h \in 0..MaxHeight |-> IF h = 0 THEN {Nil} ELSE {Nil} \union NodesOver(Trees[h - 1])]
<1> DEFINE B(g, h) == IF h = 0 THEN {Nil} ELSE {Nil} \union NodesOver(g[h - 1])
           Defined == {n \in Nat : \E g : g = [h \in 0..n |-> B(g, h)]}
<1>1. 0 \in Defined
  <2> DEFINE g == [h \in 0..0 |-> {Nil}]
  <2>1. g = [h \in 0..0 |-> B(g, h)]
    OBVIOUS
  <2>2. \E f : f = [h \in 0..0 |-> B(f, h)]
    <3> HIDE DEF B, g
    <3> QED BY <2>1
  <2> QED BY <2>2
<1>2. \A n \in Nat : n \in Defined => n + 1 \in Defined
  <2> SUFFICES ASSUME NEW n \in Nat, n \in Defined PROVE n + 1 \in Defined
    OBVIOUS
  <2>1. PICK g : g = [h \in 0..n |-> B(g, h)]
    OBVIOUS
  <2> DEFINE G == [h \in 0..n + 1 |-> B(g, h)]
  <2>2. \A h \in 0..n : G[h] = g[h]
    <3>1. \A h \in 0..n : h \in 0..n + 1
      OBVIOUS
    <3> HIDE DEF B
    <3> QED BY <2>1, <3>1
  <2>3. \A h \in 0..n + 1 : B(g, h) = B(G, h)
    <3>1. \A h \in 0..n + 1 : h = 0 \/ h - 1 \in 0..n
      OBVIOUS
    <3> HIDE DEF G
    <3> QED BY <2>2, <3>1
  <2>4. G = [h \in 0..n + 1 |-> B(G, h)]
    <3> HIDE DEF B
    <3> QED BY <2>3
  <2>5. \E f : f = [h \in 0..n + 1 |-> B(f, h)]
    <3> HIDE DEF B, G
    <3> QED BY <2>4
  <2> QED BY <2>5
<1>3. MaxHeight \in Defined
  <2> HIDE DEF Defined
  <2> QED BY <1>1, <1>2, SetInduction, HeightAssumption
<1>4. Trees = CHOOSE g : g = [h \in 0..MaxHeight |-> B(g, h)]
  BY DEF Trees
<1>5. \E g : g = [h \in 0..MaxHeight |-> B(g, h)]
  BY <1>3
<1>6. Trees = [h \in 0..MaxHeight |-> B(Trees, h)]
  <2> HIDE DEF B
  <2> QED BY <1>4, <1>5
<1> QED BY <1>6

(* The trees of each height.                                               *)
LEMMA TreesAt ==
  /\ Trees[0] = {Nil}
  /\ \A h \in 1..MaxHeight : h - 1 \in 0..MaxHeight /\ Trees[h] = {Nil} \union NodesOver(Trees[h - 1])
<1> DEFINE B(h) == IF h = 0 THEN {Nil} ELSE {Nil} \union NodesOver(Trees[h - 1])
<1>1. \A h \in 0..MaxHeight : Trees[h] = B(h)
  <2>1. Trees = [h \in 0..MaxHeight |-> B(h)]
    BY TreesDefined
  <2> HIDE DEF B
  <2> QED BY <2>1
<1>2. 0 \in 0..MaxHeight /\ \A h \in 1..MaxHeight : h \in 0..MaxHeight /\ h # 0 /\ h - 1 \in 0..MaxHeight
  BY HeightAssumption
<1> QED BY <1>1, <1>2

(* A tree of a height is one of every greater height.                      *)
LEMMA TreesGrow == \A h \in 1..MaxHeight : Trees[h - 1] \subseteq Trees[h]
<1> DEFINE Grown == {n \in Nat : n + 1 <= MaxHeight => Trees[n] \subseteq Trees[n + 1]}
<1>1. 0 \in Grown
  BY TreesAt, HeightAssumption
<1>2. ASSUME NEW n \in Nat, n \in Grown PROVE n + 1 \in Grown
  <2> SUFFICES ASSUME (n + 1) + 1 <= MaxHeight PROVE Trees[n + 1] \subseteq Trees[(n + 1) + 1]
    OBVIOUS
  <2>1. Trees[n] \subseteq Trees[n + 1]
    BY <1>2, HeightAssumption
  <2>2. n + 1 \in 1..MaxHeight /\ (n + 1) + 1 \in 1..MaxHeight /\ (n + 1) - 1 = n /\ ((n + 1) + 1) - 1 = n + 1
    BY HeightAssumption
  <2>3. Trees[n + 1] = {Nil} \union NodesOver(Trees[n])
    BY <2>2, TreesAt
  <2>4. Trees[(n + 1) + 1] = {Nil} \union NodesOver(Trees[n + 1])
    BY <2>2, TreesAt
  <2>5. NodesOver(Trees[n]) \subseteq NodesOver(Trees[n + 1])
    BY <2>1 DEF NodesOver
  <2> QED BY <2>3, <2>4, <2>5
<1>3. \A n \in Nat : n \in Grown
  <2> HIDE DEF Grown
  <2> QED BY <1>1, <1>2, SetInduction
<1> SUFFICES ASSUME NEW h \in 1..MaxHeight PROVE Trees[h - 1] \subseteq Trees[h]
  OBVIOUS
<1>4. h - 1 \in Nat /\ (h - 1) + 1 = h /\ h <= MaxHeight
  BY HeightAssumption
<1>5. h - 1 \in Grown
  BY <1>3, <1>4
<1> QED BY <1>4, <1>5

(* The children of a tree are trees of a smaller height.                   *)
LEMMA ChildrenSmaller ==
  ASSUME NEW h \in 0..MaxHeight, NEW t \in Trees[h], t # Nil
  PROVE  /\ h - 1 \in 0..MaxHeight /\ t \in NodesOver(Trees[h - 1])
         /\ t.left \in Trees[h - 1] /\ t.right \in Trees[h - 1]
         /\ t.left \in Trees[h] /\ t.right \in Trees[h]
<1>1. h # 0
  BY TreesAt
<1>2. h \in 1..MaxHeight
  BY <1>1, HeightAssumption
<1>3. t \in NodesOver(Trees[h - 1]) /\ h - 1 \in 0..MaxHeight
  BY <1>2, TreesAt
<1>4. t.left \in Trees[h - 1] /\ t.right \in Trees[h - 1]
  BY <1>3 DEF NodesOver
<1> QED BY <1>2, <1>3, <1>4, TreesGrow

(* What holds of no tree, and of a tree if of both children, holds of all. *)
LEMMA TreeInduction ==
  ASSUME NEW S, Nil \in S,
         ASSUME NEW t \in Trees[MaxHeight], t # Nil, t.left \in S, t.right \in S PROVE t \in S
  PROVE  Trees[MaxHeight] \subseteq S
<1> DEFINE Covered == {n \in Nat : n <= MaxHeight => Trees[n] \subseteq Trees[MaxHeight] /\ Trees[n] \subseteq S}
           Smaller == {n \in Nat : n <= MaxHeight => Trees[MaxHeight - n] \subseteq Trees[MaxHeight]}
<1>1. \A n \in Nat : n \in Smaller
  <2>1. 0 \in Smaller
    BY HeightAssumption
  <2>2. ASSUME NEW n \in Nat, n \in Smaller PROVE n + 1 \in Smaller
    <3> SUFFICES ASSUME n + 1 <= MaxHeight PROVE Trees[MaxHeight - (n + 1)] \subseteq Trees[MaxHeight]
      OBVIOUS
    <3>1. MaxHeight - n \in 1..MaxHeight /\ MaxHeight - (n + 1) = (MaxHeight - n) - 1 /\ n <= MaxHeight
      BY HeightAssumption
    <3>2. Trees[(MaxHeight - n) - 1] \subseteq Trees[MaxHeight - n]
      BY <3>1, TreesGrow
    <3>3. Trees[MaxHeight - n] \subseteq Trees[MaxHeight]
      BY <2>2, <3>1
    <3> QED BY <3>1, <3>2, <3>3
  <2> HIDE DEF Smaller
  <2> QED BY <2>1, <2>2, SetInduction
<1>2. \A n \in 0..MaxHeight : Trees[n] \subseteq Trees[MaxHeight]
  <2> SUFFICES ASSUME NEW n \in 0..MaxHeight PROVE Trees[n] \subseteq Trees[MaxHeight]
    OBVIOUS
  <2>1. MaxHeight - n \in Nat /\ MaxHeight - n <= MaxHeight /\ MaxHeight - (MaxHeight - n) = n
    BY HeightAssumption
  <2>2. MaxHeight - n \in Smaller
    BY <1>1, <2>1
  <2> QED BY <2>1, <2>2
<1>3. 0 \in Covered
  BY <1>2, TreesAt, HeightAssumption
<1>4. ASSUME NEW n \in Nat, n \in Covered PROVE n + 1 \in Covered
  <2> SUFFICES ASSUME n + 1 <= MaxHeight, NEW t \in Trees[n + 1] PROVE t \in S
    BY <1>2, HeightAssumption
  <2>1. CASE t = Nil
    BY <2>1
  <2>2. CASE t # Nil
    <3>1. n + 1 \in 0..MaxHeight /\ (n + 1) - 1 = n /\ n <= MaxHeight
      BY HeightAssumption
    <3>2. t.left \in Trees[n] /\ t.right \in Trees[n]
      BY <2>2, <3>1, ChildrenSmaller
    <3>3. t.left \in S /\ t.right \in S
      BY <1>4, <3>1, <3>2
    <3>4. t \in Trees[MaxHeight]
      BY <1>2, <3>1
    <3> QED BY <2>2, <3>3, <3>4
  <2> QED BY <2>1, <2>2
<1>5. MaxHeight \in Covered
  <2> HIDE DEF Covered
  <2> QED BY <1>3, <1>4, SetInduction, HeightAssumption
<1> QED BY <1>5
(* savenode, saved one node down.                                         *)
LEMMA SaveUnfolds ==
  \A t \in Trees[MaxHeight] :
    Save(t) =
      IF t = Nil THEN << >>
      ELSE <<Open>> \o Own(t) \o Children(t, Save(t.left), Save(t.right)) \o <<Close>>
<1> DEFINE B(g, t) ==
             IF t = Nil THEN << >>
             ELSE <<Open>> \o Own(t) \o Children(t, g[t.left], g[t.right]) \o <<Close>>
           D(h) == \E g : g = [t \in Trees[h] |-> B(g, t)]
           Defined == {n \in Nat : n <= MaxHeight => D(n)}
<1>1. 0 \in Defined
  <2>1. Trees[0] = {Nil}
    BY TreesAt
  <2> DEFINE G == [t \in Trees[0] |-> B(<< >>, t)]
  <2>2. \A t \in Trees[0] : B(<< >>, t) = B(G, t)
    <3> HIDE DEF G
    <3> QED BY <2>1
  <2>3. G = [t \in Trees[0] |-> B(G, t)]
    <3> HIDE DEF B
    <3> QED BY <2>2
  <2>4. D(0)
    <3> HIDE DEF B, G
    <3> QED BY <2>3
  <2> QED BY <2>4
<1>2. ASSUME NEW n \in Nat, n \in Defined PROVE n + 1 \in Defined
  <2> SUFFICES ASSUME n + 1 <= MaxHeight PROVE D(n + 1)
    <3> HIDE DEF D
    <3> QED OBVIOUS
  <2>1. n + 1 \in 0..MaxHeight /\ (n + 1) - 1 = n /\ n <= MaxHeight /\ n + 1 \in 1..MaxHeight
    BY HeightAssumption
  <2>2. D(n)
    BY <1>2, <2>1
  <2>3. PICK g : g = [t \in Trees[n] |-> B(g, t)]
    BY <2>2
  <2> DEFINE G == [t \in Trees[n + 1] |-> B(g, t)]
  <2>4. \A t \in Trees[n] : t \in Trees[n + 1]
    BY <2>1, TreesGrow
  <2>5. \A t \in Trees[n] : G[t] = g[t]
    <3> HIDE DEF B
    <3> QED BY <2>3, <2>4
  <2>6. \A t \in Trees[n + 1] : t # Nil => t.left \in Trees[n] /\ t.right \in Trees[n]
    BY <2>1, ChildrenSmaller
  <2>7. \A t \in Trees[n + 1] : B(g, t) = B(G, t)
    <3> HIDE DEF G
    <3> QED BY <2>5, <2>6
  <2>8. G = [t \in Trees[n + 1] |-> B(G, t)]
    <3> HIDE DEF B
    <3> QED BY <2>7
  <2> QED
    <3> HIDE DEF B, G
    <3> QED BY <2>8
<1>3. MaxHeight \in Defined
  <2> HIDE DEF Defined
  <2> QED BY <1>1, <1>2, SetInduction, HeightAssumption
<1> DEFINE F == CHOOSE g : g = [t \in Trees[MaxHeight] |-> B(g, t)]
<1>4. F = [t \in Trees[MaxHeight] |-> B(F, t)]
  <2>1. D(MaxHeight)
    <3> HIDE DEF D
    <3> QED BY <1>3, HeightAssumption
  <2> HIDE DEF B
  <2> QED BY <2>1
<1>5. \A t : Save(t) = F[t]
  BY DEF Save
<1>6. \A t \in Trees[MaxHeight] : F[t] = B(F, t)
  <2> HIDE DEF B, F
  <2> QED BY <1>4
<1> HIDE DEF F
<1> QED BY <1>5, <1>6

(* A tree is readable if its root and both children are.                  *)
LEMMA ReadableUnfolds ==
  \A t \in Trees[MaxHeight] :
    AllReadable(t) =
      IF t = Nil THEN TRUE ELSE Readable(t) /\ AllReadable(t.left) /\ AllReadable(t.right)
<1> DEFINE B(g, t) ==
             IF t = Nil THEN TRUE ELSE Readable(t) /\ g[t.left] /\ g[t.right]
           D(h) == \E g : g = [t \in Trees[h] |-> B(g, t)]
           Defined == {n \in Nat : n <= MaxHeight => D(n)}
<1>1. 0 \in Defined
  <2>1. Trees[0] = {Nil}
    BY TreesAt
  <2> DEFINE G == [t \in Trees[0] |-> B(<< >>, t)]
  <2>2. \A t \in Trees[0] : B(<< >>, t) = B(G, t)
    <3> HIDE DEF G
    <3> QED BY <2>1
  <2>3. G = [t \in Trees[0] |-> B(G, t)]
    <3> HIDE DEF B
    <3> QED BY <2>2
  <2>4. D(0)
    <3> HIDE DEF B, G
    <3> QED BY <2>3
  <2> QED BY <2>4
<1>2. ASSUME NEW n \in Nat, n \in Defined PROVE n + 1 \in Defined
  <2> SUFFICES ASSUME n + 1 <= MaxHeight PROVE D(n + 1)
    <3> HIDE DEF D
    <3> QED OBVIOUS
  <2>1. n + 1 \in 0..MaxHeight /\ (n + 1) - 1 = n /\ n <= MaxHeight /\ n + 1 \in 1..MaxHeight
    BY HeightAssumption
  <2>2. D(n)
    BY <1>2, <2>1
  <2>3. PICK g : g = [t \in Trees[n] |-> B(g, t)]
    BY <2>2
  <2> DEFINE G == [t \in Trees[n + 1] |-> B(g, t)]
  <2>4. \A t \in Trees[n] : t \in Trees[n + 1]
    BY <2>1, TreesGrow
  <2>5. \A t \in Trees[n] : G[t] = g[t]
    <3> HIDE DEF B
    <3> QED BY <2>3, <2>4
  <2>6. \A t \in Trees[n + 1] : t # Nil => t.left \in Trees[n] /\ t.right \in Trees[n]
    BY <2>1, ChildrenSmaller
  <2>7. \A t \in Trees[n + 1] : B(g, t) = B(G, t)
    <3> HIDE DEF G
    <3> QED BY <2>5, <2>6
  <2>8. G = [t \in Trees[n + 1] |-> B(G, t)]
    <3> HIDE DEF B
    <3> QED BY <2>7
  <2> QED
    <3> HIDE DEF B, G
    <3> QED BY <2>8
<1>3. MaxHeight \in Defined
  <2> HIDE DEF Defined
  <2> QED BY <1>1, <1>2, SetInduction, HeightAssumption
<1> DEFINE F == CHOOSE g : g = [t \in Trees[MaxHeight] |-> B(g, t)]
<1>4. F = [t \in Trees[MaxHeight] |-> B(F, t)]
  <2>1. D(MaxHeight)
    <3> HIDE DEF D
    <3> QED BY <1>3, HeightAssumption
  <2> HIDE DEF B
  <2> QED BY <2>1
<1>5. \A t : AllReadable(t) = F[t]
  BY DEF AllReadable
<1>6. \A t \in Trees[MaxHeight] : F[t] = B(F, t)
  <2> HIDE DEF B, F
  <2> QED BY <1>4
<1> HIDE DEF F
<1> QED BY <1>5, <1>6

(* The tree that is expected, one node down.                              *)
LEMMA LeftFirstUnfolds ==
  \A t \in Trees[MaxHeight] :
    LeftFirst(t) =
      IF t = Nil THEN Nil
      ELSE IF t.left = Nil THEN Over(Shortened(t), LeftFirst(t.right), Nil)
      ELSE Over(Shortened(t), LeftFirst(t.left), LeftFirst(t.right))
<1> DEFINE B(g, t) ==
             IF t = Nil THEN Nil
             ELSE IF t.left = Nil THEN Over(Shortened(t), g[t.right], Nil)
             ELSE Over(Shortened(t), g[t.left], g[t.right])
           D(h) == \E g : g = [t \in Trees[h] |-> B(g, t)]
           Defined == {n \in Nat : n <= MaxHeight => D(n)}
<1>1. 0 \in Defined
  <2>1. Trees[0] = {Nil}
    BY TreesAt
  <2> DEFINE G == [t \in Trees[0] |-> B(<< >>, t)]
  <2>2. \A t \in Trees[0] : B(<< >>, t) = B(G, t)
    <3> HIDE DEF G
    <3> QED BY <2>1
  <2>3. G = [t \in Trees[0] |-> B(G, t)]
    <3> HIDE DEF B
    <3> QED BY <2>2
  <2>4. D(0)
    <3> HIDE DEF B, G
    <3> QED BY <2>3
  <2> QED BY <2>4
<1>2. ASSUME NEW n \in Nat, n \in Defined PROVE n + 1 \in Defined
  <2> SUFFICES ASSUME n + 1 <= MaxHeight PROVE D(n + 1)
    <3> HIDE DEF D
    <3> QED OBVIOUS
  <2>1. n + 1 \in 0..MaxHeight /\ (n + 1) - 1 = n /\ n <= MaxHeight /\ n + 1 \in 1..MaxHeight
    BY HeightAssumption
  <2>2. D(n)
    BY <1>2, <2>1
  <2>3. PICK g : g = [t \in Trees[n] |-> B(g, t)]
    BY <2>2
  <2> DEFINE G == [t \in Trees[n + 1] |-> B(g, t)]
  <2>4. \A t \in Trees[n] : t \in Trees[n + 1]
    BY <2>1, TreesGrow
  <2>5. \A t \in Trees[n] : G[t] = g[t]
    <3> HIDE DEF B
    <3> QED BY <2>3, <2>4
  <2>6. \A t \in Trees[n + 1] : t # Nil => t.left \in Trees[n] /\ t.right \in Trees[n]
    BY <2>1, ChildrenSmaller
  <2>7. \A t \in Trees[n + 1] : B(g, t) = B(G, t)
    <3> HIDE DEF G
    <3> QED BY <2>5, <2>6
  <2>8. G = [t \in Trees[n + 1] |-> B(G, t)]
    <3> HIDE DEF B
    <3> QED BY <2>7
  <2> QED
    <3> HIDE DEF B, G
    <3> QED BY <2>8
<1>3. MaxHeight \in Defined
  <2> HIDE DEF Defined
  <2> QED BY <1>1, <1>2, SetInduction, HeightAssumption
<1> DEFINE F == CHOOSE g : g = [t \in Trees[MaxHeight] |-> B(g, t)]
<1>4. F = [t \in Trees[MaxHeight] |-> B(F, t)]
  <2>1. D(MaxHeight)
    <3> HIDE DEF D
    <3> QED BY <1>3, HeightAssumption
  <2> HIDE DEF B
  <2> QED BY <2>1
<1>5. \A t : LeftFirst(t) = F[t]
  BY DEF LeftFirst
<1>6. \A t \in Trees[MaxHeight] : F[t] = B(F, t)
  <2> HIDE DEF B, F
  <2> QED BY <1>4
<1> HIDE DEF F
<1> QED BY <1>5, <1>6
-----------------------------------------------------------------------------
(* Where the reader stops: never behind the end, and at once or after one  *)
(* lexeme where the file is as savenode writes it.                         *)
LEMMA FirstOutside ==
  ASSUME NEW N \in Nat, NEW p \in 1..N, NEW B, N \notin B
  PROVE  \E q \in p..N : q \notin B /\ \A k \in p..q - 1 : k \in B
<1> DEFINE E == {q \in p..N : q \notin B}
<1>1. N \in E /\ E \subseteq Nat
  OBVIOUS
<1>2. PICK q \in E : \A k \in E : q <= k
  <2> HIDE DEF E
  <2>1. E # {}
    BY <1>1
  <2> QED BY <1>1, <2>1, LeastElement
<1>3. q \in p..N /\ q \notin B
  OBVIOUS
<1>4. \A k \in p..q - 1 : k \in p..N /\ ~ (q <= k)
  BY <1>3
<1>5. \A k \in p..q - 1 : k \in B
  BY <1>2, <1>4
<1> QED BY <1>3, <1>5

(* Two such places are the same, and it is p or the one behind p if these  *)
(* are outside.                                                            *)
LEMMA FirstUnique ==
  ASSUME NEW N \in Nat, NEW p \in 1..N, NEW B,
         NEW q \in p..N, q \notin B, \A k \in p..q - 1 : k \in B
  PROVE  /\ p \notin B => q = p
         /\ p \in B /\ p + 1 \notin B => q = p + 1
<1>1. CASE p \notin B
  <2>1. q # p => p \in p..q - 1
    OBVIOUS
  <2> QED BY <1>1, <2>1
<1>2. CASE p \in B /\ p + 1 \notin B
  <2>1. q # p
    BY <1>2
  <2>2. q # p + 1 => p + 1 \in p..q - 1
    BY <2>1
  <2> QED BY <1>2, <2>2
<1> QED BY <1>1, <1>2

(* SkipBlanks stops at the first character that is no blank.               *)
LEMMA SkipBlanksFirst ==
  ASSUME NEW f, NEW N \in Nat, N = Len(f) + 1, Len(f) \in Nat, NEW p \in 1..N
  PROVE  LET q == SkipBlanks(f, p) IN
         /\ q \in p..N /\ ~ AtLexeme(f, q, "blank")
         /\ ~ AtLexeme(f, p, "blank") => q = p
         /\ AtLexeme(f, p, "blank") /\ ~ AtLexeme(f, p + 1, "blank") => q = p + 1
<1> DEFINE B == {k \in Nat : AtLexeme(f, k, "blank")}
           q == SkipBlanks(f, p)
<1>1. \A k \in Nat : k \in B <=> AtLexeme(f, k, "blank")
  OBVIOUS
<1>2. N \notin B
  <2>1. ~ (N <= Len(f))
    OBVIOUS
  <2> QED BY <2>1, Zenon DEF AtLexeme
<1>3. p \in Nat /\ p + 1 \in Nat /\ \A i \in p..N : i \in Nat /\ \A k \in p..i - 1 : k \in Nat
  OBVIOUS
<1>4. \E i \in p..N : i \notin B /\ \A k \in p..i - 1 : k \in B
  <2> HIDE DEF B
  <2> QED BY <1>2, FirstOutside
<1>5. q = CHOOSE i \in p..N : ~ AtLexeme(f, i, "blank") /\ \A k \in p..i - 1 : AtLexeme(f, k, "blank")
  BY DEF SkipBlanks
<1> HIDE DEF B, q
<1>6. \E i \in p..N : ~ AtLexeme(f, i, "blank") /\ \A k \in p..i - 1 : AtLexeme(f, k, "blank")
  BY <1>1, <1>3, <1>4, Zenon
<1>7. q \in p..N /\ ~ AtLexeme(f, q, "blank") /\ \A k \in p..q - 1 : AtLexeme(f, k, "blank")
  BY <1>5, <1>6, Zenon
<1>8. q \notin B /\ \A k \in p..q - 1 : k \in B
  BY <1>1, <1>3, <1>7, Zenon
<1>9. (p \notin B => q = p) /\ (p \in B /\ p + 1 \notin B => q = p + 1)
  BY <1>7, <1>8, FirstUnique
<1> QED BY <1>1, <1>3, <1>7, <1>9, Zenon DEF q

(* SkipToken stops at the first character that ends the token.             *)
LEMMA SkipTokenFirst ==
  ASSUME NEW f, NEW N \in Nat, N = Len(f) + 1, Len(f) \in Nat, NEW p \in 1..N
  PROVE  LET q == SkipToken(f, p) IN
         /\ q \in p..N
         /\ ~ Ends(f, p) /\ Ends(f, p + 1) => q = p + 1
<1> DEFINE B == {k \in Nat : ~ Ends(f, k)}
           q == SkipToken(f, p)
<1>1. \A k \in Nat : k \notin B <=> Ends(f, k)
  OBVIOUS
<1>2. N \notin B
  <2>1. N > Len(f)
    OBVIOUS
  <2> QED BY <2>1, Zenon DEF Ends
<1>3. p \in Nat /\ p + 1 \in Nat /\ \A i \in p..N : i \in Nat /\ \A k \in p..i - 1 : k \in Nat
  OBVIOUS
<1>4. \E i \in p..N : i \notin B /\ \A k \in p..i - 1 : k \in B
  <2> HIDE DEF B
  <2> QED BY <1>2, FirstOutside
<1>5. q = CHOOSE i \in p..N : Ends(f, i) /\ \A k \in p..i - 1 : ~ Ends(f, k)
  BY DEF SkipToken
<1> HIDE DEF B, q
<1>6. \E i \in p..N : Ends(f, i) /\ \A k \in p..i - 1 : ~ Ends(f, k)
  BY <1>1, <1>3, <1>4, Zenon
<1>7. q \in p..N /\ Ends(f, q) /\ \A k \in p..q - 1 : ~ Ends(f, k)
  BY <1>5, <1>6, Zenon
<1>8. q \notin B /\ \A k \in p..q - 1 : k \in B
  BY <1>1, <1>3, <1>7, Zenon
<1>9. p \in B /\ p + 1 \notin B => q = p + 1
  BY <1>7, <1>8, FirstUnique
<1> QED BY <1>1, <1>3, <1>7, <1>9, Zenon DEF q

(* SkipChars goes forward, and not beyond the end.                         *)
LEMMA SkipCharsType ==
  ASSUME NEW f, Len(f) \in Nat, NEW p \in 1..Len(f) + 1, NEW n
  PROVE  SkipChars(f, p, n) \in p..Len(f) + 1
<1>1. CASE \E q \in p..Len(f) + 1 : WidthOf(f, p, q) = n
  BY <1>1 DEF SkipChars
<1>2. CASE ~ \E q \in p..Len(f) + 1 : WidthOf(f, p, q) = n
  BY <1>2 DEF SkipChars
<1> QED BY <1>1, <1>2

-----------------------------------------------------------------------------
(* What read_node makes of a position depends on what its calls of itself  *)
(* return at later ones only, and it never goes back.                      *)
LEMMA ChildrenAgree ==
  ASSUME NEW f, Len(f) \in Nat, NEW p \in 1..Len(f) + 1, NEW g, NEW h, NEW node,
         \A k \in p..Len(f) + 1 : g[k].pos \in k..Len(f) + 1 /\ h[k] = g[k]
  PROVE  /\ ReadChildren(f, g, node, p) = ReadChildren(f, h, node, p)
         /\ ReadChildren(f, g, node, p).pos \in p..Len(f) + 1
<1>1. p \in p..Len(f) + 1
  OBVIOUS
<1>2. h[p] = g[p] /\ g[p].pos \in p..Len(f) + 1
  BY <1>1
<1>3. h[g[p].pos] = g[g[p].pos] /\ g[g[p].pos].pos \in p..Len(f) + 1
  <2>1. g[g[p].pos].pos \in g[p].pos..Len(f) + 1
    BY <1>2
  <2> QED BY <1>2, <2>1
<1> DEFINE r == IF ReadsOneChild(node) THEN Found(Nil, g[p].pos) ELSE g[g[p].pos]
           c == SkipBlanks(f, r.pos)
<1>4. r.pos \in p..Len(f) + 1
  BY <1>2, <1>3 DEF Found
<1>5. ReadChildren(f, g, node, p) = Behind(f, node, g[p], r)
  BY DEF ReadChildren
<1>6. ReadChildren(f, h, node, p) = Behind(f, node, g[p], r)
  BY <1>2, <1>3 DEF ReadChildren
<1>7. Behind(f, node, g[p], r).pos = IF AtLexeme(f, c, "close") THEN c + 1 ELSE c
  BY DEF Behind, Found
<1> HIDE DEF r
<1>8. c \in r.pos..Len(f) + 1
  <2>1. r.pos \in 1..Len(f) + 1 /\ Len(f) + 1 \in Nat
    BY <1>4
  <2> QED BY <2>1, SkipBlanksFirst
<1>9. AtLexeme(f, c, "close") => c <= Len(f)
  BY DEF AtLexeme
<1> HIDE DEF c
<1>10. (IF AtLexeme(f, c, "close") THEN c + 1 ELSE c) \in p..Len(f) + 1
  BY <1>4, <1>8, <1>9
<1> QED BY <1>5, <1>6, <1>7, <1>10

(* Behind a token the reader needs only what it reads further on.          *)
LEMMA TokenAgrees ==
  ASSUME NEW f, Len(f) \in Nat, NEW t \in 1..Len(f) + 1, NEW g, NEW h,
         \A k \in t..Len(f) + 1 : g[k].pos \in k..Len(f) + 1 /\ h[k] = g[k]
  PROVE  /\ ReadToken(f, g, t) = ReadToken(f, h, t)
         /\ ReadToken(f, g, t).pos \in t..Len(f) + 1
<1> DEFINE e == SkipToken(f, t)
<1>1. e \in t..Len(f) + 1
  BY SkipTokenFirst
<1>2. CASE Token(f, t) = Nil
  <2>1. ReadToken(f, g, t) = Found(Nil, SkipChars(f, e, WidthOf(f, t, e))) /\ ReadToken(f, h, t) = ReadToken(f, g, t)
    BY <1>2 DEF ReadToken
  <2> HIDE DEF e
  <2>2. SkipChars(f, e, WidthOf(f, t, e)) \in e..Len(f) + 1
    BY <1>1, SkipCharsType
  <2> QED BY <1>1, <2>1, <2>2 DEF Found
<1>3. CASE Token(f, t) # Nil
  <2>1. /\ ReadToken(f, g, t) = ReadChildren(f, g, Token(f, t), e)
        /\ ReadToken(f, h, t) = ReadChildren(f, h, Token(f, t), e)
    BY <1>3 DEF ReadToken
  <2> HIDE DEF e
  <2>2. e \in 1..Len(f) + 1 /\ \A k \in e..Len(f) + 1 : k \in t..Len(f) + 1
    BY <1>1
  <2>3. \A k \in e..Len(f) + 1 : g[k].pos \in k..Len(f) + 1 /\ h[k] = g[k]
    BY <2>2
  <2>4. /\ ReadChildren(f, g, Token(f, t), e) = ReadChildren(f, h, Token(f, t), e)
        /\ ReadChildren(f, g, Token(f, t), e).pos \in e..Len(f) + 1
    BY <2>2, <2>3, ChildrenAgree
  <2> QED BY <1>1, <2>1, <2>4
<1> QED BY <1>2, <1>3

(* ... and so it does wherever it stands.                                  *)
LEMMA ReadAgrees ==
  ASSUME NEW f, Len(f) \in Nat, NEW p \in 1..Len(f) + 1, NEW g, NEW h,
         \A k \in p + 1..Len(f) + 1 : g[k].pos \in k..Len(f) + 1 /\ h[k] = g[k]
  PROVE  /\ read_node(f, g, p) = read_node(f, h, p)
         /\ read_node(f, g, p).pos \in p..Len(f) + 1
<1> DEFINE q == SkipBlanks(f, p)
<1>0. Len(f) + 1 \in Nat
  OBVIOUS
<1>1. q \in p..Len(f) + 1
  BY <1>0, SkipBlanksFirst
<1>2. CASE AtLexeme(f, q, "nil")
  <2>1. read_node(f, g, p) = Found(Nil, q + 1) /\ read_node(f, h, p) = Found(Nil, q + 1)
    BY <1>2 DEF read_node
  <2>2. q <= Len(f)
    BY <1>2 DEF AtLexeme
  <2> HIDE DEF q
  <2> QED BY <1>1, <2>1, <2>2 DEF Found
<1>3. CASE ~ AtLexeme(f, q, "nil") /\ ~ AtLexeme(f, q, "open")
  <2>1. read_node(f, g, p) = Found(Nil, q) /\ read_node(f, h, p) = Found(Nil, q)
    BY <1>3 DEF read_node
  <2> HIDE DEF q
  <2> QED BY <1>1, <2>1 DEF Found
<1>4. CASE ~ AtLexeme(f, q, "nil") /\ AtLexeme(f, q, "open")
  <2> DEFINE t == SkipBlanks(f, q + 1)
  <2>1. read_node(f, g, p) = ReadToken(f, g, t) /\ read_node(f, h, p) = ReadToken(f, h, t)
    BY <1>4 DEF read_node
  <2>2. q <= Len(f)
    BY <1>4 DEF AtLexeme
  <2> HIDE DEF q
  <2>3. q + 1 \in 1..Len(f) + 1
    BY <1>1, <2>2
  <2>4. t \in q + 1..Len(f) + 1
    BY <1>0, <2>3, SkipBlanksFirst
  <2> HIDE DEF t
  <2>5. t \in 1..Len(f) + 1 /\ \A k \in t..Len(f) + 1 : k \in p + 1..Len(f) + 1
    BY <1>1, <2>3, <2>4
  <2>6. \A k \in t..Len(f) + 1 : g[k].pos \in k..Len(f) + 1 /\ h[k] = g[k]
    BY <2>5
  <2>7. ReadToken(f, g, t) = ReadToken(f, h, t) /\ ReadToken(f, g, t).pos \in t..Len(f) + 1
    BY <2>5, <2>6, TokenAgrees
  <2>8. \A k \in t..Len(f) + 1 : k \in p..Len(f) + 1
    BY <2>5
  <2> QED BY <2>1, <2>7, <2>8
<1> QED BY <1>2, <1>3, <1>4

(* Reader is what read_node makes of every position of a file.             *)
LEMMA ReaderUnfolds ==
  ASSUME NEW f, Len(f) \in Nat
  PROVE  \A p \in 1..Len(f) + 1 : Reader(f)[p] = read_node(f, Reader(f), p)
<1> DEFINE N == Len(f) + 1
           R(g, p) == read_node(f, g, p)
           D(n) == \E g : /\ g = [p \in N + 1 - n..N |-> R(g, p)]
                          /\ \A p \in N + 1 - n..N : g[p].pos \in p..N
           Defined == {n \in Nat : n <= N => D(n)}
<1>0. N \in Nat /\ N = Len(f) + 1
  OBVIOUS
<1>1. 0 \in Defined
  <2> DEFINE G == [p \in N + 1 - 0..N |-> R(<< >>, p)]
  <2>1. \A p : ~ (p \in N + 1 - 0..N)
    BY <1>0
  <2>2. G = [p \in N + 1 - 0..N |-> R(G, p)]
    <3> HIDE DEF R
    <3>1. \A p \in N + 1 - 0..N : R(<< >>, p) = R(G, p)
      BY <2>1
    <3> QED BY <3>1
  <2>3. D(0)
    <3> HIDE DEF R, G, N
    <3> QED BY <2>1, <2>2
  <2> HIDE DEF D, N
  <2> QED BY <2>3
<1>2. ASSUME NEW n \in Nat, n \in Defined PROVE n + 1 \in Defined
  <2> SUFFICES ASSUME n + 1 <= N PROVE D(n + 1)
    <3> HIDE DEF D, N
    <3> QED OBVIOUS
  <2>1. D(n)
    <3> HIDE DEF D, N
    <3> QED BY <1>0, <1>2
  <2>2. PICK g : /\ g = [p \in N + 1 - n..N |-> R(g, p)]
                 /\ \A p \in N + 1 - n..N : g[p].pos \in p..N
    BY <2>1
  <2> DEFINE K == N + 1 - (n + 1)
             G == [p \in K..N |-> R(g, p)]
  <2> HIDE DEF N
  <2>3. /\ K \in 1..N /\ N + 1 - n = K + 1
        /\ \A p \in K + 1..N : p \in K..N
        /\ \A p \in K..N : p \in 1..N /\ \A k \in p + 1..N : k \in K + 1..N
    BY <1>0
  <2> HIDE DEF K
  <2>4. \A p \in K + 1..N : G[p] = g[p] /\ g[p].pos \in p..N
    <3> HIDE DEF R
    <3> QED BY <2>2, <2>3
  <2>5. ASSUME NEW p \in K..N
        PROVE  R(g, p) = R(G, p) /\ R(g, p).pos \in p..N
    <3>1. \A k \in p + 1..N : g[k].pos \in k..N /\ G[k] = g[k]
      BY <2>3, <2>4
    <3>2. p \in 1..N
      BY <2>3
    <3> HIDE DEF G
    <3> QED BY <1>0, <3>1, <3>2, ReadAgrees
  <2>6. G = [p \in K..N |-> R(G, p)] /\ \A p \in K..N : G[p].pos \in p..N
    <3> HIDE DEF R
    <3> QED BY <2>5
  <2>7. \E h : /\ h = [p \in K..N |-> R(h, p)]
               /\ \A p \in K..N : h[p].pos \in p..N
    <3> HIDE DEF R, G
    <3> QED BY <2>6
  <2> QED BY <2>7 DEF K
<1>3. N \in Defined
  <2> HIDE DEF Defined, N
  <2> QED BY <1>0, <1>1, <1>2, SetInduction
<1>4. D(N)
  <2> HIDE DEF D, N
  <2> QED BY <1>0, <1>3
<1>5. N + 1 - N = 1
  BY <1>0
<1>6. \E g : g = [p \in 1..N |-> R(g, p)]
  <2> HIDE DEF N, R
  <2> QED BY <1>4, <1>5
<1>7. Reader(f) = CHOOSE g : g = [p \in 1..N |-> R(g, p)]
  BY DEF Reader
<1>8. Reader(f) = [p \in 1..N |-> R(Reader(f), p)]
  <2> HIDE DEF N, R
  <2> QED BY <1>6, <1>7
<1>9. \A p \in 1..N : Reader(f)[p] = R(Reader(f), p)
  <2> HIDE DEF N, R
  <2> QED BY <1>8
<1> QED BY <1>9
-----------------------------------------------------------------------------
(* What the reader finds, by the lexemes at and behind its position.       *)
LEMMA SkipNone ==
  ASSUME NEW f, Len(f) \in Nat, NEW p \in 1..Len(f) + 1, ~ AtLexeme(f, p, "blank")
  PROVE  SkipBlanks(f, p) = p
<1>1. Len(f) + 1 \in Nat
  OBVIOUS
<1> QED BY <1>1, SkipBlanksFirst

(* There is one lexeme in a place.                                         *)
LEMMA LexemeHere ==
  ASSUME NEW f, Len(f) \in Nat, NEW p \in Nat, NEW l, AtLexeme(f, p, l)
  PROVE  /\ p <= Len(f) /\ f[p].lex = l
         /\ \A other : other # l => ~ AtLexeme(f, p, other)
BY Zenon DEF AtLexeme

(* The reader at a missing child: " nil".                                  *)
LEMMA ReadNull ==
  ASSUME NEW f, Len(f) \in Nat, NEW p \in Nat \ {0}, AtLexeme(f, p, "blank"), AtLexeme(f, p + 1, "nil")
  PROVE  Reader(f)[p] = Found(Nil, p + 2)
<1>1. p + 1 \in Nat /\ Len(f) + 1 \in Nat
  OBVIOUS
<1>2. p + 1 <= Len(f) /\ ~ AtLexeme(f, p + 1, "blank")
  BY <1>1, LexemeHere
<1>3. p \in 1..Len(f) + 1
  BY <1>2
<1>4. SkipBlanks(f, p) = p + 1
  BY <1>1, <1>2, <1>3, SkipBlanksFirst
<1>5. read_node(f, Reader(f), p) = Found(Nil, (p + 1) + 1)
  BY <1>4 DEF read_node
<1> QED BY <1>3, <1>5, ReaderUnfolds

(* ... at the end of a list of children.                                   *)
LEMMA ReadNothing ==
  ASSUME NEW f, Len(f) \in Nat, NEW p \in Nat \ {0}, AtLexeme(f, p, "close")
  PROVE  Reader(f)[p] = Found(Nil, p)
<1>1. p <= Len(f) /\ ~ AtLexeme(f, p, "blank") /\ ~ AtLexeme(f, p, "nil") /\ ~ AtLexeme(f, p, "open")
  BY LexemeHere
<1>2. p \in 1..Len(f) + 1
  BY <1>1
<1>3. SkipBlanks(f, p) = p
  BY <1>1, <1>2, SkipNone
<1>4. read_node(f, Reader(f), p) = Found(Nil, p)
  BY <1>1, <1>3 DEF read_node
<1> QED BY <1>2, <1>4, ReaderUnfolds

(* ... and at a node, whose token it reads next.                           *)
LEMMA ReadOpen ==
  ASSUME NEW f, Len(f) \in Nat, NEW p \in Nat \ {0}, NEW n, NEW w,
         AtLexeme(f, p, "open"), p + 2 <= Len(f), f[p + 1] = Word(n, w),
         Ends(f, p + 2), Classify(n) # Nil
  PROVE  Reader(f)[p] = ReadChildren(f, Reader(f), Classify(n), p + 2)
<1>0. p \in 1..Len(f) + 1 /\ p + 1 \in 1..Len(f) + 1 /\ p + 1 \in 1..Len(f) /\ (p + 1) + 1 = p + 2
  OBVIOUS
<1>1. ~ AtLexeme(f, p, "blank") /\ ~ AtLexeme(f, p, "nil")
  BY LexemeHere
<1>2. SkipBlanks(f, p) = p
  BY <1>0, <1>1, SkipNone
<1>3. f[p + 1].lex = "word" /\ f[p + 1].node = n
  BY DEF Word
<1>4. ~ AtLexeme(f, p + 1, "blank")
  BY <1>3, Zenon DEF AtLexeme
<1>5. SkipBlanks(f, p + 1) = p + 1
  BY <1>0, <1>4, SkipNone
<1>6. ~ Ends(f, p + 1)
  <2>1. ~ (p + 1 > Len(f))
    BY <1>0
  <2> QED BY <1>3, <2>1, Zenon DEF Ends
<1>7. SkipToken(f, p + 1) = p + 2
  <2>1. Len(f) + 1 \in Nat
    OBVIOUS
  <2>2. Ends(f, (p + 1) + 1)
    BY <1>0
  <2>3. SkipToken(f, p + 1) = (p + 1) + 1
    BY <1>0, <1>6, <2>1, <2>2, SkipTokenFirst
  <2> QED BY <1>0, <2>3
<1>8. Token(f, p + 1) = Classify(n)
  BY <1>0, <1>3, <1>7, Zenon DEF Token
<1>9. ReadToken(f, Reader(f), p + 1) = ReadChildren(f, Reader(f), Classify(n), p + 2)
  BY <1>7, <1>8, Zenon DEF ReadToken
<1>10. read_node(f, Reader(f), p) = ReadToken(f, Reader(f), p + 1)
  BY <1>1, <1>2, <1>5, Zenon DEF read_node
<1> QED BY <1>0, <1>9, <1>10, ReaderUnfolds

(* Behind the last child comes the parenthesis.                            *)
LEMMA BehindClose ==
  ASSUME NEW f, Len(f) \in Nat, NEW node, NEW l, NEW n, NEW p \in Nat \ {0}, AtLexeme(f, p, "close")
  PROVE  Behind(f, node, l, Found(n, p)) = Found(Over(node, l.node, n), p + 1)
<1>1. p <= Len(f) /\ ~ AtLexeme(f, p, "blank")
  BY LexemeHere
<1>2. SkipBlanks(f, p) = p
  BY <1>1, SkipNone
<1>3. Found(n, p).pos = p /\ Found(n, p).node = n
  BY DEF Found
<1> QED BY <1>2, <1>3, Zenon DEF Behind

-----------------------------------------------------------------------------
(* A readable node is written as one word, which tells everything but its  *)
(* children.                                                               *)
LEMMA OwnWord ==
  ASSUME NEW t, Readable(t)
  PROVE  \E w : Own(t) = <<Word(Told(t), w)>>
<1>1. CASE t.kind # "STRING"
  BY <1>1 DEF Own
<1>2. CASE t.kind = "STRING"
  BY <1>2 DEF Own, Readable
<1> QED BY <1>1, <1>2

(* Over, of a node given by its fields.                                    *)
LEMMA OverRecord ==
  ASSUME NEW k, NEW w, NEW x, NEW i, NEW n, NEW c, NEW l, NEW r, NEW a, NEW b
  PROVE  Over([kind |-> k, what |-> w, name |-> x, idx |-> i, num |-> n, chars |-> c, left |-> l, right |-> r], a, b)
         = [kind |-> k, what |-> w, name |-> x, idx |-> i, num |-> n, chars |-> c, left |-> a, right |-> b]
<1> DEFINE N(y, z) == [kind |-> k, what |-> w, name |-> x, idx |-> i, num |-> n, chars |-> c, left |-> y, right |-> z]
           old == N(l, r)
           mid == N(a, r)
           new == N(a, b)
<1>1. [old EXCEPT !.left = a] = mid
  OBVIOUS
<1>2. [mid EXCEPT !.right = b] = new
  OBVIOUS
<1>3. Over(old, a, b) = new
  <2> HIDE DEF old, mid, new
  <2> QED BY <1>1, <1>2, Zenon DEF Over
<1> QED BY <1>3

(* What is written of a node is what tells it from the others.             *)
LEMMA ToldNode ==
  ASSUME NEW S, NEW t \in NodesOver(S), Readable(t)
  PROVE  /\ Classify(Told(t)) = Told(t) /\ Told(t) # Nil
         /\ IsUnary(Told(t)) <=> IsUnary(t)
         /\ \A a, b : Over(Told(t), a, b) = Over(Shortened(t), a, b)
<1> DEFINE idx == IF t.kind = "IDENTIFIER" THEN t.idx ELSE 0
<1>1. t = [kind |-> t.kind, what |-> t.what, name |-> t.name, idx |-> t.idx, num |-> t.num,
           chars |-> t.chars, left |-> t.left, right |-> t.right]
  BY DEF NodesOver
<1>2. t.kind \in Kinds
  BY DEF NodesOver
<1> DEFINE six == SixDigits(t.num)
<1>3. Told(t) = [kind |-> t.kind, what |-> t.what, name |-> t.name, idx |-> idx, num |-> six,
                 chars |-> t.chars, left |-> Nil, right |-> Nil]
  <2> HIDE DEF six
  <2>1. Told(t) = [[t EXCEPT !.left = Nil, !.right = Nil] EXCEPT !.num = six, !.idx = idx]
    BY <1>1 DEF Told, Over, six
  <2> QED BY <1>1, <2>1
<1>4. Shortened(t) = [kind |-> t.kind, what |-> t.what, name |-> t.name, idx |-> idx, num |-> six,
                      chars |-> t.chars, left |-> t.left, right |-> t.right]
  <2> HIDE DEF six
  <2>1. Shortened(t) = [t EXCEPT !.num = six, !.idx = idx]
    BY <1>1 DEF Shortened, six
  <2> QED BY <1>1, <2>1
<1> HIDE DEF six, idx
<1>5. Told(t).kind = t.kind /\ Told(t).what = t.what /\ Told(t).name = t.name /\ Told(t).idx = idx
  BY <1>3
<1>6. Told(t) # Nil
  <2>1. Nil.kind = "nil" /\ t.kind # "nil"
    BY <1>2 DEF Nil, Kinds
  <2> QED BY <1>5, <2>1
<1>7. Classify(Told(t)) = Told(t)
  <2>1. Told(t).kind = "IDENTIFIER" => Told(t).name \notin {"func_call", "func_def"} /\ Told(t).idx >= 0
    BY <1>5 DEF Readable, idx
  <2>2. Told(t).kind = "IDENTIFIER" => ~ (Told(t).idx < 0)
    <3>1. t.idx \in Int
      BY DEF NodesOver
    <3> QED BY <1>5, <2>1, <3>1 DEF idx
  <2> HIDE DEF idx
  <2> QED BY <2>1, <2>2, Zenon DEF Classify
<1>8. IsUnary(Told(t)) <=> IsUnary(t)
  BY <1>5, Zenon DEF IsUnary
<1>9. \A a, b : Over(Told(t), a, b) = Over(Shortened(t), a, b)
  <2> SUFFICES ASSUME NEW a, NEW b PROVE Over(Told(t), a, b) = Over(Shortened(t), a, b)
    OBVIOUS
  <2> DEFINE N(y, z) == [kind |-> t.kind, what |-> t.what, name |-> t.name, idx |-> idx, num |-> six,
                         chars |-> t.chars, left |-> y, right |-> z]
  <2>1. Over(N(Nil, Nil), a, b) = N(a, b) /\ Over(N(t.left, t.right), a, b) = N(a, b)
    BY OverRecord
  <2>2. Told(t) = N(Nil, Nil) /\ Shortened(t) = N(t.left, t.right)
    BY <1>3, <1>4
  <2> HIDE DEF N
  <2> QED BY <2>1, <2>2
<1> QED BY <1>6, <1>7, <1>8, <1>9

(* What savenode may write of readable trees.                              *)
Written == {Open, Close, Blank, Null} \union {Own(n)[1] : n \in Trees[MaxHeight]}

(* Nothing is written of no tree.                                          *)
LEMMA SaveNil == Save(Nil) = << >> /\ LeftFirst(Nil) = Nil /\ Nil \in Trees[MaxHeight]
<1>1. Nil \in Trees[MaxHeight]
  <2>1. MaxHeight = 0 \/ MaxHeight \in 1..MaxHeight
    BY HeightAssumption
  <2> QED BY <2>1, TreesAt
<1> QED BY <1>1, SaveUnfolds, LeftFirstUnfolds, Zenon

(* What is written begins with a parenthesis and is made of lexemes.       *)
LEMMA SaveType ==
  ASSUME NEW tree \in Trees[MaxHeight], AllReadable(tree)
  PROVE  Save(tree) \in Seq(Written) /\ (tree # Nil => Len(Save(tree)) # 0 /\ Save(tree)[1] = Open)
<1> DEFINE Opened(s) == Len(s) # 0 /\ s[1] = Open
           S == {t \in Trees[MaxHeight] :
                   AllReadable(t) => Save(t) \in Seq(Written) /\ (t # Nil => Opened(Save(t)))}
<1>1. Nil \in S
  BY SaveNil
<1>2. ASSUME NEW t \in Trees[MaxHeight], t # Nil, t.left \in S, t.right \in S PROVE t \in S
  <2> SUFFICES ASSUME AllReadable(t) PROVE Save(t) \in Seq(Written) /\ Opened(Save(t))
    OBVIOUS
  <2>1. Readable(t) /\ AllReadable(t.left) /\ AllReadable(t.right)
    BY <1>2, ReadableUnfolds, Zenon
  <2>2. Save(t.left) \in Seq(Written) /\ Save(t.right) \in Seq(Written)
    BY <1>2, <2>1
  <2>3. PICK w : Own(t) = <<Word(Told(t), w)>>
    BY <2>1, OwnWord
  <2>4. Own(t)[1] \in Written /\ Open \in Written /\ Close \in Written /\ Blank \in Written /\ Null \in Written
    BY DEF Written
  <2>5. Own(t) \in Seq(Written)
    BY <2>3, <2>4
  <2> DEFINE ch == Children(t, Save(t.left), Save(t.right))
  <2>6. ch \in Seq(Written)
    BY <2>2, <2>4 DEF Children
  <2>7. Save(t) = <<Open>> \o Own(t) \o ch \o <<Close>>
    BY <1>2, SaveUnfolds, Zenon
  <2> HIDE DEF ch
  <2> QED BY <2>4, <2>5, <2>6, <2>7
<1>3. Trees[MaxHeight] \subseteq S
  <2> HIDE DEF S
  <2> QED BY <1>1, <1>2, TreeInduction
<1> QED BY <1>3
-----------------------------------------------------------------------------
(* The file f has the lexemes of s from p on.                              *)
Holds(f, p, s) == p + Len(s) <= Len(f) + 1 /\ \A k \in 1..Len(s) : f[p + k - 1] = s[k]

(* A file that holds two texts holds each of them.                         *)
LEMMA HoldsBoth ==
  ASSUME NEW f, Len(f) \in Nat, NEW p \in Nat, NEW S, NEW s \in Seq(S), NEW t \in Seq(S),
         Holds(f, p, s \o t)
  PROVE  Holds(f, p, s) /\ Holds(f, p + Len(s), t)
<1>1. /\ Len(s) \in Nat /\ Len(t) \in Nat /\ Len(s \o t) = Len(s) + Len(t)
      /\ \A k \in 1..Len(s) : (s \o t)[k] = s[k] /\ k \in 1..Len(s \o t)
      /\ \A k \in 1..Len(t) : (s \o t)[Len(s) + k] = t[k] /\ Len(s) + k \in 1..Len(s \o t)
  OBVIOUS
<1>2. Holds(f, p, s)
  BY <1>1 DEF Holds
<1>3. \A k \in 1..Len(t) : f[p + Len(s) + k - 1] = t[k]
  <2> SUFFICES ASSUME NEW k \in 1..Len(t) PROVE f[p + Len(s) + k - 1] = t[k]
    OBVIOUS
  <2>1. p + Len(s) + k - 1 = p + (Len(s) + k) - 1
    BY <1>1
  <2>2. f[p + (Len(s) + k) - 1] = (s \o t)[Len(s) + k]
    BY <1>1 DEF Holds
  <2> QED BY <1>1, <2>1, <2>2
<1>4. Holds(f, p + Len(s), t)
  <2>1. p + Len(s) + Len(t) <= Len(f) + 1
    BY <1>1 DEF Holds
  <2> QED BY <2>1, <1>3 DEF Holds
<1> QED BY <1>2, <1>4

(* ... and one that holds a single lexeme has it there.                    *)
LEMMA HoldsOne ==
  ASSUME NEW f, Len(f) \in Nat, NEW p \in Nat, NEW x, Holds(f, p, <<x>>)
  PROVE  p <= Len(f) /\ f[p] = x
<1>1. Len(<<x>>) = 1 /\ 1 \in 1..1 /\ <<x>>[1] = x /\ p + 1 - 1 = p
  OBVIOUS
<1>2. f[p + 1 - 1] = x
  BY <1>1 DEF Holds
<1> QED BY <1>1, <1>2 DEF Holds

(* How a tree lies in the file.                                            *)
LEMMA SavedParts ==
  ASSUME NEW f, Len(f) \in Nat, NEW p \in Nat \ {0},
         NEW t \in Trees[MaxHeight], t # Nil, AllReadable(t), Holds(f, p, Save(t)),
         NEW ch, ch = Children(t, Save(t.left), Save(t.right))
  PROVE  /\ ch \in Seq(Written) /\ Len(Save(t)) = Len(ch) + 3
         /\ AtLexeme(f, p, "open") /\ (\E w : f[p + 1] = Word(Told(t), w))
         /\ Holds(f, p + 2, ch)
         /\ AtLexeme(f, p + 2 + Len(ch), "close")
<1>1. Readable(t) /\ AllReadable(t.left) /\ AllReadable(t.right)
  BY ReadableUnfolds, Zenon
<1>2. t.left \in Trees[MaxHeight] /\ t.right \in Trees[MaxHeight]
  <2>1. MaxHeight \in 0..MaxHeight
    BY HeightAssumption
  <2> QED BY <2>1, ChildrenSmaller
<1>3. Save(t.left) \in Seq(Written) /\ Save(t.right) \in Seq(Written)
  BY <1>1, <1>2, SaveType
<1>4. PICK w : Own(t) = <<Word(Told(t), w)>>
  BY <1>1, OwnWord
<1> DEFINE word == Word(Told(t), w)
<1>5. word \in Written /\ Open \in Written /\ Close \in Written /\ Blank \in Written /\ Null \in Written
  <2>1. Own(t)[1] = word
    BY <1>4
  <2> HIDE DEF word
  <2> QED BY <2>1 DEF Written
<1>6. ch \in Seq(Written)
  BY <1>3, <1>5 DEF Children
<1>7. Save(t) = <<Open>> \o <<word>> \o ch \o <<Close>>
  BY <1>4, SaveUnfolds, Zenon
<1> HIDE DEF word
<1> DEFINE a == <<Open>> \o <<word>>
           b == a \o ch
<1>8. /\ <<Open>> \in Seq(Written) /\ <<word>> \in Seq(Written) /\ <<Close>> \in Seq(Written)
      /\ Len(<<Open>>) = 1 /\ Len(<<Close>>) = 1
  BY <1>5
<1>9. a \in Seq(Written) /\ Len(a) = 2
  BY <1>5
<1> HIDE DEF a
<1>10. b \in Seq(Written) /\ Len(b) = 2 + Len(ch) /\ Len(ch) \in Nat
  <2>1. b \in Seq(Written) /\ Len(b) = Len(a) + Len(ch) /\ Len(ch) \in Nat
    <3>1. Len(ch) \in Nat
      BY <1>6
    <3> QED BY <1>6, <1>9, <3>1, ConcatProperties, Zenon
  <2> HIDE DEF b
  <2> QED BY <1>9, <2>1
<1> HIDE DEF b
<1>11. Holds(f, p, b \o <<Close>>) /\ Len(Save(t)) = Len(b) + 1
  <2>1. Save(t) = b \o <<Close>>
    BY <1>7 DEF a, b
  <2> QED BY <2>1, <1>8, <1>10
<1>12. Holds(f, p, b) /\ Holds(f, p + Len(b), <<Close>>)
  BY <1>8, <1>10, <1>11, HoldsBoth
<1>13. Holds(f, p, a) /\ Holds(f, p + 2, ch)
  BY <1>6, <1>9, <1>12, HoldsBoth DEF b
<1>14. Holds(f, p, <<Open>>) /\ Holds(f, p + 1, <<word>>)
  BY <1>8, <1>13, HoldsBoth DEF a
<1>15. p <= Len(f) /\ f[p] = Open
  BY <1>14, HoldsOne
<1>16. f[p + 1] = word
  BY <1>14, HoldsOne
<1>17. p + Len(b) <= Len(f) /\ f[p + Len(b)] = Close
  <2>1. p + Len(b) \in Nat
    BY <1>10
  <2> QED BY <1>12, <2>1, HoldsOne
<1>18. p + Len(b) = p + 2 + Len(ch) /\ Len(Save(t)) = Len(ch) + 3
  BY <1>10, <1>11
<1>19. AtLexeme(f, p, "open") /\ AtLexeme(f, p + 2 + Len(ch), "close")
  BY <1>15, <1>17, <1>18 DEF AtLexeme, Open, Close, Lexeme
<1> QED BY <1>6, <1>13, <1>16, <1>18, <1>19 DEF word
(* The four lexemes of a node without children.                            *)
LEMMA FourLexemes ==
  ASSUME NEW a, NEW b, NEW c, NEW d, NEW s, s = <<a, b, c, d>>
  PROVE  Len(s) = 4 /\ s[1] = a /\ s[2] = b /\ s[3] = c /\ s[4] = d
OBVIOUS

(* A child is read at its place.                                           *)
ReadBack(f, t) ==
  \A p \in Nat \ {0} : Holds(f, p, Save(t)) => Reader(f)[p] = Found(LeftFirst(t), p + Len(Save(t)))

(* A node whose children are read back is read back.                       *)
LEMMA ReadsNode ==
  ASSUME NEW f, Len(f) \in Nat, NEW t \in Trees[MaxHeight], t # Nil, AllReadable(t),
         t.left # Nil => ReadBack(f, t.left), t.right # Nil => ReadBack(f, t.right)
  PROVE  ReadBack(f, t)
<1> SUFFICES ASSUME NEW p \in Nat \ {0}, Holds(f, p, Save(t))
             PROVE  Reader(f)[p] = Found(LeftFirst(t), p + Len(Save(t)))
  BY DEF ReadBack
<1> DEFINE L == Save(t.left)
           R == Save(t.right)
           ch == Children(t, L, R)
           node == Told(t)
           shortened == Shortened(t)
           rd == Reader(f)
<1>1. Readable(t) /\ AllReadable(t.left) /\ AllReadable(t.right)
  BY ReadableUnfolds, Zenon
<1>2. t.left \in Trees[MaxHeight] /\ t.right \in Trees[MaxHeight] /\ \E S : t \in NodesOver(S)
  <2>1. MaxHeight \in 0..MaxHeight
    BY HeightAssumption
  <2> QED BY <2>1, ChildrenSmaller
<1>3. /\ L \in Seq(Written) /\ (t.left # Nil => Len(L) # 0 /\ L[1] = Open)
      /\ R \in Seq(Written) /\ (t.right # Nil => Len(R) # 0 /\ R[1] = Open)
  BY <1>1, <1>2, SaveType
<1>4. /\ ch \in Seq(Written) /\ Len(Save(t)) = Len(ch) + 3
      /\ AtLexeme(f, p, "open") /\ (\E w : f[p + 1] = Word(node, w))
      /\ Holds(f, p + 2, ch)
      /\ AtLexeme(f, p + 2 + Len(ch), "close")
  BY SavedParts
<1>5. /\ Classify(node) = node /\ node # Nil /\ (IsUnary(node) <=> IsUnary(t))
      /\ \A a, b : Over(node, a, b) = Over(shortened, a, b)
  BY <1>1, <1>2, ToldNode
<1>6. LeftFirst(t) = IF t.left = Nil THEN Over(shortened, LeftFirst(t.right), Nil)
                     ELSE Over(shortened, LeftFirst(t.left), LeftFirst(t.right))
  BY LeftFirstUnfolds, Zenon
<1>7. (t.left = Nil => L = << >>) /\ (t.right = Nil => R = << >>) /\ LeftFirst(Nil) = Nil
  BY SaveNil
<1>8. IsUnary(t) => (t.left = Nil <=> t.right # Nil)
  BY <1>1 DEF Readable
<1> HIDE DEF L, R, node, shortened
<1>9. t.left = Nil /\ t.right = Nil => ch = <<Blank, Null, Blank, Null>>
  BY DEF Children
<1>10. t.left # Nil \/ t.right # Nil => ch = L \o R
  BY DEF Children
<1>11. (t.right = Nil => L \o R = L) /\ (t.left = Nil => L \o R = R)
  BY <1>3, <1>7, ConcatEmptySeq, Zenon
<1>12. Len(ch) # 0 /\ (ch[1] = Open \/ ch[1] = Blank)
  <2>1. CASE t.left = Nil /\ t.right = Nil
    <3>1. ch = <<Blank, Null, Blank, Null>>
      BY <1>9, <2>1
    <3> HIDE DEF ch
    <3>2. Len(ch) = 4 /\ ch[1] = Blank
      BY <3>1, FourLexemes, Zenon
    <3> QED BY <3>2
  <2>2. CASE t.left = Nil /\ t.right # Nil
    BY <1>3, <1>10, <1>11, <2>2, Zenon
  <2>3. CASE t.left # Nil
    <3>1. Len(L) \in Nat /\ Len(R) \in Nat
      BY <1>3
    <3>2. Len(L \o R) = Len(L) + Len(R) /\ 1 \in 1..Len(L) + Len(R) /\ 1 <= Len(L)
      BY <1>3, <2>3, <3>1, ConcatProperties
    <3>3. (L \o R)[1] = L[1]
      BY <1>3, <3>2, ConcatProperties
    <3> QED BY <1>3, <1>10, <2>3, <3>1, <3>2, <3>3
  <2> QED BY <2>1, <2>2, <2>3
<1>13. Len(ch) \in Nat
  BY <1>4
<1> HIDE DEF ch
<1>14. p + 2 <= Len(f) /\ Ends(f, p + 2)
  <2>1. 1 \in 1..Len(ch) /\ p + 2 + 1 - 1 = p + 2
    BY <1>12, <1>13
  <2>2. f[p + 2] = ch[1]
    BY <1>4, <2>1 DEF Holds
  <2>3. p + 2 <= Len(f)
    BY <1>4, <1>12, <1>13 DEF Holds
  <2>4. f[p + 2].lex = "open" \/ f[p + 2].lex = "blank"
    BY <1>12, <2>2 DEF Open, Blank, Lexeme
  <2> QED BY <2>3, <2>4, Zenon DEF Ends
<1>15. rd[p] = ReadChildren(f, rd, node, p + 2)
  <2>1. PICK w : f[p + 1] = Word(node, w)
    BY <1>4
  <2> QED BY <1>4, <1>5, <1>14, <2>1, ReadOpen
<1> DEFINE end == p + 2 + Len(ch)
<1>16. end \in Nat \ {0} /\ end + 1 = p + Len(Save(t)) /\ p + 2 \in Nat \ {0}
  BY <1>4, <1>13
<1>17. AtLexeme(f, end, "close") /\ rd[end] = Found(Nil, end)
  BY <1>4, <1>16, ReadNothing
<1> HIDE DEF rd, end
<1>18. ASSUME NEW l, NEW n, NEW pos, rd[p + 2] = Found(l, pos),
              IF IsUnary(t) THEN n = Nil /\ pos = end ELSE rd[pos] = Found(n, end)
       PROVE  rd[p] = Found(Over(shortened, l, n), end + 1)
  <2> DEFINE r == IF ReadsOneChild(node) THEN Found(Nil, pos) ELSE rd[pos]
  <2>1. Found(l, pos).pos = pos /\ Found(l, pos).node = l
    BY DEF Found
  <2>2. rd[p] = Behind(f, node, Found(l, pos), r)
    BY <1>15, <1>18, <2>1, Zenon DEF ReadChildren
  <2>3. r = Found(n, end)
    BY <1>5, <1>18, Zenon DEF ReadsOneChild
  <2> HIDE DEF r
  <2>4. Behind(f, node, Found(l, pos), Found(n, end)) = Found(Over(node, l, n), end + 1)
    BY <1>16, <1>17, <2>1, BehindClose
  <2> QED BY <1>5, <2>2, <2>3, <2>4, Zenon
<1>19. CASE t.left = Nil /\ t.right = Nil
  <2>1. /\ AtLexeme(f, p + 2, "blank") /\ AtLexeme(f, (p + 2) + 1, "nil")
        /\ AtLexeme(f, p + 4, "blank") /\ AtLexeme(f, (p + 4) + 1, "nil") /\ end = p + 6
    <3>1. Len(ch) = 4 /\ ch[1] = Blank /\ ch[2] = Null /\ ch[3] = Blank /\ ch[4] = Null
      <4>1. ch = <<Blank, Null, Blank, Null>>
        BY <1>9, <1>19
      <4> QED BY <4>1, FourLexemes, Zenon
    <3>2. \A k \in 1..4 : p + 2 + k - 1 <= Len(f) /\ f[p + 2 + k - 1] = ch[k]
      <4>1. p + 2 + Len(ch) <= Len(f) + 1 /\ \A k \in 1..Len(ch) : f[p + 2 + k - 1] = ch[k]
        BY <1>4, Zenon DEF Holds
      <4>2. p + 2 + 4 <= Len(f) + 1
        BY <3>1, <4>1
      <4>3. \A k \in 1..4 : f[p + 2 + k - 1] = ch[k]
        BY <3>1, <4>1, Zenon
      <4>4. \A k \in 1..4 : p + 2 + k - 1 <= Len(f)
        BY <4>2
      <4> QED BY <4>3, <4>4, Zenon
    <3>3. /\ p + 2 + 1 - 1 = p + 2 /\ p + 2 + 2 - 1 = (p + 2) + 1
          /\ p + 2 + 3 - 1 = p + 4 /\ p + 2 + 4 - 1 = (p + 4) + 1
          /\ 1 \in 1..4 /\ 2 \in 1..4 /\ 3 \in 1..4 /\ 4 \in 1..4
      OBVIOUS
    <3>4. f[p + 2] = Blank /\ f[(p + 2) + 1] = Null /\ f[p + 4] = Blank /\ f[(p + 4) + 1] = Null
      BY <3>1, <3>2, <3>3
    <3>5. p + 2 <= Len(f) /\ (p + 2) + 1 <= Len(f) /\ p + 4 <= Len(f) /\ (p + 4) + 1 <= Len(f)
      BY <3>2, <3>3
    <3>6. Blank.lex = "blank" /\ Null.lex = "nil"
      BY DEF Blank, Null, Lexeme
    <3>7. end = p + 6
      BY <3>1 DEF end
    <3> QED BY <3>4, <3>5, <3>6, <3>7, Zenon DEF AtLexeme
  <2>2. rd[p + 2] = Found(Nil, p + 4) /\ rd[p + 4] = Found(Nil, end)
    <3>1. p + 4 \in Nat \ {0} /\ (p + 2) + 2 = p + 4 /\ (p + 4) + 2 = p + 6
      OBVIOUS
    <3>2. rd[p + 2] = Found(Nil, (p + 2) + 2)
      BY <1>16, <2>1, ReadNull DEF rd
    <3>3. rd[p + 4] = Found(Nil, (p + 4) + 2)
      BY <2>1, <3>1, ReadNull DEF rd
    <3> QED BY <2>1, <3>1, <3>2, <3>3
  <2>3. rd[p] = Found(Over(shortened, Nil, Nil), end + 1)
    BY <1>8, <1>18, <1>19, <2>2, Zenon
  <2> QED BY <1>6, <1>7, <1>16, <1>19, <2>3, Zenon DEF rd
<1>20. ASSUME NEW c, c # Nil, ReadBack(f, c), ch = Save(c)
       PROVE  rd[p] = Found(Over(shortened, LeftFirst(c), Nil), end + 1)
  <2>1. rd[p + 2] = Found(LeftFirst(c), end)
    BY <1>4, <1>16, <1>20 DEF ReadBack, rd, end
  <2> QED BY <1>17, <1>18, <2>1, Zenon
<1>21. CASE t.left = Nil /\ t.right # Nil
  <2>1. ch = Save(t.right)
    BY <1>10, <1>11, <1>21, Zenon DEF R
  <2>2. rd[p] = Found(Over(shortened, LeftFirst(t.right), Nil), end + 1)
    BY <1>20, <1>21, <2>1
  <2> QED BY <1>6, <1>16, <1>21, <2>2, Zenon DEF rd
<1>22. CASE t.left # Nil /\ t.right = Nil
  <2>1. ch = Save(t.left)
    BY <1>10, <1>11, <1>22, Zenon DEF L
  <2>2. rd[p] = Found(Over(shortened, LeftFirst(t.left), Nil), end + 1)
    BY <1>20, <1>22, <2>1
  <2> QED BY <1>6, <1>7, <1>16, <1>22, <2>2, Zenon DEF rd
<1>23. CASE t.left # Nil /\ t.right # Nil
  <2>1. Holds(f, p + 2, L) /\ Holds(f, p + 2 + Len(L), R)
    <3>1. Holds(f, p + 2, L \o R) /\ p + 2 \in Nat
      BY <1>4, <1>10, <1>16, <1>23
    <3> QED BY <1>3, <3>1, HoldsBoth
  <2> DEFINE mid == p + 2 + Len(L)
  <2>2. mid \in Nat \ {0} /\ mid + Len(R) = end
    <3>1. Len(ch) = Len(L) + Len(R) /\ Len(L) \in Nat /\ Len(R) \in Nat
      <4>1. Len(L) \in Nat /\ Len(R) \in Nat
        BY <1>3
      <4> QED BY <1>3, <1>10, <1>23, <4>1, ConcatProperties, Zenon
    <3> QED BY <3>1 DEF end
  <2>3. rd[p + 2] = Found(LeftFirst(t.left), mid)
    BY <1>16, <1>23, <2>1 DEF ReadBack, L, rd
  <2>4. rd[mid] = Found(LeftFirst(t.right), mid + Len(R))
    BY <1>23, <2>1, <2>2 DEF ReadBack, R, rd
  <2> HIDE DEF mid
  <2>5. rd[p] = Found(Over(shortened, LeftFirst(t.left), LeftFirst(t.right)), end + 1)
    BY <1>8, <1>18, <1>23, <2>2, <2>3, <2>4, Zenon
  <2> QED BY <1>6, <1>16, <1>23, <2>5, Zenon DEF rd
<1> QED BY <1>19, <1>21, <1>22, <1>23

(* For every tree whose nodes the reader can tell apart, read_node gives   *)
(* back what savenode wrote (load_expression.cpp:62-244): every node, in   *)
(* its place but for the side of a single child, wherever in the tree it   *)
(* stands, and it stops behind the last parenthesis.                       *)
THEOREM FileKeepsTrees ==
  ASSUME NEW tree \in Trees[MaxHeight], tree # Nil, AllReadable(tree)
  PROVE  /\ Load(Save(tree)) = LeftFirst(tree)
         /\ Reader(Save(tree))[1].pos = Len(Save(tree)) + 1
<1> DEFINE f == Save(tree)
           S == {t \in Trees[MaxHeight] : t # Nil /\ AllReadable(t) => ReadBack(f, t)}
<1>1. f \in Seq(Written) /\ Len(f) \in Nat
  <2>1. f \in Seq(Written)
    BY SaveType
  <2> HIDE DEF f
  <2> QED BY <2>1
<1> HIDE DEF f
<1>2. Nil \in S
  BY SaveNil
<1>3. ASSUME NEW t \in Trees[MaxHeight], t # Nil, t.left \in S, t.right \in S PROVE t \in S
  <2> SUFFICES ASSUME AllReadable(t) PROVE ReadBack(f, t)
    OBVIOUS
  <2>1. AllReadable(t.left) /\ AllReadable(t.right)
    BY <1>3, ReadableUnfolds, Zenon
  <2>2. (t.left # Nil => ReadBack(f, t.left)) /\ (t.right # Nil => ReadBack(f, t.right))
    BY <1>3, <2>1
  <2> QED BY <1>1, <1>3, <2>2, ReadsNode
<1>4. Trees[MaxHeight] \subseteq S
  <2> HIDE DEF S
  <2> QED BY <1>2, <1>3, TreeInduction
<1>5. ReadBack(f, tree)
  BY <1>4
<1>6. Holds(f, 1, Save(tree))
  <2>1. \A k \in 1..Len(f) : 1 + k - 1 = k
    BY <1>1
  <2>2. Holds(f, 1, f)
    BY <1>1, <2>1 DEF Holds
  <2> QED BY <2>2 DEF f
<1>7. Reader(f)[1] = Found(LeftFirst(tree), 1 + Len(f))
  BY <1>5, <1>6 DEF ReadBack, f
<1>8. Reader(f)[1].node = LeftFirst(tree) /\ Reader(f)[1].pos = 1 + Len(f)
  BY <1>7 DEF Found
<1> QED BY <1>1, <1>8 DEF Load, f

(* A file in which nothing is written holds no tree.                       *)
LEMMA NothingLoaded == Load(<< >>) = Nil
<1> DEFINE f == << >>
<1>1. Len(f) = 0 /\ Len(f) \in Nat /\ 1 \in 1..Len(f) + 1
  OBVIOUS
<1>2. \A l : ~ AtLexeme(f, 1, l)
  BY <1>1 DEF AtLexeme
<1> HIDE DEF f
<1>3. SkipBlanks(f, 1) = 1
  BY <1>1, <1>2, SkipNone
<1>4. Reader(f)[1] = Found(Nil, 1)
  <2>1. Reader(f)[1] = read_node(f, Reader(f), 1)
    BY <1>1, ReaderUnfolds
  <2>2. read_node(f, Reader(f), 1) = Found(Nil, 1)
    BY <1>2, <1>3, Zenon DEF read_node
  <2> QED BY <2>1, <2>2
<1> QED BY <1>4 DEF Load, Found, f

(* The middleend works on the tree the frontend has accepted, whatever the *)
(* tree, if the reader can tell its nodes apart (middleend.cpp:9-40).      *)
THEOREM MiddleendGetsTheTree ==
  ASSUME analysed.ok => analysed.node \in Trees[MaxHeight], loaded = Middleend(analysed)
  PROVE  FileKeepsTree
<1> SUFFICES ASSUME analysed.ok, AllReadable(analysed.node) PROVE loaded = LeftFirst(analysed.node)
  BY DEF FileKeepsTree
<1> DEFINE t == analysed.node
<1>1. t \in Trees[MaxHeight] /\ loaded = Load(Save(t))
  BY DEF Middleend
<1> HIDE DEF t
<1>2. CASE t = Nil
  BY <1>1, <1>2, SaveNil, NothingLoaded DEF t
<1>3. CASE t # Nil
  <2>1. AllReadable(t)
    BY DEF t
  <2>2. Load(Save(t)) = LeftFirst(t)
    BY <1>1, <1>3, <2>1, FileKeepsTrees
  <2> QED BY <1>1, <2>2 DEF t
<1> QED BY <1>2, <1>3

-----------------------------------------------------------------------------
(* collect_variables, one node down: what C holds at a height comes from   *)
(* what it holds one below.                                                *)
Collects(C) ==
  /\ \A n, k, u : collect_variables(n, k, u) = C[MaxHeight][n][k][u]
  /\ \A h \in 0..MaxHeight : \A n \in Trees[h], k \in Nat, u \in Tables :
       C[h][n][k][u] = CollectNode(n, k, u, IF h = 0 THEN << >> ELSE C[h - 1])

(* There is such a C.                                                      *)
LEMMA CollectedUnfolds == \E C : Collects(C)
<1> DEFINE B(g, h) == [n \in Trees[h] |-> [k \in Nat |-> [u \in Tables |->
                         CollectNode(n, k, u, IF h = 0 THEN << >> ELSE g[h - 1])]]]
           Defined == {n \in Nat : \E g : g = [h \in 0..n |-> B(g, h)]}
<1> HIDE DEF B
<1>1. 0 \in Defined
  <2> DEFINE g == [h \in 0..0 |-> B(<< >>, h)]
  <2>1. \A h \in 0..0 : B(<< >>, h) = B(g, h)
    <3>1. B(<< >>, 0) = B(g, 0)
      BY DEF B
    <3> HIDE DEF g
    <3> QED BY <3>1
  <2>2. g = [h \in 0..0 |-> B(g, h)]
    <3> QED BY <2>1
  <2>3. \E f : f = [h \in 0..0 |-> B(f, h)]
    <3> HIDE DEF g
    <3> QED BY <2>2
  <2> QED BY <2>3
<1>2. \A n \in Nat : n \in Defined => n + 1 \in Defined
  <2> SUFFICES ASSUME NEW n \in Nat, n \in Defined PROVE n + 1 \in Defined
    OBVIOUS
  <2>1. PICK g : g = [h \in 0..n |-> B(g, h)]
    OBVIOUS
  <2> DEFINE G == [h \in 0..n + 1 |-> B(g, h)]
  <2>2. \A h \in 0..n : G[h] = g[h]
    <3>1. \A h \in 0..n : h \in 0..n + 1
      OBVIOUS
    <3> QED BY <2>1, <3>1
  <2>3. \A h \in 0..n + 1 : B(g, h) = B(G, h)
    <3> SUFFICES ASSUME NEW h \in 0..n + 1 PROVE B(g, h) = B(G, h)
      OBVIOUS
    <3>1. h = 0 \/ h - 1 \in 0..n
      OBVIOUS
    <3>2. (IF h = 0 THEN << >> ELSE g[h - 1]) = (IF h = 0 THEN << >> ELSE G[h - 1])
      <4> HIDE DEF G
      <4> QED BY <2>2, <3>1
    <3> HIDE DEF G
    <3> QED BY <3>2 DEF B
  <2>4. G = [h \in 0..n + 1 |-> B(G, h)]
    <3> QED BY <2>3
  <2>5. \E f : f = [h \in 0..n + 1 |-> B(f, h)]
    <3> HIDE DEF G
    <3> QED BY <2>4
  <2> QED BY <2>5
<1>3. MaxHeight \in Defined
  <2> HIDE DEF Defined
  <2> QED BY <1>1, <1>2, SetInduction, HeightAssumption
<1> DEFINE C == CHOOSE g : g = [h \in 0..MaxHeight |-> B(g, h)]
<1>4. \A n, k, u : collect_variables(n, k, u) = C[MaxHeight][n][k][u]
  BY DEF collect_variables, B
<1>5. \E g : g = [h \in 0..MaxHeight |-> B(g, h)]
  BY <1>3
<1>6. C = [h \in 0..MaxHeight |-> B(C, h)]
  <2> QED BY <1>5
<1>7. \A h \in 0..MaxHeight : C[h] = B(C, h)
  <2> HIDE DEF C
  <2> QED BY <1>6
<1>8. \A h \in 0..MaxHeight : \A n \in Trees[h], k \in Nat, u \in Tables :
        C[h][n][k][u] = CollectNode(n, k, u, IF h = 0 THEN << >> ELSE C[h - 1])
  <2> HIDE DEF C
  <2> SUFFICES ASSUME NEW h \in 0..MaxHeight, NEW n \in Trees[h], NEW k \in Nat, NEW u \in Tables
               PROVE  C[h][n][k][u] = CollectNode(n, k, u, IF h = 0 THEN << >> ELSE C[h - 1])
    OBVIOUS
  <2> DEFINE below == IF h = 0 THEN << >> ELSE C[h - 1]
  <2>1. C[h] = B(C, h)
    BY <1>7
  <2>2. B(C, h) = [t \in Trees[h] |-> [g \in Nat |-> [w \in Tables |-> CollectNode(t, g, w, below)]]]
    BY DEF B
  <2> HIDE DEF below
  <2>3. C[h][n] = [g \in Nat |-> [w \in Tables |-> CollectNode(n, g, w, below)]]
    BY <2>1, <2>2
  <2>4. C[h][n][k] = [w \in Tables |-> CollectNode(n, k, w, below)]
    BY <2>3
  <2>5. C[h][n][k][u] = CollectNode(n, k, u, below)
    BY <2>4
  <2> QED BY <2>5 DEF below
<1> HIDE DEF C
<1>9. Collects(C)
  BY <1>4, <1>8, Zenon DEF Collects
<1> QED BY <1>9

(* The parameters, one down.                                               *)
CollectsParams(C, f) ==
  /\ \A p, u : CollectParams(p, f, u) = C[MaxHeight][p][u]
  /\ \A h \in 0..MaxHeight : \A p \in Trees[h], u \in Tables :
       C[h][p][u] = CollectParam(p, f, u, IF h = 0 THEN << >> ELSE C[h - 1])

(* There is one for every function.                                        *)
LEMMA ParamsUnfold == \A f : \E C : CollectsParams(C, f)
<1> SUFFICES ASSUME NEW f PROVE \E C : CollectsParams(C, f)
  OBVIOUS
<1> DEFINE B(g, h) == [p \in Trees[h] |-> [u \in Tables |->
                         CollectParam(p, f, u, IF h = 0 THEN << >> ELSE g[h - 1])]]
           Defined == {n \in Nat : \E g : g = [h \in 0..n |-> B(g, h)]}
<1> HIDE DEF B
<1>1. 0 \in Defined
  <2> DEFINE g == [h \in 0..0 |-> B(<< >>, h)]
  <2>1. \A h \in 0..0 : B(<< >>, h) = B(g, h)
    <3>1. B(<< >>, 0) = B(g, 0)
      BY DEF B
    <3> HIDE DEF g
    <3> QED BY <3>1
  <2>2. g = [h \in 0..0 |-> B(g, h)]
    <3> QED BY <2>1
  <2>3. \E q : q = [h \in 0..0 |-> B(q, h)]
    <3> HIDE DEF g
    <3> QED BY <2>2
  <2> QED BY <2>3
<1>2. \A n \in Nat : n \in Defined => n + 1 \in Defined
  <2> SUFFICES ASSUME NEW n \in Nat, n \in Defined PROVE n + 1 \in Defined
    OBVIOUS
  <2>1. PICK g : g = [h \in 0..n |-> B(g, h)]
    OBVIOUS
  <2> DEFINE G == [h \in 0..n + 1 |-> B(g, h)]
  <2>2. \A h \in 0..n : G[h] = g[h]
    <3>1. \A h \in 0..n : h \in 0..n + 1
      OBVIOUS
    <3> QED BY <2>1, <3>1
  <2>3. \A h \in 0..n + 1 : B(g, h) = B(G, h)
    <3> SUFFICES ASSUME NEW h \in 0..n + 1 PROVE B(g, h) = B(G, h)
      OBVIOUS
    <3>1. h = 0 \/ h - 1 \in 0..n
      OBVIOUS
    <3>2. (IF h = 0 THEN << >> ELSE g[h - 1]) = (IF h = 0 THEN << >> ELSE G[h - 1])
      <4> HIDE DEF G
      <4> QED BY <2>2, <3>1
    <3> HIDE DEF G
    <3> QED BY <3>2 DEF B
  <2>4. G = [h \in 0..n + 1 |-> B(G, h)]
    <3> QED BY <2>3
  <2>5. \E q : q = [h \in 0..n + 1 |-> B(q, h)]
    <3> HIDE DEF G
    <3> QED BY <2>4
  <2> QED BY <2>5
<1>3. MaxHeight \in Defined
  <2> HIDE DEF Defined
  <2> QED BY <1>1, <1>2, SetInduction, HeightAssumption
<1> DEFINE C == CHOOSE g : g = [h \in 0..MaxHeight |-> B(g, h)]
<1>4. \A p, u : CollectParams(p, f, u) = C[MaxHeight][p][u]
  BY DEF CollectParams, B
<1>5. \E g : g = [h \in 0..MaxHeight |-> B(g, h)]
  BY <1>3
<1>6. C = [h \in 0..MaxHeight |-> B(C, h)]
  BY <1>5
<1>7. \A h \in 0..MaxHeight : C[h] = B(C, h)
  <2> HIDE DEF C
  <2> QED BY <1>6
<1>8. \A h \in 0..MaxHeight : \A p \in Trees[h], u \in Tables :
        C[h][p][u] = CollectParam(p, f, u, IF h = 0 THEN << >> ELSE C[h - 1])
  <2> HIDE DEF C
  <2> SUFFICES ASSUME NEW h \in 0..MaxHeight, NEW p \in Trees[h], NEW u \in Tables
               PROVE  C[h][p][u] = CollectParam(p, f, u, IF h = 0 THEN << >> ELSE C[h - 1])
    OBVIOUS
  <2> DEFINE below == IF h = 0 THEN << >> ELSE C[h - 1]
  <2>1. C[h] = B(C, h)
    BY <1>7
  <2>2. B(C, h) = [t \in Trees[h] |-> [w \in Tables |-> CollectParam(t, f, w, below)]]
    BY DEF B
  <2> HIDE DEF below
  <2>3. C[h][p] = [w \in Tables |-> CollectParam(p, f, w, below)]
    BY <2>1, <2>2
  <2>4. C[h][p][u] = CollectParam(p, f, u, below)
    BY <2>3
  <2> QED BY <2>4 DEF below
<1> HIDE DEF C
<1>9. CollectsParams(C, f)
  BY <1>4, <1>8, Zenon DEF CollectsParams
<1> QED BY <1>9

-----------------------------------------------------------------------------
(* The index of a node is the place of the variable of that name and that  *)
(* function.                                                               *)
Its(node, f, list) ==
  /\ node.idx \in 0..Len(list) - 1
  /\ list[node.idx + 1].func = f /\ list[node.idx + 1].name = node.name

(* So it is for the parameters of function f, each on the left of the one  *)
(* before ...                                                              *)
ParamsNumbered(p, f, list) ==
  LET its[q \in Trees[MaxHeight]] ==
        IF q = Nil THEN TRUE ELSE (q.kind = "IDENTIFIER" => Its(q, f, list)) /\ its[q.left]
  IN  its[p]

(* ... and for every identifier of a tree in function f, if the functions  *)
(* defined in it have the numbers from lo + 1 to hi, each its own.         *)
NumberedNode(n, list, left, right) ==
  [f \in Nat |-> [lo \in Nat |-> [hi \in Nat |->
     IF IsStatement(n, "func_def")
       THEN /\ lo < hi
            /\ IsStatement(n.left, "params") => ParamsNumbered(n.left.left, lo + 1, list)
            /\ right[lo + 1][lo + 1][hi]
     ELSE /\ n.kind = "IDENTIFIER" => Its(n, f, list)
          /\ \E m \in lo..hi : left[f][lo][m] /\ right[f][m][hi]]]]

Numbered(node, f, lo, hi, list) ==
  LET numbered[n \in Trees[MaxHeight]] ==
        IF n = Nil THEN [g \in Nat |-> [l \in Nat |-> [u \in Nat |-> l = u]]]
        ELSE NumberedNode(n, list, numbered[n.left], numbered[n.right])
  IN  numbered[node][f][lo][hi]

(* ParamsNumbered, one parameter down.                                     *)
LEMMA ParamsNumberedUnfolds ==
  ASSUME NEW f, NEW list
  PROVE  \A t \in Trees[MaxHeight] :
           ParamsNumbered(t, f, list) =
             IF t = Nil THEN TRUE
             ELSE (t.kind = "IDENTIFIER" => Its(t, f, list)) /\ ParamsNumbered(t.left, f, list)
<1> DEFINE B(g, t) ==
             IF t = Nil THEN TRUE ELSE (t.kind = "IDENTIFIER" => Its(t, f, list)) /\ g[t.left]
           D(h) == \E g : g = [t \in Trees[h] |-> B(g, t)]
           Defined == {n \in Nat : n <= MaxHeight => D(n)}
<1>1. 0 \in Defined
  <2>1. Trees[0] = {Nil}
    BY TreesAt
  <2> DEFINE G == [t \in Trees[0] |-> B(<< >>, t)]
  <2>2. \A t \in Trees[0] : B(<< >>, t) = B(G, t)
    <3> HIDE DEF G
    <3> QED BY <2>1
  <2>3. G = [t \in Trees[0] |-> B(G, t)]
    <3> HIDE DEF B
    <3> QED BY <2>2
  <2>4. D(0)
    <3> HIDE DEF B, G
    <3> QED BY <2>3
  <2> QED BY <2>4
<1>2. ASSUME NEW n \in Nat, n \in Defined PROVE n + 1 \in Defined
  <2> SUFFICES ASSUME n + 1 <= MaxHeight PROVE D(n + 1)
    <3> HIDE DEF D
    <3> QED OBVIOUS
  <2>1. n + 1 \in 0..MaxHeight /\ (n + 1) - 1 = n /\ n <= MaxHeight /\ n + 1 \in 1..MaxHeight
    BY HeightAssumption
  <2>2. D(n)
    BY <1>2, <2>1
  <2>3. PICK g : g = [t \in Trees[n] |-> B(g, t)]
    BY <2>2
  <2> DEFINE G == [t \in Trees[n + 1] |-> B(g, t)]
  <2>4. \A t \in Trees[n] : t \in Trees[n + 1]
    BY <2>1, TreesGrow
  <2>5. \A t \in Trees[n] : G[t] = g[t]
    <3> HIDE DEF B
    <3> QED BY <2>3, <2>4
  <2>6. \A t \in Trees[n + 1] : t # Nil => t.left \in Trees[n] /\ t.right \in Trees[n]
    BY <2>1, ChildrenSmaller
  <2>7. \A t \in Trees[n + 1] : B(g, t) = B(G, t)
    <3> HIDE DEF G
    <3> QED BY <2>5, <2>6
  <2>8. G = [t \in Trees[n + 1] |-> B(G, t)]
    <3> HIDE DEF B
    <3> QED BY <2>7
  <2> QED
    <3> HIDE DEF B, G
    <3> QED BY <2>8
<1>3. MaxHeight \in Defined
  <2> HIDE DEF Defined
  <2> QED BY <1>1, <1>2, SetInduction, HeightAssumption
<1> DEFINE F == CHOOSE g : g = [t \in Trees[MaxHeight] |-> B(g, t)]
<1>4. F = [t \in Trees[MaxHeight] |-> B(F, t)]
  <2>1. D(MaxHeight)
    <3> HIDE DEF D
    <3> QED BY <1>3, HeightAssumption
  <2> HIDE DEF B
  <2> QED BY <2>1
<1>5. \A t : ParamsNumbered(t, f, list) = F[t]
  BY DEF ParamsNumbered
<1>6. \A t \in Trees[MaxHeight] : F[t] = B(F, t)
  <2> HIDE DEF B, F
  <2> QED BY <1>4
<1> HIDE DEF F
<1> QED BY <1>5, <1>6


(* Numbered, one node down.                                                *)
LEMMA NumberedUnfolds ==
  ASSUME NEW list
  PROVE  \A t \in Trees[MaxHeight], f \in Nat, lo \in Nat, hi \in Nat :
           Numbered(t, f, lo, hi, list) =
             IF t = Nil THEN lo = hi
             ELSE IF IsStatement(t, "func_def")
               THEN /\ lo < hi
                    /\ IsStatement(t.left, "params") => ParamsNumbered(t.left.left, lo + 1, list)
                    /\ Numbered(t.right, lo + 1, lo + 1, hi, list)
             ELSE /\ t.kind = "IDENTIFIER" => Its(t, f, list)
                  /\ \E m \in lo..hi : Numbered(t.left, f, lo, m, list) /\ Numbered(t.right, f, m, hi, list)
<1> DEFINE B(g, t) ==
             IF t = Nil THEN [f \in Nat |-> [l \in Nat |-> [u \in Nat |-> l = u]]]
             ELSE NumberedNode(t, list, g[t.left], g[t.right])
           D(h) == \E g : g = [t \in Trees[h] |-> B(g, t)]
           Defined == {n \in Nat : n <= MaxHeight => D(n)}
<1>1. 0 \in Defined
  <2>1. Trees[0] = {Nil}
    BY TreesAt
  <2> DEFINE G == [t \in Trees[0] |-> B(<< >>, t)]
  <2>2. \A t \in Trees[0] : B(<< >>, t) = B(G, t)
    <3> HIDE DEF G
    <3> QED BY <2>1
  <2>3. G = [t \in Trees[0] |-> B(G, t)]
    <3> HIDE DEF B
    <3> QED BY <2>2
  <2>4. D(0)
    <3> HIDE DEF B, G
    <3> QED BY <2>3
  <2> QED BY <2>4
<1>2. ASSUME NEW n \in Nat, n \in Defined PROVE n + 1 \in Defined
  <2> SUFFICES ASSUME n + 1 <= MaxHeight PROVE D(n + 1)
    <3> HIDE DEF D
    <3> QED OBVIOUS
  <2>1. n + 1 \in 0..MaxHeight /\ (n + 1) - 1 = n /\ n <= MaxHeight /\ n + 1 \in 1..MaxHeight
    BY HeightAssumption
  <2>2. D(n)
    BY <1>2, <2>1
  <2>3. PICK g : g = [t \in Trees[n] |-> B(g, t)]
    BY <2>2
  <2> DEFINE G == [t \in Trees[n + 1] |-> B(g, t)]
  <2>4. \A t \in Trees[n] : t \in Trees[n + 1]
    BY <2>1, TreesGrow
  <2>5. \A t \in Trees[n] : G[t] = g[t]
    <3> HIDE DEF B
    <3> QED BY <2>3, <2>4
  <2>6. \A t \in Trees[n + 1] : t # Nil => t.left \in Trees[n] /\ t.right \in Trees[n]
    BY <2>1, ChildrenSmaller
  <2>7. \A t \in Trees[n + 1] : B(g, t) = B(G, t)
    <3> HIDE DEF G
    <3> QED BY <2>5, <2>6
  <2>8. G = [t \in Trees[n + 1] |-> B(G, t)]
    <3> HIDE DEF B
    <3> QED BY <2>7
  <2> QED
    <3> HIDE DEF B, G
    <3> QED BY <2>8
<1>3. MaxHeight \in Defined
  <2> HIDE DEF Defined
  <2> QED BY <1>1, <1>2, SetInduction, HeightAssumption
<1> DEFINE F == CHOOSE g : g = [t \in Trees[MaxHeight] |-> B(g, t)]
<1>4. F = [t \in Trees[MaxHeight] |-> B(F, t)]
  <2>1. D(MaxHeight)
    <3> HIDE DEF D
    <3> QED BY <1>3, HeightAssumption
  <2> HIDE DEF B
  <2> QED BY <2>1
<1>5. \A t, f, l, u : Numbered(t, f, l, u, list) = F[t][f][l][u]
  BY DEF Numbered
<1>6. \A t \in Trees[MaxHeight] : F[t] = B(F, t)
  <2> HIDE DEF B, F
  <2> QED BY <1>4
<1> HIDE DEF F
<1> SUFFICES ASSUME NEW t \in Trees[MaxHeight], NEW f \in Nat, NEW lo \in Nat, NEW hi \in Nat
             PROVE  Numbered(t, f, lo, hi, list) =
             IF t = Nil THEN lo = hi
             ELSE IF IsStatement(t, "func_def")
               THEN /\ lo < hi
                    /\ IsStatement(t.left, "params") => ParamsNumbered(t.left.left, lo + 1, list)
                    /\ Numbered(t.right, lo + 1, lo + 1, hi, list)
             ELSE /\ t.kind = "IDENTIFIER" => Its(t, f, list)
                  /\ \E m \in lo..hi : Numbered(t.left, f, lo, m, list) /\ Numbered(t.right, f, m, hi, list)
  OBVIOUS
<1>7. CASE t = Nil
  <2>1. F[t] = [g \in Nat |-> [l \in Nat |-> [u \in Nat |-> l = u]]]
    BY <1>6, <1>7
  <2>2. F[t][f][lo][hi] = (lo = hi)
    BY <2>1
  <2>3. Numbered(t, f, lo, hi, list) = (lo = hi)
    BY <1>5, <2>2
  <2> QED BY <1>7, <2>3
<1>8. CASE t # Nil
  <2> DEFINE V(g, l, u) ==
        IF IsStatement(t, "func_def")
          THEN /\ l < u
               /\ IsStatement(t.left, "params") => ParamsNumbered(t.left.left, l + 1, list)
               /\ F[t.right][l + 1][l + 1][u]
        ELSE /\ t.kind = "IDENTIFIER" => Its(t, g, list)
             /\ \E m \in l..u : F[t.left][g][l][m] /\ F[t.right][g][m][u]
  <2>1. F[t] = NumberedNode(t, list, F[t.left], F[t.right])
    BY <1>6, <1>8
  <2>2. F[t] = [g \in Nat |-> [l \in Nat |-> [u \in Nat |-> V(g, l, u)]]]
    BY <2>1, Zenon DEF NumberedNode
  <2> HIDE DEF V
  <2>3. F[t][f][lo][hi] = V(f, lo, hi)
    BY <2>2
  <2>4. Numbered(t, f, lo, hi, list) = V(f, lo, hi)
    BY <1>5, <2>3
  <2>5. /\ F[t.right][lo + 1][lo + 1][hi] = Numbered(t.right, lo + 1, lo + 1, hi, list)
        /\ \A m : /\ F[t.left][f][lo][m] = Numbered(t.left, f, lo, m, list)
                  /\ F[t.right][f][m][hi] = Numbered(t.right, f, m, hi, list)
    BY <1>5
  <2> QED BY <1>8, <2>4, <2>5, Zenon DEF V
<1> QED BY <1>7, <1>8


-----------------------------------------------------------------------------
(* A table that has grown still holds what it held.                        *)
Grows(v, w) ==
  /\ Len(v.list) <= Len(w.list) /\ v.counter <= w.counter
  /\ \A i \in 1..Len(v.list) : w.list[i] = v.list[i]

(* Growing twice is growing.                                               *)
LEMMA GrowsOn ==
  ASSUME NEW u \in Tables, NEW v \in Tables, NEW w \in Tables, Grows(u, v), Grows(v, w)
  PROVE  Grows(u, w)
<1>1. /\ Len(u.list) \in Nat /\ Len(v.list) \in Nat /\ Len(w.list) \in Nat
      /\ u.counter \in Nat /\ v.counter \in Nat /\ w.counter \in Nat
  BY DEF Tables
<1>2. \A i \in 1..Len(u.list) : i \in 1..Len(v.list)
  BY <1>1 DEF Grows
<1> QED BY <1>1, <1>2 DEF Grows

(* An index stays right while the table grows.                             *)
LEMMA ItsStays ==
  ASSUME NEW v \in Tables, NEW w \in Tables, Grows(v, w), NEW node, NEW f, Its(node, f, v.list)
  PROVE  Its(node, f, w.list)
<1>1. Len(v.list) \in Nat /\ Len(w.list) \in Nat
  BY DEF Tables
<1>2. node.idx \in 0..Len(v.list) - 1 /\ Len(v.list) <= Len(w.list)
  BY DEF Its, Grows
<1>3. node.idx + 1 \in 1..Len(v.list) /\ node.idx \in 0..Len(w.list) - 1
  BY <1>1, <1>2
<1>4. w.list[node.idx + 1] = v.list[node.idx + 1]
  BY <1>3 DEF Grows
<1> QED BY <1>3, <1>4 DEF Its

(* add_variable only adds, and numbers no function.                        *)
LEMMA AddingGrows ==
  ASSUME NEW v, IsTable(v), NEW f \in 0..v.counter, NEW name \in STRING, NEW param \in BOOLEAN
  PROVE  LET w == add_variable(v, f, name, param) IN Grows(v, w) /\ w.counter = v.counter
<1> DEFINE entry == [name |-> name, func |-> f, param |-> param]
<1>1. v \in Tables /\ v.list \in Seq(Entries) /\ Len(v.list) \in Nat /\ v.counter \in Nat
  BY DEF IsTable, Tables
<1>2. CASE Find(v.list, f, name) # -1
  BY <1>1, <1>2 DEF add_variable, Grows
<1>3. CASE Find(v.list, f, name) = -1
  <2>1. entry \in Entries
    BY <1>1 DEF Entries
  <2>2. add_variable(v, f, name, param) = [v EXCEPT !.list = Append(v.list, entry)]
    BY <1>3 DEF add_variable
  <2> HIDE DEF entry
  <2>3. /\ Len(Append(v.list, entry)) = Len(v.list) + 1
        /\ \A i \in 1..Len(v.list) : Append(v.list, entry)[i] = v.list[i]
    BY <1>1, <2>1
  <2> DEFINE w == [v EXCEPT !.list = Append(v.list, entry)]
  <2>4. w.list = Append(v.list, entry) /\ w.counter = v.counter
    BY <1>1 DEF Tables
  <2> HIDE DEF w
  <2>5. Grows(v, w)
    BY <1>1, <2>3, <2>4 DEF Grows
  <2> QED BY <2>2, <2>4, <2>5 DEF w
<1> QED BY <1>2, <1>3

(* A node with another index, and one with other children.                 *)
LEMMA IndexedNode ==
  ASSUME NEW trees, NEW n \in NodesOver(trees), NEW v, IsTable(v), NEW f,
         Find(v.list, f, n.name) # -1
  PROVE  /\ Indexed(n, v.list, f) \in NodesOver(trees)
         /\ Indexed(n, v.list, f).kind = n.kind /\ Indexed(n, v.list, f).what = n.what
         /\ Indexed(n, v.list, f).left = n.left /\ Indexed(n, v.list, f).right = n.right
         /\ Its(Indexed(n, v.list, f), f, v.list)
<1> DEFINE i == Find(v.list, f, n.name)
           m == [n EXCEPT !.idx = i]
<1>1. Len(v.list) \in Nat /\ IsList(v.list)
  BY DEF IsTable, Tables
<1>2. i \in -1..Len(v.list) - 1 /\ i # -1
  BY <1>1, FindFinds
<1>3. i \in 0..Len(v.list) - 1 /\ i + 1 \in 1..Len(v.list) /\ (i + 1) - 1 = i
  BY <1>1, <1>2
<1>4. v.list[i + 1].func = f /\ v.list[i + 1].name = n.name
  <2>1. (i + 1) - 1 = Find(v.list, f, n.name)
    BY <1>3
  <2> HIDE DEF i
  <2> QED BY <1>1, <1>3, <2>1, FindFinds
<1> HIDE DEF i
<1>5. i \in Int
  BY <1>3
<1>6. /\ m \in NodesOver(trees) /\ m.kind = n.kind /\ m.what = n.what /\ m.name = n.name
      /\ m.left = n.left /\ m.right = n.right /\ m.idx = i
  BY <1>5 DEF NodesOver
<1> HIDE DEF m
<1>7. Indexed(n, v.list, f) = m
  BY DEF Indexed, m, i
<1>8. Its(m, f, v.list)
  BY <1>3, <1>4, <1>6 DEF Its
<1> QED BY <1>6, <1>7, <1>8

IsOver(o, n, a, b) ==
  /\ o.kind = n.kind /\ o.what = n.what /\ o.name = n.name /\ o.idx = n.idx
  /\ o.left = a /\ o.right = b

(* A node over other children is a node with these children.               *)
LEMMA NodeOver ==
  ASSUME NEW trees, NEW n \in NodesOver(trees), NEW a \in trees, NEW b \in trees
  PROVE  Over(n, a, b) \in NodesOver(trees) /\ IsOver(Over(n, a, b), n, a, b)
<1> DEFINE m == [n EXCEPT !.left = a]
           o == [m EXCEPT !.right = b]
<1>1. n = [kind |-> n.kind, what |-> n.what, name |-> n.name, idx |-> n.idx, num |-> n.num,
           chars |-> n.chars, left |-> n.left, right |-> n.right]
      /\ n.kind \in Kinds /\ n.what \in STRING /\ n.name \in STRING /\ n.idx \in Int /\ n.num \in Int
      /\ n.chars \in Seq(Int)
  BY DEF NodesOver
<1>4. Over(n, a, b) = o
  BY DEF Over
<1>2. m = [kind |-> n.kind, what |-> n.what, name |-> n.name, idx |-> n.idx, num |-> n.num,
           chars |-> n.chars, left |-> a, right |-> n.right]
  BY <1>1
<1> HIDE DEF m
<1>3. o = [kind |-> n.kind, what |-> n.what, name |-> n.name, idx |-> n.idx, num |-> n.num,
           chars |-> n.chars, left |-> a, right |-> b]
  BY <1>2
<1> HIDE DEF o
<1>5. o \in NodesOver(trees)
  BY <1>1, <1>3 DEF NodesOver
<1>6. IsOver(o, n, a, b)
  BY <1>3 DEF IsOver
<1> QED BY <1>4, <1>5, <1>6

(* ... with another left child ...                                         *)
LEMMA NodeWithLeft ==
  ASSUME NEW trees, NEW n \in NodesOver(trees), NEW a \in trees
  PROVE  /\ [n EXCEPT !.left = a] \in NodesOver(trees)
         /\ [n EXCEPT !.left = a].kind = n.kind /\ [n EXCEPT !.left = a].what = n.what
         /\ [n EXCEPT !.left = a].name = n.name /\ [n EXCEPT !.left = a].idx = n.idx
         /\ [n EXCEPT !.left = a].left = a /\ [n EXCEPT !.left = a].right = n.right
BY DEF NodesOver

(* ... and with another right child.                                       *)
LEMMA NodeWithRight ==
  ASSUME NEW trees, NEW n \in NodesOver(trees), NEW a \in trees
  PROVE  /\ [n EXCEPT !.right = a] \in NodesOver(trees)
         /\ [n EXCEPT !.right = a].kind = n.kind /\ [n EXCEPT !.right = a].what = n.what
         /\ [n EXCEPT !.right = a].name = n.name /\ [n EXCEPT !.right = a].idx = n.idx
         /\ [n EXCEPT !.right = a].right = a /\ [n EXCEPT !.right = a].left = n.left
BY DEF NodesOver

(* A node is not the NULL pointer.                                         *)
LEMMA NodeNotNil ==
  ASSUME NEW trees, NEW n \in NodesOver(trees)
  PROVE  n # Nil
<1>1. n.kind \in Kinds
  BY DEF NodesOver
<1>2. Nil.kind = "nil"
  BY DEF Nil
<1> QED BY <1>1, <1>2 DEF Kinds

(* A tree of a height is one of every greater height.                      *)
LEMMA TreesMonotone == \A k, h \in 0..MaxHeight : k <= h => Trees[k] \subseteq Trees[h]
<1> DEFINE Apart == {d \in Nat : \A k \in Nat : k + d <= MaxHeight => Trees[k] \subseteq Trees[k + d]}
<1>1. 0 \in Apart
  OBVIOUS
<1>2. ASSUME NEW d \in Nat, d \in Apart PROVE d + 1 \in Apart
  <2> SUFFICES ASSUME NEW k \in Nat, k + (d + 1) <= MaxHeight PROVE Trees[k] \subseteq Trees[k + (d + 1)]
    OBVIOUS
  <2>1. k + (d + 1) \in 1..MaxHeight /\ (k + (d + 1)) - 1 = k + d /\ k + d <= MaxHeight
    BY HeightAssumption
  <2>2. Trees[k + d] \subseteq Trees[k + (d + 1)]
    BY <2>1, TreesGrow
  <2>3. Trees[k] \subseteq Trees[k + d]
    BY <1>2, <2>1
  <2> QED BY <2>2, <2>3
<1>3. \A d \in Nat : d \in Apart
  <2> HIDE DEF Apart
  <2> QED BY <1>1, <1>2, SetInduction
<1> SUFFICES ASSUME NEW k \in 0..MaxHeight, NEW h \in 0..MaxHeight, k <= h PROVE Trees[k] \subseteq Trees[h]
  OBVIOUS
<1>4. h - k \in Nat /\ k + (h - k) = h /\ k \in Nat /\ h <= MaxHeight
  BY HeightAssumption
<1>5. h - k \in Apart
  BY <1>3, <1>4
<1> QED BY <1>4, <1>5

(* A node over trees of a height is a tree of the next one.                *)
LEMMA NodeIsTree ==
  ASSUME NEW h \in 1..MaxHeight, NEW n \in NodesOver(Trees[h - 1])
  PROVE  n \in Trees[h] /\ n \in Trees[MaxHeight] /\ n # Nil
<1>1. n \in Trees[h]
  BY TreesAt
<1>2. h \in 0..MaxHeight /\ MaxHeight \in 0..MaxHeight /\ h <= MaxHeight
  BY HeightAssumption
<1> QED BY <1>1, <1>2, TreesMonotone, NodeNotNil

(* The empty tree is a tree of every height.                               *)
LEMMA NilIsTree == \A h \in 0..MaxHeight : Nil \in Trees[h]
<1>1. \A h \in 0..MaxHeight : 0 \in 0..MaxHeight /\ 0 <= h
  BY HeightAssumption
<1> QED BY <1>1, TreesAt, TreesMonotone

-----------------------------------------------------------------------------
(* What collecting the parameters p of f comes to.                         *)
ParamsKept(r, h, f, v) ==
  /\ r.ok = TRUE /\ r.node \in Trees[h] /\ IsTable(r.st) /\ Grows(v, r.st) /\ r.st.counter = v.counter
  /\ \A w \in Tables : Grows(r.st, w) => ParamsNumbered(r.node, f, w.list)

(* A table that stays as it is has grown.                                  *)
LEMMA GrowsItself == \A v : v \in Tables => Grows(v, v)
<1>1. \A v : v \in Tables => Len(v.list) \in Nat /\ v.counter \in Nat
  BY DEF Tables
<1> QED BY <1>1 DEF Grows

(* So it is for a result that is put together of such a tree and table.    *)
LEMMA ParamsAre ==
  ASSUME NEW h, NEW f, NEW v, NEW n \in Trees[h], NEW s, IsTable(s), Grows(v, s), s.counter = v.counter,
         \A w \in Tables : Grows(s, w) => ParamsNumbered(n, f, w.list)
  PROVE  ParamsKept(Good(n, s), h, f, v)
<1> DEFINE r == Good(n, s)
<1>1. r.ok = TRUE /\ r.node = n /\ r.st = s
  BY DEF Good
<1> HIDE DEF r
<1>2. ParamsKept(r, h, f, v)
  BY <1>1, Zenon DEF ParamsKept
<1> QED BY <1>2 DEF r

(* A function without parameters.                                          *)
LEMMA NoParams ==
  ASSUME NEW h \in 0..MaxHeight, NEW f, NEW v, IsTable(v)
  PROVE  ParamsKept(Good(Nil, v), h, f, v)
<1>1. v \in Tables /\ Nil \in Trees[h] /\ Nil \in Trees[MaxHeight]
  <2>1. MaxHeight \in 0..MaxHeight
    BY HeightAssumption
  <2> QED BY <2>1, NilIsTree DEF IsTable
<1>2. \A w : ParamsNumbered(Nil, f, w.list)
  BY <1>1, ParamsNumberedUnfolds
<1>3. Grows(v, v)
  BY <1>1, GrowsItself
<1> QED BY <1>1, <1>2, <1>3, ParamsAre

(* A parameter, if what hangs on its left keeps what it must.              *)
LEMMA OneParam ==
  ASSUME NEW h \in 1..MaxHeight, NEW f \in Nat \ {0}, NEW p \in NodesOver(Trees[h - 1]),
         NEW v, IsTable(v), f <= v.counter, NEW below,
         \A w : IsTable(w) /\ f <= w.counter => ParamsKept(below[p.left][w], h - 1, f, w)
  PROVE  ParamsKept(CollectParam(p, f, v, below), h, f, v)
<1> DEFINE is == p.kind = "IDENTIFIER"
           w  == IF is THEN add_variable(v, f, p.name, TRUE) ELSE v
           q  == IF is THEN Indexed(p, w.list, f) ELSE p
           r  == below[p.left][w]
           m  == [q EXCEPT !.left = r.node]
<1>1. v \in Tables /\ v.counter \in Nat /\ p # Nil /\ f \in 0..v.counter /\ p.name \in STRING
  <2>1. v \in Tables /\ v.counter \in Nat
    BY DEF IsTable, Tables
  <2> QED BY <2>1, NodeNotNil DEF NodesOver
<1>2. CollectParam(p, f, v, below) = Good(m, r.st)
  BY <1>1 DEF CollectParam
<1>3. /\ IsTable(w) /\ w.counter = v.counter /\ Grows(v, w)
      /\ q \in NodesOver(Trees[h - 1]) /\ q.kind = p.kind
      /\ q.kind = "IDENTIFIER" => Its(q, f, w.list)
  <2>1. CASE is
    <3>1. w = add_variable(v, f, p.name, TRUE) /\ q = Indexed(p, w.list, f)
      BY <2>1
    <3>2. TRUE \in BOOLEAN /\ f # 0
      OBVIOUS
    <3> HIDE DEF w, q
    <3>3. IsTable(w) /\ Find(w.list, f, p.name) # -1
      BY <1>1, <3>1, <3>2, AddingKeepsIndices
    <3>4. Grows(v, w) /\ w.counter = v.counter
      BY <1>1, <3>1, <3>2, AddingGrows
    <3>5. q \in NodesOver(Trees[h - 1]) /\ q.kind = p.kind /\ Its(q, f, w.list)
      <4>1. /\ Indexed(p, w.list, f) \in NodesOver(Trees[h - 1])
            /\ Indexed(p, w.list, f).kind = p.kind
            /\ Its(Indexed(p, w.list, f), f, w.list)
        BY <3>3, IndexedNode
      <4> QED BY <3>1, <4>1
    <3> QED BY <3>3, <3>4, <3>5
  <2>2. CASE ~ is
    <3>1. w = v /\ q = p /\ p.kind # "IDENTIFIER"
      BY <2>2
    <3> HIDE DEF w, q
    <3> QED BY <1>1, <3>1, GrowsItself
  <2> QED BY <2>1, <2>2
<1> HIDE DEF is, w, q
<1>4. ParamsKept(r, h - 1, f, w)
  BY <1>1, <1>3
<1> HIDE DEF r
<1>5. r.node \in Trees[h - 1] /\ IsTable(r.st) /\ r.st \in Tables /\ w \in Tables /\ Grows(w, r.st) /\ r.st.counter = v.counter
  BY <1>3, <1>4 DEF ParamsKept, IsTable
<1>6. m \in NodesOver(Trees[h - 1]) /\ m.kind = q.kind /\ m.name = q.name /\ m.idx = q.idx /\ m.left = r.node
  BY <1>3, <1>5, NodeWithLeft
<1> HIDE DEF m
<1>7. m \in Trees[h] /\ m \in Trees[MaxHeight] /\ m # Nil
  BY <1>6, NodeIsTree
<1>8. Grows(v, r.st)
  BY <1>1, <1>3, <1>5, GrowsOn
<1>9. ASSUME NEW t \in Tables, Grows(r.st, t) PROVE ParamsNumbered(m, f, t.list)
  <2>1. ParamsNumbered(m.left, f, t.list)
    BY <1>4, <1>6, <1>9 DEF ParamsKept
  <2>2. ASSUME m.kind = "IDENTIFIER" PROVE Its(m, f, t.list)
    <3>1. Its(q, f, w.list)
      BY <1>3, <1>6, <2>2
    <3>2. Grows(w, t)
      BY <1>5, <1>9, GrowsOn
    <3>3. Its(q, f, t.list)
      BY <1>5, <3>1, <3>2, ItsStays
    <3> QED BY <1>6, <3>3 DEF Its
  <2> QED BY <1>7, <2>1, <2>2, ParamsNumberedUnfolds
<1> QED BY <1>2, <1>5, <1>7, <1>8, <1>9, ParamsAre

(* The parameters of function f, its own number, are all put into the     *)
(* table and given their index there.                                      *)
LEMMA ParamsKeep ==
  ASSUME NEW f \in Nat \ {0}, NEW k \in 0..MaxHeight, NEW p \in Trees[k], NEW v, IsTable(v), f <= v.counter
  PROVE  ParamsKept(CollectParams(p, f, v), k, f, v)
<1>0. PICK C : CollectsParams(C, f)
  BY ParamsUnfold
<1>1. /\ \A t, u : CollectParams(t, f, u) = C[MaxHeight][t][u]
      /\ \A h \in 0..MaxHeight : \A t \in Trees[h], u \in Tables :
           C[h][t][u] = CollectParam(t, f, u, IF h = 0 THEN << >> ELSE C[h - 1])
  BY <1>0, Zenon DEF CollectsParams
<1> DEFINE Keeps(h) == \A j \in 0..h : \A t \in Trees[j] : \A u :
                         IsTable(u) /\ f <= u.counter => ParamsKept(C[h][t][u], j, f, u)
           Proved == {h \in Nat : h <= MaxHeight => Keeps(h)}
<1>2. ASSUME NEW h \in 0..MaxHeight, NEW u, IsTable(u) PROVE C[h][Nil][u] = Good(Nil, u)
  <2>1. Nil \in Trees[h] /\ u \in Tables
    BY <1>2, NilIsTree DEF IsTable
  <2>2. C[h][Nil][u] = CollectParam(Nil, f, u, IF h = 0 THEN << >> ELSE C[h - 1])
    BY <1>1, <2>1
  <2> QED BY <2>2 DEF CollectParam
<1>3. 0 \in Proved
  <2> SUFFICES ASSUME NEW j \in 0..0, NEW t \in Trees[j], NEW u, IsTable(u), f <= u.counter
               PROVE  ParamsKept(C[0][t][u], j, f, u)
    OBVIOUS
  <2>1. j = 0 /\ t = Nil /\ 0 \in 0..MaxHeight
    BY TreesAt, HeightAssumption
  <2> QED BY <1>2, <2>1, NoParams
<1>4. ASSUME NEW n \in Nat, n \in Proved PROVE n + 1 \in Proved
  <2> SUFFICES ASSUME n + 1 <= MaxHeight PROVE Keeps(n + 1)
    <3> HIDE DEF Keeps
    <3> QED OBVIOUS
  <2> SUFFICES ASSUME NEW j \in 0..n + 1, NEW t \in Trees[j], NEW u, IsTable(u), f <= u.counter
               PROVE  ParamsKept(C[n + 1][t][u], j, f, u)
    OBVIOUS
  <2>1. n + 1 \in 0..MaxHeight /\ (n + 1) - 1 = n /\ n + 1 # 0 /\ j \in 0..MaxHeight /\ n <= MaxHeight
    BY HeightAssumption
  <2>2. CASE t = Nil
    BY <1>2, <2>1, <2>2, NoParams
  <2>3. CASE t # Nil
    <3>1. j \in 1..MaxHeight /\ t \in NodesOver(Trees[j - 1])
      BY <2>1, <2>3, TreesAt
    <3>2. t \in Trees[n + 1] /\ u \in Tables
      <4>1. j <= n + 1
        OBVIOUS
      <4> QED BY <2>1, <4>1, TreesMonotone DEF IsTable
    <3>3. C[n + 1][t][u] = CollectParam(t, f, u, C[n])
      BY <1>1, <2>1, <3>2
    <3>4. t.left \in Trees[j - 1] /\ j - 1 \in 0..n
      BY <3>1 DEF NodesOver
    <3>5. \A w : IsTable(w) /\ f <= w.counter => ParamsKept(C[n][t.left][w], j - 1, f, w)
      BY <1>4, <2>1, <3>4
    <3> QED BY <3>1, <3>3, <3>5, OneParam
  <2> QED BY <2>2, <2>3
<1>5. MaxHeight \in Proved
  <2> HIDE DEF Proved
  <2> QED BY <1>3, <1>4, SetInduction, HeightAssumption
<1>6. ParamsKept(C[MaxHeight][p][v], k, f, v)
  BY <1>5, HeightAssumption
<1> QED BY <1>1, <1>6

(* What collecting the variables of a tree in f comes to: an error, or a   *)
(* tree whose identifiers have their variables' indices.                   *)
Kept(r, h, f, v) ==
  /\ r.ok \in BOOLEAN
  /\ r.ok = TRUE =>
       /\ r.node \in Trees[h] /\ IsTable(r.st) /\ Grows(v, r.st)
       /\ \A w \in Tables : Grows(r.st, w) => Numbered(r.node, f, v.counter, r.st.counter, w.list)

(* A result that is put together of such a tree and table.                 *)
LEMMA KeptIs ==
  ASSUME NEW h, NEW f, NEW v, NEW n \in Trees[h], NEW s, IsTable(s), Grows(v, s),
         \A w \in Tables : Grows(s, w) => Numbered(n, f, v.counter, s.counter, w.list)
  PROVE  Kept(Good(n, s), h, f, v)
<1> DEFINE r == Good(n, s)
<1>1. r.ok = TRUE /\ r.node = n /\ r.st = s /\ r.ok \in BOOLEAN
  BY DEF Good
<1> HIDE DEF r
<1>2. Kept(r, h, f, v)
  BY <1>1, Zenon DEF Kept
<1> QED BY <1>2 DEF r

(* An error.                                                               *)
LEMMA KeptNot == ASSUME NEW h, NEW f, NEW v PROVE Kept(Bad, h, f, v)
BY DEF Kept, Bad

(* Functions are never numbered anew.                                      *)
LEMMA CountersGrow ==
  ASSUME NEW v \in Tables, NEW w \in Tables, Grows(v, w)
  PROVE  v.counter \in Nat /\ w.counter \in Nat /\ v.counter <= w.counter
BY DEF Tables, Grows

(* The two children of a node that stands in f as they do.                 *)
LEMMA ChildrenKept ==
  ASSUME NEW h \in 1..MaxHeight, NEW f \in Nat, NEW v \in Tables, NEW m \in NodesOver(Trees[h - 1]),
         NEW s, IsTable(s), f <= s.counter, Grows(v, s), s.counter = v.counter,
         ~ IsStatement(m, "func_def"), m.kind = "IDENTIFIER" => Its(m, f, s.list), NEW below,
         \A t \in Trees[h - 1] : \A w : IsTable(w) /\ f <= w.counter => Kept(below[t][f][w], h - 1, f, w)
  PROVE  Kept(CollectChildren(Good(m, s), f, below), h, f, v)
<1> DEFINE a == below[m.left][f][s]
           b == below[m.right][f][a.st]
           o == Over(m, a.node, b.node)
<1>1. CollectChildren(Good(m, s), f, below) = IF a.ok THEN IF b.ok THEN Good(o, b.st) ELSE Bad ELSE Bad
  <2>1. Good(m, s).node = m /\ Good(m, s).st = s
    BY DEF Good
  <2> QED BY <2>1, Zenon DEF CollectChildren, Both
<1>2. m.left \in Trees[h - 1] /\ m.right \in Trees[h - 1] /\ s \in Tables
  BY DEF NodesOver, IsTable
<1>3. Kept(a, h - 1, f, s)
  BY <1>2
<1>4. CASE ~ a.ok
  <2>1. CollectChildren(Good(m, s), f, below) = Bad
    BY <1>1, <1>4, Zenon
  <2> QED BY <2>1, KeptNot
<1>5. CASE a.ok
  <2> HIDE DEF a
  <2>1. a.ok = TRUE
    BY <1>3, <1>5 DEF Kept
  <2>2. /\ a.node \in Trees[h - 1] /\ IsTable(a.st) /\ Grows(s, a.st) /\ a.st \in Tables
        /\ \A w \in Tables : Grows(a.st, w) => Numbered(a.node, f, s.counter, a.st.counter, w.list)
    BY <1>3, <2>1, Zenon DEF Kept, IsTable
  <2>3. f <= a.st.counter /\ v.counter <= a.st.counter /\ a.st.counter \in Nat /\ v.counter \in Nat
    BY <1>2, <2>2, CountersGrow
  <2>4. Kept(b, h - 1, f, a.st)
    BY <1>2, <2>2, <2>3
  <2>5. CASE ~ b.ok
    <3>1. CollectChildren(Good(m, s), f, below) = Bad
      BY <1>1, <1>5, <2>5, Zenon
    <3> QED BY <3>1, KeptNot
  <2>6. CASE b.ok
    <3>0. CollectChildren(Good(m, s), f, below) = Good(o, b.st)
      BY <1>1, <1>5, <2>6, Zenon
    <3> HIDE DEF b
    <3>1. b.ok = TRUE
      BY <2>4, <2>6 DEF Kept
    <3>2. /\ b.node \in Trees[h - 1] /\ IsTable(b.st) /\ Grows(a.st, b.st) /\ b.st \in Tables
          /\ \A w \in Tables : Grows(b.st, w) => Numbered(b.node, f, a.st.counter, b.st.counter, w.list)
      BY <2>4, <3>1, Zenon DEF Kept, IsTable
    <3>3. /\ o \in NodesOver(Trees[h - 1]) /\ o.kind = m.kind /\ o.what = m.what /\ o.name = m.name
          /\ o.idx = m.idx /\ o.left = a.node /\ o.right = b.node
      <4>1. m \in NodesOver(Trees[h - 1]) /\ a.node \in Trees[h - 1] /\ b.node \in Trees[h - 1]
        BY <2>2, <3>2
      <4>2. o \in NodesOver(Trees[h - 1]) /\ IsOver(o, m, a.node, b.node)
        BY <4>1, NodeOver
      <4> HIDE DEF o
      <4> QED BY <4>2 DEF IsOver
    <3> HIDE DEF o
    <3>4. o \in Trees[h] /\ o \in Trees[MaxHeight] /\ o # Nil /\ ~ IsStatement(o, "func_def")
      <4>1. ~ IsStatement(o, "func_def")
        BY <3>3 DEF IsStatement
      <4> QED BY <3>3, <4>1, NodeIsTree
    <3>5. Grows(s, b.st) /\ Grows(v, b.st)
      <4>1. Grows(s, b.st)
        BY <1>2, <2>2, <3>2, GrowsOn
      <4> QED BY <1>2, <3>2, <4>1, GrowsOn
    <3>6. a.st.counter <= b.st.counter /\ b.st.counter \in Nat
      BY <2>2, <3>2, CountersGrow
    <3>7. ASSUME NEW w \in Tables, Grows(b.st, w)
          PROVE  Numbered(o, f, v.counter, b.st.counter, w.list)
      <4>1. Numbered(o.right, f, a.st.counter, b.st.counter, w.list)
        BY <3>2, <3>3, <3>7
      <4>2. Grows(a.st, w) /\ Grows(s, w)
        <5>1. Grows(a.st, w)
          BY <2>2, <3>2, <3>7, GrowsOn
        <5> QED BY <1>2, <2>2, <5>1, GrowsOn
      <4>3. Numbered(o.left, f, v.counter, a.st.counter, w.list)
        BY <2>2, <3>3, <4>2
      <4>4. a.st.counter \in v.counter..b.st.counter
        BY <2>3, <3>6
      <4>5. o.kind = "IDENTIFIER" => Its(o, f, w.list)
        <5> SUFFICES ASSUME o.kind = "IDENTIFIER" PROVE Its(o, f, w.list)
          OBVIOUS
        <5>1. Its(m, f, s.list)
          BY <3>3
        <5>2. Its(m, f, w.list)
          BY <1>2, <4>2, <5>1, ItsStays
        <5> QED BY <3>3, <5>2 DEF Its
      <4>6. \E k \in v.counter..b.st.counter :
              Numbered(o.left, f, v.counter, k, w.list) /\ Numbered(o.right, f, k, b.st.counter, w.list)
        BY <4>1, <4>3, <4>4, Zenon
      <4> QED BY <2>3, <3>4, <3>6, <4>5, <4>6, NumberedUnfolds, Zenon
    <3>8. Kept(Good(o, b.st), h, f, v)
      BY <3>2, <3>4, <3>5, <3>7, KeptIs
    <3> QED BY <3>0, <3>8
  <2> QED BY <2>5, <2>6
<1> QED BY <1>4, <1>5

(* The next number a function gets.                                        *)
LEMMA NextFunction ==
  ASSUME NEW v, IsTable(v)
  PROVE  LET w == [v EXCEPT !.counter = v.counter + 1] IN
         IsTable(w) /\ Grows(v, w) /\ w.counter = v.counter + 1 /\ v.counter \in Nat
<1> DEFINE w == [v EXCEPT !.counter = v.counter + 1]
<1>1. v \in Tables /\ v.list \in Seq(Entries) /\ Len(v.list) \in Nat /\ v.counter \in Nat
  BY DEF IsTable, Tables
<1>2. w \in Tables /\ w.list = v.list /\ w.counter = v.counter + 1
  BY <1>1 DEF Tables
<1> HIDE DEF w
<1>3. Grows(v, w)
  BY <1>1, <1>2 DEF Grows
<1>4. \A i \in 1..Len(v.list) : v.list[i].func <= v.counter /\ v.list[i].func \in Nat
  <2>1. \A i \in 1..Len(v.list) : v.list[i] \in Entries
    BY <1>1
  <2>2. \A i \in 1..Len(v.list) : v.list[i].func \in Nat
    BY <2>1 DEF Entries
  <2> QED BY <2>2 DEF IsTable
<1>5. \A i \in 1..Len(v.list) : v.list[i].func <= v.counter + 1
  BY <1>1, <1>4
<1>6. IsTable(w)
  BY <1>2, <1>5 DEF IsTable
<1> QED BY <1>1, <1>2, <1>3, <1>6 DEF w

(* A definition of the function g with its parameters in the table.        *)
ParamsIn(r, n, trees, g, u) ==
  /\ r.node \in NodesOver(trees) /\ r.node.kind = n.kind /\ r.node.what = n.what
  /\ r.node.right = n.right
  /\ IsTable(r.st) /\ Grows(u, r.st) /\ r.st.counter = u.counter
  /\ \A w \in Tables : Grows(r.st, w) =>
       (IsStatement(r.node.left, "params") => ParamsNumbered(r.node.left.left, g, w.list))

(* Adding the parameters of a definition numbers them in its function.     *)
LEMMA WithParamsKeeps ==
  ASSUME NEW h \in 1..MaxHeight, NEW n \in NodesOver(Trees[h - 1]), NEW u, IsTable(u),
         NEW g \in Nat \ {0}, g <= u.counter
  PROVE  ParamsIn(WithParams(n, g, u), n, Trees[h - 1], g, u)
<1>0. h - 1 \in 0..MaxHeight /\ n.left \in Trees[h - 1] /\ u \in Tables
  BY HeightAssumption DEF NodesOver, IsTable
<1>1. CASE ~ IsStatement(n.left, "params")
  <2> DEFINE r == Good(n, u)
  <2>1. WithParams(n, g, u) = r
    BY <1>1, Zenon DEF WithParams
  <2>2. r.node = n /\ r.st = u
    BY DEF Good
  <2> HIDE DEF r
  <2>3. Grows(u, u)
    BY <1>0, GrowsItself
  <2>4. ParamsIn(r, n, Trees[h - 1], g, u)
    BY <1>1, <2>2, <2>3, Zenon DEF ParamsIn
  <2> QED BY <2>1, <2>4
<1>2. CASE IsStatement(n.left, "params")
  <2> DEFINE p == CollectParams(n.left.left, g, u)
             l == [n.left EXCEPT !.left = p.node]
             m == [n EXCEPT !.left = l]
             r == Good(m, p.st)
  <2>1. WithParams(n, g, u) = r
    <3>1. WithParams(n, g, u) = Good([n EXCEPT !.left.left = p.node], p.st)
      BY <1>2, Zenon DEF WithParams
    <3>2. [n EXCEPT !.left.left = p.node] = m
      OBVIOUS
    <3> HIDE DEF m, p
    <3> QED BY <3>1, <3>2
  <2>2. n.left # Nil
    <3>1. n.left.kind = "STATEMENT"
      BY <1>2 DEF IsStatement
    <3> QED BY <3>1 DEF Nil
  <2>3. h - 1 \in 1..MaxHeight /\ n.left \in NodesOver(Trees[(h - 1) - 1])
        /\ n.left.left \in Trees[(h - 1) - 1] /\ (h - 1) - 1 \in 0..MaxHeight
    <3>1. h - 1 # 0
      BY <1>0, <2>2, TreesAt
    <3>2. h - 1 \in 1..MaxHeight
      BY <1>0, <3>1
    <3> QED BY <1>0, <2>2, <3>2, ChildrenSmaller
  <2>4. ParamsKept(p, (h - 1) - 1, g, u)
    BY <2>3, ParamsKeep
  <2> HIDE DEF p
  <2>5. p.node \in Trees[(h - 1) - 1] /\ IsTable(p.st) /\ Grows(u, p.st) /\ p.st.counter = u.counter
    BY <2>4, Zenon DEF ParamsKept
  <2>6. l \in NodesOver(Trees[(h - 1) - 1]) /\ l.left = p.node
    BY <2>3, <2>5, NodeWithLeft
  <2> HIDE DEF l
  <2>7. l \in Trees[h - 1]
    BY <2>3, <2>6, NodeIsTree
  <2>8. /\ m \in NodesOver(Trees[h - 1]) /\ m.kind = n.kind /\ m.what = n.what
        /\ m.left = l /\ m.right = n.right
    BY <2>7, NodeWithLeft
  <2> HIDE DEF m
  <2>9. \A w \in Tables : Grows(p.st, w) => ParamsNumbered(m.left.left, g, w.list)
    BY <2>4, <2>6, <2>8, Zenon DEF ParamsKept
  <2>10. r.node = m /\ r.st = p.st
    BY DEF Good
  <2> HIDE DEF r
  <2>11. ParamsIn(r, n, Trees[h - 1], g, u)
    BY <2>5, <2>8, <2>9, <2>10, Zenon DEF ParamsIn
  <2> QED BY <2>1, <2>11
<1> QED BY <1>1, <1>2

(* A function with its body.                                               *)
LEMMA FunctionKept ==
  ASSUME NEW h \in 1..MaxHeight, NEW f \in Nat, NEW v, IsTable(v), NEW n \in NodesOver(Trees[h - 1]),
         IsStatement(n, "func_def"), NEW below,
         \A t \in Trees[h - 1], g \in Nat : \A w :
           IsTable(w) /\ g <= w.counter => Kept(below[t][g][w], h - 1, g, w)
  PROVE  Kept(CollectFunction(n, v, below), h, f, v)
<1> DEFINE g == v.counter + 1
           u == [v EXCEPT !.counter = g]
           r == WithParams(n, g, u)
           b == below[n.right][g][r.st]
           o == [r.node EXCEPT !.right = b.node]
<1>1. IsTable(u) /\ Grows(v, u) /\ u.counter = g /\ v.counter \in Nat /\ g \in Nat \ {0}
      /\ v \in Tables /\ u \in Tables
  <2>1. IsTable(u) /\ Grows(v, u) /\ u.counter = g /\ v.counter \in Nat
    BY NextFunction
  <2>2. g \in Nat \ {0}
    BY <2>1
  <2> QED BY <2>1, <2>2 DEF IsTable
<1>2. ParamsIn(r, n, Trees[h - 1], g, u)
  <2> HIDE DEF u
  <2>1. g <= u.counter
    BY <1>1
  <2> HIDE DEF g
  <2> QED BY <1>1, <2>1, WithParamsKeeps
<1>3. CollectFunction(n, v, below) = IF b.ok THEN Good(o, b.st) ELSE Bad
  BY Zenon DEF CollectFunction
<1> HIDE DEF r, u, g
<1>4. /\ r.node \in NodesOver(Trees[h - 1]) /\ r.node.kind = n.kind /\ r.node.what = n.what
      /\ r.node.right = n.right /\ IsTable(r.st) /\ Grows(u, r.st) /\ r.st.counter = u.counter
  BY <1>2, Zenon DEF ParamsIn
<1>5. n.right \in Trees[h - 1] /\ r.st \in Tables /\ g <= r.st.counter
  BY <1>1, <1>4 DEF NodesOver, IsTable
<1>6. Kept(b, h - 1, g, r.st)
  BY <1>1, <1>4, <1>5
<1>7. CASE ~ b.ok
  <2>1. CollectFunction(n, v, below) = Bad
    BY <1>3, <1>4, <1>7, Zenon
  <2> QED BY <2>1, KeptNot
<1>8. CASE b.ok
  <2>0. CollectFunction(n, v, below) = Good(o, b.st)
    BY <1>3, <1>4, <1>8, Zenon
  <2> HIDE DEF b
  <2>1. b.ok = TRUE
    BY <1>6, <1>8 DEF Kept
  <2>2. /\ b.node \in Trees[h - 1] /\ IsTable(b.st) /\ Grows(r.st, b.st) /\ b.st \in Tables
        /\ \A w \in Tables : Grows(b.st, w) => Numbered(b.node, g, r.st.counter, b.st.counter, w.list)
    BY <1>6, <2>1, Zenon DEF Kept, IsTable
  <2>3. /\ o \in NodesOver(Trees[h - 1]) /\ o.kind = n.kind /\ o.what = n.what
        /\ o.left = r.node.left /\ o.right = b.node
    BY <1>4, <2>2, NodeWithRight
  <2> HIDE DEF o
  <2>4. o \in Trees[h] /\ o \in Trees[MaxHeight] /\ o # Nil /\ IsStatement(o, "func_def")
    <3>1. IsStatement(o, "func_def")
      BY <2>3 DEF IsStatement
    <3> QED BY <2>3, <3>1, NodeIsTree
  <2>5. Grows(v, b.st)
    <3>1. Grows(u, b.st)
      BY <1>1, <1>4, <1>5, <2>2, GrowsOn
    <3> QED BY <1>1, <2>2, <3>1, GrowsOn
  <2>6. v.counter < b.st.counter /\ b.st.counter \in Nat /\ g = v.counter + 1 /\ r.st.counter = g
    <3>1. r.st.counter <= b.st.counter /\ b.st.counter \in Nat
      BY <1>5, <2>2, CountersGrow
    <3>2. g = v.counter + 1
      BY DEF g
    <3> QED BY <1>1, <1>4, <3>1, <3>2
  <2>7. ASSUME NEW w \in Tables, Grows(b.st, w)
        PROVE  Numbered(o, f, v.counter, b.st.counter, w.list)
    <3>1. Numbered(o.right, g, g, b.st.counter, w.list)
      BY <2>2, <2>3, <2>6, <2>7
    <3>2. Grows(r.st, w)
      BY <1>5, <2>2, <2>7, GrowsOn
    <3>3. IsStatement(o.left, "params") => ParamsNumbered(o.left.left, g, w.list)
      BY <1>2, <2>3, <3>2, Zenon DEF ParamsIn
    <3>4. /\ v.counter < b.st.counter
          /\ IsStatement(o.left, "params") => ParamsNumbered(o.left.left, v.counter + 1, w.list)
          /\ Numbered(o.right, v.counter + 1, v.counter + 1, b.st.counter, w.list)
      BY <2>6, <3>1, <3>3
    <3> QED BY <1>1, <2>4, <2>6, <3>4, NumberedUnfolds, Zenon
  <2>8. Kept(Good(o, b.st), h, f, v)
    BY <2>2, <2>4, <2>5, <2>7, KeptIs
  <2> QED BY <2>0, <2>8
<1> QED BY <1>7, <1>8

(* The variable an assignment is about is put into the table.              *)
LEMMA WithVariableKeeps ==
  ASSUME NEW h \in 1..MaxHeight, NEW n \in NodesOver(Trees[h - 1]), NEW v, IsTable(v), NEW f \in 0..v.counter
  PROVE  LET r == WithVariable(n, f, v) IN
         \E m, s :
           /\ m \in NodesOver(Trees[h - 1]) /\ r = Good(m, s) /\ m.kind = n.kind /\ m.what = n.what
           /\ IsTable(s) /\ Grows(v, s) /\ s.counter = v.counter
<1> DEFINE r == WithVariable(n, f, v)
           is == n.kind = "STATEMENT" /\ n.what \in {"assignment", "var_def"} /\ n.left.kind = "IDENTIFIER"
<1>0. h - 1 \in 0..MaxHeight /\ n.left \in Trees[h - 1] /\ v \in Tables
  BY HeightAssumption DEF NodesOver, IsTable
<1>1. CASE ~ is
  <2>1. r = Good(n, v)
    BY <1>1, Zenon DEF WithVariable
  <2>2. Grows(v, v)
    BY <1>0, GrowsItself
  <2> HIDE DEF r
  <2> QED BY <2>1, <2>2, Zenon DEF r
<1>2. CASE is
  <2> DEFINE w == add_variable(v, f, n.left.name, FALSE)
             l == Indexed(n.left, w.list, f)
             m == [n EXCEPT !.left = l]
  <2>1. r = Good(m, w)
    BY <1>2, Zenon DEF WithVariable
  <2>2. n.left # Nil
    <3>1. n.left.kind = "IDENTIFIER"
      BY <1>2
    <3> QED BY <3>1 DEF Nil
  <2>3. h - 1 \in 1..MaxHeight /\ n.left \in NodesOver(Trees[(h - 1) - 1])
    <3>1. h - 1 # 0
      BY <1>0, <2>2, TreesAt
    <3>2. h - 1 \in 1..MaxHeight
      BY <1>0, <3>1
    <3> QED BY <1>0, <2>2, <3>2, ChildrenSmaller
  <2>4. n.left.name \in STRING
    BY <2>3 DEF NodesOver
  <2>5. IsTable(w) /\ Find(w.list, f, n.left.name) # -1
    <3>1. FALSE \in BOOLEAN /\ (FALSE => f # 0)
      OBVIOUS
    <3> QED BY <2>4, <3>1, AddingKeepsIndices
  <2>6. Grows(v, w) /\ w.counter = v.counter
    <3>1. FALSE \in BOOLEAN
      OBVIOUS
    <3> QED BY <2>4, <3>1, AddingGrows
  <2> HIDE DEF w
  <2>7. l \in Trees[h - 1]
    <3>1. l \in NodesOver(Trees[(h - 1) - 1])
      BY <2>3, <2>5, IndexedNode
    <3> HIDE DEF l
    <3> QED BY <2>3, <3>1, NodeIsTree
  <2> HIDE DEF l
  <2>8. m \in NodesOver(Trees[h - 1]) /\ m.kind = n.kind /\ m.what = n.what
    BY <2>7, NodeWithLeft
  <2> HIDE DEF m, r
  <2> QED BY <2>1, <2>5, <2>6, <2>8, Zenon DEF r
<1> QED BY <1>1, <1>2

(* A node, if collecting below it keeps what it must.                      *)
LEMMA NodeKept ==
  ASSUME NEW h \in 1..MaxHeight, NEW f \in Nat, NEW v, IsTable(v), f <= v.counter,
         NEW n \in NodesOver(Trees[h - 1]), NEW below,
         \A t \in Trees[h - 1], g \in Nat : \A w :
           IsTable(w) /\ g <= w.counter => Kept(below[t][g][w], h - 1, g, w)
  PROVE  Kept(CollectNode(n, f, v, below), h, f, v)
<1>0. v \in Tables /\ Grows(v, v) /\ n # Nil /\ f \in 0..v.counter /\ v.counter \in Nat
  <2>1. v \in Tables /\ v.counter \in Nat
    BY DEF IsTable, Tables
  <2>2. f \in 0..v.counter
    BY <2>1
  <2> QED BY <2>1, <2>2, GrowsItself, NodeNotNil
<1>1. CASE n.kind = "IDENTIFIER"
  <2>1. CASE Find(v.list, f, n.name) = -1
    <3>1. CollectNode(n, f, v, below) = Bad
      BY <1>0, <1>1, <2>1, Zenon DEF CollectNode
    <3> QED BY <3>1, KeptNot
  <2>2. CASE Find(v.list, f, n.name) # -1
    <3> DEFINE m == Indexed(n, v.list, f)
    <3>1. CollectNode(n, f, v, below) = CollectChildren(Good(m, v), f, below)
      BY <1>0, <1>1, <2>2, Zenon DEF CollectNode
    <3>2. m \in NodesOver(Trees[h - 1]) /\ m.kind = n.kind /\ Its(m, f, v.list)
      BY <2>2, IndexedNode
    <3> HIDE DEF m
    <3>3. ~ IsStatement(m, "func_def")
      BY <1>1, <3>2 DEF IsStatement
    <3>4. Kept(CollectChildren(Good(m, v), f, below), h, f, v)
      BY <1>0, <3>2, <3>3, ChildrenKept
    <3> QED BY <3>1, <3>4
  <2> QED BY <2>1, <2>2
<1>2. CASE n.kind # "IDENTIFIER" /\ IsStatement(n, "func_def")
  <2>1. CollectNode(n, f, v, below) = CollectFunction(n, v, below)
    BY <1>0, <1>2, Zenon DEF CollectNode
  <2> QED BY <1>2, <2>1, FunctionKept
<1>3. CASE n.kind # "IDENTIFIER" /\ ~ IsStatement(n, "func_def")
  <2>1. CollectNode(n, f, v, below) = CollectChildren(WithVariable(n, f, v), f, below)
    BY <1>0, <1>3, Zenon DEF CollectNode
  <2>2. PICK m, s :
          /\ m \in NodesOver(Trees[h - 1]) /\ WithVariable(n, f, v) = Good(m, s) /\ m.kind = n.kind /\ m.what = n.what
          /\ IsTable(s) /\ Grows(v, s) /\ s.counter = v.counter
    BY <1>0, WithVariableKeeps
  <2>3. ~ IsStatement(m, "func_def") /\ m.kind # "IDENTIFIER" /\ f <= s.counter
    BY <1>3, <2>2 DEF IsStatement
  <2>4. Kept(CollectChildren(Good(m, s), f, below), h, f, v)
    BY <1>0, <2>2, <2>3, ChildrenKept
  <2> QED BY <2>1, <2>2, <2>4
<1> QED BY <1>1, <1>2, <1>3

(* collect_variables turns a table into a table that has grown, and a tree *)
(* into one whose identifiers all have their variables' indices in it.     *)
LEMMA CollectKeeps ==
  ASSUME NEW tree \in Trees[MaxHeight], NEW f \in Nat, NEW v, IsTable(v), f <= v.counter
  PROVE  Kept(collect_variables(tree, f, v), MaxHeight, f, v)
<1>0. PICK C : Collects(C)
  BY CollectedUnfolds
<1>1. /\ \A n, k, u : collect_variables(n, k, u) = C[MaxHeight][n][k][u]
      /\ \A h \in 0..MaxHeight : \A n \in Trees[h], k \in Nat, u \in Tables :
           C[h][n][k][u] = CollectNode(n, k, u, IF h = 0 THEN << >> ELSE C[h - 1])
  BY <1>0, Zenon DEF Collects
<1> DEFINE Keeps(h) == \A t \in Trees[h], g \in Nat : \A u :
                         IsTable(u) /\ g <= u.counter => Kept(C[h][t][g][u], h, g, u)
           Proved == {h \in Nat : h <= MaxHeight => Keeps(h)}
<1>2. ASSUME NEW h \in 0..MaxHeight, NEW g \in Nat, NEW u, IsTable(u) PROVE Kept(C[h][Nil][g][u], h, g, u)
  <2>1. Nil \in Trees[h] /\ Nil \in Trees[MaxHeight] /\ u \in Tables /\ u.counter \in Nat
    <3>1. MaxHeight \in 0..MaxHeight
      BY HeightAssumption
    <3> QED BY <1>2, <3>1, NilIsTree DEF IsTable, Tables
  <2>2. C[h][Nil][g][u] = CollectNode(Nil, g, u, IF h = 0 THEN << >> ELSE C[h - 1])
    BY <1>1, <2>1
  <2>3. C[h][Nil][g][u] = Good(Nil, u)
    BY <2>2 DEF CollectNode
  <2>4. \A w : Numbered(Nil, g, u.counter, u.counter, w.list)
    BY <2>1, NumberedUnfolds, Zenon
  <2>5. Grows(u, u)
    BY <2>1, GrowsItself
  <2>6. Kept(Good(Nil, u), h, g, u)
    BY <1>2, <2>1, <2>4, <2>5, KeptIs
  <2> QED BY <2>3, <2>6
<1>3. 0 \in Proved
  <2> SUFFICES ASSUME NEW t \in Trees[0], NEW g \in Nat, NEW u, IsTable(u), g <= u.counter
               PROVE  Kept(C[0][t][g][u], 0, g, u)
    OBVIOUS
  <2>1. t = Nil /\ 0 \in 0..MaxHeight
    BY TreesAt, HeightAssumption
  <2> QED BY <1>2, <2>1
<1>4. ASSUME NEW n \in Nat, n \in Proved PROVE n + 1 \in Proved
  <2> SUFFICES ASSUME n + 1 <= MaxHeight PROVE Keeps(n + 1)
    <3> HIDE DEF Keeps
    <3> QED OBVIOUS
  <2> SUFFICES ASSUME NEW t \in Trees[n + 1], NEW g \in Nat, NEW u, IsTable(u), g <= u.counter
               PROVE  Kept(C[n + 1][t][g][u], n + 1, g, u)
    OBVIOUS
  <2>1. n + 1 \in 0..MaxHeight /\ n + 1 \in 1..MaxHeight /\ (n + 1) - 1 = n /\ n + 1 # 0 /\ n <= MaxHeight
    BY HeightAssumption
  <2>2. CASE t = Nil
    BY <1>2, <2>1, <2>2
  <2>3. CASE t # Nil
    <3>1. t \in NodesOver(Trees[n]) /\ u \in Tables
      BY <2>1, <2>3, TreesAt DEF IsTable
    <3>2. C[n + 1][t][g][u] = CollectNode(t, g, u, C[n])
      BY <1>1, <2>1, <3>1
    <3>3. \A s \in Trees[n], k \in Nat : \A w :
            IsTable(w) /\ k <= w.counter => Kept(C[n][s][k][w], n, k, w)
      BY <1>4, <2>1
    <3>4. Kept(CollectNode(t, g, u, C[n]), n + 1, g, u)
      BY <2>1, <3>1, <3>3, NodeKept
    <3> QED BY <3>2, <3>4
  <2> QED BY <2>2, <2>3
<1>5. MaxHeight \in Proved
  <2> HIDE DEF Proved
  <2> QED BY <1>3, <1>4, SetInduction, HeightAssumption
<1>6. Kept(C[MaxHeight][tree][f][v], MaxHeight, f, v)
  BY <1>5, HeightAssumption
<1> QED BY <1>1, <1>6

(* Every identifier that collect_variables lets through (backend_variables *)
(* .cpp:172-252) has the index of the variable of its name and of the      *)
(* function it stands in, however many variables and functions come into   *)
(* the table behind it, and the table is one in which no function has two  *)
(* variables of a name.                                                    *)
THEOREM IdentifiersHaveTheirVariables ==
  ASSUME NEW tree \in Trees[MaxHeight], NEW c, c = collect_variables(tree, 0, NoVariables), c.ok
  PROVE  /\ c.node \in Trees[MaxHeight] /\ IsTable(c.st)
         /\ Numbered(c.node, 0, 0, c.st.counter, c.st.list)
<1>1. IsTable(NoVariables) /\ NoVariables.counter = 0
  BY FirstTable DEF NoVariables
<1>2. Kept(c, MaxHeight, 0, NoVariables)
  BY <1>1, CollectKeeps
<1>3. c.ok = TRUE
  BY <1>2 DEF Kept
<1>4. /\ c.node \in Trees[MaxHeight] /\ IsTable(c.st)
      /\ \A w \in Tables : Grows(c.st, w) => Numbered(c.node, 0, NoVariables.counter, c.st.counter, w.list)
  BY <1>2, <1>3, Zenon DEF Kept
<1>5. c.st \in Tables /\ Grows(c.st, c.st)
  BY <1>4, GrowsItself DEF IsTable
<1>6. Numbered(c.node, 0, 0, c.st.counter, c.st.list)
  BY <1>1, <1>4, <1>5
<1> QED BY <1>4, <1>6

(* The slots of a translation lie apart and in the frame they are meant    *)
(* for: the translation uses the table collect_variables has left it, or   *)
(* none before that has run (translate_to_nasm.cpp:44-56); nothing behind  *)
(* it changes the table.                                                   *)
THEOREM SlotsStayInFrame ==
  ASSUME NEW tree \in Trees[MaxHeight], NEW c, c = collect_variables(tree, 0, NoVariables),
         compiled.end = "open" => compiled.vars = << >> \/ (c.ok /\ compiled.vars = c.st.list)
  PROVE  SlotsInFrame
<1> SUFFICES ASSUME compiled.end = "open"
             PROVE  IsList(compiled.vars) /\ SlotsApart(compiled.vars) /\ SlotsWithin(compiled.vars)
  BY DEF SlotsInFrame
<1>1. IsList(compiled.vars)
  <2>1. CASE compiled.vars = << >>
    <3>1. IsList(<< >>)
      BY DEF IsList
    <3> QED BY <2>1, <3>1
  <2>2. CASE c.ok /\ compiled.vars = c.st.list
    BY <2>2, IdentifiersHaveTheirVariables DEF IsTable
  <2> QED BY <2>1, <2>2
<1> QED BY <1>1, SlotsLieApart, SlotsLieWithin

-----------------------------------------------------------------------------
(* The steps a path in a tree is made of.                                  *)
Sides == {"left", "right"}

(* A path one node further up.                                             *)
LEMMA DownFacts ==
  ASSUME NEW s \in Sides, NEW p \in Seq(Sides)
  PROVE  /\ <<s>> \o p \in Seq(Sides) /\ Len(<<s>> \o p) = Len(p) + 1 /\ Len(p) \in Nat
         /\ (<<s>> \o p)[1] = s /\ \A i \in 1..Len(p) : (<<s>> \o p)[i + 1] = p[i]
         /\ <<s>> \o p # << >>
<1>1. <<s>> \in Seq(Sides) /\ Len(<<s>>) = 1 /\ <<s>>[1] = s
  OBVIOUS
<1> DEFINE q == <<s>> \o p
<1>2. /\ q \in Seq(Sides) /\ Len(q) = Len(p) + 1 /\ Len(p) \in Nat
      /\ \A i \in 1..Len(q) : q[i] = IF i <= 1 THEN <<s>>[i] ELSE p[i - 1]
  BY <1>1
<1> HIDE DEF q
<1>3. q[1] = s /\ q # << >>
  BY <1>1, <1>2
<1>4. \A i \in 1..Len(p) : i + 1 \in 1..Len(q) /\ ~ (i + 1 <= 1) /\ (i + 1) - 1 = i
  BY <1>2
<1> QED BY <1>2, <1>3, <1>4 DEF q

(* Two paths one node further up are the same only if they were.           *)
LEMMA DownApart ==
  ASSUME NEW s \in Sides, NEW t \in Sides, NEW p \in Seq(Sides), NEW q \in Seq(Sides),
         <<s>> \o p = <<t>> \o q
  PROVE  s = t /\ p = q
<1>1. s = t /\ Len(p) = Len(q)
  BY DownFacts
<1>2. \A i \in 1..Len(p) : p[i] = q[i]
  BY <1>1, DownFacts
<1> QED BY <1>1, <1>2

(* What lies below what, one node further up.                              *)
LEMMA BelowDown ==
  ASSUME NEW s \in Sides, NEW t \in Sides, NEW p \in Seq(Sides), NEW q \in Seq(Sides)
  PROVE  /\ Below(<<s>> \o p, <<t>> \o q) <=> s = t /\ Below(p, q)
         /\ Below(p, << >>) /\ ~ Below(<< >>, <<t>> \o q)
<1> DEFINE a == <<s>> \o p
           b == <<t>> \o q
<1>1. /\ Len(a) = Len(p) + 1 /\ Len(b) = Len(q) + 1 /\ Len(p) \in Nat /\ Len(q) \in Nat
      /\ a[1] = s /\ b[1] = t /\ \A i \in 1..Len(p) : a[i + 1] = p[i]
      /\ \A i \in 1..Len(q) : b[i + 1] = q[i]
  BY DownFacts
<1> HIDE DEF a, b
<1>2. ASSUME Below(a, b) PROVE s = t /\ Below(p, q)
  <2>1. Len(q) <= Len(p) /\ a[1] = b[1]
    BY <1>1, <1>2 DEF Below
  <2>2. \A i \in 1..Len(q) : i + 1 \in 1..Len(b) /\ i \in 1..Len(p)
    BY <1>1, <2>1
  <2>3. \A i \in 1..Len(q) : p[i] = q[i]
    BY <1>1, <1>2, <2>2 DEF Below
  <2> QED BY <1>1, <2>1, <2>3 DEF Below
<1>3. ASSUME s = t, Below(p, q) PROVE Below(a, b)
  <2>1. Len(b) <= Len(a) /\ a[1] = b[1]
    BY <1>1, <1>3 DEF Below
  <2>2. \A i \in 1..Len(b) : i = 1 \/ (i - 1 \in 1..Len(q) /\ i - 1 \in 1..Len(p) /\ (i - 1) + 1 = i)
    BY <1>1, <2>1
  <2>3. \A i \in 1..Len(q) : p[i] = q[i]
    BY <1>3 DEF Below
  <2>4. ASSUME NEW i \in 1..Len(b) PROVE a[i] = b[i]
    <3>1. CASE i = 1
      BY <2>1, <3>1
    <3>2. CASE i # 1
      BY <1>1, <2>2, <2>3, <3>2
    <3> QED BY <3>1, <3>2
  <2> QED BY <2>1, <2>4 DEF Below
<1>4. Below(p, << >>) /\ ~ Below(<< >>, b)
  BY <1>1 DEF Below
<1> QED BY <1>2, <1>3, <1>4 DEF a, b

(* At is the last of the nodes on the way.                                 *)
Way(n, path, a) == a[0] = n /\ \A k \in 1..Len(path) : a[k] = a[k - 1][path[k]]

(* There is such a way, and At is its end.                                 *)
LEMMA AtWay ==
  ASSUME NEW n, NEW path \in Seq(Sides)
  PROVE  \E a : At(n, path) = a[Len(path)] /\ Way(n, path, a)
<1> DEFINE B(g, k) == IF k = 0 THEN n ELSE g[k - 1][path[k]]
           Defined == {m \in Nat : \E g : g = [k \in 0..m |-> B(g, k)]}
<1>1. 0 \in Defined
  <2> DEFINE g == [k \in 0..0 |-> n]
  <2>1. g = [k \in 0..0 |-> B(g, k)]
    OBVIOUS
  <2>2. \E f : f = [k \in 0..0 |-> B(f, k)]
    <3> HIDE DEF B, g
    <3> QED BY <2>1
  <2> QED BY <2>2
<1>2. \A m \in Nat : m \in Defined => m + 1 \in Defined
  <2> SUFFICES ASSUME NEW m \in Nat, m \in Defined PROVE m + 1 \in Defined
    OBVIOUS
  <2>1. PICK g : g = [k \in 0..m |-> B(g, k)]
    OBVIOUS
  <2> DEFINE G == [k \in 0..m + 1 |-> B(g, k)]
  <2>2. \A k \in 0..m : G[k] = g[k]
    <3>1. \A k \in 0..m : k \in 0..m + 1
      OBVIOUS
    <3> HIDE DEF B
    <3> QED BY <2>1, <3>1
  <2>3. \A k \in 0..m + 1 : B(g, k) = B(G, k)
    <3>1. \A k \in 0..m + 1 : k = 0 \/ k - 1 \in 0..m
      OBVIOUS
    <3> HIDE DEF G
    <3> QED BY <2>2, <3>1
  <2>4. G = [k \in 0..m + 1 |-> B(G, k)]
    <3> HIDE DEF B
    <3> QED BY <2>3
  <2>5. \E f : f = [k \in 0..m + 1 |-> B(f, k)]
    <3> HIDE DEF B, G
    <3> QED BY <2>4
  <2> QED BY <2>5
<1>3. Len(path) \in Nat
  OBVIOUS
<1>4. Len(path) \in Defined
  <2> HIDE DEF Defined
  <2> QED BY <1>1, <1>2, <1>3, SetInduction
<1> DEFINE a == CHOOSE g : g = [k \in 0..Len(path) |-> B(g, k)]
<1>5. At(n, path) = a[Len(path)]
  BY DEF At
<1>6. a = [k \in 0..Len(path) |-> B(a, k)]
  <2> HIDE DEF B
  <2> QED BY <1>4
<1> HIDE DEF a
<1>7. \A k \in 0..Len(path) : a[k] = B(a, k)
  <2> HIDE DEF B
  <2> QED BY <1>6
<1>8. 0 \in 0..Len(path) /\ \A k \in 1..Len(path) : k \in 0..Len(path) /\ k # 0
  BY <1>3
<1>9. Way(n, path, a)
  BY <1>7, <1>8 DEF Way
<1> QED BY <1>5, <1>9

(* The way is determined step by step.                                     *)
LEMMA AtDown ==
  ASSUME NEW n, NEW s \in Sides, NEW p \in Seq(Sides)
  PROVE  At(n, << >>) = n /\ At(n, <<s>> \o p) = At(n[s], p)
<1> DEFINE path == <<s>> \o p
<1>1. /\ path \in Seq(Sides) /\ Len(path) = Len(p) + 1 /\ Len(p) \in Nat
      /\ path[1] = s /\ \A i \in 1..Len(p) : path[i + 1] = p[i]
  BY DownFacts
<1> HIDE DEF path
<1>2. PICK a : At(n, path) = a[Len(path)] /\ Way(n, path, a)
  BY <1>1, AtWay
<1>3. PICK b : At(n[s], p) = b[Len(p)] /\ Way(n[s], p, b)
  BY AtWay
<1> DEFINE Alike == {k \in Nat : k <= Len(p) => a[k + 1] = b[k]}
<1>4. 0 \in Alike
  <2>1. 1 \in 1..Len(path) /\ 1 - 1 = 0 /\ 0 + 1 = 1
    BY <1>1
  <2>2. a[1] = a[0][path[1]] /\ a[0] = n /\ b[0] = n[s]
    BY <1>2, <1>3, <2>1 DEF Way
  <2> QED BY <1>1, <2>2
<1>5. ASSUME NEW k \in Nat, k \in Alike PROVE k + 1 \in Alike
  <2> SUFFICES ASSUME k + 1 <= Len(p) PROVE a[(k + 1) + 1] = b[k + 1]
    OBVIOUS
  <2>1. /\ k <= Len(p) /\ k + 1 \in 1..Len(p) /\ (k + 1) + 1 \in 1..Len(path)
        /\ (k + 1) - 1 = k /\ ((k + 1) + 1) - 1 = k + 1
    BY <1>1
  <2>2. a[(k + 1) + 1] = a[k + 1][path[(k + 1) + 1]]
    BY <1>2, <2>1 DEF Way
  <2>3. b[k + 1] = b[k][p[k + 1]]
    BY <1>3, <2>1 DEF Way
  <2>4. path[(k + 1) + 1] = p[k + 1]
    BY <1>1, <2>1
  <2>5. a[k + 1] = b[k]
    BY <1>5, <2>1
  <2> QED BY <2>2, <2>3, <2>4, <2>5
<1>6. Len(p) \in Alike
  <2> HIDE DEF Alike
  <2> QED BY <1>1, <1>4, <1>5, SetInduction
<1>7. At(n, path) = At(n[s], p)
  BY <1>1, <1>2, <1>3, <1>6
<1>8. At(n, << >>) = n
  <2>1. << >> \in Seq(Sides) /\ Len(<< >>) = 0
    OBVIOUS
  <2>2. PICK c : At(n, << >>) = c[Len(<< >>)] /\ Way(n, << >>, c)
    BY <2>1, AtWay
  <2> QED BY <2>1, <2>2 DEF Way
<1> QED BY <1>7, <1>8 DEF path

-----------------------------------------------------------------------------
(* The paths of a tree are those of its children, one node further up.     *)
LEMMA PathsUnfold ==
  \A t \in Trees[MaxHeight] :
    Paths(t) = IF t = Nil THEN {}
               ELSE {<< >>} \union Down("left", Paths(t.left)) \union Down("right", Paths(t.right))
<1> DEFINE B(g, t) ==
             IF t = Nil THEN {}
             ELSE {<< >>} \union Down("left", g[t.left]) \union Down("right", g[t.right])
           D(h) == \E g : g = [t \in Trees[h] |-> B(g, t)]
           Defined == {n \in Nat : n <= MaxHeight => D(n)}
<1>1. 0 \in Defined
  <2>1. Trees[0] = {Nil}
    BY TreesAt
  <2> DEFINE G == [t \in Trees[0] |-> B(<< >>, t)]
  <2>2. \A t \in Trees[0] : B(<< >>, t) = B(G, t)
    <3> HIDE DEF G
    <3> QED BY <2>1
  <2>3. G = [t \in Trees[0] |-> B(G, t)]
    <3> HIDE DEF B
    <3> QED BY <2>2
  <2>4. D(0)
    <3> HIDE DEF B, G
    <3> QED BY <2>3
  <2> QED BY <2>4
<1>2. ASSUME NEW n \in Nat, n \in Defined PROVE n + 1 \in Defined
  <2> SUFFICES ASSUME n + 1 <= MaxHeight PROVE D(n + 1)
    <3> HIDE DEF D
    <3> QED OBVIOUS
  <2>1. n + 1 \in 0..MaxHeight /\ (n + 1) - 1 = n /\ n <= MaxHeight /\ n + 1 \in 1..MaxHeight
    BY HeightAssumption
  <2>2. D(n)
    BY <1>2, <2>1
  <2>3. PICK g : g = [t \in Trees[n] |-> B(g, t)]
    BY <2>2
  <2> DEFINE G == [t \in Trees[n + 1] |-> B(g, t)]
  <2>4. \A t \in Trees[n] : t \in Trees[n + 1]
    BY <2>1, TreesGrow
  <2>5. \A t \in Trees[n] : G[t] = g[t]
    <3> HIDE DEF B
    <3> QED BY <2>3, <2>4
  <2>6. \A t \in Trees[n + 1] : t # Nil => t.left \in Trees[n] /\ t.right \in Trees[n]
    BY <2>1, ChildrenSmaller
  <2>7. \A t \in Trees[n + 1] : B(g, t) = B(G, t)
    <3> HIDE DEF G
    <3> QED BY <2>5, <2>6
  <2>8. G = [t \in Trees[n + 1] |-> B(G, t)]
    <3> HIDE DEF B
    <3> QED BY <2>7
  <2> QED
    <3> HIDE DEF B, G
    <3> QED BY <2>8
<1>3. MaxHeight \in Defined
  <2> HIDE DEF Defined
  <2> QED BY <1>1, <1>2, SetInduction, HeightAssumption
<1> DEFINE F == CHOOSE g : g = [t \in Trees[MaxHeight] |-> B(g, t)]
<1>4. F = [t \in Trees[MaxHeight] |-> B(F, t)]
  <2>1. D(MaxHeight)
    <3> HIDE DEF D
    <3> QED BY <1>3, HeightAssumption
  <2> HIDE DEF B
  <2> QED BY <2>1
<1>5. \A t : Paths(t) = F[t]
  BY DEF Paths
<1>6. \A t \in Trees[MaxHeight] : F[t] = B(F, t)
  <2> HIDE DEF B, F
  <2> QED BY <1>4
<1> HIDE DEF F
<1> QED BY <1>5, <1>6

(* A child is a tree like its parent.                                      *)
LEMMA ChildrenAreTrees ==
  ASSUME NEW n \in Trees[MaxHeight], n # Nil
  PROVE  n.left \in Trees[MaxHeight] /\ n.right \in Trees[MaxHeight]
BY ChildrenSmaller, HeightAssumption

(* A path is a sequence of sides.                                          *)
LEMMA PathsType == \A t \in Trees[MaxHeight] : Paths(t) \subseteq Seq(Sides)
<1> DEFINE S == {t \in Trees[MaxHeight] : Paths(t) \subseteq Seq(Sides)}
<1>1. Nil \in S
  BY PathsUnfold, NilIsTree, HeightAssumption
<1>2. ASSUME NEW t \in Trees[MaxHeight], t # Nil, t.left \in S, t.right \in S PROVE t \in S
  <2>1. Paths(t) = {<< >>} \union Down("left", Paths(t.left)) \union Down("right", Paths(t.right))
    BY <1>2, PathsUnfold
  <2>2. << >> \in Seq(Sides)
    OBVIOUS
  <2>3. Down("left", Paths(t.left)) \subseteq Seq(Sides) /\ Down("right", Paths(t.right)) \subseteq Seq(Sides)
    <3>1. "left" \in Sides /\ "right" \in Sides
      BY DEF Sides
    <3>2. \A p \in Paths(t.left) \union Paths(t.right) : <<"left">> \o p \in Seq(Sides) /\ <<"right">> \o p \in Seq(Sides)
      BY <1>2, <3>1, DownFacts
    <3> QED BY <3>2 DEF Down
  <2> QED BY <2>1, <2>2, <2>3
<1>3. Trees[MaxHeight] \subseteq S
  <2> HIDE DEF S
  <2> QED BY <1>1, <1>2, TreeInduction
<1> QED BY <1>3

(* Sets of paths, one node further up.                                     *)
LEMMA DownSets ==
  ASSUME NEW s \in Sides, NEW t \in Sides, NEW A, A \subseteq Seq(Sides), NEW B, B \subseteq Seq(Sides)
  PROVE  /\ \A p \in Seq(Sides) : <<s>> \o p \in Down(t, A) <=> s = t /\ p \in A
         /\ << >> \notin Down(s, A)
         /\ Down(s, A) \subseteq Down(t, B) <=> A = {} \/ (s = t /\ A \subseteq B)
         /\ Down(s, A) \subseteq Seq(Sides)
<1>1. ASSUME NEW p \in Seq(Sides) PROVE <<s>> \o p \in Down(t, A) <=> s = t /\ p \in A
  BY DownApart DEF Down
<1>2. << >> \notin Down(s, A) /\ Down(s, A) \subseteq Seq(Sides)
  BY DownFacts DEF Down
<1>3. ASSUME NEW p \in Seq(Sides) PROVE <<s>> \o p \in Down(t, B) <=> s = t /\ p \in B
  BY DownApart DEF Down
<1>4. Down(s, A) \subseteq Down(t, B) <=> \A p \in A : <<s>> \o p \in Down(t, B)
  BY DEF Down
<1>5. (\A p \in A : <<s>> \o p \in Down(t, B)) <=> A = {} \/ (s = t /\ A \subseteq B)
  BY <1>3
<1> QED BY <1>1, <1>2, <1>4, <1>5

-----------------------------------------------------------------------------
(* What is where in a tree, told by what is where in its children.         *)
LEMMA AtSides ==
  ASSUME NEW n, NEW p \in Seq(Sides)
  PROVE  At(n, << >>) = n /\ At(n, <<"left">> \o p) = At(n.left, p) /\ At(n, <<"right">> \o p) = At(n.right, p)
<1>1. "left" \in Sides /\ "right" \in Sides
  BY DEF Sides
<1> QED BY <1>1, AtDown

(* Nothing stands in an empty tree.                                        *)
LEMMA NothingInNil ==
  /\ Paths(Nil) = {} /\ Identifiers(Nil) = {} /\ \A s : Where(Nil, s) = {}
  /\ Nil \in Trees[MaxHeight]
<1>1. Nil \in Trees[MaxHeight]
  BY NilIsTree, HeightAssumption
<1> QED BY <1>1, PathsUnfold DEF Identifiers, Where

Here(b) == IF b THEN {<< >>} ELSE {}

(* The identifiers of a tree are its own and those of its children.        *)
LEMMA IdentifiersOf ==
  ASSUME NEW n \in Trees[MaxHeight], n # Nil
  PROVE  Identifiers(n) = Here(n.kind = "IDENTIFIER") \union Down("left", Identifiers(n.left))
                                                      \union Down("right", Identifiers(n.right))
<1>1. Paths(n) = {<< >>} \union Down("left", Paths(n.left)) \union Down("right", Paths(n.right))
  BY PathsUnfold
<1>2. Paths(n.left) \subseteq Seq(Sides) /\ Paths(n.right) \subseteq Seq(Sides)
  BY ChildrenAreTrees, PathsType
<1>3. Down("left", Identifiers(n.left)) = {p \in Down("left", Paths(n.left)) : At(n, p).kind = "IDENTIFIER"}
  <2>1. \A p \in Paths(n.left) : At(n, <<"left">> \o p) = At(n.left, p)
    BY <1>2, AtSides
  <2> QED BY <2>1, Zenon DEF Down, Identifiers
<1>4. Down("right", Identifiers(n.right)) = {p \in Down("right", Paths(n.right)) : At(n, p).kind = "IDENTIFIER"}
  <2>1. \A p \in Paths(n.right) : At(n, <<"right">> \o p) = At(n.right, p)
    BY <1>2, AtSides
  <2> QED BY <2>1, Zenon DEF Down, Identifiers
<1>5. Here(n.kind = "IDENTIFIER") = {p \in {<< >>} : At(n, p).kind = "IDENTIFIER"}
  <2>1. << >> \in Seq(Sides)
    OBVIOUS
  <2>2. At(n, << >>) = n
    BY <2>1, AtSides
  <2> QED BY <2>2 DEF Here
<1>6. Identifiers(n) = {p \in Paths(n) : At(n, p).kind = "IDENTIFIER"}
  BY DEF Identifiers
<1> QED BY <1>1, <1>3, <1>4, <1>5, <1>6

(* ... and so are its statements of a kind.                                *)
LEMMA WhereOf ==
  ASSUME NEW n \in Trees[MaxHeight], n # Nil, NEW s
  PROVE  Where(n, s) = Here(IsStatement(n, s)) \union Down("left", Where(n.left, s))
                                               \union Down("right", Where(n.right, s))
<1>1. Paths(n) = {<< >>} \union Down("left", Paths(n.left)) \union Down("right", Paths(n.right))
  BY PathsUnfold
<1>2. Paths(n.left) \subseteq Seq(Sides) /\ Paths(n.right) \subseteq Seq(Sides)
  BY ChildrenAreTrees, PathsType
<1>3. Down("left", Where(n.left, s)) = {p \in Down("left", Paths(n.left)) : IsStatement(At(n, p), s)}
  <2>1. \A p \in Paths(n.left) : At(n, <<"left">> \o p) = At(n.left, p)
    BY <1>2, AtSides
  <2> QED BY <2>1, Zenon DEF Down, Where
<1>4. Down("right", Where(n.right, s)) = {p \in Down("right", Paths(n.right)) : IsStatement(At(n, p), s)}
  <2>1. \A p \in Paths(n.right) : At(n, <<"right">> \o p) = At(n.right, p)
    BY <1>2, AtSides
  <2> QED BY <2>1, Zenon DEF Down, Where
<1>5. Here(IsStatement(n, s)) = {p \in {<< >>} : IsStatement(At(n, p), s)}
  <2>1. << >> \in Seq(Sides)
    OBVIOUS
  <2>2. At(n, << >>) = n
    BY <2>1, AtSides
  <2> QED BY <2>2 DEF Here
<1>6. Where(n, s) = {p \in Paths(n) : IsStatement(At(n, p), s)}
  BY DEF Where
<1> QED BY <1>1, <1>3, <1>4, <1>5, <1>6

(* They stand at paths.                                                    *)
LEMMA WhereTypes ==
  ASSUME NEW n \in Trees[MaxHeight]
  PROVE  /\ Paths(n) \subseteq Seq(Sides) /\ Identifiers(n) \subseteq Seq(Sides)
         /\ \A s : Where(n, s) \subseteq Seq(Sides)
         /\ \A p : Around(n, p) \subseteq Seq(Sides)
BY PathsType DEF Identifiers, Where, Around

(* The functions around a path are the node itself, if it defines one, and *)
(* those in the child.                                                     *)
LEMMA AroundOf ==
  ASSUME NEW n \in Trees[MaxHeight], n # Nil, NEW p \in Seq(Sides)
  PROVE  /\ Around(n, << >>) = Here(IsStatement(n, "func_def"))
         /\ Around(n, <<"left">> \o p) = Here(IsStatement(n, "func_def")) \union Down("left", Around(n.left, p))
         /\ Around(n, <<"right">> \o p) = Here(IsStatement(n, "func_def")) \union Down("right", Around(n.right, p))
<1> DEFINE W == Where(n, "func_def")
           L == Where(n.left, "func_def")
           R == Where(n.right, "func_def")
<1>1. W = Here(IsStatement(n, "func_def")) \union Down("left", L) \union Down("right", R)
  BY WhereOf
<1>2. L \subseteq Seq(Sides) /\ R \subseteq Seq(Sides) /\ "left" \in Sides /\ "right" \in Sides /\ "left" # "right"
  BY ChildrenAreTrees, WhereTypes DEF Sides
<1>3. \A q : Around(n, q) = {f \in W : Below(q, f)}
  BY DEF Around
<1>4. \A q : Around(n.left, q) = {f \in L : Below(q, f)} /\ Around(n.right, q) = {f \in R : Below(q, f)}
  BY DEF Around
<1> HIDE DEF W, L, R
<1>5. \A f \in L \union R : /\ Below(<<"left">> \o p, <<"left">> \o f) <=> Below(p, f)
                            /\ Below(<<"right">> \o p, <<"right">> \o f) <=> Below(p, f)
                            /\ ~ Below(<<"left">> \o p, <<"right">> \o f)
                            /\ ~ Below(<<"right">> \o p, <<"left">> \o f)
                            /\ ~ Below(<< >>, <<"left">> \o f) /\ ~ Below(<< >>, <<"right">> \o f)
  BY <1>2, BelowDown
<1>6. \A q \in Seq(Sides) : Below(q, << >>)
  BY <1>2, BelowDown
<1>7. << >> \in Seq(Sides) /\ <<"left">> \o p \in Seq(Sides) /\ <<"right">> \o p \in Seq(Sides)
  BY <1>2, DownFacts
<1> DEFINE H == Here(IsStatement(n, "func_def"))
<1>11. H \subseteq {<< >>}
  BY DEF Here
<1> HIDE DEF H
<1>8. Around(n, << >>) = H
  <2>1. {f \in Down("left", L) : Below(<< >>, f)} = {} /\ {f \in Down("right", R) : Below(<< >>, f)} = {}
    BY <1>5 DEF Down
  <2>2. {f \in H : Below(<< >>, f)} = H
    BY <1>6, <1>7, <1>11
  <2>3. W = H \union Down("left", L) \union Down("right", R)
    BY <1>1 DEF H
  <2> QED BY <1>3, <2>1, <2>2, <2>3
<1>9. Around(n, <<"left">> \o p) = H \union Down("left", Around(n.left, p))
  <2> DEFINE q == <<"left">> \o p
  <2>1. {f \in Down("left", L) : Below(q, f)} = Down("left", {f \in L : Below(p, f)})
    BY <1>5 DEF Down
  <2>4. {f \in Down("right", R) : Below(q, f)} = {}
    BY <1>5 DEF Down
  <2>2. {f \in H : Below(q, f)} = H
    BY <1>6, <1>7, <1>11
  <2>3. W = H \union Down("left", L) \union Down("right", R)
    BY <1>1 DEF H
  <2> HIDE DEF q
  <2>5. Around(n, q) = H \union Down("left", {f \in L : Below(p, f)})
    BY <1>3, <2>1, <2>2, <2>3, <2>4
  <2> QED BY <1>4, <2>5 DEF q
<1>10. Around(n, <<"right">> \o p) = H \union Down("right", Around(n.right, p))
  <2> DEFINE q == <<"right">> \o p
  <2>1. {f \in Down("right", R) : Below(q, f)} = Down("right", {f \in R : Below(p, f)})
    BY <1>5 DEF Down
  <2>4. {f \in Down("left", L) : Below(q, f)} = {}
    BY <1>5 DEF Down
  <2>2. {f \in H : Below(q, f)} = H
    BY <1>6, <1>7, <1>11
  <2>3. W = H \union Down("left", L) \union Down("right", R)
    BY <1>1 DEF H
  <2> HIDE DEF q
  <2>5. Around(n, q) = H \union Down("right", {f \in R : Below(p, f)})
    BY <1>3, <2>1, <2>2, <2>3, <2>4
  <2> QED BY <1>4, <2>5 DEF q
<1> QED BY <1>8, <1>9, <1>10 DEF H

-----------------------------------------------------------------------------
(* C holds what Parameters returns, at each height by what it holds below. *)
Adds(C) ==
  /\ \A n, t : Parameters(n, t) = C[MaxHeight][n][t]
  /\ \A h \in 0..MaxHeight : \A n \in Trees[h], t \in Symbols :
       C[h][n][t] = Parameter(n, t, IF h = 0 THEN << >> ELSE C[h - 1])

(* There is one: the recursive definition of Parameters has a meaning.     *)
LEMMA ParametersUnfold == \E C : Adds(C)
<1> DEFINE B(g, h) == [n \in Trees[h] |-> [t \in Symbols |->
                         Parameter(n, t, IF h = 0 THEN << >> ELSE g[h - 1])]]
           Defined == {n \in Nat : \E g : g = [h \in 0..n |-> B(g, h)]}
<1> HIDE DEF B
<1>1. 0 \in Defined
  <2> DEFINE g == [h \in 0..0 |-> B(<< >>, h)]
  <2>1. \A h \in 0..0 : B(<< >>, h) = B(g, h)
    <3>1. B(<< >>, 0) = B(g, 0)
      BY DEF B
    <3> HIDE DEF g
    <3> QED BY <3>1
  <2>2. g = [h \in 0..0 |-> B(g, h)]
    BY <2>1
  <2>3. \E f : f = [h \in 0..0 |-> B(f, h)]
    <3> HIDE DEF g
    <3> QED BY <2>2
  <2> QED BY <2>3
<1>2. \A n \in Nat : n \in Defined => n + 1 \in Defined
  <2> SUFFICES ASSUME NEW n \in Nat, n \in Defined PROVE n + 1 \in Defined
    OBVIOUS
  <2>1. PICK g : g = [h \in 0..n |-> B(g, h)]
    OBVIOUS
  <2> DEFINE G == [h \in 0..n + 1 |-> B(g, h)]
  <2>2. \A h \in 0..n : G[h] = g[h]
    <3>1. \A h \in 0..n : h \in 0..n + 1
      OBVIOUS
    <3> QED BY <2>1, <3>1
  <2>3. \A h \in 0..n + 1 : B(g, h) = B(G, h)
    <3> SUFFICES ASSUME NEW h \in 0..n + 1 PROVE B(g, h) = B(G, h)
      OBVIOUS
    <3>1. h = 0 \/ h - 1 \in 0..n
      OBVIOUS
    <3>2. (IF h = 0 THEN << >> ELSE g[h - 1]) = (IF h = 0 THEN << >> ELSE G[h - 1])
      <4> HIDE DEF G
      <4> QED BY <2>2, <3>1
    <3> HIDE DEF G
    <3> QED BY <3>2 DEF B
  <2>4. G = [h \in 0..n + 1 |-> B(G, h)]
    BY <2>3
  <2>5. \E f : f = [h \in 0..n + 1 |-> B(f, h)]
    <3> HIDE DEF G
    <3> QED BY <2>4
  <2> QED BY <2>5
<1>3. MaxHeight \in Defined
  <2> HIDE DEF Defined
  <2> QED BY <1>1, <1>2, SetInduction, HeightAssumption
<1> DEFINE C == CHOOSE g : g = [h \in 0..MaxHeight |-> B(g, h)]
<1>4. \A n, t : Parameters(n, t) = C[MaxHeight][n][t]
  BY DEF Parameters, B
<1>5. \E g : g = [h \in 0..MaxHeight |-> B(g, h)]
  BY <1>3
<1>6. C = [h \in 0..MaxHeight |-> B(C, h)]
  BY <1>5
<1>7. \A h \in 0..MaxHeight : C[h] = B(C, h)
  <2> HIDE DEF C
  <2> QED BY <1>6
<1>8. \A h \in 0..MaxHeight : \A n \in Trees[h], t \in Symbols :
        C[h][n][t] = Parameter(n, t, IF h = 0 THEN << >> ELSE C[h - 1])
  <2> HIDE DEF C
  <2> SUFFICES ASSUME NEW h \in 0..MaxHeight, NEW n \in Trees[h], NEW t \in Symbols
               PROVE  C[h][n][t] = Parameter(n, t, IF h = 0 THEN << >> ELSE C[h - 1])
    OBVIOUS
  <2> DEFINE below == IF h = 0 THEN << >> ELSE C[h - 1]
  <2>1. C[h] = B(C, h)
    BY <1>7
  <2>2. B(C, h) = [m \in Trees[h] |-> [u \in Symbols |-> Parameter(m, u, below)]]
    BY DEF B
  <2> HIDE DEF below
  <2>3. C[h][n] = [u \in Symbols |-> Parameter(n, u, below)]
    BY <2>1, <2>2
  <2>4. C[h][n][t] = Parameter(n, t, below)
    BY <2>3
  <2> QED BY <2>4 DEF below
<1> HIDE DEF C
<1>9. Adds(C)
  BY <1>4, <1>8, Zenon DEF Adds
<1> QED BY <1>9

(* The same of the first pass ...                                          *)
Declares(C) ==
  /\ \A n, t : collect_definitions(n, t) = C[MaxHeight][n][t]
  /\ \A h \in 0..MaxHeight : \A n \in Trees[h], t \in Symbols :
       C[h][n][t] = DefineNode(n, t, IF h = 0 THEN << >> ELSE C[h - 1])

(* ... which has a meaning too ...                                         *)
LEMMA DefinitionsUnfold == \E C : Declares(C)
<1> DEFINE B(g, h) == [n \in Trees[h] |-> [t \in Symbols |->
                         DefineNode(n, t, IF h = 0 THEN << >> ELSE g[h - 1])]]
           Defined == {n \in Nat : \E g : g = [h \in 0..n |-> B(g, h)]}
<1> HIDE DEF B
<1>1. 0 \in Defined
  <2> DEFINE g == [h \in 0..0 |-> B(<< >>, h)]
  <2>1. \A h \in 0..0 : B(<< >>, h) = B(g, h)
    <3>1. B(<< >>, 0) = B(g, 0)
      BY DEF B
    <3> HIDE DEF g
    <3> QED BY <3>1
  <2>2. g = [h \in 0..0 |-> B(g, h)]
    BY <2>1
  <2>3. \E f : f = [h \in 0..0 |-> B(f, h)]
    <3> HIDE DEF g
    <3> QED BY <2>2
  <2> QED BY <2>3
<1>2. \A n \in Nat : n \in Defined => n + 1 \in Defined
  <2> SUFFICES ASSUME NEW n \in Nat, n \in Defined PROVE n + 1 \in Defined
    OBVIOUS
  <2>1. PICK g : g = [h \in 0..n |-> B(g, h)]
    OBVIOUS
  <2> DEFINE G == [h \in 0..n + 1 |-> B(g, h)]
  <2>2. \A h \in 0..n : G[h] = g[h]
    <3>1. \A h \in 0..n : h \in 0..n + 1
      OBVIOUS
    <3> QED BY <2>1, <3>1
  <2>3. \A h \in 0..n + 1 : B(g, h) = B(G, h)
    <3> SUFFICES ASSUME NEW h \in 0..n + 1 PROVE B(g, h) = B(G, h)
      OBVIOUS
    <3>1. h = 0 \/ h - 1 \in 0..n
      OBVIOUS
    <3>2. (IF h = 0 THEN << >> ELSE g[h - 1]) = (IF h = 0 THEN << >> ELSE G[h - 1])
      <4> HIDE DEF G
      <4> QED BY <2>2, <3>1
    <3> HIDE DEF G
    <3> QED BY <3>2 DEF B
  <2>4. G = [h \in 0..n + 1 |-> B(G, h)]
    BY <2>3
  <2>5. \E f : f = [h \in 0..n + 1 |-> B(f, h)]
    <3> HIDE DEF G
    <3> QED BY <2>4
  <2> QED BY <2>5
<1>3. MaxHeight \in Defined
  <2> HIDE DEF Defined
  <2> QED BY <1>1, <1>2, SetInduction, HeightAssumption
<1> DEFINE C == CHOOSE g : g = [h \in 0..MaxHeight |-> B(g, h)]
<1>4. \A n, t : collect_definitions(n, t) = C[MaxHeight][n][t]
  BY DEF collect_definitions, B
<1>5. \E g : g = [h \in 0..MaxHeight |-> B(g, h)]
  BY <1>3
<1>6. C = [h \in 0..MaxHeight |-> B(C, h)]
  BY <1>5
<1>7. \A h \in 0..MaxHeight : C[h] = B(C, h)
  <2> HIDE DEF C
  <2> QED BY <1>6
<1>8. \A h \in 0..MaxHeight : \A n \in Trees[h], t \in Symbols :
        C[h][n][t] = DefineNode(n, t, IF h = 0 THEN << >> ELSE C[h - 1])
  <2> HIDE DEF C
  <2> SUFFICES ASSUME NEW h \in 0..MaxHeight, NEW n \in Trees[h], NEW t \in Symbols
               PROVE  C[h][n][t] = DefineNode(n, t, IF h = 0 THEN << >> ELSE C[h - 1])
    OBVIOUS
  <2> DEFINE below == IF h = 0 THEN << >> ELSE C[h - 1]
  <2>1. C[h] = B(C, h)
    BY <1>7
  <2>2. B(C, h) = [m \in Trees[h] |-> [u \in Symbols |-> DefineNode(m, u, below)]]
    BY DEF B
  <2> HIDE DEF below
  <2>3. C[h][n] = [u \in Symbols |-> DefineNode(n, u, below)]
    BY <2>1, <2>2
  <2>4. C[h][n][t] = DefineNode(n, t, below)
    BY <2>3
  <2> QED BY <2>4 DEF below
<1> HIDE DEF C
<1>9. Declares(C)
  BY <1>4, <1>8, Zenon DEF Declares
<1> QED BY <1>9

(* ... and of the second pass ...                                          *)
Checks(C) ==
  /\ \A n, t : check_semantics(n, t) = C[MaxHeight][n][t]
  /\ \A h \in 0..MaxHeight : \A n \in Trees[h], t \in Symbols :
       C[h][n][t] = CheckNode(n, t, IF h = 0 THEN << >> ELSE C[h - 1])

(* ... which has one.                                                      *)
LEMMA ChecksUnfold == \E C : Checks(C)
<1> DEFINE B(g, h) == [n \in Trees[h] |-> [t \in Symbols |->
                         CheckNode(n, t, IF h = 0 THEN << >> ELSE g[h - 1])]]
           Defined == {n \in Nat : \E g : g = [h \in 0..n |-> B(g, h)]}
<1> HIDE DEF B
<1>1. 0 \in Defined
  <2> DEFINE g == [h \in 0..0 |-> B(<< >>, h)]
  <2>1. \A h \in 0..0 : B(<< >>, h) = B(g, h)
    <3>1. B(<< >>, 0) = B(g, 0)
      BY DEF B
    <3> HIDE DEF g
    <3> QED BY <3>1
  <2>2. g = [h \in 0..0 |-> B(g, h)]
    BY <2>1
  <2>3. \E f : f = [h \in 0..0 |-> B(f, h)]
    <3> HIDE DEF g
    <3> QED BY <2>2
  <2> QED BY <2>3
<1>2. \A n \in Nat : n \in Defined => n + 1 \in Defined
  <2> SUFFICES ASSUME NEW n \in Nat, n \in Defined PROVE n + 1 \in Defined
    OBVIOUS
  <2>1. PICK g : g = [h \in 0..n |-> B(g, h)]
    OBVIOUS
  <2> DEFINE G == [h \in 0..n + 1 |-> B(g, h)]
  <2>2. \A h \in 0..n : G[h] = g[h]
    <3>1. \A h \in 0..n : h \in 0..n + 1
      OBVIOUS
    <3> QED BY <2>1, <3>1
  <2>3. \A h \in 0..n + 1 : B(g, h) = B(G, h)
    <3> SUFFICES ASSUME NEW h \in 0..n + 1 PROVE B(g, h) = B(G, h)
      OBVIOUS
    <3>1. h = 0 \/ h - 1 \in 0..n
      OBVIOUS
    <3>2. (IF h = 0 THEN << >> ELSE g[h - 1]) = (IF h = 0 THEN << >> ELSE G[h - 1])
      <4> HIDE DEF G
      <4> QED BY <2>2, <3>1
    <3> HIDE DEF G
    <3> QED BY <3>2 DEF B
  <2>4. G = [h \in 0..n + 1 |-> B(G, h)]
    BY <2>3
  <2>5. \E f : f = [h \in 0..n + 1 |-> B(f, h)]
    <3> HIDE DEF G
    <3> QED BY <2>4
  <2> QED BY <2>5
<1>3. MaxHeight \in Defined
  <2> HIDE DEF Defined
  <2> QED BY <1>1, <1>2, SetInduction, HeightAssumption
<1> DEFINE C == CHOOSE g : g = [h \in 0..MaxHeight |-> B(g, h)]
<1>4. \A n, t : check_semantics(n, t) = C[MaxHeight][n][t]
  BY DEF check_semantics, B
<1>5. \E g : g = [h \in 0..MaxHeight |-> B(g, h)]
  BY <1>3
<1>6. C = [h \in 0..MaxHeight |-> B(C, h)]
  BY <1>5
<1>7. \A h \in 0..MaxHeight : C[h] = B(C, h)
  <2> HIDE DEF C
  <2> QED BY <1>6
<1>8. \A h \in 0..MaxHeight : \A n \in Trees[h], t \in Symbols :
        C[h][n][t] = CheckNode(n, t, IF h = 0 THEN << >> ELSE C[h - 1])
  <2> HIDE DEF C
  <2> SUFFICES ASSUME NEW h \in 0..MaxHeight, NEW n \in Trees[h], NEW t \in Symbols
               PROVE  C[h][n][t] = CheckNode(n, t, IF h = 0 THEN << >> ELSE C[h - 1])
    OBVIOUS
  <2> DEFINE below == IF h = 0 THEN << >> ELSE C[h - 1]
  <2>1. C[h] = B(C, h)
    BY <1>7
  <2>2. B(C, h) = [m \in Trees[h] |-> [u \in Symbols |-> CheckNode(m, u, below)]]
    BY DEF B
  <2> HIDE DEF below
  <2>3. C[h][n] = [u \in Symbols |-> CheckNode(n, u, below)]
    BY <2>1, <2>2
  <2>4. C[h][n][t] = CheckNode(n, t, below)
    BY <2>3
  <2> QED BY <2>4 DEF below
<1> HIDE DEF C
<1>9. Checks(C)
  BY <1>4, <1>8, Zenon DEF Checks
<1> QED BY <1>9

-----------------------------------------------------------------------------
(* The names in a table, each of which stands there once.                  *)
NamesIn(list)  == {list[i] : i \in 1..Len(list)}
NoDouble(list) == \A i, j \in 1..Len(list) : list[i] = list[j] => i = j

(* What was in the old table is where it was.                              *)
Extends(new, old) == Len(old) <= Len(new) /\ \A i \in 1..Len(old) : new[i] = old[i]

(* The slot of a node is the place of its name.                            *)
Matches(node, list) == node.idx \in 0..Len(list) - 1 /\ list[node.idx + 1] = node.name

(* symbol_table_add of a new name.                                         *)
LEMMA AppendingName ==
  ASSUME NEW S, NEW list \in Seq(S), NEW x \in S, x \notin NamesIn(list), NoDouble(list)
  PROVE  /\ Append(list, x) \in Seq(S) /\ NoDouble(Append(list, x)) /\ Extends(Append(list, x), list)
         /\ NamesIn(Append(list, x)) = NamesIn(list) \union {x}
         /\ Len(Append(list, x)) = Len(list) + 1 /\ Append(list, x)[Len(list) + 1] = x
<1> DEFINE new == Append(list, x)
<1>1. /\ new \in Seq(S) /\ Len(new) = Len(list) + 1 /\ Len(list) \in Nat /\ new[Len(list) + 1] = x
      /\ \A i \in 1..Len(list) : new[i] = list[i]
  BY AppendProperties
<1> HIDE DEF new
<1>2. \A i \in 1..Len(new) : i \in 1..Len(list) \/ i = Len(list) + 1
  BY <1>1
<1>3. Len(list) + 1 \in 1..Len(new) /\ \A i \in 1..Len(list) : i \in 1..Len(new)
  BY <1>1
<1>4. \A i \in 1..Len(list) : list[i] # x
  BY DEF NamesIn
<1>5. NoDouble(new)
  <2> SUFFICES ASSUME NEW i \in 1..Len(new), NEW j \in 1..Len(new), new[i] = new[j] PROVE i = j
    BY DEF NoDouble
  <2>1. CASE i \in 1..Len(list) /\ j \in 1..Len(list)
    BY <1>1, <2>1 DEF NoDouble
  <2>2. CASE i = Len(list) + 1 /\ j \in 1..Len(list)
    BY <1>1, <1>4, <2>2
  <2>3. CASE i \in 1..Len(list) /\ j = Len(list) + 1
    BY <1>1, <1>4, <2>3
  <2> QED BY <1>2, <2>1, <2>2, <2>3
<1>6. NamesIn(new) = NamesIn(list) \union {x}
  <2>1. \A i \in 1..Len(new) : new[i] \in NamesIn(list) \union {x}
    <3> SUFFICES ASSUME NEW i \in 1..Len(new) PROVE new[i] \in NamesIn(list) \union {x}
      OBVIOUS
    <3>1. CASE i \in 1..Len(list)
      BY <1>1, <3>1 DEF NamesIn
    <3>2. CASE i = Len(list) + 1
      BY <1>1, <3>2
    <3> QED BY <1>2, <3>1, <3>2
  <2>2. \A i \in 1..Len(list) : list[i] \in NamesIn(new)
    BY <1>1, <1>3 DEF NamesIn
  <2>3. x \in NamesIn(new)
    BY <1>1, <1>3 DEF NamesIn
  <2> QED BY <2>1, <2>2, <2>3 DEF NamesIn
<1>7. Extends(new, list)
  BY <1>1 DEF Extends
<1> QED BY <1>1, <1>5, <1>6, <1>7 DEF new

(* symbol_table_find.                                                      *)
LEMMA TableFinds ==
  ASSUME NEW list \in Seq(STRING), NEW x
  PROVE  /\ InTable(x, list) <=> x \in NamesIn(list)
         /\ x \in NamesIn(list) =>
              Index(x, list) \in 0..Len(list) - 1 /\ Index(x, list) \in Int /\ list[Index(x, list) + 1] = x
<1>1. InTable(x, list) <=> x \in NamesIn(list)
  BY DEF InTable, NamesIn
<1>2. ASSUME x \in NamesIn(list)
      PROVE  Index(x, list) \in 0..Len(list) - 1 /\ Index(x, list) \in Int /\ list[Index(x, list) + 1] = x
  <2> DEFINE k == CHOOSE i \in 1..Len(list) : list[i] = x
  <2>1. k \in 1..Len(list) /\ list[k] = x
    BY <1>2 DEF NamesIn
  <2>2. Index(x, list) = k - 1
    BY <1>1, <1>2 DEF Index
  <2> HIDE DEF k
  <2>3. Len(list) \in Nat /\ (k - 1) + 1 = k
    BY <2>1
  <2> QED BY <2>1, <2>2, <2>3
<1> QED BY <1>1, <1>2

(* Tables extend each other one behind the other; slots stay slots.        *)
LEMMA ExtendsOn ==
  ASSUME NEW S, NEW a \in Seq(S), NEW b \in Seq(S), NEW c \in Seq(S), Extends(b, a)
  PROVE  /\ Extends(a, a)
         /\ Extends(c, b) => Extends(c, a)
         /\ \A n : Matches(n, a) => Matches(n, b)
<1>1. Len(a) \in Nat /\ Len(b) \in Nat /\ Len(c) \in Nat
  OBVIOUS
<1>2. Extends(a, a)
  BY <1>1 DEF Extends
<1>3. ASSUME Extends(c, b) PROVE Extends(c, a)
  <2>1. \A i \in 1..Len(a) : i \in 1..Len(b)
    BY <1>1 DEF Extends
  <2> QED BY <1>1, <1>3, <2>1 DEF Extends
<1>4. ASSUME NEW n, Matches(n, a) PROVE Matches(n, b)
  <2>1. n.idx \in 0..Len(b) - 1 /\ n.idx + 1 \in 1..Len(a)
    BY <1>1, <1>4 DEF Matches, Extends
  <2> QED BY <1>4, <2>1 DEF Matches, Extends
<1> QED BY <1>2, <1>3, <1>4

(* Leave takes a table that has only grown back to the old one.            *)
LEMMA LeavingRestores ==
  ASSUME NEW st \in Symbols, NEW old \in Symbols, Extends(st.var, old.var), st.func = old.func
  PROVE  Leave(st, old) = old
<1>1. /\ st.var \in Seq(STRING) /\ old.var \in Seq(STRING) /\ Len(old.var) \in Nat /\ Len(old.var) <= Len(st.var)
      /\ \A i \in 1..Len(old.var) : st.var[i] = old.var[i]
  BY DEF Symbols, Extends
<1> DEFINE cut == SubSeq(st.var, 1, Len(old.var))
<1>2. cut \in Seq(STRING) /\ Len(cut) = Len(old.var) /\ \A i \in 1..Len(cut) : cut[i] = st.var[i]
  BY <1>1
<1>3. cut = old.var
  <2> HIDE DEF cut
  <2> QED BY <1>1, <1>2
<1>4. Leave(st, old) = [st EXCEPT !.var = cut]
  BY DEF Leave
<1> HIDE DEF cut
<1> QED BY <1>3, <1>4 DEF Symbols

-----------------------------------------------------------------------------
(* A chain of parameters, and that none has a name of vars or of another.  *)
IsChain(p) == \A q \in Paths(p) : At(p, q).left = Nil /\ At(p, q).kind = "IDENTIFIER"

NamesOf(p) == {NameAt(p, q) : q \in Identifiers(p)}

Fresh(p, vars) ==
  \A q \in Identifiers(p) :
    NameAt(p, q) \notin vars /\ \A q2 \in Identifiers(p) : NameAt(p, q) = NameAt(p, q2) => q = q2

(* A chain begins with an identifier, and the rest is a chain.             *)
LEMMA ChainOf ==
  ASSUME NEW n \in Trees[MaxHeight], n # Nil, IsChain(n)
  PROVE  n.left = Nil /\ n.kind = "IDENTIFIER" /\ IsChain(n.right)
<1>1. Paths(n) = {<< >>} \union Down("left", Paths(n.left)) \union Down("right", Paths(n.right))
  BY PathsUnfold
<1>2. << >> \in Seq(Sides) /\ << >> \in Paths(n)
  BY <1>1
<1>3. At(n, << >>) = n
  BY <1>2, AtSides
<1>4. Paths(n.right) \subseteq Seq(Sides)
  BY ChildrenAreTrees, WhereTypes
<1>5. \A q \in Paths(n.right) : <<"right">> \o q \in Paths(n) /\ At(n, <<"right">> \o q) = At(n.right, q)
  BY <1>1, <1>4, AtSides DEF Down
<1> QED BY <1>2, <1>3, <1>5 DEF IsChain

(* What the identifiers of a chain are, with the first in front.           *)
LEMMA IdentifiersOfChain ==
  ASSUME NEW n \in Trees[MaxHeight], n # Nil, n.left = Nil, n.kind = "IDENTIFIER"
  PROVE  /\ Identifiers(n) = {<< >>} \union Down("right", Identifiers(n.right))
         /\ NamesOf(n) = {n.name} \union NamesOf(n.right)
         /\ \A vars : Fresh(n, vars) <=> n.name \notin vars /\ Fresh(n.right, vars \union {n.name})
<1> DEFINE I == Identifiers(n.right)
<1>1. Identifiers(n) = {<< >>} \union Down("right", I)
  <2>1. Identifiers(n) = Here(n.kind = "IDENTIFIER") \union Down("left", Identifiers(n.left)) \union Down("right", I)
    BY IdentifiersOf
  <2>2. Down("left", Identifiers(n.left)) = {}
    BY NothingInNil DEF Down
  <2>3. Here(n.kind = "IDENTIFIER") = {<< >>}
    BY DEF Here
  <2> QED BY <2>1, <2>2, <2>3
<1>2. I \subseteq Seq(Sides) /\ << >> \in Seq(Sides) /\ "right" \in Sides
  BY ChildrenAreTrees, WhereTypes DEF Sides
<1>3. NameAt(n, << >>) = n.name
  BY <1>2, AtSides DEF NameAt
<1>4. \A q \in I : NameAt(n, <<"right">> \o q) = NameAt(n.right, q)
  BY <1>2, AtSides DEF NameAt
<1>5. ASSUME NEW p \in I, NEW q \in I, <<"right">> \o p = <<"right">> \o q PROVE p = q
  <2>1. p \in Seq(Sides) /\ q \in Seq(Sides) /\ "right" \in Sides
    BY <1>2
  <2> QED BY <1>5, <2>1, DownApart
<1>6. \A q \in I : <<"right">> \o q # << >>
  BY <1>2, DownFacts
<1> HIDE DEF I
<1>7. NamesOf(n) = {n.name} \union NamesOf(n.right)
  <2>1. NamesOf(n.right) = {NameAt(n.right, q) : q \in I}
    BY DEF NamesOf, I
  <2>2. NamesOf(n) = {NameAt(n, q) : q \in {<< >>} \union Down("right", I)}
    BY <1>1 DEF NamesOf
  <2>3. {NameAt(n, q) : q \in Down("right", I)} = {NameAt(n.right, q) : q \in I}
    BY <1>4, Zenon DEF Down
  <2> QED BY <1>3, <2>1, <2>2, <2>3
<1>8. ASSUME NEW vars PROVE Fresh(n, vars) <=> n.name \notin vars /\ Fresh(n.right, vars \union {n.name})
  <2>1. ASSUME Fresh(n, vars) PROVE n.name \notin vars /\ Fresh(n.right, vars \union {n.name})
    <3>1. n.name \notin vars
      BY <1>1, <1>3, <2>1 DEF Fresh
    <3>2. \A q \in I : <<"right">> \o q \in Identifiers(n) /\ << >> \in Identifiers(n)
      BY <1>1 DEF Down
    <3>3. \A q \in I : NameAt(n.right, q) \notin vars /\ NameAt(n.right, q) # n.name
      BY <1>3, <1>4, <1>6, <2>1, <3>2 DEF Fresh
    <3>4. \A q, q2 \in I : NameAt(n.right, q) = NameAt(n.right, q2) => q = q2
      BY <1>4, <1>5, <2>1, <3>2 DEF Fresh
    <3> QED BY <3>1, <3>3, <3>4 DEF Fresh, I
  <2>2. ASSUME n.name \notin vars, Fresh(n.right, vars \union {n.name}) PROVE Fresh(n, vars)
    <3>1. \A q \in I : /\ NameAt(n.right, q) \notin vars \union {n.name}
                       /\ \A q2 \in I : NameAt(n.right, q) = NameAt(n.right, q2) => q = q2
      BY <2>2 DEF Fresh, I
    <3>2. \A q \in Identifiers(n) : q = << >> \/ \E r \in I : q = <<"right">> \o r
      BY <1>1 DEF Down
    <3>3. \A q \in Identifiers(n) : NameAt(n, q) \notin vars
      BY <1>3, <1>4, <2>2, <3>1, <3>2
    <3>4. ASSUME NEW q \in Identifiers(n), NEW q2 \in Identifiers(n), NameAt(n, q) = NameAt(n, q2) PROVE q = q2
      <4>1. CASE q = << >> /\ q2 = << >>
        BY <4>1
      <4>2. ASSUME NEW r \in I, q = <<"right">> \o r, q2 = << >> PROVE FALSE
        BY <1>3, <1>4, <3>1, <3>4, <4>2
      <4>3. ASSUME NEW r \in I, q2 = <<"right">> \o r, q = << >> PROVE FALSE
        BY <1>3, <1>4, <3>1, <3>4, <4>3
      <4>4. ASSUME NEW r \in I, q = <<"right">> \o r, NEW r2 \in I, q2 = <<"right">> \o r2 PROVE q = q2
        <5>1. NameAt(n.right, r) = NameAt(n.right, r2)
          BY <1>4, <3>4, <4>4
        <5> QED BY <3>1, <4>4, <5>1
      <4> QED BY <3>2, <4>1, <4>2, <4>3, <4>4
    <3> QED BY <3>3, <3>4 DEF Fresh
  <2> QED BY <2>1, <2>2
<1> QED BY <1>1, <1>7, <1>8 DEF I

(* ... with another index and right child.                                 *)
WithSlot(n, i, b) == [n EXCEPT !.idx = i, !.right = b]

(* ... is a node that differs in nothing else.                             *)
LEMMA NodeWithSlot ==
  ASSUME NEW trees, NEW n \in NodesOver(trees), NEW i \in Int, NEW b \in trees, NEW m, m = WithSlot(n, i, b)
  PROVE  /\ m \in NodesOver(trees) /\ m.kind = n.kind /\ m.what = n.what /\ m.name = n.name
         /\ m.idx = i /\ m.left = n.left /\ m.right = b
<1> DEFINE k == [n EXCEPT !.idx = i]
<1>1. k \in NodesOver(trees) /\ k.kind = n.kind /\ k.what = n.what /\ k.name = n.name
      /\ k.idx = i /\ k.left = n.left
  BY DEF NodesOver
<1>2. m = [k EXCEPT !.right = b]
  BY DEF WithSlot
<1> HIDE DEF k
<1>4. /\ [k EXCEPT !.right = b] \in NodesOver(trees)
      /\ [k EXCEPT !.right = b].kind = k.kind /\ [k EXCEPT !.right = b].what = k.what
      /\ [k EXCEPT !.right = b].name = k.name /\ [k EXCEPT !.right = b].idx = k.idx
      /\ [k EXCEPT !.right = b].right = b /\ [k EXCEPT !.right = b].left = k.left
  BY <1>1, NodeWithRight
<1>3. /\ m \in NodesOver(trees) /\ m.kind = k.kind /\ m.what = k.what /\ m.name = k.name
      /\ m.idx = k.idx /\ m.left = k.left /\ m.right = b
  BY <1>2, <1>4
<1> QED BY <1>1, <1>3

(* What the table is behind new names, and the nodes behind their slots.   *)
InSlots(n, list) == \A q \in Identifiers(n) : Matches(At(n, q), list)

Entered(r, h, p, st) ==
  /\ r = Good(r.node, r.st) /\ r.node \in Trees[h] /\ r.st \in Symbols /\ r.st.func = st.func
  /\ Extends(r.st.var, st.var) /\ NoDouble(r.st.var) /\ NamesIn(r.st.var) = NamesIn(st.var) \union NamesOf(p)
  /\ Where(r.node, "func_def") = {} /\ InSlots(r.node, r.st.var)

(* What giving the parameters p their slots comes to.                      *)
Entering(r, h, p, st) == IF Fresh(p, NamesIn(st.var)) THEN Entered(r, h, p, st) ELSE r = Bad

(* The two tables, and each with another name.                             *)
LEMMA SymbolsAre ==
  ASSUME NEW st \in Symbols, NEW x \in STRING
  PROVE  /\ st.var \in Seq(STRING) /\ st.func \in Seq(STRING) /\ Len(st.var) \in Nat /\ Len(st.func) \in Nat
         /\ [st EXCEPT !.var = Append(@, x)] \in Symbols
         /\ [st EXCEPT !.var = Append(@, x)].var = Append(st.var, x)
         /\ [st EXCEPT !.var = Append(@, x)].func = st.func
         /\ [st EXCEPT !.func = Append(@, x)] \in Symbols
         /\ [st EXCEPT !.func = Append(@, x)].func = Append(st.func, x)
         /\ [st EXCEPT !.func = Append(@, x)].var = st.var
<1>1. /\ st.var \in Seq(STRING) /\ st.func \in Seq(STRING) /\ Len(st.var) \in Nat /\ Len(st.func) \in Nat
      /\ st = [var |-> st.var, func |-> st.func]
  BY DEF Symbols
<1> DEFINE v == Append(st.var, x)
           f == Append(st.func, x)
<1>2. v \in Seq(STRING) /\ f \in Seq(STRING)
  BY <1>1
<1>3. [st EXCEPT !.var = Append(@, x)] = [st EXCEPT !.var = v]
      /\ [st EXCEPT !.func = Append(@, x)] = [st EXCEPT !.func = f]
  OBVIOUS
<1> HIDE DEF v, f
<1>4. /\ [st EXCEPT !.var = v] \in Symbols /\ [st EXCEPT !.var = v].var = v /\ [st EXCEPT !.var = v].func = st.func
      /\ [st EXCEPT !.func = f] \in Symbols /\ [st EXCEPT !.func = f].func = f /\ [st EXCEPT !.func = f].var = st.var
  BY <1>2 DEF Symbols
<1> QED BY <1>1, <1>3, <1>4 DEF v, f

(* No parameters.                                                          *)
LEMMA NothingEntered ==
  ASSUME NEW h \in 0..MaxHeight, NEW st \in Symbols, NoDouble(st.var)
  PROVE  Entering(Good(Nil, st), h, Nil, st)
<1> DEFINE r == Good(Nil, st)
<1>1. r = Good(r.node, r.st) /\ r.node = Nil /\ r.st = st
  BY DEF Good
<1>2. Nil \in Trees[h] /\ Identifiers(Nil) = {} /\ Where(Nil, "func_def") = {}
  BY NilIsTree, NothingInNil
<1>3. Extends(st.var, st.var)
  BY DEF Extends, Symbols
<1>4. NamesOf(Nil) = {} /\ Fresh(Nil, NamesIn(st.var)) /\ InSlots(Nil, st.var)
  BY <1>2 DEF NamesOf, Fresh, InSlots
<1> HIDE DEF r
<1>5. Entered(r, h, Nil, st)
  BY <1>1, <1>2, <1>3, <1>4 DEF Entered
<1> QED BY <1>4, <1>5 DEF Entering, r

(* Slots in a node are its own and those in its children.                  *)
LEMMA InSlotsOf ==
  ASSUME NEW n \in Trees[MaxHeight], n # Nil, NEW list
  PROVE  InSlots(n, list) <=> /\ n.kind = "IDENTIFIER" => Matches(n, list)
                              /\ InSlots(n.left, list) /\ InSlots(n.right, list)
<1> DEFINE L == Identifiers(n.left)
           R == Identifiers(n.right)
           H == Here(n.kind = "IDENTIFIER")
<1>1. Identifiers(n) = H \union Down("left", L) \union Down("right", R)
  BY IdentifiersOf
<1>2. L \subseteq Seq(Sides) /\ R \subseteq Seq(Sides) /\ << >> \in Seq(Sides)
  BY ChildrenAreTrees, WhereTypes
<1>3. At(n, << >>) = n
  BY <1>2, AtSides
<1>4. \A q \in L : At(n, <<"left">> \o q) = At(n.left, q)
  BY <1>2, AtSides
<1>5. \A q \in R : At(n, <<"right">> \o q) = At(n.right, q)
  BY <1>2, AtSides
<1>6. InSlots(n.left, list) <=> \A q \in L : Matches(At(n.left, q), list)
  BY DEF InSlots
<1>7. InSlots(n.right, list) <=> \A q \in R : Matches(At(n.right, q), list)
  BY DEF InSlots
<1>8. InSlots(n, list) <=> \A q \in Identifiers(n) : Matches(At(n, q), list)
  BY DEF InSlots
<1>9. (\A q \in H : Matches(At(n, q), list)) <=> (n.kind = "IDENTIFIER" => Matches(n, list))
  BY <1>3 DEF Here
<1> HIDE DEF H, L, R
<1>10. InSlots(n, list) <=> /\ \A q \in H : Matches(At(n, q), list)
                            /\ \A q \in Down("left", L) : Matches(At(n, q), list)
                            /\ \A q \in Down("right", R) : Matches(At(n, q), list)
  BY <1>1, <1>8
<1>11. (\A q \in Down("left", L) : Matches(At(n, q), list)) <=> (\A q \in L : Matches(At(n.left, q), list))
  BY <1>4, Zenon DEF Down
<1>12. (\A q \in Down("right", R) : Matches(At(n, q), list)) <=> (\A q \in R : Matches(At(n.right, q), list))
  BY <1>5, Zenon DEF Down
<1> QED BY <1>6, <1>7, <1>9, <1>10, <1>11, <1>12

(* What is in its slot stays there.                                        *)
LEMMA InSlotsStay ==
  ASSUME NEW a \in Seq(STRING), NEW b \in Seq(STRING), Extends(b, a), NEW n, InSlots(n, a)
  PROVE  InSlots(n, b)
BY ExtendsOn DEF InSlots

(* No function is defined in a chain of identifiers.                       *)
LEMMA NoFunctionHere ==
  ASSUME NEW n \in Trees[MaxHeight], n # Nil, ~ IsStatement(n, "func_def"),
         Where(n.left, "func_def") = {}, Where(n.right, "func_def") = {}
  PROVE  Where(n, "func_def") = {}
<1>1. Down("left", Where(n.left, "func_def")) = {} /\ Down("right", Where(n.right, "func_def")) = {}
  BY DEF Down
<1> QED BY <1>1, WhereOf DEF Here

(* A parameter in front of others.                                         *)
LEMMA OneEntered ==
  ASSUME NEW h \in 1..MaxHeight, NEW p \in NodesOver(Trees[h - 1]), IsChain(p),
         NEW st \in Symbols, NoDouble(st.var), NEW below,
         \A u \in Symbols : NoDouble(u.var) => Entering(below[p.right][u], h - 1, p.right, u)
  PROVE  Entering(Parameter(p, st, below), h, p, st)
<1> DEFINE u == [st EXCEPT !.var = Append(@, p.name)]
           r == below[p.right][u]
           V == NamesIn(st.var)
           m == [p EXCEPT !.idx = Len(st.var), !.right = r.node]
<1>1. /\ p \in Trees[MaxHeight] /\ p # Nil /\ p.name \in STRING /\ p.right \in Trees[h - 1] /\ p.left = Nil
      /\ p.kind = "IDENTIFIER" /\ h - 1 \in 0..MaxHeight
  <2>1. p \in Trees[MaxHeight] /\ p # Nil
    BY NodeIsTree
  <2> QED BY <2>1, ChainOf, HeightAssumption DEF NodesOver
<1>2. NamesOf(p) = {p.name} \union NamesOf(p.right) /\ (Fresh(p, V) <=> p.name \notin V /\ Fresh(p.right, V \union {p.name}))
  BY <1>1, IdentifiersOfChain
<1>3. st.var \in Seq(STRING) /\ Len(st.var) \in Nat /\ u \in Symbols /\ u.var = Append(st.var, p.name) /\ u.func = st.func
  BY <1>1, SymbolsAre
<1>4. InTable(p.name, st.var) <=> p.name \in V
  BY <1>3, TableFinds
<1>5. Parameter(p, st, below) = IF ~ InTable(p.name, st.var) /\ r.ok THEN Good(m, r.st) ELSE Bad
  BY <1>1, Zenon DEF Parameter
<1> HIDE DEF u, r, m, V
<1>6. CASE p.name \in V
  <2>1. Parameter(p, st, below) = Bad
    BY <1>4, <1>5, <1>6
  <2> QED BY <1>2, <1>6, <2>1 DEF Entering, V
<1>7. CASE p.name \notin V
  <2>1. /\ u.var \in Seq(STRING) /\ NoDouble(u.var) /\ Extends(u.var, st.var) /\ NamesIn(u.var) = V \union {p.name}
        /\ Len(u.var) = Len(st.var) + 1 /\ u.var[Len(st.var) + 1] = p.name
    BY <1>1, <1>3, <1>7, AppendingName DEF V
  <2>2. Entering(r, h - 1, p.right, u)
    BY <1>3, <2>1 DEF r
  <2>3. CASE ~ Fresh(p.right, V \union {p.name})
    <3>1. r = Bad
      BY <2>1, <2>2, <2>3 DEF Entering
    <3>2. Parameter(p, st, below) = Bad
      BY <1>5, <3>1 DEF Bad
    <3> QED BY <1>2, <2>3, <3>2 DEF Entering, V
  <2>4. CASE Fresh(p.right, V \union {p.name})
    <3>1. Entered(r, h - 1, p.right, u)
      BY <2>1, <2>2, <2>4 DEF Entering
    <3>2. /\ r = Good(r.node, r.st) /\ r.node \in Trees[h - 1] /\ r.st \in Symbols /\ r.st.func = u.func
          /\ Extends(r.st.var, u.var) /\ NoDouble(r.st.var) /\ NamesIn(r.st.var) = NamesIn(u.var) \union NamesOf(p.right)
          /\ Where(r.node, "func_def") = {} /\ InSlots(r.node, r.st.var)
      BY <3>1 DEF Entered
    <3>3. r.ok
      BY <3>2 DEF Good
    <3>4. Parameter(p, st, below) = Good(m, r.st)
      BY <1>4, <1>5, <1>7, <3>3
    <3>5. /\ m \in NodesOver(Trees[h - 1]) /\ m.kind = p.kind /\ m.what = p.what /\ m.name = p.name
          /\ m.idx = Len(st.var) /\ m.left = Nil /\ m.right = r.node
      <4>1. Len(st.var) \in Int
        BY <1>3
      <4>2. r.node \in Trees[h - 1] /\ m = WithSlot(p, Len(st.var), r.node)
        BY <3>2 DEF m, WithSlot
      <4>3. /\ m \in NodesOver(Trees[h - 1]) /\ m.kind = p.kind /\ m.what = p.what /\ m.name = p.name
            /\ m.idx = Len(st.var) /\ m.left = p.left /\ m.right = r.node
        BY <4>1, <4>2, NodeWithSlot
      <4> QED BY <1>1, <4>3
    <3>6. m \in Trees[h] /\ m \in Trees[MaxHeight] /\ m # Nil
      BY <3>5, NodeIsTree
    <3>7. r.st.var \in Seq(STRING)
      BY <3>2, SymbolsAre DEF Symbols
    <3>8. Matches(m, r.st.var)
      <4>1. Len(st.var) \in 0..Len(u.var) - 1
        BY <1>3, <2>1
      <4>2. Matches(m, u.var)
        BY <2>1, <3>5, <4>1 DEF Matches
      <4> QED BY <2>1, <3>2, <3>7, <4>2, ExtendsOn
    <3>9. InSlots(m, r.st.var)
      <4>1. InSlots(Nil, r.st.var)
        BY NothingInNil DEF InSlots
      <4> QED BY <3>2, <3>5, <3>6, <3>8, <4>1, InSlotsOf
    <3>10. Where(m, "func_def") = {}
      <4>1. ~ IsStatement(m, "func_def")
        BY <1>1, <3>5 DEF IsStatement
      <4> QED BY <3>2, <3>5, <3>6, <4>1, NoFunctionHere, NothingInNil
    <3>11. Extends(r.st.var, st.var)
      <4>1. Extends(r.st.var, u.var) /\ Extends(u.var, st.var)
        BY <2>1, <3>2
      <4> DEFINE a == st.var
                 b == u.var
                 c == r.st.var
      <4>2. a \in Seq(STRING) /\ b \in Seq(STRING) /\ c \in Seq(STRING) /\ Extends(c, b) /\ Extends(b, a)
        BY <1>3, <2>1, <3>7, <4>1
      <4> HIDE DEF a, b, c
      <4>3. Extends(c, a)
        BY <4>2, ExtendsOn
      <4> QED BY <4>3 DEF a, c
    <3>12. NamesIn(r.st.var) = V \union NamesOf(p)
      BY <1>2, <2>1, <3>2
    <3> DEFINE o == Good(m, r.st)
    <3>13. o.node = m /\ o.st = r.st /\ o = Good(o.node, o.st)
      BY DEF Good
    <3> HIDE DEF o
    <3>14. Entered(o, h, p, st)
      BY <1>3, <3>2, <3>6, <3>9, <3>10, <3>11, <3>12, <3>13 DEF Entered, V
    <3> QED BY <1>2, <1>7, <2>4, <3>4, <3>14 DEF Entering, V, o
  <2> QED BY <2>3, <2>4
<1> QED BY <1>6, <1>7

(* Parameters gives every parameter the next slot, and refuses them just   *)
(* when one has the name of a variable or of another parameter.            *)
LEMMA ParametersEnter ==
  ASSUME NEW k \in 0..MaxHeight, NEW p \in Trees[k], IsChain(p), NEW st \in Symbols, NoDouble(st.var)
  PROVE  Entering(Parameters(p, st), k, p, st)
<1>0. PICK C : Adds(C)
  BY ParametersUnfold
<1>1. /\ \A t, u : Parameters(t, u) = C[MaxHeight][t][u]
      /\ \A h \in 0..MaxHeight : \A t \in Trees[h], u \in Symbols :
           C[h][t][u] = Parameter(t, u, IF h = 0 THEN << >> ELSE C[h - 1])
  BY <1>0, Zenon DEF Adds
<1> DEFINE Keeps(h) == \A j \in 0..h : \A t \in Trees[j] : \A u \in Symbols :
                         IsChain(t) /\ NoDouble(u.var) => Entering(C[h][t][u], j, t, u)
           Proved == {h \in Nat : h <= MaxHeight => Keeps(h)}
<1>2. ASSUME NEW h \in 0..MaxHeight, NEW u \in Symbols PROVE C[h][Nil][u] = Good(Nil, u)
  <2>1. Nil \in Trees[h]
    BY NilIsTree
  <2>2. C[h][Nil][u] = Parameter(Nil, u, IF h = 0 THEN << >> ELSE C[h - 1])
    BY <1>1, <2>1
  <2> QED BY <2>2 DEF Parameter
<1>3. 0 \in Proved
  <2> SUFFICES ASSUME NEW j \in 0..0, NEW t \in Trees[j], NEW u \in Symbols, IsChain(t), NoDouble(u.var)
               PROVE  Entering(C[0][t][u], j, t, u)
    OBVIOUS
  <2>1. j = 0 /\ t = Nil /\ 0 \in 0..MaxHeight
    BY TreesAt, HeightAssumption
  <2> QED BY <1>2, <2>1, NothingEntered
<1>4. ASSUME NEW n \in Nat, n \in Proved PROVE n + 1 \in Proved
  <2> SUFFICES ASSUME n + 1 <= MaxHeight PROVE Keeps(n + 1)
    <3> HIDE DEF Keeps
    <3> QED OBVIOUS
  <2> SUFFICES ASSUME NEW j \in 0..n + 1, NEW t \in Trees[j], NEW u \in Symbols, IsChain(t), NoDouble(u.var)
               PROVE  Entering(C[n + 1][t][u], j, t, u)
    OBVIOUS
  <2>1. n + 1 \in 0..MaxHeight /\ (n + 1) - 1 = n /\ n + 1 # 0 /\ j \in 0..MaxHeight /\ n <= MaxHeight
    BY HeightAssumption
  <2>2. CASE t = Nil
    BY <1>2, <2>1, <2>2, NothingEntered
  <2>3. CASE t # Nil
    <3>1. j \in 1..MaxHeight /\ t \in NodesOver(Trees[j - 1])
      BY <2>1, <2>3, TreesAt
    <3>2. t \in Trees[n + 1]
      <4>1. j <= n + 1
        OBVIOUS
      <4> QED BY <2>1, <4>1, TreesMonotone
    <3>3. C[n + 1][t][u] = Parameter(t, u, C[n])
      BY <1>1, <2>1, <3>2
    <3>4. t.right \in Trees[j - 1] /\ j - 1 \in 0..n /\ IsChain(t.right)
      <4>1. t \in Trees[MaxHeight]
        BY <3>1, NodeIsTree
      <4> QED BY <2>3, <3>1, <4>1, ChainOf DEF NodesOver
    <3>5. \A w \in Symbols : NoDouble(w.var) => Entering(C[n][t.right][w], j - 1, t.right, w)
      BY <1>4, <2>1, <3>4
    <3> QED BY <3>1, <3>3, <3>5, OneEntered
  <2> QED BY <2>2, <2>3
<1>5. MaxHeight \in Proved
  <2> HIDE DEF Proved
  <2> QED BY <1>3, <1>4, SetInduction, HeightAssumption
<1>6. Entering(C[MaxHeight][p][st], k, p, st)
  BY <1>5, HeightAssumption
<1> QED BY <1>1, <1>6

-----------------------------------------------------------------------------
(* Trees that differ in nothing but the indices of their nodes.            *)
Alike(a, b) ==
  /\ a.kind = b.kind /\ a.what = b.what /\ a.name = b.name
  /\ (a.left = Nil <=> b.left = Nil) /\ a.left.kind = b.left.kind /\ a.left.name = b.left.name

Same(m, n) == Paths(m) = Paths(n) /\ \A p \in Paths(n) : Alike(At(m, p), At(n, p))

(* It is an order: a tree is the same as itself, and as any in a row.      *)
LEMMA SameItself ==
  /\ \A n : Same(n, n)
  /\ \A k, m, n : Same(k, m) /\ Same(m, n) => Same(k, n)
<1>1. \A n : Same(n, n)
  BY DEF Same, Alike
<1>2. ASSUME NEW k, NEW m, NEW n, Same(k, m), Same(m, n) PROVE Same(k, n)
  <2>1. Paths(k) = Paths(n) /\ Paths(m) = Paths(n)
    BY <1>2 DEF Same
  <2>2. ASSUME NEW p \in Paths(n) PROVE Alike(At(k, p), At(n, p))
    <3>1. Alike(At(k, p), At(m, p)) /\ Alike(At(m, p), At(n, p))
      BY <1>2, <2>1 DEF Same
    <3> QED BY <3>1 DEF Alike
  <2> QED BY <2>1, <2>2 DEF Same
<1> QED BY <1>1, <1>2

(* The empty tree is like itself only.                                     *)
LEMMA SameRoot ==
  ASSUME NEW m \in Trees[MaxHeight], NEW n \in Trees[MaxHeight], Same(m, n)
  PROVE  /\ m = Nil <=> n = Nil
         /\ n # Nil => Alike(m, n)
         /\ m.kind = n.kind /\ m.name = n.name
<1>1. \A t \in Trees[MaxHeight] : t # Nil => << >> \in Paths(t)
  BY PathsUnfold
<1>2. Paths(Nil) = {}
  BY NothingInNil
<1>3. m = Nil <=> n = Nil
  BY <1>1, <1>2 DEF Same
<1>4. << >> \in Seq(Sides)
  OBVIOUS
<1>5. At(m, << >>) = m /\ At(n, << >>) = n
  BY <1>4, AtSides
<1>6. n # Nil => Alike(m, n)
  BY <1>1, <1>5 DEF Same
<1> QED BY <1>3, <1>6 DEF Alike

(* Nodes over trees that are alike.                                        *)
LEMMA SameOver ==
  ASSUME NEW m \in Trees[MaxHeight], m # Nil, NEW n \in Trees[MaxHeight], n # Nil,
         m.kind = n.kind, m.what = n.what, m.name = n.name, Same(m.left, n.left), Same(m.right, n.right)
  PROVE  Same(m, n)
<1>1. /\ m.left \in Trees[MaxHeight] /\ m.right \in Trees[MaxHeight]
      /\ n.left \in Trees[MaxHeight] /\ n.right \in Trees[MaxHeight]
  BY ChildrenAreTrees
<1>2. Paths(m.left) = Paths(n.left) /\ Paths(m.right) = Paths(n.right)
  BY DEF Same
<1>3. /\ Paths(m) = {<< >>} \union Down("left", Paths(m.left)) \union Down("right", Paths(m.right))
      /\ Paths(n) = {<< >>} \union Down("left", Paths(n.left)) \union Down("right", Paths(n.right))
  BY PathsUnfold
<1>4. Paths(n.left) \subseteq Seq(Sides) /\ Paths(n.right) \subseteq Seq(Sides) /\ << >> \in Seq(Sides)
  BY <1>1, WhereTypes
<1>5. Alike(m, n)
  BY <1>1, SameRoot DEF Alike
<1>6. At(m, << >>) = m /\ At(n, << >>) = n
  BY <1>4, AtSides
<1>7. \A p \in Paths(n.left) : Alike(At(m, <<"left">> \o p), At(n, <<"left">> \o p))
  <2> SUFFICES ASSUME NEW p \in Paths(n.left) PROVE Alike(At(m, <<"left">> \o p), At(n, <<"left">> \o p))
    OBVIOUS
  <2>1. At(m, <<"left">> \o p) = At(m.left, p) /\ At(n, <<"left">> \o p) = At(n.left, p)
    BY <1>4, AtSides
  <2> QED BY <2>1 DEF Same
<1>8. \A p \in Paths(n.right) : Alike(At(m, <<"right">> \o p), At(n, <<"right">> \o p))
  <2> SUFFICES ASSUME NEW p \in Paths(n.right) PROVE Alike(At(m, <<"right">> \o p), At(n, <<"right">> \o p))
    OBVIOUS
  <2>1. At(m, <<"right">> \o p) = At(m.right, p) /\ At(n, <<"right">> \o p) = At(n.right, p)
    BY <1>4, AtSides
  <2> QED BY <2>1 DEF Same
<1>9. \A p \in Paths(n) : Alike(At(m, p), At(n, p))
  <2>1. \A p \in Down("left", Paths(n.left)) : Alike(At(m, p), At(n, p))
    BY <1>7, Zenon DEF Down
  <2>2. \A p \in Down("right", Paths(n.right)) : Alike(At(m, p), At(n, p))
    BY <1>8, Zenon DEF Down
  <2> QED BY <1>3, <1>5, <1>6, <2>1, <2>2
<1> QED BY <1>2, <1>3, <1>9 DEF Same

(* ... have everything else in common.                                     *)
LEMMA SameScopes ==
  ASSUME NEW m, NEW n, Same(m, n)
  PROVE  /\ \A s : Where(m, s) = Where(n, s)
         /\ Identifiers(m) = Identifiers(n) /\ \A p \in Identifiers(n) : NameAt(m, p) = NameAt(n, p)
         /\ \A f : ParameterPaths(m, f) = ParameterPaths(n, f)
         /\ \A p : Around(m, p) = Around(n, p)
         /\ \A p : Given(m, p) = Given(n, p)
<1>1. Paths(m) = Paths(n)
      /\ \A p \in Paths(n) : At(m, p).kind = At(n, p).kind /\ At(m, p).what = At(n, p).what /\ At(m, p).name = At(n, p).name
  BY DEF Same, Alike
<1>2. \A s : Where(m, s) = Where(n, s)
  BY <1>1 DEF Where, IsStatement
<1>3. Identifiers(m) = Identifiers(n) /\ Identifiers(n) \subseteq Paths(n)
  BY <1>1 DEF Identifiers
<1>4. \A p \in Identifiers(n) : NameAt(m, p) = NameAt(n, p)
  BY <1>1, <1>3 DEF NameAt
<1>5. \A f : ParameterPaths(m, f) = ParameterPaths(n, f) /\ ParameterPaths(n, f) \subseteq Identifiers(n)
  BY <1>3 DEF ParameterPaths
<1>6. \A p : Around(m, p) = Around(n, p)
  BY <1>2 DEF Around
<1>7. \A f : {NameAt(m, q) : q \in ParameterPaths(m, f)} = {NameAt(n, q) : q \in ParameterPaths(n, f)}
  BY <1>4, <1>5
<1>8. \A p : Given(m, p) = Given(n, p)
  <2> SUFFICES ASSUME NEW p PROVE Given(m, p) = Given(n, p)
    OBVIOUS
  <2>1. {{NameAt(m, q) : q \in ParameterPaths(m, f)} : f \in Around(n, p)}
        = {{NameAt(n, q) : q \in ParameterPaths(n, f)} : f \in Around(n, p)}
    BY <1>7, Zenon
  <2> QED BY <1>6, <2>1, Zenon DEF Given
<1> QED BY <1>2, <1>3, <1>4, <1>5, <1>6, <1>8

(* So they have the same scopes.                                           *)
LEMMA SameMeaning ==
  ASSUME NEW m, NEW n, Same(m, n)
  PROVE  /\ VariableNames(m) = VariableNames(n) /\ FunctionNames(m) = FunctionNames(n)
         /\ DefinedOnce(m) <=> DefinedOnce(n)
         /\ \A vars, funcs : UsesDefined(m, vars, funcs) <=> UsesDefined(n, vars, funcs)
         /\ IsProgram(m) <=> IsProgram(n)
<1>1. /\ \A s : Where(m, s) = Where(n, s)
      /\ Identifiers(m) = Identifiers(n) /\ \A p \in Identifiers(n) : NameAt(m, p) = NameAt(n, p)
      /\ \A f : ParameterPaths(m, f) = ParameterPaths(n, f)
      /\ \A p : Around(m, p) = Around(n, p)
      /\ \A p : Given(m, p) = Given(n, p)
  BY SameScopes
<1>2. Paths(m) = Paths(n) /\ \A p \in Paths(n) : Alike(At(m, p), At(n, p))
  BY DEF Same
<1>3. \A s : Where(n, s) \subseteq Paths(n)
  BY DEF Where
<1>4. \A s : \A p \in Where(n, s) : At(m, p).left.name = At(n, p).left.name /\ NameAt(m, p) = NameAt(n, p)
  BY <1>2, <1>3 DEF Alike, NameAt
<1>5. VariableNames(m) = VariableNames(n) /\ FunctionNames(m) = FunctionNames(n)
  BY <1>1, <1>4 DEF VariableNames, FunctionNames
<1>6. DefinedOnce(m) <=> DefinedOnce(n)
  BY <1>1, <1>4 DEF DefinedOnce
<1>7. \A f : \A p \in ParameterPaths(n, f) : p \in Identifiers(n)
  BY DEF ParameterPaths
<1>8. ASSUME NEW vars, NEW funcs PROVE UsesDefined(m, vars, funcs) <=> UsesDefined(n, vars, funcs)
  BY <1>1, <1>4, <1>7 DEF UsesDefined
<1>9. IsProgram(m) <=> IsProgram(n)
  BY <1>1, <1>2, <1>3 DEF IsProgram, Alike, IsStatement
<1> QED BY <1>5, <1>6, <1>8, <1>9

-----------------------------------------------------------------------------
(* Where the parameters of a function stand, one node further up.          *)
LEMMA ParametersDown ==
  ASSUME NEW s \in Sides, NEW f \in Seq(Sides)
  PROVE  /\ ParametersOf(f) \in Seq(Sides) /\ << >> \in Seq(Sides)
         /\ ParametersOf(<<s>> \o f) = <<s>> \o ParametersOf(f)
         /\ ParametersOf(<< >>) = <<"left">> \o << >>
<1>1. <<s>> \in Seq(Sides) /\ <<"left">> \in Seq(Sides) /\ << >> \in Seq(Sides)
  BY DEF Sides
<1>2. (<<s>> \o f) \o <<"left">> = <<s>> \o (f \o <<"left">>)
  BY <1>1, ConcatAssociative
<1>3. << >> \o <<"left">> = <<"left">> /\ <<"left">> \o << >> = <<"left">>
  BY <1>1, ConcatEmptySeq
<1>4. f \o <<"left">> \in Seq(Sides)
  BY <1>1
<1> QED BY <1>1, <1>2, <1>3, <1>4 DEF ParametersOf

(* The parameters of the node itself are the identifiers on its left; of   *)
(* a function in a child, those it has there.                              *)
LEMMA ParameterPathsOf ==
  ASSUME NEW n \in Trees[MaxHeight], n # Nil, NEW f \in Seq(Sides)
  PROVE  /\ ParameterPaths(n, << >>) = Down("left", Identifiers(n.left))
         /\ ParameterPaths(n, <<"left">> \o f) = Down("left", ParameterPaths(n.left, f))
         /\ ParameterPaths(n, <<"right">> \o f) = Down("right", ParameterPaths(n.right, f))
<1> DEFINE L == Identifiers(n.left)
           R == Identifiers(n.right)
           H == Here(n.kind = "IDENTIFIER")
           F == ParametersOf(f)
           E == << >>
<1>1. Identifiers(n) = H \union Down("left", L) \union Down("right", R) /\ H \subseteq {E}
  BY IdentifiersOf DEF Here
<1>2. L \subseteq Seq(Sides) /\ R \subseteq Seq(Sides) /\ "left" \in Sides /\ "right" \in Sides /\ "left" # "right"
  BY ChildrenAreTrees, WhereTypes DEF Sides
<1>3. /\ F \in Seq(Sides) /\ E \in Seq(Sides) /\ ParametersOf(E) = <<"left">> \o E
      /\ ParametersOf(<<"left">> \o f) = <<"left">> \o F
      /\ ParametersOf(<<"right">> \o f) = <<"right">> \o F
  BY <1>2, ParametersDown
<1>4. /\ \A g : ParameterPaths(n, g) = {p \in Identifiers(n) : Below(p, ParametersOf(g))}
      /\ ParameterPaths(n.left, f) = {p \in L : Below(p, F)}
      /\ ParameterPaths(n.right, f) = {p \in R : Below(p, F)}
  BY DEF ParameterPaths
<1> HIDE DEF L, R, H, F, E
<1>5. \A g \in {E, F} : \A p \in L \union R :
        /\ Below(<<"left">> \o p, <<"left">> \o g) <=> Below(p, g)
        /\ Below(<<"right">> \o p, <<"right">> \o g) <=> Below(p, g)
        /\ ~ Below(<<"left">> \o p, <<"right">> \o g) /\ ~ Below(<<"right">> \o p, <<"left">> \o g)
        /\ Below(p, E)
  <2> SUFFICES ASSUME NEW g \in {E, F}, NEW p \in L \union R
               PROVE  /\ Below(<<"left">> \o p, <<"left">> \o g) <=> Below(p, g)
                      /\ Below(<<"right">> \o p, <<"right">> \o g) <=> Below(p, g)
                      /\ ~ Below(<<"left">> \o p, <<"right">> \o g) /\ ~ Below(<<"right">> \o p, <<"left">> \o g)
                      /\ Below(p, E)
    OBVIOUS
  <2>1. g \in Seq(Sides) /\ p \in Seq(Sides)
    BY <1>2, <1>3
  <2>2. Below(p, E)
    BY <1>2, <2>1, BelowDown DEF E
  <2> QED BY <1>2, <2>1, <2>2, BelowDown
<1>6. \A g \in {E, F} : ~ Below(E, <<"left">> \o g) /\ ~ Below(E, <<"right">> \o g)
  BY <1>2, <1>3, BelowDown DEF E
<1>7. \A g \in {E, F} : /\ {p \in Down("left", L) : Below(p, <<"left">> \o g)} = Down("left", {p \in L : Below(p, g)})
                        /\ {p \in Down("right", R) : Below(p, <<"right">> \o g)} = Down("right", {p \in R : Below(p, g)})
                        /\ {p \in Down("left", L) : Below(p, <<"right">> \o g)} = {}
                        /\ {p \in Down("right", R) : Below(p, <<"left">> \o g)} = {}
                        /\ {p \in H : Below(p, <<"left">> \o g)} = {}
                        /\ {p \in H : Below(p, <<"right">> \o g)} = {}
  <2> SUFFICES ASSUME NEW g \in {E, F}
               PROVE /\ {p \in Down("left", L) : Below(p, <<"left">> \o g)} = Down("left", {p \in L : Below(p, g)})
                     /\ {p \in Down("right", R) : Below(p, <<"right">> \o g)} = Down("right", {p \in R : Below(p, g)})
                     /\ {p \in Down("left", L) : Below(p, <<"right">> \o g)} = {}
                     /\ {p \in Down("right", R) : Below(p, <<"left">> \o g)} = {}
                     /\ {p \in H : Below(p, <<"left">> \o g)} = {}
                     /\ {p \in H : Below(p, <<"right">> \o g)} = {}
    OBVIOUS
  <2>1. {p \in Down("left", L) : Below(p, <<"left">> \o g)} = Down("left", {p \in L : Below(p, g)})
    BY <1>5 DEF Down
  <2>2. {p \in Down("right", R) : Below(p, <<"right">> \o g)} = Down("right", {p \in R : Below(p, g)})
    BY <1>5 DEF Down
  <2>3. {p \in Down("left", L) : Below(p, <<"right">> \o g)} = {}
    BY <1>5 DEF Down
  <2>4. {p \in Down("right", R) : Below(p, <<"left">> \o g)} = {}
    BY <1>5 DEF Down
  <2>5. {p \in H : Below(p, <<"left">> \o g)} = {} /\ {p \in H : Below(p, <<"right">> \o g)} = {}
    BY <1>1, <1>6
  <2> QED BY <2>1, <2>2, <2>3, <2>4, <2>5
<1>8. {p \in L : Below(p, E)} = L
  BY <1>5
<1>9. \A b : {p \in Identifiers(n) : Below(p, b)} =
        {p \in H : Below(p, b)} \union {p \in Down("left", L) : Below(p, b)} \union {p \in Down("right", R) : Below(p, b)}
  BY <1>1
<1>10. ParameterPaths(n, E) = Down("left", L)
  <2>1. ParameterPaths(n, E) = {p \in Identifiers(n) : Below(p, <<"left">> \o E)}
    BY <1>3, <1>4
  <2> QED BY <1>7, <1>8, <1>9, <2>1
<1>11. ParameterPaths(n, <<"left">> \o f) = Down("left", {p \in L : Below(p, F)})
  <2>1. ParameterPaths(n, <<"left">> \o f) = {p \in Identifiers(n) : Below(p, <<"left">> \o F)}
    BY <1>3, <1>4
  <2> QED BY <1>7, <1>9, <2>1
<1>12. ParameterPaths(n, <<"right">> \o f) = Down("right", {p \in R : Below(p, F)})
  <2>1. ParameterPaths(n, <<"right">> \o f) = {p \in Identifiers(n) : Below(p, <<"right">> \o F)}
    BY <1>3, <1>4
  <2> QED BY <1>7, <1>9, <2>1
<1> QED BY <1>4, <1>10, <1>11, <1>12 DEF E, L

(* The parts of what IsProgram says of a tree.                             *)
Headed(n) == /\ n.kind = "STATEMENT" /\ n.what = "func_def" =>
                  n.left = Nil \/ (IsStatement(n.left, "params") /\ n.left.left = Nil /\ IsChain(n.left.right))
             /\ IsStatement(n, "var_def") => n.left.kind = "IDENTIFIER"
             /\ n.kind = "OPERATOR" /\ n.what = "read" => n.left.kind = "IDENTIFIER"

(* ... and what it says of the children.                                   *)
LEMMA ProgramParts ==
  ASSUME NEW n \in Trees[MaxHeight], n # Nil, IsProgram(n)
  PROVE  Headed(n) /\ IsProgram(n.left) /\ IsProgram(n.right)
<1>1. /\ n.left \in Trees[MaxHeight] /\ n.right \in Trees[MaxHeight]
      /\ Paths(n.left) \subseteq Seq(Sides) /\ Paths(n.right) \subseteq Seq(Sides) /\ << >> \in Seq(Sides)
      /\ "left" \in Sides /\ "right" \in Sides /\ "left" # "right"
  BY ChildrenAreTrees, WhereTypes DEF Sides
<1>2. Paths(n) = {<< >>} \union Down("left", Paths(n.left)) \union Down("right", Paths(n.right))
  BY PathsUnfold
<1>3. /\ \A p \in Paths(n.left) : <<"left">> \o p \in Paths(n) /\ At(n, <<"left">> \o p) = At(n.left, p)
      /\ \A p \in Paths(n.right) : <<"right">> \o p \in Paths(n) /\ At(n, <<"right">> \o p) = At(n.right, p)
      /\ << >> \in Paths(n) /\ At(n, << >>) = n
  <2>1. \A p \in Paths(n.left) : At(n, <<"left">> \o p) = At(n.left, p)
    BY <1>1, AtSides
  <2>2. \A p \in Paths(n.right) : At(n, <<"right">> \o p) = At(n.right, p)
    BY <1>1, AtSides
  <2>3. At(n, << >>) = n
    BY <1>1, AtSides
  <2> QED BY <1>2, <2>1, <2>2, <2>3 DEF Down
<1>4. Headed(n)
  <2>1. IsStatement(n, "var_def") => n.left.kind = "IDENTIFIER"
    BY <1>3 DEF IsProgram, Where
  <2>2. n.kind = "OPERATOR" /\ n.what = "read" => n.left.kind = "IDENTIFIER"
    BY <1>3 DEF IsProgram
  <2>3. ASSUME n.kind = "STATEMENT", n.what = "func_def", n.left # Nil
        PROVE  IsStatement(n.left, "params") /\ n.left.left = Nil /\ IsChain(n.left.right)
    <3>1. << >> \in Where(n, "func_def")
      BY <1>3, <2>3 DEF Where, IsStatement
    <3>2. ParametersOf(<< >>) = <<"left">> \o << >>
      BY <1>1, ParametersDown
    <3>3. \A p \in Paths(n.left) : Below(<<"left">> \o p, ParametersOf(<< >>))
      <4> DEFINE E == << >>
      <4>1. \A p \in Paths(n.left) : Below(p, E)
        BY <1>1, BelowDown
      <4>2. ParametersOf(E) = <<"left">> \o E /\ E \in Seq(Sides)
        BY <1>1, <3>2
      <4> HIDE DEF E
      <4>3. \A p \in Paths(n.left) : Below(<<"left">> \o p, <<"left">> \o E)
        BY <1>1, <4>1, <4>2, BelowDown
      <4> QED BY <4>2, <4>3 DEF E
    <3>4. \A p \in Paths(n.left) :
            /\ At(n.left, p).left = Nil
            /\ IF <<"left">> \o p = ParametersOf(<< >>) THEN IsStatement(At(n.left, p), "params")
               ELSE At(n.left, p).kind = "IDENTIFIER"
      BY <1>3, <3>1, <3>3 DEF IsProgram
    <3>5. Paths(n.left) = {<< >>} \union Down("left", Paths(n.left.left)) \union Down("right", Paths(n.left.right))
      BY <1>1, <2>3, PathsUnfold
    <3>6. At(n.left, << >>) = n.left /\ << >> \in Paths(n.left)
      BY <1>1, <3>5, AtSides
    <3>7. IsStatement(n.left, "params") /\ n.left.left = Nil
      BY <3>2, <3>4, <3>6
    <3>8. Paths(n.left.right) \subseteq Seq(Sides)
      BY <1>1, <2>3, ChildrenAreTrees, WhereTypes
    <3>9. ASSUME NEW q \in Paths(n.left.right)
          PROVE  At(n.left.right, q).left = Nil /\ At(n.left.right, q).kind = "IDENTIFIER"
      <4> DEFINE p == <<"right">> \o q
      <4>1. p \in Paths(n.left) /\ p \in Seq(Sides) /\ p # << >>
        BY <1>1, <3>5, <3>8, DownFacts DEF Down
      <4>2. At(n.left, p) = At(n.left.right, q)
        BY <3>8, AtSides
      <4> HIDE DEF p
      <4>3. <<"left">> \o p # ParametersOf(<< >>)
        BY <1>1, <3>2, <4>1, DownApart
      <4> QED BY <3>4, <4>1, <4>2, <4>3
    <3> QED BY <3>7, <3>9 DEF IsChain
  <2> QED BY <2>1, <2>2, <2>3 DEF Headed
<1>5. ASSUME NEW s \in Sides, NEW c \in Trees[MaxHeight], Paths(c) \subseteq Seq(Sides),
             \A p \in Paths(c) : <<s>> \o p \in Paths(n) /\ At(n, <<s>> \o p) = At(c, p)
      PROVE  IsProgram(c)
  <2>1. \A w : \A p \in Where(c, w) : <<s>> \o p \in Where(n, w) /\ p \in Seq(Sides)
    BY <1>5 DEF Where
  <2>2. ASSUME NEW f \in Where(c, "func_def"), NEW p \in Paths(c), Below(p, ParametersOf(f))
        PROVE  /\ At(c, p).left = Nil
               /\ IF p = ParametersOf(f) THEN IsStatement(At(c, p), "params") ELSE At(c, p).kind = "IDENTIFIER"
    <3>1. f \in Seq(Sides) /\ p \in Seq(Sides) /\ ParametersOf(f) \in Seq(Sides)
          /\ ParametersOf(<<s>> \o f) = <<s>> \o ParametersOf(f)
      BY <1>5, <2>1, ParametersDown
    <3>2. Below(<<s>> \o p, <<s>> \o ParametersOf(f))
      BY <2>2, <3>1, BelowDown
    <3>3. <<s>> \o p = <<s>> \o ParametersOf(f) <=> p = ParametersOf(f)
      BY <3>1, DownApart
    <3>4. <<s>> \o f \in Where(n, "func_def") /\ <<s>> \o p \in Paths(n) /\ Below(<<s>> \o p, ParametersOf(<<s>> \o f))
      BY <1>5, <2>1, <3>1, <3>2
    <3>5. /\ At(n, <<s>> \o p).left = Nil
          /\ IF <<s>> \o p = ParametersOf(<<s>> \o f) THEN IsStatement(At(n, <<s>> \o p), "params")
             ELSE At(n, <<s>> \o p).kind = "IDENTIFIER"
      BY <3>4 DEF IsProgram
    <3> QED BY <1>5, <3>1, <3>3, <3>5
  <2>3. \A p \in Where(c, "var_def") : At(c, p).left.kind = "IDENTIFIER"
    BY <1>5, <2>1 DEF IsProgram, Where
  <2>4. \A p \in Paths(c) :
          At(c, p).kind = "OPERATOR" /\ At(c, p).what = "read" => At(c, p).left.kind = "IDENTIFIER"
    BY <1>5 DEF IsProgram
  <2> QED BY <2>2, <2>3, <2>4 DEF IsProgram
<1>6. IsProgram(n.left)
  BY <1>1, <1>3, <1>5
<1>7. IsProgram(n.right)
  BY <1>1, <1>3, <1>5
<1> QED BY <1>4, <1>6, <1>7

-----------------------------------------------------------------------------
(* The names the statements s of a tree define, each in one place only and *)
(* none of them among those that are there.                                *)
DefName(node, s)   == IF s = "var_def" THEN node.left.name ELSE node.name
DefAt(n, s, p)     == DefName(At(n, p), s)
Definitions(n, s)  == {DefAt(n, s, p) : p \in Where(n, s)}
Once(n, s)         == \A p, q \in Where(n, s) : DefAt(n, s, p) = DefAt(n, s, q) => p = q
NewNames(n, s, there) == Once(n, s) /\ Definitions(n, s) \intersect there = {}
Defined(n, s)      == IF IsStatement(n, s) THEN {DefName(n, s)} ELSE {}

(* That is what Scoping says of variables and of functions.                *)
LEMMA DefinitionsAre ==
  ASSUME NEW n
  PROVE  /\ VariableNames(n) = Definitions(n, "var_def") /\ FunctionNames(n) = Definitions(n, "func_def")
         /\ DefinedOnce(n) <=> Once(n, "var_def") /\ Once(n, "func_def")
<1>1. \A m : DefName(m, "var_def") = m.left.name /\ DefName(m, "func_def") = m.name
  BY DEF DefName
<1>2. VariableNames(n) = Definitions(n, "var_def")
  BY <1>1 DEF VariableNames, Definitions, DefAt
<1>3. FunctionNames(n) = Definitions(n, "func_def")
  BY <1>1 DEF FunctionNames, Definitions, DefAt, NameAt
<1>4. DefinedOnce(n) <=> Once(n, "var_def") /\ Once(n, "func_def")
  BY <1>1 DEF DefinedOnce, Once, DefAt, NameAt
<1> QED BY <1>2, <1>3, <1>4

(* Trees that differ in indices only define the same.                      *)
LEMMA SameDefinitions ==
  ASSUME NEW m, NEW n, Same(m, n), NEW s
  PROVE  Definitions(m, s) = Definitions(n, s) /\ \A there : NewNames(m, s, there) <=> NewNames(n, s, there)
<1>1. Where(m, s) = Where(n, s) /\ Where(n, s) \subseteq Paths(n)
  BY SameScopes DEF Where
<1>2. \A p \in Where(n, s) : DefName(At(m, p), s) = DefName(At(n, p), s)
  BY <1>1 DEF Same, Alike, DefName
<1>3. Definitions(m, s) = Definitions(n, s)
  BY <1>1, <1>2 DEF Definitions, DefAt
<1>4. Once(m, s) <=> Once(n, s)
  BY <1>1, <1>2 DEF Once, DefAt
<1> QED BY <1>3, <1>4 DEF NewNames

(* An empty tree defines nothing.                                          *)
LEMMA NoDefinitions ==
  ASSUME NEW s
  PROVE  Definitions(Nil, s) = {} /\ \A there : NewNames(Nil, s, there)
<1>1. Where(Nil, s) = {}
  BY NothingInNil
<1> QED BY <1>1 DEF Definitions, NewNames, Once

(* Names are new in a node if its own is new, those in the left child are  *)
(* new behind it, and those in the right child behind both.                *)
LEMMA DefinitionsOf ==
  ASSUME NEW n \in Trees[MaxHeight], n # Nil, NEW s
  PROVE  /\ Definitions(n, s) = Defined(n, s) \union Definitions(n.left, s) \union Definitions(n.right, s)
         /\ \A there : NewNames(n, s, there) <=>
              /\ Defined(n, s) \intersect there = {}
              /\ NewNames(n.left, s, there \union Defined(n, s))
              /\ NewNames(n.right, s, there \union Defined(n, s) \union Definitions(n.left, s))
<1> DEFINE H == Here(IsStatement(n, s))
           L == Where(n.left, s)
           R == Where(n.right, s)
           O == Defined(n, s)
           DL == Definitions(n.left, s)
           DR == Definitions(n.right, s)
<1>1. Where(n, s) = H \union Down("left", L) \union Down("right", R)
  BY WhereOf
<1>2. L \subseteq Seq(Sides) /\ R \subseteq Seq(Sides) /\ "left" \in Sides /\ "right" \in Sides /\ << >> \in Seq(Sides)
      /\ "left" # "right"
  BY ChildrenAreTrees, WhereTypes DEF Sides
<1>3. (\A p \in L : DefAt(n, s, <<"left">> \o p) = DefAt(n.left, s, p)) /\ (\A p \in R : DefAt(n, s, <<"right">> \o p) = DefAt(n.right, s, p))
  <2>1. \A p \in L : At(n, <<"left">> \o p) = At(n.left, p)
    BY <1>2, AtSides
  <2>2. \A p \in R : At(n, <<"right">> \o p) = At(n.right, p)
    BY <1>2, AtSides
  <2> QED BY <2>1, <2>2 DEF DefAt
<1>4. O = {DefAt(n, s, p) : p \in H}
  <2>1. At(n, << >>) = n
    BY <1>2, AtSides
  <2> QED BY <2>1 DEF Defined, DefAt, Here
<1>5. DL = {DefAt(n.left, s, p) : p \in L} /\ DR = {DefAt(n.right, s, p) : p \in R}
  BY DEF Definitions
<1>6. Definitions(n, s) = {DefAt(n, s, p) : p \in Where(n, s)}
  BY DEF Definitions
<1>7. /\ \A p, q \in L : <<"left">> \o p = <<"left">> \o q <=> p = q
      /\ \A p, q \in R : <<"right">> \o p = <<"right">> \o q <=> p = q
      /\ \A p \in L, q \in R : <<"left">> \o p # <<"right">> \o q
      /\ \A p \in L : <<"left">> \o p # << >>
      /\ \A p \in R : <<"right">> \o p # << >>
      /\ \A p \in H : p = << >>
  <2>1. \A p, q \in L : <<"left">> \o p = <<"left">> \o q <=> p = q
    BY <1>2, DownApart
  <2>2. \A p, q \in R : <<"right">> \o p = <<"right">> \o q <=> p = q
    BY <1>2, DownApart
  <2>3. \A p \in L, q \in R : <<"left">> \o p # <<"right">> \o q
    BY <1>2, DownApart
  <2>4. (\A p \in L : <<"left">> \o p # << >>) /\ (\A p \in R : <<"right">> \o p # << >>)
    BY <1>2, DownFacts
  <2> QED BY <2>1, <2>2, <2>3, <2>4 DEF Here
<1>8. /\ Once(n, s) <=> \A p, q \in Where(n, s) : DefAt(n, s, p) = DefAt(n, s, q) => p = q
      /\ Once(n.left, s) <=> \A p, q \in L : DefAt(n.left, s, p) = DefAt(n.left, s, q) => p = q
      /\ Once(n.right, s) <=> \A p, q \in R : DefAt(n.right, s, p) = DefAt(n.right, s, q) => p = q
  BY DEF Once
<1> HIDE DEF H, L, R, O, DL, DR
<1>9. {DefAt(n, s, p) : p \in Down("left", L)} = DL /\ {DefAt(n, s, p) : p \in Down("right", R)} = DR
  <2>1. {DefAt(n, s, p) : p \in Down("left", L)} = {DefAt(n.left, s, p) : p \in L}
    BY <1>3, Zenon DEF Down
  <2>2. {DefAt(n, s, p) : p \in Down("right", R)} = {DefAt(n.right, s, p) : p \in R}
    BY <1>3, Zenon DEF Down
  <2> QED BY <1>5, <2>1, <2>2
<1>10. Definitions(n, s) = O \union DL \union DR
  BY <1>1, <1>4, <1>6, <1>9
<1>11. Once(n, s) <=> /\ Once(n.left, s) /\ Once(n.right, s)
                      /\ O \intersect DL = {} /\ O \intersect DR = {} /\ DL \intersect DR = {}
  <2>1. ASSUME Once(n, s)
        PROVE  /\ Once(n.left, s) /\ Once(n.right, s)
               /\ O \intersect DL = {} /\ O \intersect DR = {} /\ DL \intersect DR = {}
    <3>1. /\ \A p \in L : <<"left">> \o p \in Where(n, s)
          /\ \A p \in R : <<"right">> \o p \in Where(n, s)
          /\ \A p \in H : p \in Where(n, s)
      BY <1>1 DEF Down
    <3>2. \A p, q \in Where(n, s) : DefAt(n, s, p) = DefAt(n, s, q) => p = q
      BY <1>8, <2>1
    <3>6. \A p, q \in L : DefAt(n.left, s, p) = DefAt(n.left, s, q) => <<"left">> \o p = <<"left">> \o q
      BY <1>3, <3>1, <3>2
    <3>7. \A p, q \in R : DefAt(n.right, s, p) = DefAt(n.right, s, q) => <<"right">> \o p = <<"right">> \o q
      BY <1>3, <3>1, <3>2
    <3>3. Once(n.left, s) /\ Once(n.right, s)
      BY <1>7, <1>8, <3>6, <3>7
    <3>4. (\A p \in H, q \in L : DefAt(n, s, p) # DefAt(n.left, s, q)) /\ (\A p \in H, q \in R : DefAt(n, s, p) # DefAt(n.right, s, q))
      <4>1. ASSUME NEW p \in H, NEW q \in L PROVE DefAt(n, s, p) # DefAt(n.left, s, q)
        <5>1. p \in Where(n, s) /\ <<"left">> \o q \in Where(n, s) /\ p # <<"left">> \o q
          BY <1>7, <3>1
        <5>2. DefAt(n, s, p) # DefAt(n, s, <<"left">> \o q)
          BY <3>2, <5>1
        <5> QED BY <1>3, <5>2
      <4>2. ASSUME NEW p \in H, NEW q \in R PROVE DefAt(n, s, p) # DefAt(n.right, s, q)
        <5>1. p \in Where(n, s) /\ <<"right">> \o q \in Where(n, s) /\ p # <<"right">> \o q
          BY <1>7, <3>1
        <5>2. DefAt(n, s, p) # DefAt(n, s, <<"right">> \o q)
          BY <3>2, <5>1
        <5> QED BY <1>3, <5>2
      <4> QED BY <4>1, <4>2
    <3>5. ASSUME NEW p \in L, NEW q \in R PROVE DefAt(n.left, s, p) # DefAt(n.right, s, q)
      <4>1. <<"left">> \o p \in Where(n, s) /\ <<"right">> \o q \in Where(n, s) /\ <<"left">> \o p # <<"right">> \o q
        BY <1>7, <3>1
      <4>2. DefAt(n, s, <<"left">> \o p) # DefAt(n, s, <<"right">> \o q)
        BY <3>2, <4>1
      <4> QED BY <1>3, <4>2
    <3> QED BY <1>4, <1>5, <3>3, <3>4, <3>5
  <2>2. ASSUME Once(n.left, s), Once(n.right, s),
               O \intersect DL = {}, O \intersect DR = {}, DL \intersect DR = {}
        PROVE  Once(n, s)
    <3>1. \A p, q \in H : p = q
      BY <1>7
    <3>2. (\A p \in H, q \in L : DefAt(n, s, p) # DefAt(n.left, s, q)) /\ (\A p \in H, q \in R : DefAt(n, s, p) # DefAt(n.right, s, q))
      BY <1>4, <1>5, <2>2
    <3>3. \A p \in L, q \in R : DefAt(n.left, s, p) # DefAt(n.right, s, q)
      BY <1>5, <2>2
    <3>4. \A p \in Where(n, s) : p \in H \/ (\E x \in L : p = <<"left">> \o x) \/ (\E x \in R : p = <<"right">> \o x)
      BY <1>1 DEF Down
    <3>5. ASSUME NEW p \in Where(n, s), NEW q \in Where(n, s), DefAt(n, s, p) = DefAt(n, s, q) PROVE p = q
      <4>1. CASE p \in H
        <5>1. q \in H
          <6>1. ASSUME NEW y \in L, q = <<"left">> \o y PROVE FALSE
            <7>1. DefAt(n, s, q) = DefAt(n.left, s, y)
              BY <1>3, <6>1
            <7> QED BY <3>2, <3>5, <4>1, <7>1
          <6>2. ASSUME NEW y \in R, q = <<"right">> \o y PROVE FALSE
            <7>1. DefAt(n, s, q) = DefAt(n.right, s, y)
              BY <1>3, <6>2
            <7> QED BY <3>2, <3>5, <4>1, <7>1
          <6> QED BY <3>4, <6>1, <6>2
        <5> QED BY <3>1, <4>1, <5>1
      <4>2. ASSUME NEW x \in L, p = <<"left">> \o x PROVE p = q
        <5>1. DefAt(n, s, p) = DefAt(n.left, s, x)
          BY <1>3, <4>2
        <5>2. PICK y \in L : q = <<"left">> \o y
          <6>1. q \notin H
            BY <3>2, <3>5, <4>2, <5>1
          <6>2. ASSUME NEW y \in R, q = <<"right">> \o y PROVE FALSE
            <7>1. DefAt(n, s, q) = DefAt(n.right, s, y)
              BY <1>3, <6>2
            <7> QED BY <3>3, <3>5, <5>1, <6>2, <7>1
          <6> QED BY <3>4, <6>1, <6>2
        <5>3. DefAt(n, s, q) = DefAt(n.left, s, y)
          BY <1>3, <5>2
        <5>4. x = y
          BY <1>8, <2>2, <3>5, <5>1, <5>3
        <5> QED BY <4>2, <5>2, <5>4
      <4>3. ASSUME NEW x \in R, p = <<"right">> \o x PROVE p = q
        <5>1. DefAt(n, s, p) = DefAt(n.right, s, x)
          BY <1>3, <4>3
        <5>2. PICK y \in R : q = <<"right">> \o y
          <6>1. q \notin H
            BY <3>2, <3>5, <4>3, <5>1
          <6>2. ASSUME NEW y \in L, q = <<"left">> \o y PROVE FALSE
            <7>1. DefAt(n, s, q) = DefAt(n.left, s, y)
              BY <1>3, <6>2
            <7> QED BY <3>3, <3>5, <5>1, <6>2, <7>1
          <6> QED BY <3>4, <6>1, <6>2
        <5>3. DefAt(n, s, q) = DefAt(n.right, s, y)
          BY <1>3, <5>2
        <5>4. x = y
          BY <1>8, <2>2, <3>5, <5>1, <5>3
        <5> QED BY <4>3, <5>2, <5>4
      <4> QED BY <3>4, <4>1, <4>2, <4>3
    <3> QED BY <1>8, <3>5
  <2> QED BY <2>1, <2>2
<1>12. ASSUME NEW there
       PROVE  NewNames(n, s, there) <=> /\ O \intersect there = {}
                                        /\ NewNames(n.left, s, there \union O)
                                        /\ NewNames(n.right, s, there \union O \union DL)
  <2>1. /\ NewNames(n, s, there) <=> Once(n, s) /\ Definitions(n, s) \intersect there = {}
        /\ NewNames(n.left, s, there \union O) <=> Once(n.left, s) /\ DL \intersect (there \union O) = {}
        /\ NewNames(n.right, s, there \union O \union DL) <=>
             Once(n.right, s) /\ DR \intersect (there \union O \union DL) = {}
    BY DEF NewNames, DL, DR
  <2> QED BY <1>10, <1>11, <2>1
<1> QED BY <1>10, <1>12 DEF O, DL, DR

-----------------------------------------------------------------------------
(* What collecting the definitions of a tree comes to: an error just when  *)
(* a name is not new, else the same tree and a table that knows the names. *)
NewIn(n, st) == /\ NewNames(n, "var_def", NamesIn(st.var)) /\ NewNames(n, "func_def", NamesIn(st.func))

IsTableOfNames(st) == st \in Symbols /\ NoDouble(st.var) /\ NoDouble(st.func)

Collected(r, h, n, st) ==
  /\ r = Good(r.node, r.st) /\ r.node \in Trees[h] /\ Same(r.node, n) /\ IsTableOfNames(r.st)
  /\ NamesIn(r.st.var) = NamesIn(st.var) \union Definitions(n, "var_def")
  /\ NamesIn(r.st.func) = NamesIn(st.func) \union Definitions(n, "func_def")

Collecting(r, h, n, st) == IF NewIn(n, st) THEN Collected(r, h, n, st) ELSE r = Bad

(* A node with another index, and with one in its left child.              *)
LEMMA NodeWithIndex ==
  ASSUME NEW trees, NEW n \in NodesOver(trees), NEW i \in Int
  PROVE  /\ [n EXCEPT !.idx = i] \in NodesOver(trees)
         /\ [n EXCEPT !.idx = i].kind = n.kind /\ [n EXCEPT !.idx = i].what = n.what
         /\ [n EXCEPT !.idx = i].name = n.name /\ [n EXCEPT !.idx = i].idx = i
         /\ [n EXCEPT !.idx = i].left = n.left /\ [n EXCEPT !.idx = i].right = n.right
BY DEF NodesOver

(* ... as a tree of a height.                                              *)
LEMMA TreeWithIndex ==
  ASSUME NEW h \in 0..MaxHeight, NEW n \in Trees[h], n # Nil, NEW i \in Int
  PROVE  /\ [n EXCEPT !.idx = i] \in Trees[h] /\ [n EXCEPT !.idx = i] \in Trees[MaxHeight]
         /\ [n EXCEPT !.idx = i] # Nil /\ Same([n EXCEPT !.idx = i], n)
         /\ [n EXCEPT !.idx = i].idx = i /\ [n EXCEPT !.idx = i].name = n.name
<1>1. h \in 1..MaxHeight /\ n \in NodesOver(Trees[h - 1])
  BY TreesAt, HeightAssumption
<1> DEFINE m == [n EXCEPT !.idx = i]
<1>2. /\ m \in NodesOver(Trees[h - 1]) /\ m.kind = n.kind /\ m.what = n.what /\ m.name = n.name /\ m.idx = i
      /\ m.left = n.left /\ m.right = n.right
  BY <1>1, NodeWithIndex
<1> HIDE DEF m
<1>3. m \in Trees[h] /\ m \in Trees[MaxHeight] /\ m # Nil /\ n \in Trees[MaxHeight]
  BY <1>1, <1>2, NodeIsTree
<1>4. Same(m, n)
  <2>1. Same(m.left, n.left) /\ Same(m.right, n.right)
    BY <1>2, SameItself
  <2> QED BY <1>2, <1>3, <2>1, SameOver
<1> QED BY <1>2, <1>3, <1>4 DEF m

(* Its place is that of the other child, so nothing else moves.            *)
IsDefine(d, h, n, st) ==
  /\ d = Good(d.node, d.st) /\ d.node \in NodesOver(Trees[h - 1]) /\ IsTableOfNames(d.st)
  /\ d.node.kind = n.kind /\ d.node.what = n.what /\ d.node.name = n.name
  /\ d.node.right = n.right /\ Same(d.node.left, n.left)
  /\ NamesIn(d.st.var) = NamesIn(st.var) \union Defined(n, "var_def")
  /\ NamesIn(d.st.func) = NamesIn(st.func) \union Defined(n, "func_def")

(* When Define is as it should be.                                         *)
LEMMA IsDefineGood ==
  ASSUME NEW h, NEW n, NEW st, NEW m \in NodesOver(Trees[h - 1]), NEW t, IsTableOfNames(t),
         m.kind = n.kind, m.what = n.what, m.name = n.name, m.right = n.right, Same(m.left, n.left),
         NamesIn(t.var) = NamesIn(st.var) \union Defined(n, "var_def"),
         NamesIn(t.func) = NamesIn(st.func) \union Defined(n, "func_def")
  PROVE  IsDefine(Good(m, t), h, n, st)
<1> DEFINE d == Good(m, t)
<1>1. d.node = m /\ d.st = t /\ d = Good(d.node, d.st)
  BY DEF Good
<1> HIDE DEF d
<1>2. IsDefine(d, h, n, st)
  BY <1>1 DEF IsDefine
<1> QED BY <1>2 DEF d

(* Define is as it should be, or it refuses a name that is there.          *)
LEMMA DefineDefines ==
  ASSUME NEW h \in 1..MaxHeight, NEW n \in NodesOver(Trees[h - 1]), Headed(n), NEW st, IsTableOfNames(st)
  PROVE  IF Defined(n, "var_def") \intersect NamesIn(st.var) = {} /\ Defined(n, "func_def") \intersect NamesIn(st.func) = {}
         THEN IsDefine(Define(n, st), h, n, st)
         ELSE Define(n, st) = Bad
<1>1. /\ n.left \in Trees[h - 1] /\ n.name \in STRING /\ h - 1 \in 0..MaxHeight
      /\ st \in Symbols /\ NoDouble(st.var) /\ NoDouble(st.func)
  <2>1. n.left \in Trees[h - 1] /\ n.name \in STRING
    BY DEF NodesOver
  <2>2. st \in Symbols /\ NoDouble(st.var) /\ NoDouble(st.func)
    BY DEF IsTableOfNames
  <2>3. h - 1 \in 0..MaxHeight
    BY HeightAssumption
  <2> QED BY <2>1, <2>2, <2>3
<1>2. st.var \in Seq(STRING) /\ st.func \in Seq(STRING) /\ Len(st.var) \in Nat /\ Len(st.func) \in Nat
  BY <1>1, SymbolsAre
<1>3. /\ \A x : InTable(x, st.var) <=> x \in NamesIn(st.var)
      /\ \A x : InTable(x, st.func) <=> x \in NamesIn(st.func)
  BY <1>2, TableFinds
<1>4. \A m : Same(m, m)
  BY SameItself
<1>5. CASE IsStatement(n, "func_def")
  <2>1. Defined(n, "var_def") = {} /\ Defined(n, "func_def") = {n.name} /\ ~ IsStatement(n, "var_def")
    BY <1>5 DEF Defined, DefName, IsStatement
  <2>2. CASE n.name \in NamesIn(st.func)
    <3>1. Define(n, st) = Bad
      BY <1>3, <1>5, <2>1, <2>2, Zenon DEF Define
    <3> QED BY <2>1, <2>2, <3>1
  <2>3. CASE n.name \notin NamesIn(st.func)
    <3> DEFINE i == Len(st.func) + 50
               m == [n EXCEPT !.idx = i]
               t == [st EXCEPT !.func = Append(@, n.name)]
    <3>1. Define(n, st) = Good(m, t)
      BY <1>3, <1>5, <2>1, <2>3, Zenon DEF Define
    <3>2. i \in Int
      BY <1>2
    <3> HIDE DEF i
    <3>3. /\ m \in NodesOver(Trees[h - 1]) /\ m.kind = n.kind /\ m.what = n.what /\ m.name = n.name
          /\ m.left = n.left /\ m.right = n.right
      BY <3>2, NodeWithIndex
    <3>4. t \in Symbols /\ t.func = Append(st.func, n.name) /\ t.var = st.var
      BY <1>1, SymbolsAre
    <3> HIDE DEF m, t
    <3>5. NoDouble(t.func) /\ NamesIn(t.func) = NamesIn(st.func) \union {n.name}
      BY <1>1, <1>2, <2>3, <3>4, AppendingName
    <3>6. IsTableOfNames(t)
      BY <1>1, <3>4, <3>5 DEF IsTableOfNames
    <3>7. Same(m.left, n.left)
      BY <1>4, <3>3
    <3>8. NamesIn(t.var) = NamesIn(st.var) \union Defined(n, "var_def")
          /\ NamesIn(t.func) = NamesIn(st.func) \union Defined(n, "func_def")
      BY <2>1, <3>4, <3>5
    <3>9. IsDefine(Good(m, t), h, n, st)
      BY <3>3, <3>6, <3>7, <3>8, IsDefineGood
    <3> QED BY <2>1, <2>3, <3>1, <3>9
  <2> QED BY <2>2, <2>3
<1>6. CASE IsStatement(n, "var_def")
  <2>1. Defined(n, "func_def") = {} /\ Defined(n, "var_def") = {n.left.name} /\ ~ IsStatement(n, "func_def")
    BY <1>6 DEF Defined, DefName, IsStatement
  <2>2. CASE n.left.name \in NamesIn(st.var)
    <3>1. Define(n, st) = Bad
      BY <1>3, <1>6, <2>1, <2>2, Zenon DEF Define
    <3> QED BY <2>1, <2>2, <3>1
  <2>3. CASE n.left.name \notin NamesIn(st.var)
    <3> DEFINE i == Len(st.var)
               l == [n.left EXCEPT !.idx = i]
               m == [n EXCEPT !.left = l]
               t == [st EXCEPT !.var = Append(@, n.left.name)]
    <3>0. [n EXCEPT !.left.idx = Len(st.var)] = m
      OBVIOUS
    <3>1. Define(n, st) = Good(m, t)
      <4>1. Define(n, st) = Good([n EXCEPT !.left.idx = Len(st.var)], t)
        BY <1>3, <1>6, <2>1, <2>3, Zenon DEF Define
      <4> QED BY <3>0, <4>1
    <3>2. i \in Int
      BY <1>2
    <3> HIDE DEF i
    <3>3. n.left # Nil
      <4>1. n.left.kind = "IDENTIFIER"
        BY <1>6 DEF Headed
      <4> QED BY <4>1 DEF Nil
    <3>10. n.left.name \in STRING
      <4>1. h - 1 \in 1..MaxHeight /\ n.left \in NodesOver(Trees[(h - 1) - 1])
        BY <1>1, <3>3, TreesAt
      <4> QED BY <4>1 DEF NodesOver
    <3>11. l \in Trees[h - 1] /\ Same(l, n.left)
      BY <1>1, <3>2, <3>3, TreeWithIndex
    <3> HIDE DEF l
    <3>12. /\ m \in NodesOver(Trees[h - 1]) /\ m.kind = n.kind /\ m.what = n.what /\ m.name = n.name
           /\ m.left = l /\ m.right = n.right
      BY <3>11, NodeWithLeft
    <3>4. t \in Symbols /\ t.var = Append(st.var, n.left.name) /\ t.func = st.func
      BY <1>1, <3>10, SymbolsAre
    <3> HIDE DEF m, t
    <3>5. NoDouble(t.var) /\ NamesIn(t.var) = NamesIn(st.var) \union {n.left.name}
      BY <1>1, <1>2, <2>3, <3>4, <3>10, AppendingName
    <3>6. IsTableOfNames(t)
      BY <1>1, <3>4, <3>5 DEF IsTableOfNames
    <3>8. NamesIn(t.var) = NamesIn(st.var) \union Defined(n, "var_def")
          /\ NamesIn(t.func) = NamesIn(st.func) \union Defined(n, "func_def")
      BY <2>1, <3>4, <3>5
    <3>9. IsDefine(Good(m, t), h, n, st)
      BY <3>6, <3>8, <3>11, <3>12, IsDefineGood
    <3> QED BY <2>1, <2>3, <3>1, <3>9
  <2> QED BY <2>2, <2>3
<1>7. CASE ~ IsStatement(n, "func_def") /\ ~ IsStatement(n, "var_def")
  <2>1. Defined(n, "func_def") = {} /\ Defined(n, "var_def") = {}
    BY <1>7 DEF Defined
  <2>2. Define(n, st) = Good(n, st)
    BY <1>7, Zenon DEF Define
  <2>3. Same(n.left, n.left)
    BY <1>4
  <2>4. IsDefine(Good(n, st), h, n, st)
    BY <2>1, <2>3, IsDefineGood
  <2> QED BY <2>1, <2>2, <2>4
<1> QED BY <1>5, <1>6, <1>7

(* An empty tree defines nothing.                                          *)
LEMMA NothingCollected ==
  ASSUME NEW h \in 0..MaxHeight, NEW st, IsTableOfNames(st)
  PROVE  Collecting(Good(Nil, st), h, Nil, st)
<1> DEFINE r == Good(Nil, st)
<1>1. r = Good(r.node, r.st) /\ r.node = Nil /\ r.st = st
  BY DEF Good
<1>2. Nil \in Trees[h] /\ Same(Nil, Nil)
  BY NilIsTree, SameItself
<1>3. Definitions(Nil, "var_def") = {} /\ Definitions(Nil, "func_def") = {} /\ NewIn(Nil, st)
  BY NoDefinitions DEF NewIn
<1> HIDE DEF r
<1>4. Collected(r, h, Nil, st)
  BY <1>1, <1>2, <1>3 DEF Collected
<1> QED BY <1>3, <1>4 DEF Collecting, r

(* Both keeps what it is given.                                            *)
LEMMA BothGood ==
  ASSUME NEW h \in 1..MaxHeight, NEW m \in NodesOver(Trees[h - 1]), NEW a, NEW b,
         a = Good(a.node, a.st), b = Good(b.node, b.st), a.node \in Trees[h - 1], b.node \in Trees[h - 1]
  PROVE  LET r == Both(m, a, b) IN
         /\ r = Good(r.node, r.st) /\ r.st = b.st /\ r.node \in Trees[h] /\ r.node \in Trees[MaxHeight] /\ r.node # Nil
         /\ r.node \in NodesOver(Trees[h - 1]) /\ IsOver(r.node, m, a.node, b.node)
<1> DEFINE o == Over(m, a.node, b.node)
           r == Both(m, a, b)
<1>1. a.ok /\ b.ok
  BY DEF Good
<1>2. r = Good(o, b.st)
  BY <1>1, Zenon DEF Both
<1>3. o \in NodesOver(Trees[h - 1]) /\ IsOver(o, m, a.node, b.node)
  BY NodeOver
<1> HIDE DEF o, r
<1>4. o \in Trees[h] /\ o \in Trees[MaxHeight] /\ o # Nil
  BY <1>3, NodeIsTree
<1>5. r = Good(r.node, r.st) /\ r.st = b.st /\ r.node = o
  BY <1>2 DEF Good
<1> QED BY <1>3, <1>4, <1>5 DEF r

(* An error in one of two children is an error.                            *)
LEMMA BothBad == \A m, a, b : a = Bad \/ b = Bad => Both(m, a, b) = Bad
BY DEF Both, Bad

(* A node whose children are collected as they should be.                  *)
LEMMA NodeCollected ==
  ASSUME NEW h \in 1..MaxHeight, NEW n \in NodesOver(Trees[h - 1]), IsProgram(n), NEW st, IsTableOfNames(st),
         NEW below,
         \A t \in Trees[h - 1], u \in Symbols : IsProgram(t) /\ IsTableOfNames(u) => Collecting(below[t][u], h - 1, t, u)
  PROVE  Collecting(DefineNode(n, st, below), h, n, st)
<1> DEFINE d == Define(n, st)
           a == below[d.node.left][d.st]
           b == below[d.node.right][a.st]
           V == NamesIn(st.var)
           F == NamesIn(st.func)
           DV == Defined(n, "var_def")
           DF == Defined(n, "func_def")
           r == DefineNode(n, st, below)
<1>1. n \in Trees[MaxHeight] /\ n # Nil
  BY NodeIsTree
<1>2. Headed(n) /\ IsProgram(n.left) /\ IsProgram(n.right)
  BY <1>1, ProgramParts
<1>3. r = IF d.ok THEN Both(d.node, a, b) ELSE Bad
  BY <1>1, Zenon DEF DefineNode
<1>4. IF DV \intersect V = {} /\ DF \intersect F = {} THEN IsDefine(d, h, n, st) ELSE d = Bad
  BY <1>2, DefineDefines
<1>5. NewIn(n, st) <=> /\ DV \intersect V = {} /\ DF \intersect F = {}
                       /\ NewNames(n.left, "var_def", V \union DV) /\ NewNames(n.left, "func_def", F \union DF)
                       /\ NewNames(n.right, "var_def", V \union DV \union Definitions(n.left, "var_def"))
                       /\ NewNames(n.right, "func_def", F \union DF \union Definitions(n.left, "func_def"))
  BY <1>1, DefinitionsOf DEF NewIn
<1>6. /\ Definitions(n, "var_def") = DV \union Definitions(n.left, "var_def") \union Definitions(n.right, "var_def")
      /\ Definitions(n, "func_def") = DF \union Definitions(n.left, "func_def") \union Definitions(n.right, "func_def")
  BY <1>1, DefinitionsOf
<1> HIDE DEF d, a, b, r, DV, DF
<1>7. CASE ~ (DV \intersect V = {} /\ DF \intersect F = {})
  <2>1. d = Bad
    BY <1>4, <1>7
  <2>2. r = Bad
    BY <1>3, <2>1 DEF Bad
  <2> QED BY <1>5, <1>7, <2>2 DEF Collecting, r
<1>8. CASE DV \intersect V = {} /\ DF \intersect F = {}
  <2>1. IsDefine(d, h, n, st)
    BY <1>4, <1>8
  <2>2. /\ d = Good(d.node, d.st) /\ d.node \in NodesOver(Trees[h - 1]) /\ IsTableOfNames(d.st)
        /\ d.node.kind = n.kind /\ d.node.what = n.what /\ d.node.name = n.name
        /\ d.node.right = n.right /\ Same(d.node.left, n.left)
        /\ NamesIn(d.st.var) = V \union DV /\ NamesIn(d.st.func) = F \union DF
    BY <2>1 DEF IsDefine, DV, DF
  <2>3. r = Both(d.node, a, b)
    <3>1. d.ok
      BY <2>2 DEF Good
    <3> QED BY <1>3, <3>1
  <2>4. /\ d.node.left \in Trees[h - 1] /\ d.node.right \in Trees[h - 1] /\ IsProgram(d.node.left)
        /\ d.st \in Symbols
    BY <1>2, <2>2, SameMeaning DEF NodesOver, IsTableOfNames
  <2>5. Collecting(a, h - 1, d.node.left, d.st)
    BY <2>2, <2>4 DEF a
  <2>6. NewIn(d.node.left, d.st) <=>
          NewNames(n.left, "var_def", V \union DV) /\ NewNames(n.left, "func_def", F \union DF)
    BY <2>2, SameDefinitions DEF NewIn
  <2>7. CASE ~ NewIn(d.node.left, d.st)
    <3>1. a = Bad
      BY <2>5, <2>7 DEF Collecting
    <3>2. r = Bad
      BY <2>3, <3>1, BothBad
    <3> QED BY <1>5, <2>6, <2>7, <3>2 DEF Collecting, r
  <2>8. CASE NewIn(d.node.left, d.st)
    <3>1. Collected(a, h - 1, d.node.left, d.st)
      BY <2>5, <2>8 DEF Collecting
    <3>2. /\ a = Good(a.node, a.st) /\ a.node \in Trees[h - 1] /\ Same(a.node, d.node.left) /\ IsTableOfNames(a.st)
          /\ NamesIn(a.st.var) = V \union DV \union Definitions(n.left, "var_def")
          /\ NamesIn(a.st.func) = F \union DF \union Definitions(n.left, "func_def")
      BY <2>2, <3>1, SameDefinitions DEF Collected
    <3>3. Same(a.node, n.left) /\ a.st \in Symbols
      BY <2>2, <3>2, SameItself DEF IsTableOfNames
    <3>4. Collecting(b, h - 1, n.right, a.st)
      BY <1>2, <2>2, <2>4, <3>2, <3>3 DEF b
    <3>5. NewIn(n.right, a.st) <=>
            /\ NewNames(n.right, "var_def", V \union DV \union Definitions(n.left, "var_def"))
            /\ NewNames(n.right, "func_def", F \union DF \union Definitions(n.left, "func_def"))
      BY <3>2 DEF NewIn
    <3>6. CASE ~ NewIn(n.right, a.st)
      <4>1. b = Bad
        BY <3>4, <3>6 DEF Collecting
      <4>2. r = Bad
        BY <2>3, <4>1, BothBad
      <4> QED BY <1>5, <3>5, <3>6, <4>2 DEF Collecting, r
    <3>7. CASE NewIn(n.right, a.st)
      <4>1. Collected(b, h - 1, n.right, a.st)
        BY <3>4, <3>7 DEF Collecting
      <4>2. /\ b = Good(b.node, b.st) /\ b.node \in Trees[h - 1] /\ Same(b.node, n.right) /\ IsTableOfNames(b.st)
            /\ NamesIn(b.st.var) = NamesIn(a.st.var) \union Definitions(n.right, "var_def")
            /\ NamesIn(b.st.func) = NamesIn(a.st.func) \union Definitions(n.right, "func_def")
        BY <4>1 DEF Collected
      <4>3. /\ r = Good(r.node, r.st) /\ r.st = b.st /\ r.node \in Trees[h] /\ r.node \in Trees[MaxHeight] /\ r.node # Nil
            /\ IsOver(r.node, d.node, a.node, b.node)
        BY <2>2, <2>3, <3>2, <4>2, BothGood
      <4>4. Same(r.node, n)
        <5>1. r.node.kind = n.kind /\ r.node.what = n.what /\ r.node.name = n.name
              /\ r.node.left = a.node /\ r.node.right = b.node
          BY <2>2, <4>3 DEF IsOver
        <5> QED BY <1>1, <3>3, <4>2, <4>3, <5>1, SameOver
      <4>5. /\ NamesIn(r.st.var) = V \union Definitions(n, "var_def")
            /\ NamesIn(r.st.func) = F \union Definitions(n, "func_def")
        BY <1>6, <3>2, <4>2, <4>3
      <4>6. Collected(r, h, n, st)
        BY <4>2, <4>3, <4>4, <4>5 DEF Collected
      <4>7. NewIn(n, st)
        BY <1>5, <1>8, <2>6, <2>8, <3>5, <3>7
      <4> QED BY <4>6, <4>7 DEF Collecting, r
    <3> QED BY <3>6, <3>7
  <2> QED BY <2>7, <2>8
<1> QED BY <1>7, <1>8

(* collect_definitions refuses a program just when two of its definitions  *)
(* have a name in common, and else fills the tables with all the names.    *)
LEMMA DefinitionsCollected ==
  ASSUME NEW tree \in Trees[MaxHeight], IsProgram(tree), NEW st, IsTableOfNames(st)
  PROVE  Collecting(collect_definitions(tree, st), MaxHeight, tree, st)
<1>0. PICK C : Declares(C)
  BY DefinitionsUnfold
<1>1. /\ \A t, u : collect_definitions(t, u) = C[MaxHeight][t][u]
      /\ \A h \in 0..MaxHeight : \A t \in Trees[h], u \in Symbols :
           C[h][t][u] = DefineNode(t, u, IF h = 0 THEN << >> ELSE C[h - 1])
  BY <1>0, Zenon DEF Declares
<1> DEFINE Keeps(h) == \A t \in Trees[h], u \in Symbols :
                         IsProgram(t) /\ IsTableOfNames(u) => Collecting(C[h][t][u], h, t, u)
           Proved == {h \in Nat : h <= MaxHeight => Keeps(h)}
<1>2. ASSUME NEW h \in 0..MaxHeight, NEW u \in Symbols PROVE C[h][Nil][u] = Good(Nil, u)
  <2>1. Nil \in Trees[h]
    BY NilIsTree
  <2>2. C[h][Nil][u] = DefineNode(Nil, u, IF h = 0 THEN << >> ELSE C[h - 1])
    BY <1>1, <2>1
  <2> QED BY <2>2 DEF DefineNode
<1>3. 0 \in Proved
  <2> SUFFICES ASSUME NEW t \in Trees[0], NEW u \in Symbols, IsTableOfNames(u)
               PROVE  Collecting(C[0][t][u], 0, t, u)
    OBVIOUS
  <2>1. t = Nil /\ 0 \in 0..MaxHeight
    BY TreesAt, HeightAssumption
  <2> QED BY <1>2, <2>1, NothingCollected
<1>4. ASSUME NEW n \in Nat, n \in Proved PROVE n + 1 \in Proved
  <2> SUFFICES ASSUME n + 1 <= MaxHeight PROVE Keeps(n + 1)
    <3> HIDE DEF Keeps
    <3> QED OBVIOUS
  <2> SUFFICES ASSUME NEW t \in Trees[n + 1], NEW u \in Symbols, IsProgram(t), IsTableOfNames(u)
               PROVE  Collecting(C[n + 1][t][u], n + 1, t, u)
    OBVIOUS
  <2>1. n + 1 \in 0..MaxHeight /\ n + 1 \in 1..MaxHeight /\ (n + 1) - 1 = n /\ n + 1 # 0 /\ n <= MaxHeight
    BY HeightAssumption
  <2>2. CASE t = Nil
    BY <1>2, <2>1, <2>2, NothingCollected
  <2>3. CASE t # Nil
    <3>1. t \in NodesOver(Trees[(n + 1) - 1])
      BY <2>1, <2>3, TreesAt
    <3>2. C[n + 1][t][u] = DefineNode(t, u, C[n])
      BY <1>1, <2>1
    <3>3. \A s \in Trees[(n + 1) - 1], w \in Symbols :
            IsProgram(s) /\ IsTableOfNames(w) => Collecting(C[n][s][w], (n + 1) - 1, s, w)
      BY <1>4, <2>1
    <3>4. Collecting(DefineNode(t, u, C[n]), n + 1, t, u)
      BY <2>1, <3>1, <3>3, NodeCollected
    <3> QED BY <3>2, <3>4
  <2> QED BY <2>2, <2>3
<1>5. MaxHeight \in Proved
  <2> HIDE DEF Proved
  <2> QED BY <1>3, <1>4, SetInduction, HeightAssumption
<1>6. st \in Symbols
  BY DEF IsTableOfNames
<1>7. Collecting(C[MaxHeight][tree][st], MaxHeight, tree, st)
  BY <1>5, <1>6, HeightAssumption
<1> QED BY <1>1, <1>7

-----------------------------------------------------------------------------
(* The parameters a node gives to what stands in it.                       *)
Gives(n) == IF IsStatement(n, "func_def") THEN NamesOf(n.left) ELSE {}

ParameterNames(n, f) == {NameAt(n, q) : q \in ParameterPaths(n, f)}

(* The parameters of a function in a tree are those it has in a child.     *)
LEMMA ParameterNamesOf ==
  ASSUME NEW n \in Trees[MaxHeight], n # Nil, NEW f \in Seq(Sides)
  PROVE  /\ ParameterNames(n, << >>) = NamesOf(n.left)
         /\ ParameterNames(n, <<"left">> \o f) = ParameterNames(n.left, f)
         /\ ParameterNames(n, <<"right">> \o f) = ParameterNames(n.right, f)
<1> DEFINE L == Identifiers(n.left)
           PL == ParameterPaths(n.left, f)
           PR == ParameterPaths(n.right, f)
<1>1. /\ ParameterPaths(n, << >>) = Down("left", L)
      /\ ParameterPaths(n, <<"left">> \o f) = Down("left", PL)
      /\ ParameterPaths(n, <<"right">> \o f) = Down("right", PR)
  BY ParameterPathsOf
<1>2. L \subseteq Seq(Sides) /\ PL \subseteq Seq(Sides) /\ PR \subseteq Seq(Sides)
  BY ChildrenAreTrees, WhereTypes DEF ParameterPaths
<1>3. /\ \A q \in L \union PL : NameAt(n, <<"left">> \o q) = NameAt(n.left, q)
      /\ \A q \in PR : NameAt(n, <<"right">> \o q) = NameAt(n.right, q)
  BY <1>2, AtSides DEF NameAt
<1>4. NamesOf(n.left) = {NameAt(n.left, q) : q \in L}
  BY DEF NamesOf
<1> HIDE DEF L, PL, PR
<1>5. {NameAt(n, q) : q \in Down("left", L)} = {NameAt(n.left, q) : q \in L}
  BY <1>3, Zenon DEF Down
<1>6. {NameAt(n, q) : q \in Down("left", PL)} = {NameAt(n.left, q) : q \in PL}
  BY <1>3, Zenon DEF Down
<1>7. {NameAt(n, q) : q \in Down("right", PR)} = {NameAt(n.right, q) : q \in PR}
  BY <1>3, Zenon DEF Down
<1> QED BY <1>1, <1>4, <1>5, <1>6, <1>7 DEF ParameterNames, PL, PR

(* What is given to a path is what the node gives and the child gives.     *)
LEMMA GivenOf ==
  ASSUME NEW n \in Trees[MaxHeight], n # Nil, NEW p \in Seq(Sides)
  PROVE  /\ Given(n, << >>) = Gives(n)
         /\ Given(n, <<"left">> \o p) = Gives(n) \union Given(n.left, p)
         /\ Given(n, <<"right">> \o p) = Gives(n) \union Given(n.right, p)
<1> DEFINE H == Here(IsStatement(n, "func_def"))
           A == Around(n.left, p)
           B == Around(n.right, p)
<1>1. /\ Around(n, << >>) = H
      /\ Around(n, <<"left">> \o p) = H \union Down("left", A)
      /\ Around(n, <<"right">> \o p) = H \union Down("right", B)
  BY AroundOf
<1>2. A \subseteq Seq(Sides) /\ B \subseteq Seq(Sides) /\ << >> \in Seq(Sides)
  BY ChildrenAreTrees, WhereTypes
<1>3. /\ \A m, q, x : x \in Given(m, q) <=> \E f \in Around(m, q) : x \in ParameterNames(m, f)
      /\ \A x : x \in Given(n.left, p) <=> \E f \in A : x \in ParameterNames(n.left, f)
      /\ \A x : x \in Given(n.right, p) <=> \E f \in B : x \in ParameterNames(n.right, f)
  BY DEF Given, ParameterNames
<1>4. /\ \A f \in A : ParameterNames(n, <<"left">> \o f) = ParameterNames(n.left, f)
      /\ \A f \in B : ParameterNames(n, <<"right">> \o f) = ParameterNames(n.right, f)
  BY <1>2, ParameterNamesOf
<1>5. \A x : (\E f \in H : x \in ParameterNames(n, f)) <=> x \in Gives(n)
  <2>1. ParameterNames(n, << >>) = NamesOf(n.left)
    BY <1>2, ParameterNamesOf
  <2> QED BY <2>1 DEF Gives, Here
<1> HIDE DEF H, A, B
<1>6. \A x : (\E f \in Down("left", A) : x \in ParameterNames(n, f)) <=> \E f \in A : x \in ParameterNames(n.left, f)
  BY <1>4, Zenon DEF Down
<1>7. \A x : (\E f \in Down("right", B) : x \in ParameterNames(n, f)) <=> \E f \in B : x \in ParameterNames(n.right, f)
  BY <1>4, Zenon DEF Down
<1>8. \A x : x \in Given(n, << >>) <=> x \in Gives(n)
  BY <1>1, <1>3, <1>5
<1>9. ASSUME NEW x PROVE x \in Given(n, <<"left">> \o p) <=> x \in Gives(n) \/ x \in Given(n.left, p)
  <2>1. x \in Given(n, <<"left">> \o p) <=> \E f \in H \union Down("left", A) : x \in ParameterNames(n, f)
    BY <1>1, <1>3
  <2> QED BY <1>3, <1>5, <1>6, <2>1
<1>10. ASSUME NEW x PROVE x \in Given(n, <<"right">> \o p) <=> x \in Gives(n) \/ x \in Given(n.right, p)
  <2>1. x \in Given(n, <<"right">> \o p) <=> \E f \in H \union Down("right", B) : x \in ParameterNames(n, f)
    BY <1>1, <1>3
  <2> QED BY <1>3, <1>5, <1>7, <2>1
<1> QED BY <1>8, <1>9, <1>10

(* The three parts of UsesDefined.                                         *)
CallsDefined(n, funcs) == \A p \in Where(n, "func_call") : NameAt(n, p) \in funcs
NamesDefined(n, vars)  == \A p \in Identifiers(n) : NameAt(n, p) \in vars \union Given(n, p)
ParametersNew(n, vars) ==
  \A f \in Where(n, "func_def") : \A p \in ParameterPaths(n, f) :
    /\ NameAt(n, p) \notin vars
    /\ \A g \in Around(n, p) : \A q \in ParameterPaths(n, g) : NameAt(n, p) = NameAt(n, q) => p = q

(* It is made of these three.                                              *)
LEMMA UsesParts ==
  \A n, vars, funcs :
    UsesDefined(n, vars, funcs) <=> CallsDefined(n, funcs) /\ NamesDefined(n, vars) /\ ParametersNew(n, vars)
BY DEF UsesDefined, CallsDefined, NamesDefined, ParametersNew

(* The calls of a node and of its children are defined.                    *)
LEMMA CallsOf ==
  ASSUME NEW n \in Trees[MaxHeight], n # Nil, NEW funcs
  PROVE  CallsDefined(n, funcs) <=> /\ IsStatement(n, "func_call") => n.name \in funcs
                                    /\ CallsDefined(n.left, funcs) /\ CallsDefined(n.right, funcs)
<1> DEFINE H == Here(IsStatement(n, "func_call"))
           L == Where(n.left, "func_call")
           R == Where(n.right, "func_call")
<1>1. Where(n, "func_call") = H \union Down("left", L) \union Down("right", R)
  BY WhereOf
<1>2. L \subseteq Seq(Sides) /\ R \subseteq Seq(Sides) /\ << >> \in Seq(Sides)
  BY ChildrenAreTrees, WhereTypes
<1>3. /\ \A q \in L : NameAt(n, <<"left">> \o q) = NameAt(n.left, q)
      /\ \A q \in R : NameAt(n, <<"right">> \o q) = NameAt(n.right, q)
      /\ NameAt(n, << >>) = n.name
  BY <1>2, AtSides DEF NameAt
<1>4. /\ CallsDefined(n, funcs) <=> \A p \in Where(n, "func_call") : NameAt(n, p) \in funcs
      /\ CallsDefined(n.left, funcs) <=> \A p \in L : NameAt(n.left, p) \in funcs
      /\ CallsDefined(n.right, funcs) <=> \A p \in R : NameAt(n.right, p) \in funcs
  BY DEF CallsDefined
<1>5. (\A p \in H : NameAt(n, p) \in funcs) <=> (IsStatement(n, "func_call") => n.name \in funcs)
  BY <1>3 DEF Here
<1> HIDE DEF H, L, R
<1>6. (\A p \in Down("left", L) : NameAt(n, p) \in funcs) <=> (\A p \in L : NameAt(n.left, p) \in funcs)
  BY <1>3, Zenon DEF Down
<1>7. (\A p \in Down("right", R) : NameAt(n, p) \in funcs) <=> (\A p \in R : NameAt(n.right, p) \in funcs)
  BY <1>3, Zenon DEF Down
<1>8. (\A p \in Where(n, "func_call") : NameAt(n, p) \in funcs) <=>
        /\ \A p \in H : NameAt(n, p) \in funcs
        /\ \A p \in Down("left", L) : NameAt(n, p) \in funcs
        /\ \A p \in Down("right", R) : NameAt(n, p) \in funcs
  BY <1>1
<1> QED BY <1>4, <1>5, <1>6, <1>7, <1>8

(* The names of a node are defined, and those of its children among more.  *)
LEMMA NamesDefinedOf ==
  ASSUME NEW n \in Trees[MaxHeight], n # Nil, NEW vars
  PROVE  NamesDefined(n, vars) <=> /\ n.kind = "IDENTIFIER" => n.name \in vars
                                   /\ NamesDefined(n.left, vars \union Gives(n))
                                   /\ NamesDefined(n.right, vars \union Gives(n))
<1> DEFINE H == Here(n.kind = "IDENTIFIER")
           L == Identifiers(n.left)
           R == Identifiers(n.right)
           V == vars \union Gives(n)
           Known(p) == NameAt(n, p) \in vars \union Given(n, p)
<1>1. Identifiers(n) = H \union Down("left", L) \union Down("right", R)
  BY IdentifiersOf
<1>2. L \subseteq Seq(Sides) /\ R \subseteq Seq(Sides) /\ << >> \in Seq(Sides)
  BY ChildrenAreTrees, WhereTypes
<1>3. /\ \A q \in L : NameAt(n, <<"left">> \o q) = NameAt(n.left, q)
      /\ \A q \in R : NameAt(n, <<"right">> \o q) = NameAt(n.right, q)
      /\ NameAt(n, << >>) = n.name
  BY <1>2, AtSides DEF NameAt
<1>4. /\ \A q \in L : Given(n, <<"left">> \o q) = Gives(n) \union Given(n.left, q)
      /\ \A q \in R : Given(n, <<"right">> \o q) = Gives(n) \union Given(n.right, q)
      /\ Given(n, << >>) = Gives(n)
  BY <1>2, GivenOf
<1>5. /\ NamesDefined(n, vars) <=> \A p \in Identifiers(n) : Known(p)
      /\ NamesDefined(n.left, V) <=> \A p \in L : NameAt(n.left, p) \in V \union Given(n.left, p)
      /\ NamesDefined(n.right, V) <=> \A p \in R : NameAt(n.right, p) \in V \union Given(n.right, p)
  BY DEF NamesDefined
<1>6. (\A p \in H : Known(p)) <=> (n.kind = "IDENTIFIER" => n.name \in vars)
  <2>1. n.kind = "IDENTIFIER" => Gives(n) = {}
    BY DEF Gives, IsStatement
  <2> QED BY <1>3, <1>4, <2>1 DEF Here
<1>7. \A q \in L : Known(<<"left">> \o q) <=> NameAt(n.left, q) \in V \union Given(n.left, q)
  BY <1>3, <1>4
<1>8. \A q \in R : Known(<<"right">> \o q) <=> NameAt(n.right, q) \in V \union Given(n.right, q)
  BY <1>3, <1>4
<1> HIDE DEF H, L, R, V, Known
<1>9. (\A p \in Down("left", L) : Known(p)) <=> (\A q \in L : Known(<<"left">> \o q))
  BY Zenon DEF Down
<1>10. (\A p \in Down("right", R) : Known(p)) <=> (\A q \in R : Known(<<"right">> \o q))
  BY Zenon DEF Down
<1>11. (\A p \in Identifiers(n) : Known(p)) <=>
         /\ \A p \in H : Known(p)
         /\ \A p \in Down("left", L) : Known(p)
         /\ \A p \in Down("right", R) : Known(p)
  BY <1>1
<1> QED BY <1>5, <1>6, <1>7, <1>8, <1>9, <1>10, <1>11 DEF V

(* No other parameter of its name holds where a parameter stands.          *)
Lone(n, p) == \A g \in Around(n, p) : \A q \in ParameterPaths(n, g) : NameAt(n, p) = NameAt(n, q) => p = q

(* A parameter is alone if it is in its child and among those given.       *)
LEMMA LoneOf ==
  ASSUME NEW n \in Trees[MaxHeight], n # Nil, NEW p \in Seq(Sides)
  PROVE  /\ Lone(n, <<"right">> \o p) <=> NameAt(n.right, p) \notin Gives(n) /\ Lone(n.right, p)
         /\ ~ IsStatement(n, "func_def") => (Lone(n, <<"left">> \o p) <=> Lone(n.left, p))
         /\ IsStatement(n, "func_def") /\ Around(n.left, p) = {} =>
              (Lone(n, <<"left">> \o p) <=>
                 \A q \in Identifiers(n.left) : NameAt(n.left, p) = NameAt(n.left, q) => p = q)
<1> DEFINE H == Here(IsStatement(n, "func_def"))
           A == Around(n.left, p)
           B == Around(n.right, p)
           L == Identifiers(n.left)
           l == <<"left">> \o p
           r == <<"right">> \o p
<1>1. Around(n, l) = H \union Down("left", A) /\ Around(n, r) = H \union Down("right", B)
  BY AroundOf
<1>2. /\ A \subseteq Seq(Sides) /\ B \subseteq Seq(Sides) /\ << >> \in Seq(Sides) /\ L \subseteq Seq(Sides)
      /\ "left" \in Sides /\ "right" \in Sides /\ "left" # "right"
      /\ \A f : ParameterPaths(n.left, f) \subseteq Seq(Sides) /\ ParameterPaths(n.right, f) \subseteq Seq(Sides)
  BY ChildrenAreTrees, WhereTypes DEF ParameterPaths, Sides
<1>3. /\ \A q \in Seq(Sides) : NameAt(n, <<"left">> \o q) = NameAt(n.left, q)
      /\ \A q \in Seq(Sides) : NameAt(n, <<"right">> \o q) = NameAt(n.right, q)
  BY <1>2, AtSides DEF NameAt
<1>4. /\ ParameterPaths(n, << >>) = Down("left", L)
      /\ \A f \in A : ParameterPaths(n, <<"left">> \o f) = Down("left", ParameterPaths(n.left, f))
      /\ \A f \in B : ParameterPaths(n, <<"right">> \o f) = Down("right", ParameterPaths(n.right, f))
  BY <1>2, ParameterPathsOf
<1>5. /\ \A q \in Seq(Sides) : l = <<"left">> \o q <=> p = q
      /\ \A q \in Seq(Sides) : r = <<"right">> \o q <=> p = q
      /\ \A q \in Seq(Sides) : r # <<"left">> \o q
  BY <1>2, DownApart
<1>6. /\ NameAt(n, l) = NameAt(n.left, p) /\ NameAt(n, r) = NameAt(n.right, p)
  BY <1>3
<1>7. /\ \A m, x : Lone(m, x) <=> \A g \in Around(m, x) : \A q \in ParameterPaths(m, g) : NameAt(m, x) = NameAt(m, q) => x = q
  BY DEF Lone
<1>8. \A q \in L : q \in Seq(Sides)
  BY <1>2
<1> HIDE DEF H, A, B, L, l, r
<1>9. (\A g \in Down("left", A) : \A q \in ParameterPaths(n, g) : NameAt(n, l) = NameAt(n, q) => l = q)
      <=> Lone(n.left, p)
  <2>1. ASSUME NEW g \in A
        PROVE  (\A q \in ParameterPaths(n, <<"left">> \o g) : NameAt(n, l) = NameAt(n, q) => l = q)
               <=> \A q \in ParameterPaths(n.left, g) : NameAt(n.left, p) = NameAt(n.left, q) => p = q
    <3> DEFINE P == ParameterPaths(n.left, g)
    <3>1. P \subseteq Seq(Sides) /\ ParameterPaths(n, <<"left">> \o g) = Down("left", P)
      BY <1>2, <1>4
    <3> HIDE DEF P
    <3>2. \A q \in P : (NameAt(n, l) = NameAt(n, <<"left">> \o q) => l = <<"left">> \o q)
                       <=> (NameAt(n.left, p) = NameAt(n.left, q) => p = q)
      BY <1>3, <1>5, <1>6, <3>1
    <3>3. (\A q \in Down("left", P) : NameAt(n, l) = NameAt(n, q) => l = q)
          <=> \A q \in P : NameAt(n, l) = NameAt(n, <<"left">> \o q) => l = <<"left">> \o q
      BY Zenon DEF Down
    <3> QED BY <3>1, <3>2, <3>3 DEF P
  <2>2. (\A g \in Down("left", A) : \A q \in ParameterPaths(n, g) : NameAt(n, l) = NameAt(n, q) => l = q)
        <=> \A g \in A : \A q \in ParameterPaths(n, <<"left">> \o g) : NameAt(n, l) = NameAt(n, q) => l = q
    BY Zenon DEF Down
  <2> QED BY <1>7, <2>1, <2>2 DEF A
<1>10. (\A g \in Down("right", B) : \A q \in ParameterPaths(n, g) : NameAt(n, r) = NameAt(n, q) => r = q)
       <=> Lone(n.right, p)
  <2>1. ASSUME NEW g \in B
        PROVE  (\A q \in ParameterPaths(n, <<"right">> \o g) : NameAt(n, r) = NameAt(n, q) => r = q)
               <=> \A q \in ParameterPaths(n.right, g) : NameAt(n.right, p) = NameAt(n.right, q) => p = q
    <3> DEFINE P == ParameterPaths(n.right, g)
    <3>1. P \subseteq Seq(Sides) /\ ParameterPaths(n, <<"right">> \o g) = Down("right", P)
      BY <1>2, <1>4
    <3> HIDE DEF P
    <3>2. \A q \in P : (NameAt(n, r) = NameAt(n, <<"right">> \o q) => r = <<"right">> \o q)
                       <=> (NameAt(n.right, p) = NameAt(n.right, q) => p = q)
      BY <1>3, <1>5, <1>6, <3>1
    <3>3. (\A q \in Down("right", P) : NameAt(n, r) = NameAt(n, q) => r = q)
          <=> \A q \in P : NameAt(n, r) = NameAt(n, <<"right">> \o q) => r = <<"right">> \o q
      BY Zenon DEF Down
    <3> QED BY <3>1, <3>2, <3>3 DEF P
  <2>2. (\A g \in Down("right", B) : \A q \in ParameterPaths(n, g) : NameAt(n, r) = NameAt(n, q) => r = q)
        <=> \A g \in B : \A q \in ParameterPaths(n, <<"right">> \o g) : NameAt(n, r) = NameAt(n, q) => r = q
    BY Zenon DEF Down
  <2> QED BY <1>7, <2>1, <2>2 DEF B
<1>11. (\A g \in H : \A q \in ParameterPaths(n, g) : NameAt(n, r) = NameAt(n, q) => r = q)
       <=> NameAt(n.right, p) \notin Gives(n)
  <2>1. CASE IsStatement(n, "func_def")
    <3>1. H = {<< >>} /\ Gives(n) = {NameAt(n.left, q) : q \in L}
      BY <2>1 DEF H, Here, Gives, NamesOf, L
    <3>2. \A q \in L : (NameAt(n, r) = NameAt(n, <<"left">> \o q) => r = <<"left">> \o q)
                       <=> NameAt(n.right, p) # NameAt(n.left, q)
      BY <1>3, <1>5, <1>6, <1>8
    <3>3. (\A q \in Down("left", L) : NameAt(n, r) = NameAt(n, q) => r = q)
          <=> \A q \in L : NameAt(n, r) = NameAt(n, <<"left">> \o q) => r = <<"left">> \o q
      BY Zenon DEF Down
    <3> QED BY <1>4, <3>1, <3>2, <3>3
  <2>2. CASE ~ IsStatement(n, "func_def")
    BY <2>2 DEF H, Here, Gives
  <2> QED BY <2>1, <2>2
<1>12. Lone(n, r) <=> NameAt(n.right, p) \notin Gives(n) /\ Lone(n.right, p)
  <2>1. Lone(n, r) <=>
          /\ \A g \in H : \A q \in ParameterPaths(n, g) : NameAt(n, r) = NameAt(n, q) => r = q
          /\ \A g \in Down("right", B) : \A q \in ParameterPaths(n, g) : NameAt(n, r) = NameAt(n, q) => r = q
    BY <1>1, <1>7
  <2> QED BY <1>10, <1>11, <2>1
<1>13. Lone(n, l) <=>
         /\ \A g \in H : \A q \in ParameterPaths(n, g) : NameAt(n, l) = NameAt(n, q) => l = q
         /\ \A g \in Down("left", A) : \A q \in ParameterPaths(n, g) : NameAt(n, l) = NameAt(n, q) => l = q
  BY <1>1, <1>7
<1>14. ~ IsStatement(n, "func_def") => (Lone(n, l) <=> Lone(n.left, p))
  <2>1. ~ IsStatement(n, "func_def") => H = {}
    BY DEF H, Here
  <2> QED BY <1>9, <1>13, <2>1
<1>15. ASSUME IsStatement(n, "func_def"), A = {}
       PROVE  Lone(n, l) <=> \A q \in L : NameAt(n.left, p) = NameAt(n.left, q) => p = q
  <2>1. H = {<< >>} /\ Down("left", A) = {}
    BY <1>15 DEF H, Here, Down
  <2>2. \A q \in L : (NameAt(n, l) = NameAt(n, <<"left">> \o q) => l = <<"left">> \o q)
                     <=> (NameAt(n.left, p) = NameAt(n.left, q) => p = q)
    BY <1>3, <1>5, <1>6, <1>8
  <2>3. (\A q \in Down("left", L) : NameAt(n, l) = NameAt(n, q) => l = q)
        <=> \A q \in L : NameAt(n, l) = NameAt(n, <<"left">> \o q) => l = <<"left">> \o q
    BY Zenon DEF Down
  <2> QED BY <1>4, <1>13, <2>1, <2>2, <2>3
<1> QED BY <1>12, <1>14, <1>15 DEF A, L, l, r

(* The parameters of a node that is a function are new, and those of the   *)
(* functions in it are new beside them.                                    *)
LEMMA ParametersNewOf ==
  ASSUME NEW n \in Trees[MaxHeight], n # Nil, NEW vars,
         IsStatement(n, "func_def") => Where(n.left, "func_def") = {}
  PROVE  ParametersNew(n, vars) <=> /\ IsStatement(n, "func_def") => Fresh(n.left, vars)
                                    /\ ParametersNew(n.left, vars \union Gives(n))
                                    /\ ParametersNew(n.right, vars \union Gives(n))
<1> DEFINE H == Here(IsStatement(n, "func_def"))
           FL == Where(n.left, "func_def")
           FR == Where(n.right, "func_def")
           V == vars \union Gives(n)
           I == Identifiers(n.left)
           New(f) == \A p \in ParameterPaths(n, f) : NameAt(n, p) \notin vars /\ Lone(n, p)
<1>1. Where(n, "func_def") = H \union Down("left", FL) \union Down("right", FR)
  BY WhereOf
<1>2. /\ FL \subseteq Seq(Sides) /\ FR \subseteq Seq(Sides) /\ << >> \in Seq(Sides) /\ I \subseteq Seq(Sides)
      /\ \A f : ParameterPaths(n.left, f) \subseteq Seq(Sides) /\ ParameterPaths(n.right, f) \subseteq Seq(Sides)
  BY ChildrenAreTrees, WhereTypes DEF ParameterPaths
<1>3. /\ \A q \in Seq(Sides) : NameAt(n, <<"left">> \o q) = NameAt(n.left, q)
      /\ \A q \in Seq(Sides) : NameAt(n, <<"right">> \o q) = NameAt(n.right, q)
  BY <1>2, AtSides DEF NameAt
<1>4. /\ ParameterPaths(n, << >>) = Down("left", I)
      /\ \A f \in FL : ParameterPaths(n, <<"left">> \o f) = Down("left", ParameterPaths(n.left, f))
      /\ \A f \in FR : ParameterPaths(n, <<"right">> \o f) = Down("right", ParameterPaths(n.right, f))
  BY <1>2, ParameterPathsOf
<1>5. /\ ParametersNew(n, vars) <=> \A f \in Where(n, "func_def") : New(f)
      /\ ParametersNew(n.left, V) <=>
           \A f \in FL : \A p \in ParameterPaths(n.left, f) : NameAt(n.left, p) \notin V /\ Lone(n.left, p)
      /\ ParametersNew(n.right, V) <=>
           \A f \in FR : \A p \in ParameterPaths(n.right, f) : NameAt(n.right, p) \notin V /\ Lone(n.right, p)
  BY DEF ParametersNew, Lone
<1>6. IsStatement(n, "func_def") => FL = {}
  OBVIOUS
<1>7. ~ IsStatement(n, "func_def") => Gives(n) = {} /\ H = {}
  BY DEF Gives, Here
<1>8. \A f : New(f) <=> \A p \in ParameterPaths(n, f) : NameAt(n, p) \notin vars /\ Lone(n, p)
  OBVIOUS
<1>9. IsStatement(n, "func_def") => \A p : Around(n.left, p) = {}
  BY <1>6 DEF Around
<1> HIDE DEF H, FL, FR, I, New
<1>10. (\A f \in H : New(f)) <=> (IsStatement(n, "func_def") => Fresh(n.left, vars))
  <2>1. CASE ~ IsStatement(n, "func_def")
    BY <1>7, <2>1
  <2>2. CASE IsStatement(n, "func_def")
    <3>1. H = {<< >>}
      BY <2>2 DEF H, Here
    <3>2. \A p \in I : Lone(n, <<"left">> \o p) <=>
                         \A q \in I : NameAt(n.left, p) = NameAt(n.left, q) => p = q
      BY <1>2, <1>9, <2>2, LoneOf DEF I
    <3>3. New(<< >>) <=> \A p \in Down("left", I) : NameAt(n, p) \notin vars /\ Lone(n, p)
      BY <1>4, <1>8
    <3>4. (\A p \in Down("left", I) : NameAt(n, p) \notin vars /\ Lone(n, p))
          <=> \A p \in I : NameAt(n, <<"left">> \o p) \notin vars /\ Lone(n, <<"left">> \o p)
      BY Zenon DEF Down
    <3>5. Fresh(n.left, vars) <=>
            \A p \in I : /\ NameAt(n.left, p) \notin vars
                         /\ \A q \in I : NameAt(n.left, p) = NameAt(n.left, q) => p = q
      BY DEF Fresh, I
    <3>6. \A p \in I : NameAt(n, <<"left">> \o p) = NameAt(n.left, p)
      BY <1>2, <1>3
    <3>7. New(<< >>) <=> Fresh(n.left, vars)
      BY <3>2, <3>3, <3>4, <3>5, <3>6
    <3> QED BY <2>2, <3>1, <3>7
  <2> QED BY <2>1, <2>2
<1>11. (\A f \in Down("left", FL) : New(f)) <=> ParametersNew(n.left, V)
  <2>1. CASE IsStatement(n, "func_def")
    <3>1. Down("left", FL) = {}
      BY <1>6, <2>1 DEF Down
    <3> QED BY <1>5, <1>6, <2>1, <3>1
  <2>2. CASE ~ IsStatement(n, "func_def")
    <3>1. ASSUME NEW f \in FL
          PROVE  New(<<"left">> \o f) <=>
                   \A p \in ParameterPaths(n.left, f) : NameAt(n.left, p) \notin V /\ Lone(n.left, p)
      <4> DEFINE P == ParameterPaths(n.left, f)
      <4>1. P \subseteq Seq(Sides) /\ ParameterPaths(n, <<"left">> \o f) = Down("left", P)
        BY <1>2, <1>4
      <4> HIDE DEF P
      <4>2. \A p \in P : Lone(n, <<"left">> \o p) <=> Lone(n.left, p)
        BY <2>2, <4>1, LoneOf
      <4>3. \A p \in P : NameAt(n, <<"left">> \o p) = NameAt(n.left, p)
        BY <1>3, <4>1
      <4>4. New(<<"left">> \o f) <=> \A p \in Down("left", P) : NameAt(n, p) \notin vars /\ Lone(n, p)
        BY <1>8, <4>1
      <4>5. (\A p \in Down("left", P) : NameAt(n, p) \notin vars /\ Lone(n, p))
            <=> \A p \in P : NameAt(n, <<"left">> \o p) \notin vars /\ Lone(n, <<"left">> \o p)
        BY Zenon DEF Down
      <4>6. V = vars
        BY <1>7, <2>2
      <4> QED BY <4>2, <4>3, <4>4, <4>5, <4>6 DEF P
    <3>2. (\A f \in Down("left", FL) : New(f)) <=> \A f \in FL : New(<<"left">> \o f)
      BY Zenon DEF Down
    <3> QED BY <1>5, <3>1, <3>2
  <2> QED BY <2>1, <2>2
<1>12. (\A f \in Down("right", FR) : New(f)) <=> ParametersNew(n.right, V)
  <2>1. ASSUME NEW f \in FR
        PROVE  New(<<"right">> \o f) <=>
                 \A p \in ParameterPaths(n.right, f) : NameAt(n.right, p) \notin V /\ Lone(n.right, p)
    <3> DEFINE P == ParameterPaths(n.right, f)
    <3>1. P \subseteq Seq(Sides) /\ ParameterPaths(n, <<"right">> \o f) = Down("right", P)
      BY <1>2, <1>4
    <3> HIDE DEF P
    <3>2. \A p \in P : Lone(n, <<"right">> \o p) <=> NameAt(n.right, p) \notin Gives(n) /\ Lone(n.right, p)
      BY <3>1, LoneOf
    <3>3. \A p \in P : NameAt(n, <<"right">> \o p) = NameAt(n.right, p)
      BY <1>3, <3>1
    <3>4. New(<<"right">> \o f) <=> \A p \in Down("right", P) : NameAt(n, p) \notin vars /\ Lone(n, p)
      BY <1>8, <3>1
    <3>5. (\A p \in Down("right", P) : NameAt(n, p) \notin vars /\ Lone(n, p))
          <=> \A p \in P : NameAt(n, <<"right">> \o p) \notin vars /\ Lone(n, <<"right">> \o p)
      BY Zenon DEF Down
    <3>6. \A x : x \notin V <=> x \notin vars /\ x \notin Gives(n)
      OBVIOUS
    <3> HIDE DEF V
    <3> QED BY <3>2, <3>3, <3>4, <3>5, <3>6 DEF P
  <2>2. (\A f \in Down("right", FR) : New(f)) <=> \A f \in FR : New(<<"right">> \o f)
    BY Zenon DEF Down
  <2> QED BY <1>5, <2>1, <2>2
<1>13. (\A f \in Where(n, "func_def") : New(f)) <=>
         /\ \A f \in H : New(f)
         /\ \A f \in Down("left", FL) : New(f)
         /\ \A f \in Down("right", FR) : New(f)
  BY <1>1
<1> QED BY <1>5, <1>10, <1>11, <1>12, <1>13

(* All of it for a node.                                                   *)
LEMMA UsesDefinedOf ==
  ASSUME NEW n \in Trees[MaxHeight], n # Nil, NEW vars, NEW funcs,
         IsStatement(n, "func_def") => Where(n.left, "func_def") = {}
  PROVE  UsesDefined(n, vars, funcs) <=>
           /\ IsStatement(n, "func_call") => n.name \in funcs
           /\ n.kind = "IDENTIFIER" => n.name \in vars
           /\ IsStatement(n, "func_def") => Fresh(n.left, vars)
           /\ UsesDefined(n.left, vars \union Gives(n), funcs)
           /\ UsesDefined(n.right, vars \union Gives(n), funcs)
<1>1. CallsDefined(n, funcs) <=> /\ IsStatement(n, "func_call") => n.name \in funcs
                                 /\ CallsDefined(n.left, funcs) /\ CallsDefined(n.right, funcs)
  BY CallsOf
<1>2. NamesDefined(n, vars) <=> /\ n.kind = "IDENTIFIER" => n.name \in vars
                                /\ NamesDefined(n.left, vars \union Gives(n))
                                /\ NamesDefined(n.right, vars \union Gives(n))
  BY NamesDefinedOf
<1>3. ParametersNew(n, vars) <=> /\ IsStatement(n, "func_def") => Fresh(n.left, vars)
                                 /\ ParametersNew(n.left, vars \union Gives(n))
                                 /\ ParametersNew(n.right, vars \union Gives(n))
  BY ParametersNewOf
<1> QED BY <1>1, <1>2, <1>3, UsesParts

-----------------------------------------------------------------------------
(* E tells apart what is visible where the identifier p of m stands: each  *)
(* identifier there has the slot of its name in E.                         *)
Sees(m, p, E) ==
  /\ E \in Seq(STRING) /\ NoDouble(E)
  /\ \A q \in Identifiers(m) : Around(m, q) \subseteq Around(m, p) => Matches(At(m, q), E)

(* So it is everywhere in m, by a table that list is the beginning of, and *)
(* what stands in no function of m has its slot in list.                   *)
SeenBehind(m, list) == \A p \in Identifiers(m) : \E E : Extends(E, list) /\ Sees(m, p, E)

Slotted(m, list) ==
  /\ SeenBehind(m, list)
  /\ \A q \in Identifiers(m) : Around(m, q) = {} => Matches(At(m, q), list)

(* Sets of functions that differ in what is further down only.             *)
AtRoot(H)   == H \subseteq {<< >>}
ArePaths(A) == A \subseteq Seq(Sides)
Inside(H, s, A, t, B) == H \union Down(s, A) \subseteq H \union Down(t, B)
NotBelow(H, s, A)     == H \union Down(s, A) \subseteq H

(* Sets of functions around two paths of different children.               *)
LEMMA DownApartFrom ==
  ASSUME NEW H, AtRoot(H), NEW s \in Sides, NEW t \in Sides, NEW A, ArePaths(A), NEW B, ArePaths(B)
  PROVE  /\ Inside(H, s, A, t, B) <=> A = {} \/ (s = t /\ A \subseteq B)
         /\ NotBelow(H, s, A) <=> A = {}
<1>1. << >> \notin Down(s, A)
  BY DownFacts DEF Down, ArePaths
<1>2. Inside(H, s, A, t, B) <=> Down(s, A) \subseteq Down(t, B)
  BY <1>1 DEF Inside, AtRoot
<1>3. \A p \in A : <<s>> \o p \in Down(t, B) <=> s = t /\ p \in B
  BY DownApart DEF Down, ArePaths
<1>4. Down(s, A) \subseteq Down(t, B) <=> \A p \in A : <<s>> \o p \in Down(t, B)
  BY DEF Down
<1>5. (\A p \in A : <<s>> \o p \in Down(t, B)) <=> A = {} \/ (s = t /\ A \subseteq B)
  BY <1>3
<1>6. NotBelow(H, s, A) <=> Down(s, A) = {}
  BY <1>1 DEF NotBelow, AtRoot
<1>7. Down(s, A) = {} <=> A = {}
  BY DEF Down
<1> QED BY <1>2, <1>4, <1>5, <1>6, <1>7

(* What is visible in the child c of m, besides the other child d.         *)
BesideEachOther(m, H, K, s, c, t, d, I) ==
  /\ s \in Sides /\ t \in Sides /\ s # t /\ K \in Seq(STRING) /\ AtRoot(H) /\ AtRoot(I)
  /\ ArePaths(Identifiers(c)) /\ ArePaths(Identifiers(d))
  /\ \A q : ArePaths(Around(c, q)) /\ ArePaths(Around(d, q))
  /\ Identifiers(m) = I \union Down(s, Identifiers(c)) \union Down(t, Identifiers(d))
  /\ \A q \in I : Matches(At(m, q), K)
  /\ \A q \in Identifiers(c) : At(m, <<s>> \o q) = At(c, q) /\ Around(m, <<s>> \o q) = H \union Down(s, Around(c, q))
  /\ \A q \in Identifiers(d) : At(m, <<t>> \o q) = At(d, q) /\ Around(m, <<t>> \o q) = H \union Down(t, Around(d, q))
  /\ Slotted(c, K) /\ Slotted(d, K)

(* What is visible from the child c is told apart.                         *)
LEMMA SeenFromSide ==
  ASSUME NEW m, NEW H, NEW K, NEW s, NEW c, NEW t, NEW d, NEW I, BesideEachOther(m, H, K, s, c, t, d, I)
  PROVE  /\ \A p \in Down(s, Identifiers(c)) : \E E : Extends(E, K) /\ Sees(m, p, E)
         /\ \A q \in Down(s, Identifiers(c)) : Around(m, q) \subseteq H => Matches(At(m, q), K)
<1>0. /\ s \in Sides /\ t \in Sides /\ s # t /\ K \in Seq(STRING) /\ H \subseteq {<< >>} /\ I \subseteq {<< >>}
      /\ Identifiers(c) \subseteq Seq(Sides) /\ Identifiers(d) \subseteq Seq(Sides)
      /\ \A q : Around(c, q) \subseteq Seq(Sides) /\ Around(d, q) \subseteq Seq(Sides)
      /\ Identifiers(m) = I \union Down(s, Identifiers(c)) \union Down(t, Identifiers(d))
      /\ \A q \in I : Matches(At(m, q), K)
      /\ \A q \in Identifiers(c) :
           At(m, <<s>> \o q) = At(c, q) /\ Around(m, <<s>> \o q) = H \union Down(s, Around(c, q))
      /\ \A q \in Identifiers(d) :
           At(m, <<t>> \o q) = At(d, q) /\ Around(m, <<t>> \o q) = H \union Down(t, Around(d, q))
      /\ Slotted(c, K) /\ Slotted(d, K)
  BY DEF BesideEachOther, AtRoot, ArePaths
<1> DEFINE C == Identifiers(c)
           D == Identifiers(d)
<1>1. ASSUME NEW p \in C PROVE \E E : Extends(E, K) /\ Sees(m, <<s>> \o p, E)
  <2>1. PICK E : Extends(E, K) /\ Sees(c, p, E)
    BY <1>0, <1>1 DEF Slotted, SeenBehind
  <2>2. /\ E \in Seq(STRING) /\ NoDouble(E)
        /\ \A q \in C : Around(c, q) \subseteq Around(c, p) => Matches(At(c, q), E)
    BY <1>0, <2>1 DEF Sees
  <2>3. \A n : Matches(n, K) => Matches(n, E)
    BY <1>0, <2>1, <2>2, ExtendsOn
  <2>4. ASSUME NEW q \in I PROVE Matches(At(m, q), E)
    BY <1>0, <2>3
  <2>5. ASSUME NEW q \in C, Around(m, <<s>> \o q) \subseteq Around(m, <<s>> \o p) PROVE Matches(At(m, <<s>> \o q), E)
    <3>1. H \union Down(s, Around(c, q)) \subseteq H \union Down(s, Around(c, p))
      BY <1>0, <1>1, <2>5
    <3> DEFINE A == Around(c, q)
               B == Around(c, p)
    <3>3. ArePaths(A) /\ ArePaths(B) /\ Inside(H, s, A, s, B) /\ AtRoot(H)
      BY <1>0, <3>1 DEF ArePaths, Inside, AtRoot
    <3> HIDE DEF A, B
    <3>4. A = {} \/ A \subseteq B
      BY <1>0, <3>3, DownApartFrom
    <3>2. Around(c, q) \subseteq Around(c, p)
      BY <1>0, <3>4 DEF A, B
    <3> QED BY <1>0, <2>2, <2>5, <3>2
  <2>6. ASSUME NEW q \in D, Around(m, <<t>> \o q) \subseteq Around(m, <<s>> \o p) PROVE Matches(At(m, <<t>> \o q), E)
    <3>1. H \union Down(t, Around(d, q)) \subseteq H \union Down(s, Around(c, p))
      BY <1>0, <1>1, <2>6
    <3> DEFINE A == Around(d, q)
               B == Around(c, p)
    <3>4. ArePaths(A) /\ ArePaths(B) /\ Inside(H, t, A, s, B) /\ AtRoot(H)
      BY <1>0, <3>1 DEF ArePaths, Inside, AtRoot
    <3> HIDE DEF A, B
    <3>5. A = {}
      BY <1>0, <3>4, DownApartFrom
    <3>2. Around(d, q) = {}
      BY <1>0, <3>5 DEF A
    <3>3. Matches(At(d, q), K)
      BY <1>0, <2>6, <3>2 DEF Slotted
    <3> QED BY <1>0, <2>3, <2>6, <3>3
  <2>7. \A q \in Identifiers(m) : q \in I \/ (\E x \in C : q = <<s>> \o x) \/ (\E x \in D : q = <<t>> \o x)
    BY <1>0 DEF Down
  <2>8. \A q \in Identifiers(m) : Around(m, q) \subseteq Around(m, <<s>> \o p) => Matches(At(m, q), E)
    BY <1>0, <2>4, <2>5, <2>6, <2>7
  <2>9. Sees(m, <<s>> \o p, E)
    BY <1>0, <2>2, <2>8 DEF Sees
  <2> QED BY <1>0, <2>1, <2>9
<1>2. ASSUME NEW q \in C, Around(m, <<s>> \o q) \subseteq H PROVE Matches(At(m, <<s>> \o q), K)
  <2>1. Around(c, q) = {}
    <3> DEFINE A == Around(c, q)
    <3>1. ArePaths(A) /\ NotBelow(H, s, A) /\ AtRoot(H)
      BY <1>0, <1>2 DEF ArePaths, NotBelow, AtRoot
    <3> HIDE DEF A
    <3>2. A = {}
      BY <1>0, <3>1, DownApartFrom
    <3> QED BY <1>0, <3>2 DEF A
  <2> QED BY <1>0, <1>2, <2>1 DEF Slotted
<1> HIDE DEF C
<1>3. \A p \in Down(s, C) : \E E : Extends(E, K) /\ Sees(m, p, E)
  BY <1>0, <1>1, Zenon DEF Down
<1>4. \A q \in Down(s, C) : Around(m, q) \subseteq H => Matches(At(m, q), K)
  BY <1>0, <1>2, Zenon DEF Down
<1> QED BY <1>0, <1>3, <1>4 DEF C

(* A node whose children are told apart behind the table K.                *)
LEMMA ToldOver ==
  ASSUME NEW m \in Trees[MaxHeight], m # Nil, NEW K \in Seq(STRING), NoDouble(K),
         m.kind = "IDENTIFIER" => Matches(m, K), Slotted(m.left, K), Slotted(m.right, K)
  PROVE  /\ SeenBehind(m, K)
         /\ \A q \in Identifiers(m) : Around(m, q) \subseteq Here(IsStatement(m, "func_def")) => Matches(At(m, q), K)
<1> DEFINE H == Here(IsStatement(m, "func_def"))
           I == Here(m.kind = "IDENTIFIER")
           L == Identifiers(m.left)
           R == Identifiers(m.right)
<1>1. Identifiers(m) = I \union Down("left", L) \union Down("right", R) /\ H \subseteq {<< >>} /\ I \subseteq {<< >>}
  BY IdentifiersOf DEF Here
<1>2. /\ L \subseteq Seq(Sides) /\ R \subseteq Seq(Sides) /\ "left" \in Sides /\ "right" \in Sides /\ "left" # "right"
      /\ << >> \in Seq(Sides)
      /\ \A q : Around(m.left, q) \subseteq Seq(Sides) /\ Around(m.right, q) \subseteq Seq(Sides)
  BY ChildrenAreTrees, WhereTypes DEF Sides
<1>3. At(m, << >>) = m /\ Around(m, << >>) = H
  BY <1>2, AtSides, AroundOf
<1>4. \A q \in L : At(m, <<"left">> \o q) = At(m.left, q) /\ Around(m, <<"left">> \o q) = H \union Down("left", Around(m.left, q))
  BY <1>2, AtSides, AroundOf
<1>5. \A q \in R : At(m, <<"right">> \o q) = At(m.right, q) /\ Around(m, <<"right">> \o q) = H \union Down("right", Around(m.right, q))
  BY <1>2, AtSides, AroundOf
<1>6. \A q \in I : Matches(At(m, q), K)
  BY <1>3 DEF Here
<1> HIDE DEF H, I
<1>7. /\ \A p \in Down("left", L) : \E E : Extends(E, K) /\ Sees(m, p, E)
      /\ \A q \in Down("left", L) : Around(m, q) \subseteq H => Matches(At(m, q), K)
  <2>1. BesideEachOther(m, H, K, "left", m.left, "right", m.right, I)
    BY <1>1, <1>2, <1>4, <1>5, <1>6 DEF BesideEachOther, ArePaths, AtRoot, L, R
  <2> QED BY <2>1, SeenFromSide DEF L
<1>8. /\ \A p \in Down("right", R) : \E E : Extends(E, K) /\ Sees(m, p, E)
      /\ \A q \in Down("right", R) : Around(m, q) \subseteq H => Matches(At(m, q), K)
  <2>1. Identifiers(m) = I \union Down("right", R) \union Down("left", L)
    BY <1>1
  <2>2. BesideEachOther(m, H, K, "right", m.right, "left", m.left, I)
    BY <1>1, <1>2, <1>4, <1>5, <1>6, <2>1 DEF BesideEachOther, ArePaths, AtRoot, L, R
  <2> QED BY <2>2, SeenFromSide DEF R
<1>9. \A q \in Identifiers(m) : Around(m, q) \subseteq H => Matches(At(m, q), K)
  BY <1>1, <1>6, <1>7, <1>8
<1>10. \A p \in I : \E E : Extends(E, K) /\ Sees(m, p, E)
  <2> SUFFICES ASSUME NEW p \in I PROVE Extends(K, K) /\ Sees(m, p, K)
    OBVIOUS
  <2>1. Extends(K, K)
    BY DEF Extends
  <2>2. p = << >>
    BY <1>1
  <2>3. Sees(m, p, K)
    BY <1>3, <1>9, <2>2 DEF Sees
  <2> QED BY <2>1, <2>3
<1>11. SeenBehind(m, K)
  BY <1>1, <1>7, <1>8, <1>10 DEF SeenBehind
<1> QED BY <1>9, <1>11 DEF H

(* What that means for a node that defines no function ...                 *)
LEMMA ToldPlain ==
  ASSUME NEW m \in Trees[MaxHeight], m # Nil, NEW K \in Seq(STRING), NoDouble(K), ~ IsStatement(m, "func_def"),
         m.kind = "IDENTIFIER" => Matches(m, K), Slotted(m.left, K), Slotted(m.right, K)
  PROVE  Slotted(m, K)
<1>1. Here(IsStatement(m, "func_def")) = {}
  BY DEF Here
<1>2. /\ SeenBehind(m, K)
      /\ \A q \in Identifiers(m) : Around(m, q) \subseteq Here(IsStatement(m, "func_def")) => Matches(At(m, q), K)
  BY ToldOver
<1> QED BY <1>1, <1>2 DEF Slotted

(* ... and for one that does, when the table is cut back behind it.        *)
LEMMA ToldFunction ==
  ASSUME NEW m \in Trees[MaxHeight], m # Nil, NEW K \in Seq(STRING), NoDouble(K), IsStatement(m, "func_def"),
         Slotted(m.left, K), Slotted(m.right, K), NEW list \in Seq(STRING), Extends(K, list)
  PROVE  Slotted(m, list)
<1>1. m.kind # "IDENTIFIER"
  BY DEF IsStatement
<1>2. SeenBehind(m, K)
  BY <1>1, ToldOver
<1>3. SeenBehind(m, list)
  <2> SUFFICES ASSUME NEW p \in Identifiers(m) PROVE \E E : Extends(E, list) /\ Sees(m, p, E)
    BY DEF SeenBehind
  <2>1. PICK E : Extends(E, K) /\ Sees(m, p, E)
    BY <1>2 DEF SeenBehind
  <2>2. E \in Seq(STRING)
    BY <2>1 DEF Sees
  <2>3. Extends(E, list)
    BY <2>1, <2>2, ExtendsOn
  <2> QED BY <2>1, <2>3
<1>4. \A q \in Identifiers(m) : Around(m, q) # {}
  <2>1. Identifiers(m) \subseteq Paths(m) /\ Paths(m) \subseteq Seq(Sides)
    BY PathsType DEF Identifiers
  <2>2. << >> \in Where(m, "func_def") /\ << >> \in Seq(Sides) /\ "left" \in Sides
    <3>1. << >> \in Paths(m) /\ << >> \in Seq(Sides)
      BY PathsUnfold
    <3>2. At(m, << >>) = m
      BY <3>1, AtSides
    <3> QED BY <3>1, <3>2 DEF Where, Sides
  <2>3. \A q \in Seq(Sides) : Below(q, << >>)
    BY <2>2, BelowDown
  <2> QED BY <2>1, <2>2, <2>3 DEF Around
<1> QED BY <1>3, <1>4 DEF Slotted

(* A tree without functions whose identifiers have their slots.            *)
LEMMA ToldSlots ==
  ASSUME NEW m, NEW K \in Seq(STRING), NoDouble(K), InSlots(m, K)
  PROVE  Slotted(m, K)
<1>1. \A p : Sees(m, p, K)
  BY DEF Sees, InSlots
<1>2. Extends(K, K)
  BY DEF Extends
<1>3. SeenBehind(m, K)
  BY <1>1, <1>2 DEF SeenBehind
<1> QED BY <1>3 DEF Slotted, InSlots

(* What the slots are for.                                                 *)
LEMMA ToldApart ==
  ASSUME NEW m, NEW list \in Seq(STRING), Slotted(m, list)
  PROVE  SlotsTellApart(m)
<1> SUFFICES ASSUME NEW p \in Identifiers(m)
             PROVE  /\ At(m, p).idx >= 0
                    /\ \A q \in Identifiers(m) : Around(m, q) \subseteq Around(m, p) =>
                         (NameAt(m, p) = NameAt(m, q) <=> At(m, p).idx = At(m, q).idx)
  BY DEF SlotsTellApart
<1>1. PICK E : Extends(E, list) /\ Sees(m, p, E)
  BY DEF Slotted, SeenBehind
<1>2. /\ E \in Seq(STRING) /\ NoDouble(E) /\ Len(E) \in Nat
      /\ \A q \in Identifiers(m) : Around(m, q) \subseteq Around(m, p) => Matches(At(m, q), E)
  BY <1>1 DEF Sees
<1>3. Matches(At(m, p), E)
  BY <1>2
<1>4. At(m, p).idx \in 0..Len(E) - 1 /\ E[At(m, p).idx + 1] = NameAt(m, p)
  BY <1>3 DEF Matches, NameAt
<1>5. ASSUME NEW q \in Identifiers(m), Around(m, q) \subseteq Around(m, p)
      PROVE  NameAt(m, p) = NameAt(m, q) <=> At(m, p).idx = At(m, q).idx
  <2>1. At(m, q).idx \in 0..Len(E) - 1 /\ E[At(m, q).idx + 1] = NameAt(m, q)
    BY <1>2, <1>5 DEF Matches, NameAt
  <2>2. /\ At(m, p).idx + 1 \in 1..Len(E) /\ At(m, q).idx + 1 \in 1..Len(E)
        /\ At(m, p).idx + 1 = At(m, q).idx + 1 <=> At(m, p).idx = At(m, q).idx
    BY <1>2, <1>4, <2>1
  <2> QED BY <1>2, <1>4, <2>1, <2>2 DEF NoDouble
<1> QED BY <1>2, <1>4, <1>5

-----------------------------------------------------------------------------
(* The statement of the parameters of a function: its names are those of   *)
(* the chain behind it, and nothing is defined or called in it.            *)
ParametersIn(n) == IF n.left = Nil THEN Nil ELSE n.left.right

(* A chain holds no statement.                                             *)
LEMMA NothingInChain ==
  ASSUME NEW p, IsChain(p), NEW s
  PROVE  Where(p, s) = {}
BY DEF IsChain, Where, IsStatement

(* The names behind a node that is no identifier and has no left child.    *)
LEMMA NamesBehind ==
  ASSUME NEW m \in Trees[MaxHeight], m # Nil, m.left = Nil, m.kind # "IDENTIFIER"
  PROVE  NamesOf(m) = NamesOf(m.right) /\ \A vars : Fresh(m, vars) <=> Fresh(m.right, vars)
<1> DEFINE I == Identifiers(m.right)
<1>1. Identifiers(m) = Down("right", I)
  <2>1. Identifiers(m) = Here(m.kind = "IDENTIFIER") \union Down("left", Identifiers(m.left)) \union Down("right", I)
    BY IdentifiersOf
  <2>2. Down("left", Identifiers(m.left)) = {}
    BY NothingInNil DEF Down
  <2>3. Here(m.kind = "IDENTIFIER") = {}
    BY DEF Here
  <2> QED BY <2>1, <2>2, <2>3
<1>2. I \subseteq Seq(Sides) /\ "right" \in Sides
  BY ChildrenAreTrees, WhereTypes DEF Sides
<1>3. \A q \in I : NameAt(m, <<"right">> \o q) = NameAt(m.right, q)
  BY <1>2, AtSides DEF NameAt
<1>4. \A p, q \in I : <<"right">> \o p = <<"right">> \o q <=> p = q
  BY <1>2, DownApart
<1>5. NamesOf(m.right) = {NameAt(m.right, q) : q \in I}
  BY DEF NamesOf
<1>6. \A vars : Fresh(m.right, vars) <=>
        \A q \in I : /\ NameAt(m.right, q) \notin vars
                     /\ \A q2 \in I : NameAt(m.right, q) = NameAt(m.right, q2) => q = q2
  BY DEF Fresh
<1> HIDE DEF I
<1>7. NamesOf(m) = NamesOf(m.right)
  <2>1. NamesOf(m) = {NameAt(m, q) : q \in Down("right", I)}
    BY <1>1 DEF NamesOf
  <2>2. {NameAt(m, q) : q \in Down("right", I)} = {NameAt(m.right, q) : q \in I}
    BY <1>3, Zenon DEF Down
  <2> QED BY <1>5, <2>1, <2>2
<1>8. ASSUME NEW vars PROVE Fresh(m, vars) <=> Fresh(m.right, vars)
  <2>1. Fresh(m, vars) <=> \A q \in Down("right", I) : /\ NameAt(m, q) \notin vars
                             /\ \A q2 \in Down("right", I) : NameAt(m, q) = NameAt(m, q2) => q = q2
    BY <1>1 DEF Fresh
  <2> DEFINE Alone(q) == /\ NameAt(m, q) \notin vars
                         /\ \A q2 \in Down("right", I) : NameAt(m, q) = NameAt(m, q2) => q = q2
  <2>2. (\A q \in Down("right", I) : Alone(q)) <=> \A q \in I : Alone(<<"right">> \o q)
    <3> HIDE DEF Alone
    <3> QED BY Zenon DEF Down
  <2>3. ASSUME NEW q \in I
        PROVE  Alone(<<"right">> \o q) <=> /\ NameAt(m.right, q) \notin vars
                     /\ \A q2 \in I : NameAt(m.right, q) = NameAt(m.right, q2) => q = q2
    <3> DEFINE x == <<"right">> \o q
    <3>1. NameAt(m, x) = NameAt(m.right, q)
      BY <1>3
    <3>2. (\A q2 \in Down("right", I) : NameAt(m, x) = NameAt(m, q2) => x = q2)
          <=> \A q2 \in I : NameAt(m, x) = NameAt(m, <<"right">> \o q2) => x = <<"right">> \o q2
      BY Zenon DEF Down
    <3>3. \A q2 \in I : x = <<"right">> \o q2 <=> q = q2
      BY <1>4
    <3> HIDE DEF x
    <3>4. (\A q2 \in I : NameAt(m, x) = NameAt(m, <<"right">> \o q2) => x = <<"right">> \o q2)
          <=> \A q2 \in I : NameAt(m.right, q) = NameAt(m.right, q2) => q = q2
      BY <1>3, <3>1, <3>3
    <3>5. Alone(x) <=> /\ NameAt(m.right, q) \notin vars
                       /\ \A q2 \in I : NameAt(m.right, q) = NameAt(m.right, q2) => q = q2
      BY <3>1, <3>2, <3>4
    <3> QED BY <3>5 DEF x
  <2>4. Fresh(m, vars) <=> \A q \in Down("right", I) : Alone(q)
    BY <2>1
  <2> HIDE DEF Alone
  <2> QED BY <1>6, <2>2, <2>3, <2>4
<1> QED BY <1>7, <1>8

(* ... and what that makes of a function's definition.                     *)
LEMMA HeadOfFunction ==
  ASSUME NEW n \in Trees[MaxHeight], n # Nil, IsStatement(n, "func_def"), Headed(n)
  PROVE  /\ \A s : s # "params" => Where(n.left, s) = {}
         /\ IsChain(ParametersIn(n)) /\ ParametersIn(n) \in Trees[MaxHeight]
         /\ NamesOf(n.left) = NamesOf(ParametersIn(n))
         /\ \A vars : Fresh(n.left, vars) <=> Fresh(ParametersIn(n), vars)
<1>1. CASE n.left = Nil
  <2>1. IsChain(Nil) /\ Nil \in Trees[MaxHeight] /\ \A s : Where(Nil, s) = {}
    BY NothingInNil DEF IsChain
  <2>2. ParametersIn(n) = Nil
    BY <1>1 DEF ParametersIn
  <2> QED BY <1>1, <2>1, <2>2
<1>2. CASE n.left # Nil
  <2> DEFINE m == n.left
             p == n.left.right
  <2>1. /\ IsStatement(m, "params") /\ m.left = Nil /\ IsChain(p) /\ ParametersIn(n) = p
        /\ m \in Trees[MaxHeight] /\ m # Nil
    BY <1>2, ChildrenAreTrees DEF Headed, IsStatement, ParametersIn
  <2>2. m.kind # "IDENTIFIER" /\ \A s : s # "params" => ~ IsStatement(m, s)
    BY <2>1 DEF IsStatement
  <2>3. ASSUME NEW s, s # "params" PROVE Where(m, s) = {}
    <3>1. Where(m.left, s) = {} /\ Where(m.right, s) = {}
      BY <2>1, NothingInChain, NothingInNil
    <3>2. Where(m, s) = Here(IsStatement(m, s)) \union Down("left", Where(m.left, s)) \union Down("right", Where(m.right, s))
      BY <2>1, WhereOf
    <3>3. Here(IsStatement(m, s)) = {} /\ Down("left", Where(m.left, s)) = {} /\ Down("right", Where(m.right, s)) = {}
      BY <2>2, <2>3, <3>1 DEF Here, Down
    <3> QED BY <3>2, <3>3
  <2>4. NamesOf(m) = NamesOf(m.right) /\ \A vars : Fresh(m, vars) <=> Fresh(m.right, vars)
    BY <2>1, <2>2, NamesBehind
  <2>5. m.right \in Trees[MaxHeight]
    BY <2>1, ChildrenAreTrees
  <2> QED BY <2>1, <2>3, <2>4, <2>5
<1> QED BY <1>1, <1>2

(* So what is used in a function is defined if its parameters are new and  *)
(* what is used in its body is defined, by them or before.                 *)
LEMMA UsesInFunction ==
  ASSUME NEW n \in Trees[MaxHeight], n # Nil, IsStatement(n, "func_def"), Headed(n), NEW vars, NEW funcs
  PROVE  UsesDefined(n, vars, funcs) <=>
           Fresh(n.left, vars) /\ UsesDefined(n.right, vars \union NamesOf(n.left), funcs)
<1>1. Where(n.left, "func_def") = {} /\ Where(n.left, "func_call") = {}
  BY HeadOfFunction
<1>2. Gives(n) = NamesOf(n.left) /\ n.kind # "IDENTIFIER" /\ ~ IsStatement(n, "func_call")
  BY DEF Gives, IsStatement
<1>3. UsesDefined(n.left, vars \union NamesOf(n.left), funcs)
  <2>1. CallsDefined(n.left, funcs) /\ ParametersNew(n.left, vars \union NamesOf(n.left))
    BY <1>1 DEF CallsDefined, ParametersNew
  <2>2. NamesDefined(n.left, vars \union NamesOf(n.left))
    BY DEF NamesDefined, NamesOf
  <2> QED BY <2>1, <2>2, UsesParts
<1>4. UsesDefined(n, vars, funcs) <=>
           /\ IsStatement(n, "func_call") => n.name \in funcs
           /\ n.kind = "IDENTIFIER" => n.name \in vars
           /\ IsStatement(n, "func_def") => Fresh(n.left, vars)
           /\ UsesDefined(n.left, vars \union Gives(n), funcs)
           /\ UsesDefined(n.right, vars \union Gives(n), funcs)
  BY <1>1, UsesDefinedOf
<1> QED BY <1>2, <1>3, <1>4

-----------------------------------------------------------------------------
(* What checking a tree behind its definitions comes to: an error just     *)
(* when something that is used is not defined, else the same tables and a  *)
(* tree whose identifiers are told apart.                                  *)
Checked(r, h, n, st) ==
  /\ r = Good(r.node, r.st) /\ r.st = st /\ r.node \in Trees[h] /\ Slotted(r.node, st.var)

Checking(r, h, n, st) ==
  IF UsesDefined(n, NamesIn(st.var), NamesIn(st.func)) THEN Checked(r, h, n, st) ELSE r = Bad

(* The parameters of a function with their slots, and the statement over   *)
(* them (CheckFunction).                                                   *)
ParametersOn(n, st) == IF n.left = Nil THEN Good(Nil, st) ELSE Parameters(n.left.right, st)
HeadOver(n, ps)     == IF n.left = Nil THEN Nil ELSE [n.left EXCEPT !.right = ps.node]

HeadEntered(l, ps, h, n, st) ==
  /\ ps = Good(ps.node, ps.st) /\ l \in Trees[h] /\ InSlots(l, ps.st.var)
  /\ ps.st \in Symbols /\ ps.st.func = st.func /\ Extends(ps.st.var, st.var) /\ NoDouble(ps.st.var)
  /\ NamesIn(ps.st.var) = NamesIn(st.var) \union NamesOf(n.left)

(* They enter the table, or one of their names is not new.                 *)
LEMMA HeadEnters ==
  ASSUME NEW h \in 1..MaxHeight, NEW n \in NodesOver(Trees[h - 1]), IsStatement(n, "func_def"), Headed(n),
         NEW st, IsTableOfNames(st), NEW ps, ps = ParametersOn(n, st)
  PROVE  IF Fresh(n.left, NamesIn(st.var)) THEN HeadEntered(HeadOver(n, ps), ps, h - 1, n, st) ELSE ps = Bad
<1>1. /\ n \in Trees[MaxHeight] /\ n # Nil /\ n.left \in Trees[h - 1] /\ h - 1 \in 0..MaxHeight
      /\ st \in Symbols /\ NoDouble(st.var)
  <2>1. n \in Trees[MaxHeight] /\ n # Nil
    BY NodeIsTree
  <2>2. n.left \in Trees[h - 1]
    BY DEF NodesOver
  <2>3. h - 1 \in 0..MaxHeight
    BY HeightAssumption
  <2> QED BY <2>1, <2>2, <2>3 DEF IsTableOfNames
<1>2. /\ IsChain(ParametersIn(n)) /\ NamesOf(n.left) = NamesOf(ParametersIn(n))
      /\ \A vars : Fresh(n.left, vars) <=> Fresh(ParametersIn(n), vars)
  BY <1>1, HeadOfFunction
<1>3. CASE n.left = Nil
  <2>1. ps = Good(Nil, st) /\ ParametersIn(n) = Nil /\ HeadOver(n, ps) = Nil
    BY <1>3 DEF ParametersOn, HeadOver, ParametersIn
  <2>2. Entering(ps, h - 1, Nil, st)
    BY <1>1, <2>1, NothingEntered
  <2>3. ASSUME Fresh(n.left, NamesIn(st.var)) PROVE HeadEntered(Nil, ps, h - 1, n, st)
    <3>1. Entered(ps, h - 1, Nil, st)
      BY <1>2, <2>1, <2>2, <2>3 DEF Entering
    <3>2. InSlots(Nil, ps.st.var) /\ Nil \in Trees[h - 1]
      BY <1>1, NothingInNil, NilIsTree DEF InSlots
    <3> QED BY <1>2, <2>1, <3>1, <3>2 DEF Entered, HeadEntered
  <2> QED BY <1>2, <2>1, <2>2, <2>3 DEF Entering
<1>4. CASE n.left # Nil
  <2> DEFINE m == n.left
             p == n.left.right
             l == [n.left EXCEPT !.right = ps.node]
  <2>1. h - 1 \in 1..MaxHeight /\ m \in NodesOver(Trees[(h - 1) - 1]) /\ (h - 1) - 1 \in 0..MaxHeight
    BY <1>1, <1>4, TreesAt, HeightAssumption
  <2>2. ps = Parameters(p, st) /\ ParametersIn(n) = p /\ HeadOver(n, ps) = l
    BY <1>4 DEF ParametersOn, HeadOver, ParametersIn
  <2>3. p \in Trees[(h - 1) - 1] /\ IsStatement(m, "params") /\ m.left = Nil
    BY <1>4, <2>1 DEF NodesOver, Headed, IsStatement
  <2>4. Entering(ps, (h - 1) - 1, p, st)
    BY <1>1, <1>2, <2>1, <2>2, <2>3, ParametersEnter
  <2>5. ASSUME Fresh(n.left, NamesIn(st.var)) PROVE HeadEntered(l, ps, h - 1, n, st)
    <3>1. Entered(ps, (h - 1) - 1, p, st)
      BY <1>2, <2>2, <2>4, <2>5 DEF Entering
    <3>2. ps.node \in Trees[(h - 1) - 1] /\ InSlots(ps.node, ps.st.var)
      BY <3>1 DEF Entered
    <3>3. l \in NodesOver(Trees[(h - 1) - 1]) /\ l.kind = m.kind /\ l.left = m.left /\ l.right = ps.node
      BY <2>1, <3>2, NodeWithRight
    <3> HIDE DEF l
    <3>4. l \in Trees[h - 1] /\ l \in Trees[MaxHeight] /\ l # Nil
      BY <2>1, <3>3, NodeIsTree
    <3>5. InSlots(Nil, ps.st.var) /\ l.kind # "IDENTIFIER"
      BY <2>3, <3>3, NothingInNil DEF InSlots, IsStatement
    <3>6. InSlots(l, ps.st.var)
      BY <2>3, <3>2, <3>3, <3>4, <3>5, InSlotsOf
    <3> QED BY <1>2, <2>2, <3>1, <3>4, <3>6 DEF Entered, HeadEntered
  <2> QED BY <1>2, <2>2, <2>4, <2>5 DEF Entering
<1> QED BY <1>3, <1>4

(* A function whose body is checked as it should be: what it gives to its  *)
(* body is gone behind it.                                                 *)
LEMMA FunctionChecked ==
  ASSUME NEW h \in 1..MaxHeight, NEW n \in NodesOver(Trees[h - 1]), IsProgram(n), IsStatement(n, "func_def"),
         NEW st, IsTableOfNames(st), NEW below,
         \A t \in Trees[h - 1], u \in Symbols : IsProgram(t) /\ IsTableOfNames(u) => Checking(below[t][u], h - 1, t, u)
  PROVE  Checking(CheckFunction(n, st, below), h, n, st)
<1> DEFINE V == NamesIn(st.var)
           F == NamesIn(st.func)
           ps == ParametersOn(n, st)
           l == HeadOver(n, ps)
           b == below[n.right][ps.st]
           o == Over(n, l, b.node)
           r == CheckFunction(n, st, below)
<1>1. n \in Trees[MaxHeight] /\ n # Nil /\ n.right \in Trees[h - 1] /\ h - 1 \in 0..MaxHeight
  <2>1. n \in Trees[MaxHeight] /\ n # Nil
    BY NodeIsTree
  <2>2. n.right \in Trees[h - 1]
    BY DEF NodesOver
  <2>3. h - 1 \in 0..MaxHeight
    BY HeightAssumption
  <2> QED BY <2>1, <2>2, <2>3
<1>2. Headed(n) /\ IsProgram(n.right) /\ st \in Symbols /\ NoDouble(st.func)
  BY <1>1, ProgramParts DEF IsTableOfNames
<1>3. r = IF ps.ok /\ b.ok THEN Good(o, Leave(b.st, st)) ELSE Bad
  BY Zenon DEF CheckFunction, ParametersOn, HeadOver
<1>4. IF Fresh(n.left, V) THEN HeadEntered(l, ps, h - 1, n, st) ELSE ps = Bad
  BY <1>2, HeadEnters
<1>5. UsesDefined(n, V, F) <=> Fresh(n.left, V) /\ UsesDefined(n.right, V \union NamesOf(n.left), F)
  BY <1>1, <1>2, UsesInFunction
<1> HIDE DEF ps, l, b, r
<1>6. CASE ~ Fresh(n.left, V)
  <2>1. ps = Bad
    BY <1>4, <1>6
  <2>2. r = Bad
    BY <1>3, <2>1 DEF Bad
  <2> QED BY <1>5, <1>6, <2>2 DEF Checking, r
<1>7. CASE Fresh(n.left, V)
  <2>1. HeadEntered(l, ps, h - 1, n, st)
    BY <1>4, <1>7
  <2>2. /\ ps = Good(ps.node, ps.st) /\ l \in Trees[h - 1] /\ InSlots(l, ps.st.var)
        /\ ps.st \in Symbols /\ ps.st.func = st.func /\ Extends(ps.st.var, st.var) /\ NoDouble(ps.st.var)
        /\ NamesIn(ps.st.var) = V \union NamesOf(n.left)
    BY <2>1 DEF HeadEntered
  <2>3. ps.ok
    BY <2>2 DEF Good
  <2>4. IsTableOfNames(ps.st)
    BY <1>2, <2>2 DEF IsTableOfNames
  <2>5. Checking(b, h - 1, n.right, ps.st)
    BY <1>1, <1>2, <2>2, <2>4 DEF b
  <2>6. NamesIn(ps.st.func) = F
    BY <2>2
  <2>7. CASE ~ UsesDefined(n.right, V \union NamesOf(n.left), F)
    <3>1. b = Bad
      BY <2>2, <2>5, <2>6, <2>7 DEF Checking
    <3>2. r = Bad
      BY <1>3, <3>1 DEF Bad
    <3> QED BY <1>5, <2>7, <3>2 DEF Checking, r
  <2>8. CASE UsesDefined(n.right, V \union NamesOf(n.left), F)
    <3>1. Checked(b, h - 1, n.right, ps.st)
      BY <2>2, <2>5, <2>6, <2>8 DEF Checking
    <3>2. b = Good(b.node, b.st) /\ b.st = ps.st /\ b.node \in Trees[h - 1] /\ Slotted(b.node, ps.st.var)
      BY <3>1 DEF Checked
    <3>3. b.ok
      BY <3>2 DEF Good
    <3>4. r = Good(o, Leave(ps.st, st))
      BY <1>3, <2>3, <3>2, <3>3
    <3>5. Leave(ps.st, st) = st
      BY <1>2, <2>2, LeavingRestores
    <3>6. o \in NodesOver(Trees[h - 1]) /\ IsOver(o, n, l, b.node)
      BY <2>2, <3>2, NodeOver
    <3> HIDE DEF o
    <3>7. o.kind = n.kind /\ o.what = n.what /\ o.left = l /\ o.right = b.node
      BY <3>6 DEF IsOver
    <3>8. o \in Trees[h] /\ o \in Trees[MaxHeight] /\ o # Nil
      BY <3>6, NodeIsTree
    <3>9. IsStatement(o, "func_def")
      BY <3>7 DEF IsStatement
    <3> DEFINE K == ps.st.var
               list == st.var
    <3>10. K \in Seq(STRING) /\ list \in Seq(STRING) /\ NoDouble(K) /\ Extends(K, list)
      BY <1>2, <2>2 DEF Symbols
    <3>11. Slotted(o.right, K) /\ InSlots(o.left, K)
      BY <2>2, <3>2, <3>7
    <3> HIDE DEF K, list
    <3>12. Slotted(o.left, K)
      BY <3>10, <3>11, ToldSlots
    <3>13. Slotted(o, list)
      BY <3>8, <3>9, <3>10, <3>11, <3>12, ToldFunction
    <3>14. r = Good(r.node, r.st) /\ r.node = o /\ r.st = st
      BY <3>4, <3>5 DEF Good
    <3>15. Checked(r, h, n, st)
      BY <3>8, <3>13, <3>14 DEF Checked, list
    <3> QED BY <1>5, <1>7, <2>8, <3>15 DEF Checking, r
  <2> QED BY <2>7, <2>8
<1> QED BY <1>6, <1>7

(* What Resolve makes of a node that defines no function: an error just    *)
(* when its own name is not defined, else the slot of the name.            *)
IsKnown(n, st) == /\ IsStatement(n, "func_call") => n.name \in NamesIn(st.func)
                  /\ n.kind = "IDENTIFIER" => n.name \in NamesIn(st.var)

IsResolved(d, h, n, st) ==
  /\ d = Good(d.node, d.st) /\ d.st = st /\ d.node \in NodesOver(Trees[h - 1])
  /\ d.node.kind = n.kind /\ d.node.what = n.what /\ d.node.name = n.name
  /\ d.node.left = n.left /\ d.node.right = n.right
  /\ n.kind = "IDENTIFIER" => Matches(d.node, st.var)

(* When Resolve is as it should be.                                        *)
LEMMA IsResolvedGood ==
  ASSUME NEW h, NEW n, NEW st, NEW m \in NodesOver(Trees[h - 1]),
         m.kind = n.kind, m.what = n.what, m.name = n.name, m.left = n.left, m.right = n.right,
         n.kind = "IDENTIFIER" => Matches(m, st.var)
  PROVE  IsResolved(Good(m, st), h, n, st)
<1> DEFINE d == Good(m, st)
<1>1. d.node = m /\ d.st = st /\ d = Good(d.node, d.st)
  BY DEF Good
<1> HIDE DEF d
<1>2. IsResolved(d, h, n, st)
  BY <1>1 DEF IsResolved
<1> QED BY <1>2 DEF d

(* Resolve is as it should be, or it refuses a name that is not there.     *)
LEMMA ResolveResolves ==
  ASSUME NEW h \in 1..MaxHeight, NEW n \in NodesOver(Trees[h - 1]), Headed(n), NEW st, IsTableOfNames(st)
  PROVE  IF IsKnown(n, st) THEN IsResolved(Resolve(n, st), h, n, st) ELSE Resolve(n, st) = Bad
<1>1. st \in Symbols /\ st.var \in Seq(STRING) /\ st.func \in Seq(STRING)
  BY DEF IsTableOfNames, Symbols
<1>2. /\ InTable(n.name, st.var) <=> n.name \in NamesIn(st.var)
      /\ n.name \in NamesIn(st.var) =>
           /\ Index(n.name, st.var) \in 0..Len(st.var) - 1 /\ Index(n.name, st.var) \in Int
           /\ st.var[Index(n.name, st.var) + 1] = n.name
  BY <1>1, TableFinds
<1>3. /\ InTable(n.name, st.func) <=> n.name \in NamesIn(st.func)
      /\ n.name \in NamesIn(st.func) => Index(n.name, st.func) \in Int
  BY <1>1, TableFinds
<1>4. ~ (n.kind = "OPERATOR" /\ n.what = "read" /\ n.left.kind # "IDENTIFIER")
  BY DEF Headed
<1>5. CASE IsStatement(n, "func_call")
  <2>1. n.kind # "IDENTIFIER"
    BY <1>5 DEF IsStatement
  <2>2. CASE n.name \notin NamesIn(st.func)
    <3>1. Resolve(n, st) = Bad
      BY <1>3, <1>5, <2>1, <2>2, Zenon DEF Resolve, IsStatement
    <3> QED BY <1>5, <2>2, <3>1 DEF IsKnown
  <2>3. CASE n.name \in NamesIn(st.func)
    <3> DEFINE i == Index(n.name, st.func)
               m == [n EXCEPT !.idx = i]
    <3>1. Resolve(n, st) = Good(m, st)
      BY <1>3, <1>5, <2>1, <2>3, Zenon DEF Resolve, IsStatement
    <3>2. i \in Int
      BY <1>3, <2>3
    <3> HIDE DEF i
    <3>3. /\ m \in NodesOver(Trees[h - 1]) /\ m.kind = n.kind /\ m.what = n.what /\ m.name = n.name
          /\ m.left = n.left /\ m.right = n.right
      BY <3>2, NodeWithIndex
    <3> HIDE DEF m
    <3>4. IsResolved(Good(m, st), h, n, st)
      BY <2>1, <3>3, IsResolvedGood
    <3> QED BY <1>5, <2>1, <2>3, <3>1, <3>4 DEF IsKnown
  <2> QED BY <2>2, <2>3
<1>6. CASE n.kind = "IDENTIFIER"
  <2>1. ~ IsStatement(n, "func_call")
    BY <1>6 DEF IsStatement
  <2>2. CASE n.name \notin NamesIn(st.var)
    <3>1. Resolve(n, st) = Bad
      BY <1>2, <1>4, <1>6, <2>1, <2>2, Zenon DEF Resolve
    <3> QED BY <1>6, <2>2, <3>1 DEF IsKnown
  <2>3. CASE n.name \in NamesIn(st.var)
    <3> DEFINE i == Index(n.name, st.var)
               m == [n EXCEPT !.idx = i]
    <3>1. Resolve(n, st) = Good(m, st)
      BY <1>2, <1>4, <1>6, <2>1, <2>3, Zenon DEF Resolve
    <3>2. i \in Int /\ i \in 0..Len(st.var) - 1 /\ st.var[i + 1] = n.name
      BY <1>2, <2>3
    <3> HIDE DEF i
    <3>3. /\ m \in NodesOver(Trees[h - 1]) /\ m.kind = n.kind /\ m.what = n.what /\ m.name = n.name
          /\ m.left = n.left /\ m.right = n.right /\ m.idx = i
      BY <3>2, NodeWithIndex
    <3> HIDE DEF m
    <3>4. Matches(m, st.var)
      BY <3>2, <3>3 DEF Matches
    <3>5. IsResolved(Good(m, st), h, n, st)
      BY <3>3, <3>4, IsResolvedGood
    <3> QED BY <1>6, <2>1, <2>3, <3>1, <3>5 DEF IsKnown
  <2> QED BY <2>2, <2>3
<1>7. CASE ~ IsStatement(n, "func_call") /\ n.kind # "IDENTIFIER"
  <2>1. Resolve(n, st) = Good(n, st)
    BY <1>4, <1>7, Zenon DEF Resolve
  <2>2. IsResolved(Good(n, st), h, n, st)
    BY <1>7, IsResolvedGood
  <2> QED BY <1>7, <2>1, <2>2 DEF IsKnown
<1> QED BY <1>5, <1>6, <1>7

(* A node that defines no function, whose children are checked as they     *)
(* should be.                                                              *)
LEMMA PlainChecked ==
  ASSUME NEW h \in 1..MaxHeight, NEW n \in NodesOver(Trees[h - 1]), IsProgram(n), ~ IsStatement(n, "func_def"),
         NEW st, IsTableOfNames(st), NEW below,
         \A t \in Trees[h - 1], u \in Symbols : IsProgram(t) /\ IsTableOfNames(u) => Checking(below[t][u], h - 1, t, u)
  PROVE  Checking(CheckNode(n, st, below), h, n, st)
<1> DEFINE V == NamesIn(st.var)
           F == NamesIn(st.func)
           d == Resolve(n, st)
           a == below[d.node.left][d.st]
           b == below[d.node.right][a.st]
           r == CheckNode(n, st, below)
<1>1. n \in Trees[MaxHeight] /\ n # Nil /\ n.left \in Trees[h - 1] /\ n.right \in Trees[h - 1]
  <2>1. n \in Trees[MaxHeight] /\ n # Nil
    BY NodeIsTree
  <2>2. n.left \in Trees[h - 1] /\ n.right \in Trees[h - 1]
    BY DEF NodesOver
  <2> QED BY <2>1, <2>2
<1>2. Headed(n) /\ IsProgram(n.left) /\ IsProgram(n.right) /\ st \in Symbols /\ NoDouble(st.var)
  BY <1>1, ProgramParts DEF IsTableOfNames
<1>3. r = IF d.ok THEN Both(d.node, a, b) ELSE Bad
  BY <1>1, Zenon DEF CheckNode
<1>4. IF IsKnown(n, st) THEN IsResolved(d, h, n, st) ELSE d = Bad
  BY <1>2, ResolveResolves
<1>5. UsesDefined(n, V, F) <=> IsKnown(n, st) /\ UsesDefined(n.left, V, F) /\ UsesDefined(n.right, V, F)
  <2>1. Gives(n) = {} /\ V \union {} = V
    BY DEF Gives
  <2>2. UsesDefined(n, V, F) <=>
           /\ IsStatement(n, "func_call") => n.name \in F
           /\ n.kind = "IDENTIFIER" => n.name \in V
           /\ IsStatement(n, "func_def") => Fresh(n.left, V)
           /\ UsesDefined(n.left, V \union Gives(n), F)
           /\ UsesDefined(n.right, V \union Gives(n), F)
    BY <1>1, UsesDefinedOf
  <2> QED BY <2>1, <2>2 DEF IsKnown
<1> HIDE DEF d, a, b, r
<1>6. CASE ~ IsKnown(n, st)
  <2>1. d = Bad
    BY <1>4, <1>6
  <2>2. r = Bad
    BY <1>3, <2>1 DEF Bad
  <2> QED BY <1>5, <1>6, <2>2 DEF Checking, r
<1>7. CASE IsKnown(n, st)
  <2>1. IsResolved(d, h, n, st)
    BY <1>4, <1>7
  <2>2. /\ d = Good(d.node, d.st) /\ d.st = st /\ d.node \in NodesOver(Trees[h - 1])
        /\ d.node.kind = n.kind /\ d.node.what = n.what /\ d.node.name = n.name
        /\ d.node.left = n.left /\ d.node.right = n.right
        /\ n.kind = "IDENTIFIER" => Matches(d.node, st.var)
    BY <2>1 DEF IsResolved
  <2>3. r = Both(d.node, a, b)
    <3>1. d.ok
      BY <2>2 DEF Good
    <3> QED BY <1>3, <3>1
  <2>4. Checking(a, h - 1, n.left, st)
    BY <1>1, <1>2, <2>2 DEF a
  <2>5. CASE ~ UsesDefined(n.left, V, F)
    <3>1. a = Bad
      BY <2>4, <2>5 DEF Checking
    <3>2. r = Bad
      BY <2>3, <3>1, BothBad
    <3> QED BY <1>5, <2>5, <3>2 DEF Checking, r
  <2>6. CASE UsesDefined(n.left, V, F)
    <3>1. Checked(a, h - 1, n.left, st)
      BY <2>4, <2>6 DEF Checking
    <3>2. a = Good(a.node, a.st) /\ a.st = st /\ a.node \in Trees[h - 1] /\ Slotted(a.node, st.var)
      BY <3>1 DEF Checked
    <3>3. Checking(b, h - 1, n.right, st)
      BY <1>1, <1>2, <2>2, <3>2 DEF b
    <3>4. CASE ~ UsesDefined(n.right, V, F)
      <4>1. b = Bad
        BY <3>3, <3>4 DEF Checking
      <4>2. r = Bad
        BY <2>3, <4>1, BothBad
      <4> QED BY <1>5, <3>4, <4>2 DEF Checking, r
    <3>5. CASE UsesDefined(n.right, V, F)
      <4>1. Checked(b, h - 1, n.right, st)
        BY <3>3, <3>5 DEF Checking
      <4>2. b = Good(b.node, b.st) /\ b.st = st /\ b.node \in Trees[h - 1] /\ Slotted(b.node, st.var)
        BY <4>1 DEF Checked
      <4> DEFINE m == r.node
      <4>3. /\ r = Good(m, r.st) /\ r.st = b.st /\ m \in Trees[h] /\ m \in Trees[MaxHeight] /\ m # Nil
            /\ IsOver(m, d.node, a.node, b.node)
        BY <2>2, <2>3, <3>2, <4>2, BothGood
      <4>4. /\ m.kind = n.kind /\ m.what = n.what /\ m.name = n.name /\ m.idx = d.node.idx
            /\ m.left = a.node /\ m.right = b.node
        BY <2>2, <4>3 DEF IsOver
      <4> HIDE DEF m
      <4> DEFINE K == st.var
      <4>5. K \in Seq(STRING) /\ NoDouble(K)
        BY <1>2 DEF Symbols
      <4>6. m.kind = "IDENTIFIER" => Matches(m, K)
        BY <2>2, <4>4 DEF Matches
      <4>7. Slotted(m.left, K) /\ Slotted(m.right, K) /\ ~ IsStatement(m, "func_def")
        BY <3>2, <4>2, <4>4 DEF IsStatement
      <4> HIDE DEF K
      <4>8. Slotted(m, K)
        BY <4>3, <4>5, <4>6, <4>7, ToldPlain
      <4>9. Checked(r, h, n, st)
        BY <4>2, <4>3, <4>8 DEF Checked, K, m
      <4> QED BY <1>5, <1>7, <2>6, <3>5, <4>9 DEF Checking, r
    <3> QED BY <3>4, <3>5
  <2> QED BY <2>5, <2>6
<1> QED BY <1>6, <1>7

(* Nothing is used in an empty tree.                                       *)
LEMMA NothingChecked ==
  ASSUME NEW h \in 0..MaxHeight, NEW st, IsTableOfNames(st)
  PROVE  Checking(Good(Nil, st), h, Nil, st)
<1> DEFINE r == Good(Nil, st)
<1>1. r = Good(r.node, r.st) /\ r.node = Nil /\ r.st = st
  BY DEF Good
<1>2. Nil \in Trees[h] /\ Identifiers(Nil) = {}
  BY NilIsTree, NothingInNil
<1>3. Slotted(Nil, st.var)
  BY <1>2 DEF Slotted, SeenBehind
<1> HIDE DEF r
<1>4. Checked(r, h, Nil, st)
  BY <1>1, <1>2, <1>3 DEF Checked
<1>5. UsesDefined(Nil, NamesIn(st.var), NamesIn(st.func))
  BY NothingInNil DEF UsesDefined
<1> QED BY <1>4, <1>5 DEF Checking, r

(* check_semantics refuses a program just when something that is used in   *)
(* it is not defined, or a parameter has a name that is visible where it   *)
(* stands; else it gives back the tables it was given.                     *)
LEMMA ProgramChecked ==
  ASSUME NEW tree \in Trees[MaxHeight], IsProgram(tree), NEW st, IsTableOfNames(st)
  PROVE  Checking(check_semantics(tree, st), MaxHeight, tree, st)
<1>0. PICK C : Checks(C)
  BY ChecksUnfold
<1>1. /\ \A t, u : check_semantics(t, u) = C[MaxHeight][t][u]
      /\ \A h \in 0..MaxHeight : \A t \in Trees[h], u \in Symbols :
           C[h][t][u] = CheckNode(t, u, IF h = 0 THEN << >> ELSE C[h - 1])
  BY <1>0, Zenon DEF Checks
<1> DEFINE Keeps(h) == \A t \in Trees[h], u \in Symbols :
                         IsProgram(t) /\ IsTableOfNames(u) => Checking(C[h][t][u], h, t, u)
           Proved == {h \in Nat : h <= MaxHeight => Keeps(h)}
<1>2. ASSUME NEW h \in 0..MaxHeight, NEW u \in Symbols PROVE C[h][Nil][u] = Good(Nil, u)
  <2>1. Nil \in Trees[h]
    BY NilIsTree
  <2>2. C[h][Nil][u] = CheckNode(Nil, u, IF h = 0 THEN << >> ELSE C[h - 1])
    BY <1>1, <2>1
  <2> QED BY <2>2 DEF CheckNode
<1>3. 0 \in Proved
  <2> SUFFICES ASSUME NEW t \in Trees[0], NEW u \in Symbols, IsTableOfNames(u)
               PROVE  Checking(C[0][t][u], 0, t, u)
    OBVIOUS
  <2>1. t = Nil /\ 0 \in 0..MaxHeight
    BY TreesAt, HeightAssumption
  <2> QED BY <1>2, <2>1, NothingChecked
<1>4. ASSUME NEW n \in Nat, n \in Proved PROVE n + 1 \in Proved
  <2> SUFFICES ASSUME n + 1 <= MaxHeight PROVE Keeps(n + 1)
    <3> HIDE DEF Keeps
    <3> QED OBVIOUS
  <2> SUFFICES ASSUME NEW t \in Trees[n + 1], NEW u \in Symbols, IsProgram(t), IsTableOfNames(u)
               PROVE  Checking(C[n + 1][t][u], n + 1, t, u)
    OBVIOUS
  <2>1. n + 1 \in 0..MaxHeight /\ n + 1 \in 1..MaxHeight /\ (n + 1) - 1 = n /\ n + 1 # 0 /\ n <= MaxHeight
    BY HeightAssumption
  <2>2. CASE t = Nil
    BY <1>2, <2>1, <2>2, NothingChecked
  <2>3. CASE t # Nil
    <3>1. t \in NodesOver(Trees[(n + 1) - 1]) /\ t # Nil
      BY <2>1, <2>3, TreesAt
    <3>2. C[n + 1][t][u] = CheckNode(t, u, C[n])
      BY <1>1, <2>1
    <3>3. \A s \in Trees[(n + 1) - 1], w \in Symbols :
            IsProgram(s) /\ IsTableOfNames(w) => Checking(C[n][s][w], (n + 1) - 1, s, w)
      BY <1>4, <2>1
    <3>4. CASE IsStatement(t, "func_def")
      <4>1. Checking(CheckFunction(t, u, C[n]), n + 1, t, u)
        BY <2>1, <3>1, <3>3, <3>4, FunctionChecked
      <4>2. CheckNode(t, u, C[n]) = CheckFunction(t, u, C[n])
        BY <2>3, <3>4, Zenon DEF CheckNode
      <4> QED BY <3>2, <4>1, <4>2
    <3>5. CASE ~ IsStatement(t, "func_def")
      <4>1. Checking(CheckNode(t, u, C[n]), n + 1, t, u)
        BY <2>1, <3>1, <3>3, <3>5, PlainChecked
      <4> QED BY <3>2, <4>1
    <3> QED BY <3>4, <3>5
  <2> QED BY <2>2, <2>3
<1>5. MaxHeight \in Proved
  <2> HIDE DEF Proved
  <2> QED BY <1>3, <1>4, SetInduction, HeightAssumption
<1>6. st \in Symbols
  BY DEF IsTableOfNames
<1>7. Checking(C[MaxHeight][tree][st], MaxHeight, tree, st)
  BY <1>5, <1>6, HeightAssumption
<1> QED BY <1>1, <1>7

-----------------------------------------------------------------------------
(* Both passes, with no symbols before them.                               *)
LEMMA ProgramAnalysed ==
  ASSUME NEW tree \in Trees[MaxHeight], IsProgram(tree), NEW r, r = semantic_analysis(tree)
  PROVE  /\ r.ok <=> WellScoped(tree)
         /\ r.ok => SlotsTellApart(r.node) /\ r.node \in Trees[MaxHeight]
<1> DEFINE st == NoSymbols
           c == collect_definitions(tree, st)
<1>1. st.var = << >> /\ st.func = << >> /\ IsTableOfNames(st) /\ NamesIn(st.var) = {} /\ NamesIn(st.func) = {}
  BY DEF NoSymbols, IsTableOfNames, Symbols, NoDouble, NamesIn
<1>2. Collecting(c, MaxHeight, tree, st)
  BY <1>1, DefinitionsCollected
<1>3. r = IF c.ok THEN check_semantics(c.node, c.st) ELSE Bad
  BY DEF semantic_analysis, CheckBehind
<1>4. /\ VariableNames(tree) = Definitions(tree, "var_def") /\ FunctionNames(tree) = Definitions(tree, "func_def")
      /\ DefinedOnce(tree) <=> Once(tree, "var_def") /\ Once(tree, "func_def")
  BY DefinitionsAre
<1>5. NewIn(tree, st) <=> DefinedOnce(tree)
  BY <1>1, <1>4 DEF NewIn, NewNames
<1> HIDE DEF c, st
<1>6. CASE ~ DefinedOnce(tree)
  <2>1. c = Bad
    BY <1>2, <1>5, <1>6 DEF Collecting
  <2>2. r = Bad
    BY <1>3, <2>1 DEF Bad
  <2> QED BY <1>6, <2>2 DEF WellScoped, Bad
<1>7. CASE DefinedOnce(tree)
  <2>1. Collected(c, MaxHeight, tree, st)
    BY <1>2, <1>5, <1>7 DEF Collecting
  <2>2. /\ c = Good(c.node, c.st) /\ c.node \in Trees[MaxHeight] /\ Same(c.node, tree) /\ IsTableOfNames(c.st)
        /\ NamesIn(c.st.var) = VariableNames(tree) /\ NamesIn(c.st.func) = FunctionNames(tree)
    BY <1>1, <1>4, <2>1 DEF Collected
  <2>3. r = check_semantics(c.node, c.st)
    <3>1. c.ok
      BY <2>2 DEF Good
    <3> QED BY <1>3, <3>1
  <2>4. IsProgram(c.node) /\ c.st \in Symbols /\ c.st.var \in Seq(STRING)
    BY <2>2, SameMeaning DEF IsTableOfNames, Symbols
  <2>5. Checking(r, MaxHeight, c.node, c.st)
    BY <2>2, <2>3, <2>4, ProgramChecked
  <2>6. UsesDefined(c.node, NamesIn(c.st.var), NamesIn(c.st.func)) <=> WellScoped(tree)
    BY <1>7, <2>2, SameMeaning DEF WellScoped
  <2>7. CASE ~ WellScoped(tree)
    <3>1. r = Bad
      BY <2>5, <2>6, <2>7 DEF Checking
    <3> QED BY <2>7, <3>1 DEF Bad
  <2>8. CASE WellScoped(tree)
    <3>1. Checked(r, MaxHeight, c.node, c.st)
      BY <2>5, <2>6, <2>8 DEF Checking
    <3>2. r = Good(r.node, r.st) /\ r.node \in Trees[MaxHeight] /\ Slotted(r.node, c.st.var)
      BY <3>1 DEF Checked
    <3> DEFINE list == c.st.var
               m == r.node
    <3>3. list \in Seq(STRING) /\ Slotted(m, list)
      BY <2>4, <3>2
    <3> HIDE DEF list, m
    <3>4. SlotsTellApart(m)
      BY <3>3, ToldApart
    <3>5. r.ok
      BY <3>2 DEF Good
    <3> QED BY <2>8, <3>2, <3>4, <3>5 DEF m
  <2> QED BY <2>7, <2>8
<1> QED BY <1>6, <1>7

(* For every tree of the form the parser builds, of any height: the two    *)
(* passes of semantic_analysis.cpp:95-324 accept it just when its names    *)
(* are well scoped, as said without tables or an order.                    *)
THEOREM ScopesAreDecided ==
  ASSUME Accepted(parsed) => parsed.node \in Trees[MaxHeight] /\ IsProgram(parsed.node),
         analysed = Analysis(parsed)
  PROVE  AcceptsWellScoped
<1> SUFFICES ASSUME Accepted(parsed) PROVE IsProgram(parsed.node) /\ (analysed.ok <=> WellScoped(parsed.node))
  BY DEF AcceptsWellScoped
<1>1. analysed = semantic_analysis(parsed.node)
  BY DEF Analysis
<1> QED BY <1>1, ProgramAnalysed

(* ... and in a tree they accept, whatever is visible in one place is told *)
(* apart by its slot and has it wherever it stands (SlotsTellApart).       *)
THEOREM SlotsIdentify ==
  ASSUME Accepted(parsed) => parsed.node \in Trees[MaxHeight] /\ IsProgram(parsed.node),
         analysed = Analysis(parsed)
  PROVE  SlotsIdentifyVariables
<1> SUFFICES ASSUME analysed.ok PROVE SlotsTellApart(analysed.node)
  BY DEF SlotsIdentifyVariables
<1>1. CASE ~ Accepted(parsed)
  <2>1. analysed = Bad
    BY <1>1 DEF Analysis
  <2> QED BY <2>1 DEF Bad
<1>2. CASE Accepted(parsed)
  <2>1. analysed = semantic_analysis(parsed.node)
    BY <1>2 DEF Analysis
  <2> QED BY <1>2, <2>1, ProgramAnalysed
<1> QED BY <1>1, <1>2

(* So the middleend works on the tree of every program the parser builds   *)
(* and the analysis accepts, whose nodes the reader can tell apart.        *)
THEOREM MiddleendGetsTheProgram ==
  ASSUME Accepted(parsed) => parsed.node \in Trees[MaxHeight] /\ IsProgram(parsed.node),
         analysed = Analysis(parsed), loaded = Middleend(analysed)
  PROVE  FileKeepsTree
<1>1. CASE ~ Accepted(parsed)
  <2>1. analysed = Bad
    BY <1>1 DEF Analysis
  <2>2. ~ analysed.ok
    BY <2>1 DEF Bad
  <2> QED BY <2>2, MiddleendGetsTheTree
<1>2. CASE Accepted(parsed)
  <2>1. analysed = semantic_analysis(parsed.node)
    BY <1>2 DEF Analysis
  <2>2. analysed.ok => analysed.node \in Trees[MaxHeight]
    BY <1>2, <2>1, ProgramAnalysed
  <2> QED BY <2>2, MiddleendGetsTheTree
<1> QED BY <1>1, <1>2

-----------------------------------------------------------------------------
(* The names and the lines of a text, and those that store no character.    *)
Bases      == {"TRUE_CONDITION", "END_CONDITION", "NEGATIVE_BASE", "POWER_ZERO", "START_LOOP", "END_LOOP", "END",
               "ELSE", "ENDIF", "WHILE", "ENDWHILE"}
AsmNames   == STRING \union {"MAIN"} \union {LabelName(b, i) : b \in Bases, i \in Nat}
AsmOps     == {"POPM", "PUSHM", "PUSH", "PUSHR", "POPR", "ADD", "SUB", "MUL", "DIV", "SQRT", "SIN", "COS", "EXP", "LN",
               "JB", "JBE", "JA", "JAE", "JE", "JNE", "JMP", "CALL", "RET", "IN", "OUT", "PUTS", "HLT"}
ArgKinds   == {"none", "num", "reg", "ram", "name"}
Operands   == [t : ArgKinds, v : Int \union AsmNames]
Commanded  == [kind : {"command"}, op : AsmOps, arg : Operands]
Labelled   == [kind : {"label"}, name : AsmNames]
AsmLines   == Labelled \union Commanded
PlainLines == {l \in AsmLines : ~ IsStringStore(l)}

(* A label.                                                                *)
LEMMA LabelPlain == \A n \in AsmNames : Label(n) \in PlainLines
<1> SUFFICES ASSUME NEW n \in AsmNames PROVE Label(n) \in PlainLines
  OBVIOUS
<1>1. Label(n) = [kind |-> "label", name |-> n]
  BY DEF Label
<1>2. Label(n) \in Labelled /\ Label(n).kind = "label"
  BY <1>1 DEF Labelled
<1> QED BY <1>2 DEF PlainLines, AsmLines, IsStringStore

(* A command, and what a plain one is.                                     *)
LEMMA LineFields ==
  ASSUME NEW op \in AsmOps, NEW t \in ArgKinds, NEW v \in Int \union AsmNames
  PROVE  /\ Line(op, t, v) \in AsmLines
         /\ Line(op, t, v).kind = "command" /\ Line(op, t, v).op = op /\ Line(op, t, v).arg.v = v
         /\ op # "POPM" => Line(op, t, v) \in PlainLines
<1>1. Line(op, t, v) = [kind |-> "command", op |-> op, arg |-> [t |-> t, v |-> v]]
  BY DEF Line
<1>2. [t |-> t, v |-> v] \in Operands
  BY DEF Operands
<1>3. Line(op, t, v) \in Commanded
  BY <1>1, <1>2 DEF Commanded
<1>4. Line(op, t, v).op = op
  BY <1>1
<1>5. Line(op, t, v) \in AsmLines
  BY <1>3 DEF AsmLines
<1>6. op # "POPM" => ~ IsStringStore(Line(op, t, v))
  BY <1>4 DEF IsStringStore
<1>7. op # "POPM" => Line(op, t, v) \in PlainLines
  BY <1>5, <1>6 DEF PlainLines
<1> QED BY <1>1, <1>5, <1>7

(* The lines that are no string stores.                                    *)
LEMMA CommandsPlain ==
  /\ \A op \in AsmOps : op # "POPM" => Op(op) \in PlainLines
  /\ \A n \in Int : Push(n) \in PlainLines
  /\ \A op \in AsmOps, r \in Int : op # "POPM" => Reg(op, r) \in PlainLines
  /\ \A op \in AsmOps, n \in AsmNames : op # "POPM" => To(op, n) \in PlainLines
  /\ \A a \in Int : Ram("PUSHM", a) \in PlainLines
  /\ \A a \in Int : a < StringTop => Ram("POPM", a) \in PlainLines
  /\ \A n \in AsmNames : Label(n) \in PlainLines
<1>0. \A op \in AsmOps, t \in ArgKinds, v \in Int \union AsmNames : op # "POPM" => Line(op, t, v) \in PlainLines
  BY LineFields
<1>1. \A op \in AsmOps : op # "POPM" => Op(op) \in PlainLines
  BY <1>0 DEF ArgKinds, AsmOps, Op
<1>2. \A n \in Int : Push(n) \in PlainLines
  BY <1>0 DEF ArgKinds, AsmOps, Push
<1>3. \A op \in AsmOps, r \in Int : op # "POPM" => Reg(op, r) \in PlainLines
  BY <1>0 DEF ArgKinds, AsmOps, Reg
<1>4. \A op \in AsmOps, n \in AsmNames : op # "POPM" => To(op, n) \in PlainLines
  BY <1>0 DEF ArgKinds, AsmOps, To
<1>5. \A a \in Int : Ram("PUSHM", a) \in PlainLines
  BY <1>0 DEF ArgKinds, AsmOps, Ram
<1>6. \A a \in Int : a < StringTop => Ram("POPM", a) \in PlainLines
  <2> SUFFICES ASSUME NEW a \in Int, a < StringTop PROVE Ram("POPM", a) \in PlainLines
    OBVIOUS
  <2>1. Ram("POPM", a) = Line("POPM", "ram", a) /\ "POPM" \in AsmOps /\ "ram" \in ArgKinds /\ a \in Int \union AsmNames
    BY DEF Ram, AsmOps, ArgKinds
  <2>2. Ram("POPM", a) \in AsmLines /\ Ram("POPM", a).arg.v = a
    BY <2>1, LineFields
  <2>3. ~ (a >= StringTop)
    BY StringTopAssumption
  <2> QED BY <2>2, <2>3 DEF PlainLines, IsStringStore
<1> QED BY <1>1, <1>2, <1>3, <1>4, <1>5, <1>6, LabelPlain

(* The states of a translation.                                            *)
States == [text : Seq(AsmLines), static : Statics, end : {"open", "error", "crash"}]

(* The string stores of a text go to the cells from a to b - 1, each to one
   of its own.                                                             *)
StoresApart(t, a, b) ==
  /\ a <= b
  /\ \A i \in 1..Len(t) : IsStringStore(t[i]) => t[i].arg.v \in a..b - 1
  /\ \A i, j \in 1..Len(t) : IsStringStore(t[i]) /\ t[i] = t[j] => i = j

(* s has come from static variables v with such a text.                    *)
Cells(s, v) == s \in States /\ StoresApart(s.text, v.string_top, s.static.string_top)

(* A text behind another one, with the cells from where the other stopped. *)
LEMMA StoresAppended ==
  ASSUME NEW t \in Seq(AsmLines), NEW u \in Seq(AsmLines), NEW a \in Nat, NEW b \in Nat, NEW c \in Nat,
         StoresApart(t, a, b), StoresApart(u, b, c)
  PROVE  t \o u \in Seq(AsmLines) /\ StoresApart(t \o u, a, c)
<1> DEFINE w == t \o u
           m == Len(t)
           n == Len(u)
<1>1. /\ w \in Seq(AsmLines) /\ Len(w) = m + n /\ m \in Nat /\ n \in Nat
      /\ \A i \in 1..m + n : w[i] = IF i <= m THEN t[i] ELSE u[i - m]
  OBVIOUS
<1> HIDE DEF w, m, n
<1>2. \A i \in 1..m : IsStringStore(t[i]) => t[i].arg.v \in a..b - 1
  BY DEF StoresApart, m
<1>3. \A i \in 1..n : IsStringStore(u[i]) => u[i].arg.v \in b..c - 1
  BY DEF StoresApart, n
<1>4. a <= b /\ b <= c
  BY DEF StoresApart
<1>5. ASSUME NEW i \in 1..Len(w), IsStringStore(w[i])
      PROVE  w[i].arg.v \in (IF i <= m THEN a..b - 1 ELSE b..c - 1)
  <2>1. CASE i <= m
    BY <1>1, <1>2, <1>5, <2>1
  <2>2. CASE ~ (i <= m)
    <3>1. i - m \in 1..n /\ w[i] = u[i - m]
      BY <1>1, <2>2
    <3> QED BY <1>3, <1>5, <2>2, <3>1
  <2> QED BY <2>1, <2>2
<1>6. ASSUME NEW i \in 1..Len(w), NEW j \in 1..Len(w), IsStringStore(w[i]), w[i] = w[j] PROVE i = j
  <2>1. w[i].arg.v \in (IF i <= m THEN a..b - 1 ELSE b..c - 1) /\ w[i].arg.v \in (IF j <= m THEN a..b - 1 ELSE b..c - 1)
    BY <1>5, <1>6
  <2>2. i <= m <=> j <= m
    BY <2>1
  <2>3. CASE i <= m
    <3>1. i \in 1..m /\ j \in 1..m /\ w[i] = t[i] /\ w[j] = t[j]
      BY <1>1, <2>2, <2>3
    <3> QED BY <1>6, <3>1 DEF StoresApart, m
  <2>4. CASE ~ (i <= m)
    <3>1. i - m \in 1..n /\ j - m \in 1..n /\ w[i] = u[i - m] /\ w[j] = u[j - m]
      BY <1>1, <2>2, <2>4
    <3>2. i - m = j - m
      BY <1>6, <3>1 DEF StoresApart, n
    <3> QED BY <1>1, <3>2
  <2> QED BY <2>3, <2>4
<1>7. \A i \in 1..Len(w) : IsStringStore(w[i]) => w[i].arg.v \in a..c - 1
  <2> SUFFICES ASSUME NEW i \in 1..Len(w), IsStringStore(w[i]) PROVE w[i].arg.v \in a..c - 1
    OBVIOUS
  <2>1. w[i].arg.v \in (IF i <= m THEN a..b - 1 ELSE b..c - 1)
    BY <1>5
  <2> QED BY <1>4, <2>1
<1>8. a <= c
  BY <1>4
<1>9. StoresApart(w, a, c)
  BY <1>6, <1>7, <1>8 DEF StoresApart
<1> QED BY <1>1, <1>9 DEF w

(* A text without string stores takes no cells.                            *)
LEMMA PlainStores ==
  ASSUME NEW e \in Seq(PlainLines), NEW a \in Nat
  PROVE  e \in Seq(AsmLines) /\ StoresApart(e, a, a)
<1>1. \A i \in 1..Len(e) : e[i] \in PlainLines
  OBVIOUS
<1>2. \A i \in 1..Len(e) : e[i] \in AsmLines /\ ~ IsStringStore(e[i])
  BY <1>1 DEF PlainLines
<1>3. e \in Seq(AsmLines)
  BY <1>2
<1> QED BY <1>2, <1>3 DEF StoresApart

(* Nothing is written yet.                                                 *)
LEMMA BegunCells == ASSUME NEW v \in Statics PROVE Cells(Begun(v), v)
<1>1. Begun(v) = [text |-> << >>, static |-> v, end |-> "open"]
  BY DEF Begun
<1>2. << >> \in Seq(AsmLines) /\ "open" \in {"open", "error", "crash"}
  OBVIOUS
<1>6. Begun(v) \in States
  BY <1>1, <1>2 DEF States
<1>3. v.string_top \in Nat
  BY DEF Statics
<1>4. << >> \in Seq(PlainLines)
  OBVIOUS
<1>5. StoresApart(<< >>, v.string_top, v.string_top)
  BY <1>3, <1>4, PlainStores
<1> QED BY <1>1, <1>5, <1>6 DEF Cells

(* Plain lines behind a text.                                              *)
LEMMA EmitCells ==
  ASSUME NEW v \in Statics, NEW s, Cells(s, v), NEW e \in Seq(PlainLines)
  PROVE  Cells(Emit(s, e), v)
<1>1. CASE s.end # "open"
  BY <1>1 DEF Emit
<1>2. CASE s.end = "open"
  <2>1. s \in States /\ StoresApart(s.text, v.string_top, s.static.string_top)
    BY DEF Cells
  <2>2. s.text \in Seq(AsmLines) /\ s.static \in Statics
    BY <2>1 DEF States
  <2>3. s.static.string_top \in Nat /\ v.string_top \in Nat
    BY <2>2 DEF Statics
  <2>4. e \in Seq(AsmLines) /\ StoresApart(e, s.static.string_top, s.static.string_top)
    BY <2>3, PlainStores
  <2>5. s.text \o e \in Seq(AsmLines) /\ StoresApart(s.text \o e, v.string_top, s.static.string_top)
    BY <2>1, <2>2, <2>3, <2>4, StoresAppended
  <2>6. Emit(s, e) = [s EXCEPT !.text = s.text \o e]
    BY <1>2 DEF Emit
  <2>7. Emit(s, e) \in States /\ Emit(s, e).text = s.text \o e /\ Emit(s, e).static = s.static
    <3> DEFINE x == s.text \o e
    <3>1. x \in Seq(AsmLines) /\ Emit(s, e) = [s EXCEPT !.text = x]
      BY <2>5, <2>6
    <3> HIDE DEF x
    <3>2. Emit(s, e) \in States /\ Emit(s, e).text = x /\ Emit(s, e).static = s.static
      BY <2>1, <3>1 DEF States
    <3> QED BY <3>2 DEF x
  <2> QED BY <2>5, <2>7 DEF Cells
<1> QED BY <1>1, <1>2

(* An error.                                                               *)
LEMMA StopCells ==
  ASSUME NEW v \in Statics, NEW s, Cells(s, v), NEW how \in {"error", "crash"}
  PROVE  Cells(Stop(s, how), v)
<1>1. Stop(s, how) = s \/ Stop(s, how) = [s EXCEPT !.end = how]
  BY DEF Stop
<1>2. s \in States
  BY DEF Cells
<1>3. Stop(s, how) \in States /\ Stop(s, how).text = s.text /\ Stop(s, how).static = s.static
  BY <1>1, <1>2 DEF States
<1> QED BY <1>3 DEF Cells

(* What below holds of n, from any numbers of the labels and cells.         *)
WellWritten(below, n) == \A w \in Statics : Cells(below[n][w], w)

(* A child behind a text.                                                  *)
LEMMA VisitCells ==
  ASSUME NEW v \in Statics, NEW s, Cells(s, v), NEW below, NEW n, WellWritten(below, n)
  PROVE  Cells(Visit(s, below, n), v)
<1>1. CASE s.end # "open"
  BY <1>1 DEF Visit
<1>2. CASE s.end = "open"
  <2> DEFINE r == below[n][s.static]
             x == s.text \o r.text
  <2>1. s \in States /\ StoresApart(s.text, v.string_top, s.static.string_top)
    BY DEF Cells
  <2>2. s.text \in Seq(AsmLines) /\ s.static \in Statics
    BY <2>1 DEF States
  <2>3. r \in States /\ StoresApart(r.text, s.static.string_top, r.static.string_top)
    BY <2>2 DEF Cells, WellWritten
  <2>4. Visit(s, below, n) = [r EXCEPT !.text = x]
    BY <1>2 DEF Visit
  <2> HIDE DEF r
  <2>5. r.text \in Seq(AsmLines) /\ r.static \in Statics
    BY <2>3 DEF States
  <2>6. s.static.string_top \in Nat /\ v.string_top \in Nat /\ r.static.string_top \in Nat
    BY <2>2, <2>5 DEF Statics
  <2>7. x \in Seq(AsmLines) /\ StoresApart(x, v.string_top, r.static.string_top)
    BY <2>1, <2>2, <2>3, <2>5, <2>6, StoresAppended
  <2> HIDE DEF x
  <2>8. Visit(s, below, n) \in States /\ Visit(s, below, n).text = x /\ Visit(s, below, n).static = r.static
    BY <2>3, <2>4, <2>7 DEF States
  <2> QED BY <2>7, <2>8 DEF Cells
<1> QED BY <1>1, <1>2

(* The numbers of labels.                                                  *)
LEMMA CountedCells ==
  ASSUME NEW v \in Statics, NEW s, Cells(s, v)
  PROVE  /\ Cells([s EXCEPT !.static.ifs = @ + 1], v)
         /\ Cells([s EXCEPT !.static.whiles = @ + 1], v)
         /\ Cells([s EXCEPT !.static.cmps = @ + 1], v)
         /\ Cells([s EXCEPT !.static.pows = @ + 1], v)
<1>1. s \in States /\ s.static \in Statics
  BY DEF Cells, States
<1> DEFINE Unmoved(x) == x \in States /\ x.text = s.text /\ x.static.string_top = s.static.string_top
<1>2. ASSUME NEW c \in Statics, c.string_top = s.static.string_top PROVE Unmoved([s EXCEPT !.static = c])
  BY <1>1, <1>2 DEF States
<1>3. \A c \in Statics : c.string_top = s.static.string_top => Cells([s EXCEPT !.static = c], v)
  BY <1>2 DEF Cells
<1> HIDE DEF Unmoved
<1> DEFINE c == s.static
<1>4. [c EXCEPT !.ifs = @ + 1] \in Statics /\ [c EXCEPT !.ifs = @ + 1].string_top = c.string_top
  BY <1>1 DEF Statics
<1>5. [c EXCEPT !.whiles = @ + 1] \in Statics /\ [c EXCEPT !.whiles = @ + 1].string_top = c.string_top
  BY <1>1 DEF Statics
<1>6. [c EXCEPT !.cmps = @ + 1] \in Statics /\ [c EXCEPT !.cmps = @ + 1].string_top = c.string_top
  BY <1>1 DEF Statics
<1>7. [c EXCEPT !.pows = @ + 1] \in Statics /\ [c EXCEPT !.pows = @ + 1].string_top = c.string_top
  BY <1>1 DEF Statics
<1>8. /\ [s EXCEPT !.static.ifs = @ + 1] = [s EXCEPT !.static = [c EXCEPT !.ifs = @ + 1]]
      /\ [s EXCEPT !.static.whiles = @ + 1] = [s EXCEPT !.static = [c EXCEPT !.whiles = @ + 1]]
      /\ [s EXCEPT !.static.cmps = @ + 1] = [s EXCEPT !.static = [c EXCEPT !.cmps = @ + 1]]
      /\ [s EXCEPT !.static.pows = @ + 1] = [s EXCEPT !.static = [c EXCEPT !.pows = @ + 1]]
  BY Zenon
<1> HIDE DEF c
<1> QED BY <1>3, <1>4, <1>5, <1>6, <1>7, <1>8 DEF c

(* The numbered labels are names.                                          *)
LEMMA LabelNames == \A b \in Bases, i \in Nat : LabelName(b, i) \in AsmNames
BY DEF AsmNames

(* Two pieces of text without string stores.                               *)
LEMMA PlainAppended ==
  ASSUME NEW t \in Seq(PlainLines), NEW u \in Seq(PlainLines)
  PROVE  t \o u \in Seq(PlainLines)
OBVIOUS

(* A comparison.                                                           *)
LEMMA ComparisonCells ==
  ASSUME NEW v \in Statics, NEW s, Cells(s, v), NEW jump \in {"JE", "JNE", "JB", "JBE", "JA", "JAE"}
  PROVE  Cells(emit_cmp(s, jump), v)
<1> DEFINE yes == LabelName("TRUE_CONDITION", s.static.cmps)
           end == LabelName("END_CONDITION", s.static.cmps)
           e   == << Op("SUB"), Push(0), To(jump, yes), Push(0), To("JMP", end), Label(yes), Push(1), Label(end) >>
<1>1. s.static.cmps \in Nat
  BY DEF Cells, States, Statics
<1>2. yes \in AsmNames /\ end \in AsmNames
  BY <1>1, LabelNames DEF Bases
<1>3. emit_cmp(s, jump) = Emit([s EXCEPT !.static.cmps = @ + 1], e)
  BY DEF emit_cmp
<1> HIDE DEF yes, end
<1>4. "SUB" \in AsmOps /\ "JMP" \in AsmOps /\ jump \in AsmOps /\ jump # "POPM" /\ 0 \in Int /\ 1 \in Int
  BY DEF AsmOps
<1>5. /\ Op("SUB") \in PlainLines /\ Push(0) \in PlainLines /\ Push(1) \in PlainLines
      /\ To(jump, yes) \in PlainLines /\ To("JMP", end) \in PlainLines
      /\ Label(yes) \in PlainLines /\ Label(end) \in PlainLines
  BY <1>2, <1>4, CommandsPlain
<1>6. e \in Seq(PlainLines)
  BY <1>5
<1> HIDE DEF e
<1> DEFINE x == [s EXCEPT !.static.cmps = @ + 1]
<1>7. Cells(x, v)
  BY CountedCells, Zenon
<1> HIDE DEF x
<1>8. Cells(Emit(x, e), v)
  BY <1>6, <1>7, EmitCells
<1> QED BY <1>3, <1>8, Zenon DEF x

(* A power.                                                                *)
LEMMA PowerCells ==
  ASSUME NEW v \in Statics, NEW s, Cells(s, v)
  PROVE  Cells(emit_op_pow(s), v)
<1> DEFINE L(name) == LabelName(name, s.static.pows)
           Clear(r) == << Push(0), Reg("POPR", r) >>
           operands == << Reg("POPR", rbx), Reg("POPR", rax),
                          Reg("PUSHR", rax), Push(0), To("JBE", L("NEGATIVE_BASE")),
                          Reg("PUSHR", rbx), Push(0), To("JE", L("POWER_ZERO")) >>
           loop == << Push(1), Reg("POPR", rdx), Push(0), Reg("POPR", rcx),
                      Label(L("START_LOOP")),
                      Reg("PUSHR", rcx), Reg("PUSHR", rbx), To("JAE", L("END_LOOP")) >>
           round == << Reg("PUSHR", rdx), Reg("PUSHR", rax), Op("MUL"), Reg("POPR", rdx),
                       Reg("PUSHR", rcx), Push(1), Op("ADD"), Reg("POPR", rcx),
                       To("JMP", L("START_LOOP")) >>
           result == << Label(L("END_LOOP")), Reg("PUSHR", rdx), To("JMP", L("END")) >>
           others == << Label(L("NEGATIVE_BASE")), Reg("PUSHR", rbx), Push(0), To("JE", L("POWER_ZERO")),
                        Push(0), To("JMP", L("END")),
                        Label(L("POWER_ZERO")), Push(1), To("JMP", L("END")) >>
           e == operands \o loop \o round \o result \o others \o <<Label(L("END"))>>
                  \o Clear(rax) \o Clear(rbx) \o Clear(rcx) \o Clear(rdx)
<1>1. s.static.pows \in Nat
  BY DEF Cells, States, Statics
<1>2. \A b \in Bases : L(b) \in AsmNames
  BY <1>1, LabelNames
<1>3. emit_op_pow(s) = Emit([s EXCEPT !.static.pows = @ + 1], e)
  BY DEF emit_op_pow
<1> HIDE DEF L
<1>4. /\ \A op \in {"POPR", "PUSHR"} : \A r \in {rax, rbx, rcx, rdx} : Reg(op, r) \in PlainLines
      /\ Push(0) \in PlainLines /\ Push(1) \in PlainLines /\ Op("MUL") \in PlainLines /\ Op("ADD") \in PlainLines
      /\ \A op \in {"JBE", "JE", "JAE", "JMP"} : \A b \in Bases : To(op, L(b)) \in PlainLines
      /\ \A b \in Bases : Label(L(b)) \in PlainLines
  BY <1>2, CommandsPlain DEF AsmOps, rax, rbx, rcx, rdx
<1>5. /\ "NEGATIVE_BASE" \in Bases /\ "POWER_ZERO" \in Bases /\ "START_LOOP" \in Bases
      /\ "END_LOOP" \in Bases /\ "END" \in Bases
  BY DEF Bases
<1>6. operands \in Seq(PlainLines)
  BY <1>4, <1>5
<1>7. loop \in Seq(PlainLines)
  BY <1>4, <1>5
<1>8. round \in Seq(PlainLines)
  BY <1>4, <1>5
<1>9. result \in Seq(PlainLines) /\ <<Label(L("END"))>> \in Seq(PlainLines)
  BY <1>4, <1>5
<1>10. others \in Seq(PlainLines)
  BY <1>4, <1>5
<1>11. \A r \in {rax, rbx, rcx, rdx} : Clear(r) \in Seq(PlainLines)
  BY <1>4
<1> HIDE DEF operands, loop, round, result, others, Clear
<1>12. e \in Seq(PlainLines)
  <2>1. operands \o loop \o round \o result \o others \o <<Label(L("END"))>> \in Seq(PlainLines)
    BY <1>6, <1>7, <1>8, <1>9, <1>10
  <2>2. /\ Clear(rax) \in Seq(PlainLines) /\ Clear(rbx) \in Seq(PlainLines)
        /\ Clear(rcx) \in Seq(PlainLines) /\ Clear(rdx) \in Seq(PlainLines)
    BY <1>11
  <2> QED BY <2>1, <2>2, PlainAppended
<1> HIDE DEF e
<1> DEFINE x == [s EXCEPT !.static.pows = @ + 1]
<1>13. Cells(x, v)
  BY CountedCells, Zenon
<1> HIDE DEF x
<1>14. Cells(Emit(x, e), v)
  BY <1>12, <1>13, EmitCells
<1> QED BY <1>3, <1>14, Zenon DEF x

(* A string takes as many cells as it has characters, and one for the zero. *)
LEMMA StringCells ==
  ASSUME NEW v \in Statics, NEW s, Cells(s, v), NEW chars \in Seq(Int)
  PROVE  Cells(translate_string(s, chars), v)
<1> DEFINE cells == chars \o <<0>>
           top   == s.static.string_top
           n     == Len(cells)
           cell(i)  == Push(cells[(i + 1) \div 2])
           store(i) == Ram("POPM", top + i \div 2 - 1)
           stores   == [i \in 1..2 * n |-> IF i % 2 = 1 THEN cell(i) ELSE store(i)]
           e == stores \o <<Push(top)>>
           x == [s EXCEPT !.static.string_top = @ + n]
<1>1. translate_string(s, chars) = Emit(x, e)
  BY DEF translate_string
<1>2. s \in States /\ StoresApart(s.text, v.string_top, top)
  BY DEF Cells
<1>3. s.text \in Seq(AsmLines) /\ s.static \in Statics /\ top \in Nat /\ v.string_top \in Nat
  BY <1>2 DEF States, Statics
<1>4. cells \in Seq(Int) /\ n \in Nat
  OBVIOUS
<1> HIDE DEF cells, n, top
<1>5. \A i \in 1..2 * n : i % 2 = 1 => cell(i) \in PlainLines
  <2> SUFFICES ASSUME NEW i \in 1..2 * n, i % 2 = 1 PROVE cell(i) \in PlainLines
    OBVIOUS
  <2>1. (i + 1) \div 2 \in 1..n
    BY <1>4
  <2>2. cells[(i + 1) \div 2] \in Int
    BY <1>4, <2>1 DEF n
  <2> QED BY <2>2, CommandsPlain
<1>6. \A i \in 1..2 * n : i % 2 # 1 =>
        /\ store(i) \in AsmLines /\ store(i).arg.v = top + i \div 2 - 1
        /\ top + i \div 2 - 1 \in top..top + n - 1
  <2> SUFFICES ASSUME NEW i \in 1..2 * n, i % 2 # 1
               PROVE  /\ store(i) \in AsmLines /\ store(i).arg.v = top + i \div 2 - 1
                      /\ top + i \div 2 - 1 \in top..top + n - 1
    OBVIOUS
  <2> DEFINE a == top + i \div 2 - 1
  <2>1. i \div 2 \in 1..n
    BY <1>4
  <2>2. a \in top..top + n - 1 /\ a \in Int
    BY <1>3, <1>4, <2>1
  <2> HIDE DEF a
  <2>3. "POPM" \in AsmOps /\ "ram" \in ArgKinds /\ a \in Int \union AsmNames
    BY <2>2 DEF AsmOps, ArgKinds
  <2>4. Ram("POPM", a) \in AsmLines /\ Ram("POPM", a).arg.v = a
    BY <2>3, LineFields DEF Ram
  <2> QED BY <2>2, <2>4 DEF a
<1> HIDE DEF cell, store
<1>7. \A l \in PlainLines : l \in AsmLines /\ ~ IsStringStore(l)
  BY DEF PlainLines
<1>8. stores \in Seq(AsmLines) /\ Len(stores) = 2 * n
  <2>1. \A i \in 1..2 * n : stores[i] \in AsmLines
    BY <1>5, <1>6, <1>7
  <2>2. stores = [i \in 1..2 * n |-> stores[i]] /\ 2 * n \in Nat
    BY <1>4
  <2> HIDE DEF stores
  <2> QED BY <2>1, <2>2
<1>9. ASSUME NEW i \in 1..2 * n, IsStringStore(stores[i])
      PROVE  i % 2 # 1 /\ stores[i].arg.v = top + i \div 2 - 1 /\ stores[i].arg.v \in top..top + n - 1
  <2>1. CASE i % 2 = 1
    BY <1>5, <1>7, <1>9, <2>1
  <2>2. CASE i % 2 # 1
    BY <1>6, <2>2
  <2> QED BY <2>1, <2>2
<1>10. ASSUME NEW i \in 1..2 * n, NEW j \in 1..2 * n, IsStringStore(stores[i]), stores[i] = stores[j] PROVE i = j
  <2>1. i % 2 # 1 /\ stores[i].arg.v = top + i \div 2 - 1
    BY <1>9, <1>10
  <2>2. IsStringStore(stores[j])
    BY <1>10
  <2>3. j % 2 # 1 /\ stores[j].arg.v = top + j \div 2 - 1
    BY <1>9, <2>2
  <2>4. top + i \div 2 - 1 = top + j \div 2 - 1
    BY <1>10, <2>1, <2>3
  <2> HIDE DEF stores
  <2> QED BY <1>3, <1>4, <2>1, <2>3, <2>4
<1>11. StoresApart(stores, top, top + n)
  <2>1. top <= top + n
    BY <1>3, <1>4
  <2> HIDE DEF stores
  <2>2. \A i \in 1..Len(stores) : IsStringStore(stores[i]) => stores[i].arg.v \in top..(top + n) - 1
    <3> SUFFICES ASSUME NEW i \in 1..Len(stores), IsStringStore(stores[i]) PROVE stores[i].arg.v \in top..(top + n) - 1
      OBVIOUS
    <3>1. i \in 1..2 * n
      BY <1>8
    <3>2. stores[i].arg.v \in top..top + n - 1
      BY <1>9, <3>1
    <3> QED BY <1>3, <1>4, <3>2
  <2>3. \A i, j \in 1..Len(stores) : IsStringStore(stores[i]) /\ stores[i] = stores[j] => i = j
    BY <1>8, <1>10
  <2> QED BY <2>1, <2>2, <2>3 DEF StoresApart
<1>12. <<Push(top)>> \in Seq(PlainLines)
  <2>1. Push(top) \in PlainLines
    BY <1>3, CommandsPlain
  <2> QED BY <2>1
<1>13. <<Push(top)>> \in Seq(AsmLines) /\ StoresApart(<<Push(top)>>, top + n, top + n)
  <2> DEFINE u == <<Push(top)>>
  <2>1. u \in Seq(PlainLines) /\ top + n \in Nat
    BY <1>3, <1>4, <1>12
  <2> HIDE DEF u
  <2>2. u \in Seq(AsmLines) /\ StoresApart(u, top + n, top + n)
    BY <2>1, PlainStores
  <2> QED BY <2>2 DEF u
<1>14. e \in Seq(AsmLines) /\ StoresApart(e, top, top + n)
  <2> HIDE DEF stores
  <2>1. top + n \in Nat
    BY <1>3, <1>4
  <2> QED BY <1>3, <1>8, <1>11, <1>13, <2>1, StoresAppended
<1> HIDE DEF e, stores
<1>15. s.text \o e \in Seq(AsmLines) /\ StoresApart(s.text \o e, v.string_top, top + n)
  <2>1. top + n \in Nat
    BY <1>3, <1>4
  <2> QED BY <1>2, <1>3, <1>14, <2>1, StoresAppended
<1> DEFINE c == [s.static EXCEPT !.string_top = top + n]
<1>16. x = [s EXCEPT !.static = c]
  BY DEF top
<1>17. c \in Statics /\ c.string_top = top + n
  <2> DEFINE g == s.static
             m == top + n
  <2>1. m \in Nat /\ g \in Statics
    BY <1>3, <1>4
  <2> HIDE DEF g, m
  <2>2. [g EXCEPT !.string_top = m] \in Statics /\ [g EXCEPT !.string_top = m].string_top = m
    BY <2>1 DEF Statics
  <2> QED BY <2>2 DEF g, m
<1> HIDE DEF c, x
<1>18. x \in States /\ x.text = s.text /\ x.static = c /\ x.end = s.end
  BY <1>2, <1>16, <1>17 DEF States
<1>19. CASE x.end # "open"
  <2>1. Emit(x, e) = x
    BY <1>19 DEF Emit
  <2>2. StoresApart(s.text, v.string_top, top + n)
    BY <1>2, <1>3, <1>4 DEF StoresApart
  <2> QED BY <1>1, <1>17, <1>18, <2>1, <2>2 DEF Cells
<1>20. CASE x.end = "open"
  <2> DEFINE t == s.text \o e
             r == [x EXCEPT !.text = t]
  <2>1. Emit(x, e) = r
    BY <1>18, <1>20 DEF Emit
  <2>2. t \in Seq(AsmLines) /\ StoresApart(t, v.string_top, top + n)
    BY <1>15
  <2> HIDE DEF t
  <2>3. r \in States /\ r.text = t /\ r.static = c
    BY <1>18, <2>2 DEF States
  <2> HIDE DEF r
  <2> QED BY <1>1, <1>17, <2>1, <2>2, <2>3 DEF Cells
<1> QED BY <1>19, <1>20

-----------------------------------------------------------------------------
(* A tree whose slots lie below the strings.                               *)
Low(t)      == \A p \in Paths(t) : At(t, p).idx < StringTop
LowTrees(h) == {t \in Trees[h] : Low(t)}

(* Such a tree is a low node over such trees.                              *)
LEMMA LowOf ==
  ASSUME NEW n \in Trees[MaxHeight], n # Nil
  PROVE  Low(n) <=> n.idx < StringTop /\ Low(n.left) /\ Low(n.right)
<1>1. Paths(n) = {<< >>} \union Down("left", Paths(n.left)) \union Down("right", Paths(n.right))
  BY PathsUnfold
<1>2. Paths(n.left) \subseteq Seq(Sides) /\ Paths(n.right) \subseteq Seq(Sides)
  BY ChildrenAreTrees, PathsType
<1>3. << >> \in Seq(Sides)
  OBVIOUS
<1>4. At(n, << >>) = n
  BY <1>3, AtSides
<1>5. /\ \A p \in Paths(n.left) : At(n, <<"left">> \o p) = At(n.left, p)
      /\ \A p \in Paths(n.right) : At(n, <<"right">> \o p) = At(n.right, p)
  BY <1>2, AtSides
<1>6. (\A q \in Down("left", Paths(n.left)) : At(n, q).idx < StringTop) <=> Low(n.left)
  BY <1>5 DEF Down, Low
<1>7. (\A q \in Down("right", Paths(n.right)) : At(n, q).idx < StringTop) <=> Low(n.right)
  BY <1>5 DEF Down, Low
<1> QED BY <1>1, <1>4, <1>6, <1>7 DEF Low

(* A node of one over its children.                                        *)
LEMMA LowNode ==
  ASSUME NEW h \in 0..MaxHeight, NEW n \in LowTrees(h), n # Nil
  PROVE  /\ h - 1 \in 0..MaxHeight /\ n \in Trees[h] /\ n \in NodesOver(Trees[h - 1])
         /\ n.left \in LowTrees(h - 1) /\ n.right \in LowTrees(h - 1)
         /\ n.left \in LowTrees(h) /\ n.right \in LowTrees(h)
         /\ n.kind \in Kinds /\ n.name \in STRING /\ n.idx \in Int /\ n.num \in Int /\ n.chars \in Seq(Int)
         /\ n.idx < StringTop
<1>1. n \in Trees[h] /\ Low(n)
  BY DEF LowTrees
<1>2. /\ h - 1 \in 0..MaxHeight /\ n \in NodesOver(Trees[h - 1])
      /\ n.left \in Trees[h - 1] /\ n.right \in Trees[h - 1]
      /\ n.left \in Trees[h] /\ n.right \in Trees[h]
  BY <1>1, ChildrenSmaller
<1>3. MaxHeight \in 0..MaxHeight /\ h <= MaxHeight
  BY HeightAssumption
<1>4. n \in Trees[MaxHeight]
  BY <1>1, <1>3, TreesMonotone
<1>5. n.idx < StringTop /\ Low(n.left) /\ Low(n.right)
  BY <1>1, <1>4, LowOf
<1>6. n.kind \in Kinds /\ n.name \in STRING /\ n.idx \in Int /\ n.num \in Int /\ n.chars \in Seq(Int)
  BY <1>2 DEF NodesOver
<1> QED BY <1>1, <1>2, <1>5, <1>6 DEF LowTrees

(* The empty tree lies below the strings.                                  *)
LEMMA NilIsLow == \A h \in 0..MaxHeight : Nil \in LowTrees(h)
<1>1. Low(Nil)
  BY NothingInNil DEF Low
<1> QED BY <1>1, NilIsTree DEF LowTrees

(* What below holds is written well for all low trees of height h.         *)
Writes(below, h) == \A m \in LowTrees(h) : WellWritten(below, m)

(* A store below the strings.                                              *)
LEMMA SlotPlain ==
  ASSUME NEW h \in 0..MaxHeight, NEW n \in LowTrees(h), n # Nil
  PROVE  Ram("POPM", n.idx) \in PlainLines /\ Ram("PUSHM", n.idx) \in PlainLines
BY LowNode, CommandsPlain

(* Expressions.                                                            *)
LEMMA OperatorCells ==
  ASSUME NEW h \in 1..MaxHeight, NEW below, Writes(below, h - 1), NEW n \in LowTrees(h), n # Nil,
         NEW v \in Statics, NEW s, Cells(s, v)
  PROVE  Cells(translate_operator(s, n, below), v)
<1>1. h \in 0..MaxHeight /\ h - 1 \in 0..MaxHeight
  BY HeightAssumption
<1>2. n.left \in LowTrees(h - 1) /\ n.right \in LowTrees(h - 1)
  BY <1>1, LowNode
<1>3. WellWritten(below, n.left) /\ WellWritten(below, n.right)
  BY <1>2 DEF Writes
<1>4. CASE n.what \in BinaryOperators
  <2> DEFINE t == Visit(Visit(s, below, n.left), below, n.right)
  <2>1. Cells(t, v)
    BY <1>3, VisitCells
  <2>2. translate_operator(s, n, below) =
          IF n.what = "^" THEN emit_op_pow(t)
          ELSE IF n.what \in DOMAIN JumpFor THEN emit_cmp(t, JumpFor[n.what])
          ELSE Emit(t, <<Op(CommandFor[n.what])>>)
    BY <1>4, Zenon DEF translate_operator
  <2> HIDE DEF t
  <2>3. CASE n.what = "^"
    BY <2>1, <2>2, <2>3, PowerCells
  <2>4. CASE n.what # "^" /\ n.what \in DOMAIN JumpFor
    <3>1. JumpFor[n.what] \in {"JE", "JNE", "JB", "JBE", "JA", "JAE"}
      BY <2>4 DEF JumpFor
    <3> QED BY <2>1, <2>2, <2>4, <3>1, ComparisonCells
  <2>5. CASE n.what # "^" /\ n.what \notin DOMAIN JumpFor
    <3>1. n.what \in {"+", "/", "*", "-"}
      BY <1>4, <2>5 DEF JumpFor, BinaryOperators
    <3>2. CommandFor[n.what] \in {"ADD", "SUB", "MUL", "DIV"}
      BY <3>1 DEF CommandFor
    <3>3. Op(CommandFor[n.what]) \in PlainLines
      BY <3>2, CommandsPlain DEF AsmOps
    <3>4. <<Op(CommandFor[n.what])>> \in Seq(PlainLines)
      BY <3>3
    <3> QED BY <2>1, <2>2, <2>5, <3>4, EmitCells
  <2> QED BY <2>3, <2>4, <2>5
<1>5. CASE n.what \notin BinaryOperators /\ n.what \in UnaryOperators
  <2> DEFINE t == Visit(s, below, OnlyChild(n))
             in == <<Op("IN")>> \o IF n.left.kind = "IDENTIFIER" THEN <<Ram("POPM", n.left.idx)>> ELSE << >>
             minus == << Push(-1), Op("MUL") >>
  <2>1. Cells(t, v)
    BY <1>3, VisitCells DEF OnlyChild
  <2>2. translate_operator(s, n, below) =
          CASE n.what = "read" -> Emit(t, in) [] n.what = "u-" -> Emit(t, minus) [] OTHER -> Emit(t, FunctionCode[n.what])
    BY <1>5, Zenon DEF translate_operator
  <2>3. in \in Seq(PlainLines)
    <3>1. Op("IN") \in PlainLines
      BY CommandsPlain DEF AsmOps
    <3>2. n.left.kind = "IDENTIFIER" => n.left # Nil
      BY DEF Nil
    <3>3. n.left.kind = "IDENTIFIER" => Ram("POPM", n.left.idx) \in PlainLines
      BY <1>1, <1>2, <3>2, SlotPlain
    <3> QED BY <3>1, <3>3
  <2>4. minus \in Seq(PlainLines)
    <3>1. Push(-1) \in PlainLines /\ Op("MUL") \in PlainLines
      BY CommandsPlain DEF AsmOps
    <3> QED BY <3>1
  <2> HIDE DEF t, in, minus
  <2>5. CASE n.what = "read"
    BY <2>1, <2>2, <2>3, <2>5, EmitCells
  <2>6. CASE n.what = "u-"
    BY <2>1, <2>2, <2>4, <2>6, EmitCells
  <2>7. CASE n.what # "read" /\ n.what # "u-"
    <3>1. n.what \in {"sin", "cos", "tan", "exp", "ln", "sqrt"}
      BY <1>5, <2>7 DEF UnaryOperators
    <3>2. /\ \A op \in {"SQRT", "SIN", "COS", "EXP", "LN", "DIV"} : Op(op) \in PlainLines
          /\ Reg("POPR", rax) \in PlainLines /\ Reg("PUSHR", rax) \in PlainLines /\ Push(0) \in PlainLines
      BY CommandsPlain DEF AsmOps, rax
    <3> DEFINE tan == << Reg("POPR", rax), Reg("PUSHR", rax), Op("SIN"), Reg("PUSHR", rax), Op("COS"),
                         Push(0), Reg("POPR", rax), Op("DIV") >>
               one(op) == <<Op(op)>>
               code == [sqrt |-> one("SQRT"), sin |-> one("SIN"), cos |-> one("COS"), exp |-> one("EXP"), ln |-> one("LN"),
                        tan |-> tan]
    <3>4. tan \in Seq(PlainLines) /\ \A op \in {"SQRT", "SIN", "COS", "EXP", "LN"} : one(op) \in Seq(PlainLines)
      BY <3>2
    <3>5. FunctionCode = code
      BY DEF FunctionCode
    <3> HIDE DEF tan, one
    <3>6. code[n.what] \in Seq(PlainLines)
      BY <3>1, <3>4
    <3>3. FunctionCode[n.what] \in Seq(PlainLines)
      BY <3>5, <3>6
    <3> QED BY <2>1, <2>2, <2>7, <3>3, EmitCells
  <2> QED BY <2>5, <2>6, <2>7
<1>6. CASE n.what \notin BinaryOperators /\ n.what \notin UnaryOperators
  <2>1. translate_operator(s, n, below) = Stop(s, "error")
    BY <1>6, Zenon DEF translate_operator
  <2> QED BY <2>1, StopCells
<1> QED BY <1>4, <1>5, <1>6

(* print, the stores of assignments and definitions, and return.           *)
LEMMA SimpleCells ==
  ASSUME NEW h \in 1..MaxHeight, NEW below, Writes(below, h - 1), NEW n \in LowTrees(h), n # Nil,
         NEW v \in Statics, NEW s, Cells(s, v)
  PROVE  /\ Cells(translate_print(s, n, below), v)
         /\ Cells(translate_store(s, n, below), v)
         /\ Cells(translate_return(s, n, below), v)
<1>1. h \in 0..MaxHeight /\ h - 1 \in 0..MaxHeight
  BY HeightAssumption
<1>2. n.left \in LowTrees(h - 1) /\ n.right \in LowTrees(h - 1)
  BY <1>1, LowNode
<1>3. WellWritten(below, n.left) /\ WellWritten(below, n.right)
  BY <1>2 DEF Writes
<1>4. Cells(translate_print(s, n, below), v)
  <2> DEFINE t == Visit(s, below, OnlyChild(n))
             op == IF OnlyChild(n).kind = "STRING" THEN "PUTS" ELSE "OUT"
  <2>1. Cells(t, v)
    BY <1>3, VisitCells DEF OnlyChild
  <2>2. translate_print(s, n, below) = IF OnlyChild(n) = Nil THEN Stop(t, "crash") ELSE Emit(t, <<Op(op)>>)
    BY DEF translate_print
  <2>3. op \in {"PUTS", "OUT"}
    OBVIOUS
  <2> HIDE DEF t, op
  <2>4. Op(op) \in PlainLines
    BY <2>3, CommandsPlain DEF AsmOps
  <2>5. <<Op(op)>> \in Seq(PlainLines)
    BY <2>4
  <2> QED BY <2>1, <2>2, <2>5, EmitCells, StopCells
<1>5. Cells(translate_store(s, n, below), v)
  <2> DEFINE t == Visit(s, below, n.right)
  <2>1. Cells(t, v)
    BY <1>3, VisitCells
  <2>2. translate_store(s, n, below) =
          IF n.left = Nil THEN Stop(t, "crash")
          ELSE IF n.left.idx < 0 THEN Stop(t, "error")
          ELSE Emit(t, <<Ram("POPM", n.left.idx)>>)
    BY DEF translate_store
  <2> HIDE DEF t
  <2>3. n.left # Nil => <<Ram("POPM", n.left.idx)>> \in Seq(PlainLines)
    <3>1. n.left # Nil => Ram("POPM", n.left.idx) \in PlainLines
      BY <1>1, <1>2, SlotPlain
    <3> QED BY <3>1
  <2> QED BY <2>1, <2>2, <2>3, EmitCells, StopCells
<1>6. Cells(translate_return(s, n, below), v)
  <2> DEFINE t == IF n.left = Nil THEN Emit(s, <<Push(0)>>) ELSE Visit(s, below, n.left)
  <2>1. translate_return(s, n, below) = Emit(t, <<Op("RET")>>)
    BY DEF translate_return
  <2>2. Push(0) \in PlainLines /\ Op("RET") \in PlainLines
    BY CommandsPlain DEF AsmOps
  <2>3. <<Push(0)>> \in Seq(PlainLines) /\ <<Op("RET")>> \in Seq(PlainLines)
    BY <2>2
  <2>4. Cells(Emit(s, <<Push(0)>>), v) /\ Cells(Visit(s, below, n.left), v)
    BY <1>3, <2>3, EmitCells, VisitCells
  <2>5. Cells(t, v)
    BY <2>4
  <2> HIDE DEF t
  <2> QED BY <2>1, <2>3, <2>5, EmitCells
<1> QED BY <1>4, <1>5, <1>6

(* Branches.                                                               *)
LEMMA IfCells ==
  ASSUME NEW h \in 1..MaxHeight, NEW below, Writes(below, h - 1), NEW n \in LowTrees(h), n # Nil,
         NEW v \in Statics, NEW s, Cells(s, v)
  PROVE  Cells(translate_if(s, n, below), v)
<1>1. h \in 0..MaxHeight /\ h - 1 \in 0..MaxHeight
  BY HeightAssumption
<1>2. n.left \in LowTrees(h - 1) /\ n.right \in LowTrees(h - 1)
  BY <1>1, LowNode
<1> DEFINE else  == LabelName("ELSE", s.static.ifs)
           endif == LabelName("ENDIF", s.static.ifs)
           x == [s EXCEPT !.static.ifs = @ + 1]
           a == Visit(x, below, n.left)
           jump == << Push(0), To("JE", IF n.right.right # Nil THEN else ELSE endif) >>
           t == Emit(a, jump)
           u == Visit(t, below, n.right.left)
           skip == << To("JMP", endif), Label(else) >>
           w == Visit(Emit(u, skip), below, n.right.right)
           z == IF n.right.right = Nil THEN u ELSE w
<1>3. translate_if(s, n, below) = IF n.right = Nil THEN Stop(s, "crash") ELSE Emit(z, <<Label(endif)>>)
  BY DEF translate_if
<1>4. Cells(Stop(s, "crash"), v)
  BY StopCells
<1>5. else \in AsmNames /\ endif \in AsmNames
  <2>1. s.static.ifs \in Nat
    BY DEF Cells, States, Statics
  <2> QED BY <2>1, LabelNames DEF Bases
<1> HIDE DEF else, endif
<1>6. /\ Push(0) \in PlainLines /\ To("JE", else) \in PlainLines /\ To("JE", endif) \in PlainLines
      /\ To("JMP", endif) \in PlainLines /\ Label(else) \in PlainLines /\ Label(endif) \in PlainLines
  BY <1>5, CommandsPlain DEF AsmOps
<1>7. jump \in Seq(PlainLines) /\ skip \in Seq(PlainLines) /\ <<Label(endif)>> \in Seq(PlainLines)
  BY <1>6
<1> HIDE DEF jump, skip
<1>8. Cells(x, v)
  BY CountedCells, Zenon
<1> HIDE DEF x
<1>9. ASSUME n.right # Nil PROVE Cells(Emit(z, <<Label(endif)>>), v)
  <2>1. n.right.left \in LowTrees(h - 1) /\ n.right.right \in LowTrees(h - 1)
    BY <1>1, <1>2, <1>9, LowNode
  <2>2. WellWritten(below, n.left) /\ WellWritten(below, n.right.left) /\ WellWritten(below, n.right.right)
    BY <1>2, <2>1 DEF Writes
  <2>3. Cells(a, v)
    BY <1>8, <2>2, VisitCells
  <2> HIDE DEF a
  <2>4. Cells(t, v)
    BY <1>7, <2>3, EmitCells
  <2> HIDE DEF t
  <2>5. Cells(u, v)
    BY <2>2, <2>4, VisitCells
  <2> HIDE DEF u
  <2>6. Cells(Emit(u, skip), v)
    BY <1>7, <2>5, EmitCells
  <2>7. Cells(w, v)
    BY <2>2, <2>6, VisitCells
  <2> HIDE DEF w
  <2>8. Cells(z, v)
    BY <2>5, <2>7
  <2> HIDE DEF z
  <2> QED BY <1>7, <2>8, EmitCells
<1> HIDE DEF z
<1> QED BY <1>3, <1>4, <1>9

(* Loops.                                                                  *)
LEMMA WhileCells ==
  ASSUME NEW h \in 1..MaxHeight, NEW below, Writes(below, h - 1), NEW n \in LowTrees(h), n # Nil,
         NEW v \in Statics, NEW s, Cells(s, v)
  PROVE  Cells(translate_while(s, n, below), v)
<1>1. h \in 0..MaxHeight /\ h - 1 \in 0..MaxHeight
  BY HeightAssumption
<1>2. WellWritten(below, n.left) /\ WellWritten(below, n.right)
  BY <1>1, LowNode DEF Writes
<1> DEFINE while    == LabelName("WHILE", s.static.whiles)
           endwhile == LabelName("ENDWHILE", s.static.whiles)
           x == [s EXCEPT !.static.whiles = @ + 1]
           a == Emit(x, <<Label(while)>>)
           t == Visit(a, below, n.left)
           b == Emit(t, << Push(0), To("JE", endwhile) >>)
           u == Visit(b, below, n.right)
<1>3. translate_while(s, n, below) = Emit(u, << To("JMP", while), Label(endwhile) >>)
  BY DEF translate_while
<1>4. while \in AsmNames /\ endwhile \in AsmNames
  <2>1. s.static.whiles \in Nat
    BY DEF Cells, States, Statics
  <2> QED BY <2>1, LabelNames DEF Bases
<1> HIDE DEF while, endwhile
<1>5. /\ Push(0) \in PlainLines /\ To("JE", endwhile) \in PlainLines /\ To("JMP", while) \in PlainLines
      /\ Label(while) \in PlainLines /\ Label(endwhile) \in PlainLines
  BY <1>4, CommandsPlain DEF AsmOps
<1>6. /\ <<Label(while)>> \in Seq(PlainLines) /\ << Push(0), To("JE", endwhile) >> \in Seq(PlainLines)
      /\ << To("JMP", while), Label(endwhile) >> \in Seq(PlainLines)
  BY <1>5
<1>7. Cells(x, v)
  BY CountedCells, Zenon
<1> HIDE DEF x
<1>8. Cells(a, v)
  BY <1>6, <1>7, EmitCells
<1> HIDE DEF a
<1>9. Cells(t, v)
  BY <1>2, <1>8, VisitCells
<1> HIDE DEF t
<1>10. Cells(b, v)
  BY <1>6, <1>9, EmitCells
<1> HIDE DEF b
<1>11. Cells(u, v)
  BY <1>2, <1>10, VisitCells
<1> HIDE DEF u
<1> QED BY <1>3, <1>6, <1>11, EmitCells

(* The nodes on each other's left are trees like the first one.            *)
LEMMA LeftChainIs ==
  ASSUME NEW h \in 0..MaxHeight, NEW n \in LowTrees(h)
  PROVE  LeftChain(n) \in Seq(LowTrees(h) \ {Nil})
<1> DEFINE B(g, k) == [m \in Trees[MaxHeight] |-> IF m = Nil \/ k = 0 THEN << >> ELSE <<m>> \o g[k - 1][m.left]]
           Made == {k \in Nat : \E g : g = [i \in 0..k |-> B(g, i)]}
           S == LowTrees(h) \ {Nil}
<1> HIDE DEF B
<1>1. 0 \in Made
  <2> DEFINE g == [i \in 0..0 |-> B(<< >>, i)]
  <2>1. \A i \in 0..0 : B(<< >>, i) = B(g, i)
    <3>1. B(<< >>, 0) = B(g, 0)
      BY DEF B
    <3> HIDE DEF g
    <3> QED BY <3>1
  <2>2. g = [i \in 0..0 |-> B(g, i)]
    BY <2>1
  <2>3. \E f : f = [i \in 0..0 |-> B(f, i)]
    <3> HIDE DEF g
    <3> QED BY <2>2
  <2> QED BY <2>3
<1>2. \A k \in Nat : k \in Made => k + 1 \in Made
  <2> SUFFICES ASSUME NEW k \in Nat, k \in Made PROVE k + 1 \in Made
    OBVIOUS
  <2>1. PICK g : g = [i \in 0..k |-> B(g, i)]
    OBVIOUS
  <2> DEFINE G == [i \in 0..k + 1 |-> B(g, i)]
  <2>2. \A i \in 0..k : G[i] = g[i]
    <3>1. \A i \in 0..k : i \in 0..k + 1
      OBVIOUS
    <3> QED BY <2>1, <3>1
  <2>3. \A i \in 0..k + 1 : B(g, i) = B(G, i)
    <3> SUFFICES ASSUME NEW i \in 0..k + 1 PROVE B(g, i) = B(G, i)
      OBVIOUS
    <3>1. CASE i = 0
      BY <3>1 DEF B
    <3>2. CASE i # 0
      <4>1. i - 1 \in 0..k
        BY <3>2
      <4>2. g[i - 1] = G[i - 1]
        BY <2>2, <4>1
      <4> HIDE DEF G
      <4> QED BY <4>2 DEF B
    <3> QED BY <3>1, <3>2
  <2>4. G = [i \in 0..k + 1 |-> B(G, i)]
    BY <2>3
  <2>5. \E f : f = [i \in 0..k + 1 |-> B(f, i)]
    <3> HIDE DEF G
    <3> QED BY <2>4
  <2> QED BY <2>5
<1>3. 16 \in Made
  <2> HIDE DEF Made
  <2> QED BY <1>1, <1>2, SetInduction
<1> DEFINE C == CHOOSE g : g = [i \in 0..16 |-> B(g, i)]
<1>4. LeftChain(n) = C[16][n]
  BY DEF LeftChain, B
<1>5. \E g : g = [i \in 0..16 |-> B(g, i)]
  BY <1>3
<1>6. C = [i \in 0..16 |-> B(C, i)]
  BY <1>5
<1> HIDE DEF C
<1>7. \A i \in 0..16 : C[i] = B(C, i)
  BY <1>6
<1>8. \A m \in LowTrees(h) : m \in Trees[MaxHeight] /\ (m # Nil => m \in S /\ m.left \in LowTrees(h))
  <2>1. MaxHeight \in 0..MaxHeight /\ h <= MaxHeight
    BY HeightAssumption
  <2>2. \A m \in LowTrees(h) : m \in Trees[MaxHeight]
    BY <2>1, TreesMonotone DEF LowTrees
  <2> QED BY <2>2, LowNode
<1> HIDE DEF S
<1> DEFINE Chained == {k \in Nat : k <= 16 => \A m \in LowTrees(h) : C[k][m] \in Seq(S)}
<1>9. 0 \in Chained
  <2>1. C[0] = B(C, 0)
    BY <1>7
  <2>2. \A m \in Trees[MaxHeight] : C[0][m] = << >>
    BY <2>1 DEF B
  <2>3. \A m \in LowTrees(h) : C[0][m] = << >>
    BY <1>8, <2>2
  <2>4. << >> \in Seq(S)
    OBVIOUS
  <2> QED BY <2>3, <2>4
<1>10. \A k \in Nat : k \in Chained => k + 1 \in Chained
  <2> SUFFICES ASSUME NEW k \in Nat, k \in Chained, k + 1 <= 16, NEW m \in LowTrees(h)
               PROVE  C[k + 1][m] \in Seq(S)
    OBVIOUS
  <2>1. k + 1 \in 0..16 /\ (k + 1) - 1 = k /\ k + 1 # 0 /\ k <= 16
    OBVIOUS
  <2>2. C[k + 1] = B(C, k + 1) /\ m \in Trees[MaxHeight]
    BY <1>7, <1>8, <2>1
  <2>3. C[k + 1][m] = IF m = Nil THEN << >> ELSE <<m>> \o C[k][m.left]
    BY <2>1, <2>2 DEF B
  <2>4. CASE m = Nil
    BY <2>3, <2>4
  <2>5. CASE m # Nil
    <3>1. m \in S /\ C[k][m.left] \in Seq(S)
      BY <1>8, <2>1, <2>5
    <3> QED BY <2>3, <2>5, <3>1
  <2> QED BY <2>4, <2>5
<1>11. 16 \in Chained
  <2> HIDE DEF Chained
  <2> QED BY <1>9, <1>10, SetInduction
<1> QED BY <1>4, <1>11 DEF S

(* ... in a list of parameters or arguments, too.                          *)
LEMMA ListedIs ==
  ASSUME NEW h \in 0..MaxHeight, NEW n \in LowTrees(h), NEW list
  PROVE  Listed(n, list) \in Seq(LowTrees(h) \ {Nil})
<1>1. CASE IsStatement(n, list)
  <2>1. n # Nil
    BY <1>1 DEF IsStatement, Nil
  <2>2. n.left \in LowTrees(h)
    BY <2>1, LowNode
  <2> QED BY <1>1, <2>2, LeftChainIs DEF Listed
<1>2. CASE ~ IsStatement(n, list)
  BY <1>2 DEF Listed
<1> QED BY <1>1, <1>2

(* Definitions of functions.                                               *)
LEMMA DefinitionCells ==
  ASSUME NEW h \in 1..MaxHeight, NEW below, Writes(below, h - 1), NEW n \in LowTrees(h), n # Nil,
         NEW v \in Statics, NEW s, Cells(s, v)
  PROVE  Cells(translate_func_def(s, n, below), v)
<1>1. h \in 0..MaxHeight /\ h - 1 \in 0..MaxHeight
  BY HeightAssumption
<1>2. n.left \in LowTrees(h - 1) /\ n.right \in LowTrees(h - 1) /\ n.name \in STRING
  BY <1>1, LowNode
<1>3. WellWritten(below, n.right)
  BY <1>2 DEF Writes
<1> DEFINE params == Listed(n.left, "params")
           k == Len(params)
           pops == [i \in 1..k |-> Ram("POPM", params[k + 1 - i].idx)]
           a == Emit(s, <<Label(n.name)>> \o pops)
           t == Visit(a, below, n.right)
           u == Emit(t, << Push(0), Op("RET") >>)
<1>4. translate_func_def(s, n, below) = IF \E i \in 1..k : params[i].idx < 0 THEN Stop(s, "error") ELSE u
  BY DEF translate_func_def
<1>5. params \in Seq(LowTrees(h - 1) \ {Nil})
  BY <1>1, <1>2, ListedIs
<1> HIDE DEF params
<1>6. k \in Nat
  BY <1>5
<1>7. \A i \in 1..k : pops[i] \in PlainLines
  <2> SUFFICES ASSUME NEW i \in 1..k PROVE pops[i] \in PlainLines
    OBVIOUS
  <2>1. k + 1 - i \in 1..k
    BY <1>6
  <2>2. params[k + 1 - i] \in LowTrees(h - 1) /\ params[k + 1 - i] # Nil
    BY <1>5, <2>1
  <2>3. Ram("POPM", params[k + 1 - i].idx) \in PlainLines
    BY <1>1, <2>2, SlotPlain
  <2> QED BY <2>3
<1>8. pops = [i \in 1..k |-> pops[i]]
  OBVIOUS
<1> HIDE DEF pops, k
<1>9. pops \in Seq(PlainLines)
  BY <1>6, <1>7, <1>8
<1>10. Label(n.name) \in PlainLines /\ Push(0) \in PlainLines /\ Op("RET") \in PlainLines
  BY <1>2, CommandsPlain DEF AsmNames, AsmOps
<1>11. <<Label(n.name)>> \o pops \in Seq(PlainLines) /\ << Push(0), Op("RET") >> \in Seq(PlainLines)
  BY <1>9, <1>10
<1>12. Cells(a, v)
  BY <1>11, EmitCells
<1> HIDE DEF a
<1>13. Cells(t, v)
  BY <1>3, <1>12, VisitCells
<1> HIDE DEF t
<1>14. Cells(u, v)
  BY <1>11, <1>13, EmitCells
<1> HIDE DEF u
<1> QED BY <1>4, <1>14, StopCells

(* Calls.                                                                  *)
LEMMA CallCells ==
  ASSUME NEW h \in 1..MaxHeight, NEW below, Writes(below, h - 1), NEW n \in LowTrees(h), n # Nil,
         NEW v \in Statics, NEW s, Cells(s, v)
  PROVE  Cells(translate_call(s, n, below), v)
<1>1. h \in 0..MaxHeight /\ h - 1 \in 0..MaxHeight
  BY HeightAssumption
<1>2. n.left \in LowTrees(h - 1) /\ n.name \in STRING
  BY <1>1, LowNode
<1> DEFINE args == Listed(n.left, "args")
           l == Len(args)
           B(g, i) == IF i = 0 THEN s ELSE Visit(g[i - 1], below, args[i])
           Made == {k \in Nat : \E g : g = [i \in 0..k |-> B(g, i)]}
<1>3. args \in Seq(LowTrees(h - 1) \ {Nil})
  BY <1>1, <1>2, ListedIs
<1>4. \A i \in 1..l : WellWritten(below, args[i])
  <2> HIDE DEF args
  <2>1. \A i \in 1..l : args[i] \in LowTrees(h - 1)
    BY <1>3
  <2> QED BY <2>1 DEF Writes
<1> DEFINE after == CHOOSE g : g = [i \in 0..l |-> B(g, i)]
<1>5. translate_call(s, n, below) = Emit(after[l], <<To("CALL", n.name)>>)
  BY DEF translate_call
<1>6. l \in Nat
  <2> HIDE DEF args
  <2> QED BY <1>3
<1> HIDE DEF args, l, B
<1>7. 0 \in Made
  <2> DEFINE g == [i \in 0..0 |-> B(<< >>, i)]
  <2>1. \A i \in 0..0 : B(<< >>, i) = B(g, i)
    <3>1. B(<< >>, 0) = B(g, 0)
      BY DEF B
    <3> HIDE DEF g
    <3> QED BY <3>1
  <2>2. g = [i \in 0..0 |-> B(g, i)]
    BY <2>1
  <2>3. \E f : f = [i \in 0..0 |-> B(f, i)]
    <3> HIDE DEF g
    <3> QED BY <2>2
  <2> QED BY <2>3
<1>8. \A k \in Nat : k \in Made => k + 1 \in Made
  <2> SUFFICES ASSUME NEW k \in Nat, k \in Made PROVE k + 1 \in Made
    OBVIOUS
  <2>1. PICK g : g = [i \in 0..k |-> B(g, i)]
    OBVIOUS
  <2> DEFINE G == [i \in 0..k + 1 |-> B(g, i)]
  <2>2. \A i \in 0..k : G[i] = g[i]
    <3>1. \A i \in 0..k : i \in 0..k + 1
      OBVIOUS
    <3> QED BY <2>1, <3>1
  <2>3. \A i \in 0..k + 1 : B(g, i) = B(G, i)
    <3> SUFFICES ASSUME NEW i \in 0..k + 1 PROVE B(g, i) = B(G, i)
      OBVIOUS
    <3>1. CASE i = 0
      BY <3>1 DEF B
    <3>2. CASE i # 0
      <4>1. i - 1 \in 0..k
        BY <3>2
      <4>2. g[i - 1] = G[i - 1]
        BY <2>2, <4>1
      <4> HIDE DEF G
      <4> QED BY <4>2 DEF B
    <3> QED BY <3>1, <3>2
  <2>4. G = [i \in 0..k + 1 |-> B(G, i)]
    BY <2>3
  <2>5. \E f : f = [i \in 0..k + 1 |-> B(f, i)]
    <3> HIDE DEF G
    <3> QED BY <2>4
  <2> QED BY <2>5
<1>9. l \in Made
  <2> HIDE DEF Made
  <2> QED BY <1>6, <1>7, <1>8, SetInduction
<1>10. after = [i \in 0..l |-> B(after, i)]
  BY <1>9
<1> HIDE DEF after
<1> DEFINE Done == {k \in Nat : k <= l => Cells(after[k], v)}
<1>11. 0 \in Done
  <2>1. after[0] = B(after, 0)
    BY <1>6, <1>10
  <2> QED BY <2>1 DEF B
<1>12. \A k \in Nat : k \in Done => k + 1 \in Done
  <2> SUFFICES ASSUME NEW k \in Nat, k \in Done, k + 1 <= l PROVE Cells(after[k + 1], v)
    OBVIOUS
  <2>1. k + 1 \in 0..l /\ (k + 1) - 1 = k /\ k + 1 # 0 /\ k <= l /\ k + 1 \in 1..l
    BY <1>6
  <2>2. after[k + 1] = B(after, k + 1)
    BY <1>10, <2>1
  <2>3. after[k + 1] = Visit(after[k], below, args[k + 1])
    BY <2>1, <2>2 DEF B
  <2>4. Cells(after[k], v) /\ WellWritten(below, args[k + 1])
    BY <1>4, <2>1
  <2> QED BY <2>3, <2>4, VisitCells
<1>13. Cells(after[l], v)
  <2>1. l \in Done
    <3> HIDE DEF Done
    <3> QED BY <1>6, <1>11, <1>12, SetInduction
  <2> QED BY <1>6, <2>1
<1>14. <<To("CALL", n.name)>> \in Seq(PlainLines)
  <2>1. To("CALL", n.name) \in PlainLines
    BY <1>2, CommandsPlain DEF AsmNames, AsmOps
  <2> QED BY <2>1
<1> QED BY <1>5, <1>13, <1>14, EmitCells

(* Statements.                                                             *)
LEMMA StatementCells ==
  ASSUME NEW h \in 1..MaxHeight, NEW below, Writes(below, h - 1), NEW n \in LowTrees(h), n # Nil,
         NEW v \in Statics, NEW s, Cells(s, v)
  PROVE  Cells(translate_statement(s, n, below), v)
<1> DEFINE Plain == {"program", "op_statement", "op_end", "block"}
           Others == {"print", "assignment", "var_def", "if", "while", "func_def", "func_call", "return"}
<1>1. h \in 0..MaxHeight
  BY HeightAssumption
<1>2. WellWritten(below, n.left) /\ WellWritten(below, n.right)
  BY <1>1, LowNode DEF Writes
<1>3. Cells(Visit(Visit(s, below, n.left), below, n.right), v)
  BY <1>2, VisitCells
<1>4. /\ n.what \in Plain => translate_statement(s, n, below) = Visit(Visit(s, below, n.left), below, n.right)
      /\ n.what = "print" => translate_statement(s, n, below) = translate_print(s, n, below)
      /\ n.what \in {"assignment", "var_def"} => translate_statement(s, n, below) = translate_store(s, n, below)
      /\ n.what = "if" => translate_statement(s, n, below) = translate_if(s, n, below)
      /\ n.what = "while" => translate_statement(s, n, below) = translate_while(s, n, below)
      /\ n.what = "func_def" => translate_statement(s, n, below) = translate_func_def(s, n, below)
      /\ n.what = "func_call" => translate_statement(s, n, below) = translate_call(s, n, below)
      /\ n.what = "return" => translate_statement(s, n, below) = translate_return(s, n, below)
      /\ n.what \notin Plain \union Others => translate_statement(s, n, below) = s
  BY DEF translate_statement
<1>5. CASE n.what \in Plain
  BY <1>3, <1>4, <1>5
<1>6. CASE n.what \in {"print", "assignment", "var_def", "return"}
  BY <1>4, <1>6, SimpleCells
<1>7. CASE n.what \in {"if", "while"}
  BY <1>4, <1>7, IfCells, WhileCells
<1>8. CASE n.what \in {"func_def", "func_call"}
  BY <1>4, <1>8, DefinitionCells, CallCells
<1>9. CASE n.what \notin Plain \union Others
  BY <1>4, <1>9
<1> QED BY <1>5, <1>6, <1>7, <1>8, <1>9

(* A node.                                                                 *)
LEMMA TranslateCells ==
  ASSUME NEW h \in 0..MaxHeight, NEW below, h # 0 => Writes(below, h - 1), NEW n \in LowTrees(h),
         NEW v \in Statics, NEW s, Cells(s, v)
  PROVE  Cells(TranslateNode(s, n, below), v)
<1>1. CASE n = Nil
  <2>1. n.kind = "nil"
    BY <1>1 DEF Nil
  <2>2. TranslateNode(s, n, below) = s
    BY <1>1, <2>1 DEF TranslateNode
  <2> QED BY <2>2
<1>2. CASE n # Nil
  <2>1. h # 0
    BY <1>2, TreesAt DEF LowTrees
  <2>2. h \in 1..MaxHeight /\ Writes(below, h - 1)
    BY <2>1, HeightAssumption
  <2>3. n.kind \in Kinds /\ n.num \in Int /\ n.chars \in Seq(Int)
    BY <1>2, LowNode
  <2>4. /\ n.kind = "OPERATOR" => TranslateNode(s, n, below) = translate_operator(s, n, below)
        /\ n.kind = "IDENTIFIER" => TranslateNode(s, n, below) =
             IF n.idx < -1 THEN Stop(s, "error") ELSE Emit(s, <<Ram("PUSHM", n.idx)>>)
        /\ n.kind = "NUMBER" => TranslateNode(s, n, below) = Emit(s, <<Push(n.num)>>)
        /\ n.kind = "STATEMENT" => TranslateNode(s, n, below) = translate_statement(s, n, below)
        /\ n.kind = "STRING" => TranslateNode(s, n, below) = translate_string(s, n.chars)
    BY <1>2 DEF TranslateNode
  <2>5. CASE n.kind \in {"OPERATOR", "STATEMENT"}
    BY <1>2, <2>2, <2>4, <2>5, OperatorCells, StatementCells
  <2>6. CASE n.kind = "IDENTIFIER"
    <3>1. Ram("PUSHM", n.idx) \in PlainLines
      BY <1>2, SlotPlain
    <3>2. <<Ram("PUSHM", n.idx)>> \in Seq(PlainLines)
      BY <3>1
    <3> QED BY <2>4, <2>6, <3>2, EmitCells, StopCells
  <2>7. CASE n.kind = "NUMBER"
    <3>1. Push(n.num) \in PlainLines
      BY <2>3, CommandsPlain
    <3>2. <<Push(n.num)>> \in Seq(PlainLines)
      BY <3>1
    <3> QED BY <2>4, <2>7, <3>2, EmitCells
  <2>8. CASE n.kind = "STRING"
    BY <2>3, <2>4, <2>8, StringCells
  <2> QED BY <2>3, <2>5, <2>6, <2>7, <2>8 DEF Kinds
<1> QED BY <1>1, <1>2

(* What a node is translated to, one node down.                          *)
LEMMA TranslatedUnfolds ==
  \A h \in 0..MaxHeight : \A n \in Trees[h], v \in Statics :
    Translated[h][n][v] = TranslateNode(Begun(v), n, IF h = 0 THEN << >> ELSE Translated[h - 1])
<1> DEFINE B(g, h) == [n \in Trees[h] |-> [v \in Statics |->
                         TranslateNode(Begun(v), n, IF h = 0 THEN << >> ELSE g[h - 1])]]
           Made == {k \in Nat : \E g : g = [h \in 0..k |-> B(g, h)]}
<1>0. Translated = CHOOSE g : g = [h \in 0..MaxHeight |-> B(g, h)]
  BY DEF Translated
<1> HIDE DEF B
<1>1. 0 \in Made
  <2> DEFINE g == [h \in 0..0 |-> B(<< >>, h)]
  <2>1. \A h \in 0..0 : B(<< >>, h) = B(g, h)
    <3>1. B(<< >>, 0) = B(g, 0)
      BY DEF B
    <3> HIDE DEF g
    <3> QED BY <3>1
  <2>2. g = [h \in 0..0 |-> B(g, h)]
    BY <2>1
  <2>3. \E f : f = [h \in 0..0 |-> B(f, h)]
    <3> HIDE DEF g
    <3> QED BY <2>2
  <2> QED BY <2>3
<1>2. \A k \in Nat : k \in Made => k + 1 \in Made
  <2> SUFFICES ASSUME NEW k \in Nat, k \in Made PROVE k + 1 \in Made
    OBVIOUS
  <2>1. PICK g : g = [h \in 0..k |-> B(g, h)]
    OBVIOUS
  <2> DEFINE G == [h \in 0..k + 1 |-> B(g, h)]
  <2>2. \A h \in 0..k : G[h] = g[h]
    <3>1. \A h \in 0..k : h \in 0..k + 1
      OBVIOUS
    <3> QED BY <2>1, <3>1
  <2>3. \A h \in 0..k + 1 : B(g, h) = B(G, h)
    <3> SUFFICES ASSUME NEW h \in 0..k + 1 PROVE B(g, h) = B(G, h)
      OBVIOUS
    <3>1. h = 0 \/ h - 1 \in 0..k
      OBVIOUS
    <3>2. (IF h = 0 THEN << >> ELSE g[h - 1]) = (IF h = 0 THEN << >> ELSE G[h - 1])
      <4> HIDE DEF G
      <4> QED BY <2>2, <3>1
    <3> HIDE DEF G
    <3> QED BY <3>2 DEF B
  <2>4. G = [h \in 0..k + 1 |-> B(G, h)]
    BY <2>3
  <2>5. \E f : f = [h \in 0..k + 1 |-> B(f, h)]
    <3> HIDE DEF G
    <3> QED BY <2>4
  <2> QED BY <2>5
<1>3. MaxHeight \in Made
  <2> HIDE DEF Made
  <2> QED BY <1>1, <1>2, SetInduction, HeightAssumption
<1>4. Translated = [h \in 0..MaxHeight |-> B(Translated, h)]
  BY <1>0, <1>3
<1> SUFFICES ASSUME NEW h \in 0..MaxHeight, NEW n \in Trees[h], NEW v \in Statics
             PROVE  Translated[h][n][v] = TranslateNode(Begun(v), n, IF h = 0 THEN << >> ELSE Translated[h - 1])
  OBVIOUS
<1> DEFINE below == IF h = 0 THEN << >> ELSE Translated[h - 1]
<1>5. Translated[h] = B(Translated, h)
  BY <1>4
<1>6. B(Translated, h) = [m \in Trees[h] |-> [u \in Statics |-> TranslateNode(Begun(u), m, below)]]
  BY DEF B
<1> HIDE DEF below
<1>7. Translated[h][n] = [u \in Statics |-> TranslateNode(Begun(u), n, below)]
  BY <1>5, <1>6
<1>8. Translated[h][n][v] = TranslateNode(Begun(v), n, below)
  BY <1>7
<1> QED BY <1>8 DEF below

(* A tree below the strings is translated into stores apart.               *)
LEMMA TreeCells == Writes(Translated[MaxHeight], MaxHeight)
<1> DEFINE Apart(h) == Writes(Translated[h], h)
           S == {h \in Nat : h <= MaxHeight => Apart(h)}
<1>1. ASSUME NEW h \in 0..MaxHeight, h # 0 => Apart(h - 1) PROVE Apart(h)
  <2> SUFFICES ASSUME NEW n \in LowTrees(h), NEW v \in Statics PROVE Cells(Translated[h][n][v], v)
    BY DEF Writes, WellWritten
  <2> DEFINE below == IF h = 0 THEN << >> ELSE Translated[h - 1]
             s == Begun(v)
  <2>1. Translated[h][n][v] = TranslateNode(s, n, below)
    BY TranslatedUnfolds DEF LowTrees
  <2>2. h # 0 => Writes(below, h - 1)
    BY <1>1
  <2>3. Cells(s, v)
    BY BegunCells
  <2> HIDE DEF below, s
  <2>4. Cells(TranslateNode(s, n, below), v)
    BY <2>2, <2>3, TranslateCells
  <2> QED BY <2>1, <2>4
<1> HIDE DEF Apart
<1>2. 0 \in S
  BY <1>1, HeightAssumption
<1>3. \A h \in Nat : h \in S => h + 1 \in S
  <2> SUFFICES ASSUME NEW h \in Nat, h \in S, h + 1 <= MaxHeight PROVE Apart(h + 1)
    OBVIOUS
  <2>1. h + 1 \in 0..MaxHeight /\ (h + 1) - 1 = h /\ h <= MaxHeight
    BY HeightAssumption
  <2> QED BY <1>1, <2>1
<1>4. MaxHeight \in S
  <2> HIDE DEF S
  <2> QED BY <1>2, <1>3, SetInduction, HeightAssumption
<1> QED BY <1>4, HeightAssumption DEF Apart

(* ... behind what is written already, too.                                *)
LEMMA BehindCells ==
  ASSUME NEW h \in 0..MaxHeight, NEW n \in LowTrees(h), NEW v \in Statics, NEW s, Cells(s, v)
  PROVE  Cells(translate_node(s, n), v)
<1>1. n \in LowTrees(MaxHeight)
  <2>1. MaxHeight \in 0..MaxHeight /\ h <= MaxHeight
    BY HeightAssumption
  <2> QED BY <2>1, TreesMonotone DEF LowTrees
<1>2. WellWritten(Translated[MaxHeight], n)
  BY <1>1, TreeCells DEF Writes
<1> QED BY <1>2, VisitCells DEF translate_node


(* The definitions of functions, one node down.                          *)
LEMMA FunctionsUnfolds ==
  \A h \in 0..MaxHeight : \A n \in Trees[h], v \in Statics :
    FunctionsTranslated[h][n][v] = TranslateFunctions(Begun(v), n, IF h = 0 THEN << >> ELSE FunctionsTranslated[h - 1])
<1> DEFINE B(g, h) == [n \in Trees[h] |-> [v \in Statics |->
                         TranslateFunctions(Begun(v), n, IF h = 0 THEN << >> ELSE g[h - 1])]]
           Made == {k \in Nat : \E g : g = [h \in 0..k |-> B(g, h)]}
<1>0. FunctionsTranslated = CHOOSE g : g = [h \in 0..MaxHeight |-> B(g, h)]
  BY DEF FunctionsTranslated
<1> HIDE DEF B
<1>1. 0 \in Made
  <2> DEFINE g == [h \in 0..0 |-> B(<< >>, h)]
  <2>1. \A h \in 0..0 : B(<< >>, h) = B(g, h)
    <3>1. B(<< >>, 0) = B(g, 0)
      BY DEF B
    <3> HIDE DEF g
    <3> QED BY <3>1
  <2>2. g = [h \in 0..0 |-> B(g, h)]
    BY <2>1
  <2>3. \E f : f = [h \in 0..0 |-> B(f, h)]
    <3> HIDE DEF g
    <3> QED BY <2>2
  <2> QED BY <2>3
<1>2. \A k \in Nat : k \in Made => k + 1 \in Made
  <2> SUFFICES ASSUME NEW k \in Nat, k \in Made PROVE k + 1 \in Made
    OBVIOUS
  <2>1. PICK g : g = [h \in 0..k |-> B(g, h)]
    OBVIOUS
  <2> DEFINE G == [h \in 0..k + 1 |-> B(g, h)]
  <2>2. \A h \in 0..k : G[h] = g[h]
    <3>1. \A h \in 0..k : h \in 0..k + 1
      OBVIOUS
    <3> QED BY <2>1, <3>1
  <2>3. \A h \in 0..k + 1 : B(g, h) = B(G, h)
    <3> SUFFICES ASSUME NEW h \in 0..k + 1 PROVE B(g, h) = B(G, h)
      OBVIOUS
    <3>1. h = 0 \/ h - 1 \in 0..k
      OBVIOUS
    <3>2. (IF h = 0 THEN << >> ELSE g[h - 1]) = (IF h = 0 THEN << >> ELSE G[h - 1])
      <4> HIDE DEF G
      <4> QED BY <2>2, <3>1
    <3> HIDE DEF G
    <3> QED BY <3>2 DEF B
  <2>4. G = [h \in 0..k + 1 |-> B(G, h)]
    BY <2>3
  <2>5. \E f : f = [h \in 0..k + 1 |-> B(f, h)]
    <3> HIDE DEF G
    <3> QED BY <2>4
  <2> QED BY <2>5
<1>3. MaxHeight \in Made
  <2> HIDE DEF Made
  <2> QED BY <1>1, <1>2, SetInduction, HeightAssumption
<1>4. FunctionsTranslated = [h \in 0..MaxHeight |-> B(FunctionsTranslated, h)]
  BY <1>0, <1>3
<1> SUFFICES ASSUME NEW h \in 0..MaxHeight, NEW n \in Trees[h], NEW v \in Statics
             PROVE  FunctionsTranslated[h][n][v] =
                      TranslateFunctions(Begun(v), n, IF h = 0 THEN << >> ELSE FunctionsTranslated[h - 1])
  OBVIOUS
<1> DEFINE below == IF h = 0 THEN << >> ELSE FunctionsTranslated[h - 1]
<1>5. FunctionsTranslated[h] = B(FunctionsTranslated, h)
  BY <1>4
<1>6. B(FunctionsTranslated, h) = [m \in Trees[h] |-> [u \in Statics |-> TranslateFunctions(Begun(u), m, below)]]
  BY DEF B
<1> HIDE DEF below
<1>7. FunctionsTranslated[h][n] = [u \in Statics |-> TranslateFunctions(Begun(u), n, below)]
  BY <1>5, <1>6
<1>8. FunctionsTranslated[h][n][v] = TranslateFunctions(Begun(v), n, below)
  BY <1>7
<1> QED BY <1>8 DEF below


(* Everything else, one node down.                                       *)
LEMMA MainUnfolds ==
  \A h \in 0..MaxHeight : \A n \in Trees[h], v \in Statics :
    MainTranslated[h][n][v] = TranslateMain(Begun(v), n, IF h = 0 THEN << >> ELSE MainTranslated[h - 1])
<1> DEFINE B(g, h) == [n \in Trees[h] |-> [v \in Statics |->
                         TranslateMain(Begun(v), n, IF h = 0 THEN << >> ELSE g[h - 1])]]
           Made == {k \in Nat : \E g : g = [h \in 0..k |-> B(g, h)]}
<1>0. MainTranslated = CHOOSE g : g = [h \in 0..MaxHeight |-> B(g, h)]
  BY DEF MainTranslated
<1> HIDE DEF B
<1>1. 0 \in Made
  <2> DEFINE g == [h \in 0..0 |-> B(<< >>, h)]
  <2>1. \A h \in 0..0 : B(<< >>, h) = B(g, h)
    <3>1. B(<< >>, 0) = B(g, 0)
      BY DEF B
    <3> HIDE DEF g
    <3> QED BY <3>1
  <2>2. g = [h \in 0..0 |-> B(g, h)]
    BY <2>1
  <2>3. \E f : f = [h \in 0..0 |-> B(f, h)]
    <3> HIDE DEF g
    <3> QED BY <2>2
  <2> QED BY <2>3
<1>2. \A k \in Nat : k \in Made => k + 1 \in Made
  <2> SUFFICES ASSUME NEW k \in Nat, k \in Made PROVE k + 1 \in Made
    OBVIOUS
  <2>1. PICK g : g = [h \in 0..k |-> B(g, h)]
    OBVIOUS
  <2> DEFINE G == [h \in 0..k + 1 |-> B(g, h)]
  <2>2. \A h \in 0..k : G[h] = g[h]
    <3>1. \A h \in 0..k : h \in 0..k + 1
      OBVIOUS
    <3> QED BY <2>1, <3>1
  <2>3. \A h \in 0..k + 1 : B(g, h) = B(G, h)
    <3> SUFFICES ASSUME NEW h \in 0..k + 1 PROVE B(g, h) = B(G, h)
      OBVIOUS
    <3>1. h = 0 \/ h - 1 \in 0..k
      OBVIOUS
    <3>2. (IF h = 0 THEN << >> ELSE g[h - 1]) = (IF h = 0 THEN << >> ELSE G[h - 1])
      <4> HIDE DEF G
      <4> QED BY <2>2, <3>1
    <3> HIDE DEF G
    <3> QED BY <3>2 DEF B
  <2>4. G = [h \in 0..k + 1 |-> B(G, h)]
    BY <2>3
  <2>5. \E f : f = [h \in 0..k + 1 |-> B(f, h)]
    <3> HIDE DEF G
    <3> QED BY <2>4
  <2> QED BY <2>5
<1>3. MaxHeight \in Made
  <2> HIDE DEF Made
  <2> QED BY <1>1, <1>2, SetInduction, HeightAssumption
<1>4. MainTranslated = [h \in 0..MaxHeight |-> B(MainTranslated, h)]
  BY <1>0, <1>3
<1> SUFFICES ASSUME NEW h \in 0..MaxHeight, NEW n \in Trees[h], NEW v \in Statics
             PROVE  MainTranslated[h][n][v] = TranslateMain(Begun(v), n, IF h = 0 THEN << >> ELSE MainTranslated[h - 1])
  OBVIOUS
<1> DEFINE below == IF h = 0 THEN << >> ELSE MainTranslated[h - 1]
<1>5. MainTranslated[h] = B(MainTranslated, h)
  BY <1>4
<1>6. B(MainTranslated, h) = [m \in Trees[h] |-> [u \in Statics |-> TranslateMain(Begun(u), m, below)]]
  BY DEF B
<1> HIDE DEF below
<1>7. MainTranslated[h][n] = [u \in Statics |-> TranslateMain(Begun(u), n, below)]
  BY <1>5, <1>6
<1>8. MainTranslated[h][n][v] = TranslateMain(Begun(v), n, below)
  BY <1>7
<1> QED BY <1>8 DEF below

(* The definitions of functions.                                           *)
LEMMA FunctionsCells == Writes(FunctionsTranslated[MaxHeight], MaxHeight)
<1> DEFINE Apart(h) == Writes(FunctionsTranslated[h], h)
           S == {h \in Nat : h <= MaxHeight => Apart(h)}
<1>1. ASSUME NEW h \in 0..MaxHeight, h # 0 => Apart(h - 1) PROVE Apart(h)
  <2> SUFFICES ASSUME NEW n \in LowTrees(h), NEW v \in Statics PROVE Cells(FunctionsTranslated[h][n][v], v)
    BY DEF Writes, WellWritten
  <2> DEFINE below == IF h = 0 THEN << >> ELSE FunctionsTranslated[h - 1]
             s == Begun(v)
  <2>1. FunctionsTranslated[h][n][v] = TranslateFunctions(s, n, below)
    BY FunctionsUnfolds DEF LowTrees
  <2>2. h # 0 => Writes(below, h - 1)
    BY <1>1
  <2>3. Cells(s, v)
    BY BegunCells
  <2> HIDE DEF below, s
  <2>4. ~ IsStatement(Nil, "func_def")
    BY DEF IsStatement, Nil
  <2>5. /\ n = Nil => TranslateFunctions(s, n, below) = s
        /\ IsStatement(n, "func_def") => TranslateFunctions(s, n, below) = translate_node(s, n)
        /\ n # Nil /\ ~ IsStatement(n, "func_def") =>
             TranslateFunctions(s, n, below) = Visit(Visit(s, below, n.left), below, n.right)
    BY <2>4 DEF TranslateFunctions
  <2>6. CASE n = Nil
    BY <2>1, <2>3, <2>5, <2>6
  <2>7. CASE IsStatement(n, "func_def")
    BY <2>1, <2>3, <2>5, <2>7, BehindCells
  <2>8. CASE n # Nil /\ ~ IsStatement(n, "func_def")
    <3>1. h # 0
      BY <2>8, TreesAt DEF LowTrees
    <3>2. WellWritten(below, n.left) /\ WellWritten(below, n.right)
      BY <2>2, <2>8, <3>1, LowNode DEF Writes
    <3> QED BY <2>1, <2>3, <2>5, <2>8, <3>2, VisitCells
  <2> QED BY <2>6, <2>7, <2>8
<1> HIDE DEF Apart
<1>2. 0 \in S
  BY <1>1, HeightAssumption
<1>3. \A h \in Nat : h \in S => h + 1 \in S
  <2> SUFFICES ASSUME NEW h \in Nat, h \in S, h + 1 <= MaxHeight PROVE Apart(h + 1)
    OBVIOUS
  <2>1. h + 1 \in 0..MaxHeight /\ (h + 1) - 1 = h /\ h <= MaxHeight
    BY HeightAssumption
  <2> QED BY <1>1, <2>1
<1>4. MaxHeight \in S
  <2> HIDE DEF S
  <2> QED BY <1>2, <1>3, SetInduction, HeightAssumption
<1> QED BY <1>4, HeightAssumption DEF Apart

(* Everything else.                                                        *)
LEMMA MainCells == Writes(MainTranslated[MaxHeight], MaxHeight)
<1> DEFINE Apart(h) == Writes(MainTranslated[h], h)
           S == {h \in Nat : h <= MaxHeight => Apart(h)}
<1>1. ASSUME NEW h \in 0..MaxHeight, h # 0 => Apart(h - 1) PROVE Apart(h)
  <2> SUFFICES ASSUME NEW n \in LowTrees(h), NEW v \in Statics PROVE Cells(MainTranslated[h][n][v], v)
    BY DEF Writes, WellWritten
  <2> DEFINE below == IF h = 0 THEN << >> ELSE MainTranslated[h - 1]
             s == Begun(v)
             Passed == IsStatement(n, "op_end") \/ IsStatement(n, "op_statement")
  <2>1. MainTranslated[h][n][v] = TranslateMain(s, n, below)
    BY MainUnfolds DEF LowTrees
  <2>2. h # 0 => Writes(below, h - 1)
    BY <1>1
  <2>3. Cells(s, v)
    BY BegunCells
  <2>4. /\ Passed => n # Nil /\ ~ IsStatement(n, "func_def")
        /\ n = Nil => ~ IsStatement(n, "func_def")
    BY DEF IsStatement, Nil
  <2> HIDE DEF below, s
  <2>5. /\ n = Nil \/ IsStatement(n, "func_def") => TranslateMain(s, n, below) = s
        /\ Passed => TranslateMain(s, n, below) = Visit(Visit(s, below, n.left), below, n.right)
        /\ ~ (n = Nil \/ IsStatement(n, "func_def")) /\ ~ Passed => TranslateMain(s, n, below) = translate_node(s, n)
    BY <2>4 DEF TranslateMain
  <2> HIDE DEF Passed
  <2>6. CASE n = Nil \/ IsStatement(n, "func_def")
    BY <2>1, <2>3, <2>5, <2>6
  <2>7. CASE Passed
    <3>1. h # 0
      BY <2>4, <2>7, TreesAt DEF LowTrees
    <3>2. WellWritten(below, n.left) /\ WellWritten(below, n.right)
      BY <2>2, <2>4, <2>7, <3>1, LowNode DEF Writes
    <3> QED BY <2>1, <2>3, <2>5, <2>7, <3>2, VisitCells
  <2>8. CASE ~ (n = Nil \/ IsStatement(n, "func_def")) /\ ~ Passed
    BY <2>1, <2>3, <2>5, <2>8, BehindCells
  <2> QED BY <2>6, <2>7, <2>8
<1> HIDE DEF Apart
<1>2. 0 \in S
  BY <1>1, HeightAssumption
<1>3. \A h \in Nat : h \in S => h + 1 \in S
  <2> SUFFICES ASSUME NEW h \in Nat, h \in S, h + 1 <= MaxHeight PROVE Apart(h + 1)
    OBVIOUS
  <2>1. h + 1 \in 0..MaxHeight /\ (h + 1) - 1 = h /\ h <= MaxHeight
    BY HeightAssumption
  <2> QED BY <1>1, <2>1
<1>4. MaxHeight \in S
  <2> HIDE DEF S
  <2> QED BY <1>2, <1>3, SetInduction, HeightAssumption
<1> QED BY <1>4, HeightAssumption DEF Apart

(* Whose identifiers lie below the strings, by one node.                   *)
LEMMA BelowStringsOf ==
  ASSUME NEW n \in Trees[MaxHeight], n # Nil, BelowStrings(n)
  PROVE  /\ n.kind = "IDENTIFIER" => n.idx < StringTop
         /\ BelowStrings(n.left) /\ BelowStrings(n.right)
<1>1. Identifiers(n) = Here(n.kind = "IDENTIFIER") \union Down("left", Identifiers(n.left))
                                                   \union Down("right", Identifiers(n.right))
  BY IdentifiersOf
<1>2. Identifiers(n.left) \subseteq Seq(Sides) /\ Identifiers(n.right) \subseteq Seq(Sides)
  BY ChildrenAreTrees, PathsType DEF Identifiers
<1>3. << >> \in Seq(Sides)
  OBVIOUS
<1>4. At(n, << >>) = n
  BY <1>3, AtSides
<1>5. /\ \A p \in Identifiers(n.left) : At(n, <<"left">> \o p) = At(n.left, p) /\ <<"left">> \o p \in Identifiers(n)
      /\ \A p \in Identifiers(n.right) : At(n, <<"right">> \o p) = At(n.right, p) /\ <<"right">> \o p \in Identifiers(n)
  BY <1>1, <1>2, AtSides DEF Down
<1>6. n.kind = "IDENTIFIER" => << >> \in Identifiers(n)
  BY <1>1 DEF Here
<1> QED BY <1>4, <1>5, <1>6 DEF BelowStrings

(* A number of six digits is a number.                                     *)
LEMMA SixDigitsType == \A n \in Int : SixDigits(n) \in Int
<1> SUFFICES ASSUME NEW n \in Int PROVE SixDigits(n) \in Int
  OBVIOUS
<1> DEFINE k == IF n < 10^7 THEN 10 ELSE IF n < 10^8 THEN 100 ELSE IF n < 10^9 THEN 1000 ELSE 10000
           q == n \div k
           m == IF 2 * (n % k) > k \/ (2 * (n % k) = k /\ q % 2 = 1) THEN q + 1 ELSE q
<1>1. SixDigits(n) = IF n < 10^6 THEN n ELSE k * m
  BY DEF SixDigits
<1>2. k \in {10, 100, 1000, 10000}
  OBVIOUS
<1> HIDE DEF k
<1>3. q \in Int
  BY <1>2
<1>4. m \in {q, q + 1}
  OBVIOUS
<1> HIDE DEF q, m
<1>5. m \in Int /\ k \in Int
  BY <1>2, <1>3, <1>4
<1>6. k * m \in Int
  BY <1>5
<1> QED BY <1>1, <1>6

(* A node in the file.                                                     *)
LEMMA ShortenedNode ==
  ASSUME NEW trees, NEW t \in NodesOver(trees), NEW a \in trees, NEW b \in trees,
         NEW o, o = Over(Shortened(t), a, b)
  PROVE  /\ o \in NodesOver(trees) /\ o # Nil
         /\ o.kind = t.kind /\ o.what = t.what /\ o.name = t.name /\ o.chars = t.chars
         /\ o.left = a /\ o.right = b
         /\ o.idx = IF t.kind = "IDENTIFIER" THEN t.idx ELSE 0
<1> DEFINE i == IF t.kind = "IDENTIFIER" THEN t.idx ELSE 0
           s == SixDigits(t.num)
           l == [t EXCEPT !.num = s]
           m == [l EXCEPT !.idx = i]
           p == [m EXCEPT !.left = a]
<1>1. t = [kind |-> t.kind, what |-> t.what, name |-> t.name, idx |-> t.idx, num |-> t.num,
           chars |-> t.chars, left |-> t.left, right |-> t.right]
      /\ t.kind \in Kinds /\ t.what \in STRING /\ t.name \in STRING /\ t.idx \in Int /\ t.num \in Int
      /\ t.chars \in Seq(Int)
  BY DEF NodesOver
<1>2. o = [p EXCEPT !.right = b]
  BY Zenon DEF Over, Shortened
<1>3. i \in Int /\ s \in Int
  BY <1>1, SixDigitsType
<1>0. i = IF t.kind = "IDENTIFIER" THEN t.idx ELSE 0
  OBVIOUS
<1> HIDE DEF i, s
<1>9. l = [kind |-> t.kind, what |-> t.what, name |-> t.name, idx |-> t.idx, num |-> s,
           chars |-> t.chars, left |-> t.left, right |-> t.right]
  BY <1>1
<1> HIDE DEF l
<1>4. m = [kind |-> t.kind, what |-> t.what, name |-> t.name, idx |-> i, num |-> s,
           chars |-> t.chars, left |-> t.left, right |-> t.right]
  BY <1>9
<1> HIDE DEF m
<1>10. p = [kind |-> t.kind, what |-> t.what, name |-> t.name, idx |-> i, num |-> s,
           chars |-> t.chars, left |-> a, right |-> t.right]
  BY <1>4
<1> HIDE DEF p
<1>5. o = [kind |-> t.kind, what |-> t.what, name |-> t.name, idx |-> i, num |-> s,
           chars |-> t.chars, left |-> a, right |-> b]
  BY <1>2, <1>10
<1>6. o \in NodesOver(trees)
  BY <1>1, <1>3, <1>5 DEF NodesOver
<1>7. o # Nil
  BY <1>6, NodeNotNil
<1>8. /\ o.kind = t.kind /\ o.what = t.what /\ o.name = t.name /\ o.chars = t.chars
      /\ o.left = a /\ o.right = b /\ o.idx = i
  BY <1>5
<1> QED BY <1>0, <1>2, <1>6, <1>7, <1>8

(* What the next stage gets of a tree.                                     *)
Arrives(t, h) ==
  /\ LeftFirst(t) \in Trees[h] /\ (LeftFirst(t) = Nil <=> t = Nil)
  /\ AllReadable(t) => AllReadable(LeftFirst(t))
  /\ BelowStrings(t) => Low(LeftFirst(t))

(* One with the same properties.                                           *)
LEMMA LeftFirstKeeps == \A t \in Trees[MaxHeight] : Arrives(t, MaxHeight)
<1> DEFINE Laid(h) == \A t \in Trees[h] : Arrives(t, h)
           S == {h \in Nat : h <= MaxHeight => Laid(h)}
<1>1. ASSUME NEW h \in 0..MaxHeight, h # 0 => Laid(h - 1) PROVE Laid(h)
  <2> SUFFICES ASSUME NEW t \in Trees[h] PROVE Arrives(t, h)
    OBVIOUS
  <2> DEFINE a == IF t.left = Nil THEN LeftFirst(t.right) ELSE LeftFirst(t.left)
             b == IF t.left = Nil THEN Nil ELSE LeftFirst(t.right)
             o == Over(Shortened(t), a, b)
             m == LeftFirst(t)
  <2>1. MaxHeight \in 0..MaxHeight /\ h <= MaxHeight
    BY HeightAssumption
  <2>2. t \in Trees[MaxHeight] /\ Nil \in Trees[MaxHeight] /\ Nil \in Trees[h]
    BY <2>1, TreesMonotone, NilIsTree
  <2>3. CASE t = Nil
    <3>1. m = Nil
      BY <2>2, <2>3, LeftFirstUnfolds
    <3>2. Low(Nil)
      BY NothingInNil DEF Low
    <3> QED BY <2>2, <2>3, <3>1, <3>2 DEF Arrives
  <2>4. CASE t # Nil
    <3>1. /\ h - 1 \in 0..MaxHeight /\ t \in NodesOver(Trees[h - 1])
          /\ t.left \in Trees[h - 1] /\ t.right \in Trees[h - 1]
      BY <2>4, ChildrenSmaller
    <3>2. h # 0 /\ h \in 1..MaxHeight
      BY <2>1, <2>4, TreesAt
    <3>3. Arrives(t.left, h - 1) /\ Arrives(t.right, h - 1) /\ Nil \in Trees[h - 1]
      BY <1>1, <3>1, <3>2, NilIsTree
    <3>4. a \in Trees[h - 1] /\ b \in Trees[h - 1]
      BY <3>3 DEF Arrives
    <3>5. m = o
      BY <2>2, <2>4, LeftFirstUnfolds
    <3>6. AllReadable(Nil) /\ Low(Nil)
      BY <2>2, NothingInNil, ReadableUnfolds DEF Low
    <3>7. AllReadable(t.left) /\ AllReadable(t.right) => AllReadable(a) /\ AllReadable(b)
      BY <3>3, <3>6 DEF Arrives
    <3>8. BelowStrings(t.left) /\ BelowStrings(t.right) => Low(a) /\ Low(b)
      BY <3>3, <3>6 DEF Arrives
    <3>9. (t.left = Nil <=> t.right # Nil) => (a = Nil <=> b # Nil)
      BY <3>3 DEF Arrives
    <3> HIDE DEF a, b, m
    <3>14. o = Over(Shortened(t), a, b)
      OBVIOUS
    <3> HIDE DEF o
    <3>10. /\ o \in NodesOver(Trees[h - 1]) /\ o # Nil
           /\ o.kind = t.kind /\ o.what = t.what /\ o.name = t.name /\ o.chars = t.chars
           /\ o.left = a /\ o.right = b
           /\ o.idx = IF t.kind = "IDENTIFIER" THEN t.idx ELSE 0
      <4> DEFINE trees == Trees[h - 1]
      <4>1. t \in NodesOver(trees) /\ a \in trees /\ b \in trees
        BY <3>1, <3>4
      <4> HIDE DEF trees
      <4>2. /\ o \in NodesOver(trees) /\ o # Nil
            /\ o.kind = t.kind /\ o.what = t.what /\ o.name = t.name /\ o.chars = t.chars
            /\ o.left = a /\ o.right = b
            /\ o.idx = IF t.kind = "IDENTIFIER" THEN t.idx ELSE 0
        BY <3>14, <4>1, ShortenedNode
      <4> QED BY <4>2 DEF trees
    <3>11. o \in Trees[h] /\ o \in Trees[MaxHeight]
      BY <3>2, <3>10, NodeIsTree
    <3>12. ASSUME AllReadable(t) PROVE AllReadable(o)
      <4>1. Readable(t) /\ AllReadable(t.left) /\ AllReadable(t.right)
        BY <2>2, <2>4, <3>12, ReadableUnfolds
      <4>2. Readable(o)
        <5>1. o.kind = "IDENTIFIER" => o.name \notin {"func_call", "func_def"} /\ o.idx >= 0
          BY <3>10, <4>1 DEF Readable
        <5>2. \A i \in 1..Len(o.chars) : o.chars[i] \notin DOMAIN Breaks
          BY <3>10, <4>1 DEF Readable
        <5>3. IsUnary(o) => (o.left = Nil <=> o.right # Nil)
          BY <3>9, <3>10, <4>1 DEF Readable, IsUnary
        <5> QED BY <5>1, <5>2, <5>3 DEF Readable
      <4> QED BY <3>7, <3>10, <3>11, <4>1, <4>2, ReadableUnfolds
    <3>13. ASSUME BelowStrings(t) PROVE Low(o)
      <4>1. /\ t.kind = "IDENTIFIER" => t.idx < StringTop
            /\ BelowStrings(t.left) /\ BelowStrings(t.right)
        BY <2>2, <2>4, <3>13, BelowStringsOf
      <4>2. o.idx < StringTop
        BY <3>10, <4>1, StringTopAssumption
      <4> QED BY <3>8, <3>10, <3>11, <4>1, <4>2, LowOf
    <3> QED BY <2>4, <3>5, <3>10, <3>11, <3>12, <3>13 DEF Arrives, m
  <2> QED BY <2>3, <2>4
<1> HIDE DEF Laid
<1>2. 0 \in S
  BY <1>1, HeightAssumption
<1>3. \A h \in Nat : h \in S => h + 1 \in S
  <2> SUFFICES ASSUME NEW h \in Nat, h \in S, h + 1 <= MaxHeight PROVE Laid(h + 1)
    OBVIOUS
  <2>1. h + 1 \in 0..MaxHeight /\ (h + 1) - 1 = h /\ h <= MaxHeight
    BY HeightAssumption
  <2> QED BY <1>1, <2>1
<1>4. MaxHeight \in S
  <2> HIDE DEF S
  <2> QED BY <1>2, <1>3, SetInduction, HeightAssumption
<1> QED BY <1>4, HeightAssumption DEF Laid

(* The whole text.                                                         *)
LEMMA TextCells ==
  ASSUME NEW root \in LowTrees(MaxHeight)
  PROVE  LET t == translate_to_asm(root).text
         IN  \A i, j \in 1..Len(t) : IsStringStore(t[i]) /\ t[i] = t[j] => i = j
<1> DEFINE v == [ifs |-> 0, whiles |-> 0, cmps |-> 0, pows |-> 0, string_top |-> StringTop]
           a == Emit(Begin, <<To("JMP", "MAIN")>>)
           b == translate_functions(a, root)
           c == Emit(b, <<Label("MAIN")>>)
           d == translate_main(c, root)
           e == Emit(d, <<Op("HLT")>>)
<1>1. translate_to_asm(root) = e
  BY DEF translate_to_asm
<1>2. v \in Statics /\ Begin = Begun(v)
  BY StringTopAssumption DEF Statics, Begin
<1> HIDE DEF v
<1>3. To("JMP", "MAIN") \in PlainLines /\ Label("MAIN") \in PlainLines /\ Op("HLT") \in PlainLines
  BY CommandsPlain DEF AsmNames, AsmOps
<1>4. /\ <<To("JMP", "MAIN")>> \in Seq(PlainLines) /\ <<Label("MAIN")>> \in Seq(PlainLines)
      /\ <<Op("HLT")>> \in Seq(PlainLines)
  BY <1>3
<1>5. WellWritten(FunctionsTranslated[MaxHeight], root) /\ WellWritten(MainTranslated[MaxHeight], root)
  BY FunctionsCells, MainCells DEF Writes
<1>6. Cells(a, v)
  BY <1>2, <1>4, BegunCells, EmitCells
<1> HIDE DEF a
<1>7. Cells(b, v)
  BY <1>2, <1>5, <1>6, VisitCells DEF translate_functions
<1> HIDE DEF b
<1>8. Cells(c, v)
  BY <1>2, <1>4, <1>7, EmitCells
<1> HIDE DEF c
<1>9. Cells(d, v)
  BY <1>2, <1>5, <1>8, VisitCells DEF translate_main
<1> HIDE DEF d
<1>10. Cells(e, v)
  BY <1>2, <1>4, <1>9, EmitCells
<1> HIDE DEF e
<1> QED BY <1>1, <1>10 DEF Cells, StoresApart

(* For every program the frontend accepts, of any height, whose variables  *)
(* lie below the strings: no two stores of the characters of string        *)
(* literals (emit_strings, translate_to_asm.cpp:520-536) go to one cell.   *)
THEOREM StringsApart ==
  ASSUME Accepted(parsed) => parsed.node \in Trees[MaxHeight] /\ IsProgram(parsed.node),
         analysed = Analysis(parsed), loaded = Middleend(analysed), translation = Backend(loaded)
  PROVE  StringCellsApart
<1> SUFFICES ASSUME analysed.ok, AllReadable(analysed.node), BelowStrings(analysed.node)
             PROVE  \A i, j \in 1..Len(translation.text) :
                      IsStringStore(translation.text[i]) /\ translation.text[i] = translation.text[j] => i = j
  BY DEF StringCellsApart
<1> DEFINE t == analysed.node
           m == LeftFirst(t)
           r == LeftFirst(m)
<1>1. Accepted(parsed)
  BY DEF Analysis, Bad
<1>2. t \in Trees[MaxHeight]
  <2>1. analysed = semantic_analysis(parsed.node)
    BY <1>1 DEF Analysis
  <2> QED BY <1>1, <2>1, ProgramAnalysed
<1>3. loaded = m
  BY MiddleendGetsTheProgram DEF FileKeepsTree
<1>4. CASE m = Nil
  <2>1. translation = Begin
    BY <1>3, <1>4 DEF Backend
  <2>2. translation.text = << >>
    BY <2>1 DEF Begin, Begun
  <2> QED BY <2>2
<1>5. CASE m # Nil
  <2>1. Arrives(t, MaxHeight)
    BY <1>2, LeftFirstKeeps
  <2>2. m \in Trees[MaxHeight] /\ AllReadable(m) /\ Low(m)
    BY <2>1 DEF Arrives
  <2>3. BelowStrings(m)
    BY <2>2 DEF Low, BelowStrings, Identifiers
  <2> HIDE DEF m
  <2>4. Arrives(m, MaxHeight)
    BY <2>2, LeftFirstKeeps
  <2>5. r \in LowTrees(MaxHeight)
    BY <2>2, <2>3, <2>4 DEF Arrives, LowTrees
  <2>6. Load(Save(m)) = r
    BY <1>5, <2>2, FileKeepsTrees
  <2>7. translation = translate_to_asm(r)
    BY <1>3, <1>5, <2>6 DEF Backend
  <2> QED BY <2>5, <2>7, TextCells
<1> QED BY <1>4, <1>5
=============================================================================
