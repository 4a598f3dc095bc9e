-------------------------- MODULE AssemblerProofs --------------------------
(***************************************************************************)
(* Proofs about Assembler for every text, every table and buffer size: the *)
(* two passes count alike, so that every label operand is the address of a *)
(* command, and the buffer is only left by a text that does not fit it.    *)
(***************************************************************************)
EXTENDS Assembler, SequenceTheorems, TLAPS

LineWidth(l) == IF IsCommand(l) THEN Width(l.op) ELSE 0

(* The first pass leaves no text with an unknown command to the second.    *)
NoUnknown ==
  /\ pass = "first" /\ errors = {} =>
       \A i \in 1..line - 1 : IsCommand(text[i]) => text[i].op # "unknown"
  /\ pass = "second" => \A i \in 1..Len(text) : IsCommand(text[i]) => text[i].op # "unknown"

(* The marks are the sums of the widths of the lines before them.          *)
Marks ==
  /\ Len(mark) \in 1..Len(text) + 1
  /\ mark[1] = 0
  /\ \A i \in 1..Len(mark) - 1 : mark[i + 1] = mark[i] + LineWidth(text[i])
  /\ \A i \in 1..Len(mark) : \A j \in i..Len(mark) : mark[i] <= mark[j]
  /\ pass = "first" => Len(mark) = line /\ ip = mark[line]
  /\ pass \in {"second", "write", "done", "overrun"} => Len(mark) = Len(text) + 1

(* A mark is the current end or the place of a command.                    *)
Covered ==
  \A i \in 1..Len(mark) :
    \/ mark[i] = mark[Len(mark)]
    \/ \E j \in 1..Len(mark) - 1 : IsCommand(text[j]) /\ mark[j] = mark[i]

(* A table entry is the first definition of its name, at that line's mark;
   a definition that is missing was met when the table was full.           *)
Table ==
  /\ \A k \in 1..Len(labels) : \E d \in 1..Len(text) :
       /\ FirstDefinition(labels[k].name, d)
       /\ d \in 1..Len(mark)
       /\ labels[k].ip = mark[d]
  /\ pass = "first" => \A i \in 1..line - 1 :
       text[i].kind = "label" => Known(text[i].name) \/ Len(labels) >= MaxLabels

(* The word w is what the name n stands for: the number or the register it
   is read as, or the place of the first definition of the label.          *)
StandsFor(n, w) ==
  IF n \in DOMAIN ReadAs THEN w = ReadAs[n]
  ELSE \E d \in 1..Len(text) : FirstDefinition(n, d) /\ w = mark[d]

(* The words of line i stand at its mark.                                  *)
Placed(i) ==
  IsCommand(text[i]) =>
    /\ code[mark[i] + 1] = Opcode(text[i].op)
    /\ IsName(text[i].arg) => StandsFor(text[i].arg.v, code[mark[i] + 2])

Words ==
  WellFormedText =>
    /\ pass = "second" => /\ Len(code) = mark[line] /\ ip = mark[line]
                          /\ \A i \in 1..line - 1 : Placed(i)
    /\ Assembled => /\ Len(code) = mark[Len(text) + 1]
                    /\ \A i \in 1..Len(text) : Placed(i)
    /\ pass = "overrun" => mark[Len(text) + 1] > MaxCode

IInv == TypeOK /\ NoUnknown /\ Marks /\ Covered /\ Table /\ Words

-----------------------------------------------------------------------------
(* A command takes one word or two. *)
LEMMA WidthType == \A m : Width(m) \in {1, 2}
  BY DEF Width

(* The opcode of a mnemonic is its place in the table. *)
LEMMA OpcodeType == \A m \in Mnemonics : Opcode(m) \in 0..29
  <1> SUFFICES ASSUME NEW m \in Mnemonics PROVE Opcode(m) \in 0..29
    OBVIOUS
  <1>1. PICK i \in 1..30 : Commands[i] = m
    BY DEF Mnemonics
  <1>2. (CHOOSE j \in 1..30 : Commands[j] = m) \in 1..30
    BY <1>1
  <1> QED BY <1>2 DEF Opcode

(* find_label returns an address the table holds for that name.            *)
LEMMA AddressIsEntry ==
  ASSUME NEW n, Known(n)
  PROVE  \E k \in 1..Len(labels) : labels[k].name = n /\ Address(n) = labels[k].ip
  BY DEF Known, Address

(* Every step keeps the types (the code, the labels and the counters). *)
LEMMA TypeStep == TypeOK /\ NoUnknown /\ [Next]_vars => TypeOK'
<1> SUFFICES ASSUME TypeOK, NoUnknown, [Next]_vars PROVE TypeOK'
  OBVIOUS
<1>1. CASE FirstPassBlank
  BY <1>1 DEF TypeOK, FirstPassBlank, FirstPassLine, Reading
<1>2. CASE FirstPassLabel
  <2>1. text[line] \in Line /\ text[line].kind = "label"
    BY <1>2 DEF TypeOK, FirstPassLabel, Reading
  <2>2. text[line].name \in Name
    BY <2>1 DEF Line
  <2>3. [name |-> text[line].name, ip |-> ip] \in [name : Name, ip : Nat]
    BY <2>2 DEF TypeOK
  <2>4. Append(labels, [name |-> text[line].name, ip |-> ip]) \in Seq([name : Name, ip : Nat])
    BY <2>3, AppendProperties DEF TypeOK
  <2>5. labels' \in Seq([name : Name, ip : Nat])
    BY <1>2, <2>4 DEF TypeOK, FirstPassLabel, FirstPassLine
  <2>6. mark' \in Seq(Nat) /\ ip' \in Nat
    <3>1. mark' = Append(mark, ip + 0) /\ ip' = ip + 0
      BY <1>2 DEF FirstPassLabel, FirstPassLine
    <3>2. ip + 0 \in Nat /\ mark \in Seq(Nat)
      BY DEF TypeOK
    <3> QED BY <3>1, <3>2, AppendProperties
  <2>7. /\ line' = line + 1 /\ line' \in 1..Len(text) + 1 /\ errors' = errors
        /\ UNCHANGED <<text, pass, code, file>>
    BY <1>2 DEF TypeOK, FirstPassLabel, FirstPassLine, Reading
  <2> QED BY <2>5, <2>6, <2>7 DEF TypeOK
<1>3. CASE FirstPassCommand
  <2> DEFINE w == Width(text[line].op)
  <2>1. w \in Nat
    BY WidthType
  <2>2. /\ line' = line + 1 /\ ip' = ip + w /\ mark' = Append(mark, ip + w)
        /\ errors' \subseteq errors \union {"UNKNOWN_COMMAND"}
        /\ UNCHANGED <<text, pass, code, file, labels>> /\ line <= Len(text)
    BY <1>3 DEF FirstPassCommand, FirstPassLine, Reading
  <2> HIDE DEF w
  <2>3. ip + w \in Nat /\ mark \in Seq(Nat)
    BY <2>1 DEF TypeOK
  <2>4. ip' \in Nat /\ mark' \in Seq(Nat)
    BY <2>2, <2>3, AppendProperties
  <2>5. line' \in 1..Len(text') + 1
    BY <2>2 DEF TypeOK
  <2> QED BY <2>2, <2>4, <2>5 DEF TypeOK
<1>4. CASE FirstPassEnd
  BY <1>4 DEF TypeOK, FirstPassEnd, AtEnd
<1>5. CASE SecondPassSkip
  BY <1>5 DEF TypeOK, SecondPassSkip, Reading
<1>6. ASSUME Reading("second"), IsCommand(text[line])
      PROVE  Opcode(text[line].op) \in Int /\ Width(text[line].op) \in Nat
  <2>1. text[line] \in Line /\ text[line].kind = "command" /\ text[line].op # "unknown"
    BY <1>6 DEF TypeOK, Reading, IsCommand, NoUnknown
  <2>2. text[line].op \in Mnemonics
    BY <2>1 DEF Line
  <2> QED BY <2>2, OpcodeType, WidthType
<1>7. CASE SecondPassCommand
  <2> DEFINE o == Opcode(text[line].op)
             w == Width(text[line].op)
  <2>1. o \in Int /\ w \in Nat
    BY <1>6, <1>7 DEF SecondPassCommand
  <2>2. /\ pass' \in {"second", "overrun"}
        /\ line' = line + 1 /\ line <= Len(text) /\ ip' = ip + w
        /\ code' = code \o <<o>>
        /\ UNCHANGED <<text, labels, errors, file, mark>>
    BY <1>7 DEF SecondPassCommand, Emit, Reading
  <2> HIDE DEF o, w
  <2>3. code \in Seq(Int) /\ <<o>> \in Seq(Int) /\ ip \in Nat
    BY <2>1 DEF TypeOK
  <2>4. code' \in Seq(Int) /\ ip' \in Nat
    BY <2>1, <2>2, <2>3, ConcatProperties
  <2>5. line' \in 1..Len(text') + 1
    BY <2>2 DEF TypeOK
  <2> QED BY <2>2, <2>4, <2>5 DEF TypeOK
<1>8. CASE SecondPassOperand
  <2>1. text[line] \in Line /\ text[line].kind = "command" /\ text[line].arg.t # "none"
    BY <1>8 DEF TypeOK, SecondPassOperand, Reading, IsCommand
  <2>2. text[line].arg \in Arg
    BY <2>1 DEF Line
  <2>5. ASSUME Word(text[line].arg) \in Int PROVE TypeOK'
    <3>1. <<Opcode(text[line].op), Word(text[line].arg)>> \in Seq(Int)
      BY <1>6, <1>8, <2>5 DEF SecondPassOperand
    <3>2. code \in Seq(Int)
      BY DEF TypeOK
    <3>3. code' \in Seq(Int)
      BY <1>8, <3>1, <3>2, ConcatProperties DEF SecondPassOperand, Emit
    <3>4. ip' \in Nat
      BY <1>6, <1>8 DEF TypeOK, SecondPassOperand, Emit
    <3>5. /\ pass' \in {"second", "overrun"}
          /\ line' = line + 1 /\ line < Len(text) + 1
          /\ UNCHANGED <<text, labels, errors, file, mark>>
      BY <1>8 DEF TypeOK, SecondPassOperand, Emit, Reading
    <3> QED BY <3>3, <3>4, <3>5 DEF TypeOK
  <2>6. CASE Misread(text[line].arg)
    <3>1. Word(text[line].arg) = ReadAs[text[line].arg.v]
      BY <2>6 DEF Word, Misread, IsName
    <3>2. Word(text[line].arg) \in Int
      BY <2>6, <3>1, NameAssumption DEF Misread
    <3> QED BY <2>5, <3>2
  <2>3. CASE text[line].arg.t = "name" /\ ~ Misread(text[line].arg)
    <3>1. Known(text[line].arg.v)
      BY <1>8, <2>3 DEF SecondPassOperand, Valid
    <3>3. PICK k \in 1..Len(labels) : Address(text[line].arg.v) = labels[k].ip
      BY <3>1, AddressIsEntry
    <3>4. labels[k] \in [name : Name, ip : Nat]
      BY ElementOfSeq DEF TypeOK
    <3>5. labels[k].ip \in Nat
      BY <3>4
    <3>2. Word(text[line].arg) \in Int
      BY <2>3, <3>3, <3>5 DEF Word, IsName
    <3> QED BY <2>5, <3>2
  <2>4. CASE text[line].arg.t # "name"
    <3>1. Word(text[line].arg) \in Int
      BY <2>1, <2>2, <2>4 DEF Word, IsName, Arg, NoArg
    <3> QED BY <2>5, <3>1
  <2> QED BY <2>3, <2>4, <2>6
<1>9. CASE SecondPassError
  BY <1>6, <1>9 DEF TypeOK, SecondPassError, Reading
<1>10. CASE SecondPassEnd
  BY <1>10 DEF TypeOK, SecondPassEnd
<1>11. CASE WriteFile
  BY <1>11 DEF TypeOK, WriteFile
<1>12. CASE OpenFails
  BY <1>12 DEF TypeOK, OpenFails
<1>13. CASE UNCHANGED vars
  BY <1>13 DEF TypeOK, vars
<1> QED BY <1>1, <1>2, <1>3, <1>4, <1>5, <1>7, <1>8, <1>9, <1>10, <1>11, <1>12, <1>13 DEF Next

(* A well-formed text never puts UNKNOWN_COMMAND among the errors. *)
LEMMA NoUnknownStep == TypeOK /\ NoUnknown /\ [Next]_vars => NoUnknown'
<1> SUFFICES ASSUME TypeOK, NoUnknown, [Next]_vars PROVE NoUnknown'
  OBVIOUS
<1>0. line \in Nat /\ Len(text) \in Nat /\ line <= Len(text) + 1
  BY DEF TypeOK
<1>1. CASE FirstPassBlank
  BY <1>0, <1>1 DEF NoUnknown, FirstPassBlank, FirstPassLine, Reading, IsCommand
<1>2. CASE FirstPassLabel
  BY <1>0, <1>2 DEF NoUnknown, FirstPassLabel, FirstPassLine, Reading, IsCommand
<1>3. CASE FirstPassCommand
  <2>1. /\ pass = "first" /\ pass' = "first" /\ line' = line + 1 /\ text' = text
        /\ text[line].op = "unknown" => errors' # {}
        /\ text[line].op # "unknown" => errors' = errors
    BY <1>3 DEF FirstPassCommand, FirstPassLine, Reading
  <2>2. CASE text[line].op = "unknown"
    BY <2>1, <2>2 DEF NoUnknown
  <2>3. CASE text[line].op # "unknown"
    BY <1>0, <2>1, <2>3 DEF NoUnknown, IsCommand
  <2> QED BY <2>2, <2>3
<1>4. CASE FirstPassEnd
  BY <1>0, <1>4 DEF NoUnknown, FirstPassEnd, AtEnd
<1>5. CASE SecondPassSkip \/ SecondPassCommand \/ SecondPassOperand \/ SecondPassError \/ SecondPassEnd
  BY <1>5 DEF NoUnknown, SecondPassSkip, SecondPassCommand, SecondPassOperand,
              SecondPassError, SecondPassEnd, Emit, Reading, AtEnd
<1>6. CASE WriteFile \/ OpenFails \/ UNCHANGED vars
  BY <1>6 DEF NoUnknown, WriteFile, OpenFails, vars
<1> QED BY <1>1, <1>2, <1>3, <1>4, <1>5, <1>6 DEF Next

-----------------------------------------------------------------------------
(* A line of the first pass adds one mark, its width after the last.       *)
LEMMA FirstPassStep ==
  ASSUME TypeOK, FirstPassBlank \/ FirstPassLabel \/ FirstPassCommand
  PROVE  /\ pass = "first" /\ pass' = "first" /\ line \in 1..Len(text)
         /\ line' = line + 1 /\ text' = text /\ code' = code
         /\ ip' = ip + LineWidth(text[line])
         /\ mark' = Append(mark, ip + LineWidth(text[line]))
         /\ LineWidth(text[line]) \in Nat
         /\ text[line].kind # "label" => labels' = labels
<1>1. /\ pass = "first" /\ pass' = "first" /\ line \in 1..Len(text)
      /\ line' = line + 1 /\ text' = text /\ code' = code
  BY DEF TypeOK, FirstPassBlank, FirstPassLabel, FirstPassCommand, FirstPassLine, Reading
<1>2. LineWidth(text[line]) \in Nat
  BY WidthType DEF LineWidth
<1>3. CASE FirstPassBlank \/ FirstPassLabel
  <2>1. text[line].kind # "command"
    BY <1>3 DEF FirstPassBlank, FirstPassLabel
  <2>2. LineWidth(text[line]) = 0
    BY <2>1 DEF LineWidth, IsCommand
  <2> QED BY <1>1, <1>3, <2>2 DEF FirstPassBlank, FirstPassLabel, FirstPassLine
<1>4. CASE FirstPassCommand
  <2>1. LineWidth(text[line]) = Width(text[line].op)
    BY <1>4 DEF LineWidth, FirstPassCommand
  <2> QED BY <1>1, <1>2, <1>4, <2>1 DEF FirstPassCommand, FirstPassLine
<1> QED BY <1>3, <1>4

(* Every other step leaves the text, the marks and the table alone.        *)
LEMMA OtherStep ==
  ASSUME TypeOK, [Next]_vars, ~ (FirstPassBlank \/ FirstPassLabel \/ FirstPassCommand)
  PROVE  /\ UNCHANGED <<text, mark, labels>>
         /\ \/ pass' = pass
            \/ FirstPassEnd
            \/ pass' = "failed"
            \/ pass = "second" /\ pass' = "overrun"
            \/ pass = "second" /\ pass' = "write"
            \/ pass = "write" /\ pass' = "done"
         /\ pass' = "first" => UNCHANGED <<ip, line>>
  BY DEF Next, vars, FirstPassEnd, SecondPassSkip, SecondPassCommand, SecondPassOperand,
         SecondPassError, SecondPassEnd, Emit, WriteFile, OpenFails, Reading, AtEnd

(* Every step keeps what is known of the marks: they are the running word count of the first pass. *)
LEMMA MarksStep == TypeOK /\ Marks /\ [Next]_vars => Marks'
<1> SUFFICES ASSUME TypeOK, Marks, [Next]_vars PROVE Marks'
  OBVIOUS
<1>1. CASE FirstPassBlank \/ FirstPassLabel \/ FirstPassCommand
  <2> DEFINE w == LineWidth(text[line])
  <2>1. /\ pass = "first" /\ pass' = "first" /\ line \in 1..Len(text)
        /\ line' = line + 1 /\ text' = text
        /\ ip' = ip + w /\ mark' = Append(mark, ip + w) /\ w \in Nat
    BY <1>1, FirstPassStep
  <2>2. /\ Len(mark) = line /\ ip = mark[line] /\ mark \in Seq(Nat)
        /\ ip + w \in Nat /\ line \in Nat /\ Len(text) \in Nat
    BY <2>1 DEF TypeOK, Marks
  <2>3. /\ Len(mark') = line + 1
        /\ \A i \in 1..line : mark'[i] = mark[i] /\ mark[i] \in Nat
        /\ mark'[line + 1] = ip + w
    BY <2>1, <2>2, AppendProperties, ElementOfSeq
  <2> HIDE DEF w
  <2>4. /\ Len(mark)' \in 1..Len(text)' + 1
        /\ mark'[1] = 0
        /\ pass' = "first" => Len(mark)' = line' /\ ip' = mark'[line']
        /\ pass' = "first"
    BY <2>1, <2>2, <2>3 DEF Marks
  <2>5. \A i \in 1..line : mark'[i + 1] = mark'[i] + LineWidth(text[i])
    <3> TAKE i \in 1..line
    <3>1. CASE i = line
      BY <2>1, <2>2, <2>3, <3>1 DEF w
    <3>2. CASE i \in 1..line - 1
      BY <2>2, <2>3, <3>2 DEF Marks
    <3> QED BY <2>2, <3>1, <3>2
  <2>6. \A i \in 1..line + 1 : \A j \in i..line + 1 : mark'[i] <= mark'[j]
    <3> TAKE i \in 1..line + 1
    <3> TAKE j \in i..line + 1
    <3>1. CASE j = line + 1 /\ i \in 1..line
      <4>1. mark[i] <= mark[line]
        BY <2>2, <3>1 DEF Marks
      <4> QED BY <2>1, <2>2, <2>3, <3>1, <4>1
    <3>2. CASE j = line + 1 /\ i = line + 1
      BY <2>2, <2>3, <3>2
    <3>3. CASE j \in 1..line
      BY <2>2, <2>3, <3>3 DEF Marks
    <3> QED BY <2>2, <3>1, <3>2, <3>3
  <2>7. (line + 1) - 1 = line
    BY <2>2
  <2> QED BY <2>1, <2>3, <2>4, <2>5, <2>6, <2>7 DEF Marks, LineWidth, IsCommand
<1>2. CASE ~ (FirstPassBlank \/ FirstPassLabel \/ FirstPassCommand)
  <2>1. CASE FirstPassEnd
    <3>1. /\ Len(mark) = Len(text) + 1 /\ pass' \in {"second", "failed"}
          /\ UNCHANGED <<text, mark>>
      BY <2>1 DEF FirstPassEnd, AtEnd, Marks
    <3> QED BY <3>1 DEF Marks, LineWidth, IsCommand
  <2>2. CASE ~ FirstPassEnd
    BY <1>2, <2>2, OtherStep DEF Marks, LineWidth, IsCommand
  <2> QED BY <2>1, <2>2
<1> QED BY <1>1, <1>2

(* A mark stops being the end when a command is counted behind it.         *)
LEMMA CoveredStep == TypeOK /\ Marks /\ Covered /\ [Next]_vars => Covered'
<1> SUFFICES ASSUME TypeOK, Marks, Covered, [Next]_vars PROVE Covered'
  OBVIOUS
<1>1. CASE FirstPassBlank \/ FirstPassLabel \/ FirstPassCommand
  <2> DEFINE w == LineWidth(text[line])
  <2>1. /\ pass = "first" /\ line \in 1..Len(text) /\ text' = text
        /\ mark' = Append(mark, ip + w) /\ w \in Nat
    BY <1>1, FirstPassStep
  <2>2. /\ Len(mark) = line /\ ip = mark[line] /\ mark \in Seq(Nat)
        /\ ip \in Nat /\ ip + w \in Nat /\ line \in Nat /\ line >= 1
    BY <2>1 DEF TypeOK, Marks
  <2>3. w # 0 => IsCommand(text[line])
    BY DEF LineWidth
  <2> HIDE DEF w
  <2>4. /\ Len(mark') = line + 1
        /\ \A i \in 1..line : mark'[i] = mark[i]
        /\ mark'[line + 1] = ip + w
    BY <2>1, <2>2, AppendProperties
  <2>5. ASSUME NEW i \in 1..line
        PROVE  \/ mark'[i] = mark'[line + 1]
               \/ \E j \in 1..line : IsCommand(text[j]) /\ mark'[j] = mark'[i]
    <3>1. CASE mark[i] = mark[line]
      BY <2>2, <2>3, <2>4, <3>1
    <3>2. CASE \E j \in 1..line - 1 : IsCommand(text[j]) /\ mark[j] = mark[i]
      <4>1. PICK j \in 1..line - 1 : IsCommand(text[j]) /\ mark[j] = mark[i]
        BY <3>2
      <4>2. j \in 1..line
        BY <2>2, <4>1
      <4> QED BY <2>4, <4>1, <4>2
    <3> QED BY <2>2, <3>1, <3>2 DEF Covered
  <2>6. \A i \in 1..line + 1 : i = line + 1 \/ i \in 1..line
    BY <2>2
  <2>7. (line + 1) - 1 = line
    BY <2>2
  <2>8. ASSUME NEW i \in 1..line + 1
        PROVE  \/ mark'[i] = mark'[line + 1]
               \/ \E j \in 1..line : IsCommand(text[j]) /\ mark'[j] = mark'[i]
    BY <2>5, <2>6
  <2>9. /\ line' = line + 1 /\ text' = text
    BY <1>1, <2>1 DEF FirstPassBlank, FirstPassLabel, FirstPassCommand, FirstPassLine
  <2> QED BY <2>4, <2>7, <2>8, <2>9 DEF Covered, IsCommand
<1>2. CASE ~ (FirstPassBlank \/ FirstPassLabel \/ FirstPassCommand)
  <2>1. UNCHANGED <<text, mark>>
    BY <1>2, OtherStep
  <2> QED BY <2>1 DEF Covered, IsCommand
<1> QED BY <1>1, <1>2

-----------------------------------------------------------------------------
(* Every step keeps what is known of the label table: each entry is the first definition of its name, at its mark. *)
LEMMA TableStep == TypeOK /\ Marks /\ Table /\ [Next]_vars => Table'
<1> SUFFICES ASSUME TypeOK, Marks, Table, [Next]_vars PROVE Table'
  OBVIOUS
<1>1. CASE FirstPassBlank \/ FirstPassLabel \/ FirstPassCommand
  <2>1. /\ pass = "first" /\ pass' = "first" /\ line \in 1..Len(text)
        /\ line' = line + 1 /\ text' = text
        /\ mark' = Append(mark, ip + LineWidth(text[line]))
        /\ LineWidth(text[line]) \in Nat
        /\ text[line].kind # "label" => labels' = labels
    BY <1>1, FirstPassStep
  <2>2. /\ Len(mark) = line /\ ip = mark[line] /\ mark \in Seq(Nat) /\ ip \in Nat
        /\ line \in Nat /\ Len(text) \in Nat /\ labels \in Seq([name : Name, ip : Nat])
    BY <2>1 DEF TypeOK, Marks
  <2>3. /\ Len(mark') = line + 1 /\ \A i \in 1..line : mark'[i] = mark[i]
        /\ mark'[line] = ip /\ line \in 1..Len(mark')
    BY <2>1, <2>2, AppendProperties
  <2> DEFINE KnownAfter(n) == \E k \in 1..Len(labels') : labels'[k].name = n
  <2>8. ASSUME \A k \in 1..Len(labels') : \E d \in 1..Len(text) :
                 /\ FirstDefinition(labels'[k].name, d)
                 /\ d \in 1..Len(mark') /\ labels'[k].ip = mark'[d],
               \A i \in 1..line : text[i].kind = "label" =>
                 KnownAfter(text[i].name) \/ Len(labels') >= MaxLabels
        PROVE  Table'
    <3>1. line' - 1 = line
      BY <2>1
    <3> QED BY <2>1, <2>8, <3>1 DEF Table, FirstDefinition, Known
  <2>9. ASSUME NEW k \in 1..Len(labels)
        PROVE  \E d \in 1..Len(text) :
                 /\ FirstDefinition(labels[k].name, d)
                 /\ d \in 1..Len(mark') /\ labels[k].ip = mark'[d]
    <3>1. PICK d \in 1..Len(text) : /\ FirstDefinition(labels[k].name, d)
                                   /\ d \in 1..Len(mark) /\ labels[k].ip = mark[d]
      BY DEF Table
    <3>2. d \in 1..Len(mark') /\ mark'[d] = mark[d]
      BY <2>2, <2>3, <3>1
    <3> QED BY <3>1, <3>2
  <2>10. \A i \in 1..line - 1 : text[i].kind = "label" => Known(text[i].name) \/ Len(labels) >= MaxLabels
    BY <2>1 DEF Table
  <2>4. CASE labels' = labels /\ (text[line].kind = "label" =>
               Known(text[line].name) \/ Len(labels) >= MaxLabels)
    <3>1. \A i \in 1..line : text[i].kind = "label" => KnownAfter(text[i].name) \/ Len(labels') >= MaxLabels
      <4> TAKE i \in 1..line
      <4>1. i = line \/ i \in 1..line - 1
        BY <2>2
      <4> QED BY <2>4, <2>10, <4>1 DEF Known
    <3> QED BY <2>4, <2>8, <2>9, <3>1
  <2>5. CASE text[line].kind = "label" /\ ~ Known(text[line].name) /\ ~ (Len(labels) >= MaxLabels)
    <3> DEFINE entry == [name |-> text[line].name, ip |-> ip]
    <3>1. labels' = Append(labels, entry)
      BY <1>1, <2>5 DEF FirstPassBlank, FirstPassLabel, FirstPassCommand, FirstPassLine, IsCommand
    <3>2. entry \in [name : Name, ip : Nat]
      <4>1. text[line] \in Line
        BY <2>1 DEF TypeOK
      <4> QED BY <2>2, <2>5, <4>1 DEF Line
    <3>3. /\ Len(labels') = Len(labels) + 1 /\ Len(labels) \in Nat
          /\ \A k \in 1..Len(labels) : labels'[k] = labels[k]
          /\ labels'[Len(labels) + 1] = entry
      BY <2>2, <3>1, <3>2, AppendProperties
    <3>4. FirstDefinition(text[line].name, line)
      BY <2>1, <2>2, <2>5, <2>10 DEF FirstDefinition
    <3>5. entry.name = text[line].name /\ entry.ip = mark'[line]
      BY <2>3
    <3> HIDE DEF entry
    <3>6. \A k \in 1..Len(labels') : \E d \in 1..Len(text) :
            /\ FirstDefinition(labels'[k].name, d)
            /\ d \in 1..Len(mark') /\ labels'[k].ip = mark'[d]
      <4> TAKE k \in 1..Len(labels')
      <4>1. k = Len(labels) + 1 \/ k \in 1..Len(labels)
        BY <3>3
      <4>2. CASE k = Len(labels) + 1
        BY <2>1, <2>3, <3>3, <3>4, <3>5, <4>2
      <4>3. CASE k \in 1..Len(labels)
        BY <2>9, <3>3, <4>3
      <4> QED BY <4>1, <4>2, <4>3
    <3>7. \A n : Known(n) => KnownAfter(n)
      BY <3>3 DEF Known
    <3>8. KnownAfter(text[line].name)
      BY <3>3, <3>5
    <3>9. \A i \in 1..line : text[i].kind = "label" => KnownAfter(text[i].name) \/ Len(labels') >= MaxLabels
      <4> TAKE i \in 1..line
      <4>1. i = line \/ i \in 1..line - 1
        BY <2>2
      <4> HIDE DEF KnownAfter
      <4> QED BY <2>5, <2>10, <3>7, <3>8, <4>1
    <3> QED BY <2>8, <3>6, <3>9
  <2>6. labels' = labels \/ (text[line].kind = "label" /\ ~ Known(text[line].name) /\ ~ (Len(labels) >= MaxLabels))
    BY <1>1 DEF FirstPassBlank, FirstPassLabel, FirstPassCommand, FirstPassLine
  <2>7. text[line].kind = "label" /\ labels' = labels => Known(text[line].name) \/ Len(labels) >= MaxLabels
    <3> SUFFICES ASSUME text[line].kind = "label", labels' = labels,
                        ~ Known(text[line].name), ~ (Len(labels) >= MaxLabels)
                 PROVE  FALSE
      OBVIOUS
    <3>1. labels' = Append(labels, [name |-> text[line].name, ip |-> ip])
      BY <1>1 DEF FirstPassBlank, FirstPassLabel, FirstPassCommand, FirstPassLine, IsCommand
    <3>2. text[line] \in Line
      BY <2>1 DEF TypeOK
    <3>3. [name |-> text[line].name, ip |-> ip] \in [name : Name, ip : Nat]
      BY <2>2, <3>2 DEF Line
    <3>4. Len(labels') = Len(labels) + 1 /\ Len(labels) \in Nat
      BY <2>2, <3>1, <3>3, AppendProperties
    <3> QED BY <3>4
  <2> QED BY <2>4, <2>5, <2>6, <2>7
<1>2. CASE ~ (FirstPassBlank \/ FirstPassLabel \/ FirstPassCommand)
  <2>1. UNCHANGED <<text, mark, labels>> /\ (pass' = "first" => pass = "first" /\ line' = line)
    BY <1>2, OtherStep DEF FirstPassEnd
  <2> QED BY <2>1 DEF Table, FirstDefinition, Known
<1> QED BY <1>1, <1>2

(* Words appended for a line leave those of the lines before in place.     *)
LEMMA EmitStep ==
  ASSUME IInv, WellFormedText, Reading("second"), IsCommand(text[line]),
         NEW words \in Seq(Int), Len(words) = LineWidth(text[line]), Emit(words),
         words[1] = Opcode(text[line].op),
         IsName(text[line].arg) => Len(words) = 2 /\ StandsFor(text[line].arg.v, words[2])
  PROVE  Words'
<1>1. /\ line \in 1..Len(text) /\ pass = "second" /\ line' = line + 1
      /\ UNCHANGED <<text, mark>> /\ Len(text) \in Nat /\ line \in Nat
      /\ code' = code \o words /\ ip' = ip + Width(text[line].op)
      /\ pass' = IF Len(code') > MaxCode THEN "overrun" ELSE "second"
  BY DEF IInv, TypeOK, Emit, Reading
<1>2. /\ Len(code) = mark[line] /\ ip = mark[line]
      /\ \A i \in 1..line - 1 : Placed(i)
  BY <1>1 DEF IInv, Words
<1>3. /\ Len(mark) = Len(text) + 1
      /\ \A i \in 1..Len(text) : mark[i + 1] = mark[i] + LineWidth(text[i])
      /\ \A i \in 1..Len(text) + 1 : \A j \in i..Len(text) + 1 : mark[i] <= mark[j]
      /\ \A i \in 1..Len(text) + 1 : mark[i] \in Nat
  <2>1. Len(mark) = Len(text) + 1 /\ mark \in Seq(Nat)
    BY <1>1 DEF IInv, TypeOK, Marks
  <2>2. (Len(text) + 1) - 1 = Len(text)
    BY <1>1
  <2>3. \A i \in 1..Len(text) + 1 : mark[i] \in Nat
    BY <2>1, ElementOfSeq
  <2> QED BY <2>1, <2>2, <2>3 DEF IInv, Marks
<1>4. /\ Len(code') = mark[line] + LineWidth(text[line])
      /\ \A k \in 1..mark[line] : code'[k] = code[k]
      /\ \A k \in 1..Len(words) : code'[mark[line] + k] = words[k]
  <2>1. code \in Seq(Int) /\ Len(code) \in Nat /\ Len(words) \in Nat
    BY DEF IInv, TypeOK
  <2>2. Len(code') = Len(code) + Len(words)
    BY <1>1, <2>1, ConcatProperties
  <2>3. \A k \in 1..Len(code) + Len(words) :
          code'[k] = IF k <= Len(code) THEN code[k] ELSE words[k - Len(code)]
    BY <1>1, <2>1, ConcatProperties
  <2>4. \A k \in 1..mark[line] : code'[k] = code[k]
    <3>1. mark[line] = Len(code)
      BY <1>2
    <3>2. \A k \in 1..Len(code) : k \in 1..Len(code) + Len(words) /\ k <= Len(code)
      BY <2>1
    <3> QED BY <2>3, <3>1, <3>2
  <2>5. \A k \in 1..Len(words) : code'[mark[line] + k] = words[k]
    <3> TAKE k \in 1..Len(words)
    <3>1. /\ Len(code) + k \in 1..Len(code) + Len(words)
          /\ ~ (Len(code) + k <= Len(code)) /\ (Len(code) + k) - Len(code) = k
      BY <2>1
    <3> QED BY <1>2, <2>3, <3>1
  <2> QED BY <1>2, <2>2, <2>4, <2>5
<1>5. Len(code') = mark[line + 1] /\ ip' = mark[line + 1] /\ line + 1 \in 1..Len(text) + 1
  BY <1>1, <1>2, <1>3, <1>4 DEF LineWidth
<1>6. ASSUME NEW i \in 1..line PROVE Placed(i)'
  <2>1. CASE i = line
    <3>1. Len(words) \in {1, 2}
      BY WidthType DEF LineWidth
    <3>2. code'[mark[i] + 1] = Opcode(text[i].op)
      BY <1>4, <2>1, <3>1
    <3>3. IsName(text[i].arg) => code'[mark[i] + 2] = words[2]
      BY <1>4, <2>1
    <3> QED BY <1>1, <2>1, <3>2, <3>3 DEF Placed, IsCommand, StandsFor, IsName, FirstDefinition
  <2>2. CASE i \in 1..line - 1
    <3>1. Placed(i)
      BY <1>2, <2>2
    <3>2. CASE ~ IsCommand(text[i])
      BY <1>1, <3>2 DEF Placed, IsCommand
    <3>3. CASE IsCommand(text[i])
      <4>5. /\ i \in 1..Len(text) /\ i \in 1..Len(text) + 1
            /\ i + 1 \in 1..Len(text) + 1 /\ line \in i + 1..Len(text) + 1
        BY <1>1, <2>2
      <4>1. /\ mark[i] \in Nat /\ mark[i + 1] \in Nat /\ mark[line] \in Nat
            /\ mark[i + 1] = mark[i] + Width(text[i].op)
            /\ mark[i + 1] <= mark[line]
        BY <1>1, <1>3, <3>3, <4>5 DEF LineWidth
      <4>2. IsName(text[i].arg) => Width(text[i].op) = 2
        BY <3>3, <4>5 DEF WellFormedText, WellFormedLine, Width, IsName
      <4>3. code'[mark[i] + 1] = code[mark[i] + 1]
        <5>1. mark[i] + 1 \in 1..mark[line]
          BY <4>1, WidthType
        <5> QED BY <1>4, <5>1
      <4>4. IsName(text[i].arg) => code'[mark[i] + 2] = code[mark[i] + 2]
        <5>1. IsName(text[i].arg) => mark[i] + 2 \in 1..mark[line]
          BY <4>1, <4>2
        <5> QED BY <1>4, <5>1
      <4> QED BY <1>1, <3>1, <3>3, <4>3, <4>4 DEF Placed, IsCommand, StandsFor, IsName, FirstDefinition
    <3> QED BY <3>2, <3>3
  <2> QED BY <1>1, <2>1, <2>2
<1>7. CASE Len(code') > MaxCode
  <2>3. /\ line + 1 \in 1..Len(text) + 1 /\ Len(text) + 1 \in line + 1..Len(text) + 1
        /\ Len(text) + 1 \in 1..Len(text) + 1
    BY <1>1
  <2>1. /\ mark[line + 1] <= mark[Len(text) + 1]
        /\ mark[line + 1] \in Nat /\ mark[Len(text) + 1] \in Nat
    BY <1>3, <2>3
  <2>2. mark[Len(text) + 1] > MaxCode
    BY <1>5, <1>7, <2>1, BoundAssumption
  <2> QED BY <1>1, <1>7, <2>2 DEF Words, Assembled
<1>8. CASE ~ (Len(code') > MaxCode)
  BY <1>1, <1>5, <1>6, <1>8 DEF Words, Assembled
<1> QED BY <1>7, <1>8

(* A command without an argument, and one with a valid argument, put their
   words where the first pass placed them.                                 *)
LEMMA CommandStep ==
  ASSUME IInv, WellFormedText, SecondPassCommand
  PROVE  Words'
<1>1. /\ text[line].op \notin WithOperand /\ text[line].op \in Mnemonics
      /\ text[line].arg.t = "none" /\ line \in 1..Len(text)
  <2>1. line \in 1..Len(text) /\ text[line] \in Line
    BY DEF SecondPassCommand, Reading, IInv, TypeOK
  <2>2. text[line].op \notin WithOperand /\ text[line].op # "unknown"
    BY <2>1 DEF SecondPassCommand, WellFormedText, WellFormedLine
  <2>3. text[line].kind = "command"
    BY DEF SecondPassCommand, IsCommand
  <2> QED BY <2>1, <2>2, <2>3 DEF Line, SecondPassCommand
<1>2. LineWidth(text[line]) = 1
  BY <1>1 DEF LineWidth, Width, SecondPassCommand
<1> DEFINE words == <<Opcode(text[line].op)>>
<1>3. words \in Seq(Int) /\ Len(words) = 1 /\ words[1] = Opcode(text[line].op)
  <2>1. text[line].op \in Mnemonics
    BY <1>1
  <2>2. Opcode(text[line].op) \in 0..29
    BY <2>1, OpcodeType
  <2> QED BY <2>2
<1>4. Emit(words) /\ Reading("second") /\ IsCommand(text[line])
  BY DEF SecondPassCommand
<1>5. ~ IsName(text[line].arg)
  BY <1>1 DEF IsName
<1> HIDE DEF words
<1> QED BY <1>2, <1>3, <1>4, <1>5, EmitStep

(* What second_pass writes for one command agrees with the marks and the table. *)
LEMMA OperandStep ==
  ASSUME IInv, WellFormedText, SecondPassOperand
  PROVE  Words'
<1>1. /\ line \in 1..Len(text) /\ text[line] \in Line /\ text[line].kind = "command"
      /\ text[line].arg.t # "none" /\ Valid(text[line].arg)
  BY DEF SecondPassOperand, Reading, IInv, TypeOK, IsCommand
<1>2. /\ text[line].op \in WithOperand /\ text[line].op \in Mnemonics
      /\ text[line].arg \in Arg
  <2>1. text[line].op \in WithOperand /\ text[line].op # "unknown"
    BY <1>1 DEF WellFormedText, WellFormedLine, IsCommand
  <2> QED BY <1>1, <2>1 DEF Line
<1>3. LineWidth(text[line]) = 2
  BY <1>1, <1>2 DEF LineWidth, Width, IsCommand
<1>8. Misread(text[line].arg) =>
        Word(text[line].arg) \in Int /\ StandsFor(text[line].arg.v, Word(text[line].arg))
  BY NameAssumption DEF Misread, Word, StandsFor
<1>9. IsName(text[line].arg) /\ ~ Misread(text[line].arg) =>
        Word(text[line].arg) \in Int /\ StandsFor(text[line].arg.v, Word(text[line].arg))
  <2> SUFFICES ASSUME IsName(text[line].arg), ~ Misread(text[line].arg)
               PROVE  Word(text[line].arg) \in Int /\ StandsFor(text[line].arg.v, Word(text[line].arg))
    OBVIOUS
  <2>1. Known(text[line].arg.v)
    BY <1>1 DEF Valid, IsName
  <2>2. PICK k \in 1..Len(labels) : /\ labels[k].name = text[line].arg.v
                                   /\ Address(text[line].arg.v) = labels[k].ip
    BY <2>1, AddressIsEntry
  <2>3. PICK d \in 1..Len(text) : /\ FirstDefinition(labels[k].name, d)
                                 /\ d \in 1..Len(mark) /\ labels[k].ip = mark[d]
    BY DEF IInv, Table
  <2>4. mark[d] \in Nat
    BY <2>3, ElementOfSeq DEF IInv, TypeOK
  <2>5. Word(text[line].arg) = mark[d] /\ FirstDefinition(text[line].arg.v, d)
    BY <2>2, <2>3 DEF Word
  <2> QED BY <2>4, <2>5 DEF StandsFor, Misread
<1>4. IsName(text[line].arg) => StandsFor(text[line].arg.v, Word(text[line].arg))
  BY <1>8, <1>9
<1>5. Word(text[line].arg) \in Int
  <2>1. CASE ~ IsName(text[line].arg)
    BY <1>1, <1>2, <2>1 DEF Word, IsName, Arg, NoArg
  <2> QED BY <1>8, <1>9, <2>1
<1> DEFINE words == <<Opcode(text[line].op), Word(text[line].arg)>>
<1>6. /\ words \in Seq(Int) /\ Len(words) = 2
      /\ words[1] = Opcode(text[line].op) /\ words[2] = Word(text[line].arg)
  BY <1>2, <1>5, OpcodeType
<1>7. Emit(words) /\ Reading("second") /\ IsCommand(text[line])
  BY DEF SecondPassOperand
<1> HIDE DEF words
<1> QED BY <1>3, <1>4, <1>6, <1>7, EmitStep

(* Every step keeps what is known of the words written so far. *)
LEMMA WordsStep == IInv /\ [Next]_vars => Words'
<1> SUFFICES ASSUME IInv, [Next]_vars PROVE Words'
  OBVIOUS
<1>1. text' = text
  BY DEF Next, vars, FirstPassBlank, FirstPassLabel, FirstPassCommand, FirstPassLine,
         FirstPassEnd, SecondPassSkip, SecondPassCommand, SecondPassOperand,
         SecondPassError, SecondPassEnd, Emit, WriteFile, OpenFails
<1>2. SUFFICES ASSUME WellFormedText PROVE Words'
  BY <1>1 DEF Words, WellFormedText, WellFormedLine, IsCommand
<1>3. CASE FirstPassBlank \/ FirstPassLabel \/ FirstPassCommand
  <2>1. pass' = "first"
    BY <1>3, FirstPassStep DEF IInv
  <2> QED BY <2>1 DEF Words, Assembled
<1>4. CASE FirstPassEnd
  <2>1. /\ pass' \in {"second", "failed"} /\ line' = 1 /\ ip' = 0
        /\ Len(code') = 0 /\ mark' = mark /\ mark[1] = 0
    BY <1>4 DEF FirstPassEnd, IInv, Marks
  <2> QED BY <2>1 DEF Words, Assembled
<1>5. CASE SecondPassSkip
  <2>1. /\ pass = "second" /\ pass' = pass /\ line' = line + 1 /\ line \in 1..Len(text)
        /\ Len(text) \in Nat /\ UNCHANGED <<text, ip, code, mark>>
    BY <1>5 DEF SecondPassSkip, Reading, IInv, TypeOK
  <2>2. mark[line + 1] = mark[line]
    <3>1. line \in 1..Len(mark) - 1
      BY <2>1 DEF IInv, Marks
    <3>2. LineWidth(text[line]) = 0
      BY <1>5 DEF SecondPassSkip, LineWidth
    <3>3. mark[line] \in Nat
      BY <3>1, ElementOfSeq DEF IInv, TypeOK, Marks
    <3> QED BY <3>1, <3>2, <3>3 DEF IInv, Marks
  <2>3. \A i \in 1..line : Placed(i)
    <3> TAKE i \in 1..line
    <3>1. CASE i = line
      BY <1>5, <3>1 DEF SecondPassSkip, Placed
    <3>2. CASE i \in 1..line - 1
      BY <1>2, <2>1, <3>2 DEF IInv, Words
    <3> QED BY <2>1, <3>1, <3>2
  <2>4. Len(code) = mark[line] /\ ip = mark[line] /\ (line + 1) - 1 = line
    BY <1>2, <2>1 DEF IInv, Words
  <2> QED BY <2>1, <2>2, <2>3, <2>4 DEF Words, Assembled, Placed, StandsFor, FirstDefinition, IsName, IsCommand
<1>6. CASE SecondPassCommand
  BY <1>2, <1>6, CommandStep
<1>7. CASE SecondPassOperand
  BY <1>2, <1>7, OperandStep
<1>8. CASE SecondPassError
  <2>1. CASE pass' = "failed"
    BY <2>1 DEF Words, Assembled
  <2>2. CASE pass' = "overrun"
    <3>1. mark[Len(text) + 1] > MaxCode
      <4>1. /\ line \in 1..Len(text) /\ Len(text) \in Nat /\ pass = "second"
            /\ Len(code') > MaxCode /\ code' = Append(code, Opcode(text[line].op))
            /\ text[line] \in Line /\ text[line].kind = "command"
        BY <1>8, <2>2 DEF SecondPassError, Reading, IInv, TypeOK, IsCommand
      <4>2. text[line].op \in Mnemonics
        BY <1>2, <4>1 DEF WellFormedText, WellFormedLine, IsCommand, Line
      <4>3. Len(code') = mark[line] + 1
        <5>2. Opcode(text[line].op) \in Int
          BY <4>2, OpcodeType
        <5>1. code \in Seq(Int) /\ Opcode(text[line].op) \in Int
          BY <5>2 DEF IInv, TypeOK
        <5>3. Len(code) = mark[line]
          BY <1>2, <4>1 DEF IInv, Words
        <5> QED BY <4>1, <5>1, <5>3, AppendProperties
      <4>4. /\ Len(mark) = Len(text) + 1 /\ line \in 1..Len(mark) - 1
            /\ line + 1 \in 1..Len(mark) /\ Len(text) + 1 \in line + 1..Len(mark)
        BY <4>1 DEF IInv, Marks
      <4>5. /\ mark[line + 1] = mark[line] + Width(text[line].op)
            /\ mark[line + 1] <= mark[Len(text) + 1]
        BY <4>1, <4>4 DEF IInv, Marks, LineWidth, IsCommand
      <4>6. mark[line] \in Nat /\ mark[line + 1] \in Nat /\ mark[Len(text) + 1] \in Nat
        BY <4>1, <4>4, ElementOfSeq DEF IInv, TypeOK
      <4>7. mark[line + 1] >= mark[line] + 1
        BY <4>5, <4>6, WidthType
      <4>8. mark[line] + 1 > MaxCode
        BY <4>1, <4>3
      <4> QED BY <4>5, <4>6, <4>7, <4>8, BoundAssumption
    <3>2. UNCHANGED <<text, mark>>
      BY <1>8 DEF SecondPassError
    <3> QED BY <2>2, <3>1, <3>2 DEF Words, Assembled
  <2> QED BY <1>8, <2>1, <2>2 DEF SecondPassError
<1>9. CASE SecondPassEnd
  <2>1. /\ pass = "second" /\ pass' = "write" /\ line = Len(text) + 1 /\ Len(text) \in Nat
        /\ UNCHANGED <<text, code, mark>>
    BY <1>9 DEF SecondPassEnd, AtEnd, IInv, TypeOK
  <2>2. Len(code) = mark[Len(text) + 1] /\ \A i \in 1..Len(text) : Placed(i)
    <3>1. line - 1 = Len(text)
      BY <2>1
    <3> QED BY <1>2, <2>1, <3>1 DEF IInv, Words
  <2> QED BY <2>1, <2>2 DEF Words, Assembled, Placed, StandsFor, FirstDefinition, IsName, IsCommand
<1>10. CASE WriteFile
  <2>1. pass = "write" /\ pass' = "done" /\ UNCHANGED <<text, code, mark>>
    BY <1>10 DEF WriteFile
  <2> QED BY <1>2, <2>1 DEF IInv, Words, Assembled, Placed, StandsFor, FirstDefinition, IsName, IsCommand
<1>11. CASE OpenFails
  BY <1>11 DEF OpenFails, Words, Assembled
<1>12. CASE UNCHANGED vars
  <2>1. UNCHANGED <<text, pass, line, ip, code, mark>>
    BY <1>12 DEF vars
  <2> QED BY <1>2, <2>1 DEF IInv, Words, Assembled, Placed, StandsFor, FirstDefinition, IsName, IsCommand
<1> QED BY <1>3, <1>4, <1>5, <1>6, <1>7, <1>8, <1>9, <1>10, <1>11, <1>12 DEF Next

-----------------------------------------------------------------------------
(* The inductive invariant holds initially. *)
LEMMA InitOK == Init => IInv
<1> SUFFICES ASSUME Init PROVE IInv
  OBVIOUS
<1>1. /\ text \in Seq(Line) /\ file \in Seq(Int) /\ pass = "first" /\ line = 1 /\ ip = 0
      /\ labels = << >> /\ code = << >> /\ errors = {} /\ mark = <<0>>
  BY TextAssumption, FileAssumption DEF Init
<1>2. Len(text) \in Nat
  BY <1>1
<1>3. TypeOK
  BY <1>1, <1>2 DEF TypeOK
<1>4. NoUnknown /\ Marks /\ Covered
  BY <1>1, <1>2 DEF NoUnknown, Marks, Covered
<1>5. Table
  BY <1>1 DEF Table
<1>6. Words
  BY <1>1 DEF Words, Assembled
<1> QED BY <1>3, <1>4, <1>5, <1>6 DEF IInv

(* The inductive invariant of the two passes holds in every reachable state. *)
THEOREM Invariance == Spec => []IInv
<1>1. IInv /\ [Next]_vars => IInv'
  BY TypeStep, NoUnknownStep, MarksStep, CoveredStep, TableStep, WordsStep DEF IInv
<1> QED BY InitOK, <1>1, PTL DEF Spec

(* The labels have addresses of commands that were read, the buffer holds
   numbers, and the file nothing but the code of a text that was taken
   (assembler).                                                            *)
THEOREM TypesHold == Spec => []TypeOK
<1>1. IInv => TypeOK
  BY DEF IInv
<1> QED BY <1>1, Invariance, PTL

(* first_pass and second_pass count alike on every text in which exactly
   the two-word commands have an argument, which is what the translator
   writes (assember.cpp:247-249 against 295-319).                          *)
THEOREM PassesCountAlike == Spec => []PassesAgree
<1>1. IInv => PassesAgree
  BY DEF IInv, Words, PassesAgree
<1> QED BY <1>1, Invariance, PTL

(* In the byte code of such a text every command is at the address the
   first pass gave its line, and every name after one is the address of the
   line after its label's first definition, unless parse_argument reads the
   name as a number or a register: then it is that, whatever label has this
   name (assember.cpp:61, 127-146, 179).                                   *)
THEOREM LabelsResolve == Spec => []LabelOperandsTarget
<1>1. IInv => LabelOperandsTarget
  BY DEF IInv, Words, LabelOperandsTarget, Placed, StandsFor, Misread
<1> QED BY <1>1, Invariance, PTL

(* No such text that fits code_buffer is written past its end
   (assember.cpp:295, 314).                                                *)
THEOREM BufferSuffices == Spec => []OverrunOnlyWhenTooLong
<1>1. IInv => OverrunOnlyWhenTooLong
  BY DEF IInv, Words, OverrunOnlyWhenTooLong
<1> QED BY <1>1, Invariance, PTL

(* Decode undoes Opcode.                                                   *)
LEMMA DecodeOpcode == \A m \in Mnemonics : Decode(Opcode(m)) = m
<1> SUFFICES ASSUME NEW m \in Mnemonics PROVE Decode(Opcode(m)) = m
  OBVIOUS
<1>1. \E i \in 1..30 : Commands[i] = m
  BY DEF Mnemonics
<1> DEFINE k == CHOOSE i \in 1..30 : Commands[i] = m
<1>2. k \in 1..30 /\ Commands[k] = m
  BY <1>1
<1>3. Opcode(m) = k - 1
  BY DEF Opcode
<1> HIDE DEF k
<1>4. Opcode(m) \in 0..29 /\ Opcode(m) + 1 = k
  BY <1>2, <1>3
<1> QED BY <1>2, <1>4 DEF Decode

(* The byte code of a text in which no jump or call names a label that is
   read as a number or a register is laid out as the SPU needs it: the
   premise of its control-flow theorems is this program's conclusion
   (assember.cpp:295-319, label addresses of 61).                          *)
THEOREM OutputIsLaidOut == Spec => []AssembledIsLaidOut
<1>1. ASSUME IInv, Assembled, WellFormedText, JumpsNamed
      PROVE  LaidOut(code, {mark[i] : i \in 1..Len(mark)})
  <2> DEFINE L == {mark[i] : i \in 1..Len(mark)}
  <2>1. /\ Len(mark) = Len(text) + 1 /\ Len(text) \in Nat /\ mark \in Seq(Nat)
        /\ Len(code) = mark[Len(mark)]
    BY <1>1 DEF IInv, TypeOK, Marks, Words, Assembled
  <2>2. \A i \in 1..Len(mark) : mark[i] \in Nat /\ mark[i] <= Len(code)
    <3> TAKE i \in 1..Len(mark)
    <3>1. mark[i] \in Nat
      BY <2>1, ElementOfSeq
    <3>2. Len(mark) \in i..Len(mark)
      BY <2>1
    <3> QED BY <1>1, <2>1, <3>1, <3>2 DEF IInv, Marks
  <2>3. Len(code) \in Nat
    BY <1>1 DEF IInv, TypeOK
  <2>4. L \subseteq 0..Len(code)
    BY <2>2, <2>3
  <2>5. 0 \in L
    BY <1>1, <2>1 DEF IInv, Marks
  <2>6. ASSUME NEW p \in L, p < Len(code)
        PROVE  LET m == Decode(code[p + 1]) IN
               /\ m # "unknown"
               /\ p + Width(m) \in L
               /\ m \in Jumps \union {"CALL"} => code[p + 2] \in L
    <3>1. PICK j \in 1..Len(text) : IsCommand(text[j]) /\ mark[j] = p
      <4>1. PICK i \in 1..Len(mark) : p = mark[i]
        BY <2>6
      <4>2. mark[i] # mark[Len(mark)]
        BY <2>1, <2>2, <2>3, <2>6, <4>1
      <4> QED BY <1>1, <2>1, <4>1, <4>2 DEF IInv, Covered
    <3>2. text[j] \in Line /\ text[j].kind = "command" /\ text[j].op # "unknown"
      BY <1>1, <3>1 DEF IInv, TypeOK, IsCommand, WellFormedText, WellFormedLine
    <3>3. text[j].op \in Mnemonics
      BY <3>2 DEF Line
    <3>4. /\ code[p + 1] = Opcode(text[j].op)
          /\ IsName(text[j].arg) /\ ~ Misread(text[j].arg) =>
               \E d \in 1..Len(text) : code[p + 2] = mark[d]
      BY <1>1, <3>1 DEF IInv, Words, Placed, StandsFor, Misread
    <3>5. Decode(code[p + 1]) = text[j].op
      BY <3>3, <3>4, DecodeOpcode
    <3>6. p + Width(text[j].op) \in L
      <4>1. j \in 1..Len(mark) - 1 /\ j + 1 \in 1..Len(mark)
        BY <2>1
      <4>2. mark[j + 1] = mark[j] + Width(text[j].op)
        BY <1>1, <3>1, <4>1 DEF IInv, Marks, LineWidth
      <4> QED BY <3>1, <4>1, <4>2
    <3>7. text[j].op \in Jumps \union {"CALL"} => code[p + 2] \in L
      <4>1. \A d \in 1..Len(text) : d \in 1..Len(mark)
        BY <2>1
      <4> QED BY <1>1, <3>1, <3>4, <4>1 DEF JumpsNamed
    <3> HIDE DEF L
    <3> QED BY <3>2, <3>5, <3>6, <3>7
  <2> HIDE DEF L
  <2>7. LaidOut(code, L)
    BY <2>4, <2>5, <2>6 DEF LaidOut
  <2> QED BY <2>7 DEF L
<1>2. IInv => AssembledIsLaidOut
  BY <1>1 DEF AssembledIsLaidOut
<1> QED BY <1>2, Invariance, PTL
=============================================================================
