----------------------------- MODULE Assembler -----------------------------
(***************************************************************************)
(* The two passes of source/processor/assember.cpp.  The first gives every *)
(* label the address of the next command, counting one or two words for a  *)
(* command by its name; the second writes the words, one for the command   *)
(* and one more if the line has an argument.                               *)
(*                                                                         *)
(* A line of the text is blank (a comment too), a label or a command.  An  *)
(* argument is a number, a register, a RAM cell, something malformed, or a *)
(* name.  parse_argument searches the labels last: it reads a name as a    *)
(* number if strtod does (inf, nan), and as a register if it begins with   *)
(* r<letter>, which is an error unless three letters name one of the       *)
(* sixteen.  A call of the function rec is assembled to CALL 5.            *)
(***************************************************************************)
EXTENDS Isa

CONSTANTS
  Name,         (* the names of labels                                      *)
  ReadAs,       (* the word for each that is read as a number or a register;
                   infinities and NaN stand for a word below 0, which like
                   them is no address                                       *)
  RegisterLike, (* those refused because they look like a register          *)
  Texts,        (* the texts to assemble                                    *)
  Bytecodes,    (* what the byte code file may hold before                  *)
  MaxLabels,    (* MAX_LABELS, 128 in the code                              *)
  MaxCode       (* MAX_CODE_SIZE, 1024 in the code                          *)

NoArg  == [t |-> "none", v |-> 0]
Arg    == {NoArg}
            \union [t : {"num", "reg", "ram", "bad"}, v : Int]
            \union [t : {"name"}, v : Name]
Line   == [kind : {"blank"}]
            \union [kind : {"label"}, name : Name]
            \union [kind : {"command"}, op : Mnemonics \union {"unknown"}, arg : Arg]

ASSUME NameAssumption  ==
  /\ DOMAIN ReadAs \subseteq Name /\ RegisterLike \subseteq Name \ DOMAIN ReadAs
  /\ \A n \in DOMAIN ReadAs : ReadAs[n] \in Int
ASSUME TextAssumption  == Texts \subseteq Seq(Line)
ASSUME FileAssumption  == Bytecodes \subseteq Seq(Int)
ASSUME BoundAssumption == MaxLabels \in Nat /\ MaxCode \in Nat

VARIABLES
  text,         (* the lines of asm_output.txt                              *)
  pass,         (* "first" | "second" | "write" | "done" | "failed" | "overrun" *)
  line,         (* the line fgets returns next                              *)
  ip,           (* the pass's own word counter                              *)
  labels,       (* g_labels[0..labels_count - 1]                            *)
  code,         (* code_buffer[0..code_size - 1]                            *)
  errors,       (* the Spu_Err bits                                         *)
  file,         (* the contents of byte_code.txt                            *)
  mark          (* HISTORY: mark[i] is ip when the first pass reached line i *)

vars == <<text, pass, line, ip, labels, code, errors, file, mark>>

-----------------------------------------------------------------------------
IsCommand(l) == l.kind = "command"

(* find_label: is_label lets a name into the table once.                   *)
Known(n)   == \E i \in 1..Len(labels) : labels[i].name = n
Address(n) == labels[CHOOSE i \in 1..Len(labels) : labels[i].name = n].ip

(* parse_argument: the word an argument stands for, and whether it stands
   for one.                                                                *)
IsName(a)  == a.t = "name"
Misread(a) == IsName(a) /\ a.v \in DOMAIN ReadAs

Valid(a) ==
  \/ a.t \in {"num", "reg"}
  \/ a.t = "ram" /\ a.v >= 0
  \/ Misread(a)
  \/ IsName(a) /\ ~ Misread(a) /\ a.v \notin RegisterLike /\ Known(a.v)

Word(a) ==
  IF ~ IsName(a) THEN a.v
  ELSE IF Misread(a) THEN ReadAs[a.v] ELSE Address(a.v)

-----------------------------------------------------------------------------
Init ==
  /\ text \in Texts
  /\ file \in Bytecodes
  /\ pass = "first"
  /\ line = 1
  /\ ip = 0
  /\ labels = << >>
  /\ code = << >>
  /\ errors = {}
  /\ mark = <<0>>

Reading(p) == pass = p /\ line <= Len(text)
AtEnd(p)   == pass = p /\ line = Len(text) + 1

FirstPassLine(words, newLabels, newErrors) ==
  /\ line' = line + 1
  /\ ip' = ip + words
  /\ mark' = Append(mark, ip + words)
  /\ labels' = newLabels
  /\ errors' = newErrors
  /\ UNCHANGED <<text, pass, code, file>>

FirstPassBlank ==
  /\ Reading("first") /\ text[line].kind = "blank"
  /\ FirstPassLine(0, labels, errors)

(* Seeded fault: a label is taken for a word of code.                      *)
FaultLabelBeforeCommand ==
  /\ Reading("first") /\ text[line].kind = "label"
  /\ IF Known(text[line].name) \/ Len(labels) >= MaxLabels
       THEN FirstPassLine(0, labels, errors)
       ELSE FirstPassLine(0, Append(labels, [name |-> text[line].name, ip |-> ip + 1]), errors)

(* Seeded fault: a label that is there is given the new address.           *)
FaultLastDefinitionWins ==
  /\ Reading("first") /\ text[line].kind = "label"
  /\ IF Known(text[line].name)
       THEN FirstPassLine(0, [k \in 1..Len(labels) |->
              IF labels[k].name = text[line].name THEN [labels[k] EXCEPT !.ip = ip] ELSE labels[k]], errors)
       ELSE FirstPassLine(0, Append(labels, [name |-> text[line].name, ip |-> ip]), errors)

(* A label that is already there, or finds the table full, is reported as -2
   and then skipped like any other: the test for -2 comes too late.        *)
FirstPassLabel ==
  /\ Reading("first") /\ text[line].kind = "label"
  /\ IF Known(text[line].name) \/ Len(labels) >= MaxLabels
       THEN FirstPassLine(0, labels, errors)
       ELSE FirstPassLine(0, Append(labels, [name |-> text[line].name, ip |-> ip]), errors)

FirstPassCommand ==
  /\ Reading("first") /\ IsCommand(text[line])
  /\ FirstPassLine(Width(text[line].op), labels,
                   IF text[line].op = "unknown" THEN errors \union {"UNKNOWN_COMMAND"} ELSE errors)

FirstPassEnd ==
  /\ AtEnd("first")
  /\ pass' = IF errors = {} THEN "second" ELSE "failed"
  /\ line' = 1
  /\ ip' = 0
  /\ code' = << >>
  /\ UNCHANGED <<text, labels, errors, file, mark>>

(* Seeded fault: continue before the next line is read.                    *)
FaultSkipRereads ==
  /\ Reading("second") /\ ~ IsCommand(text[line])
  /\ UNCHANGED vars

(* Seeded fault: fgets called once more for a line that is skipped.        *)
FaultSkipTwo ==
  /\ Reading("second") /\ ~ IsCommand(text[line])
  /\ line' = line + 2
  /\ UNCHANGED <<text, pass, ip, labels, code, errors, file, mark>>

SecondPassSkip ==
  /\ Reading("second") /\ ~ IsCommand(text[line])
  /\ line' = line + 1
  /\ UNCHANGED <<text, pass, ip, labels, code, errors, file, mark>>

(* Seeded fault: the last word of the buffer is taken for its end.         *)
FaultEmitShortBuffer(words) ==
  /\ code' = code \o words
  /\ pass' = IF Len(code') >= MaxCode THEN "overrun" ELSE "second"
  /\ line' = line + 1
  /\ ip' = ip + Width(text[line].op)
  /\ UNCHANGED <<text, labels, errors, file, mark>>

(* Seeded fault: the operand is written before its command.                *)
FaultEmitReversed(words) ==
  /\ code' = code \o [k \in 1..Len(words) |-> words[Len(words) + 1 - k]]
  /\ pass' = IF Len(code') > MaxCode THEN "overrun" ELSE "second"
  /\ line' = line + 1
  /\ ip' = ip + Width(text[line].op)
  /\ UNCHANGED <<text, labels, errors, file, mark>>

(* The words of a command, written without a look at the buffer's end.     *)
Emit(words) ==
  /\ code' = code \o words
  /\ pass' = IF Len(code') > MaxCode THEN "overrun" ELSE "second"
  /\ line' = line + 1
  /\ ip' = ip + Width(text[line].op)
  /\ UNCHANGED <<text, labels, errors, file, mark>>

SecondPassCommand ==
  /\ Reading("second") /\ IsCommand(text[line])
  /\ text[line].arg.t = "none"
  /\ Emit(<<Opcode(text[line].op)>>)

SecondPassOperand ==
  /\ Reading("second") /\ IsCommand(text[line])
  /\ text[line].arg.t # "none" /\ Valid(text[line].arg)
  /\ Emit(<<Opcode(text[line].op), Word(text[line].arg)>>)

SecondPassError ==
  /\ Reading("second") /\ IsCommand(text[line])
  /\ text[line].arg.t # "none" /\ ~ Valid(text[line].arg)
  /\ code' = Append(code, Opcode(text[line].op))
  /\ errors' = errors \union {"INVALID_COMMAND"}
  /\ pass' = IF Len(code') > MaxCode THEN "overrun" ELSE "failed"
  /\ UNCHANGED <<text, line, ip, labels, file, mark>>

SecondPassEnd ==
  /\ AtEnd("second")
  /\ pass' = "write"
  /\ UNCHANGED <<text, line, ip, labels, code, errors, file, mark>>

WriteFile ==
  /\ pass = "write"
  /\ pass' = "done"
  /\ file' = code
  /\ UNCHANGED <<text, line, ip, labels, code, errors, mark>>

(* fopen fails: at the start of either pass or for the byte code file.     *)
OpenFails ==
  /\ pass = "write" \/ (pass \in {"first", "second"} /\ line = 1)
  /\ pass' = "failed"
  /\ errors' = errors \union {"FILE_ERROR"}
  /\ UNCHANGED <<text, line, ip, labels, code, file, mark>>

Next ==
  \/ FirstPassBlank \/ FirstPassLabel \/ FirstPassCommand \/ FirstPassEnd
  \/ SecondPassSkip \/ SecondPassCommand \/ SecondPassOperand
  \/ SecondPassError \/ SecondPassEnd
  \/ WriteFile \/ OpenFails

Spec == Init /\ [][Next]_vars /\ WF_vars(Next)

-----------------------------------------------------------------------------
(* What the translator writes, and the assembler does not check: a command
   it knows, with an argument exactly when both passes count one.          *)
WellFormedLine(l) ==
  IsCommand(l) => /\ l.op # "unknown"
                  /\ l.op \in WithOperand <=> l.arg.t # "none"
WellFormedText == \A i \in 1..Len(text) : WellFormedLine(text[i])

(* The line whose label definition is_label keeps for the name n.          *)
FirstDefinition(n, d) ==
  /\ text[d].kind = "label" /\ text[d].name = n
  /\ \A i \in 1..d - 1 : ~ (text[i].kind = "label" /\ text[i].name = n)

Assembled == pass \in {"write", "done"}

(* The types of the variables.                                             *)
TypeOK ==
  /\ text \in Seq(Line)
  /\ pass \in {"first", "second", "write", "done", "failed", "overrun"}
  /\ line \in 1..Len(text) + 1
  /\ ip \in Nat
  /\ labels \in Seq([name : Name, ip : Nat])
  /\ code \in Seq(Int)
  /\ errors \subseteq {"UNKNOWN_COMMAND", "INVALID_COMMAND", "FILE_ERROR"}
  /\ file \in Seq(Int)
  /\ mark \in Seq(Nat)

(* The two passes walk the text apart and count alike: when the second
   reaches a line it has written the words the first counted before it
   (assember.cpp:247-249 against 295-319).                                 *)
PassesAgree ==
  pass = "second" /\ WellFormedText => Len(code) = mark[line] /\ ip = mark[line]

(* In the finished code every command stands where the first pass placed
   its line, and the operand of a jump or call is the place of the line
   after the first definition of its label; but a name that is read as a
   number or a register stands for that, whatever label there is, and no
   error is reported (assember.cpp:127-146 before 176).                    *)
LabelOperandsTarget ==
  Assembled /\ WellFormedText =>
    \A i \in 1..Len(text) : IsCommand(text[i]) =>
      /\ code[mark[i] + 1] = Opcode(text[i].op)
      /\ IsName(text[i].arg) =>
           IF Misread(text[i].arg) THEN code[mark[i] + 2] = ReadAs[text[i].arg.v]
           ELSE \E d \in 1..Len(text) : /\ FirstDefinition(text[i].arg.v, d)
                                        /\ code[mark[i] + 2] = mark[d]

(* The finished code is laid out the way the SPU needs it, so that it never
   executes an operand: each command has its words at its mark, and a jump
   or call to a label leads to such a mark, the end of the code included.
   This is not so of a text that jumps to a name read as something else.   *)
JumpsNamed == \A i \in 1..Len(text) :
  IsCommand(text[i]) /\ text[i].op \in Jumps \union {"CALL"} =>
    IsName(text[i].arg) /\ ~ Misread(text[i].arg)

AssembledIsLaidOut ==
  Assembled /\ WellFormedText /\ JumpsNamed =>
    LaidOut(code, {mark[i] : i \in 1..Len(mark)})

(* code_buffer is only left if the text really has more words than it: the
   writes at assember.cpp:295 and 314 look at no bound of their own.       *)
OverrunOnlyWhenTooLong ==
  pass = "overrun" /\ WellFormedText => mark[Len(text) + 1] > MaxCode

(* Every text is dealt with in the end, well-formed or not.                *)
Terminates == <>(pass \in {"done", "failed", "overrun"})
=============================================================================
