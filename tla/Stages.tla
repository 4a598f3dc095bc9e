------------------------------- MODULE Stages -------------------------------
(***************************************************************************)
(* The four executables and the files they hand to each other: run by hand *)
(* in any order, or by the goal run of the Makefile, which stops behind a  *)
(* stage that does not return 0.  The text is edited while they run, files *)
(* cannot be opened, disks are full, and a stage may be killed between any *)
(* two steps.                                                              *)
(*                                                                         *)
(* Of a program only its version counts, and what the stages think of it.  *)
(* What a file holds is of a version, and whole or torn: less than what a  *)
(* stage that was not disturbed makes of that version.                     *)
(***************************************************************************)
EXTENDS Naturals, Sequences

CONSTANT MaxEdits   (* BOUND: on the versions of the program               *)

(* "refused" by the frontend, "foreign" to the translator to NASM, refused
   by the assembler as "unassemblable", or a program the machine "stops" in
   the middle of.                                                          *)
Kinds  == {"fine", "refused", "foreign", "unassemblable", "stops"}
Stage  == {"frontend", "middleend", "backend", "backend_x64"}
File   == {"frontend", "middleend", "asm", "bytecode", "nasm"}
Step   == {"idle", "read", "open", "write", "assemble", "open code", "write code", "spu"}

Content == [of : Nat, kind : Kinds \union {"none"}, whole : BOOLEAN]
Missing == [of |-> 0, kind |-> "none", whole |-> FALSE]
Torn(c) == [c EXCEPT !.whole = FALSE]

(* The tree of a backend that could not load one: a root and nothing else. *)
Empty == [of |-> 0, kind |-> "fine", whole |-> TRUE]

(* Seeded fault: the translator to NASM takes the frontend's tree.         *)
FaultSource == [middleend |-> "frontend", backend |-> "middleend", backend_x64 |-> "frontend"]

(* The file a stage reads, and the one it writes.                          *)
Source == [middleend |-> "frontend", backend |-> "middleend", backend_x64 |-> "middleend"]
Target == [frontend |-> "frontend", middleend |-> "middleend", backend |-> "asm", backend_x64 |-> "nasm"]

NotRun == [tree |-> Missing, code |-> Missing]

VARIABLES
  prog,     (* input_program.txt                                           *)
  files,    (* the directory output                                        *)
  stage, step, tree,   (* the stage that runs, and the tree it holds       *)
  todo,     (* the stages make has still to run                            *)
  outcome,  (* of the last goal run: "none" | "running" | "made" | "failed" *)
  read,     (* HISTORY: what the frontend of the last goal run has read    *)
  faulty,   (* HISTORY: whether a file could not be written since          *)
  ran       (* HISTORY: the tree of the backend that came to the SPU last, and the code run *)

process == <<stage, step, tree, todo, outcome>>
history == <<read, faulty, ran>>
vars    == <<prog, files, process, history>>

Init ==
  /\ prog = [of |-> 1, kind |-> "fine", whole |-> TRUE]
  /\ files = [f \in File |-> Missing]
  /\ stage = "none" /\ step = "idle" /\ tree = Missing /\ todo = << >>
  /\ outcome = "none"
  /\ read = Missing /\ faulty = FALSE /\ ran = NotRun

-----------------------------------------------------------------------------
(* The programmer.                                                         *)
Edit ==
  /\ prog.of < MaxEdits
  /\ \E k \in Kinds : prog' = [of |-> prog.of + 1, kind |-> k, whole |-> TRUE]
  /\ UNCHANGED <<files, process, history>>

Launch(s, more, made) ==
  /\ step = "idle"
  /\ stage' = s /\ step' = "read" /\ tree' = Missing /\ todo' = more /\ outcome' = made
  /\ ran' = NotRun
  /\ UNCHANGED <<prog, files>>

ByHand ==
  /\ \E s \in Stage : Launch(s, << >>, "none")
  /\ UNCHANGED <<read, faulty>>

MakeRun ==
  /\ Launch("frontend", <<"middleend", "backend_x64">>, "running")
  /\ read' = Missing /\ faulty' = FALSE

LoggerClean ==
  /\ step = "idle"
  /\ files' = [f \in File |-> Missing]
  /\ outcome' = "none"
  /\ UNCHANGED <<prog, stage, step, tree, todo, history>>

-----------------------------------------------------------------------------
(* A stage returns: 0 if it is content.                                    *)
Return0(content) ==
  LET more == content /\ todo # << >> IN
  /\ tree' = Missing
  /\ stage' = IF more THEN Head(todo) ELSE "none"
  /\ step'  = IF more THEN "read" ELSE "idle"
  /\ todo'  = IF more THEN Tail(todo) ELSE << >>
  /\ outcome' = IF more \/ outcome # "running" THEN outcome ELSE IF content THEN "made" ELSE "failed"

Goes(to) == step' = to /\ UNCHANGED <<stage, tree, todo, outcome>>
Holds(t) == step' = "open" /\ tree' = t /\ UNCHANGED <<stage, todo, outcome>>

(* Seeded fault: the frontend is content with what it has refused.         *)
FaultRefuse == step = "read" /\ stage = "frontend" /\ Return0(TRUE)

(* A program that is refused, or cannot be read, leaves the files alone.   *)
Refuse == step = "read" /\ stage = "frontend" /\ Return0(FALSE)

Frontend ==
  /\ \/ Refuse /\ UNCHANGED read
     \/ /\ step = "read" /\ stage = "frontend" /\ prog.kind # "refused"
        /\ Holds(prog)
        /\ read' = IF outcome = "running" THEN prog ELSE read
  /\ UNCHANGED <<prog, files, faulty, ran>>

(* What remains of a torn file may still be a tree.                        *)
Load ==
  /\ step = "read" /\ stage # "frontend"
  /\ files[Source[stage]] # Missing
  /\ Holds(files[Source[stage]])
  /\ UNCHANGED <<prog, files, history>>

(* Without a tree the backend goes on: it tests a variable that nothing has
   been assigned to.                                                       *)
LoadFails ==
  /\ step = "read" /\ stage # "frontend"
  /\ IF stage = "backend" THEN Holds(Empty) ELSE Return0(FALSE)
  /\ UNCHANGED <<prog, files, history>>

(* Nobody looks at the results of save_tree and translate_to_nasm, and the
   backend skips the assembler.                                            *)
OpenFails ==
  /\ step = "open"
  /\ faulty' = TRUE
  /\ Return0(TRUE)
  /\ UNCHANGED <<prog, files, read, ran>>

(* The translator to NASM checks the variables before it opens its file.   *)
RefuseVariables ==
  /\ step = "open" /\ stage = "backend_x64"
  /\ tree.kind = "foreign" \/ ~tree.whole
  /\ Return0(TRUE)
  /\ UNCHANGED <<prog, files, history>>

Open ==
  /\ step = "open"
  /\ files' = [files EXCEPT ![Target[stage]] = Torn(tree)]
  /\ Goes("write")
  /\ UNCHANGED <<prog, history>>

AfterWriting == IF stage = "backend" THEN Goes("assemble") ELSE Return0(TRUE)

(* A full disk tears the file, and nobody looks.                           *)
Write ==
  /\ step = "write"
  /\ \/ files' = [files EXCEPT ![Target[stage]] = tree] /\ UNCHANGED faulty
     \/ UNCHANGED files /\ faulty' = TRUE
  /\ AfterWriting
  /\ UNCHANGED <<prog, read, ran>>

(* A translator that meets a node it does not know stops writing.          *)
Untranslatable ==
  /\ step = "write" /\ stage \in {"backend", "backend_x64"}
  /\ ~tree.whole \/ (stage = "backend_x64" /\ tree.kind = "foreign")
  /\ Return0(TRUE)
  /\ UNCHANGED <<prog, files, history>>

-----------------------------------------------------------------------------
(* The backend goes on: the assembler reads the file that was written.     *)
Assemble ==
  /\ step = "assemble" /\ files["asm"].kind # "unassemblable"
  /\ Goes("open code")
  /\ UNCHANGED <<prog, files, history>>

(* Seeded fault: the machine runs what the file of the byte code holds.    *)
FaultAssemblerFails ==
  /\ step \in {"assemble", "open code"}
  /\ Goes("spu")
  /\ UNCHANGED <<prog, files, history>>

(* It finds an error, or cannot open one of its files.                     *)
AssemblerFails ==
  /\ step \in {"assemble", "open code"}
  /\ Return0(FALSE)
  /\ UNCHANGED <<prog, files, history>>

OpenCode ==
  /\ step = "open code"
  /\ files' = [files EXCEPT !["bytecode"] = Torn(files["asm"])]
  /\ Goes("write code")
  /\ UNCHANGED <<prog, history>>

WriteCode ==
  /\ step = "write code"
  /\ \/ files' = [files EXCEPT !["bytecode"] = files["asm"]] /\ UNCHANGED faulty
     \/ UNCHANGED files /\ faulty' = TRUE
  /\ Goes("spu")
  /\ UNCHANGED <<prog, read, ran>>

(* A machine without code runs nothing, and is content.                    *)
RunSpu ==
  /\ step = "spu"
  /\ \/ /\ ran' = [tree |-> tree, code |-> files["bytecode"]]
        /\ \E content \in BOOLEAN :
             /\ files["bytecode"].whole => content = (files["bytecode"].kind # "stops")
             /\ Return0(content)
     \/ ran' = [tree |-> tree, code |-> Missing] /\ Return0(TRUE)
  /\ UNCHANGED <<prog, files, read, faulty>>

(* Killed, or stopped by an assertion; make gives up.                      *)
Kill ==
  /\ step # "idle"
  /\ stage' = "none" /\ step' = "idle" /\ tree' = Missing /\ todo' = << >>
  /\ outcome' = IF outcome = "running" THEN "failed" ELSE outcome
  /\ UNCHANGED <<prog, files, history>>

Next ==
  \/ Edit \/ ByHand \/ MakeRun \/ LoggerClean
  \/ Frontend \/ Load \/ LoadFails
  \/ OpenFails \/ RefuseVariables \/ Open \/ Write \/ Untranslatable
  \/ Assemble \/ AssemblerFails \/ OpenCode \/ WriteCode \/ RunSpu
  \/ Kill

Spec == Init /\ [][Next]_vars
-----------------------------------------------------------------------------
TypeOK ==
  /\ prog \in Content /\ files \in [File -> Content] /\ tree \in Content /\ read \in Content
  /\ stage \in Stage \union {"none"} /\ step \in Step
  /\ stage = "none" <=> step = "idle"
  /\ todo \in {<< >>, <<"backend_x64">>, <<"middleend", "backend_x64">>}
  /\ outcome \in {"none", "running", "made", "failed"}
  /\ faulty \in BOOLEAN
  /\ ran \in [tree : Content, code : Content]

(* Downstream nothing is newer: whatever is run, killed and edited in      *)
(* between, no file is of a later version than the file it is made from,   *)
(* so that running the later stages again never brings an older program    *)
(* back.                                                                   *)
NewerUpstream ==
  /\ files["frontend"].of <= prog.of
  /\ files["middleend"].of <= files["frontend"].of
  /\ \A f \in {"asm", "bytecode", "nasm"} : files[f].of <= files["middleend"].of

(* When make says that run is made, the text for NASM is that of the       *)
(* program its frontend has read, and so are the trees, unless a file      *)
(* could not be written or the translator refused the program: both leave  *)
(* what there was, and make is told nothing.                               *)
MakeRunDelivers ==
  outcome = "made" /\ ~faulty /\ read.kind # "foreign" =>
    \A f \in {"frontend", "middleend", "nasm"} : files[f] = read

(* A backend never runs the byte code of another tree than the one it      *)
(* holds, though the files it finds may be anybody's: what the machine ran *)
(* is that tree's code or what a full disk left of it.                     *)
SpuRunsWhatWasRead ==
  ran.code # Missing => ran.code \in {ran.tree, Torn(ran.tree)}
=============================================================================
