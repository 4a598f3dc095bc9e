---------------------------- MODULE StagesProofs ----------------------------
(***************************************************************************)
(* Proofs that the properties of Stages hold for every number of edits.    *)
(***************************************************************************)
EXTENDS Stages, TLAPS

(* What a stage holds, by the step it has come to.                         *)
Holding == step \in {"open", "write"}

StepsOfStages ==
  /\ step \in {"assemble", "open code", "write code", "spu"} => stage = "backend"
  /\ outcome = "running" => step # "idle"
  /\ outcome = "made" => step = "idle"

(* The tree of a stage that has still to write is not older than the file  *)
(* it will replace, where something downstream depends on that file.       *)
TreeIsOfSource ==
  /\ stage = "frontend" /\ Holding => files["frontend"].of <= tree.of /\ tree.of <= prog.of
  /\ stage = "middleend" /\ Holding => tree.of = files["frontend"].of
  /\ stage \in {"backend", "backend_x64"} /\ Holding => tree.of <= files["middleend"].of

(* From assembling on, the backend's own files.                            *)
CodeIsOfTree ==
  /\ stage = "backend" /\ step = "write" => files["asm"] = Torn(tree)
  /\ step \in {"assemble", "open code", "write code"} => files["asm"] \in {tree, Torn(tree)}
  /\ step = "write code" => files["bytecode"] = Torn(files["asm"])
  /\ step = "spu" => files["bytecode"] \in {tree, Torn(tree)}

(* How far make has come, as long as nothing went wrong.                   *)
RunOnItsWay ==
  outcome = "running" =>
    \/ /\ stage = "frontend" /\ todo = <<"middleend", "backend_x64">>
       /\ Holding => tree = read
       /\ step \in {"read", "open", "write"}
    \/ /\ stage = "middleend" /\ todo = <<"backend_x64">>
       /\ ~faulty => files["frontend"] = read /\ (Holding => tree = read)
       /\ step \in {"read", "open", "write"}
    \/ /\ stage = "backend_x64" /\ todo = << >>
       /\ ~faulty => files["frontend"] = read /\ files["middleend"] = read /\ (Holding => tree = read)
       /\ step \in {"read", "open", "write"}

WholeInput ==
  /\ prog.whole
  /\ outcome \in {"running", "made"} => read.whole \/ (stage = "frontend" /\ step = "read")

IInv ==
  /\ TypeOK /\ NewerUpstream /\ MakeRunDelivers /\ SpuRunsWhatWasRead
  /\ StepsOfStages /\ TreeIsOfSource /\ CodeIsOfTree /\ RunOnItsWay /\ WholeInput

-----------------------------------------------------------------------------
(* A stage that returns leaves the process as it should be.                *)
LEMMA ReturnKeepsTypes ==
  ASSUME TypeOK, NEW content \in BOOLEAN, Return0(content)
  PROVE  /\ tree' \in Content /\ stage' \in Stage \union {"none"} /\ step' \in Step
         /\ stage' = "none" <=> step' = "idle"
         /\ todo' \in {<< >>, <<"backend_x64">>, <<"middleend", "backend_x64">>}
         /\ outcome' \in {"none", "running", "made", "failed"}
  <1>1. tree' \in Content
    BY DEF Return0, Missing, Content
  <1>2. CASE content /\ todo # << >>
    <2>1. stage' = Head(todo) /\ todo' = Tail(todo) /\ step' = "read" /\ outcome' = outcome
      BY <1>2 DEF Return0
    <2>2. CASE todo = <<"backend_x64">>
      <3>1. Tail(todo) = << >> /\ Head(todo) = "backend_x64"
        BY <2>2
      <3> QED BY <1>1, <2>1, <3>1 DEF TypeOK, Stage, Step
    <2>3. CASE todo = <<"middleend", "backend_x64">>
      <3>1. Tail(todo) = <<"backend_x64">> /\ Head(todo) = "middleend"
        BY <2>3
      <3> QED BY <1>1, <2>1, <3>1 DEF TypeOK, Stage, Step
    <2> QED BY <1>2, <2>2, <2>3 DEF TypeOK
  <1>3. CASE ~(content /\ todo # << >>)
    BY <1>1, <1>3 DEF Return0, TypeOK, Step
  <1> QED BY <1>2, <1>3

LEMMA BooleanIsTwo == BOOLEAN = {TRUE, FALSE}
  OBVIOUS

LEMMA TornContent ==
  ASSUME NEW c \in Content
  PROVE  Torn(c) \in Content /\ Torn(c).of = c.of /\ Torn(Torn(c)) = Torn(c)
  BY DEF Torn, Content

(* The types are an invariant of their own.                                *)
LEMMA TypeInvariance == TypeOK /\ [Next]_vars => TypeOK'
  <1> SUFFICES ASSUME TypeOK, [Next]_vars PROVE TypeOK'
    OBVIOUS
  <1> USE DEF Stage, File, Step
  <1>m. Missing \in Content /\ Empty \in Content /\ NotRun \in [tree : Content, code : Content]
    BY DEF Missing, Empty, NotRun, Content, Kinds
  <1>1. CASE Edit
    <2>1. prog' \in Content
      <3>1. PICK k \in Kinds : prog' = [of |-> prog.of + 1, kind |-> k, whole |-> TRUE]
        BY <1>1 DEF Edit
      <3>2. prog \in Content
        BY DEF TypeOK
      <3>3. prog.of + 1 \in Nat
        BY <3>2 DEF Content
      <3> QED BY <3>1, <3>3 DEF Content
    <2> QED BY <1>1, <2>1 DEF Edit, TypeOK, process, history
  <1>2. CASE ByHand
    BY <1>2, <1>m DEF ByHand, Launch, TypeOK
  <1>3. CASE MakeRun
    BY <1>3, <1>m DEF MakeRun, Launch, TypeOK
  <1>4. CASE LoggerClean
    BY <1>4, <1>m DEF LoggerClean, TypeOK, history
  <1>5. CASE Frontend
    <2>1. CASE Refuse
      BY <1>5, <2>1, ReturnKeepsTypes DEF Frontend, Refuse, TypeOK
    <2>2. CASE Holds(prog)
      BY <1>5, <2>2 DEF Frontend, Refuse, Return0, Holds, TypeOK
    <2> QED BY <1>5, <2>1, <2>2 DEF Frontend
  <1>6. CASE Load
    <2>1. Source[stage] \in File
      BY <1>6 DEF Load, Source, TypeOK
    <2> QED BY <1>6, <2>1 DEF Load, Holds, TypeOK, history
  <1>7. CASE LoadFails
    <2>1. CASE stage = "backend"
      BY <1>7, <2>1, <1>m DEF LoadFails, Holds, TypeOK, history
    <2>2. CASE stage # "backend"
      BY <1>7, <2>2, ReturnKeepsTypes DEF LoadFails, TypeOK, history
    <2> QED BY <2>1, <2>2
  <1>8. CASE OpenFails
    BY <1>8, ReturnKeepsTypes DEF OpenFails, TypeOK
  <1>9. CASE RefuseVariables
    BY <1>9, ReturnKeepsTypes DEF RefuseVariables, TypeOK, history
  <1>10. CASE Open
    BY <1>10, TornContent DEF Open, Goes, TypeOK, history
  <1>11. CASE Write
    <2>1. files' \in [File -> Content] /\ faulty' \in BOOLEAN
      BY <1>11 DEF Write, TypeOK
    <2>2. CASE stage = "backend"
      BY <1>11, <2>1, <2>2 DEF Write, AfterWriting, Goes, TypeOK
    <2>3. CASE stage # "backend"
      BY <1>11, <2>1, <2>3, ReturnKeepsTypes DEF Write, AfterWriting, TypeOK
    <2> QED BY <2>2, <2>3
  <1>12. CASE Untranslatable
    BY <1>12, ReturnKeepsTypes DEF Untranslatable, TypeOK, history
  <1>13. CASE Assemble
    BY <1>13 DEF Assemble, Goes, TypeOK, history
  <1>14. CASE AssemblerFails
    BY <1>14, ReturnKeepsTypes DEF AssemblerFails, TypeOK, history
  <1>15. CASE OpenCode
    BY <1>15, TornContent DEF OpenCode, Goes, TypeOK, history
  <1>16. CASE WriteCode
    BY <1>16 DEF WriteCode, Goes, TypeOK
  <1>17. CASE RunSpu
    <2>1. Return0(TRUE) \/ Return0(FALSE)
      BY <1>17, BooleanIsTwo DEF RunSpu
    <2>2. ran' \in [tree : Content, code : Content]
      <3>1. tree \in Content /\ files["bytecode"] \in Content
        BY DEF TypeOK
      <3>2. ran' \in {[tree |-> tree, code |-> files["bytecode"]], [tree |-> tree, code |-> Missing]}
        BY <1>17 DEF RunSpu
      <3> QED BY <1>m, <3>1, <3>2
    <2>3. UNCHANGED <<prog, files, read, faulty>>
      BY <1>17 DEF RunSpu
    <2> QED BY <2>1, <2>2, <2>3, ReturnKeepsTypes DEF TypeOK
  <1>18. CASE Kill
    BY <1>18, <1>m DEF Kill, TypeOK, history
  <1>19. CASE UNCHANGED vars
    BY <1>19 DEF TypeOK, vars, process, history
  <1> QED
    BY <1>1, <1>2, <1>3, <1>4, <1>5, <1>6, <1>7, <1>8, <1>9, <1>10, <1>11, <1>12, <1>13, <1>14,
       <1>15, <1>16, <1>17, <1>18, <1>19 DEF Next

-----------------------------------------------------------------------------
(* Which stage may be at which step.                                       *)
LEMMA StepsInvariance ==
  ASSUME TypeOK, StepsOfStages, [Next]_vars PROVE StepsOfStages'
  <1> USE DEF StepsOfStages
  <1>1. CASE Edit
    BY <1>1 DEF Edit, process
  <1>2. CASE ByHand
    BY <1>2 DEF ByHand, Launch
  <1>3. CASE MakeRun
    BY <1>3 DEF MakeRun, Launch
  <1>4. CASE LoggerClean
    BY <1>4 DEF LoggerClean
  <1>5. CASE Frontend
    BY <1>5 DEF Frontend, Refuse, Return0, Holds
  <1>6. CASE Load
    BY <1>6 DEF Load, Holds
  <1>7. CASE LoadFails
    BY <1>7 DEF LoadFails, Holds, Return0
  <1>8. CASE OpenFails
    BY <1>8 DEF OpenFails, Return0
  <1>9. CASE RefuseVariables
    BY <1>9 DEF RefuseVariables, Return0
  <1>10. CASE Open
    BY <1>10 DEF Open, Goes
  <1>11. CASE Write
    BY <1>11 DEF Write, AfterWriting, Goes, Return0
  <1>12. CASE Untranslatable
    BY <1>12 DEF Untranslatable, Return0
  <1>13. CASE Assemble
    BY <1>13 DEF Assemble, Goes
  <1>14. CASE AssemblerFails
    BY <1>14 DEF AssemblerFails, Return0
  <1>15. CASE OpenCode
    BY <1>15 DEF OpenCode, Goes
  <1>16. CASE WriteCode
    BY <1>16 DEF WriteCode, Goes
  <1>17. CASE RunSpu
    <2>1. Return0(TRUE) \/ Return0(FALSE)
      BY <1>17, BooleanIsTwo DEF RunSpu
    <2>2. step = "spu"
      BY <1>17 DEF RunSpu
    <2> QED BY <2>1, <2>2 DEF Return0
  <1>18. CASE Kill
    BY <1>18 DEF Kill
  <1>19. CASE UNCHANGED vars
    BY <1>19 DEF vars, process
  <1> QED
    BY <1>1, <1>2, <1>3, <1>4, <1>5, <1>6, <1>7, <1>8, <1>9, <1>10, <1>11, <1>12, <1>13, <1>14,
       <1>15, <1>16, <1>17, <1>18, <1>19 DEF Next

-----------------------------------------------------------------------------
(* The versions are numbers, in files, trees and the program.              *)
LEMMA VersionsAreNumbers ==
  ASSUME TypeOK
  PROVE  prog.of \in Nat /\ tree.of \in Nat /\ \A f \in File : files[f] \in Content /\ files[f].of \in Nat
  <1>1. prog \in Content /\ tree \in Content /\ \A f \in File : files[f] \in Content
    BY DEF TypeOK
  <1> QED BY <1>1 DEF Content

(* A step that leaves the files and the program alone, and what a stage    *)
(* holds as long as it holds something.                                    *)
LEMMA UpstreamUntouched ==
  ASSUME NewerUpstream, TreeIsOfSource, UNCHANGED <<prog, files>>,
         ~Holding' \/ (Holding /\ UNCHANGED <<stage, tree>>)
  PROVE  NewerUpstream' /\ TreeIsOfSource'
  BY DEF NewerUpstream, TreeIsOfSource, Holding

(* Whatever of its tree a stage puts into its file keeps the order.        *)
LEMMA WritingKeepsOrder ==
  ASSUME TypeOK, NewerUpstream, TreeIsOfSource, Holding, NEW c, c.of = tree.of,
         files' = [files EXCEPT ![Target[stage]] = c], prog' = prog
  PROVE  NewerUpstream' /\ (UNCHANGED <<stage, tree>> => TreeIsOfSource')
  <1>n. prog.of \in Nat /\ tree.of \in Nat /\ \A f \in File : files[f].of \in Nat
    BY VersionsAreNumbers
  <1>d. stage \in Stage /\ DOMAIN files = File
    BY DEF TypeOK, Holding
  <1>1. CASE stage = "frontend"
    BY <1>1, <1>n, <1>d DEF Target, File, NewerUpstream, TreeIsOfSource, Holding
  <1>2. CASE stage = "middleend"
    BY <1>2, <1>n, <1>d DEF Target, File, NewerUpstream, TreeIsOfSource, Holding
  <1>3. CASE stage = "backend"
    BY <1>3, <1>n, <1>d DEF Target, File, NewerUpstream, TreeIsOfSource, Holding
  <1>4. CASE stage = "backend_x64"
    BY <1>4, <1>n, <1>d DEF Target, File, NewerUpstream, TreeIsOfSource, Holding
  <1> QED BY <1>1, <1>2, <1>3, <1>4, <1>d DEF Stage

(* Stages replace what is older upstream before what is made from it.      *)
LEMMA UpstreamInvariance ==
  ASSUME TypeOK, StepsOfStages, NewerUpstream, TreeIsOfSource, [Next]_vars
  PROVE  NewerUpstream' /\ TreeIsOfSource'
  <1> USE DEF Holding
  <1>n. prog.of \in Nat /\ tree.of \in Nat /\ \A f \in File : files[f].of \in Nat
    BY VersionsAreNumbers
  <1>1. CASE Edit
    <2>1. prog'.of = prog.of + 1 /\ UNCHANGED <<files, stage, step, tree>>
      BY <1>1 DEF Edit, process
    <2> QED BY <1>n, <2>1 DEF NewerUpstream, TreeIsOfSource, File
  <1>2. CASE ByHand
    BY <1>2, UpstreamUntouched DEF ByHand, Launch
  <1>3. CASE MakeRun
    BY <1>3, UpstreamUntouched DEF MakeRun, Launch
  <1>4. CASE LoggerClean
    <2>1. \A f \in File : files'[f].of = 0
      BY <1>4 DEF LoggerClean, Missing
    <2> QED BY <1>4, <1>n, <2>1 DEF LoggerClean, NewerUpstream, TreeIsOfSource, File
  <1>5. CASE Frontend
    <2>1. CASE Refuse
      BY <1>5, <2>1, UpstreamUntouched DEF Frontend, Refuse, Return0
    <2>2. CASE stage = "frontend" /\ Holds(prog)
      BY <1>5, <1>n, <2>2 DEF Frontend, Holds, NewerUpstream, TreeIsOfSource, File
    <2> QED BY <1>5, <2>1, <2>2 DEF Frontend
  <1>6. CASE Load
    <2>1. tree' = files[Source[stage]] /\ UNCHANGED <<files, stage, prog>> /\ stage # "frontend"
      BY <1>6 DEF Load, Holds
    <2>2. Source["middleend"] = "frontend" /\ Source["backend"] = "middleend" /\ Source["backend_x64"] = "middleend"
      BY DEF Source
    <2> QED BY <1>n, <2>1, <2>2 DEF NewerUpstream, TreeIsOfSource, File
  <1>7. CASE LoadFails
    <2>1. CASE stage = "backend"
      <3>1. tree'.of = 0 /\ UNCHANGED <<files, stage, prog>>
        BY <1>7, <2>1 DEF LoadFails, Holds, Empty
      <3> QED BY <1>n, <2>1, <3>1 DEF NewerUpstream, TreeIsOfSource, File
    <2>2. CASE stage # "backend"
      BY <1>7, <2>2, UpstreamUntouched DEF LoadFails, Return0
    <2> QED BY <2>1, <2>2
  <1>8. CASE OpenFails
    BY <1>8, UpstreamUntouched DEF OpenFails, Return0
  <1>9. CASE RefuseVariables
    BY <1>9, UpstreamUntouched DEF RefuseVariables, Return0
  <1>10. CASE Open
    <2>1. Torn(tree).of = tree.of
      BY TornContent DEF TypeOK
    <2>2. files' = [files EXCEPT ![Target[stage]] = Torn(tree)] /\ UNCHANGED <<stage, tree, prog>> /\ Holding
      BY <1>10 DEF Open, Goes
    <2> QED BY <1>n, <2>1, <2>2, WritingKeepsOrder
  <1>11. CASE Write
    <2>1. CASE UNCHANGED files
      BY <1>11, <2>1, UpstreamUntouched DEF Write, AfterWriting, Goes, Return0
    <2>2. CASE files' = [files EXCEPT ![Target[stage]] = tree]
      <3>1. NewerUpstream'
        BY <1>11, <2>2, <1>n, WritingKeepsOrder DEF Write
      <3>2. ~Holding'
        BY <1>11 DEF Write, AfterWriting, Goes, Return0
      <3> QED BY <3>1, <3>2 DEF TreeIsOfSource
    <2> QED BY <1>11, <2>1, <2>2 DEF Write
  <1>12. CASE Untranslatable
    BY <1>12, UpstreamUntouched DEF Untranslatable, Return0
  <1>13. CASE Assemble
    BY <1>13, UpstreamUntouched DEF Assemble, Goes
  <1>14. CASE AssemblerFails
    BY <1>14, UpstreamUntouched DEF AssemblerFails, Return0
  <1>15. CASE OpenCode
    <2>1. Torn(files["asm"]).of = files["asm"].of
      BY VersionsAreNumbers, TornContent DEF File
    <2>2. files' = [files EXCEPT !["bytecode"] = Torn(files["asm"])] /\ prog' = prog /\ ~Holding'
      BY <1>15 DEF OpenCode, Goes
    <2> QED BY <1>n, <2>1, <2>2 DEF NewerUpstream, TreeIsOfSource, File, TypeOK
  <1>16. CASE WriteCode
    <2>1. CASE UNCHANGED files
      BY <1>16, <2>1, UpstreamUntouched DEF WriteCode, Goes
    <2>2. CASE files' = [files EXCEPT !["bytecode"] = files["asm"]]
      <3>1. prog' = prog /\ ~Holding'
        BY <1>16 DEF WriteCode, Goes
      <3> QED BY <1>n, <2>2, <3>1 DEF NewerUpstream, TreeIsOfSource, File, TypeOK
    <2> QED BY <1>16, <2>1, <2>2 DEF WriteCode
  <1>17. CASE RunSpu
    <2>1. Return0(TRUE) \/ Return0(FALSE)
      BY <1>17, BooleanIsTwo DEF RunSpu
    <2>2. UNCHANGED <<prog, files>>
      BY <1>17 DEF RunSpu
    <2> QED BY <2>1, <2>2, UpstreamUntouched DEF Return0
  <1>18. CASE Kill
    BY <1>18, UpstreamUntouched DEF Kill
  <1>19. CASE UNCHANGED vars
    BY <1>19 DEF vars, process, NewerUpstream, TreeIsOfSource
  <1> QED
    BY <1>1, <1>2, <1>3, <1>4, <1>5, <1>6, <1>7, <1>8, <1>9, <1>10, <1>11, <1>12, <1>13, <1>14,
       <1>15, <1>16, <1>17, <1>18, <1>19 DEF Next

-----------------------------------------------------------------------------
(* A step that leads out of the backend's second half, or stays before it. *)
LEMMA CodeAway ==
  ASSUME SpuRunsWhatWasRead, step' \notin {"write", "assemble", "open code", "write code", "spu"},
         UNCHANGED ran \/ ran' = NotRun
  PROVE  CodeIsOfTree' /\ SpuRunsWhatWasRead'
  <1>1. CodeIsOfTree'
    BY DEF CodeIsOfTree
  <1>2. CASE ran' = NotRun
    <2>1. ran'.code = Missing
      BY <1>2 DEF NotRun
    <2> QED BY <1>1, <2>1 DEF SpuRunsWhatWasRead
  <1>3. CASE UNCHANGED ran
    BY <1>1, <1>3 DEF SpuRunsWhatWasRead
  <1> QED BY <1>2, <1>3

(* The byte code the machine finds is that of the tree the backend holds.  *)
LEMMA CodeInvariance ==
  ASSUME TypeOK, StepsOfStages, CodeIsOfTree, SpuRunsWhatWasRead, [Next]_vars
  PROVE  CodeIsOfTree' /\ SpuRunsWhatWasRead'
  <1>t. tree \in Content /\ DOMAIN files = File /\ "asm" \in File /\ "bytecode" \in File
    BY DEF TypeOK, File
  <1>1. CASE Edit
    BY <1>1 DEF Edit, process, history, CodeIsOfTree, SpuRunsWhatWasRead
  <1>2. CASE ByHand
    BY <1>2, CodeAway DEF ByHand, Launch
  <1>3. CASE MakeRun
    BY <1>3, CodeAway DEF MakeRun, Launch
  <1>4. CASE LoggerClean
    BY <1>4, CodeAway DEF LoggerClean, history
  <1>5. CASE Frontend
    BY <1>5, CodeAway DEF Frontend, Refuse, Return0, Holds
  <1>6. CASE Load
    BY <1>6, CodeAway DEF Load, Holds, history
  <1>7. CASE LoadFails
    BY <1>7, CodeAway DEF LoadFails, Holds, Return0, history
  <1>8. CASE OpenFails
    BY <1>8, CodeAway DEF OpenFails, Return0, history
  <1>9. CASE RefuseVariables
    BY <1>9, CodeAway DEF RefuseVariables, Return0, history
  <1>10. CASE Open
    <2>1. stage = "backend" => files'["asm"] = Torn(tree)
      BY <1>10, <1>t DEF Open, Target
    <2>2. step' = "write" /\ UNCHANGED <<stage, tree, ran>>
      BY <1>10 DEF Open, Goes, history
    <2> QED BY <2>1, <2>2 DEF CodeIsOfTree, SpuRunsWhatWasRead
  <1>11. CASE Write
    <2>1. CASE stage = "backend"
      <3>1. files'["asm"] \in {tree, Torn(tree)}
        BY <1>11, <1>t, <2>1 DEF Write, Target, CodeIsOfTree
      <3>2. step' = "assemble" /\ UNCHANGED <<tree, ran>>
        BY <1>11, <2>1 DEF Write, AfterWriting, Goes
      <3> QED BY <3>1, <3>2 DEF CodeIsOfTree, SpuRunsWhatWasRead
    <2>2. CASE stage # "backend"
      BY <1>11, <2>2, CodeAway DEF Write, AfterWriting, Return0
    <2> QED BY <2>1, <2>2
  <1>12. CASE Untranslatable
    BY <1>12, CodeAway DEF Untranslatable, Return0, history
  <1>13. CASE Assemble
    BY <1>13 DEF Assemble, Goes, history, CodeIsOfTree, SpuRunsWhatWasRead
  <1>14. CASE AssemblerFails
    BY <1>14, CodeAway DEF AssemblerFails, Return0, history
  <1>15. CASE OpenCode
    <2>1. files'["bytecode"] = Torn(files["asm"]) /\ files'["asm"] = files["asm"]
      BY <1>15, <1>t DEF OpenCode
    <2>2. step = "open code" /\ step' = "write code" /\ UNCHANGED <<tree, ran>>
      BY <1>15 DEF OpenCode, Goes, history
    <2> QED BY <2>1, <2>2 DEF CodeIsOfTree, SpuRunsWhatWasRead
  <1>16. CASE WriteCode
    <2>1. files'["bytecode"] \in {files["asm"], Torn(files["asm"])}
      BY <1>16, <1>t DEF WriteCode, CodeIsOfTree
    <2>2. files["asm"] \in {tree, Torn(tree)} /\ Torn(Torn(tree)) = Torn(tree)
      BY <1>16, <1>t, TornContent DEF WriteCode, CodeIsOfTree
    <2>3. step' = "spu" /\ UNCHANGED <<tree, ran>>
      BY <1>16 DEF WriteCode, Goes
    <2> QED BY <2>1, <2>2, <2>3 DEF CodeIsOfTree, SpuRunsWhatWasRead
  <1>17. CASE RunSpu
    <2>1. step' \in {"idle", "read"}
      BY <1>17, BooleanIsTwo DEF RunSpu, Return0
    <2>2. ran' \in {[tree |-> tree, code |-> files["bytecode"]], [tree |-> tree, code |-> Missing]}
      BY <1>17 DEF RunSpu
    <2>3. files["bytecode"] \in {tree, Torn(tree)}
      BY <1>17 DEF RunSpu, CodeIsOfTree
    <2>4. ran'.tree = tree /\ ran'.code \in {files["bytecode"], Missing}
      BY <2>2
    <2>5. SpuRunsWhatWasRead'
      BY <2>3, <2>4 DEF SpuRunsWhatWasRead
    <2> QED BY <2>1, <2>5 DEF CodeIsOfTree
  <1>18. CASE Kill
    BY <1>18, CodeAway DEF Kill, history
  <1>19. CASE UNCHANGED vars
    BY <1>19 DEF vars, process, history, CodeIsOfTree, SpuRunsWhatWasRead
  <1> QED
    BY <1>1, <1>2, <1>3, <1>4, <1>5, <1>6, <1>7, <1>8, <1>9, <1>10, <1>11, <1>12, <1>13, <1>14,
       <1>15, <1>16, <1>17, <1>18, <1>19 DEF Next

-----------------------------------------------------------------------------
(* Where nothing is being made, or has been.                               *)
LEMMA NothingMade ==
  ASSUME prog'.whole, outcome' \notin {"running", "made"}
  PROVE  RunOnItsWay' /\ WholeInput' /\ MakeRunDelivers'
  BY DEF RunOnItsWay, WholeInput, MakeRunDelivers

(* What must have been written when a stage that make runs returns 0.      *)
Delivered ==
  /\ stage \in {"frontend", "middleend", "backend_x64"} => files'["frontend"] = read
  /\ stage \in {"middleend", "backend_x64"} => files'["middleend"] = read
  /\ stage = "backend_x64" => files'["nasm"] = read \/ read.kind = "foreign"

LEMMA StageReturns ==
  ASSUME TypeOK, StepsOfStages, RunOnItsWay, WholeInput, Return0(TRUE), UNCHANGED <<prog, read>>,
         step # "idle", ~(stage = "frontend" /\ step = "read"),
         outcome = "running" /\ ~faulty' => ~faulty /\ Delivered
  PROVE  RunOnItsWay' /\ WholeInput' /\ MakeRunDelivers'
  <1>1. CASE outcome # "running"
    <2>1. outcome' \notin {"running", "made"}
      BY <1>1 DEF Return0, StepsOfStages
    <2> QED BY <2>1, NothingMade DEF WholeInput
  <1>2. CASE outcome = "running"
    <2>w. WholeInput' /\ read.whole
      BY <1>2 DEF WholeInput
    <2>1. CASE stage = "frontend"
      <3>1. todo = <<"middleend", "backend_x64">>
        BY <1>2, <2>1 DEF RunOnItsWay
      <3>2. Head(todo) = "middleend" /\ Tail(todo) = <<"backend_x64">> /\ todo # << >>
        BY <3>1
      <3>3. outcome' = "running" /\ stage' = "middleend" /\ todo' = <<"backend_x64">> /\ step' = "read"
        BY <1>2, <3>2 DEF Return0
      <3>4. ~faulty' => files'["frontend"] = read
        BY <1>2, <2>1 DEF Delivered
      <3> QED BY <2>w, <3>3, <3>4 DEF RunOnItsWay, MakeRunDelivers, Holding
    <2>2. CASE stage = "middleend"
      <3>1. todo = <<"backend_x64">>
        BY <1>2, <2>2 DEF RunOnItsWay
      <3>2. Head(todo) = "backend_x64" /\ Tail(todo) = << >> /\ todo # << >>
        BY <3>1
      <3>3. outcome' = "running" /\ stage' = "backend_x64" /\ todo' = << >> /\ step' = "read"
        BY <1>2, <3>2 DEF Return0
      <3>4. ~faulty' => files'["frontend"] = read /\ files'["middleend"] = read
        BY <1>2, <2>2 DEF Delivered
      <3> QED BY <2>w, <3>3, <3>4 DEF RunOnItsWay, MakeRunDelivers, Holding
    <2>3. CASE stage = "backend_x64"
      <3>1. todo = << >>
        BY <1>2, <2>3 DEF RunOnItsWay
      <3>2. outcome' = "made"
        BY <1>2, <3>1 DEF Return0
      <3> QED BY <1>2, <2>3, <2>w, <3>2 DEF RunOnItsWay, MakeRunDelivers, Delivered
    <2> QED BY <1>2, <2>1, <2>2, <2>3 DEF RunOnItsWay
  <1> QED BY <1>1, <1>2

(* make does not run the backend for the SPU.                              *)
LEMMA BackendIsByHand ==
  ASSUME StepsOfStages, RunOnItsWay, step \in {"assemble", "open code", "write code", "spu"}
  PROVE  outcome \notin {"running", "made"}
  BY DEF StepsOfStages, RunOnItsWay

(* A goal run that is not disturbed carries one program through.           *)
LEMMA RunInvariance ==
  ASSUME TypeOK, StepsOfStages, RunOnItsWay, WholeInput, MakeRunDelivers, [Next]_vars
  PROVE  RunOnItsWay' /\ WholeInput' /\ MakeRunDelivers'
  <1>f. DOMAIN files = File /\ File = {"frontend", "middleend", "asm", "bytecode", "nasm"}
    BY DEF TypeOK, File
  <1>1. CASE Edit
    <2>1. prog'.whole /\ UNCHANGED <<files, process, read, faulty>>
      BY <1>1 DEF Edit, history
    <2> QED BY <2>1 DEF process, RunOnItsWay, WholeInput, MakeRunDelivers, Holding
  <1>2. CASE ByHand
    BY <1>2, NothingMade DEF ByHand, Launch, WholeInput
  <1>3. CASE MakeRun
    <2>1. /\ outcome' = "running" /\ stage' = "frontend" /\ step' = "read" /\ prog' = prog
          /\ todo' = <<"middleend", "backend_x64">>
      BY <1>3 DEF MakeRun, Launch
    <2> QED BY <2>1 DEF RunOnItsWay, WholeInput, MakeRunDelivers, Holding
  <1>4. CASE LoggerClean
    BY <1>4, NothingMade DEF LoggerClean, WholeInput
  <1>5. CASE Frontend
    <2>1. CASE Refuse
      <3>1. step # "idle" /\ outcome' \notin {"running", "made"} /\ prog' = prog
        BY <1>5, <2>1 DEF Frontend, Refuse, Return0, StepsOfStages
      <3> QED BY <3>1, NothingMade DEF WholeInput
    <2>2. CASE stage = "frontend" /\ step = "read" /\ Holds(prog) /\ read' = IF outcome = "running" THEN prog ELSE read
      <3>1. step' = "open" /\ tree' = prog /\ UNCHANGED <<prog, stage, todo, outcome, files>>
        BY <1>5, <2>2 DEF Frontend, Holds
      <3> QED BY <2>2, <3>1 DEF RunOnItsWay, WholeInput, MakeRunDelivers, Holding, StepsOfStages
    <2> QED BY <1>5, <2>1, <2>2 DEF Frontend
  <1>6. CASE Load
    <2>1. step' = "open" /\ tree' = files[Source[stage]] /\ UNCHANGED <<prog, stage, todo, outcome, files, read, faulty>>
      BY <1>6 DEF Load, Holds, history
    <2>2. Source["middleend"] = "frontend" /\ Source["backend_x64"] = "middleend"
      BY DEF Source
    <2>3. stage # "frontend" /\ step = "read"
      BY <1>6 DEF Load
    <2> QED BY <2>1, <2>2, <2>3 DEF RunOnItsWay, WholeInput, MakeRunDelivers, Holding, StepsOfStages
  <1>7. CASE LoadFails
    <2>1. CASE stage = "backend"
      <3>1. outcome \notin {"running", "made"} /\ outcome' = outcome /\ prog' = prog
        BY <1>7, <2>1 DEF LoadFails, Holds, RunOnItsWay, StepsOfStages
      <3> QED BY <3>1, NothingMade DEF WholeInput
    <2>2. CASE stage # "backend"
      <3>1. step # "idle" /\ outcome' \notin {"running", "made"} /\ prog' = prog
        BY <1>7, <2>2 DEF LoadFails, Return0, StepsOfStages
      <3> QED BY <3>1, NothingMade DEF WholeInput
    <2> QED BY <2>1, <2>2
  <1>8. CASE OpenFails
    BY <1>8, StageReturns DEF OpenFails
  <1>9. CASE RefuseVariables
    <2>1. stage = "backend_x64" /\ step = "open" /\ (tree.kind = "foreign" \/ ~tree.whole) /\ UNCHANGED <<prog, files, read, faulty>>
      BY <1>9 DEF RefuseVariables, history
    <2>2. outcome = "running" /\ ~faulty' => ~faulty /\ Delivered
      BY <2>1 DEF RunOnItsWay, WholeInput, Holding, Delivered
    <2> QED BY <1>9, <2>1, <2>2, StageReturns DEF RefuseVariables
  <1>10. CASE Open
    <2>1. UNCHANGED <<prog, stage, tree, todo, outcome, read, faulty>> /\ step = "open" /\ step' = "write"
      BY <1>10 DEF Open, Goes, history
    <2>2. /\ stage \in {"middleend", "backend_x64"} => files'["frontend"] = files["frontend"]
          /\ stage = "backend_x64" => files'["middleend"] = files["middleend"]
      BY <1>10, <1>f DEF Open, Target
    <2> QED BY <2>1, <2>2 DEF RunOnItsWay, WholeInput, MakeRunDelivers, Holding, StepsOfStages
  <1>11. CASE Write
    <2>0. UNCHANGED <<prog, read>> /\ step = "write"
      BY <1>11 DEF Write
    <2>1. CASE stage = "backend"
      <3>1. outcome \notin {"running", "made"} /\ outcome' = outcome
        BY <1>11, <2>1 DEF Write, AfterWriting, Goes, RunOnItsWay, StepsOfStages
      <3> QED BY <2>0, <3>1, NothingMade DEF WholeInput
    <2>2. CASE stage # "backend"
      <3>1. outcome = "running" /\ ~faulty' => ~faulty /\ files' = [files EXCEPT ![Target[stage]] = tree]
        BY <1>11 DEF Write, TypeOK
      <3>2. outcome = "running" /\ ~faulty' => Delivered
        BY <1>f, <2>0, <2>2, <3>1 DEF RunOnItsWay, Holding, Delivered, Target
      <3>3. Return0(TRUE)
        BY <1>11, <2>2 DEF Write, AfterWriting
      <3> QED BY <2>0, <3>1, <3>2, <3>3, StageReturns
    <2> QED BY <2>1, <2>2
  <1>12. CASE Untranslatable
    <2>1. step = "write" /\ UNCHANGED <<prog, files, read, faulty>> /\ stage \in {"backend", "backend_x64"}
      BY <1>12 DEF Untranslatable, history
    <2>2. ~tree.whole \/ (stage = "backend_x64" /\ tree.kind = "foreign")
      BY <1>12 DEF Untranslatable
    <2>3. outcome = "running" /\ ~faulty' => ~faulty /\ Delivered
      BY <2>1, <2>2 DEF RunOnItsWay, WholeInput, Holding, Delivered
    <2> QED BY <1>12, <2>1, <2>3, StageReturns DEF Untranslatable
  <1>13. CASE Assemble
    BY <1>13, BackendIsByHand, NothingMade DEF Assemble, Goes, WholeInput
  <1>14. CASE AssemblerFails
    BY <1>14, BackendIsByHand, NothingMade DEF AssemblerFails, Return0, WholeInput
  <1>15. CASE OpenCode
    BY <1>15, BackendIsByHand, NothingMade DEF OpenCode, Goes, WholeInput
  <1>16. CASE WriteCode
    BY <1>16, BackendIsByHand, NothingMade DEF WriteCode, Goes, WholeInput
  <1>17. CASE RunSpu
    <2>1. (Return0(TRUE) \/ Return0(FALSE)) /\ prog' = prog /\ step = "spu"
      BY <1>17, BooleanIsTwo DEF RunSpu
    <2> QED BY <2>1, BackendIsByHand, NothingMade DEF Return0, WholeInput
  <1>18. CASE Kill
    <2>1. outcome' \notin {"running", "made"} /\ prog' = prog
      BY <1>18 DEF Kill, StepsOfStages
    <2> QED BY <2>1, NothingMade DEF WholeInput
  <1>19. CASE UNCHANGED vars
    BY <1>19 DEF vars, process, history, RunOnItsWay, WholeInput, MakeRunDelivers, Holding
  <1> QED
    BY <1>1, <1>2, <1>3, <1>4, <1>5, <1>6, <1>7, <1>8, <1>9, <1>10, <1>11, <1>12, <1>13, <1>14,
       <1>15, <1>16, <1>17, <1>18, <1>19 DEF Next

-----------------------------------------------------------------------------
LEMMA InitialInvariant == Init => IInv
  <1> SUFFICES ASSUME Init PROVE IInv
    OBVIOUS
  <1>1. prog \in Content /\ Missing \in Content /\ NotRun \in [tree : Content, code : Content]
    BY DEF Init, Missing, NotRun, Content, Kinds
  <1>2. TypeOK
    BY <1>1 DEF Init, TypeOK, Step
  <1>3. NewerUpstream /\ TreeIsOfSource
    <2>1. \A f \in File : files[f].of = 0
      BY DEF Init, Missing
    <2> QED BY <2>1 DEF Init, NewerUpstream, TreeIsOfSource, File, Holding
  <1>4. MakeRunDelivers /\ SpuRunsWhatWasRead
    BY DEF Init, MakeRunDelivers, SpuRunsWhatWasRead, NotRun
  <1>5. StepsOfStages /\ CodeIsOfTree /\ RunOnItsWay /\ WholeInput
    BY DEF Init, StepsOfStages, CodeIsOfTree, RunOnItsWay, WholeInput
  <1> QED BY <1>2, <1>3, <1>4, <1>5 DEF IInv

LEMMA Invariance == IInv /\ [Next]_vars => IInv'
  BY TypeInvariance, StepsInvariance, UpstreamInvariance, CodeInvariance, RunInvariance DEF IInv

LEMMA InvariantHolds == Spec => []IInv
  BY InitialInvariant, Invariance, PTL DEF Spec

(* The model never leaves the states its variables are declared for.       *)
THEOREM TypesHold == Spec => []TypeOK
  <1>1. IInv => TypeOK
    BY DEF IInv
  <1> QED BY <1>1, InvariantHolds, PTL

(* However often the stages are run, killed and disturbed, and whatever is *)
(* edited in between, no file is newer than what it is made from.          *)
THEOREM DownstreamIsOlder == Spec => []NewerUpstream
  <1>1. IInv => NewerUpstream
    BY DEF IInv
  <1> QED BY <1>1, InvariantHolds, PTL

(* make run with no failing write delivers the program its frontend read,  *)
(* from whatever files an earlier run has left.                            *)
THEOREM RunDelivers == Spec => []MakeRunDelivers
  <1>1. IInv => MakeRunDelivers
    BY DEF IInv
  <1> QED BY <1>1, InvariantHolds, PTL

(* The machine runs the code of the tree the backend holds.                *)
THEOREM SpuRunsItsOwn == Spec => []SpuRunsWhatWasRead
  <1>1. IInv => SpuRunsWhatWasRead
    BY DEF IInv
  <1> QED BY <1>1, InvariantHolds, PTL
=============================================================================
