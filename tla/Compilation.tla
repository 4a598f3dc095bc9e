---------------------------- MODULE Compilation ----------------------------
(***************************************************************************)
(* What the stages make of a text of Source, one behind the other: main of *)
(* exe/frontend.cpp, of exe/middleend.cpp and of exe/backend.cpp up to the *)
(* assembler.                                                              *)
(***************************************************************************)
EXTENDS Source, Codegen

stageVars   == <<parsed, analysed, loaded, translation>>
compileVars == <<sourceVars, stageVars>>

CompileInit == Init /\ parsed = No /\ analysed = Bad /\ loaded = Nil /\ translation = Begin

(* Another text: the files of the one before are written over.             *)
WriteOn == Next /\ parsed' = No /\ analysed' = Bad /\ loaded' = Nil /\ translation' = Begin

Compile ==
  /\ parsed = No
  /\ \E r \in {GetProgram} : \E a \in {Analysis(r)} : \E l \in {Middleend(a)} :
       parsed' = r /\ analysed' = a /\ loaded' = l /\ translation' = Backend(l)
  /\ UNCHANGED sourceVars

CompileNext == WriteOn \/ Compile

CompileSpec == CompileInit /\ [][CompileNext]_compileVars
=============================================================================
