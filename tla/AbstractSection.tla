-------------------------- MODULE AbstractSection --------------------------
(***************************************************************************)
(* What section_t promises to the emitters: an append-only sequence of     *)
(* bytes.  Every write of an emitter lands behind the ones before it, in   *)
(* the order of the calls; destroying the section empties it.  Nothing is  *)
(* said of capacities: Section refines this module.                        *)
(***************************************************************************)
EXTENDS Sequences

CONSTANT Byte

VARIABLES
  pending,   (* the writes the running emitter still has to make            *)
  out        (* the bytes of the section                                    *)

avars == <<pending, out>>

Init == pending = << >> /\ out = << >>

Call ==
  /\ pending = << >>
  /\ pending' \in Seq(Seq(Byte))
  /\ out' = out

Write ==
  /\ pending # << >>
  /\ out' = out \o Head(pending)
  /\ pending' = Tail(pending)

Destroy ==
  /\ pending = << >>
  /\ out' = << >>
  /\ pending' = pending

Next == Call \/ Write \/ Destroy

Spec == Init /\ [][Next]_avars
=============================================================================
