------------------------------ MODULE NoteLog ------------------------------
(***************************************************************************)
(* What the hub promises of a note, whatever is resident, compacted,       *)
(* evicted or restarted underneath: a note is a set of deltas that grows   *)
(* by one accepted delta at a time, only accepted deltas are shown to      *)
(* other clients, and nothing but a purge takes one away.                  *)
(***************************************************************************)
CONSTANTS Notes, Delta

VARIABLES
  note,   \* note[k]: the accepted deltas of note k
  shown   \* shown[k]: those sent to other clients

vars == <<note, shown>>

Init ==
  /\ note = [k \in Notes |-> {}]
  /\ shown = [k \in Notes |-> {}]

Accept(k, d) ==
  /\ note' = [note EXCEPT ![k] = @ \cup {d}]
  /\ UNCHANGED shown

Show(k, d) ==
  /\ d \in note[k]
  /\ shown' = [shown EXCEPT ![k] = @ \cup {d}]
  /\ UNCHANGED note

Expunge(k) ==
  /\ note' = [note EXCEPT ![k] = {}]
  /\ shown' = [shown EXCEPT ![k] = {}]

Next ==
  \E k \in Notes : Expunge(k) \/ \E d \in Delta : Accept(k, d) \/ Show(k, d)

Spec == Init /\ [][Next]_vars
=============================================================================
