----------------------------- MODULE NoteStore -----------------------------
(***************************************************************************)
(* What the store keeps for one note: a snapshot (its state and the seq it *)
(* covers) and the append-only tail of updates after it (store.ts; the     *)
(* SQLite and PostgreSQL stores implement the same contract).  The value   *)
(* of a note is a file: a record of both.                                  *)
(*                                                                         *)
(* A delta is an opaque value and a document is the set of deltas applied  *)
(* to it: Y.applyUpdate is idempotent and commutative, so equal sets are   *)
(* equal documents.  Every operator below is one store call, which is one  *)
(* transaction.                                                            *)
(***************************************************************************)
EXTENDS Naturals

\* No snapshot (seq 0) and no update: seqs are AUTOINCREMENT from 1.
EmptyFile == [seq |-> 0, state |-> {}, updates |-> {}]

File(Delta) ==
  [seq : Nat, state : SUBSET Delta, updates : SUBSET [seq : Nat, delta : Delta]]

LogTail_off_by_one(f) == {u \in f.updates : u.seq > f.seq + 1}

\* The log rows loadDoc reads: those after the snapshot.
LogTail(f) == {u \in f.updates : u.seq > f.seq}

Loaded_without_tail(f) ==
  IF f.seq > 0 THEN f.state ELSE {u.delta : u \in LogTail(f)}

\* loadDoc, applied to an empty document: the snapshot, then the tail.
Loaded(f) == f.state \cup {u.delta : u \in LogTail(f)}

\* loadDoc finds nothing: no snapshot row and no update row.
NeverWritten(f) == f.seq = 0 /\ f.updates = {}

Appended_replacing(f, s, d) == [f EXCEPT !.updates = {[seq |-> s, delta |-> d]}]

\* appendUpdate: one row, under a seq the store has never handed out.
Appended(f, s, d) == [f EXCEPT !.updates = @ \cup {[seq |-> s, delta |-> d]}]

Compacted_drops_the_tail(f, s, state) ==
  [f EXCEPT !.seq = s, !.state = state, !.updates = {}]

\* saveSnapshot: replace the snapshot whatever its seq was, and compact.
Compacted(f, s, state) ==
  [f EXCEPT !.seq = s, !.state = state, !.updates = {u \in @ : u.seq > s}]

Purged_but_snapshot(f) == [f EXCEPT !.updates = {}]

\* purgeNote: no trace of the note in the log or the snapshots.
Purged(f) == EmptyFile
=============================================================================
