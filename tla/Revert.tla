------------------------------- MODULE Revert -------------------------------
(***************************************************************************)
(* Undoing a principal's edits (revertActor and revertNote of              *)
(* brain/src/hub.ts) over one note's log: rows with their actor and time,  *)
(* the snapshot that compaction folds them into, and the CRDT, which keeps *)
(* an update waiting until it has the ones it depends on.                  *)
(*                                                                         *)
(* What an edit wrote is one text, named by the row of the edit; an edit   *)
(* may also delete texts of earlier rows.  All of a note's edits and its   *)
(* revert run under the note's lock, so each is one step.                  *)
(***************************************************************************)
EXTENDS Naturals, Sequences, FiniteSetsExt

CONSTANTS
  Actors,
  Server,     \* the CRDT client of the hub's document; the others are actors'
  MaxRows,    \* bound: edits and reverts
  MaxTime     \* bound: what the clock may show; it may step back

ASSUME RevertAssumption ==
  /\ Server \notin Actors /\ "revert" \notin Actors
  /\ MaxRows \in Nat /\ MaxTime \in Nat

VARIABLES
  rows,      \* the edits in the order of the log, those folded in included
  folded,    \* how many of them the snapshot holds; 0 for no snapshot
  coversTs,  \* the snapshot's: the newest time folded in
  session,   \* the load of the hub's document, which names its CRDT client
  report     \* what the last revert said, until the note changes again

revertVars == <<rows, folded, coversTs, session, report>>

NoReport == [pc |-> "none"]

RevertInit ==
  /\ rows = <<>>
  /\ folded = 0 /\ coversTs = 0
  /\ session = 0
  /\ report = NoReport

----------------------------------------------------------------------------
(* The CRDT.                                                               *)

\* The rows an update needs: the former one of its client and the text it is
\* next to.
Needs(r) == rows[r].near \cup {q \in 1 .. r - 1 :
  rows[q].client = rows[r].client /\ \A p \in q + 1 .. r - 1 : rows[p].client # rows[r].client}

\* Of the rows S, those that do not wait for one that is not there.
Integrated(S) == UNION {T \in SUBSET S : \A r \in T : Needs(r) \subseteq T}

\* The texts a document with the rows S shows: <<row, text>>, the text being
\* that of another row when a revert wrote it again.  The deletions of an
\* update do not wait with it.
Shown(S) ==
  LET shown == Integrated(S) \ UNION {rows[d].deletes : d \in S} IN
  UNION {{r} \X rows[r].texts : r \in shown}

Live == Shown(1 .. Len(rows))
Texts(shown) == {s[2] : s \in shown}
ShownRows == {s[1] : s \in Live}
\* An edit goes after a text that is there, or after none.
Beside == {{}} \cup {{r} : r \in ShownRows}

----------------------------------------------------------------------------
(* Edits, compaction, loads.                                               *)

Logged(row) ==
  /\ Len(rows) < MaxRows
  /\ rows' = Append(rows, row)

\* An edit over HTTP is made in the hub's document, one over the socket in
\* the actor's replica.
EditNote(a, ts, client, near, deletes) ==
  /\ Logged([actor |-> a, ts |-> ts, client |-> client, near |-> near,
             texts |-> {Len(rows) + 1}, deletes |-> deletes])
  /\ report' = NoReport
  /\ UNCHANGED <<folded, coversTs, session>>

Unfolded == folded + 1 .. Len(rows)

\* saveSnapshot: every row is folded in, by a commit's count, an eviction or
\* the shutdown.
SaveSnapshot ==
  /\ folded < Len(rows)
  /\ folded' = Len(rows)
  /\ coversTs' = Max({rows[r].ts : r \in Unfolded} \cup {coversTs})
  /\ UNCHANGED <<rows, session, report>>

\* After an eviction or a restart the hub's document is a new CRDT client.
LoadAgain ==
  /\ \E r \in DOMAIN rows : rows[r].client = <<Server, session>>
  /\ session' = session + 1
  /\ UNCHANGED <<rows, folded, coversTs, report>>

----------------------------------------------------------------------------
(* The revert.                                                             *)

Dropped(a, since) == {r \in Unfolded : rows[r].actor = a /\ rows[r].ts >= since}

IsPartial_after(since) == folded > 0 /\ coversTs > since
IsPartial(since) == folded > 0 /\ coversTs >= since

\* What the snapshot shows and the rest of the log adds to it.
Clean(a, since) == Shown((1 .. Len(rows)) \ Dropped(a, since))

\* revertActor on a note notesTouchedBy lists.  The clean content is written
\* over the live one as text, so it is a new row's.
RevertNote(a, ts, since) ==
  /\ Dropped(a, since) # {}
  /\ Logged([actor |-> "revert", ts |-> ts, client |-> <<Server, session>>, near |-> {},
             texts |-> Texts(Clean(a, since)), deletes |-> ShownRows])
  /\ report' = [pc |-> "reverted", actor |-> a, since |-> since, partial |-> IsPartial(since),
                dropped |-> Dropped(a, since), before |-> Texts(Live)]
  /\ UNCHANGED <<folded, coversTs, session>>

RevertNext ==
  \/ \E a \in Actors, ts \in 1 .. MaxTime : \E client \in {<<Server, session>>, <<a, 0>>},
                          near \in Beside, deletes \in {{}, ShownRows} :
       EditNote(a, ts, client, near, deletes)
  \/ SaveSnapshot \/ LoadAgain
  \/ \E a \in Actors, ts, since \in 1 .. MaxTime : RevertNote(a, ts, since)

RevertSpec == RevertInit /\ [][RevertNext]_revertVars

----------------------------------------------------------------------------
RevertTypeOK ==
  /\ \A r \in DOMAIN rows :
       /\ rows[r].actor \in Actors \cup {"revert"} /\ rows[r].ts \in 1 .. MaxTime
       /\ rows[r].near \cup rows[r].deletes \subseteq 1 .. r - 1
       /\ rows[r].texts \subseteq 1 .. r
  /\ folded \in 0 .. Len(rows) /\ coversTs \in 0 .. MaxTime
  /\ Integrated(DOMAIN rows) = DOMAIN rows

Since(r) == rows[r].actor = report.actor /\ rows[r].ts >= report.since

\* The rows that need, however indirectly, one that was dropped.
Dependents ==
  {r \in DOMAIN rows : \A T \in SUBSET DOMAIN rows :
     report.dropped \subseteq T /\ (\A q \in DOMAIN rows : Needs(q) \cap T # {} => q \in T)
       => r \in T}

\* Texts that an earlier revert wrote again: they are its own by now.
Rewritten == UNION {rows[r].texts : r \in {q \in DOMAIN rows : rows[q].actor = "revert"} \ {Len(rows)}}

\* What a revert reports is so.  Reported without `partial`, nothing the actor
\* wrote since then is left, but for what an earlier revert had written again;
\* and nothing of the others is lost but what depends on what was undone.
RevertExact ==
  report.pc = "reverted" =>
    /\ ~report.partial =>
         \A t \in Texts(Live) : Since(t) => t \in Rewritten
    /\ \A t \in report.before :
         rows[t].actor # report.actor /\ t \notin Rewritten =>
           t \in Texts(Live) \cup Dependents

\* "While other principals' edits survive" (revert.test.ts): a text of another
\* actor that was there before the revert is there after it.
OthersSurvive ==
  report.pc = "reverted" =>
    \A t \in report.before : rows[t].actor # report.actor => t \in Texts(Live)
=============================================================================
