---------------------------- MODULE DerivedIndex ----------------------------
(***************************************************************************)
(* The index a hub derives from its notes (reindex of brain/src/hub.ts over *)
(* the index tables of brain/src/store): a row, a full text, a vector and  *)
(* the edges of each note.  Every store call is an await.  A write has its *)
(* note's lock from its first look at the note to the end of its reindex;  *)
(* a load has no lock, so that it may read the store before a write or a   *)
(* purge, and install and index what it read after it.  The process may    *)
(* end.                                                                    *)
(*                                                                         *)
(* A note's text is its version; of what it says only the targets of its   *)
(* links are kept, titles and ids alike.  What the log and the snapshots   *)
(* make of a note's texts is HubDoc's: here the store has one per note.    *)
(***************************************************************************)
EXTENDS Naturals, FiniteSets

CONSTANTS
  IndexNotes,
  IndexTitles,
  StubOf,      \* stubId: StubOf[t] is the id of the stub for title t
  Links,       \* the sets of targets a text may link to
  MaxChanges,  \* bound: texts and purges
  MaxDrops     \* bound: evictions and restarts

ASSUME IndexAssumption ==
  /\ StubOf \in [IndexTitles -> {StubOf[t] : t \in IndexTitles} \ IndexNotes]
  /\ IndexNotes \cap IndexTitles = {} /\ MaxChanges \in Nat /\ MaxDrops \in Nat
  /\ Links \subseteq SUBSET (IndexTitles \cup IndexNotes) /\ \A l \in Links : IsFiniteSet(l)
  /\ IndexTitles # {}

VARIABLES
  stored,    \* stored[n]: what a load finds, [version, title, targets, deleted]
  memory,    \* memory[n]: the text of n's document in memory, at most one
  writer,    \* writer[n]: who has n's lock, until its reindex starts
  job,       \* job[n][k]: n's reindex by its writer or its loader
  indexed,   \* indexed[n]: what the hub last set out to index of n
  row,       \* row[i]: the titles of the row of i, at most one
  fulltext,  \* fulltext[n]: the version of n that is indexed; 0 for none
  vector,    \* vector[n]: the version embedded
  edges,     \* edges[n]: the ids the edges of n lead to
  stubs,     \* stubs with a row
  skipped,   \* notes whose last embedding failed
  unsure,    \* notes with reindexes of two texts at once, or whose last was cut off
  changes, drops

tables == <<row, fulltext, vector, edges, stubs, skipped>>
indexVars == <<stored, memory, writer, job, indexed, tables, unsure, changes, drops>>

Unwritten == [version |-> 0, title |-> CHOOSE t \in IndexTitles : TRUE,
              targets |-> {}, deleted |-> FALSE]
Absent == [Unwritten EXCEPT !.deleted = TRUE]
NoJob == [pc |-> "none", doc |-> Unwritten, todo |-> {}, resolved |-> {}]
Kinds == {"load", "write"}

\* A writer has found a row (existed), then has a document: the one in memory
\* (own), unless that is evicted meanwhile.
Nobody == [pc |-> "none", existed |-> FALSE, doc |-> Unwritten, own |-> FALSE]

IndexInit ==
  /\ stored = [n \in IndexNotes |-> Unwritten]
  /\ memory = [n \in IndexNotes |-> {}]
  /\ writer = [n \in IndexNotes |-> Nobody]
  /\ job = [n \in IndexNotes |-> [k \in Kinds |-> NoJob]]
  /\ indexed = [n \in IndexNotes |-> Absent]
  /\ row = [n \in IndexNotes |-> {}]
  /\ fulltext = [n \in IndexNotes |-> 0]
  /\ vector = [n \in IndexNotes |-> 0]
  /\ edges = [n \in IndexNotes |-> {}]
  /\ stubs = {} /\ skipped = {} /\ unsure = {}
  /\ changes = 0 /\ drops = 0

Idle(n, k) == job[n][k].pc = "none"
Indexing(n, k) == job[n][k].pc \notin {"none", "read"}
Unlocked(n) == writer[n].pc = "none" /\ Idle(n, "write")

\* A reindex has its text, title and tags before its first await.
Started(d) ==
  [NoJob EXCEPT !.pc = IF d.deleted THEN "deleteNode" ELSE "node",
                !.doc = d, !.todo = d.targets]

\* The reindex k of n starts: alone, it makes the index right again; beside one
\* of another text it is left to chance which of the two is the last.
Starts(n, k, d) ==
  /\ job' = [job EXCEPT ![n][k] = Started(d)]
  /\ indexed' = [indexed EXCEPT ![n] = d]
  /\ unsure' = IF \A l \in Kinds : ~Indexing(n, l) THEN unsure \ {n}
               ELSE unsure \cup {m \in {n} : \E l \in Kinds : Indexing(n, l) /\ job[n][l].doc # d}

----------------------------------------------------------------------------
(* Loads and evictions.                                                    *)

\* getDoc, as far as the store's answer.
ReadDoc(n) ==
  /\ memory[n] = {} /\ Idle(n, "load")
  /\ job' = [job EXCEPT ![n]["load"] = [NoJob EXCEPT !.pc = "read", !.doc = stored[n]]]
  /\ UNCHANGED <<stored, memory, writer, indexed, tables, unsure, changes, drops>>

\* getDoc goes on with what it read: the document can be used before its
\* reindex ends.  One that was never written is not indexed.
InstallDoc(n) ==
  LET d == job[n]["load"].doc IN
  /\ job[n]["load"].pc = "read"
  /\ memory' = [memory EXCEPT ![n] = {d}]
  /\ IF d.version > 0 THEN Starts(n, "load", d)
     ELSE job' = [job EXCEPT ![n]["load"] = NoJob] /\ UNCHANGED <<indexed, unsure>>
  /\ UNCHANGED <<stored, writer, tables, changes, drops>>

Evict(n) ==
  /\ memory[n] # {} /\ drops < MaxDrops
  /\ memory' = [memory EXCEPT ![n] = {}]
  /\ writer' = [writer EXCEPT ![n].own = FALSE]
  /\ drops' = drops + 1
  /\ UNCHANGED <<stored, job, indexed, tables, unsure, changes>>

----------------------------------------------------------------------------
(* Writes and purges, under the note's lock.                               *)

\* hasNote, the first await under the lock.
Check(n) ==
  /\ Unlocked(n)
  /\ writer' = [writer EXCEPT ![n] = [Nobody EXCEPT !.pc = "checked", !.existed = row[n] # {}]]
  /\ UNCHANGED <<stored, memory, job, indexed, tables, unsure, changes, drops>>

\* The writer has the document, and its pre-image.  One that shares a load
\* under way is one that has found the document and goes on later.
Hold(n) ==
  /\ writer[n].pc = "checked"
  /\ \E d \in memory[n] :
       writer' = [writer EXCEPT ![n] = [@ EXCEPT !.pc = "held", !.doc = d, !.own = TRUE]]
  /\ UNCHANGED <<stored, memory, job, indexed, tables, unsure, changes, drops>>

\* The quota is reached, or there is nothing to change.
Leave(n) ==
  /\ writer[n].pc = "held" \/ (writer[n].pc = "checked" /\ ~writer[n].existed)
  /\ writer' = [writer EXCEPT ![n] = Nobody]
  /\ UNCHANGED <<stored, memory, job, indexed, tables, unsure, changes, drops>>

\* commit, as far as the log; its reindex follows.  If the writer's document
\* is behind the store's, a load finds a text that is neither's.
WriteDoc(n, t, targets, deleted) ==
  LET w == writer[n]
      text(v) == [version |-> v, title |-> t, targets |-> targets, deleted |-> deleted]
  IN
  /\ w.pc = "held" /\ changes < MaxChanges
  /\ deleted => w.doc.version > 0 /\ t = w.doc.title /\ targets = w.doc.targets
  /\ changes' = IF stored[n] = w.doc THEN changes + 1 ELSE changes + 2
  /\ stored' = [stored EXCEPT ![n] = text(changes')]
  /\ memory' = IF w.own THEN [memory EXCEPT ![n] = {text(changes + 1)}] ELSE memory
  /\ writer' = [writer EXCEPT ![n] = Nobody]
  /\ Starts(n, "write", text(changes + 1))
  /\ UNCHANGED <<tables, drops>>

\* rollbackWrite: the pre-image is indexed; a note that had no row is dropped.
RollBack(n) ==
  LET w == writer[n] IN
  /\ w.pc = "held"
  /\ IF w.existed THEN Starts(n, "write", w.doc) /\ UNCHANGED memory
     ELSE Starts(n, "write", Absent) /\ memory' = [memory EXCEPT ![n] = {}]
  /\ writer' = [writer EXCEPT ![n] = Nobody]
  /\ UNCHANGED <<stored, tables, changes, drops>>

\* purgeNote, as far as the store's transaction: edges into the note go as well.
PurgeDoc(n) ==
  /\ Unlocked(n) /\ changes < MaxChanges
  /\ stored' = [stored EXCEPT ![n] = Unwritten]
  /\ writer' = [writer EXCEPT ![n].pc = "purged"]
  /\ indexed' = [indexed EXCEPT ![n] = Absent]
  /\ row' = [row EXCEPT ![n] = {}]
  /\ fulltext' = [fulltext EXCEPT ![n] = 0]
  /\ vector' = [vector EXCEPT ![n] = 0]
  /\ edges' = [m \in IndexNotes |-> IF m = n THEN {} ELSE edges[m] \ {n}]
  /\ unsure' = IF Indexing(n, "load") THEN unsure \cup {n} ELSE unsure \ {n}
  /\ changes' = changes + 1
  /\ UNCHANGED <<memory, job, stubs, skipped, drops>>

\* Then the document in memory goes, whichever it is by now.
Purged(n) ==
  /\ writer[n].pc = "purged"
  /\ memory' = [memory EXCEPT ![n] = {}]
  /\ writer' = [writer EXCEPT ![n] = Nobody]
  /\ UNCHANGED <<stored, job, indexed, tables, unsure, changes, drops>>

\* The process ends, with the reindexes under way.
Restart ==
  /\ drops < MaxDrops
  /\ memory' = [n \in IndexNotes |-> {}]
  /\ writer' = [n \in IndexNotes |-> Nobody]
  /\ drops' = drops + 1
  /\ job' = [n \in IndexNotes |-> [k \in Kinds |-> NoJob]]
  /\ unsure' = unsure \cup {n \in IndexNotes : \E k \in Kinds : Indexing(n, k)}
  /\ UNCHANGED <<stored, indexed, tables, changes>>

----------------------------------------------------------------------------
(* reindex, a store call at a time.                                        *)

Step(n, k, from, to) ==
  /\ job[n][k].pc = from
  /\ job' = [job EXCEPT ![n][k] = IF to = "none" THEN NoJob ELSE [@ EXCEPT !.pc = to]]
  /\ UNCHANGED <<stored, memory, writer, indexed, unsure, changes, drops>>

UpsertNode(n, k) ==
  /\ Step(n, k, "node", "text")
  /\ row' = [row EXCEPT ![n] = {job[n][k].doc.title}]
  /\ UNCHANGED <<fulltext, vector, edges, stubs, skipped>>

SearchUpsert(n, k) ==
  /\ Step(n, k, "text", "embed")
  /\ fulltext' = [fulltext EXCEPT ![n] = job[n][k].doc.version]
  /\ UNCHANGED <<row, vector, edges, stubs, skipped>>

\* An embedder that fails is passed over: the former vector stays.
Embed(n, k) ==
  /\ Step(n, k, "embed", "resolve")
  /\ \/ vector' = [vector EXCEPT ![n] = job[n][k].doc.version] /\ skipped' = skipped \ {n}
     \/ skipped' = skipped \cup {n} /\ UNCHANGED vector
  /\ UNCHANGED <<row, fulltext, edges, stubs>>

\* findIdByTitle: any one of the notes of that title.
Titled(t) == {m \in IndexNotes : t \in row[m]}

\* resolveTitleAsync: an id is itself; a title no note has gets a stub.
Resolve(n, k, t) ==
  /\ job[n][k].pc = "resolve" /\ t \in job[n][k].todo
  /\ \E i \in IF t \in IndexNotes THEN {t}
              ELSE IF Titled(t) # {} THEN Titled(t) ELSE {StubOf[t]} :
       /\ job' = [job EXCEPT ![n][k].todo = @ \ {t}, ![n][k].resolved = @ \cup {i}]
       /\ stubs' = stubs \cup ({i} \ IndexNotes)
  /\ UNCHANGED <<stored, memory, writer, indexed, row, fulltext, vector, edges, skipped,
                 unsure, changes, drops>>

ReplaceEdgesFrom_adding(n, k) ==
  /\ job[n][k].todo = {} /\ Step(n, k, "resolve", "none")
  /\ edges' = [edges EXCEPT ![n] = @ \cup job[n][k].resolved]
  /\ UNCHANGED <<row, fulltext, vector, stubs, skipped>>

ReplaceEdgesFrom(n, k) ==
  /\ job[n][k].todo = {} /\ Step(n, k, "resolve", "none")
  /\ edges' = [edges EXCEPT ![n] = job[n][k].resolved]
  /\ UNCHANGED <<row, fulltext, vector, stubs, skipped>>

\* A tombstone is taken out of the index, as is what a roll-back drops: the
\* roll-back has its edges last.
RolledBack(n, k) == job[n][k].doc.version = 0
Unindex(n, k) ==
  \/ /\ Step(n, k, "deleteNode", IF RolledBack(n, k) THEN "searchDelete" ELSE "noEdges")
     /\ row' = [row EXCEPT ![n] = {}]
     /\ UNCHANGED <<fulltext, vector, edges, stubs, skipped>>
  \/ /\ Step(n, k, "noEdges", IF RolledBack(n, k) THEN "none" ELSE "searchDelete")
     /\ edges' = [edges EXCEPT ![n] = {}]
     /\ UNCHANGED <<row, fulltext, vector, stubs, skipped>>
  \/ /\ Step(n, k, "searchDelete", "deleteEmbedding")
     /\ fulltext' = [fulltext EXCEPT ![n] = 0]
     /\ UNCHANGED <<row, vector, edges, stubs, skipped>>
  \/ /\ Step(n, k, "deleteEmbedding", IF RolledBack(n, k) THEN "noEdges" ELSE "none")
     /\ vector' = [vector EXCEPT ![n] = 0]
     /\ UNCHANGED <<row, fulltext, edges, stubs, skipped>>

Reindex(n, k) ==
  \/ UpsertNode(n, k) \/ SearchUpsert(n, k) \/ Embed(n, k)
  \/ \E t \in IndexTitles \cup IndexNotes : Resolve(n, k, t)
  \/ ReplaceEdgesFrom(n, k) \/ Unindex(n, k)

IndexNext ==
  \/ \E n \in IndexNotes :
       \/ ReadDoc(n) \/ InstallDoc(n) \/ Evict(n)
       \/ Check(n) \/ Hold(n) \/ Leave(n) \/ RollBack(n) \/ PurgeDoc(n) \/ Purged(n)
       \/ \E t \in IndexTitles, targets \in Links, deleted \in BOOLEAN : WriteDoc(n, t, targets, deleted)
       \/ \E k \in Kinds : Reindex(n, k)
  \/ Restart

IndexSpec == IndexInit /\ [][IndexNext]_indexVars

----------------------------------------------------------------------------
IndexTypeOK ==
  /\ \A doc \in {stored, indexed} :
       doc \in [IndexNotes -> [version : 0 .. changes, title : IndexTitles,
                               targets : Links \cup {{}}, deleted : BOOLEAN]]
  /\ \A n \in IndexNotes : writer[n].own => memory[n] = {writer[n].doc}
  /\ skipped \subseteq IndexNotes /\ unsure \subseteq IndexNotes
  /\ row \in [IndexNotes -> SUBSET IndexTitles]
  /\ fulltext \in [IndexNotes -> 0 .. changes]
  /\ vector \in [IndexNotes -> 0 .. changes]
  /\ stubs \subseteq {StubOf[t] : t \in IndexTitles}
  /\ \A n \in IndexNotes : edges[n] \subseteq IndexNotes \cup stubs
  /\ changes \in 0 .. MaxChanges + 1 /\ drops \in 0 .. MaxDrops

\* Where no reindex of a note is under way, none was cut off and no two of
\* different texts overlapped, the index is that of the text the hub last set
\* out to index: of a load, a write or a roll-back, whatever was written,
\* rolled back or purged between a load's read and its reindex.  It has nothing
\* of a note that is deleted, purged or was never written; else its row and
\* text, its vector if the embedder did not fail, at most an edge per link, and
\* stubs only for the titles it links to.
IndexExact == \A n \in IndexNotes :
  LET d == indexed[n] IN
  n \notin unsure /\ (\A k \in Kinds : ~Indexing(n, k)) =>
    IF d.deleted
    THEN row[n] = {} /\ fulltext[n] = 0 /\ vector[n] = 0 /\ edges[n] = {}
    ELSE /\ row[n] = {d.title} /\ fulltext[n] = d.version
         /\ vector[n] = d.version \/ n \in skipped
         /\ Cardinality(edges[n]) <= Cardinality(d.targets)
         /\ edges[n] \ IndexNotes \subseteq {StubOf[t] : t \in d.targets \cap IndexTitles}
=============================================================================
