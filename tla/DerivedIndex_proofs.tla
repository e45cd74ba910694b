------------------------ MODULE DerivedIndex_proofs ------------------------
(***************************************************************************)
(* The index of a note is exact for any notes, titles, links and number of *)
(* loads, writes, roll-backs, purges, evictions and restarts, wherever no   *)
(* two reindexes of different texts overlapped and none was cut off.        *)
(*                                                                         *)
(* A reindex is known by how far it is: the tables it has written say what *)
(* its text says.  While the note is not unsure all of its reindexes have  *)
(* the text the hub last set out to index, so that neither takes back what *)
(* the other has written.                                                  *)
(***************************************************************************)
EXTENDS DerivedIndex, FiniteSetTheorems, TLAPS

StubIds == {StubOf[t] : t \in IndexTitles}
Targets == IndexTitles \cup IndexNotes

DocType == [version : Nat, title : IndexTitles, targets : Links \cup {{}}, deleted : BOOLEAN]

Writing == {"node", "text", "embed", "resolve"}
Deleting == {"deleteNode", "noEdges", "searchDelete", "deleteEmbedding"}

Still == {"none", "read"}

JobType == [pc : Still \cup Writing \cup Deleting, doc : DocType,
            todo : SUBSET Targets, resolved : SUBSET (IndexNotes \cup StubIds)]

WriterType == [pc : {"none", "checked", "held", "purged"}, existed : BOOLEAN,
               doc : DocType, own : BOOLEAN]

TypeInv ==
  /\ stored \in [IndexNotes -> DocType] /\ indexed \in [IndexNotes -> DocType]
  /\ memory \in [IndexNotes -> SUBSET DocType]
  /\ writer \in [IndexNotes -> WriterType]
  /\ skipped \subseteq IndexNotes /\ unsure \subseteq IndexNotes
  /\ job \in [IndexNotes -> [Kinds -> JobType]]
  /\ row \in [IndexNotes -> SUBSET IndexTitles]
  /\ fulltext \in [IndexNotes -> Nat]
  /\ vector \in [IndexNotes -> Nat]
  /\ edges \in [IndexNotes -> SUBSET (IndexNotes \cup StubIds)]
  /\ stubs \subseteq StubIds
  /\ changes \in 0 .. MaxChanges + 1 /\ drops \in 0 .. MaxDrops

\* What a reindex has resolved: at most an id per link it is done with, and
\* stubs only for titles among them.
Resolved(j) ==
  LET done == j.doc.targets \ j.todo IN
  /\ IsFiniteSet(j.resolved) /\ Cardinality(j.resolved) <= Cardinality(done)
  /\ j.resolved \ IndexNotes \subseteq {StubOf[t] : t \in done \cap IndexTitles}

Sound(j) ==
  j.pc \notin Still =>
    /\ j.doc.deleted = (j.pc \in Deleting)
    /\ j.todo \subseteq j.doc.targets
    /\ Resolved(j)

\* No text has a version that was never given.
Bounded(n) ==
  /\ stored[n].version <= changes /\ indexed[n].version <= changes
  /\ vector[n] <= changes /\ fulltext[n] <= changes
  /\ \A d \in memory[n] : d.version <= changes
  /\ writer[n].doc.version <= changes
  /\ \A k \in Kinds : job[n][k].doc.version <= changes

\* A load that has yet to install its document is alone to have one, and a
\* writer's own document is the one in memory; a reindex of the writer's comes
\* after it.
Owned(n) ==
  /\ job[n]["load"].pc = "read" => memory[n] = {}
  /\ writer[n].own => memory[n] = {writer[n].doc}
  /\ \A d, e \in memory[n] : d = e
  /\ writer[n].pc # "none" => Idle(n, "write")

\* How far the reindex j of n is.
Progress(n, j) ==
  j.pc \notin Still =>
    /\ j.doc = indexed[n]
    /\ j.pc \in {"text", "embed", "resolve"} => row[n] = {j.doc.title}
    /\ j.pc \in {"embed", "resolve"} => fulltext[n] = j.doc.version
    /\ j.pc = "resolve" => vector[n] = j.doc.version \/ n \in skipped
    /\ j.pc \in {"noEdges", "searchDelete", "deleteEmbedding"} => row[n] = {}
    /\ j.pc \in {"searchDelete", "deleteEmbedding"} /\ j.doc.version # 0 => edges[n] = {}
    /\ j.pc = "deleteEmbedding" => fulltext[n] = 0
    /\ j.pc = "noEdges" /\ j.doc.version = 0 => fulltext[n] = 0 /\ vector[n] = 0

\* What IndexExact says of a note.
Exact(n) ==
  LET d == indexed[n] IN
  n \notin unsure /\ (\A k \in Kinds : ~Indexing(n, k)) =>
    IF d.deleted
    THEN row[n] = {} /\ fulltext[n] = 0 /\ vector[n] = 0 /\ edges[n] = {}
    ELSE /\ row[n] = {d.title} /\ fulltext[n] = d.version
         /\ vector[n] = d.version \/ n \in skipped
         /\ Cardinality(edges[n]) <= Cardinality(d.targets)
         /\ edges[n] \ IndexNotes \subseteq {StubOf[t] : t \in d.targets \cap IndexTitles}

IndexInv(n) ==
  /\ \A k \in Kinds : Sound(job[n][k]) /\ (n \notin unsure => Progress(n, job[n][k]))
  /\ IsFiniteSet(edges[n]) /\ Exact(n)

\* Edges lead to notes and to stubs that have a row.
Led == \A n \in IndexNotes :
  /\ edges[n] \subseteq IndexNotes \cup stubs
  /\ \A k \in Kinds : job[n][k].resolved \subseteq IndexNotes \cup stubs

Base == TypeInv /\ \A n \in IndexNotes : Bounded(n) /\ Owned(n)

ExactInv ==
  /\ Base /\ Led
  /\ \A n \in IndexNotes : IndexInv(n)

----------------------------------------------------------------------------
LEMMA Distinct ==
  /\ Still \cap (Writing \cup Deleting) = {} /\ Writing \cap Deleting = {}
  /\ Kinds = {"load", "write"}
  BY DEF Still, Writing, Deleting, Kinds

LEMMA UnwrittenTyped ==
  /\ Unwritten \in DocType /\ Unwritten.version = 0
  /\ Absent \in DocType /\ Absent.version = 0 /\ Absent.deleted
  BY IndexAssumption DEF Unwritten, Absent, DocType

LEMMA NoJobTyped == NoJob \in JobType /\ NoJob.pc = "none" /\ Sound(NoJob)
                    /\ NoJob.doc.version = 0 /\ NoJob.resolved = {}
  BY UnwrittenTyped DEF NoJob, JobType, Sound, Still

LEMMA NobodyTyped == Nobody \in WriterType /\ ~Nobody.own /\ Nobody.doc.version = 0
  BY UnwrittenTyped DEF Nobody, WriterType

\* A reindex that starts has resolved nothing.
LEMMA StartedFine ==
  ASSUME NEW d \in DocType
  PROVE  /\ Started(d) \in JobType /\ Sound(Started(d))
         /\ Started(d).pc \in {"node", "deleteNode"} /\ Started(d).doc = d
         /\ Started(d).resolved = {}
<1> DEFINE j == Started(d)
<1>1. j = [NoJob EXCEPT !.pc = IF d.deleted THEN "deleteNode" ELSE "node",
                        !.doc = d, !.todo = d.targets]
  BY DEF Started
<1>2. d.targets \subseteq Targets /\ d.deleted \in BOOLEAN
  BY IndexAssumption DEF DocType, Targets
<1>3. /\ j.pc = IF d.deleted THEN "deleteNode" ELSE "node"
      /\ j.doc = d /\ j.todo = d.targets /\ j.resolved = {}
  BY <1>1, NoJobTyped DEF JobType
<1>4. j \in JobType
  BY <1>1, <1>2, NoJobTyped DEF JobType, Writing, Deleting
<1>5. Resolved(j)
  <2>1. j.doc.targets \ j.todo = {}
    BY <1>3
  <2> QED BY <1>3, <2>1, FS_EmptySet DEF Resolved
<1>6. j.doc.deleted = (j.pc \in Deleting)
  BY <1>2, <1>3 DEF Deleting
<1>7. Sound(j)
  BY <1>3, <1>5, <1>6 DEF Sound
<1> QED BY <1>3, <1>4, <1>7

----------------------------------------------------------------------------
(* What is kept whatever the reindexes do: types, versions and documents.  *)

LEMMA Stepped ==
  ASSUME TypeInv, NEW n \in IndexNotes, NEW k \in Kinds, NEW from, NEW to,
         to \in {"none"} \cup Writing \cup Deleting, Step(n, k, from, to)
  PROVE  /\ job' \in [IndexNotes -> [Kinds -> JobType]]
         /\ job[n][k] \in JobType /\ job[n][k].pc = from
         /\ \A m \in IndexNotes \ {n} : job'[m] = job[m]
         /\ \A l \in Kinds \ {k} : job'[n][l] = job[n][l]
         /\ to = "none" => job'[n][k] = NoJob
         /\ to # "none" => job'[n][k] = [job[n][k] EXCEPT !.pc = to]
         /\ UNCHANGED <<stored, memory, writer, indexed, unsure, changes, drops>>
<1>1. /\ job[n][k] \in JobType /\ job[n][k].pc = from
      /\ UNCHANGED <<stored, memory, writer, indexed, unsure, changes, drops>>
  BY DEF TypeInv, Step
<1>2. PICK j : /\ j = IF to = "none" THEN NoJob ELSE [job[n][k] EXCEPT !.pc = to]
               /\ job' = [job EXCEPT ![n][k] = j]
  BY DEF Step
<1>3. j \in JobType
  <2>1. CASE to = "none"
    BY <1>2, <2>1, NoJobTyped
  <2>2. CASE to # "none"
    BY <1>1, <1>2, <2>2 DEF JobType
  <2> QED BY <2>1, <2>2
<1>4. /\ job' \in [IndexNotes -> [Kinds -> JobType]]
      /\ \A m \in IndexNotes \ {n} : job'[m] = job[m]
      /\ \A l \in Kinds \ {k} : job'[n][l] = job[n][l]
      /\ job'[n][k] = j
  BY <1>2, <1>3 DEF TypeInv
<1> QED BY <1>1, <1>2, <1>4

LEMMA Ended ==
  ASSUME TypeInv, NEW n \in IndexNotes, NEW k \in Kinds, NEW from, Step(n, k, from, "none")
  PROVE  /\ job[n][k] \in JobType /\ job[n][k].pc = from
         /\ \A l \in Kinds \ {k} : job'[n][l] = job[n][l]
         /\ job'[n][k] = NoJob
         /\ UNCHANGED <<stored, memory, writer, indexed, unsure, changes, drops>>
<1>1. job' = [job EXCEPT ![n][k] = NoJob]
  BY DEF Step
<1> QED BY <1>1 DEF TypeInv, Step

\* A store call of a reindex writes nothing newer than its text.
LEMMA MovesBase ==
  ASSUME Base, NEW n \in IndexNotes, NEW k \in Kinds,
         NEW from \in Writing \cup Deleting, NEW to \in {"none"} \cup Writing \cup Deleting,
         Step(n, k, from, to),
         row' \in [IndexNotes -> SUBSET IndexTitles], skipped' \subseteq IndexNotes,
         fulltext' \in [IndexNotes -> Nat], vector' \in [IndexNotes -> Nat],
         edges' \in [IndexNotes -> SUBSET (IndexNotes \cup StubIds)], UNCHANGED stubs,
         \A m \in IndexNotes \ {n} : fulltext'[m] = fulltext[m] /\ vector'[m] = vector[m],
         vector'[n] \in {vector[n], 0, job[n][k].doc.version},
         fulltext'[n] \in {fulltext[n], 0, job[n][k].doc.version}
  PROVE  Base'
<1>1. /\ job' \in [IndexNotes -> [Kinds -> JobType]]
      /\ job[n][k] \in JobType /\ job[n][k].pc = from
      /\ \A m \in IndexNotes \ {n} : job'[m] = job[m]
      /\ \A l \in Kinds \ {k} : job'[n][l] = job[n][l]
      /\ to = "none" => job'[n][k] = NoJob
      /\ to # "none" => job'[n][k] = [job[n][k] EXCEPT !.pc = to]
      /\ UNCHANGED <<stored, memory, writer, indexed, unsure, changes, drops>>
  BY Stepped DEF Base
<1>2. TypeInv'
  BY <1>1 DEF Base, TypeInv
<1>3. changes \in Nat /\ job[n][k].doc.version \in Nat
  BY <1>1, IndexAssumption DEF Base, TypeInv, JobType, DocType
<1>5. /\ job'[n][k].pc # "read"
      /\ job'[n][k].doc.version = 0 \/ job'[n][k].doc.version = job[n][k].doc.version
  <2>1. CASE to = "none"
    BY <1>1, <2>1, NoJobTyped
  <2>2. CASE to # "none"
    <3>1. job'[n][k].pc = to /\ job'[n][k].doc = job[n][k].doc
      BY <1>1, <2>2 DEF JobType
    <3> QED BY <2>2, <3>1 DEF Writing, Deleting
  <2> QED BY <2>1, <2>2
<1>4. ASSUME NEW m \in IndexNotes PROVE Bounded(m)' /\ Owned(m)'
  <2>1. Bounded(m) /\ Owned(m) /\ "load" \in Kinds
    BY DEF Base, Kinds
  <2>2. CASE m # n
    BY <1>1, <2>1, <2>2 DEF Bounded, Owned, Idle
  <2>3. CASE m = n
    <3>4. \A l \in Kinds : job[n][l].doc.version <= changes
      BY <2>1, <2>3 DEF Bounded
    <3>5. job'[n][k].doc.version <= changes
      BY <1>3, <1>5, <3>4
    <3>6. vector'[n] <= changes /\ fulltext'[n] <= changes
      BY <1>3, <2>1, <2>3, <3>4 DEF Bounded
    <3>1. /\ \A l \in Kinds : job'[n][l].doc.version <= changes
          /\ vector'[n] <= changes /\ fulltext'[n] <= changes
      BY <1>1, <3>4, <3>5, <3>6
    <3>0. Bounded(m)'
      BY <1>1, <2>1, <2>3, <3>1 DEF Bounded
    <3>2. job'[n]["load"].pc = "read" => job[n]["load"].pc = "read"
      BY <1>1, <1>5, <2>1
    <3>7. writer[n].pc # "none" => k # "write"
      BY <1>1, <2>1, <2>3, Distinct DEF Owned, Idle, Still
    <3>8. "write" \in Kinds
      BY DEF Kinds
    <3> QED BY <1>1, <2>1, <2>3, <3>0, <3>2, <3>7, <3>8 DEF Owned, Idle
  <2> QED BY <2>2, <2>3
<1> QED BY <1>2, <1>4 DEF Base

\* A reindex starts, or a document is read.
LEMMA BeginsBase ==
  ASSUME Base, NEW n \in IndexNotes, NEW k \in Kinds, NEW j \in JobType,
         job' = [job EXCEPT ![n][k] = j], UNCHANGED tables,
         stored' \in [IndexNotes -> DocType], memory' \in [IndexNotes -> SUBSET DocType],
         writer' \in [IndexNotes -> WriterType], indexed' \in [IndexNotes -> DocType],
         unsure' \subseteq IndexNotes,
         \A m \in IndexNotes \ {n} : /\ stored'[m] = stored[m] /\ memory'[m] = memory[m]
                                     /\ writer'[m] = writer[m] /\ indexed'[m] = indexed[m],
         changes' \in 0 .. MaxChanges + 1, changes' >= changes, UNCHANGED drops,
         j.doc.version <= changes',
         stored'[n].version <= changes', indexed'[n].version <= changes',
         \A d \in memory'[n] : d.version <= changes',
         writer'[n].doc.version <= changes',
         Owned(n)'
  PROVE  Base'
<1>1. /\ job' \in [IndexNotes -> [Kinds -> JobType]] /\ job'[n][k] = j
      /\ \A m \in IndexNotes \ {n} : job'[m] = job[m]
      /\ \A l \in Kinds \ {k} : job'[n][l] = job[n][l]
  BY DEF Base, TypeInv
<1>2. TypeInv'
  BY <1>1 DEF Base, TypeInv, tables
<1>3. ASSUME NEW m \in IndexNotes
      PROVE  /\ vector[m] <= changes' /\ fulltext[m] <= changes'
             /\ \A l \in Kinds : job[m][l].doc.version <= changes'
             /\ m # n => Bounded(m)'
  <2>1. /\ Bounded(m) /\ changes \in Nat /\ changes' \in Nat /\ vector[m] \in Nat /\ fulltext[m] \in Nat
        /\ stored[m].version \in Nat /\ indexed[m].version \in Nat /\ writer[m].doc.version \in Nat
        /\ \A d \in memory[m] : d.version \in Nat
        /\ \A l \in Kinds : job[m][l].doc.version \in Nat
    BY DEF Base, TypeInv, DocType, JobType, WriterType
  <2> QED BY <1>1, <2>1 DEF Bounded, tables
<1>4. Bounded(n)'
  BY <1>1, <1>3 DEF Bounded, tables
<1>5. ASSUME NEW m \in IndexNotes \ {n} PROVE Owned(m)'
  BY <1>1 DEF Base, Owned, Idle
<1> QED BY <1>2, <1>3, <1>4, <1>5 DEF Base

\* The writers and the documents in memory change, and nothing else but the drops.
LEMMA HoldsBase ==
  ASSUME Base, NEW n \in IndexNotes,
         UNCHANGED <<stored, job, indexed, unsure, changes>>, UNCHANGED tables,
         memory' \in [IndexNotes -> SUBSET DocType], writer' \in [IndexNotes -> WriterType],
         drops' \in 0 .. MaxDrops,
         \A m \in IndexNotes \ {n} : memory'[m] = memory[m] /\ writer'[m] = writer[m],
         memory'[n] \subseteq memory[n],
         writer'[n].doc \in {writer[n].doc, Unwritten} \cup memory[n],
         writer'[n].own => memory'[n] = {writer'[n].doc},
         writer'[n].pc # "none" => Idle(n, "write")
  PROVE  Base'
<1>1. TypeInv'
  BY DEF Base, TypeInv, tables
<1>2. ASSUME NEW m \in IndexNotes \ {n} PROVE Bounded(m)' /\ Owned(m)'
  BY DEF Base, Bounded, Owned, Idle, tables
<1>3. Bounded(n)'
  BY UnwrittenTyped DEF Base, TypeInv, Bounded, tables
<1>4. Owned(n)'
  BY DEF Base, Owned, Idle
<1> QED BY <1>1, <1>2, <1>3, <1>4 DEF Base

----------------------------------------------------------------------------
(* The index.                                                              *)

\* A note whose reindexes and tables a step leaves alone.
LEMMA NoteKeeps ==
  ASSUME NEW n, IndexInv(n), indexed'[n] = indexed[n],
         \A k \in Kinds : \/ job'[n][k] = job[n][k]
                          \/ job'[n][k].pc \in Still /\ job[n][k].pc \in Still,
         row'[n] = row[n], fulltext'[n] = fulltext[n], vector'[n] = vector[n],
         edges'[n] = edges[n], n \in skipped' <=> n \in skipped, n \in unsure' <=> n \in unsure
  PROVE  IndexInv(n)'
<1>1. ASSUME NEW k \in Kinds
      PROVE  /\ Sound(job[n][k])' /\ (n \notin unsure' => Progress(n, job[n][k])')
             /\ Indexing(n, k)' = Indexing(n, k)
  <2>1. CASE job'[n][k] = job[n][k]
    BY <2>1 DEF IndexInv, Sound, Resolved, Progress, Indexing
  <2>2. CASE job'[n][k].pc \in Still /\ job[n][k].pc \in Still
    BY <2>2 DEF Sound, Progress, Indexing, Still
  <2> QED BY <2>1, <2>2
<1>2. IsFiniteSet(edges[n])'
  BY DEF IndexInv
<1>3. Exact(n)'
  BY <1>1 DEF IndexInv, Exact
<1> QED BY <1>1, <1>2, <1>3 DEF IndexInv

LEMMA LedKeeps ==
  ASSUME Led, UNCHANGED tables,
         \A n \in IndexNotes, k \in Kinds : job'[n][k] = job[n][k] \/ job'[n][k].resolved = {}
  PROVE  Led'
  BY DEF Led, tables

\* A store call of a reindex: what is left to show of it.
LEMMA Moves ==
  ASSUME ExactInv, NEW n \in IndexNotes, NEW k \in Kinds,
         NEW from \in Writing \cup Deleting, NEW to \in {"none"} \cup Writing \cup Deleting,
         Step(n, k, from, to), to # "none" => (from \in Deleting <=> to \in Deleting),
         row' \in [IndexNotes -> SUBSET IndexTitles], skipped' \subseteq IndexNotes,
         fulltext' \in [IndexNotes -> Nat], vector' \in [IndexNotes -> Nat],
         edges' \in [IndexNotes -> SUBSET (IndexNotes \cup StubIds)], UNCHANGED stubs,
         \A m \in IndexNotes \ {n} :
           /\ row'[m] = row[m] /\ fulltext'[m] = fulltext[m] /\ vector'[m] = vector[m]
           /\ edges'[m] = edges[m] /\ (m \in skipped' <=> m \in skipped),
         edges'[n] \in {edges[n], {}, job[n][k].resolved},
         vector'[n] \in {vector[n], 0, job[n][k].doc.version},
         fulltext'[n] \in {fulltext[n], 0, job[n][k].doc.version},
         n \notin unsure => \A l \in Kinds : Progress(n, job[n][l])',
         n \notin unsure /\ to = "none" => Exact(n)'
  PROVE  ExactInv'
<1>1. /\ job' \in [IndexNotes -> [Kinds -> JobType]]
      /\ job[n][k] \in JobType /\ job[n][k].pc = from
      /\ \A m \in IndexNotes \ {n} : job'[m] = job[m]
      /\ \A l \in Kinds \ {k} : job'[n][l] = job[n][l]
      /\ to = "none" => job'[n][k] = NoJob
      /\ to # "none" => job'[n][k] = [job[n][k] EXCEPT !.pc = to]
      /\ UNCHANGED <<stored, memory, writer, indexed, unsure, changes, drops>>
  BY Stepped DEF ExactInv, Base
<1>2. Base'
  BY MovesBase DEF ExactInv
<1>3. IndexInv(n)
  BY DEF ExactInv
<1>4. from \notin Still /\ (to = "none" \/ to \in Writing \/ to \in Deleting)
  BY Distinct
<1>5. Sound(job[n][k]) /\ job[n][k].pc \notin Still
  BY <1>1, <1>3, <1>4 DEF IndexInv
<1>6. Sound(job'[n][k]) /\ job'[n][k].resolved \subseteq job[n][k].resolved
  <2>1. CASE to = "none"
    BY <1>1, <2>1, NoJobTyped
  <2>2. CASE to # "none"
    <3>1. /\ job'[n][k].pc = to /\ job'[n][k].doc = job[n][k].doc
          /\ job'[n][k].todo = job[n][k].todo /\ job'[n][k].resolved = job[n][k].resolved
      BY <1>1, <2>2 DEF JobType
    <3>2. job[n][k].doc.deleted = (to \in Deleting)
      BY <1>1, <1>5, <2>2 DEF Sound
    <3>3. Sound(job'[n][k])
      BY <1>5, <3>1, <3>2 DEF Sound, Resolved
    <3> QED BY <3>1, <3>3
  <2> QED BY <2>1, <2>2
<1>7. Led'
  <2>1. /\ edges'[n] \subseteq IndexNotes \cup stubs
        /\ \A l \in Kinds : job'[n][l].resolved \subseteq IndexNotes \cup stubs
    BY <1>1, <1>6 DEF ExactInv, Led
  <2>2. \A m \in IndexNotes \ {n} :
          /\ edges'[m] \subseteq IndexNotes \cup stubs
          /\ \A l \in Kinds : job'[m][l].resolved \subseteq IndexNotes \cup stubs
    BY <1>1 DEF ExactInv, Led
  <2> QED BY <2>1, <2>2 DEF Led
<1>8. IndexInv(n)'
  <2>1. \A l \in Kinds : Sound(job'[n][l])
    BY <1>1, <1>3, <1>6 DEF IndexInv
  <2>2. IsFiniteSet(edges'[n])
    <3>1. IsFiniteSet(edges[n]) /\ IsFiniteSet(job[n][k].resolved)
      BY <1>3, <1>5 DEF IndexInv, Sound, Resolved
    <3> QED BY <3>1, FS_EmptySet
  <2>3. Exact(n)'
    <3>1. CASE to = "none"
      BY <1>1, <3>1 DEF Exact
    <3>2. CASE to # "none"
      <4>1. job'[n][k].pc = to /\ to \notin Still
        BY <1>1, <1>4, <3>2, Distinct DEF JobType
      <4> QED BY <4>1 DEF Exact, Indexing, Still
    <3> QED BY <3>1, <3>2
  <2> QED BY <1>1, <2>1, <2>2, <2>3 DEF IndexInv, Sound, Resolved
<1>9. ASSUME NEW m \in IndexNotes \ {n} PROVE IndexInv(m)'
  BY <1>1, NoteKeeps DEF ExactInv
<1> QED BY <1>2, <1>7, <1>8, <1>9 DEF ExactInv

----------------------------------------------------------------------------
(* The store calls of a reindex.                                           *)

\* What is known of a note that is not unsure when one of its reindexes goes on.
LEMMA Sure ==
  ASSUME ExactInv, NEW n \in IndexNotes, NEW k \in Kinds, n \notin unsure, Indexing(n, k)
  PROVE  /\ Sound(job[n][k]) /\ Progress(n, job[n][k])
         /\ job[n][k].doc = indexed[n]
         /\ \A l \in Kinds : Progress(n, job[n][l]) /\ Sound(job[n][l])
         /\ \A l \in Kinds : job[n][l].pc \notin Still =>
              (job[n][l].pc \in Deleting) = indexed[n].deleted /\ job[n][l].doc = indexed[n]
  BY DEF ExactInv, IndexInv, Progress, Sound, Indexing, Still

LEMMA UpsertNodeKeeps ==
  ASSUME ExactInv, NEW n \in IndexNotes, NEW k \in Kinds, UpsertNode(n, k)
  PROVE  ExactInv'
<1>1. /\ job[n][k] \in JobType /\ job[n][k].pc = "node"
      /\ \A l \in Kinds \ {k} : job'[n][l] = job[n][l]
      /\ job'[n][k] = [job[n][k] EXCEPT !.pc = "text"]
      /\ UNCHANGED <<indexed, unsure>>
  BY Stepped DEF UpsertNode, ExactInv, Base, Writing
<1>2. row' = [row EXCEPT ![n] = {job[n][k].doc.title}] /\ UNCHANGED <<fulltext, vector, edges, stubs, skipped>>
  BY DEF UpsertNode
<1>3. row' \in [IndexNotes -> SUBSET IndexTitles] /\ row'[n] = {job[n][k].doc.title}
      /\ \A m \in IndexNotes \ {n} : row'[m] = row[m]
  BY <1>1, <1>2 DEF ExactInv, Base, TypeInv, JobType, DocType
<1>4. ASSUME n \notin unsure, NEW l \in Kinds PROVE Progress(n, job[n][l])'
  <2>1. Indexing(n, k)
    BY <1>1 DEF Indexing, Still
  <2>2. CASE l = k
    BY <1>1, <1>2, <1>3, <1>4, <2>1, <2>2, Sure DEF Progress, JobType, Still
  <2>3. CASE l # k
    BY <1>1, <1>2, <1>3, <1>4, <2>1, <2>3, Sure DEF Progress, Deleting, Still
  <2> QED BY <2>2, <2>3
<1>5. Step(n, k, "node", "text")
  BY DEF UpsertNode
<1>6. "node" \in Writing /\ "text" \in Writing /\ "node" \notin Deleting /\ "text" \notin Deleting
  BY DEF Writing, Deleting
<1> QED BY <1>2, <1>3, <1>4, <1>5, <1>6, Moves DEF ExactInv, Base, TypeInv, Writing

LEMMA SearchUpsertKeeps ==
  ASSUME ExactInv, NEW n \in IndexNotes, NEW k \in Kinds, SearchUpsert(n, k)
  PROVE  ExactInv'
<1>1. /\ job[n][k] \in JobType /\ job[n][k].pc = "text"
      /\ \A l \in Kinds \ {k} : job'[n][l] = job[n][l]
      /\ job'[n][k] = [job[n][k] EXCEPT !.pc = "embed"]
      /\ UNCHANGED <<indexed, unsure>>
  BY Stepped DEF SearchUpsert, ExactInv, Base, Writing
<1>2. fulltext' = [fulltext EXCEPT ![n] = job[n][k].doc.version] /\ UNCHANGED <<row, vector, edges, stubs, skipped>>
  BY DEF SearchUpsert
<1>3. fulltext' \in [IndexNotes -> Nat] /\ fulltext'[n] = job[n][k].doc.version
      /\ \A m \in IndexNotes \ {n} : fulltext'[m] = fulltext[m]
  BY <1>1, <1>2 DEF ExactInv, Base, TypeInv, JobType, DocType
<1>4. ASSUME n \notin unsure, NEW l \in Kinds PROVE Progress(n, job[n][l])'
  <2>1. Indexing(n, k)
    BY <1>1 DEF Indexing, Still
  <2>2. CASE l = k
    BY <1>1, <1>2, <1>3, <1>4, <2>1, <2>2, Sure DEF Progress, JobType, Still
  <2>3. CASE l # k
    BY <1>1, <1>2, <1>3, <1>4, <2>1, <2>3, Sure DEF Progress, Deleting, Still
  <2> QED BY <2>2, <2>3
<1>5. Step(n, k, "text", "embed")
  BY DEF SearchUpsert
<1>6. "text" \in Writing /\ "embed" \in Writing /\ "text" \notin Deleting /\ "embed" \notin Deleting
  BY DEF Writing, Deleting
<1> QED BY <1>2, <1>3, <1>4, <1>5, <1>6, Moves DEF ExactInv, Base, TypeInv, Writing

LEMMA EmbedKeeps ==
  ASSUME ExactInv, NEW n \in IndexNotes, NEW k \in Kinds, Embed(n, k)
  PROVE  ExactInv'
<1>1. /\ job[n][k] \in JobType /\ job[n][k].pc = "embed"
      /\ \A l \in Kinds \ {k} : job'[n][l] = job[n][l]
      /\ job'[n][k] = [job[n][k] EXCEPT !.pc = "resolve"]
      /\ UNCHANGED <<indexed, unsure>>
  BY Stepped DEF Embed, ExactInv, Base, Writing
<1>2. /\ \/ vector' = [vector EXCEPT ![n] = job[n][k].doc.version] /\ skipped' = skipped \ {n}
         \/ skipped' = skipped \cup {n} /\ UNCHANGED vector
      /\ UNCHANGED <<row, fulltext, edges, stubs>>
  BY DEF Embed
<1>3. /\ vector' \in [IndexNotes -> Nat] /\ vector'[n] \in {vector[n], job[n][k].doc.version}
      /\ vector'[n] = job[n][k].doc.version \/ n \in skipped'
      /\ skipped' \subseteq IndexNotes
      /\ \A m \in IndexNotes \ {n} : vector'[m] = vector[m] /\ (m \in skipped' <=> m \in skipped)
  BY <1>1, <1>2 DEF ExactInv, Base, TypeInv, JobType, DocType
<1>4. ASSUME n \notin unsure, NEW l \in Kinds PROVE Progress(n, job[n][l])'
  <2>1. Indexing(n, k)
    BY <1>1 DEF Indexing, Still
  <2>2. CASE l = k
    BY <1>1, <1>2, <1>3, <1>4, <2>1, <2>2, Sure DEF Progress, JobType, Still
  <2>3. CASE l # k
    BY <1>1, <1>2, <1>3, <1>4, <2>1, <2>3, Sure DEF Progress, Deleting, Still
  <2> QED BY <2>2, <2>3
<1>5. Step(n, k, "embed", "resolve")
  BY DEF Embed
<1>6. "embed" \in Writing /\ "resolve" \in Writing /\ "embed" \notin Deleting /\ "resolve" \notin Deleting
  BY DEF Writing, Deleting
<1> QED BY <1>2, <1>3, <1>4, <1>5, <1>6, Moves DEF ExactInv, Base, TypeInv, Writing

\* The last call of a reindex: what it has resolved are the note's edges.
LEMMA ReplaceEdgesKeeps ==
  ASSUME ExactInv, NEW n \in IndexNotes, NEW k \in Kinds, ReplaceEdgesFrom(n, k)
  PROVE  ExactInv'
<1>1. /\ job[n][k] \in JobType /\ job[n][k].pc = "resolve" /\ job[n][k].todo = {}
      /\ \A l \in Kinds \ {k} : job'[n][l] = job[n][l]
      /\ job'[n][k] = NoJob
      /\ UNCHANGED <<indexed, unsure>>
  <2>1. Step(n, k, "resolve", "none") /\ job[n][k].todo = {}
    BY DEF ReplaceEdgesFrom
  <2> QED BY <2>1, Ended DEF ExactInv, Base
<1>2. edges' = [edges EXCEPT ![n] = job[n][k].resolved] /\ UNCHANGED <<row, fulltext, vector, stubs, skipped>>
  BY DEF ReplaceEdgesFrom
<1>3. edges' \in [IndexNotes -> SUBSET (IndexNotes \cup StubIds)] /\ edges'[n] = job[n][k].resolved
      /\ \A m \in IndexNotes \ {n} : edges'[m] = edges[m]
  BY <1>1, <1>2 DEF ExactInv, Base, TypeInv, JobType
<1>4. ASSUME n \notin unsure
      PROVE  /\ Sound(job[n][k]) /\ Progress(n, job[n][k])
             /\ job[n][k].doc = indexed[n]
             /\ \A l \in Kinds : Progress(n, job[n][l]) /\ Sound(job[n][l])
             /\ \A l \in Kinds : job[n][l].pc \notin Still =>
                  (job[n][l].pc \in Deleting) = indexed[n].deleted /\ job[n][l].doc = indexed[n]
  BY <1>1, <1>4, Sure DEF Indexing, Still
<1>5. ASSUME n \notin unsure, NEW l \in Kinds PROVE Progress(n, job[n][l])'
  <2>1. CASE l = k
    BY <1>1, <2>1, NoJobTyped DEF Progress, Still
  <2>2. CASE l # k
    BY <1>1, <1>2, <1>3, <1>4, <1>5, <2>2 DEF Progress, Deleting, Still
  <2> QED BY <2>1, <2>2
<1>6. ASSUME n \notin unsure PROVE Exact(n)'
  <2>1. ~indexed[n].deleted
    BY <1>1, <1>4, <1>6 DEF Deleting, Still
  <2>2. row[n] = {indexed[n].title} /\ fulltext[n] = indexed[n].version
    BY <1>1, <1>4, <1>6 DEF Progress, Still
  <2>3. vector[n] = indexed[n].version \/ n \in skipped
    BY <1>1, <1>4, <1>6 DEF Progress, Still
  <2>4. /\ Cardinality(job[n][k].resolved) <= Cardinality(indexed[n].targets)
        /\ job[n][k].resolved \ IndexNotes \subseteq {StubOf[t] : t \in indexed[n].targets \cap IndexTitles}
    <3>1. job[n][k].doc.targets \ job[n][k].todo = indexed[n].targets
      BY <1>1, <1>4, <1>6
    <3>2. Resolved(job[n][k])
      BY <1>1, <1>4, <1>6 DEF Sound, Still
    <3> QED BY <3>1, <3>2 DEF Resolved
  <2> QED BY <1>1, <1>2, <1>3, <1>4, <1>6, <2>1, <2>2, <2>3, <2>4 DEF Exact
<1>7. Step(n, k, "resolve", "none")
  BY DEF ReplaceEdgesFrom
<1>8. "resolve" \in Writing
  BY DEF Writing
<1> QED BY <1>2, <1>3, <1>5, <1>6, <1>7, <1>8, Moves DEF ExactInv, Base, TypeInv

\* The calls that take a note out of the index, one at a time.
LEMMA UnindexKeeps ==
  ASSUME ExactInv, NEW n \in IndexNotes, NEW k \in Kinds, Unindex(n, k)
  PROVE  ExactInv'
<1> DEFINE j == job[n][k]
           gone == j.doc.version = 0
<1>0. /\ {"deleteNode", "noEdges", "searchDelete", "deleteEmbedding"} = Deleting
      /\ \A pc \in Deleting : pc \notin {"text", "embed", "resolve"} /\ pc \notin Still
      /\ "none" \notin Deleting
  BY DEF Deleting, Still
<1>1. /\ row \in [IndexNotes -> SUBSET IndexTitles] /\ fulltext \in [IndexNotes -> Nat]
      /\ vector \in [IndexNotes -> Nat] /\ edges \in [IndexNotes -> SUBSET (IndexNotes \cup StubIds)]
      /\ skipped \subseteq IndexNotes
  BY DEF ExactInv, Base, TypeInv
<1>2. ASSUME n \notin unsure, j.pc \in Deleting
      PROVE  /\ Progress(n, j) /\ j.doc = indexed[n] /\ indexed[n].deleted
             /\ \A l \in Kinds : Progress(n, job[n][l])
             /\ \A l \in Kinds : job[n][l].pc \notin Still =>
                  job[n][l].pc \in Deleting /\ job[n][l].doc = j.doc
  <2>1. Indexing(n, k)
    BY <1>0, <1>2 DEF Indexing, Still
  <2>2. /\ Progress(n, j) /\ j.doc = indexed[n] /\ (\A l \in Kinds : Progress(n, job[n][l]))
        /\ \A l \in Kinds : job[n][l].pc \notin Still =>
             (job[n][l].pc \in Deleting) = indexed[n].deleted /\ job[n][l].doc = indexed[n]
    BY <1>2, <2>1, Sure
  <2>3. indexed[n].deleted
    BY <1>0, <1>2, <2>2
  <2> QED BY <2>2, <2>3
<1>3. CASE /\ Step(n, k, "deleteNode", IF RolledBack(n, k) THEN "searchDelete" ELSE "noEdges")
           /\ row' = [row EXCEPT ![n] = {}] /\ UNCHANGED <<fulltext, vector, edges, stubs, skipped>>
  <2>0. PICK to \in {"searchDelete", "noEdges"} :
           Step(n, k, "deleteNode", to) /\ (to = "noEdges" => ~gone) /\ (to = "searchDelete" => gone)
    BY <1>3 DEF RolledBack
  <2>1. /\ j \in JobType /\ j.pc = "deleteNode"
        /\ \A l \in Kinds \ {k} : job'[n][l] = job[n][l]
        /\ job'[n][k] = [j EXCEPT !.pc = to] /\ UNCHANGED <<indexed, unsure>>
    BY <1>0, <2>0, Stepped DEF ExactInv, Base
  <2>2. ASSUME n \notin unsure, NEW l \in Kinds PROVE Progress(n, job[n][l])'
    <3>1. CASE l = k
      BY <1>0, <1>1, <1>2, <1>3, <2>0, <2>1, <2>2, <3>1 DEF Progress, JobType
    <3>2. CASE l # k
      BY <1>0, <1>1, <1>2, <1>3, <2>1, <2>2, <3>2 DEF Progress
    <3> QED BY <3>1, <3>2
  <2>3. row' \in [IndexNotes -> SUBSET IndexTitles] /\ \A m \in IndexNotes \ {n} : row'[m] = row[m]
    BY <1>1, <1>3
  <2> QED BY <1>0, <1>1, <1>3, <2>0, <2>2, <2>3, Moves
<1>4. CASE /\ Step(n, k, "noEdges", IF RolledBack(n, k) THEN "none" ELSE "searchDelete")
           /\ edges' = [edges EXCEPT ![n] = {}] /\ UNCHANGED <<row, fulltext, vector, stubs, skipped>>
  <2>0. edges' \in [IndexNotes -> SUBSET (IndexNotes \cup StubIds)] /\ edges'[n] = {}
        /\ \A m \in IndexNotes \ {n} : edges'[m] = edges[m]
    BY <1>1, <1>4
  <2>1. CASE gone
    <3>0. Step(n, k, "noEdges", "none")
      BY <1>4, <2>1 DEF RolledBack
    <3>1. /\ j \in JobType /\ j.pc = "noEdges"
          /\ \A l \in Kinds \ {k} : job'[n][l] = job[n][l]
          /\ job'[n][k] = NoJob /\ UNCHANGED <<indexed, unsure>>
      BY <3>0, Ended DEF ExactInv, Base
    <3>2. ASSUME n \notin unsure, NEW l \in Kinds PROVE Progress(n, job[n][l])'
      <4>1. CASE l = k
        BY <3>1, <4>1, NoJobTyped DEF Progress, Still
      <4>2. CASE l # k
        BY <1>0, <1>1, <1>2, <1>4, <2>0, <3>1, <3>2, <4>2 DEF Progress
      <4> QED BY <4>1, <4>2
    <3>3. ASSUME n \notin unsure PROVE Exact(n)'
      <4>1. row[n] = {} /\ fulltext[n] = 0 /\ vector[n] = 0 /\ indexed[n].deleted
        BY <1>0, <1>2, <2>1, <3>1, <3>3 DEF Progress
      <4> QED BY <1>4, <2>0, <3>1, <4>1 DEF Exact
    <3> QED BY <1>0, <1>1, <1>4, <2>0, <3>0, <3>2, <3>3, Moves
  <2>2. CASE ~gone
    <3>0. Step(n, k, "noEdges", "searchDelete")
      BY <1>4, <2>2 DEF RolledBack
    <3>1. /\ j \in JobType /\ j.pc = "noEdges"
          /\ \A l \in Kinds \ {k} : job'[n][l] = job[n][l]
          /\ job'[n][k] = [j EXCEPT !.pc = "searchDelete"] /\ UNCHANGED <<indexed, unsure>>
      BY <1>0, <3>0, Stepped DEF ExactInv, Base
    <3>2. ASSUME n \notin unsure, NEW l \in Kinds PROVE Progress(n, job[n][l])'
      <4>1. CASE l = k
        BY <1>0, <1>1, <1>2, <1>4, <2>0, <3>1, <3>2, <4>1 DEF Progress, JobType
      <4>2. CASE l # k
        BY <1>0, <1>1, <1>2, <1>4, <2>0, <3>1, <3>2, <4>2 DEF Progress
      <4> QED BY <4>1, <4>2
    <3> QED BY <1>0, <1>1, <1>4, <2>0, <3>0, <3>2, Moves
  <2> QED BY <2>1, <2>2
<1>5. CASE /\ Step(n, k, "searchDelete", "deleteEmbedding")
           /\ fulltext' = [fulltext EXCEPT ![n] = 0] /\ UNCHANGED <<row, vector, edges, stubs, skipped>>
  <2>1. /\ j \in JobType /\ j.pc = "searchDelete"
        /\ \A l \in Kinds \ {k} : job'[n][l] = job[n][l]
        /\ job'[n][k] = [j EXCEPT !.pc = "deleteEmbedding"] /\ UNCHANGED <<indexed, unsure>>
    BY <1>0, <1>5, Stepped DEF ExactInv, Base
  <2>3. fulltext' \in [IndexNotes -> Nat] /\ fulltext'[n] = 0
        /\ \A m \in IndexNotes \ {n} : fulltext'[m] = fulltext[m]
    BY <1>1, <1>5
  <2>2. ASSUME n \notin unsure, NEW l \in Kinds PROVE Progress(n, job[n][l])'
    <3>1. CASE l = k
      BY <1>0, <1>1, <1>2, <1>5, <2>1, <2>2, <2>3, <3>1 DEF Progress, JobType
    <3>2. CASE l # k
      BY <1>0, <1>1, <1>2, <1>5, <2>1, <2>2, <2>3, <3>2 DEF Progress
    <3> QED BY <3>1, <3>2
  <2> QED BY <1>0, <1>1, <1>5, <2>2, <2>3, Moves
<1>6. CASE /\ Step(n, k, "deleteEmbedding", IF RolledBack(n, k) THEN "noEdges" ELSE "none")
           /\ vector' = [vector EXCEPT ![n] = 0] /\ UNCHANGED <<row, fulltext, edges, stubs, skipped>>
  <2>0. vector' \in [IndexNotes -> Nat] /\ vector'[n] = 0
        /\ \A m \in IndexNotes \ {n} : vector'[m] = vector[m]
    BY <1>1, <1>6
  <2>1. CASE ~gone
    <3>0. Step(n, k, "deleteEmbedding", "none")
      BY <1>6, <2>1 DEF RolledBack
    <3>1. /\ j \in JobType /\ j.pc = "deleteEmbedding"
          /\ \A l \in Kinds \ {k} : job'[n][l] = job[n][l]
          /\ job'[n][k] = NoJob /\ UNCHANGED <<indexed, unsure>>
      BY <3>0, Ended DEF ExactInv, Base
    <3>2. ASSUME n \notin unsure, NEW l \in Kinds PROVE Progress(n, job[n][l])'
      <4>1. CASE l = k
        BY <3>1, <4>1, NoJobTyped DEF Progress, Still
      <4>2. CASE l # k
        BY <1>0, <1>1, <1>2, <1>6, <2>0, <3>1, <3>2, <4>2 DEF Progress
      <4> QED BY <4>1, <4>2
    <3>3. ASSUME n \notin unsure PROVE Exact(n)'
      <4>1. row[n] = {} /\ fulltext[n] = 0 /\ edges[n] = {} /\ indexed[n].deleted
        BY <1>0, <1>2, <2>1, <3>1, <3>3 DEF Progress
      <4> QED BY <1>6, <2>0, <3>1, <4>1 DEF Exact
    <3> QED BY <1>0, <1>1, <1>6, <2>0, <3>0, <3>2, <3>3, Moves
  <2>2. CASE gone
    <3>0. Step(n, k, "deleteEmbedding", "noEdges")
      BY <1>6, <2>2 DEF RolledBack
    <3>1. /\ j \in JobType /\ j.pc = "deleteEmbedding"
          /\ \A l \in Kinds \ {k} : job'[n][l] = job[n][l]
          /\ job'[n][k] = [j EXCEPT !.pc = "noEdges"] /\ UNCHANGED <<indexed, unsure>>
      BY <1>0, <3>0, Stepped DEF ExactInv, Base
    <3>2. ASSUME n \notin unsure, NEW l \in Kinds PROVE Progress(n, job[n][l])'
      <4>1. CASE l = k
        BY <1>0, <1>1, <1>2, <1>6, <2>0, <3>1, <3>2, <4>1 DEF Progress, JobType
      <4>2. CASE l # k
        BY <1>0, <1>1, <1>2, <1>6, <2>0, <3>1, <3>2, <4>2 DEF Progress
      <4> QED BY <4>1, <4>2
    <3> QED BY <1>0, <1>1, <1>6, <2>0, <3>0, <3>2, Moves
  <2> QED BY <2>1, <2>2
<1> QED BY <1>3, <1>4, <1>5, <1>6 DEF Unindex

\* A link that is done with adds at most an id, and a stub only for itself.
LEMMA ResolvedGrows ==
  ASSUME NEW j \in JobType, Resolved(j), j.todo \subseteq j.doc.targets, NEW t \in j.todo,
         NEW i \in IndexNotes \cup StubIds,
         i \notin IndexNotes => t \in IndexTitles /\ i = StubOf[t]
  PROVE  Resolved([j EXCEPT !.todo = @ \ {t}, !.resolved = @ \cup {i}])
<1> DEFINE done == j.doc.targets \ j.todo
           q == [j EXCEPT !.todo = @ \ {t}, !.resolved = @ \cup {i}]
<1>1. q.doc = j.doc /\ q.todo = j.todo \ {t} /\ q.resolved = j.resolved \cup {i}
  BY DEF JobType
<1>2. q.doc.targets \ q.todo = done \cup {t} /\ t \notin done
  BY <1>1
<1>3. IsFiniteSet(done)
  <2>1. IsFiniteSet(j.doc.targets)
    BY IndexAssumption, FS_EmptySet DEF JobType, DocType
  <2> QED BY <2>1, FS_Subset
<1>4. IsFiniteSet(done \cup {t}) /\ Cardinality(done \cup {t}) = Cardinality(done) + 1
  BY <1>2, <1>3, FS_AddElement
<1>5. IsFiniteSet(j.resolved) /\ Cardinality(j.resolved) <= Cardinality(done)
  BY DEF Resolved
<1>6. /\ IsFiniteSet(j.resolved \cup {i})
      /\ Cardinality(j.resolved \cup {i}) = IF i \in j.resolved THEN Cardinality(j.resolved)
                                            ELSE Cardinality(j.resolved) + 1
  BY <1>5, FS_AddElement
<1>7. Cardinality(j.resolved) \in Nat /\ Cardinality(done) \in Nat
  BY <1>3, <1>5, FS_CardinalityType
<1>8. Cardinality(j.resolved \cup {i}) <= Cardinality(done \cup {t})
  BY <1>4, <1>5, <1>6, <1>7
<1>9. (j.resolved \cup {i}) \ IndexNotes \subseteq {StubOf[u] : u \in (done \cup {t}) \cap IndexTitles}
  BY DEF Resolved
<1> QED BY <1>1, <1>2, <1>6, <1>8, <1>9 DEF Resolved

LEMMA ResolveKeeps ==
  ASSUME ExactInv, NEW n \in IndexNotes, NEW k \in Kinds, NEW t \in Targets, Resolve(n, k, t)
  PROVE  ExactInv'
<1> DEFINE j == job[n][k]
<1>1. j \in JobType /\ j.pc = "resolve" /\ t \in j.todo
  BY DEF ExactInv, Base, TypeInv, Resolve
<1>2. PICK i : /\ i \in IndexNotes \/ (t \in IndexTitles /\ i = StubOf[t])
               /\ job' = [job EXCEPT ![n][k].todo = @ \ {t}, ![n][k].resolved = @ \cup {i}]
               /\ stubs' = stubs \cup ({i} \ IndexNotes)
  BY DEF Resolve, Titled, Targets
<1>3. i \in IndexNotes \cup StubIds
  BY <1>2 DEF StubIds
<1> DEFINE q == [j EXCEPT !.todo = @ \ {t}, !.resolved = @ \cup {i}]
<1>4. job' = [job EXCEPT ![n][k] = q]
  BY <1>1, <1>2 DEF ExactInv, Base, TypeInv
<1>5. q \in JobType /\ q.pc = "resolve" /\ q.doc = j.doc /\ q.todo = j.todo \ {t}
      /\ q.resolved = j.resolved \cup {i}
  BY <1>1, <1>3 DEF JobType, Targets
<1> HIDE DEF q
<1>6. /\ job' \in [IndexNotes -> [Kinds -> JobType]] /\ job'[n][k] = q
      /\ \A m \in IndexNotes \ {n} : job'[m] = job[m]
      /\ \A l \in Kinds \ {k} : job'[n][l] = job[n][l]
  BY <1>4, <1>5 DEF ExactInv, Base, TypeInv
<1>7. UNCHANGED <<stored, memory, writer, indexed, row, fulltext, vector, edges, skipped,
                  unsure, changes, drops>>
  BY DEF Resolve
<1>8. Base'
  <2>1. TypeInv'
    BY <1>2, <1>3, <1>6, <1>7 DEF ExactInv, Base, TypeInv
  <2>2. ASSUME NEW m \in IndexNotes PROVE Bounded(m)' /\ Owned(m)'
    <3>1. Bounded(m) /\ Owned(m) /\ "load" \in Kinds
      BY DEF ExactInv, Base, Kinds
    <3>2. \A l \in Kinds : job'[m][l].doc = job[m][l].doc /\ job'[m][l].pc = job[m][l].pc
      BY <1>1, <1>5, <1>6
    <3>3. "write" \in Kinds
      BY DEF Kinds
    <3> QED BY <1>7, <3>1, <3>2, <3>3 DEF Bounded, Owned, Idle
  <2> QED BY <2>1, <2>2 DEF Base
<1>9. Led'
  BY <1>2, <1>3, <1>5, <1>6, <1>7 DEF ExactInv, Led
<1>10. IndexInv(n)
  BY DEF ExactInv
<1>11. IndexInv(n)'
  <2>1. Sound(j) /\ Sound(q)
    <3>1. Sound(j) /\ j.todo \subseteq j.doc.targets /\ Resolved(j)
      BY <1>1, <1>10 DEF IndexInv, Sound, Still
    <3>2. Resolved(q)
      BY <1>1, <1>2, <1>3, <3>1, ResolvedGrows DEF q
    <3> QED BY <1>1, <1>5, <3>1, <3>2 DEF Sound
  <2>2. ASSUME NEW l \in Kinds PROVE Sound(job'[n][l]) /\ (n \notin unsure' => Progress(n, job[n][l])')
    <3>1. CASE l = k
      BY <1>1, <1>5, <1>6, <1>7, <1>10, <2>1, <3>1 DEF IndexInv, Progress
    <3>2. CASE l # k
      BY <1>6, <1>7, <1>10, <3>2 DEF IndexInv, Progress
    <3> QED BY <3>1, <3>2
  <2>3. IsFiniteSet(edges'[n])
    BY <1>7, <1>10 DEF IndexInv
  <2>4. Exact(n)'
    BY <1>5, <1>6 DEF Exact, Indexing
  <2> QED BY <2>2, <2>3, <2>4 DEF IndexInv, Sound, Resolved
<1>12. ASSUME NEW m \in IndexNotes \ {n} PROVE IndexInv(m)'
  BY <1>6, <1>7, NoteKeeps DEF ExactInv
<1> QED BY <1>8, <1>9, <1>11, <1>12 DEF ExactInv

----------------------------------------------------------------------------
(* Loads, writes, roll-backs, purges, evictions and restarts.              *)

\* A reindex k of n starts.
LEMMA StartKeeps ==
  ASSUME ExactInv, NEW n \in IndexNotes, NEW k \in Kinds, NEW d \in DocType,
         Starts(n, k, d), ~Indexing(n, k), UNCHANGED tables,
         stored' \in [IndexNotes -> DocType], memory' \in [IndexNotes -> SUBSET DocType],
         writer' \in [IndexNotes -> WriterType],
         \A m \in IndexNotes \ {n} :
           stored'[m] = stored[m] /\ memory'[m] = memory[m] /\ writer'[m] = writer[m],
         changes' \in 0 .. MaxChanges + 1, changes' >= changes, UNCHANGED drops,
         d.version <= changes', stored'[n].version <= changes',
         \A e \in memory'[n] : e.version <= changes', writer'[n].doc.version <= changes',
         k # "load" /\ job[n]["load"].pc = "read" => memory'[n] = {},
         writer'[n].own => memory'[n] = {writer'[n].doc},
         \A e, f \in memory'[n] : e = f,
         writer'[n].pc # "none" => k # "write" /\ Idle(n, "write")
  PROVE  ExactInv'
<1>1. /\ Started(d) \in JobType /\ Sound(Started(d)) /\ Started(d).pc \in {"node", "deleteNode"}
      /\ Started(d).doc = d /\ Started(d).resolved = {}
  BY StartedFine
<1>2. job' = [job EXCEPT ![n][k] = Started(d)] /\ indexed' = [indexed EXCEPT ![n] = d]
  BY DEF Starts
<1>3. /\ job' \in [IndexNotes -> [Kinds -> JobType]] /\ job'[n][k] = Started(d)
      /\ \A m \in IndexNotes \ {n} : job'[m] = job[m]
      /\ \A l \in Kinds \ {k} : job'[n][l] = job[n][l]
  BY <1>1, <1>2 DEF ExactInv, Base, TypeInv
<1>4. /\ indexed' \in [IndexNotes -> DocType] /\ indexed'[n] = d
      /\ \A m \in IndexNotes \ {n} : indexed'[m] = indexed[m]
  BY <1>2 DEF ExactInv, Base, TypeInv
<1>5. /\ unsure' \subseteq IndexNotes /\ \A m \in IndexNotes \ {n} : m \in unsure' <=> m \in unsure
      /\ n \notin unsure' =>
           \/ \A l \in Kinds : ~Indexing(n, l)
           \/ n \notin unsure /\ \A l \in Kinds : Indexing(n, l) => job[n][l].doc = d
  BY DEF ExactInv, Base, TypeInv, Starts
<1>6. UNCHANGED <<row, fulltext, vector, edges, stubs, skipped>>
  BY DEF tables
<1>7. Base'
  <2>1. Owned(n)'
    <3>1. job'[n]["load"].pc = "read" => k # "load" /\ job[n]["load"].pc = "read"
      BY <1>1, <1>3, Distinct
    <3>2. writer'[n].pc # "none" => job'[n]["write"].pc = "none"
      BY <1>3, Distinct DEF Idle
    <3> QED BY <3>1, <3>2 DEF Owned, Idle
  <2>2. Base /\ Started(d).doc.version <= changes' /\ indexed'[n].version <= changes'
    BY <1>1, <1>4 DEF ExactInv
  <2> QED BY <1>1, <1>2, <1>4, <1>5, <2>1, <2>2, BeginsBase
<1>8. Led'
  BY <1>1, <1>3, LedKeeps DEF ExactInv
<1>9. IndexInv(n)
  BY DEF ExactInv
<1>10. IndexInv(n)'
  <2>1. ASSUME NEW l \in Kinds
        PROVE  Sound(job'[n][l]) /\ (n \notin unsure' => Progress(n, job[n][l])')
    <3>1. CASE l = k
      BY <1>1, <1>3, <1>4, <3>1 DEF Progress
    <3>2. CASE l # k
      <4>1. job'[n][l] = job[n][l] /\ Sound(job[n][l])
        BY <1>3, <1>9, <3>2 DEF IndexInv
      <4>2. ASSUME n \notin unsure', job[n][l].pc \notin Still PROVE Progress(n, job[n][l])'
        <5>1. n \notin unsure /\ job[n][l].doc = d
          BY <1>5, <4>2 DEF Indexing, Still
        <5>2. Progress(n, job[n][l])
          BY <1>9, <5>1 DEF IndexInv
        <5> QED BY <1>4, <1>6, <4>1, <5>1, <5>2 DEF Progress
      <4> QED BY <4>1, <4>2 DEF Progress
    <3> QED BY <3>1, <3>2
  <2>2. IsFiniteSet(edges'[n])
    BY <1>6, <1>9 DEF IndexInv
  <2>3. Exact(n)'
    BY <1>1, <1>3 DEF Exact, Indexing
  <2> QED BY <2>1, <2>2, <2>3 DEF IndexInv, Sound, Resolved
<1>11. ASSUME NEW m \in IndexNotes \ {n} PROVE IndexInv(m)'
  BY <1>3, <1>4, <1>5, <1>6, NoteKeeps DEF ExactInv
<1> QED BY <1>7, <1>8, <1>10, <1>11 DEF ExactInv

\* What the types say of a note.
LEMMA TypedParts ==
  ASSUME ExactInv, NEW n \in IndexNotes
  PROVE  /\ stored[n] \in DocType /\ memory[n] \subseteq DocType
         /\ writer[n] \in WriterType /\ writer[n].doc \in DocType
         /\ job[n]["load"] \in JobType /\ job[n]["load"].doc \in DocType
         /\ changes \in Nat /\ drops \in Nat /\ MaxChanges \in Nat /\ MaxDrops \in Nat
         /\ drops \in 0 .. MaxDrops /\ changes \in 0 .. MaxChanges + 1
         /\ "load" \in Kinds /\ "write" \in Kinds
  BY IndexAssumption DEF ExactInv, Base, TypeInv, WriterType, JobType, Kinds

LEMMA ReadDocKeeps ==
  ASSUME ExactInv, NEW n \in IndexNotes, ReadDoc(n)
  PROVE  ExactInv'
<1> DEFINE j == [NoJob EXCEPT !.pc = "read", !.doc = stored[n]]
<1>1. /\ memory[n] = {} /\ job[n]["load"].pc = "none" /\ job' = [job EXCEPT ![n]["load"] = j]
      /\ UNCHANGED <<stored, memory, writer, indexed, unsure, changes, drops>> /\ UNCHANGED tables
  BY DEF ReadDoc, Idle
<1>2. j \in JobType /\ j.pc = "read" /\ j.doc = stored[n] /\ j.resolved = {}
  BY TypedParts, NoJobTyped DEF JobType, Still
<1> HIDE DEF j
<1>3. /\ job'[n]["load"] = j /\ \A m \in IndexNotes \ {n} : job'[m] = job[m]
      /\ \A l \in Kinds \ {"load"} : job'[n][l] = job[n][l]
  BY <1>1, TypedParts DEF ExactInv, Base, TypeInv
<1>4. Base'
  <2>1. Owned(n)'
    BY <1>1, <1>3, Distinct DEF ExactInv, Base, Owned, Idle
  <2>2. Bounded(n) /\ Base
    BY DEF ExactInv, Base
  <2>3. /\ stored' \in [IndexNotes -> DocType] /\ memory' \in [IndexNotes -> SUBSET DocType]
        /\ writer' \in [IndexNotes -> WriterType] /\ indexed' \in [IndexNotes -> DocType]
        /\ unsure' \subseteq IndexNotes /\ changes' \in 0 .. MaxChanges + 1 /\ changes' >= changes
    BY <1>1, <2>2, TypedParts DEF Base, TypeInv
  <2> QED BY <1>1, <1>2, <2>1, <2>2, <2>3, BeginsBase, TypedParts DEF Bounded
<1>5. Led'
  BY <1>1, <1>2, <1>3, LedKeeps DEF ExactInv
<1>6. ASSUME NEW m \in IndexNotes PROVE IndexInv(m)'
  <2>1. \A l \in Kinds : \/ job'[m][l] = job[m][l]
                         \/ job'[m][l].pc \in Still /\ job[m][l].pc \in Still
    BY <1>1, <1>2, <1>3 DEF Still
  <2> QED BY <1>1, <2>1, NoteKeeps DEF ExactInv, tables
<1> QED BY <1>4, <1>5, <1>6 DEF ExactInv

LEMMA InstallDocKeeps ==
  ASSUME ExactInv, NEW n \in IndexNotes, InstallDoc(n)
  PROVE  ExactInv'
<1> DEFINE d == job[n]["load"].doc
<1>1. /\ job[n]["load"].pc = "read" /\ memory' = [memory EXCEPT ![n] = {d}]
      /\ UNCHANGED <<stored, writer, changes, drops>> /\ UNCHANGED tables
  BY DEF InstallDoc
<1>2. d \in DocType
  BY TypedParts
<1>3. /\ memory' \in [IndexNotes -> SUBSET DocType] /\ memory'[n] = {d}
      /\ \A m \in IndexNotes \ {n} : memory'[m] = memory[m]
  BY <1>1, <1>2 DEF ExactInv, Base, TypeInv
<1>4. ~writer[n].own /\ (writer[n].pc # "none" => Idle(n, "write"))
  BY <1>1 DEF ExactInv, Base, Owned
<1>5. d.version <= changes /\ stored[n].version <= changes /\ writer[n].doc.version <= changes
  BY TypedParts DEF ExactInv, Base, Bounded
<1>6. /\ stored' \in [IndexNotes -> DocType] /\ writer' \in [IndexNotes -> WriterType]
      /\ changes' \in 0 .. MaxChanges + 1 /\ changes' >= changes
  BY <1>1, TypedParts DEF ExactInv, Base, TypeInv
<1>7. CASE d.version > 0
  <2>1. Starts(n, "load", d) /\ ~Indexing(n, "load")
    BY <1>1, <1>7 DEF InstallDoc, Indexing
  <2> HIDE DEF d
  <2> QED BY <1>1, <1>2, <1>3, <1>4, <1>5, <1>6, <2>1, StartKeeps, TypedParts
<1>8. CASE ~(d.version > 0)
  <2>1. job' = [job EXCEPT ![n]["load"] = NoJob] /\ UNCHANGED <<indexed, unsure>>
    BY <1>8 DEF InstallDoc
  <2>2. /\ job'[n]["load"] = NoJob /\ \A m \in IndexNotes \ {n} : job'[m] = job[m]
        /\ \A l \in Kinds \ {"load"} : job'[n][l] = job[n][l]
    BY <2>1, TypedParts DEF ExactInv, Base, TypeInv
  <2> HIDE DEF d
  <2>3. Base'
    <3>1. Owned(n)'
      BY <1>1, <1>3, <1>4, <2>2, NoJobTyped, Distinct DEF Owned, Idle
    <3>2. Base /\ Bounded(n)
      BY DEF ExactInv, Base
    <3>3. indexed' \in [IndexNotes -> DocType] /\ unsure' \subseteq IndexNotes
      BY <2>1, <3>2 DEF Base, TypeInv
    <3>4. NoJob \in JobType /\ NoJob.doc.version <= changes'
      BY <1>1, NoJobTyped, TypedParts
    <3> QED BY <1>1, <1>3, <1>5, <1>6, <2>1, <3>1, <3>2, <3>3, <3>4, BeginsBase, TypedParts DEF Bounded
  <2>4. Led'
    BY <1>1, <2>2, LedKeeps, NoJobTyped DEF ExactInv
  <2>5. ASSUME NEW m \in IndexNotes PROVE IndexInv(m)'
    <3>1. \A l \in Kinds : \/ job'[m][l] = job[m][l]
                           \/ job'[m][l].pc \in Still /\ job[m][l].pc \in Still
      BY <1>1, <2>2, NoJobTyped DEF Still
    <3> QED BY <1>1, <2>1, <3>1, NoteKeeps DEF ExactInv, tables
  <2> QED BY <2>3, <2>4, <2>5 DEF ExactInv
<1> QED BY <1>7, <1>8

\* Only the documents in memory and the writers change.
LEMMA HoldsKeeps ==
  ASSUME ExactInv, Base', UNCHANGED <<stored, job, indexed, unsure, changes>>, UNCHANGED tables
  PROVE  ExactInv'
<1>1. Led'
  BY LedKeeps DEF ExactInv
<1>2. ASSUME NEW m \in IndexNotes PROVE IndexInv(m)'
  BY NoteKeeps DEF ExactInv, tables
<1> QED BY <1>1, <1>2 DEF ExactInv

LEMMA EvictKeeps ==
  ASSUME ExactInv, NEW n \in IndexNotes, Evict(n)
  PROVE  ExactInv'
<1>1. /\ memory' = [memory EXCEPT ![n] = {}] /\ writer' = [writer EXCEPT ![n].own = FALSE]
      /\ UNCHANGED <<stored, job, indexed, unsure, changes>> /\ UNCHANGED tables
      /\ drops' \in 0 .. MaxDrops
  BY TypedParts DEF Evict
<1>2. /\ memory' \in [IndexNotes -> SUBSET DocType] /\ memory'[n] = {}
      /\ writer' \in [IndexNotes -> WriterType] /\ writer'[n].doc = writer[n].doc /\ ~writer'[n].own
      /\ \A m \in IndexNotes \ {n} : memory'[m] = memory[m] /\ writer'[m] = writer[m]
  BY <1>1 DEF ExactInv, Base, TypeInv, WriterType
<1>3. writer'[n].pc # "none" => Idle(n, "write")
  BY <1>1 DEF ExactInv, Base, TypeInv, WriterType, Owned
<1>4. Base'
  BY <1>1, <1>2, <1>3, HoldsBase DEF ExactInv
<1> QED BY <1>1, <1>4, HoldsKeeps

\* The steps of a writer that neither write nor index anything.
LEMMA WriterKeeps ==
  ASSUME ExactInv, NEW n \in IndexNotes, Check(n) \/ Hold(n) \/ Leave(n) \/ Purged(n)
  PROVE  ExactInv'
<1>1. /\ UNCHANGED <<stored, job, indexed, unsure, changes, drops>> /\ UNCHANGED tables
      /\ memory' = memory \/ memory' = [memory EXCEPT ![n] = {}]
  BY DEF Check, Hold, Leave, Purged
<1>2. PICK w \in WriterType :
        /\ writer' = [writer EXCEPT ![n] = w]
        /\ w.doc \in {Unwritten} \cup memory[n]
        /\ w.own => memory'[n] = {w.doc}
        /\ w.pc # "none" => Idle(n, "write")
  <2>1. CASE Check(n)
    <3>1. [Nobody EXCEPT !.pc = "checked", !.existed = row[n] # {}] \in WriterType
      BY NobodyTyped DEF WriterType
    <3> QED BY <2>1, <3>1 DEF Check, Nobody, Unlocked
  <2>2. CASE Hold(n)
    <3>1. PICK d \in memory[n] :
            writer' = [writer EXCEPT ![n] = [@ EXCEPT !.pc = "held", !.doc = d, !.own = TRUE]]
      BY <2>2 DEF Hold
    <3> DEFINE w == [writer[n] EXCEPT !.pc = "held", !.doc = d, !.own = TRUE]
    <3>2. w \in WriterType /\ w.doc = d
      BY TypedParts DEF WriterType
    <3>0. \A e \in memory[n] : e = d
      BY DEF ExactInv, Base, Owned
    <3>5. memory[n] = {d} /\ UNCHANGED memory
      BY <2>2, <3>0 DEF Hold
    <3>6. writer' = [writer EXCEPT ![n] = w]
      BY <3>1
    <3>3. memory'[n] = {d} /\ w.own
      BY <3>5, TypedParts DEF WriterType
    <3>4. Idle(n, "write")
      BY <2>2 DEF Hold, ExactInv, Base, Owned
    <3> HIDE DEF w
    <3> QED BY <3>1, <3>2, <3>3, <3>4, <3>6
  <2>3. CASE Leave(n) \/ Purged(n)
    BY <2>3, NobodyTyped DEF Leave, Purged, Nobody
  <2> QED BY <2>1, <2>2, <2>3
<1>3. /\ memory' \in [IndexNotes -> SUBSET DocType] /\ memory'[n] \subseteq memory[n]
      /\ writer' \in [IndexNotes -> WriterType] /\ writer'[n] = w
      /\ \A m \in IndexNotes \ {n} : memory'[m] = memory[m] /\ writer'[m] = writer[m]
  BY <1>1, <1>2 DEF ExactInv, Base, TypeInv
<1>4. Base'
  BY <1>1, <1>2, <1>3, HoldsBase, TypedParts DEF ExactInv
<1> QED BY <1>1, <1>4, HoldsKeeps

LEMMA WriteDocKeeps ==
  ASSUME ExactInv, NEW n \in IndexNotes, NEW t \in IndexTitles, NEW targets \in Links,
         NEW deleted \in BOOLEAN, WriteDoc(n, t, targets, deleted)
  PROVE  ExactInv'
<1> DEFINE text(v) == [version |-> v, title |-> t, targets |-> targets, deleted |-> deleted]
<1>1. /\ changes < MaxChanges /\ changes' \in {changes + 1, changes + 2}
      /\ stored' = [stored EXCEPT ![n] = text(changes')]
      /\ memory' = [memory EXCEPT ![n] = {text(changes + 1)}] \/ (memory' = memory /\ ~writer[n].own)
      /\ writer' = [writer EXCEPT ![n] = Nobody]
      /\ Starts(n, "write", text(changes + 1)) /\ UNCHANGED drops /\ UNCHANGED tables
      /\ writer[n].pc = "held" /\ (writer[n].own => memory' = [memory EXCEPT ![n] = {text(changes + 1)}])
  BY DEF WriteDoc
<1>2. /\ changes' \in 0 .. MaxChanges + 1 /\ changes' >= changes /\ changes + 1 <= changes'
      /\ changes' \in Nat /\ changes + 1 \in Nat
  BY <1>1, TypedParts
<1>3. \A v \in Nat : text(v) \in DocType /\ text(v).version = v
  BY DEF DocType
<1> HIDE DEF text
<1>4. /\ stored' \in [IndexNotes -> DocType] /\ stored'[n].version = changes'
      /\ writer' \in [IndexNotes -> WriterType] /\ writer'[n] = Nobody
      /\ memory' \in [IndexNotes -> SUBSET DocType]
      /\ memory'[n] = {text(changes + 1)} \/ memory'[n] = memory[n]
      /\ \A m \in IndexNotes \ {n} :
           stored'[m] = stored[m] /\ memory'[m] = memory[m] /\ writer'[m] = writer[m]
  <2>1. text(changes') \in DocType /\ text(changes').version = changes' /\ text(changes + 1) \in DocType
    BY <1>2, <1>3
  <2>2. /\ stored \in [IndexNotes -> DocType] /\ memory \in [IndexNotes -> SUBSET DocType]
        /\ writer \in [IndexNotes -> WriterType]
    BY DEF ExactInv, Base, TypeInv
  <2>3. /\ stored' \in [IndexNotes -> DocType] /\ stored'[n] = text(changes')
        /\ \A m \in IndexNotes \ {n} : stored'[m] = stored[m]
    BY <1>1, <2>1, <2>2
  <2>4. /\ writer' \in [IndexNotes -> WriterType] /\ writer'[n] = Nobody
        /\ \A m \in IndexNotes \ {n} : writer'[m] = writer[m]
    BY <1>1, <2>2, NobodyTyped
  <2>5. /\ memory' \in [IndexNotes -> SUBSET DocType]
        /\ memory'[n] = {text(changes + 1)} \/ memory'[n] = memory[n]
        /\ \A m \in IndexNotes \ {n} : memory'[m] = memory[m]
    BY <1>1, <2>1, <2>2
  <2> QED BY <2>1, <2>3, <2>4, <2>5
<1>5. \A e \in memory'[n] : e.version <= changes'
  <2>1. \A e \in memory[n] : e.version <= changes'
    BY <1>2, TypedParts DEF ExactInv, Base, Bounded, DocType
  <2> QED BY <1>2, <1>3, <1>4, <2>1
<1>6. \A e, f \in memory'[n] : e = f
  BY <1>4 DEF ExactInv, Base, Owned
<1>7. job[n]["load"].pc = "read" => memory'[n] = {}
  <2>1. job[n]["load"].pc = "read" => memory[n] = {} /\ ~writer[n].own
    BY DEF ExactInv, Base, Owned
  <2>2. ~writer[n].own => memory' = memory
    BY DEF WriteDoc
  <2> QED BY <2>1, <2>2
<1>8. ~Indexing(n, "write")
  BY <1>1 DEF ExactInv, Base, Owned, Idle, Indexing
<1>9. /\ text(changes + 1) \in DocType /\ text(changes + 1).version <= changes'
      /\ stored'[n].version <= changes' /\ writer'[n].doc.version <= changes' /\ ~writer'[n].own
      /\ writer'[n].pc = "none"
  BY <1>2, <1>3, <1>4, NobodyTyped DEF Nobody
<1> QED BY <1>1, <1>2, <1>4, <1>5, <1>6, <1>7, <1>8, <1>9, StartKeeps, TypedParts

LEMMA RollBackKeeps ==
  ASSUME ExactInv, NEW n \in IndexNotes, RollBack(n)
  PROVE  ExactInv'
<1>1. /\ writer[n].pc = "held" /\ writer' = [writer EXCEPT ![n] = Nobody]
      /\ UNCHANGED <<stored, changes, drops>> /\ UNCHANGED tables
  BY DEF RollBack
<1>2. PICK d \in {writer[n].doc, Absent} :
        /\ Starts(n, "write", d)
        /\ memory' = memory \/ memory' = [memory EXCEPT ![n] = {}]
  BY DEF RollBack
<1>3. d \in DocType /\ d.version <= changes
  BY <1>2, TypedParts, UnwrittenTyped DEF ExactInv, Base, Bounded
<1>4. /\ writer' \in [IndexNotes -> WriterType] /\ writer'[n] = Nobody
      /\ memory' \in [IndexNotes -> SUBSET DocType] /\ memory'[n] \subseteq memory[n]
      /\ \A m \in IndexNotes \ {n} : memory'[m] = memory[m] /\ writer'[m] = writer[m]
  BY <1>1, <1>2, NobodyTyped DEF ExactInv, Base, TypeInv
<1>5. /\ ~Indexing(n, "write") /\ (job[n]["load"].pc = "read" => memory'[n] = {})
      /\ \A e, f \in memory'[n] : e = f
  BY <1>1, <1>4 DEF ExactInv, Base, Owned, Idle, Indexing
<1>6. /\ stored[n].version <= changes /\ \A e \in memory'[n] : e.version <= changes
  BY <1>4 DEF ExactInv, Base, Bounded
<1>7. writer'[n].doc.version <= changes' /\ ~writer'[n].own /\ writer'[n].pc = "none"
  BY <1>1, <1>4, NobodyTyped, TypedParts DEF Nobody
<1>8. stored' \in [IndexNotes -> DocType] /\ changes' \in 0 .. MaxChanges + 1 /\ changes' >= changes
  BY <1>1, TypedParts DEF ExactInv, Base, TypeInv
<1> QED BY <1>1, <1>2, <1>3, <1>4, <1>5, <1>6, <1>7, <1>8, StartKeeps, TypedParts

\* A purge empties the note's tables and takes it out of the others' edges.
LEMMA PurgeKeeps ==
  ASSUME ExactInv, NEW n \in IndexNotes, PurgeDoc(n)
  PROVE  ExactInv'
<1>1. /\ Unlocked(n) /\ UNCHANGED <<memory, job, stubs, skipped, drops>>
      /\ stored' = [stored EXCEPT ![n] = Unwritten] /\ writer' = [writer EXCEPT ![n].pc = "purged"]
      /\ indexed' = [indexed EXCEPT ![n] = Absent]
      /\ row' = [row EXCEPT ![n] = {}] /\ fulltext' = [fulltext EXCEPT ![n] = 0]
      /\ vector' = [vector EXCEPT ![n] = 0]
      /\ edges' = [m \in IndexNotes |-> IF m = n THEN {} ELSE edges[m] \ {n}]
      /\ unsure' = IF Indexing(n, "load") THEN unsure \cup {n} ELSE unsure \ {n}
      /\ changes' = changes + 1 /\ changes < MaxChanges
  BY DEF PurgeDoc
<1>2. /\ changes' \in 0 .. MaxChanges + 1 /\ changes' \in Nat /\ changes' >= changes
  BY <1>1, TypedParts
<1>3. TypeInv'
  <2>1. writer' \in [IndexNotes -> WriterType]
    BY <1>1, TypedParts DEF ExactInv, Base, TypeInv, WriterType
  <2> QED BY <1>1, <1>2, <2>1, UnwrittenTyped DEF ExactInv, Base, TypeInv
<1>4. \A m \in IndexNotes : edges'[m] = IF m = n THEN {} ELSE edges[m] \ {n}
  BY <1>1
<1>5. Led'
  <2>1. ASSUME NEW m \in IndexNotes PROVE edges'[m] \subseteq IndexNotes \cup stubs
    BY <1>4 DEF ExactInv, Led
  <2> QED BY <1>1, <2>1 DEF ExactInv, Led
<1>6. /\ edges'[n] = {} /\ row'[n] = {} /\ fulltext'[n] = 0 /\ vector'[n] = 0
      /\ stored'[n] = Unwritten /\ indexed'[n] = Absent
      /\ writer'[n].doc = writer[n].doc /\ writer'[n].own = writer[n].own
  BY <1>1, <1>4 DEF ExactInv, Base, TypeInv, WriterType
<1>7. ASSUME NEW m \in IndexNotes \ {n}
      PROVE  /\ stored'[m] = stored[m] /\ indexed'[m] = indexed[m] /\ writer'[m] = writer[m]
             /\ row'[m] = row[m] /\ fulltext'[m] = fulltext[m] /\ vector'[m] = vector[m]
             /\ edges'[m] = edges[m] \ {n} /\ (m \in unsure' <=> m \in unsure)
  BY <1>1, <1>4 DEF ExactInv, Base, TypeInv
<1>8. ASSUME NEW m \in IndexNotes PROVE Bounded(m)' /\ Owned(m)'
  <2>1. Bounded(m) /\ Owned(m) /\ changes \in Nat
    BY TypedParts DEF ExactInv, Base
  <2>2. Owned(m)'
    BY <1>1, <1>6, <1>7, <2>1 DEF Owned, Unlocked, Idle
  <2>3. /\ stored[m].version \in Nat /\ indexed[m].version \in Nat
        /\ vector[m] \in Nat /\ fulltext[m] \in Nat /\ writer[m].doc.version \in Nat
        /\ \A d \in memory[m] : d.version \in Nat
        /\ \A l \in Kinds : job[m][l].doc.version \in Nat
    BY DEF ExactInv, Base, TypeInv, DocType, JobType, WriterType
  <2>6. /\ stored[m].version <= changes' /\ indexed[m].version <= changes'
        /\ vector[m] <= changes' /\ fulltext[m] <= changes' /\ writer[m].doc.version <= changes'
    BY <1>2, <2>1, <2>3 DEF Bounded
  <2>7. /\ \A d \in memory[m] : d.version <= changes'
        /\ \A l \in Kinds : job[m][l].doc.version <= changes'
    BY <1>2, <2>1, <2>3 DEF Bounded
  <2>4. CASE m = n
    BY <1>1, <1>2, <1>6, <2>2, <2>4, <2>6, <2>7, UnwrittenTyped DEF Bounded
  <2>5. CASE m # n
    BY <1>1, <1>7, <2>2, <2>5, <2>6, <2>7 DEF Bounded
  <2> QED BY <2>4, <2>5
<1>9. IndexInv(n)'
  <2>1. \A k \in Kinds : Sound(job[n][k])
    BY DEF ExactInv, IndexInv
  <2>2. n \notin unsure' => \A k \in Kinds : ~Indexing(n, k)
    BY <1>1, Distinct DEF Unlocked, Idle, Indexing
  <2>3. \A k \in Kinds : n \notin unsure' => Progress(n, job[n][k])'
    BY <1>1, <2>2 DEF Progress, Indexing, Still
  <2>4. Exact(n)'
    BY <1>6, UnwrittenTyped DEF Exact
  <2> QED BY <1>1, <1>6, <2>1, <2>3, <2>4, FS_EmptySet DEF IndexInv, Sound, Resolved
<1>10. ASSUME NEW m \in IndexNotes \ {n} PROVE IndexInv(m)'
  <2>1. IndexInv(m) /\ IsFiniteSet(edges[m])
    BY DEF ExactInv, IndexInv
  <2>2. ASSUME NEW k \in Kinds
        PROVE  Sound(job[m][k])' /\ (m \notin unsure' => Progress(m, job[m][k])')
    <3>1. job'[m][k] = job[m][k] /\ (edges[m] = {} => edges'[m] = {}) /\ (m \in skipped' <=> m \in skipped)
      BY <1>1, <1>7
    <3>2. Sound(job[m][k])'
      BY <2>1, <3>1 DEF IndexInv, Sound, Resolved
    <3>3. ASSUME m \notin unsure' PROVE Progress(m, job[m][k])'
      <4>1. Progress(m, job[m][k])
        BY <1>7, <2>1, <3>3 DEF IndexInv
      <4> QED BY <1>7, <3>1, <4>1 DEF Progress
    <3> QED BY <3>2, <3>3
  <2>3. /\ IsFiniteSet(edges'[m]) /\ Cardinality(edges'[m]) <= Cardinality(edges[m])
        /\ Cardinality(edges'[m]) \in Nat /\ Cardinality(edges[m]) \in Nat
    <3>1. IsFiniteSet(edges'[m]) /\ Cardinality(edges'[m]) <= Cardinality(edges[m])
      BY <1>7, <2>1, FS_Subset
    <3> QED BY <2>1, <3>1, FS_CardinalityType
  <2>4. Exact(m)'
    <3>1. edges'[m] \ IndexNotes = edges[m] \ IndexNotes /\ (edges[m] = {} => edges'[m] = {})
      BY <1>7
    <3>2. IsFiniteSet(indexed[m].targets)
      BY IndexAssumption, FS_EmptySet DEF ExactInv, Base, TypeInv, DocType
    <3>3. Cardinality(indexed[m].targets) \in Nat
      BY <3>2, FS_CardinalityType
    <3> QED BY <1>1, <1>7, <2>1, <2>3, <3>1, <3>3 DEF IndexInv, Exact, Indexing
  <2> QED BY <2>2, <2>3, <2>4 DEF IndexInv
<1> QED BY <1>3, <1>5, <1>8, <1>9, <1>10 DEF ExactInv, Base

\* A restart cuts the reindexes off, and their notes are unsure.
LEMMA RestartKeeps ==
  ASSUME ExactInv, Restart
  PROVE  ExactInv'
<1>1. /\ UNCHANGED <<stored, indexed, row, fulltext, vector, edges, stubs, skipped, changes>>
      /\ drops' = drops + 1 /\ drops < MaxDrops
      /\ job' = [n \in IndexNotes |-> [k \in Kinds |-> NoJob]]
      /\ memory' = [n \in IndexNotes |-> {}] /\ writer' = [n \in IndexNotes |-> Nobody]
      /\ unsure' = unsure \cup {n \in IndexNotes : \E k \in Kinds : Indexing(n, k)}
  BY DEF Restart, tables
<1>2. \A n \in IndexNotes :
        memory'[n] = {} /\ writer'[n] = Nobody /\ \A k \in Kinds : job'[n][k] = NoJob
  BY <1>1
<1>3. TypeInv'
  <2>1. drops' \in 0 .. MaxDrops
    BY <1>1, IndexAssumption DEF ExactInv, Base, TypeInv
  <2> QED BY <1>1, <2>1, NoJobTyped, NobodyTyped DEF ExactInv, Base, TypeInv
<1>4. Led'
  BY <1>1, <1>2, NoJobTyped DEF ExactInv, Led
<1>5. ASSUME NEW n \in IndexNotes PROVE Bounded(n)' /\ Owned(n)'
  <2>1. Bounded(n) /\ changes \in Nat /\ "load" \in Kinds
    BY TypedParts DEF ExactInv, Base
  <2> QED BY <1>1, <1>2, <2>1, NoJobTyped, NobodyTyped DEF Bounded, Owned, Nobody
<1>6. ASSUME NEW n \in IndexNotes PROVE IndexInv(n)'
  <2>1. IndexInv(n)
    BY DEF ExactInv
  <2>2. \A k \in Kinds : Sound(job'[n][k]) /\ Progress(n, job[n][k])'
    BY <1>2, NoJobTyped DEF Progress, Still
  <2>3. IsFiniteSet(edges'[n])
    BY <1>1, <2>1 DEF IndexInv
  <2>4. Exact(n)'
    <3>1. n \notin unsure' => n \notin unsure /\ \A k \in Kinds : ~Indexing(n, k)
      BY <1>1
    <3> QED BY <1>1, <2>1, <3>1 DEF IndexInv, Exact
  <2> QED BY <2>2, <2>3, <2>4 DEF IndexInv, Sound, Resolved
<1> QED BY <1>3, <1>4, <1>5, <1>6 DEF ExactInv, Base

LEMMA IndexInitially == IndexInit => ExactInv
<1> SUFFICES ASSUME IndexInit PROVE ExactInv
  OBVIOUS
<1>1. \A n \in IndexNotes : /\ stored[n] = Unwritten /\ indexed[n] = Absent
                            /\ memory[n] = {} /\ writer[n] = Nobody
                            /\ row[n] = {} /\ fulltext[n] = 0 /\ vector[n] = 0 /\ edges[n] = {}
                            /\ \A k \in Kinds : job[n][k] = NoJob
  BY DEF IndexInit
<1>2. TypeInv
  BY NoJobTyped, NobodyTyped, UnwrittenTyped, IndexAssumption DEF IndexInit, TypeInv
<1>3. Led
  BY <1>1, NoJobTyped DEF Led
<1>4. ASSUME NEW n \in IndexNotes PROVE Bounded(n) /\ Owned(n)
  <2>1. changes = 0 /\ "load" \in Kinds
    BY DEF IndexInit, Kinds
  <2> QED BY <1>1, <2>1, NoJobTyped, NobodyTyped, UnwrittenTyped DEF Bounded, Owned, Nobody
<1>5. ASSUME NEW n \in IndexNotes PROVE IndexInv(n)
  <2>1. \A k \in Kinds : Sound(job[n][k]) /\ Progress(n, job[n][k])
    BY <1>1, NoJobTyped DEF Progress, Still
  <2>2. Exact(n)
    BY <1>1, UnwrittenTyped DEF Exact
  <2> QED BY <1>1, <2>1, <2>2, FS_EmptySet DEF IndexInv
<1> QED BY <1>2, <1>3, <1>4, <1>5 DEF ExactInv, Base

LEMMA IndexInductive == ExactInv /\ [IndexNext]_indexVars => ExactInv'
<1> SUFFICES ASSUME ExactInv, [IndexNext]_indexVars PROVE ExactInv'
  OBVIOUS
<1>1. ASSUME NEW n \in IndexNotes, NEW k \in Kinds, Reindex(n, k) PROVE ExactInv'
  BY <1>1, UpsertNodeKeeps, SearchUpsertKeeps, EmbedKeeps, ResolveKeeps, ReplaceEdgesKeeps,
     UnindexKeeps DEF Reindex, Targets
<1>2. CASE UNCHANGED indexVars
  <2>1. Base'
    BY <1>2 DEF indexVars, tables, ExactInv, Base, TypeInv, Bounded, Owned, Idle
  <2> QED BY <1>2, <2>1, HoldsKeeps DEF indexVars
<1> QED
  BY <1>1, <1>2, ReadDocKeeps, InstallDocKeeps, EvictKeeps, WriterKeeps, WriteDocKeeps,
     RollBackKeeps, PurgeKeeps, RestartKeeps DEF IndexNext

\* For any notes, titles and links, and any number of loads, writes, purges,
\* roll-backs, evictions and restarts, whatever a load read before it is
\* installed: where no reindex of a note was cut off or overlapped one of
\* another text, its row, text, vector and edges are those of the text the hub
\* last set out to index.
THEOREM IndexIsExact == IndexSpec => []IndexExact
<1>1. ExactInv => IndexExact
  BY DEF ExactInv, IndexInv, Exact, IndexExact
<1> QED BY <1>1, IndexInitially, IndexInductive, PTL DEF IndexSpec

\* And whatever the order of the reindexes' calls, no table holds anything of
\* a version that was never written, every edge leads to a note or to a stub
\* that has a row, and a writer's document is the one in memory until that is
\* evicted.
THEOREM IndexTyped == IndexSpec => []IndexTypeOK
<1>1. ExactInv => IndexTypeOK
  <2> SUFFICES ASSUME ExactInv PROVE IndexTypeOK
    OBVIOUS
  <2>1. changes \in Nat /\ \A n \in IndexNotes : Bounded(n) /\ Owned(n)
    BY IndexAssumption DEF ExactInv, Base, TypeInv
  <2>2. ASSUME NEW n \in IndexNotes
        PROVE  /\ stored[n] \in [version : 0 .. changes, title : IndexTitles,
                                 targets : Links \cup {{}}, deleted : BOOLEAN]
               /\ indexed[n] \in [version : 0 .. changes, title : IndexTitles,
                                  targets : Links \cup {{}}, deleted : BOOLEAN]
               /\ fulltext[n] \in 0 .. changes /\ vector[n] \in 0 .. changes
    <3>1. stored[n] \in DocType /\ indexed[n] \in DocType /\ fulltext[n] \in Nat /\ vector[n] \in Nat
      BY DEF ExactInv, Base, TypeInv
    <3> QED BY <2>1, <3>1 DEF Bounded, DocType
  <2>3. \A n \in IndexNotes : writer[n].own => memory[n] = {writer[n].doc}
    BY <2>1 DEF Owned
  <2> QED BY <2>1, <2>2, <2>3 DEF ExactInv, Base, TypeInv, Led, StubIds, IndexTypeOK
<1> QED BY <1>1, IndexInitially, IndexInductive, PTL DEF IndexSpec

=============================================================================
