-------------------------- MODULE VaultSync_proofs --------------------------
(***************************************************************************)
(* The sync of a space and a vault, for any notes, names, edits, crashes   *)
(* and options: where the brain wins no text is lost, but for a hidden     *)
(* draft's and for that of a file which another note is written over.      *)
(*                                                                         *)
(* A name may be that of several notes, so a run may write over a file it  *)
(* has read.  But what it writes carries the id of the note it writes: as  *)
(* long as a file the run has read is of the note it was read for, it is   *)
(* as it was read (`Current`).  And what is done in a note's turn changes  *)
(* no other note (`Touches`).                                              *)
(***************************************************************************)
EXTENDS VaultSync, TLAPS

RunType == [pc : {"idle", "sync", "overwrite", "tag", "writeback", "export"}, todo : SUBSET Ids,
            v : [Ids -> Gathered \cup {None}], b : [Ids -> Note \cup {None}],
            path : [Ids -> Titles \cup {None}],
            next : [Ids -> Entry \cup {None}], cur : Ids \cup {None}]

\* A file without an id has a name its user gave it.
Named == \A t \in Files : vault[t].id = None => t \in FileNames

VaultTyped ==
  /\ VaultTypeOK
  /\ run \in RunType
  /\ \A i \in Ids : run.next[i] # None => run.next[i].brainHash.id = i
  /\ \A i \in Ids : run.b[i] # None => run.path[i] # None
  /\ Named

\* The run is at a second step for note i.
AtStep(pc, i) == run.pc = pc /\ run.cur = i

\* What the run has read of note i is still so, for as long as it matters.
Current(i) ==
  /\ run.b[i] # None => brain[i] = run.b[i]
  /\ run.b[i] = None => ~Exportable(i) \/ AtStep("writeback", i)
  /\ run.v[i] # None => AtStep("tag", i) \/
       \A t \in Files : run.v[i].rel = t /\ IdOf(t) = i => vault[t] = run.v[i].file

\* What it has done for it.
Halfway(i) ==
  /\ run.v[i] # None
  /\ run.pc = "overwrite" =>
       run.b[i] # None /\ \A t \in Titles : run.v[i].rel = t => sidecar[t] = run.v[i].file.body
  /\ run.pc = "tag" => run.b[i] # None
  /\ run.pc = "writeback" => brain[i] # None /\ brain[i].body = run.v[i].file.body

InRun ==
  /\ run.pc = "idle" => run = NoRun
  /\ \A i \in run.todo : Current(i)
  /\ run.pc \in {"overwrite", "tag", "writeback"} =>
       run.cur \in run.todo /\ \A i \in Ids : run.cur = i => Halfway(i)
  /\ run.pc = "export" => \A i \in run.todo : run.b[i] # None

\* What both sides were said to have, both have had.
HadBoth(e) == {e.vaultHash.body, e.brainHash.body} \subseteq inBrain \cap inVault
History ==
  /\ \A i \in Ids : brain[i] # None => brain[i].body \in inBrain
  /\ \A t \in Files : vault[t].body \in inVault
  /\ \A i \in Ids : /\ manifest[i] # None => HadBoth(manifest[i])
                    /\ run.next[i] # None => HadBoth(run.next[i])
                    /\ run.v[i] # None => run.v[i].file.body \in inVault

VaultInv == VaultTyped /\ InRun /\ History

----------------------------------------------------------------------------
(* None is nothing else, and what things are.                              *)

LEMMA NoneIsNothing ==
  /\ \A n \in Note : n # None
  /\ \A f \in File : f # None
  /\ \A e \in Entry : e # None
  /\ \A g \in Gathered : g # None
  /\ \A i \in Ids : i # None
  /\ \A t \in FileNames : PathId[t] \in Ids /\ t \in Titles
  BY VaultAssumption

LEMMA NoteFields ==
  ASSUME NEW n \in Note
  PROVE  n.title \in Titles /\ n.body \in Body /\ n.tags \in Tags /\ n.deleted \in BOOLEAN
  BY DEF Note

LEMMA FileFields ==
  ASSUME NEW f \in File
  PROVE  /\ f.id \in Ids \cup {None} /\ f.body \in Body /\ f.tags \in Tags
         /\ f = [id |-> f.id, body |-> f.body, tags |-> f.tags]
  BY DEF File

LEMMA SerializedFile ==
  ASSUME NEW i \in Ids, NEW n \in Note
  PROVE  /\ Serialized(i, n) \in File
         /\ Serialized(i, n).id = i /\ Serialized(i, n).body = n.body /\ Serialized(i, n).tags = n.tags
  BY DEF Serialized, File, Note

\* The parts of a run, each of its type.
LEMMA RunFields ==
  ASSUME run \in RunType
  PROVE  /\ run.pc \in {"idle", "sync", "overwrite", "tag", "writeback", "export"}
         /\ run.todo \subseteq Ids /\ run.cur \in Ids \cup {None}
         /\ run.v \in [Ids -> Gathered \cup {None}] /\ run.b \in [Ids -> Note \cup {None}]
         /\ run.next \in [Ids -> Entry \cup {None}]
         /\ \A i \in Ids : /\ run.v[i] # None => run.v[i].rel \in Titles /\ run.v[i].file \in File
                           /\ run.b[i] # None => run.b[i] \in Note
                           /\ run.path[i] # None => run.path[i] \in Titles
                           /\ run.next[i] # None => run.next[i] \in Entry
<1>1. /\ run.v \in [Ids -> Gathered \cup {None}] /\ run.b \in [Ids -> Note \cup {None}]
      /\ run.next \in [Ids -> Entry \cup {None}] /\ run.path \in [Ids -> Titles \cup {None}]
  BY DEF RunType
<1>2. \A i \in Ids : run.v[i] # None => run.v[i] \in Gathered
  BY <1>1
<1>3. \A g \in Gathered : g.rel \in Titles /\ g.file \in File
  BY DEF Gathered
<1>4. /\ run.todo \subseteq Ids /\ run.cur \in Ids \cup {None}
      /\ run.pc \in {"idle", "sync", "overwrite", "tag", "writeback", "export"}
  BY DEF RunType
<1>5. \A i \in Ids : run.v[i] # None => run.v[i].rel \in Titles /\ run.v[i].file \in File
  BY <1>2, <1>3
<1> QED BY <1>1, <1>4, <1>5

LEMMA StateFields ==
  ASSUME VaultTyped
  PROVE  /\ brain \in [Ids -> Note \cup {None}] /\ vault \in [Titles -> File \cup {None}]
         /\ \A i \in Ids : /\ brain[i] # None => brain[i] \in Note
                           /\ manifest[i] # None => manifest[i] \in Entry
         /\ \A t \in Files : t \in Titles /\ vault[t] \in File
  BY DEF VaultTyped, VaultTypeOK, Files

LEMMA NoRunTyped ==
  /\ NoRun \in RunType /\ NoRun.pc = "idle" /\ NoRun.todo = {} /\ NoRun.cur = None
  /\ \A i \in Ids : NoRun.v[i] = None /\ NoRun.b[i] = None /\ NoRun.next[i] = None
  BY DEF NoRun, RunType

\* The notes that are listed, and their order.
ListedNotes == {i \in Ids : HasNote(i)}

LEMMA ListedFirstTyped ==
  ASSUME newer \subseteq ListedNotes \X ListedNotes, NEW i \in Ids,
         \A j \in Ids : HasNote(j) => HasNote(j)', HasNote(i)'
  PROVE  ListedFirst(i) \subseteq ListedNotes' \X ListedNotes'
<1>1. ListedNotes \subseteq ListedNotes' /\ i \in ListedNotes'
  BY DEF ListedNotes
<1>2. \A j \in {k \in Ids \ {i} : HasNote(k)} : <<i, j>> \in ListedNotes' \X ListedNotes'
  BY <1>1 DEF ListedNotes
<1> QED BY <1>1, <1>2 DEF ListedFirst

LEMMA NewerStays ==
  ASSUME newer \subseteq ListedNotes \X ListedNotes, newer' = newer,
         \A j \in Ids : HasNote(j) => HasNote(j)'
  PROVE  newer' \subseteq ListedNotes' \X ListedNotes'
<1>1. ListedNotes \subseteq ListedNotes'
  BY DEF ListedNotes
<1> QED BY <1>1

\* The type invariant, from its parts.
LEMMA TypedAgain ==
  ASSUME run' \in RunType,
         \A i \in Ids : run'.next[i] # None => run'.next[i].brainHash.id = i,
         \A i \in Ids : run'.b[i] # None => run'.path[i] # None,
         brain' \in [Ids -> Note \cup {None}], vault' \in [Titles -> File \cup {None}],
         newer' \subseteq ListedNotes' \X ListedNotes', Named',
         sidecar' \in [Titles -> Body \cup {None}], imports' \in [Titles -> Ids \cup {None}],
         manifest' \in [Ids -> Entry \cup {None}],
         \A i \in Ids : manifest'[i] # None => manifest'[i].brainHash.id = i,
         edits' \in 0 .. MaxEdits, crashes' \in 0 .. MaxCrashes, quiet' \in 0 .. MaxQuiet,
         inBrain' \subseteq Body, inVault' \subseteq Body
  PROVE  VaultTyped'
<1>1. /\ run'.pc \in {"idle", "sync", "overwrite", "tag", "writeback", "export"}
      /\ run'.todo \subseteq Ids /\ run'.cur \in Ids \cup {None}
  BY DEF RunType
<1>2. \A j \in Ids : run'.v[j] \in Gathered \cup {None} /\ run'.b[j] \in Note \cup {None}
                     /\ run'.path[j] \in Titles \cup {None} /\ run'.next[j] \in Entry \cup {None}
  BY DEF RunType
<1>3. VaultTypeOK'
  BY <1>1, <1>2 DEF VaultTypeOK, ListedNotes
<1> QED BY <1>3 DEF VaultTyped

\* What a step remembers of both sides.
LEMMA Remembered ==
  ASSUME VaultTyped, Remember, brain' \in [Ids -> Note \cup {None}], vault' \in [Titles -> File \cup {None}]
  PROVE  /\ inBrain' \subseteq Body /\ inVault' \subseteq Body
         /\ inBrain \subseteq inBrain' /\ inVault \subseteq inVault'
         /\ \A i \in Ids : brain'[i] # None => brain'[i].body \in inBrain'
         /\ \A t \in Files' : vault'[t].body \in inVault'
<1>1. \A i \in Ids : brain'[i] # None => brain'[i].body \in Body
  BY NoteFields
<1>2. \A t \in Titles : vault'[t] # None => vault'[t].body \in Body
  BY FileFields
<1> QED BY <1>1, <1>2 DEF Remember, Files, VaultTyped, VaultTypeOK

LEMMA PatchedNote ==
  ASSUME NEW i \in Ids, NEW t \in Titles, NEW f \in File
  PROVE  /\ Patched(i, t, f) \in Note /\ Patched(i, t, f).title = t
         /\ Patched(i, t, f).body = f.body /\ Patched(i, t, f).tags = f.tags
         /\ Patched(i, t, f).deleted = (brain[i] # None /\ brain[i].deleted)
<1>1. f.body \in Body /\ f.tags \in Tags
  BY FileFields
<1>2. (brain[i] # None /\ brain[i].deleted) \in BOOLEAN
  OBVIOUS
<1> QED BY <1>1, <1>2 DEF Patched, Note

----------------------------------------------------------------------------
(* What is done in the turn of one note.                                   *)

Touches(i) ==
  /\ manifest' = manifest
  /\ run'.v = run.v /\ run'.b = run.b /\ run'.path = run.path
  /\ run'.todo \subseteq run.todo
  /\ \A j \in Ids \ {i} : brain'[j] = brain[j] /\ run'.next[j] = run.next[j]
  /\ \A t \in Titles : vault'[t] = vault[t] \/ vault'[t] = None \/ vault'[t].id = i

\* Nothing is half done for another note.
Alone(i) == \A j \in Ids \ {i} : ~AtStep("tag", j) /\ ~AtStep("writeback", j)

\* A file that another note has after the step is as it was.
LEMMA OtherFilesStay ==
  ASSUME NEW i \in Ids, Touches(i), NEW t \in Files', IdOf(t)' # i
  PROVE  t \in Files /\ vault'[t] = vault[t] /\ IdOf(t)' = IdOf(t)
<1>1. t \in Titles /\ vault'[t] # None
  BY DEF Files
<1>2. vault'[t].id # i
  BY NoneIsNothing DEF IdOf
<1>3. vault'[t] = vault[t] /\ manifest' = manifest
  BY <1>1, <1>2 DEF Touches
<1> QED BY <1>1, <1>3 DEF Files, IdOf

LEMMA OthersStay ==
  ASSUME NEW i \in Ids, Touches(i), Alone(i), NEW j \in Ids, j # i, Current(j)
  PROVE  Current(j)'
<1>1. run'.v[j] = run.v[j] /\ run'.b[j] = run.b[j] /\ brain'[j] = brain[j]
  BY DEF Touches
<1>2. Exportable(j)' <=> Exportable(j)
  BY <1>1 DEF Exportable, HasNote
<1>3. ~AtStep("tag", j) /\ ~AtStep("writeback", j)
  BY DEF Alone
<1>4. ASSUME run'.v[j] # None, NEW t \in Files', run'.v[j].rel = t, IdOf(t)' = j
      PROVE  vault'[t] = run'.v[j].file
  <2>1. t \in Files /\ vault'[t] = vault[t] /\ IdOf(t) = j
    BY <1>4, OtherFilesStay
  <2> QED BY <1>1, <1>3, <1>4, <2>1 DEF Current
<1> QED BY <1>1, <1>2, <1>3, <1>4 DEF Current

\* What has to be shown of a step in the turn of note i.
LEMMA StepOn ==
  ASSUME VaultInv, VaultTyped', NEW i \in Ids, Touches(i), Alone(i),
         inBrain \subseteq inBrain', inVault \subseteq inVault',
         \A j \in Ids : brain'[j] # None => brain'[j].body \in inBrain',
         \A t \in Files' : vault'[t].body \in inVault',
         run'.next[i] # None => HadBoth(run.next[i])',
         run'.pc # "idle", run'.pc = "export" => run.pc = "export",
         i \in run'.todo => Current(i)',
         run'.pc \in {"overwrite", "tag", "writeback"} =>
           run'.cur = i /\ i \in run'.todo /\ Halfway(i)'
  PROVE  VaultInv'
<1>1. InRun'
  <2>1. ASSUME NEW j \in run'.todo PROVE Current(j)'
    <3>1. CASE j # i
      <4>1. j \in run.todo /\ j \in Ids /\ Current(j)
        BY RunFields DEF Touches, VaultInv, VaultTyped, InRun
      <4> QED BY <3>1, <4>1, OthersStay
    <3> QED BY <3>1
  <2>2. run'.pc = "export" => \A j \in run'.todo : run'.b[j] # None
    BY DEF VaultInv, InRun, Touches
  <2> QED BY <2>1, <2>2 DEF InRun
<1>2. \A j \in Ids : manifest'[j] # None => HadBoth(manifest[j])'
  BY DEF VaultInv, History, HadBoth, Touches
<1>3. \A j \in Ids : run'.next[j] # None => HadBoth(run.next[j])'
  BY DEF VaultInv, History, HadBoth, Touches
<1>4. \A j \in Ids : run'.v[j] # None => run'.v[j].file.body \in inVault'
  BY DEF VaultInv, History, Touches
<1>5. History'
  BY <1>2, <1>3, <1>4 DEF History
<1> QED BY <1>1, <1>5 DEF VaultInv

LEMMA DoneFields ==
  ASSUME run \in RunType, NEW i \in Ids, NEW e \in Entry \cup {None}, DoneWith(i, e)
  PROVE  /\ run' \in RunType /\ run'.pc = (IF run.pc = "export" THEN "export" ELSE "sync")
         /\ run'.todo = run.todo \ {i} /\ run'.v = run.v /\ run'.b = run.b /\ run'.path = run.path
         /\ run'.next[i] = e /\ \A j \in Ids \ {i} : run'.next[j] = run.next[j]
<1> DEFINE pc == IF run.pc = "export" THEN "export" ELSE "sync"
<1>1. run' = [run EXCEPT !.pc = pc, !.todo = run.todo \ {i}, !.cur = None,
                         !.next = [run.next EXCEPT ![i] = e]]
  BY DEF DoneWith, RunType
<1>2. [run.next EXCEPT ![i] = e] \in [Ids -> Entry \cup {None}] /\ pc \in {"sync", "export"}
  BY RunFields
<1>3. /\ [run.next EXCEPT ![i] = e][i] = e
      /\ \A j \in Ids \ {i} : [run.next EXCEPT ![i] = e][j] = run.next[j]
  BY RunFields
<1> HIDE DEF DoneWith, pc
<1>4. /\ run'.pc = pc /\ run'.todo = run.todo \ {i} /\ run'.v = run.v
      /\ run'.b = run.b /\ run'.path = run.path /\ run'.next = [run.next EXCEPT ![i] = e]
  BY <1>1 DEF RunType
<1>5. run' \in RunType
  BY <1>1, <1>2 DEF RunType
<1> QED BY <1>3, <1>4, <1>5 DEF pc

\* A note is done with: what is left to show of it.
LEMMA DoneKeeps ==
  ASSUME VaultInv, NEW i \in Ids, NEW e \in Entry \cup {None}, DoneWith(i, e),
         e # None => e.brainHash.id = i, run.pc # "idle", Alone(i),
         UNCHANGED <<sidecar, manifest, imports, edits, crashes, quiet>>,
         brain' \in [Ids -> Note \cup {None}], vault' \in [Titles -> File \cup {None}],
         newer' \subseteq ListedNotes' \X ListedNotes',
         \A j \in Ids \ {i} : brain'[j] = brain[j],
         \A t \in Titles : vault'[t] = vault[t] \/ vault'[t] = None \/ vault'[t].id = i,
         \/ Remember /\ (e # None => {e.vaultHash.body, e.brainHash.body} \subseteq inBrain' \cap inVault')
         \/ UNCHANGED <<brain, vault, inBrain, inVault>> /\ (e # None => HadBoth(e))
  PROVE  VaultInv'
<1>1. /\ run' \in RunType /\ run'.pc = (IF run.pc = "export" THEN "export" ELSE "sync")
      /\ run'.todo = run.todo \ {i} /\ run'.v = run.v /\ run'.b = run.b /\ run'.path = run.path
      /\ run'.next[i] = e /\ \A j \in Ids \ {i} : run'.next[j] = run.next[j]
  BY DoneFields DEF VaultInv, VaultTyped
<1>2. Touches(i)
  BY <1>1 DEF Touches
<1>3. /\ inBrain' \subseteq Body /\ inVault' \subseteq Body
      /\ inBrain \subseteq inBrain' /\ inVault \subseteq inVault'
      /\ \A j \in Ids : brain'[j] # None => brain'[j].body \in inBrain'
      /\ \A t \in Files' : vault'[t].body \in inVault'
      /\ e # None => HadBoth(e)'
  <2>1. CASE Remember /\ (e # None => {e.vaultHash.body, e.brainHash.body} \subseteq inBrain' \cap inVault')
    <3>1. e # None => HadBoth(e)'
      BY <2>1 DEF HadBoth
    <3> QED BY <2>1, <3>1, Remembered DEF VaultInv
  <2>2. CASE UNCHANGED <<brain, vault, inBrain, inVault>> /\ (e # None => HadBoth(e))
    BY <2>2 DEF VaultInv, VaultTyped, VaultTypeOK, History, HadBoth, Files
  <2> QED BY <2>1, <2>2
<1>4. VaultTyped'
  <2>1. \A j \in Ids : run'.next[j] # None => run'.next[j].brainHash.id = j
    BY <1>1 DEF VaultInv, VaultTyped
  <2>2. Named'
    BY NoneIsNothing DEF Named, Files, VaultInv, VaultTyped
  <2>3. \A j \in Ids : run'.b[j] # None => run'.path[j] # None
    BY <1>1 DEF VaultInv, VaultTyped
  <2>4. /\ sidecar' \in [Titles -> Body \cup {None}] /\ imports' \in [Titles -> Ids \cup {None}]
        /\ manifest' \in [Ids -> Entry \cup {None}]
        /\ \A j \in Ids : manifest'[j] # None => manifest'[j].brainHash.id = j
        /\ edits' \in 0 .. MaxEdits /\ crashes' \in 0 .. MaxCrashes /\ quiet' \in 0 .. MaxQuiet
    BY DEF VaultInv, VaultTyped, VaultTypeOK
  <2> QED BY <1>1, <1>3, <2>1, <2>2, <2>3, <2>4, TypedAgain
<1>5. HadBoth(run.next[i])' \/ run'.next[i] = None
  BY <1>1, <1>3 DEF HadBoth
<1> QED BY <1>1, <1>2, <1>3, <1>4, <1>5, StepOn

----------------------------------------------------------------------------
(* The steps of a run.                                                     *)

\* What a run knows of a note whose turn it is.
LEMMA TurnFacts ==
  ASSUME VaultInv, NEW i \in Ids, HasTurn(i), run.pc \in {"sync", "export"}
  PROVE  /\ i \in run.todo /\ Alone(i) /\ run.pc # "idle"
         /\ run.v[i] # None => /\ run.v[i].rel \in Titles /\ run.v[i].file \in File
                               /\ run.v[i].file.body \in inVault
                               /\ \A t \in Files : run.v[i].rel = t /\ IdOf(t) = i => vault[t] = run.v[i].file
         /\ run.b[i] # None => run.b[i] = brain[i] /\ brain[i] \in Note /\ run.path[i] \in Titles
         /\ run.b[i] = None => ~Exportable(i)
         /\ manifest[i] # None => /\ manifest[i] \in Entry /\ manifest[i].brainHash.id = i
                                  /\ HadBoth(manifest[i])
<1>1. i \in run.todo /\ Alone(i) /\ ~AtStep("tag", i) /\ ~AtStep("writeback", i)
  BY DEF HasTurn, Alone, AtStep
<1>2. Current(i)
  BY <1>1 DEF VaultInv, InRun
<1>3. /\ run.v[i] # None => run.v[i].rel \in Titles /\ run.v[i].file \in File
      /\ run.b[i] # None => run.path[i] \in Titles
  BY RunFields DEF VaultInv, VaultTyped
<1>4. /\ brain[i] # None => brain[i] \in Note
      /\ manifest[i] # None => manifest[i] \in Entry
  BY StateFields DEF VaultInv
<1>5. run.b[i] # None => run.b[i] = brain[i] /\ brain[i] \in Note
  BY <1>2, <1>4 DEF Current
<1>6. /\ run.v[i] # None => run.v[i].file.body \in inVault
      /\ manifest[i] # None => HadBoth(manifest[i]) /\ manifest[i].brainHash.id = i
  BY DEF VaultInv, VaultTyped, VaultTypeOK, History
<1> QED BY <1>1, <1>2, <1>3, <1>4, <1>5, <1>6 DEF Current

LEMMA PendingFacts ==
  ASSUME NEW i \in Ids, Pending(i)
  PROVE  HasTurn(i) /\ run.pc \in {"sync", "export"} /\ run.pc = "sync"
  BY DEF Pending

\* A turn that changes nothing.
LEMMA NothingDoneKeeps ==
  ASSUME VaultInv, NEW i \in Ids, HasTurn(i), run.pc \in {"sync", "export"},
         DoneWith(i, manifest[i]), UNCHANGED <<brain, newer, disk, inBrain, inVault>>,
         UNCHANGED <<edits, crashes, quiet>>
  PROVE  VaultInv'
<1>1. manifest[i] \in Entry \cup {None} /\ Alone(i) /\ run.pc # "idle"
      /\ (manifest[i] # None => HadBoth(manifest[i]) /\ manifest[i].brainHash.id = i)
  BY TurnFacts DEF VaultInv, VaultTyped, VaultTypeOK
<1>2. brain' = brain /\ vault' = vault /\ UNCHANGED <<sidecar, manifest, imports, inBrain, inVault>>
  BY DEF disk
<1>3. brain' \in [Ids -> Note \cup {None}] /\ vault' \in [Titles -> File \cup {None}]
  BY <1>2, StateFields DEF VaultInv
<1>4. newer' \subseteq ListedNotes' \X ListedNotes'
  BY <1>2 DEF VaultInv, VaultTyped, VaultTypeOK, ListedNotes, HasNote
<1> QED BY <1>1, <1>2, <1>3, <1>4, DoneKeeps

\* The note of a file is patched or created.
LEMMA ApplyFields ==
  ASSUME VaultInv, NEW i \in Ids, HasTurn(i), run.pc \in {"sync", "export"}, run.v[i] # None, Apply(i)
  PROVE  /\ brain' \in [Ids -> Note \cup {None}] /\ brain'[i] \in Note
         /\ brain'[i].body = run.v[i].file.body
         /\ \A j \in Ids \ {i} : brain'[j] = brain[j]
         /\ newer' \subseteq ListedNotes' \X ListedNotes'
<1> DEFINE n == Patched(i, run.v[i].rel, run.v[i].file)
<1>1. n \in Note /\ n.body = run.v[i].file.body /\ n.deleted = (brain[i] # None /\ brain[i].deleted)
  BY TurnFacts, PatchedNote
<1>2. /\ brain' = [brain EXCEPT ![i] = n] /\ brain \in [Ids -> Note \cup {None}]
      /\ newer' = IF brain[i] = None THEN ListedFirst(i) ELSE newer
  BY StateFields DEF Apply, VaultInv
<1> HIDE DEF n
<1>3. /\ brain' \in [Ids -> Note \cup {None}] /\ brain'[i] = n /\ n # None
      /\ \A j \in Ids \ {i} : brain'[j] = brain[j]
  BY <1>1, <1>2, NoneIsNothing
<1>4. \A j \in Ids : HasNote(j) => HasNote(j)'
  BY <1>1, <1>3 DEF HasNote
<1>5. brain[i] = None => HasNote(i)'
  BY <1>1, <1>3 DEF HasNote
<1>6. newer \subseteq ListedNotes \X ListedNotes
  BY DEF VaultInv, VaultTyped, VaultTypeOK, ListedNotes
<1>7. newer' \subseteq ListedNotes' \X ListedNotes'
  BY <1>2, <1>4, <1>5, <1>6, ListedFirstTyped, NewerStays
<1> QED BY <1>1, <1>3, <1>7

LEMMA ImportKeeps ==
  ASSUME VaultInv, NEW i \in Ids, Pending(i), run.v[i] # None,
         Import(i, run.v[i].file), UNCHANGED disk, Remember, UNCHANGED <<edits, crashes, quiet>>
  PROVE  VaultInv'
<1> DEFINE f == run.v[i].file
           e == [rel |-> run.v[i].rel, vaultHash |-> f, brainHash |-> Serialized(i, brain'[i])]
<1>1. /\ HasTurn(i) /\ run.pc \in {"sync", "export"} /\ run.pc # "idle" /\ Alone(i)
      /\ run.v[i].rel \in Titles /\ f \in File /\ f.body \in inVault
  BY PendingFacts, TurnFacts
<1>2. /\ brain' \in [Ids -> Note \cup {None}] /\ brain'[i] \in Note /\ brain'[i].body = f.body
      /\ \A j \in Ids \ {i} : brain'[j] = brain[j] /\ newer' \subseteq ListedNotes' \X ListedNotes'
  BY <1>1, ApplyFields DEF Import
<1>3. DoneWith(i, e)
  BY DEF Import, Remanifest
<1>4. e \in Entry /\ e.brainHash.id = i /\ e.vaultHash.body = f.body /\ e.brainHash.body = f.body
  BY <1>1, <1>2, SerializedFile DEF Entry
<1>5. vault' = vault /\ UNCHANGED <<sidecar, manifest, imports>> /\ vault' \in [Titles -> File \cup {None}]
  BY StateFields DEF disk, VaultInv
<1>6. f.body \in inBrain' /\ f.body \in inVault'
  <2>1. brain'[i] # None
    BY <1>2, NoneIsNothing
  <2> QED BY <1>1, <1>2, <1>5, <2>1, Remembered DEF VaultInv
<1>7. newer' \subseteq ListedNotes' \X ListedNotes'
  BY <1>1, ApplyFields DEF Import
<1> HIDE DEF f, e
<1> QED BY <1>1, <1>2, <1>3, <1>4, <1>5, <1>6, <1>7, DoneKeeps

\* The note is written to its path, and the names it moved away from removed.
LEMMA WriteKeeps ==
  ASSUME VaultInv, NEW i \in Ids, HasTurn(i), run.pc \in {"sync", "export"}, run.b[i] # None,
         NEW S, vault' = Written(i, run.path[i], S),
         DoneWith(i, [rel |-> run.path[i], vaultHash |-> vault'[run.path[i]],
                      brainHash |-> vault'[run.path[i]]]),
         UNCHANGED <<brain, newer, sidecar, manifest, imports>>, Remember,
         UNCHANGED <<edits, crashes, quiet>>
  PROVE  VaultInv'
<1> DEFINE t == run.path[i]
           f == Serialized(i, run.b[i])
           e == [rel |-> t, vaultHash |-> f, brainHash |-> f]
<1>1. /\ run.b[i] = brain[i] /\ brain[i] \in Note /\ t \in Titles /\ Alone(i) /\ run.pc # "idle"
  BY TurnFacts
<1>2. f \in File /\ f.id = i /\ f.body = brain[i].body /\ f # None
  BY <1>1, SerializedFile, NoneIsNothing
<1>3. /\ vault'[t] = f /\ vault' \in [Titles -> File \cup {None}]
      /\ \A u \in Titles \ {t} : vault'[u] = IF u \in S THEN None ELSE vault[u]
  BY <1>1, <1>2, StateFields DEF Written, VaultInv
<1>4. e \in Entry /\ e.brainHash.id = i /\ e.vaultHash.body = f.body /\ e.brainHash.body = f.body
  BY <1>1, <1>2 DEF Entry
<1>5. DoneWith(i, e)
  BY <1>3
<1>6. \A u \in Titles : vault'[u] = vault[u] \/ vault'[u] = None \/ vault'[u].id = i
  BY <1>2, <1>3
<1>7. brain' = brain /\ brain' \in [Ids -> Note \cup {None}]
  BY StateFields DEF VaultInv
<1>8. newer' \subseteq ListedNotes' \X ListedNotes'
  BY <1>7 DEF VaultInv, VaultTyped, VaultTypeOK, ListedNotes, HasNote
<1>9. f.body \in inBrain' /\ f.body \in inVault'
  <2>1. t \in Files' /\ brain'[i] # None /\ brain'[i].body = f.body
    BY <1>1, <1>2, <1>3, <1>7, NoneIsNothing DEF Files
  <2> QED BY <1>3, <1>7, <2>1, Remembered DEF VaultInv
<1> HIDE DEF t, f, e
<1> QED BY <1>1, <1>3, <1>4, <1>5, <1>6, <1>7, <1>8, <1>9, DoneKeeps

LEMMA MoveFields ==
  ASSUME run \in RunType, NEW i \in Ids, NEW q \in {"overwrite", "writeback"},
         run' = [run EXCEPT !.pc = q, !.cur = i]
  PROVE  /\ run' \in RunType /\ run'.pc = q /\ run'.cur = i /\ run'.todo = run.todo
         /\ run'.v = run.v /\ run'.b = run.b /\ run'.path = run.path /\ run'.next = run.next
  BY DEF RunType

LEMMA ConflictKeeps ==
  ASSUME VaultInv, NEW i \in Ids, Conflict(i), UNCHANGED <<edits, crashes, quiet>>
  PROVE  VaultInv'
<1>1. /\ Pending(i) /\ run.v[i] # None /\ run.b[i] # None
      /\ sidecar' = [sidecar EXCEPT ![run.v[i].rel] = run.v[i].file.body]
      /\ run' = [run EXCEPT !.pc = "overwrite", !.cur = i]
      /\ UNCHANGED <<brain, newer, vault, manifest, imports, inBrain, inVault>>
  BY DEF Conflict, Both
<1>2. /\ run' \in RunType /\ run'.pc = "overwrite" /\ run'.cur = i /\ run'.todo = run.todo
      /\ run'.v = run.v /\ run'.b = run.b /\ run'.path = run.path /\ run'.next = run.next
  BY <1>1, MoveFields DEF VaultInv, VaultTyped
<1>3. /\ i \in run.todo /\ Alone(i) /\ run.v[i].rel \in Titles /\ run.v[i].file \in File
      /\ run.b[i] = brain[i]
      /\ \A t \in Files : run.v[i].rel = t /\ IdOf(t) = i => vault[t] = run.v[i].file
  BY <1>1, PendingFacts, TurnFacts
<1>4. /\ sidecar' \in [Titles -> Body \cup {None}]
      /\ sidecar'[run.v[i].rel] = run.v[i].file.body
  BY <1>1, <1>3, FileFields DEF VaultInv, VaultTyped, VaultTypeOK
<1>5. VaultTyped'
  <2>1. /\ \A j \in Ids : run'.next[j] # None => run'.next[j].brainHash.id = j
        /\ \A j \in Ids : run'.b[j] # None => run'.path[j] # None
    BY <1>2 DEF VaultInv, VaultTyped
  <2>2. newer' \subseteq ListedNotes' \X ListedNotes' /\ Named'
    BY <1>1 DEF VaultInv, VaultTyped, VaultTypeOK, ListedNotes, HasNote, Named, Files
  <2> QED BY <1>1, <1>2, <1>4, <2>1, <2>2, TypedAgain DEF VaultInv, VaultTyped, VaultTypeOK
<1>6. Touches(i)
  BY <1>1, <1>2 DEF Touches
<1>7. Current(i)'
  BY <1>1, <1>2, <1>3 DEF Current, Files, IdOf
<1>8. Halfway(i)'
  BY <1>1, <1>2, <1>4 DEF Halfway
<1>9. /\ \A j \in Ids : brain'[j] # None => brain'[j].body \in inBrain'
      /\ \A t \in Files' : vault'[t].body \in inVault'
      /\ run'.next[i] # None => HadBoth(run.next[i])'
  BY <1>1, <1>2 DEF VaultInv, History, HadBoth, Files
<1> QED BY <1>1, <1>2, <1>3, <1>5, <1>6, <1>7, <1>8, <1>9, StepOn

\* What a run knows of the note it is half way with.
LEMMA CurrentFacts ==
  ASSUME VaultInv, run.pc \in {"overwrite", "tag", "writeback"}
  PROVE  \E i \in Ids :
           /\ run.cur = i /\ i \in run.todo /\ Alone(i) /\ Halfway(i) /\ Current(i)
           /\ run.v[i] # None /\ run.v[i].rel \in Titles /\ run.v[i].file \in File
           /\ run.v[i].file.body \in inVault
           /\ run.b[i] # None => run.b[i] \in Note /\ brain[i] = run.b[i]
<1>1. run.cur \in run.todo /\ run.todo \subseteq Ids
  BY RunFields DEF VaultInv, InRun, VaultTyped
<1>2. PICK i \in Ids : i = run.cur
  BY <1>1
<1>3. Halfway(i) /\ Current(i) /\ run.v[i] # None
  BY <1>1, <1>2 DEF VaultInv, InRun, Halfway
<1>4. /\ run.v[i].rel \in Titles /\ run.v[i].file \in File /\ (run.b[i] # None => run.b[i] \in Note)
      /\ run.v[i].file.body \in inVault
  BY <1>3, RunFields DEF VaultInv, VaultTyped, History
<1>5. Alone(i)
  BY <1>2 DEF Alone, AtStep
<1> QED BY <1>1, <1>2, <1>3, <1>4, <1>5 DEF Current

LEMMA OverwriteKeeps ==
  ASSUME VaultInv, Overwrite, UNCHANGED <<edits, crashes, quiet>>
  PROVE  VaultInv'
<1>0. run.pc = "overwrite"
  BY DEF Overwrite
<1>1. PICK i \in Ids :
           /\ run.cur = i /\ i \in run.todo /\ Alone(i) /\ Halfway(i) /\ Current(i)
           /\ run.v[i] # None /\ run.v[i].rel \in Titles /\ run.v[i].file \in File
           /\ run.b[i] # None => run.b[i] \in Note /\ brain[i] = run.b[i]
  BY <1>0, CurrentFacts
<1> DEFINE t == run.v[i].rel
           f == Serialized(i, run.b[i])
           e == [rel |-> t, vaultHash |-> f, brainHash |-> f]
<1>2. run.b[i] # None /\ run.b[i] \in Note /\ brain[i] = run.b[i]
  BY <1>0, <1>1 DEF Halfway
<1>3. f \in File /\ f.id = i /\ f.body = brain[i].body /\ f # None
  BY <1>2, SerializedFile, NoneIsNothing
<1>4. /\ vault' = [vault EXCEPT ![t] = f] /\ vault \in [Titles -> File \cup {None}]
      /\ UNCHANGED <<brain, newer, sidecar, manifest, imports>> /\ Remember
  BY <1>1 DEF Overwrite, VaultInv, VaultTyped, VaultTypeOK
<1>5. vault'[t] = f /\ vault' \in [Titles -> File \cup {None}] /\ \A u \in Titles \ {t} : vault'[u] = vault[u]
  BY <1>1, <1>3, <1>4
<1>6. run' = [run EXCEPT !.pc = "tag", !.next[i] = e]
  BY <1>1, <1>5 DEF Overwrite
<1>7. e \in Entry /\ e.vaultHash = f /\ e.brainHash = f
  BY <1>1, <1>3 DEF Entry
<1> HIDE DEF e, f
<1>8. /\ run' \in RunType /\ run'.pc = "tag" /\ run'.cur = i /\ run'.todo = run.todo
      /\ run'.v = run.v /\ run'.b = run.b /\ run'.path = run.path
      /\ run'.next[i] = e /\ \A j \in Ids \ {i} : run'.next[j] = run.next[j]
  <2>1. run \in RunType /\ run.next \in [Ids -> Entry \cup {None}]
    BY RunFields DEF VaultInv, VaultTyped
  <2>2. /\ [run.next EXCEPT ![i] = e] \in [Ids -> Entry \cup {None}]
        /\ [run.next EXCEPT ![i] = e][i] = e
        /\ \A j \in Ids \ {i} : [run.next EXCEPT ![i] = e][j] = run.next[j]
    BY <1>7, <2>1
  <2>3. run' = [run EXCEPT !.pc = "tag", !.next = [run.next EXCEPT ![i] = e]]
    BY <1>6, <2>1 DEF RunType
  <2>4. /\ run'.pc = "tag" /\ run'.cur = run.cur /\ run'.todo = run.todo /\ run'.v = run.v
        /\ run'.b = run.b /\ run'.path = run.path /\ run'.next = [run.next EXCEPT ![i] = e]
    BY <2>1, <2>3 DEF RunType
  <2>5. run' \in RunType
    BY <2>1, <2>2, <2>3 DEF RunType
  <2> QED BY <1>1, <2>2, <2>4, <2>5
<1>9. brain' \in [Ids -> Note \cup {None}] /\ brain' = brain
  BY <1>4 DEF VaultInv, VaultTyped, VaultTypeOK
<1>10. /\ inBrain' \subseteq Body /\ inVault' \subseteq Body
       /\ inBrain \subseteq inBrain' /\ inVault \subseteq inVault'
       /\ \A j \in Ids : brain'[j] # None => brain'[j].body \in inBrain'
       /\ \A u \in Files' : vault'[u].body \in inVault'
  BY <1>4, <1>5, <1>9, Remembered DEF VaultInv
<1>11. VaultTyped'
  <2>1. \A j \in Ids : run'.next[j] # None => run'.next[j].brainHash.id = j
    BY <1>3, <1>7, <1>8 DEF VaultInv, VaultTyped
  <2>2. \A j \in Ids : run'.b[j] # None => run'.path[j] # None
    BY <1>8 DEF VaultInv, VaultTyped
  <2>3. newer' \subseteq ListedNotes' \X ListedNotes'
    BY <1>4 DEF VaultInv, VaultTyped, VaultTypeOK, ListedNotes, HasNote
  <2>4. Named'
    BY <1>1, <1>3, <1>5, NoneIsNothing DEF Named, Files, VaultInv, VaultTyped
  <2> QED BY <1>4, <1>5, <1>8, <1>9, <1>10, <2>1, <2>2, <2>3, <2>4, TypedAgain
        DEF VaultInv, VaultTyped, VaultTypeOK
<1>12. Touches(i)
  BY <1>3, <1>4, <1>5, <1>8, <1>9 DEF Touches
<1>13. HadBoth(run.next[i])'
  <2>1. t \in Files' /\ brain'[i] # None
    BY <1>1, <1>2, <1>3, <1>5, <1>9, NoneIsNothing DEF Files
  <2> QED BY <1>3, <1>5, <1>7, <1>8, <1>9, <1>10, <2>1 DEF HadBoth
<1>14. Current(i)'
  BY <1>2, <1>8, <1>9 DEF Current, AtStep
<1>15. Halfway(i)'
  BY <1>1, <1>2, <1>8 DEF Halfway
<1> QED BY <1>1, <1>8, <1>10, <1>11, <1>12, <1>13, <1>14, <1>15, StepOn

LEMMA TagConflictKeeps ==
  ASSUME VaultInv, TagConflict, UNCHANGED <<edits, crashes, quiet>>
  PROVE  /\ VaultInv' /\ vault' = vault
         /\ \A j \in Ids : /\ brain[j] # None => brain'[j] # None /\ brain'[j].body = brain[j].body
                           /\ HasNote(j) => HasNote(j)'
<1>0. run.pc = "tag"
  BY DEF TagConflict
<1>1. PICK i \in Ids :
           /\ run.cur = i /\ Alone(i) /\ Halfway(i)
           /\ run.b[i] # None => run.b[i] \in Note /\ brain[i] = run.b[i]
  BY <1>0, CurrentFacts
<1> DEFINE n == [brain[i] EXCEPT !.tags = run.b[i].tags \cup {"sync-conflict"}]
           e == run.next[i]
<1>2. brain[i] \in Note /\ brain[i] = run.b[i]
  BY <1>0, <1>1 DEF Halfway
<1>3. n \in Note /\ n.body = brain[i].body /\ n.deleted = brain[i].deleted /\ n # None
  <2>1. n \in Note /\ n.body = brain[i].body /\ n.deleted = brain[i].deleted
    BY <1>2 DEF Note, Tags
  <2> QED BY <2>1, NoneIsNothing
<1>4. /\ brain' = [brain EXCEPT ![i] = n] /\ brain \in [Ids -> Note \cup {None}]
      /\ DoneWith(i, e) /\ UNCHANGED <<newer, vault, sidecar, manifest, imports>> /\ Remember
  BY <1>1 DEF TagConflict, VaultInv, VaultTyped, VaultTypeOK, disk
<1>5. e \in Entry \cup {None} /\ (e # None => e.brainHash.id = i /\ HadBoth(e))
  BY RunFields DEF VaultInv, VaultTyped, History
<1> HIDE DEF n, e
<1>6. brain'[i] = n /\ brain' \in [Ids -> Note \cup {None}] /\ \A j \in Ids \ {i} : brain'[j] = brain[j]
  BY <1>3, <1>4
<1>7. \A j \in Ids : /\ brain[j] # None => brain'[j] # None /\ brain'[j].body = brain[j].body
                     /\ HasNote(j) => HasNote(j)'
  BY <1>3, <1>6 DEF HasNote
<1>8. newer' \subseteq ListedNotes' \X ListedNotes'
  BY <1>4, <1>7, NewerStays DEF VaultInv, VaultTyped, VaultTypeOK, ListedNotes
<1>9. vault' = vault /\ vault' \in [Titles -> File \cup {None}]
  BY <1>4, StateFields DEF VaultInv
<1>10. e # None => {e.vaultHash.body, e.brainHash.body} \subseteq inBrain' \cap inVault'
  <2>1. inBrain \subseteq inBrain' /\ inVault \subseteq inVault'
    BY <1>4, <1>6, <1>9, Remembered DEF VaultInv
  <2> QED BY <1>5, <2>1 DEF HadBoth
<1>11. run.pc # "idle" /\ UNCHANGED <<sidecar, manifest, imports, edits, crashes, quiet>>
  BY <1>0, <1>4
<1>12. VaultInv'
  BY <1>1, <1>4, <1>5, <1>6, <1>8, <1>9, <1>10, <1>11, DoneKeeps
<1> QED BY <1>7, <1>9, <1>12

LEMMA ImportFileKeeps ==
  ASSUME VaultInv, NEW i \in Ids, ImportFile(i), UNCHANGED <<edits, crashes, quiet>>
  PROVE  VaultInv'
<1>1. Pending(i) /\ run.v[i] # None /\ run.b[i] = None /\ UNCHANGED disk /\ Remember
  BY DEF ImportFile
<1>2. CASE run.v[i].file.id # None
  BY <1>1, <1>2, ImportKeeps DEF ImportFile
<1>3. CASE run.v[i].file.id = None
  <2>1. Apply(i) /\ run' = [run EXCEPT !.pc = "writeback", !.cur = i]
    BY <1>3 DEF ImportFile
  <2>2. /\ HasTurn(i) /\ run.pc \in {"sync", "export"} /\ i \in run.todo /\ Alone(i)
        /\ \A t \in Files : run.v[i].rel = t /\ IdOf(t) = i => vault[t] = run.v[i].file
    BY <1>1, PendingFacts, TurnFacts
  <2>3. /\ brain' \in [Ids -> Note \cup {None}] /\ brain'[i] \in Note /\ brain'[i] # None
        /\ brain'[i].body = run.v[i].file.body
        /\ \A j \in Ids \ {i} : brain'[j] = brain[j]
        /\ newer' \subseteq ListedNotes' \X ListedNotes'
    BY <1>1, <2>1, <2>2, ApplyFields, NoneIsNothing
  <2>4. /\ vault' = vault /\ vault' \in [Titles -> File \cup {None}] /\ UNCHANGED <<sidecar, manifest, imports>>
    BY <1>1, StateFields DEF VaultInv, disk
  <2>5. /\ run' \in RunType /\ run'.pc = "writeback" /\ run'.cur = i /\ run'.todo = run.todo
        /\ run'.v = run.v /\ run'.b = run.b /\ run'.path = run.path /\ run'.next = run.next
    BY <2>1, MoveFields DEF VaultInv, VaultTyped
  <2>6. /\ inBrain' \subseteq Body /\ inVault' \subseteq Body
        /\ inBrain \subseteq inBrain' /\ inVault \subseteq inVault'
        /\ \A j \in Ids : brain'[j] # None => brain'[j].body \in inBrain'
        /\ \A t \in Files' : vault'[t].body \in inVault'
    BY <1>1, <2>3, <2>4, Remembered DEF VaultInv
  <2>7. VaultTyped'
    <3>1. /\ \A j \in Ids : run'.next[j] # None => run'.next[j].brainHash.id = j
          /\ \A j \in Ids : run'.b[j] # None => run'.path[j] # None
      BY <2>5 DEF VaultInv, VaultTyped
    <3>2. Named'
      BY <2>4 DEF VaultInv, VaultTyped, Named, Files
    <3> QED BY <2>3, <2>4, <2>5, <2>6, <3>1, <3>2, TypedAgain DEF VaultInv, VaultTyped, VaultTypeOK
  <2>8. Touches(i)
    BY <2>3, <2>4, <2>5 DEF Touches
  <2>9. run'.next[i] # None => HadBoth(run.next[i])'
    BY <2>5, <2>6 DEF VaultInv, History, HadBoth
  <2>10. Current(i)'
    BY <1>1, <2>2, <2>4, <2>5 DEF Current, AtStep, Files, IdOf
  <2>11. Halfway(i)'
    BY <1>1, <2>3, <2>5 DEF Halfway
  <2> QED BY <2>2, <2>5, <2>6, <2>7, <2>8, <2>9, <2>10, <2>11, StepOn
<1> QED BY <1>2, <1>3

LEMMA WriteBackKeeps ==
  ASSUME VaultInv, WriteBack, UNCHANGED <<edits, crashes, quiet>>
  PROVE  VaultInv'
<1>0. run.pc = "writeback"
  BY DEF WriteBack
<1>1. PICK i \in Ids :
           /\ run.cur = i /\ Alone(i) /\ Halfway(i)
           /\ run.v[i] # None /\ run.v[i].rel \in Titles /\ run.v[i].file \in File
  BY <1>0, CurrentFacts
<1> DEFINE t == run.v[i].rel
           f == [run.v[i].file EXCEPT !.id = i]
           e == [rel |-> t, vaultHash |-> f, brainHash |-> Serialized(i, brain[i])]
<1>2. brain[i] # None /\ brain[i] \in Note /\ brain[i].body = run.v[i].file.body
  BY <1>0, <1>1, StateFields DEF Halfway, VaultInv
<1>3. f \in File /\ f.id = i /\ f.body = brain[i].body /\ f # None
  <2>1. f \in File /\ f.id = i /\ f.body = run.v[i].file.body
    BY <1>1 DEF File
  <2> QED BY <1>2, <2>1, NoneIsNothing
<1>4. /\ vault' = [vault EXCEPT ![t] = f] /\ vault \in [Titles -> File \cup {None}]
      /\ UNCHANGED <<brain, newer, sidecar, manifest, imports>> /\ Remember
  BY <1>1 DEF WriteBack, VaultInv, VaultTyped, VaultTypeOK
<1>5. vault'[t] = f /\ vault' \in [Titles -> File \cup {None}] /\ \A u \in Titles \ {t} : vault'[u] = vault[u]
  BY <1>1, <1>3, <1>4
<1>6. DoneWith(i, e)
  BY <1>1, <1>4, <1>5 DEF WriteBack, Remanifest
<1>7. e \in Entry /\ e.vaultHash.body = f.body /\ e.brainHash.body = f.body /\ e.brainHash.id = i
  BY <1>1, <1>2, <1>3, SerializedFile DEF Entry
<1> HIDE DEF e, f
<1>8. brain' \in [Ids -> Note \cup {None}] /\ brain' = brain
  BY <1>4 DEF VaultInv, VaultTyped, VaultTypeOK
<1>9. newer' \subseteq ListedNotes' \X ListedNotes'
  BY <1>4 DEF VaultInv, VaultTyped, VaultTypeOK, ListedNotes, HasNote
<1>10. f.body \in inBrain' /\ f.body \in inVault'
  <2>1. t \in Files' /\ brain'[i] # None
    BY <1>1, <1>2, <1>3, <1>5, <1>8 DEF Files
  <2> QED BY <1>2, <1>3, <1>4, <1>5, <1>8, <2>1, Remembered DEF VaultInv
<1>11. \A u \in Titles : vault'[u] = vault[u] \/ vault'[u] = None \/ vault'[u].id = i
  BY <1>3, <1>5
<1> QED BY <1>0, <1>1, <1>4, <1>5, <1>6, <1>7, <1>8, <1>9, <1>10, <1>11, DoneKeeps

\* A turn of a sync, and one of an export.
LEMMA ReconcileKeeps ==
  ASSUME VaultInv, Reconcile
  PROVE  VaultInv'
<1>1. UNCHANGED <<edits, crashes, quiet>>
  BY DEF Reconcile
<1>2. ASSUME NEW i \in Ids, Unchanged(i) PROVE VaultInv'
  BY <1>1, <1>2, PendingFacts, NothingDoneKeeps DEF Unchanged
<1>3. ASSUME NEW i \in Ids, ImportEdit(i) PROVE VaultInv'
  BY <1>1, <1>3, ImportKeeps DEF ImportEdit, Both
<1>4. ASSUME NEW i \in Ids, ExportEdit(i) PROVE VaultInv'
  <2>1. /\ Pending(i) /\ run.b[i] # None
        /\ vault' = Written(i, run.path[i], PreviousPath(i) \cup {run.v[i].rel})
        /\ DoneWith(i, [rel |-> run.path[i], vaultHash |-> vault'[run.path[i]],
                        brainHash |-> vault'[run.path[i]]])
        /\ UNCHANGED <<brain, newer, sidecar, manifest, imports>> /\ Remember
    BY <1>4 DEF ExportEdit, Both
  <2> QED BY <1>1, <2>1, PendingFacts, WriteKeeps
<1>5. ASSUME NEW i \in Ids, ExportNote(i) PROVE VaultInv'
  BY <1>1, <1>5, PendingFacts, WriteKeeps DEF ExportNote, WriteNote
<1>6. ASSUME NEW i \in Ids, Conflict(i) \/ ImportFile(i) PROVE VaultInv'
  BY <1>1, <1>6, ConflictKeeps, ImportFileKeeps
<1>7. CASE Overwrite \/ TagConflict \/ WriteBack
  BY <1>1, <1>7, OverwriteKeeps, TagConflictKeeps, WriteBackKeeps
<1> QED BY <1>2, <1>3, <1>4, <1>5, <1>6, <1>7 DEF Reconcile

LEMMA ExportKeeps ==
  ASSUME VaultInv, NEW i \in Ids, Export(i)
  PROVE  VaultInv'
<1>1. run.pc \in {"sync", "export"} /\ HasTurn(i) /\ UNCHANGED <<edits, crashes, quiet>>
  BY DEF Export
<1>2. run.b[i] # None
  BY <1>1, TurnFacts DEF Export, VaultInv, InRun
<1>3. CASE AsRecorded(i)
  BY <1>1, <1>3, NothingDoneKeeps DEF Export
<1>4. CASE ~AsRecorded(i)
  <2>1. WriteNote(i)
    BY <1>4 DEF Export
  <2> QED BY <1>1, <1>2, <2>1, WriteKeeps DEF WriteNote
<1> QED BY <1>3, <1>4

----------------------------------------------------------------------------
(* A run begins and ends.                                                  *)

LEMMA NewPath ==
  ASSUME VaultInv, NEW b \in [Ids -> Note \cup {None}], NEW c \in PathChoices(b)
  PROVE  /\ AssignPaths(b, c) \in [Ids -> Titles \cup {None}]
         /\ \A i \in Ids : b[i] # None => AssignPaths(b, c)[i] # None
<1> DEFINE listed == {i \in Ids : b[i] # None}
<1>1. c \in [listed -> 1 .. 3]
  BY DEF PathChoices
<1>2. ASSUME NEW i \in Ids, b[i] # None PROVE Tries(i, b[i])[c[i]] \in Titles
  <2>1. b[i].title \in Titles /\ c[i] \in 1 .. 3
    BY <1>1, <1>2, NoteFields
  <2>2. WithFragment[i][b[i].title] \in Titles /\ WithId[i][b[i].title] \in Titles
    BY <2>1, VaultAssumption
  <2>3. Tries(i, b[i])[1] \in Titles /\ Tries(i, b[i])[2] \in Titles /\ Tries(i, b[i])[3] \in Titles
    BY <2>1, <2>2 DEF Tries, NotePath
  <2> QED BY <2>1, <2>3
<1>3. \A t \in Titles : t # None
  BY VaultAssumption
<1> QED BY <1>2, <1>3 DEF AssignPaths

LEMMA BeginKeeps ==
  ASSUME VaultInv, NEW pc \in {"sync", "export"}, NEW v \in [Ids -> Gathered \cup {None}],
         Begin(pc, v), quiet' \in 0 .. MaxQuiet,
         pc = "export" => \A i \in Ids : v[i] = None,
         \A i \in Ids : v[i] # None => \E t \in Files : v[i].rel = t /\ v[i].file = vault[t]
  PROVE  VaultInv'
<1> DEFINE b == [i \in Ids |-> IF Exportable(i) THEN brain[i] ELSE None]
           todo == {i \in Ids : v[i] # None \/ b[i] # None}
<1>1. b \in [Ids -> Note \cup {None}]
  BY StateFields DEF VaultInv
<1>2. PICK c \in PathChoices(b) :
        run' = [NoRun EXCEPT !.pc = pc, !.v = v, !.b = b, !.path = AssignPaths(b, c), !.todo = todo]
  BY DEF Begin
<1>3. PICK path \in [Ids -> Titles \cup {None}] : path = AssignPaths(b, c) /\ \A i \in Ids : b[i] # None => path[i] # None
  BY <1>1, NewPath
<1>4. /\ UNCHANGED <<brain, newer, vault, sidecar, manifest, imports, edits, crashes, inBrain, inVault>>
      /\ todo \subseteq Ids /\ \A i \in Ids : b[i] = IF Exportable(i) THEN brain[i] ELSE None
  BY DEF Begin, disk
<1>5. \A i \in todo : v[i] # None \/ b[i] # None
  OBVIOUS
<1>6. run' = [NoRun EXCEPT !.pc = pc, !.v = v, !.b = b, !.path = path, !.todo = todo]
  BY <1>2, <1>3
<1> HIDE DEF b, todo
<1>7. /\ run'.pc = pc /\ run'.v = v /\ run'.b = b /\ run'.path = path /\ run'.todo = todo
      /\ run'.cur = None /\ run'.next = NoRun.next
  BY <1>6 DEF NoRun
<1>8. run' \in RunType
  BY <1>1, <1>3, <1>4, <1>6 DEF NoRun, RunType
<1>9. \A i \in Ids : run'.next[i] = None
  BY <1>7, NoRunTyped
<1>10. VaultTyped'
  <2>1. newer' \subseteq ListedNotes' \X ListedNotes' /\ Named'
    BY <1>4 DEF VaultInv, VaultTyped, VaultTypeOK, ListedNotes, HasNote, Named, Files
  <2> QED BY <1>3, <1>4, <1>7, <1>8, <1>9, <2>1, TypedAgain DEF VaultInv, VaultTyped, VaultTypeOK
<1>11. ASSUME NEW i \in Ids PROVE Current(i)'
  <2>1. Exportable(i)' <=> Exportable(i)
    BY <1>4 DEF Exportable, HasNote
  <2>2. run'.b[i] # None => brain'[i] = run'.b[i]
    BY <1>4, <1>7
  <2>3. run'.b[i] = None => ~Exportable(i)'
    BY <1>4, <1>7, <2>1 DEF Exportable, HasNote
  <2>4. ASSUME run'.v[i] # None, NEW t \in Files', run'.v[i].rel = t PROVE vault'[t] = run'.v[i].file
    BY <1>4, <1>7, <2>4
  <2> QED BY <2>2, <2>3, <2>4 DEF Current
<1>12. InRun'
  BY <1>4, <1>5, <1>7, <1>11 DEF InRun
<1>13. History'
  <2>1. \A i \in Ids : run'.v[i] # None => run'.v[i].file.body \in inVault'
    BY <1>4, <1>7 DEF VaultInv, History
  <2> QED BY <1>4, <1>9, <2>1 DEF VaultInv, History, HadBoth, Files
<1> QED BY <1>10, <1>12, <1>13 DEF VaultInv

LEMMA GatherKeeps ==
  ASSUME VaultInv, Gather
  PROVE  VaultInv'
<1> DEFINE v == [i \in Ids |->
             IF \E t \in Files : IdOf(t) = i
             THEN LET t == CHOOSE u \in Files : IdOf(u) = i IN [rel |-> t, file |-> vault[t]]
             ELSE None]
<1>1. Begin("sync", v) /\ quiet' = quiet
  BY DEF Gather
<1>2. ASSUME NEW i \in Ids
      PROVE  v[i] = None \/ \E t \in Files : v[i] = [rel |-> t, file |-> vault[t]]
  OBVIOUS
<1>3. \A t \in Files : [rel |-> t, file |-> vault[t]] \in Gathered
  BY StateFields DEF VaultInv, Gathered
<1>4. \A i \in Ids : v[i] \in Gathered \cup {None}
  BY <1>2, <1>3
<1>5. v \in [Ids -> Gathered \cup {None}]
  BY <1>4
<1>6. quiet' \in 0 .. MaxQuiet
  BY <1>1 DEF VaultInv, VaultTyped, VaultTypeOK
<1> HIDE DEF v
<1>7. \A i \in Ids : v[i] # None => \E t \in Files : v[i].rel = t /\ v[i].file = vault[t]
  <2> SUFFICES ASSUME NEW i \in Ids, v[i] # None
               PROVE  \E t \in Files : v[i].rel = t /\ v[i].file = vault[t]
    OBVIOUS
  <2>1. PICK t \in Files : v[i] = [rel |-> t, file |-> vault[t]]
    BY <1>2
  <2> QED BY <2>1
<1> QED BY <1>1, <1>5, <1>6, <1>7, BeginKeeps

LEMMA BeginExportKeeps ==
  ASSUME VaultInv, BeginExport
  PROVE  VaultInv'
<1> DEFINE v == [i \in Ids |-> None]
<1>1. Begin("export", v) /\ quiet' \in 0 .. MaxQuiet
  BY VaultAssumption DEF BeginExport
<1>2. v \in [Ids -> Gathered \cup {None}] /\ \A i \in Ids : v[i] = None
  OBVIOUS
<1> HIDE DEF v
<1> QED BY <1>1, <1>2, BeginKeeps

\* A step to a state without a run.
LEMMA IdleKeeps ==
  ASSUME VaultInv, run' = NoRun,
         brain' \in [Ids -> Note \cup {None}], vault' \in [Titles -> File \cup {None}],
         newer' \subseteq ListedNotes' \X ListedNotes', Named',
         sidecar' = sidecar, imports' \in [Titles -> Ids \cup {None}],
         manifest' \in [Ids -> Entry \cup {None}],
         \A j \in Ids : manifest'[j] # None => manifest'[j].brainHash.id = j /\ HadBoth(manifest'[j]),
         edits' \in 0 .. MaxEdits, crashes' \in 0 .. MaxCrashes, quiet' \in 0 .. MaxQuiet,
         Remember \/ UNCHANGED <<brain, vault, inBrain, inVault>>
  PROVE  VaultInv'
<1>1. /\ run' \in RunType /\ run'.pc = "idle" /\ run'.todo = {}
      /\ \A i \in Ids : run'.next[i] = None /\ run'.b[i] = None /\ run'.v[i] = None
  BY NoRunTyped
<1>2. /\ inBrain' \subseteq Body /\ inVault' \subseteq Body
      /\ inBrain \subseteq inBrain' /\ inVault \subseteq inVault'
      /\ \A j \in Ids : brain'[j] # None => brain'[j].body \in inBrain'
      /\ \A t \in Files' : vault'[t].body \in inVault'
  <2>1. CASE Remember
    BY <2>1, Remembered DEF VaultInv
  <2>2. CASE UNCHANGED <<brain, vault, inBrain, inVault>>
    BY <2>2 DEF VaultInv, VaultTyped, VaultTypeOK, History, Files
  <2> QED BY <2>1, <2>2
<1>3. VaultTyped'
  <2>1. sidecar' \in [Titles -> Body \cup {None}]
    BY DEF VaultInv, VaultTyped, VaultTypeOK
  <2> QED BY <1>1, <1>2, <2>1, TypedAgain
<1>4. InRun'
  BY <1>1 DEF InRun
<1>5. History'
  BY <1>1, <1>2 DEF History, HadBoth
<1> QED BY <1>3, <1>4, <1>5 DEF VaultInv

LEMMA SaveManifestKeeps ==
  ASSUME VaultInv, SaveManifest
  PROVE  VaultInv'
<1>1. /\ manifest' = run.next /\ run' = NoRun /\ quiet' \in 0 .. MaxQuiet
      /\ UNCHANGED <<brain, newer, vault, sidecar, imports, edits, crashes, inBrain, inVault>>
  BY VaultAssumption DEF SaveManifest, VaultInv, VaultTyped, VaultTypeOK
<1>2. /\ run.next \in [Ids -> Entry \cup {None}]
      /\ \A i \in Ids : run.next[i] # None => run.next[i].brainHash.id = i /\ HadBoth(run.next[i])
  BY RunFields DEF VaultInv, VaultTyped, History
<1>3. newer' \subseteq ListedNotes' \X ListedNotes' /\ Named'
  BY <1>1 DEF VaultInv, VaultTyped, VaultTypeOK, ListedNotes, HasNote, Named, Files
<1> QED BY <1>1, <1>2, <1>3, IdleKeeps DEF VaultInv, VaultTyped, VaultTypeOK

LEMMA CrashKeeps ==
  ASSUME VaultInv, Crash
  PROVE  VaultInv'
<1>1. /\ run' = NoRun /\ quiet' = 0 /\ crashes' = crashes + 1 /\ crashes < MaxCrashes
      /\ UNCHANGED <<brain, newer, vault, sidecar, manifest, imports, edits, inBrain, inVault>>
  BY DEF Crash, disk
<1>2. crashes' \in 0 .. MaxCrashes /\ quiet' \in 0 .. MaxQuiet
  BY <1>1, VaultAssumption DEF VaultInv, VaultTyped, VaultTypeOK
<1>3. newer' \subseteq ListedNotes' \X ListedNotes' /\ Named'
  BY <1>1 DEF VaultInv, VaultTyped, VaultTypeOK, ListedNotes, HasNote, Named, Files
<1>4. \A j \in Ids : manifest'[j] # None => manifest'[j].brainHash.id = j /\ HadBoth(manifest'[j])
  BY <1>1 DEF VaultInv, VaultTyped, VaultTypeOK, History
<1> QED BY <1>1, <1>2, <1>3, <1>4, IdleKeeps DEF VaultInv, VaultTyped, VaultTypeOK

----------------------------------------------------------------------------
(* Users, and the one-way import.                                          *)

LEMMA UserKeeps ==
  ASSUME VaultInv, Edit,
         brain' \in [Ids -> Note \cup {None}], vault' \in [Titles -> File \cup {None}],
         newer' \subseteq ListedNotes' \X ListedNotes', Named'
  PROVE  VaultInv'
<1>1. edits \in 0 .. MaxEdits /\ MaxEdits \in Nat /\ MaxQuiet \in Nat
  BY VaultAssumption DEF VaultInv, VaultTyped, VaultTypeOK
<1>2. /\ run' = NoRun /\ Remember /\ quiet' = 0 /\ edits' = edits + 1
      /\ edits < MaxEdits /\ UNCHANGED <<sidecar, manifest, imports, crashes>>
  BY DEF Edit, VaultInv, InRun
<1>3. edits' \in 0 .. MaxEdits /\ quiet' \in 0 .. MaxQuiet
  BY <1>1, <1>2
<1>4. \A j \in Ids : manifest'[j] # None => manifest'[j].brainHash.id = j /\ HadBoth(manifest'[j])
  BY <1>2 DEF VaultInv, VaultTyped, VaultTypeOK, History
<1> QED BY <1>2, <1>3, <1>4, IdleKeeps DEF VaultInv, VaultTyped, VaultTypeOK

LEMMA NewBodyTyped ==
  ASSUME VaultInv, Edit
  PROVE  NewBody \in Body
<1>1. edits \in 0 .. MaxEdits /\ MaxEdits \in Nat /\ edits < MaxEdits
  BY VaultAssumption DEF VaultInv, VaultTyped, VaultTypeOK, Edit
<1> QED BY <1>1 DEF NewBody, Body

\* A note is written, and keeps its place in the list.
LEMMA NoteWritten ==
  ASSUME VaultInv, Edit, vault' = vault, newer' = newer, NEW i \in Ids, NEW n \in Note,
         brain' = [brain EXCEPT ![i] = n], HasNote(i), ~n.deleted
  PROVE  VaultInv'
<1>1. /\ brain' \in [Ids -> Note \cup {None}] /\ brain'[i] = n /\ n # None
      /\ \A j \in Ids \ {i} : brain'[j] = brain[j]
  BY StateFields, NoneIsNothing DEF VaultInv
<1>2. \A j \in Ids : HasNote(j) => HasNote(j)'
  BY <1>1 DEF HasNote
<1>3. newer' \subseteq ListedNotes' \X ListedNotes'
  BY <1>2, NewerStays DEF VaultInv, VaultTyped, VaultTypeOK, ListedNotes
<1>4. vault' \in [Titles -> File \cup {None}] /\ Named'
  BY StateFields DEF VaultInv, VaultTyped, Named, Files
<1> QED BY <1>1, <1>3, <1>4, UserKeeps

LEMMA BrainKeeps ==
  ASSUME VaultInv, UserInBrain, Edit
  PROVE  VaultInv'
<1>0. /\ brain \in [Ids -> Note \cup {None}] /\ NewBody \in Body
      /\ newer \subseteq ListedNotes \X ListedNotes /\ vault \in [Titles -> File \cup {None}] /\ Named
  BY NewBodyTyped DEF VaultInv, VaultTyped, VaultTypeOK, ListedNotes
<1> HIDE DEF NewBody
<1>1. ASSUME NEW i \in Ids, NEW t \in NoteNames, BrainCreate(i, t) PROVE VaultInv'
  <2> DEFINE n == [title |-> t, body |-> NewBody, tags |-> {}, deleted |-> FALSE]
  <2>1. n \in Note /\ ~n.deleted /\ n # None
    <3>1. n \in Note
      BY <1>0, VaultAssumption DEF Note, Tags
    <3> QED BY <3>1, NoneIsNothing
  <2>2. brain' = [brain EXCEPT ![i] = n] /\ newer' = ListedFirst(i) /\ vault' = vault /\ brain[i] = None
    BY <1>1 DEF BrainCreate
  <2> HIDE DEF n
  <2>3. /\ brain' \in [Ids -> Note \cup {None}] /\ brain'[i] = n
        /\ \A j \in Ids \ {i} : brain'[j] = brain[j]
    BY <1>0, <2>1, <2>2
  <2>4. HasNote(i)' /\ \A j \in Ids : HasNote(j) => HasNote(j)'
    BY <2>1, <2>2, <2>3 DEF HasNote
  <2>5. newer' \subseteq ListedNotes' \X ListedNotes'
    BY <1>0, <2>2, <2>4, ListedFirstTyped
  <2>6. vault' \in [Titles -> File \cup {None}] /\ Named'
    BY <1>0, <2>2 DEF Named, Files
  <2> QED BY <2>3, <2>5, <2>6, UserKeeps
<1>2. ASSUME NEW i \in Ids, NEW tags \in Tags, BrainWrite(i, tags) PROVE VaultInv'
  <2> DEFINE n == [brain[i] EXCEPT !.body = NewBody, !.tags = @ \cup tags]
  <2>1. brain[i] \in Note /\ HasNote(i) /\ ~brain[i].deleted
    BY <1>0, <1>2 DEF BrainWrite, HasNote
  <2>2. n \in Note /\ n.deleted = brain[i].deleted
    BY <1>0, <2>1 DEF Note, Tags
  <2>3. brain' = [brain EXCEPT ![i] = n] /\ vault' = vault /\ newer' = newer
    BY <1>2 DEF BrainWrite
  <2> HIDE DEF n
  <2> QED BY <2>1, <2>2, <2>3, NoteWritten
<1>3. ASSUME NEW i \in Ids, NEW t \in NoteNames, BrainRename(i, t) PROVE VaultInv'
  <2> DEFINE n == [brain[i] EXCEPT !.title = t]
  <2>1. brain[i] \in Note /\ HasNote(i) /\ ~brain[i].deleted /\ t \in Titles
    BY <1>0, <1>3, VaultAssumption DEF BrainRename, HasNote
  <2>2. n \in Note /\ n.deleted = brain[i].deleted
    BY <2>1 DEF Note
  <2>3. brain' = [brain EXCEPT ![i] = n] /\ vault' = vault /\ newer' = newer
    BY <1>3 DEF BrainRename
  <2> HIDE DEF n
  <2> QED BY <2>1, <2>2, <2>3, NoteWritten
<1>4. ASSUME NEW i \in Ids, BrainDelete(i) PROVE VaultInv'
  <2> DEFINE n == [brain[i] EXCEPT !.deleted = TRUE]
  <2>1. brain[i] \in Note
    BY <1>0, <1>4 DEF BrainDelete, HasNote
  <2>2. n \in Note
    BY <2>1 DEF Note
  <2>3. brain' = [brain EXCEPT ![i] = n] /\ vault' = vault /\ newer' = Unlisted(i)
    BY <1>4 DEF BrainDelete
  <2> HIDE DEF n
  <2>4. brain' \in [Ids -> Note \cup {None}] /\ \A j \in Ids \ {i} : brain'[j] = brain[j]
    BY <1>0, <2>2, <2>3
  <2>5. \A j \in Ids \ {i} : HasNote(j) => HasNote(j)'
    BY <2>4 DEF HasNote
  <2>6. newer' \subseteq ListedNotes' \X ListedNotes'
    <3> SUFFICES ASSUME NEW p \in newer, i \notin {p[1], p[2]} PROVE p \in ListedNotes' \X ListedNotes'
      BY <2>3 DEF Unlisted
    <3>1. p \in ListedNotes \X ListedNotes
      BY <1>0
    <3>2. p[1] \in ListedNotes /\ p[2] \in ListedNotes /\ p = <<p[1], p[2]>>
      BY <3>1
    <3>3. p[1] \in ListedNotes' /\ p[2] \in ListedNotes'
      BY <2>5, <3>2 DEF ListedNotes
    <3> QED BY <3>2, <3>3
  <2>7. vault' \in [Titles -> File \cup {None}] /\ Named'
    BY <1>0, <2>3 DEF Named, Files
  <2> QED BY <2>4, <2>6, <2>7, UserKeeps
<1>5. {} \in Tags /\ {"draft"} \in Tags
  BY DEF Tags
<1> QED BY <1>1, <1>2, <1>3, <1>4, <1>5 DEF UserInBrain

LEMMA VaultKeeps ==
  ASSUME VaultInv, UserInVault, Edit
  PROVE  VaultInv'
<1>0. /\ brain \in [Ids -> Note \cup {None}] /\ vault \in [Titles -> File \cup {None}] /\ NewBody \in Body
      /\ newer \subseteq ListedNotes \X ListedNotes /\ Named
  BY NewBodyTyped DEF VaultInv, VaultTyped, VaultTypeOK, ListedNotes
<1> HIDE DEF NewBody
<1>1. ASSUME brain' = brain, newer' = newer, vault' \in [Titles -> File \cup {None}], Named' PROVE VaultInv'
  <2>1. brain' \in [Ids -> Note \cup {None}] /\ newer' \subseteq ListedNotes' \X ListedNotes'
    BY <1>0, <1>1 DEF ListedNotes, HasNote
  <2> QED BY <1>1, <2>1, UserKeeps
<1>2. ASSUME NEW t \in FileNames, VaultCreate(t) PROVE VaultInv'
  <2> DEFINE f == [id |-> None, body |-> NewBody, tags |-> {}]
  <2>1. f \in File
    BY <1>0 DEF File, Tags
  <2>2. vault' = [vault EXCEPT ![t] = f] /\ brain' = brain /\ newer' = newer /\ t \in Titles
    BY <1>2, NoneIsNothing DEF VaultCreate
  <2> HIDE DEF f
  <2>3. vault' \in [Titles -> File \cup {None}] /\ Named'
    BY <1>0, <2>1, <2>2 DEF Named, Files
  <2> QED BY <1>1, <2>2, <2>3
<1>3. ASSUME NEW t \in Titles, VaultWrite(t) PROVE VaultInv'
  <2> DEFINE f == [vault[t] EXCEPT !.body = NewBody]
  <2>1. vault[t] \in File /\ t \in Files
    BY <1>0, <1>3 DEF VaultWrite, Files
  <2>2. f \in File /\ f.id = vault[t].id
    BY <1>0, <2>1 DEF File
  <2>3. vault' = [vault EXCEPT ![t] = f] /\ brain' = brain /\ newer' = newer
    BY <1>3 DEF VaultWrite
  <2> HIDE DEF f
  <2>4. vault' \in [Titles -> File \cup {None}] /\ Named'
    BY <1>0, <2>1, <2>2, <2>3 DEF Named, Files
  <2> QED BY <1>1, <2>3, <2>4
<1>4. ASSUME NEW t \in Titles, VaultDelete(t) PROVE VaultInv'
  <2>1. vault' = [vault EXCEPT ![t] = None] /\ brain' = brain /\ newer' = newer
    BY <1>4 DEF VaultDelete
  <2>2. vault' \in [Titles -> File \cup {None}] /\ Named'
    BY <1>0, <2>1 DEF Named, Files
  <2> QED BY <1>1, <2>1, <2>2
<1>5. ASSUME NEW t \in Titles, NEW u \in FileNames, VaultRename(t, u) PROVE VaultInv'
  <2>1. /\ vault' = [vault EXCEPT ![u] = vault[t], ![t] = None] /\ brain' = brain /\ newer' = newer
        /\ u \in Titles
    BY <1>5, NoneIsNothing DEF VaultRename
  <2>2. vault' \in [Titles -> File \cup {None}] /\ Named'
    BY <1>0, <2>1 DEF Named, Files
  <2> QED BY <1>1, <2>1, <2>2
<1> QED BY <1>2, <1>3, <1>4, <1>5 DEF UserInVault

LEMMA ImportVaultKeeps ==
  ASSUME VaultInv, ImportVault
  PROVE  VaultInv'
<1> DEFINE of(i) == {t \in Files : ImportId(t) = i}
           created == {i \in Ids : of(i) # {} /\ brain[i] = None}
<1>1. /\ run' = NoRun /\ Remember /\ quiet' = 0 /\ UNCHANGED <<manifest, sidecar, edits, crashes>>
  BY DEF ImportVault, VaultInv, InRun
<1>2. /\ brain' = [i \in Ids |->
           IF of(i) = {} THEN brain[i]
           ELSE LET t == CHOOSE u \in of(i) : TRUE IN Patched(i, t, vault[t])]
      /\ vault' = [t \in Titles |->
           IF t \in Files /\ vault[t].id = None /\ imports[t] = None
           THEN [vault[t] EXCEPT !.id = ImportId(t)] ELSE vault[t]]
      /\ imports' = [t \in Titles |-> IF t \in Files THEN ImportId(t) ELSE imports[t]]
  BY DEF ImportVault
<1>3. newer' \subseteq newer \cup created \X {i \in Ids : HasNote(i)} \cup created \X created
  BY DEF ImportVault
<1>4. \A t \in Files : t \in Titles /\ vault[t] \in File /\ ImportId(t) \in Ids
  <2>1. \A t \in Files : t \in Titles /\ vault[t] \in File /\ imports[t] \in Ids \cup {None}
    BY StateFields DEF VaultInv, VaultTyped, VaultTypeOK
  <2> QED BY <2>1, FileFields, NoneIsNothing DEF ImportId, VaultInv, VaultTyped, Named
<1>5. ASSUME NEW i \in Ids
      PROVE  \/ of(i) = {} /\ brain'[i] = brain[i]
             \/ of(i) # {} /\ \E t \in Files : brain'[i] = Patched(i, t, vault[t])
  <2>1. CASE of(i) = {}
    BY <1>2, <2>1
  <2>2. CASE of(i) # {}
    <3> DEFINE t == CHOOSE u \in of(i) : TRUE
    <3>1. t \in Files
      BY <2>2
    <3>2. brain'[i] = Patched(i, t, vault[t])
      BY <1>2, <2>2
    <3> HIDE DEF t
    <3> QED BY <2>2, <3>1, <3>2
  <2> QED BY <2>1, <2>2
<1>6. ASSUME NEW i \in Ids
      PROVE  /\ brain'[i] \in Note \cup {None}
             /\ of(i) # {} => brain'[i] \in Note /\ brain'[i].deleted = (brain[i] # None /\ brain[i].deleted)
  <2>1. CASE of(i) = {}
    BY <1>5, <2>1, StateFields DEF VaultInv
  <2>2. CASE of(i) # {}
    BY <1>4, <1>5, <2>2, PatchedNote
  <2> QED BY <2>1, <2>2
<1>7. \A i \in Ids : HasNote(i) => HasNote(i)'
  BY <1>5, <1>6, NoneIsNothing DEF HasNote
<1>8. \A i \in created : HasNote(i)' /\ i \in Ids
  BY <1>6, NoneIsNothing DEF HasNote
<1>9. brain' \in [Ids -> Note \cup {None}]
  BY <1>2, <1>6
<1>10. newer' \subseteq ListedNotes' \X ListedNotes'
  <2>1. created \subseteq ListedNotes' /\ ListedNotes \subseteq ListedNotes'
    BY <1>7, <1>8 DEF ListedNotes
  <2>2. newer \subseteq ListedNotes \X ListedNotes
    BY DEF VaultInv, VaultTyped, VaultTypeOK, ListedNotes
  <2> HIDE DEF created
  <2> QED BY <1>3, <2>1, <2>2 DEF ListedNotes
<1>11. ASSUME NEW t \in Titles
       PROVE  /\ vault'[t] \in File \cup {None}
              /\ t \in Files' => t \in Files /\ (vault'[t].id = None => vault[t].id = None)
  <2>1. CASE t \in Files /\ vault[t].id = None /\ imports[t] = None
    <3>1. vault'[t] = [vault[t] EXCEPT !.id = ImportId(t)] /\ vault[t] \in File /\ ImportId(t) \in Ids
      BY <1>2, <1>4, <2>1
    <3>2. vault'[t] \in File
      BY <3>1 DEF File
    <3> QED BY <2>1, <3>2
  <2>2. CASE ~(t \in Files /\ vault[t].id = None /\ imports[t] = None)
    <3>1. vault'[t] = vault[t]
      BY <1>2, <2>2
    <3> QED BY <3>1, StateFields DEF Files, VaultInv
  <2> QED BY <2>1, <2>2
<1>12. vault' \in [Titles -> File \cup {None}] /\ Named'
  <2>1. vault' \in [Titles -> File \cup {None}]
    BY <1>2, <1>11
  <2>2. \A t \in Files' : t \in Titles
    BY DEF Files
  <2> QED BY <1>11, <2>1, <2>2 DEF Named, VaultInv, VaultTyped
<1>13. imports' \in [Titles -> Ids \cup {None}]
  BY <1>2, <1>4 DEF VaultInv, VaultTyped, VaultTypeOK
<1>14. /\ edits' \in 0 .. MaxEdits /\ crashes' \in 0 .. MaxCrashes /\ quiet' \in 0 .. MaxQuiet
       /\ manifest' \in [Ids -> Entry \cup {None}]
       /\ \A j \in Ids : manifest'[j] # None => manifest'[j].brainHash.id = j /\ HadBoth(manifest'[j])
  BY <1>1, VaultAssumption DEF VaultInv, VaultTyped, VaultTypeOK, History
<1> QED BY <1>1, <1>9, <1>10, <1>12, <1>13, <1>14, IdleKeeps

----------------------------------------------------------------------------
(* The invariant.                                                          *)

LEMMA VaultInitially ==
  ASSUME VaultInit
  PROVE  VaultInv
<1>1. Files = {} /\ run = NoRun /\ \A i \in Ids : brain[i] = None /\ manifest[i] = None
  BY DEF VaultInit, Files
<1>2. VaultTyped
  <2>1. run \in RunType /\ \A i \in Ids : run.next[i] = None /\ run.b[i] = None
    BY <1>1, NoRunTyped
  <2>2. /\ run.pc \in {"idle", "sync", "overwrite", "tag", "writeback", "export"}
        /\ run.todo \subseteq Ids /\ run.cur \in Ids \cup {None}
    BY <2>1 DEF RunType
  <2>3. \A j \in Ids : run.v[j] \in Gathered \cup {None} /\ run.b[j] \in Note \cup {None}
                       /\ run.path[j] \in Titles \cup {None} /\ run.next[j] \in Entry \cup {None}
    BY <2>1 DEF RunType
  <2>4. 0 \in 0 .. MaxEdits /\ 0 \in 0 .. MaxCrashes /\ 0 \in 0 .. MaxQuiet
    BY VaultAssumption
  <2>5. VaultTypeOK
    BY <1>1, <2>2, <2>3, <2>4 DEF VaultTypeOK, VaultInit
  <2> QED BY <1>1, <2>1, <2>5 DEF VaultTyped, Named
<1>3. InRun
  BY <1>1, NoRunTyped DEF InRun
<1>4. History
  BY <1>1, NoRunTyped DEF History
<1> QED BY <1>2, <1>3, <1>4 DEF VaultInv

LEMMA StutterKeeps ==
  ASSUME VaultInv, UNCHANGED vaultVars
  PROVE  VaultInv'
<1> USE DEF vaultVars
<1>1. VaultTyped'
  BY DEF VaultInv, VaultTyped, VaultTypeOK, HasNote, Named, Files
<1>2. InRun'
  BY DEF VaultInv, InRun, AtStep, Current, Halfway, Files, IdOf, Exportable, HasNote
<1>3. History'
  BY DEF VaultInv, History, HadBoth, Files
<1> QED BY <1>1, <1>2, <1>3 DEF VaultInv

LEMMA VaultInductive ==
  ASSUME VaultInv, [VaultNext]_vaultVars
  PROVE  VaultInv'
<1>1. CASE User
  BY <1>1, BrainKeeps, VaultKeeps DEF User
<1>2. CASE SyncStep
  BY <1>2, GatherKeeps, ReconcileKeeps, SaveManifestKeeps DEF SyncStep
<1>3. CASE Crash
  BY <1>3, CrashKeeps
<1>4. CASE OneWay
  BY <1>4, BeginExportKeeps, ExportKeeps, ImportVaultKeeps DEF OneWay
<1>5. CASE UNCHANGED vaultVars
  BY <1>5, StutterKeeps
<1> QED BY <1>1, <1>2, <1>3, <1>4, <1>5 DEF VaultNext

LEMMA VaultAlways == VaultSpec => []VaultInv
<1>1. VaultInit => VaultInv
  BY VaultInitially
<1>2. VaultInv /\ [VaultNext]_vaultVars => VaultInv'
  BY VaultInductive
<1> QED BY <1>1, <1>2, PTL DEF VaultSpec

\* The notes, the files, the manifest and the run under way are of their types
\* under any names, whatever users edit, wherever a run ends (brain/src/import).
THEOREM VaultTypeCorrect == VaultSpec => []VaultTypeOK
<1>1. VaultInv => VaultTypeOK
  BY DEF VaultInv, VaultTyped
<1> QED BY <1>1, VaultAlways, PTL

----------------------------------------------------------------------------
(* Where the brain wins.                                                   *)

\* The bodies of the notes a run does not list: drafts, unless they are included.
Hidden == {brain[i].body : i \in {j \in Ids : HasNote(j) /\ ~Exportable(j)}}

\* What a step may take away: a body that is still somewhere, that both sides
\* have had, of a hidden draft, or of a file that is written over.
Excused(x) ==
  \/ x \in Kept' \/ x \in inBrain \cap inVault \/ x \in Hidden
  \/ \E t \in Files : vault[t].body = x /\ WrittenOver(t)

LEMMA NoteRewritten ==
  ASSUME vault' = vault, NEW i \in Ids, \A j \in Ids \ {i} : brain'[j] = brain[j],
         HasNote(i) => Excused(brain[i].body)
  PROVE  \A x \in Readable : Excused(x)
<1> SUFFICES ASSUME NEW x \in Readable PROVE Excused(x)
  OBVIOUS
<1>1. ASSUME NEW j \in Ids, HasNote(j), x = brain[j].body PROVE Excused(x)
  <2>1. CASE j = i
    BY <1>1, <2>1
  <2>2. CASE j # i
    <3>1. HasNote(j)' /\ brain'[j].body = x
      BY <1>1, <2>2 DEF HasNote
    <3> QED BY <3>1 DEF Excused, Kept, Readable
  <2> QED BY <2>1, <2>2
<1>2. ASSUME NEW t \in Files, x = vault[t].body PROVE Excused(x)
  <2>1. t \in Files' /\ vault'[t].body = x
    BY <1>2 DEF Files
  <2> QED BY <2>1 DEF Excused, Kept, Readable
<1> QED BY <1>1, <1>2 DEF Readable

LEMMA FilesRewritten ==
  ASSUME brain' = brain,
         \A t \in Files : (t \in Files' /\ vault'[t].body = vault[t].body) \/ Excused(vault[t].body)
  PROVE  \A x \in Readable : Excused(x)
<1> SUFFICES ASSUME NEW x \in Readable PROVE Excused(x)
  OBVIOUS
<1>1. ASSUME NEW j \in Ids, HasNote(j), x = brain[j].body PROVE Excused(x)
  <2>1. HasNote(j)' /\ brain'[j].body = x
    BY <1>1 DEF HasNote
  <2> QED BY <2>1 DEF Excused, Kept, Readable
<1>2. ASSUME NEW t \in Files, x = vault[t].body PROVE Excused(x)
  <2>1. CASE t \in Files' /\ vault'[t].body = vault[t].body
    BY <1>2, <2>1 DEF Excused, Kept, Readable
  <2>2. CASE Excused(vault[t].body)
    BY <1>2, <2>2
  <2> QED BY <2>1, <2>2
<1> QED BY <1>1, <1>2 DEF Readable

\* In the turn of note i a file is written over, or it is the one the run has
\* read for the note.
LEMMA OwnFile ==
  ASSUME VaultInv, NEW i \in Ids, run.cur = i \/ i \in run.todo \ run'.todo, NEW t \in Files
  PROVE  \/ Excused(vault[t].body)
         \/ run.v[i] # None /\ run.v[i].rel = t /\ IdOf(t) = i
<1>1. TurnOf(i)
  BY DEF TurnOf
<1>2. CASE IdOf(t) # i \/ run.v[i] = None \/ run.v[i].rel # t
  <2>1. WrittenOver(t)
    BY <1>1, <1>2 DEF WrittenOver, Overlooked
  <2> QED BY <2>1 DEF Excused
<1> QED BY <1>2

LEMMA WriteLosesNothing ==
  ASSUME VaultInv, NEW i \in Ids, Pending(i), run.b[i] # None, run.v[i] # None => ~VaultChanged(i),
         brain' = brain, NEW e, DoneWith(i, e)
  PROVE  \A x \in Readable : Excused(x)
<1>1. i \in run.todo \ run'.todo
  BY DEF DoneWith, Pending, HasTurn, VaultInv, VaultTyped, RunType
<1>2. ASSUME NEW t \in Files PROVE Excused(vault[t].body)
  <2>1. CASE run.v[i] # None /\ run.v[i].rel = t /\ IdOf(t) = i
    <3>1. run.v[i].file \in File /\ vault[t] = run.v[i].file
      BY <2>1, PendingFacts, TurnFacts
    <3>2. manifest[i] # None /\ vault[t] = manifest[i].vaultHash
      BY <2>1, <3>1, NoneIsNothing DEF VaultChanged
    <3> QED BY <3>2 DEF Excused, VaultInv, History, HadBoth
  <2> QED BY <1>1, <2>1, OwnFile
<1> QED BY <1>2, FilesRewritten

LEMMA RunLosesNothing ==
  ASSUME VaultInv, Reconcile, Policy = "brain"
  PROVE  \A x \in Readable : Excused(x)
<1> DEFINE Goal == \A x \in Readable : Excused(x)
<1>1. ASSUME NEW i \in Ids, Unchanged(i) \/ Conflict(i) PROVE Goal
  <2>1. brain' = brain /\ vault' = vault
    BY <1>1 DEF Unchanged, Conflict, disk
  <2> QED BY <2>1, FilesRewritten DEF Files
<1>2. ASSUME NEW i \in Ids, ImportEdit(i) PROVE Goal
  <2>1. /\ Pending(i) /\ run.b[i] # None /\ ~BrainChanged(i) /\ run.v[i] # None /\ vault' = vault
        /\ Apply(i)
    BY <1>2, VaultAssumption DEF ImportEdit, Both, Import, disk
  <2>2. run.b[i] = brain[i] /\ brain[i] \in Note
    BY <2>1, PendingFacts, TurnFacts
  <2>3. manifest[i] # None /\ manifest[i].brainHash = Serialized(i, brain[i])
    BY <2>1, <2>2, SerializedFile, NoneIsNothing DEF BrainChanged
  <2>4. brain[i].body \in inBrain \cap inVault
    BY <2>2, <2>3, SerializedFile DEF VaultInv, History, HadBoth
  <2>5. \A j \in Ids \ {i} : brain'[j] = brain[j]
    BY <2>1, PendingFacts, ApplyFields
  <2> QED BY <2>1, <2>4, <2>5, NoteRewritten DEF Excused
<1>3. ASSUME NEW i \in Ids, ImportFile(i) PROVE Goal
  <2>1. Pending(i) /\ run.b[i] = None /\ run.v[i] # None /\ vault' = vault /\ Apply(i)
    BY <1>3 DEF ImportFile, Import, disk
  <2>2. ~Exportable(i)
    BY <2>1, PendingFacts, TurnFacts
  <2>3. HasNote(i) => Excused(brain[i].body)
    BY <2>2 DEF Hidden, Excused
  <2>4. \A j \in Ids \ {i} : brain'[j] = brain[j]
    BY <2>1, PendingFacts, ApplyFields
  <2> QED BY <2>1, <2>3, <2>4, NoteRewritten
<1>4. ASSUME NEW i \in Ids, ExportEdit(i) PROVE Goal
  BY <1>4, WriteLosesNothing DEF ExportEdit, Both
<1>5. ASSUME NEW i \in Ids, ExportNote(i) PROVE Goal
  BY <1>5, WriteLosesNothing DEF ExportNote, WriteNote
<1>6. CASE Overwrite
  <2>0. run.pc = "overwrite"
    BY <1>6 DEF Overwrite
  <2>1. PICK i \in Ids :
          /\ run.cur = i /\ run.v[i] # None /\ Halfway(i) /\ Current(i) /\ run.v[i].rel \in Titles
    BY <2>0, CurrentFacts
  <2>2. /\ brain' = brain /\ sidecar' = sidecar
        /\ vault' = [vault EXCEPT ![run.v[i].rel] = Serialized(i, run.b[i])]
    BY <1>6, <2>1 DEF Overwrite
  <2>3. ASSUME NEW t \in Files
        PROVE  (t \in Files' /\ vault'[t].body = vault[t].body) \/ Excused(vault[t].body)
    <3>1. CASE run.v[i].rel = t /\ IdOf(t) = i
      <4>1. vault[t].body = sidecar'[t] /\ t \in Titles
        BY <2>0, <2>1, <2>2, <3>1 DEF Halfway, Current, AtStep, Files
      <4> QED BY <4>1 DEF Excused, Kept
    <3> QED BY <2>1, <3>1, OwnFile
  <2> QED BY <2>2, <2>3, FilesRewritten
<1>7. CASE TagConflict
  <2>1. UNCHANGED <<edits, crashes, quiet>>
    BY DEF Reconcile
  <2>2. /\ vault' = vault
        /\ \A j \in Ids : /\ brain[j] # None => brain'[j] # None /\ brain'[j].body = brain[j].body
                          /\ HasNote(j) => HasNote(j)'
    BY <1>7, <2>1, TagConflictKeeps
  <2>3. ASSUME NEW x \in Readable PROVE x \in Readable'
    <3>1. ASSUME NEW j \in Ids, HasNote(j), x = brain[j].body PROVE x \in Readable'
      <4>1. HasNote(j)' /\ brain'[j].body = x
        BY <2>2, <3>1 DEF HasNote
      <4> QED BY <4>1 DEF Readable
    <3>2. ASSUME NEW t \in Files, x = vault[t].body PROVE x \in Readable'
      BY <2>2, <3>2 DEF Readable, Files
    <3> QED BY <3>1, <3>2 DEF Readable
  <2> QED BY <2>3 DEF Excused, Kept
<1>8. CASE WriteBack
  <2>0. run.pc = "writeback"
    BY <1>8 DEF WriteBack
  <2>1. PICK i \in Ids :
          /\ run.cur = i /\ run.v[i] # None /\ Current(i) /\ run.v[i].rel \in Titles
          /\ run.v[i].file \in File
    BY <2>0, CurrentFacts
  <2>2. /\ brain' = brain /\ vault \in [Titles -> File \cup {None}]
        /\ vault' = [vault EXCEPT ![run.v[i].rel] = [run.v[i].file EXCEPT !.id = i]]
    BY <1>8, <2>1 DEF WriteBack, VaultInv, VaultTyped, VaultTypeOK
  <2>3. ASSUME NEW t \in Files
        PROVE  (t \in Files' /\ vault'[t].body = vault[t].body) \/ Excused(vault[t].body)
    <3>1. CASE run.v[i].rel = t /\ IdOf(t) = i
      <4>1. vault[t] = run.v[i].file /\ t \in Titles
        BY <2>0, <2>1, <3>1 DEF Current, AtStep, Files
      <4>2. vault'[t] = [run.v[i].file EXCEPT !.id = i]
        BY <2>2, <3>1, <4>1
      <4>3. vault'[t] \in File /\ vault'[t].body = vault[t].body
        BY <2>1, <4>1, <4>2 DEF File
      <4> QED BY <4>1, <4>3, NoneIsNothing DEF Files
    <3> QED BY <2>1, <3>1, OwnFile
  <2> QED BY <2>2, <2>3, FilesRewritten
<1> QED BY <1>1, <1>2, <1>3, <1>4, <1>5, <1>6, <1>7, <1>8 DEF Reconcile

\* What a step of a sync, or the end of one, takes away.
OnlyDraftsLost ==
  [][run.pc \notin {"idle", "export"} =>
       \A x \in Readable \ (Kept' \cup (inBrain \cap inVault)) :
         x \in Hidden \/ \E t \in Files : vault[t].body = x /\ WrittenOver(t)]_vaultVars

\* Where the brain wins, under any names, no step of a sync and no end of one
\* takes away a body the other side never had, but that of a file which another
\* note is written over and that of a draft the sync does not list, whose file
\* it then takes for the newer one (sync.ts:140-152).
THEOREM OnlyDraftsAreLost ==
  ASSUME Policy = "brain"
  PROVE  VaultSpec => OnlyDraftsLost
<1> DEFINE Goal == run.pc \notin {"idle", "export"} =>
       \A x \in Readable \ (Kept' \cup (inBrain \cap inVault)) :
         x \in Hidden \/ \E t \in Files : vault[t].body = x /\ WrittenOver(t)
<1>1. ASSUME VaultInv, [VaultNext]_vaultVars PROVE [Goal]_vaultVars
  <2> SUFFICES ASSUME VaultNext, run.pc \notin {"idle", "export"}
               PROVE  \A x \in Readable : Excused(x)
    BY <1>1 DEF Excused
  <2>1. ~User /\ ~Gather /\ ~OneWay
    BY DEF User, Edit, Gather, Begin, BeginExport, Export, ImportVault, OneWay
  <2>2. CASE Reconcile
    BY <1>1, <2>2, RunLosesNothing
  <2>3. CASE SaveManifest \/ Crash
    <3>1. brain' = brain /\ vault' = vault
      BY <2>3 DEF SaveManifest, Crash, disk
    <3> QED BY <3>1, FilesRewritten DEF Files
  <2> QED BY <2>1, <2>2, <2>3 DEF VaultNext, SyncStep
<1>2. VaultInv /\ [VaultNext]_vaultVars => [Goal]_vaultVars
  BY <1>1
<1> QED BY <1>2, VaultAlways, PTL DEF VaultSpec, OnlyDraftsLost

\* "Never lossy" (sync.ts:4-6): where the brain wins and drafts are in sight,
\* under any names, no step of a sync and no end of one takes away a body the
\* other side never had, but that of a file which another note is written over.
THEOREM OnlyOverwritesLose ==
  ASSUME Policy = "brain", IncludeDrafts
  PROVE  VaultSpec => NeverLossy
<1> DEFINE Lost == Readable \ (Kept' \cup (inBrain \cap inVault))
           Over(x) == \E t \in Files : vault[t].body = x /\ WrittenOver(t)
<1>1. Hidden = {}
  BY DEF Hidden, Exportable
<1>2. [run.pc \notin {"idle", "export"} => \A x \in Lost : x \in Hidden \/ Over(x)]_vaultVars
        => [run.pc \notin {"idle", "export"} => \A x \in Lost : Over(x)]_vaultVars
  BY <1>1
<1> QED BY <1>2, OnlyDraftsAreLost, PTL DEF NeverLossy, OnlyDraftsLost
=============================================================================
