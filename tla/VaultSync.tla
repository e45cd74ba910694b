----------------------------- MODULE VaultSync -----------------------------
(***************************************************************************)
(* A space and an Obsidian vault (brain/src/import): the bidirectional     *)
(* sync with its manifest, the one-way export and the one-way import, over *)
(* users who edit, rename, create and delete on both sides between runs,   *)
(* under any names, and a process that may end in the middle of a run.     *)
(*                                                                         *)
(* A body is a version number, a title is a file's base name (one folder), *)
(* tags are those the sync itself reads or writes, and a hash is the       *)
(* content it is the hash of.  Link rewriting, aliases and attachments are *)
(* inside the opaque body; containment checks always hold.                 *)
(***************************************************************************)
EXTENDS Naturals, FiniteSets

CONSTANTS
  Ids, Titles,    \* note ids; file names
  NoteNames,      \* the names users give to notes
  FileNames,      \* the names users give to files
  PathId,         \* PathId[t]: the id derived from the path of file t
  WithFragment,   \* WithFragment[i][t]: t with a fragment of the id i
  WithId,         \* WithId[i][t]: t with the whole id i
  NewIds,         \* ids the brain gives to notes created in it
  None,
  IncludeDrafts,  \* the run's includeDrafts option
  Policy,         \* the run's conflict option: "brain" or "vault"
  MaxEdits,       \* bound: edits by users, on both sides together
  MaxCrashes,     \* bound: runs that end in the middle
  MaxQuiet        \* bound: quiet syncs counted, and those it takes to settle

VARIABLES
  brain,      \* brain[i]: the note with id i, or None
  newer,      \* the pairs of notes in the index, the first listed before the second
  vault,      \* vault[t]: the file named t, or None
  sidecar,    \* sidecar[t]: .cephalopod/conflicts/t, or None
  manifest,   \* the sync manifest on disk: an entry per note, or None
  imports,    \* the import manifest on disk: imports[t] is the id of file t
  run,        \* the run under way: its place and what it has in memory
  edits, crashes,
  inBrain,    \* bodies the brain has ever held
  inVault,    \* bodies the vault has ever held
  quiet       \* syncs completed since the last edit, crash, import or export

disk == <<vault, sidecar, manifest, imports>>
vaultVars == <<brain, newer, vault, sidecar, manifest, imports, run, edits, crashes,
          inBrain, inVault, quiet>>

Body == 1 .. MaxEdits
Tags == SUBSET {"draft", "sync-conflict"}
Note == [title : Titles, body : Body, tags : Tags, deleted : BOOLEAN]
File == [id : Ids \cup {None}, body : Body, tags : Tags]
Entry == [rel : Titles, vaultHash : File, brainHash : File]
Gathered == [rel : Titles, file : File]

\* PathId is a hash of the path.
ASSUME VaultAssumption ==
  /\ NoteNames \subseteq Titles /\ FileNames \subseteq Titles
  /\ PathId \in [FileNames -> Ids] /\ NewIds \subseteq Ids
  /\ WithFragment \in [Ids -> [Titles -> Titles]] /\ WithId \in [Ids -> [Titles -> Titles]]
  /\ \A t, u \in FileNames : PathId[t] = PathId[u] => t = u
  /\ None \notin Ids \cup Titles \cup Note \cup File \cup Entry \cup Gathered
  /\ IncludeDrafts \in BOOLEAN /\ Policy \in {"brain", "vault"}
  /\ MaxEdits \in Nat /\ MaxCrashes \in Nat /\ MaxQuiet \in Nat

NoRun == [pc |-> "idle", todo |-> {}, v |-> [i \in Ids |-> None],
          b |-> [i \in Ids |-> None], path |-> [i \in Ids |-> None],
          next |-> [i \in Ids |-> None], cur |-> None]

VaultInit ==
  /\ brain = [i \in Ids |-> None] /\ newer = {}
  /\ vault = [t \in Titles |-> None]
  /\ sidecar = [t \in Titles |-> None]
  /\ manifest = [i \in Ids |-> None]
  /\ imports = [t \in Titles |-> None]
  /\ run = NoRun
  /\ edits = 0 /\ crashes = 0
  /\ inBrain = {} /\ inVault = {}
  /\ quiet = 0

Files == {t \in Titles : vault[t] # None}

\* hasNote: the note has a row in the index, which a tombstone has not.
HasNote(i) == brain[i] # None /\ ~brain[i].deleted

Serialized_without_its_id(i, n) == [id |-> None, body |-> n.body, tags |-> n.tags]

\* serializeNote: the id and the tags go to the frontmatter; the title is the
\* file's name and in neither the text nor its hash.
Serialized(i, n) == [id |-> i, body |-> n.body, tags |-> n.tags]

NotePath(n) == n.title

\* The names assignPaths tries for note n with id i, in order.
Tries(i, n) == <<NotePath(n), WithFragment[i][NotePath(n)], WithId[i][NotePath(n)]>>

\* assignPaths: over the notes as they are listed, each takes the first name no
\* note before it has, and the last one whoever has it.  `b` maps the ids to the
\* notes listed or None; a choice is the try each of them takes.
PathChoices(b) ==
  LET listed == {i \in Ids : b[i] # None} IN
  {c \in [listed -> 1 .. 3] : \A i \in listed :
     LET used == {Tries(j, b[j])[c[j]] : j \in {k \in listed : <<k, i>> \in newer}} IN
     /\ \A k \in 1 .. c[i] - 1 : Tries(i, b[i])[k] \in used
     /\ Tries(i, b[i])[c[i]] \in used => c[i] = 3}
AssignPaths(b, c) == [i \in Ids |-> IF b[i] = None THEN None ELSE Tries(i, b[i])[c[i]]]

\* A new note's row is listed before the others; a deleted note has none.
ListedFirst(i) == newer \cup {<<i, j>> : j \in {k \in Ids \ {i} : HasNote(k)}}
Unlisted(i) == {p \in newer : i \notin {p[1], p[2]}}

\* fileToFields, merged over what the note was.  createNote on a tombstone
\* inserts into it and does not revive it.
Patched(i, t, f) ==
  [title |-> t, body |-> f.body, tags |-> f.tags,
   deleted |-> brain[i] # None /\ brain[i].deleted]

\* History: what each side has held, after a step.
Remember ==
  /\ inBrain' = inBrain \cup {brain'[i].body : i \in {j \in Ids : brain'[j] # None}}
  /\ inVault' = inVault \cup {vault'[t].body : t \in {u \in Titles : vault'[u] # None}}

----------------------------------------------------------------------------
(* Users, between runs.                                                    *)

Edit ==
  /\ run.pc = "idle" /\ edits < MaxEdits
  /\ edits' = edits + 1
  /\ quiet' = 0
  /\ Remember
  /\ UNCHANGED <<sidecar, manifest, imports, run, crashes>>

\* The body of an edit: one nobody has written before.
NewBody == edits + 1

BrainCreate(i, t) ==
  /\ i \in NewIds /\ brain[i] = None
  /\ brain' = [brain EXCEPT ![i] =
       [title |-> t, body |-> NewBody, tags |-> {}, deleted |-> FALSE]]
  /\ newer' = ListedFirst(i)
  /\ UNCHANGED vault

\* An agent's write over the socket also tags the note as a draft.
BrainWrite(i, tags) ==
  /\ HasNote(i)
  /\ brain' = [brain EXCEPT ![i].body = NewBody, ![i].tags = @ \cup tags]
  /\ UNCHANGED <<newer, vault>>

BrainRename(i, t) ==
  /\ HasNote(i) /\ brain[i].title # t
  /\ brain' = [brain EXCEPT ![i].title = t]
  /\ UNCHANGED <<newer, vault>>

BrainDelete(i) ==
  /\ HasNote(i)
  /\ brain' = [brain EXCEPT ![i].deleted = TRUE]
  /\ newer' = Unlisted(i)
  /\ UNCHANGED vault

VaultCreate(t) ==
  /\ vault[t] = None
  /\ vault' = [vault EXCEPT ![t] = [id |-> None, body |-> NewBody, tags |-> {}]]
  /\ UNCHANGED <<brain, newer>>

VaultWrite(t) ==
  /\ t \in Files
  /\ vault' = [vault EXCEPT ![t].body = NewBody]
  /\ UNCHANGED <<brain, newer>>

VaultRename(t, u) ==
  /\ t \in Files /\ vault[u] = None
  /\ vault' = [vault EXCEPT ![u] = vault[t], ![t] = None]
  /\ UNCHANGED <<brain, newer>>

VaultDelete(t) ==
  /\ t \in Files
  /\ vault' = [vault EXCEPT ![t] = None]
  /\ UNCHANGED <<brain, newer>>

UserInBrain == \E i \in Ids :
  \/ BrainWrite(i, {}) \/ BrainWrite(i, {"draft"}) \/ BrainDelete(i)
  \/ \E t \in NoteNames : BrainCreate(i, t) \/ BrainRename(i, t)
UserInVault ==
  \/ \E t \in FileNames : VaultCreate(t)
  \/ \E t \in Titles : VaultWrite(t) \/ VaultDelete(t) \/ \E u \in FileNames : VaultRename(t, u)
User == (UserInBrain \/ UserInVault) /\ Edit

----------------------------------------------------------------------------
(* syncVault: gather both sides, reconcile note by note, save the manifest.*)

\* The note a file is of: the id it carries, the one the manifest knows its
\* path by, or the one derived from its path.  (A file without an id has a name
\* its user gave it.)
IdOf(t) ==
  IF vault[t].id # None THEN vault[t].id
  ELSE IF \E i \in Ids : manifest[i] # None /\ manifest[i].rel = t
       THEN CHOOSE i \in Ids : manifest[i] # None /\ manifest[i].rel = t
       ELSE PathId[t]

\* snapshotSpace: the notes of the index, without the tombstones, and without
\* the drafts unless they are included.
Exportable(i) ==
  HasNote(i) /\ (IncludeDrafts \/ "draft" \notin brain[i].tags)

\* A run begins: it reads the files and the notes, and gives the notes paths.
Begin(pc, v) ==
  LET b == [i \in Ids |-> IF Exportable(i) THEN brain[i] ELSE None] IN
  /\ run.pc = "idle"
  /\ \E c \in PathChoices(b) :
       run' = [NoRun EXCEPT !.pc = pc, !.v = v, !.b = b, !.path = AssignPaths(b, c),
                 !.todo = {i \in Ids : v[i] # None \/ b[i] # None}]
  /\ UNCHANGED <<brain, newer, disk, edits, crashes, inBrain, inVault>>

\* Of the files of one note, the sync sees one.
Gather ==
  /\ Begin("sync", [i \in Ids |->
       IF \E t \in Files : IdOf(t) = i
       THEN LET t == CHOOSE u \in Files : IdOf(u) = i IN [rel |-> t, file |-> vault[t]]
       ELSE None])
  /\ UNCHANGED quiet

VaultChanged_only_if_known(i) ==
  run.v[i] # None /\ manifest[i] # None /\ run.v[i].file # manifest[i].vaultHash

\* The hashes of the last sync; without an entry, both sides have changed.
VaultChanged(i) ==
  run.v[i] # None /\ run.v[i].file # IF manifest[i] = None THEN None ELSE manifest[i].vaultHash
BrainChanged(i) ==
  /\ run.b[i] # None
  /\ Serialized(i, run.b[i]) # IF manifest[i] = None THEN None ELSE manifest[i].brainHash

\* The notes' turns: those listed as they are listed, then the other files.
HasTurn(i) ==
  /\ i \in run.todo
  /\ \A j \in run.todo \ {i} :
       run.b[j] # None => run.b[i] # None /\ <<i, j>> \in newer
Pending(i) == run.pc = "sync" /\ HasTurn(i)
Both(i) == run.v[i] # None /\ run.b[i] # None

\* Note i is done; `e` is its entry in the manifest to be saved.
DoneWith(i, e) ==
  run' = [run EXCEPT !.pc = IF @ = "export" THEN @ ELSE "sync",
            !.todo = @ \ {i}, !.next[i] = e, !.cur = None]


Unchanged(i) ==
  /\ Pending(i) /\ Both(i) /\ ~VaultChanged(i) /\ ~BrainChanged(i)
  /\ DoneWith(i, manifest[i])
  /\ UNCHANGED <<brain, newer, disk, inBrain, inVault>>

\* remanifest: the note as it is after the import, the file as it is on disk.
Remanifest(i, t, f) ==
  [rel |-> t, vaultHash |-> f, brainHash |-> Serialized(i, brain'[i])]

\* The note is patched or created, with a row of its own unless it is a
\* tombstone.
Apply(i) ==
  /\ brain' = [brain EXCEPT ![i] = Patched(i, run.v[i].rel, run.v[i].file)]
  /\ newer' = IF brain[i] = None THEN ListedFirst(i) ELSE newer

Import(i, f) ==
  /\ Apply(i)
  /\ DoneWith(i, Remanifest(i, run.v[i].rel, f))

\* Only the file moved, or both did and the vault wins.
ImportEdit(i) ==
  /\ Pending(i) /\ Both(i)
  /\ VaultChanged(i) /\ (BrainChanged(i) => Policy = "vault")
  /\ Import(i, run.v[i].file)
  /\ UNCHANGED disk
  /\ Remember

\* writeFile: the file the note moved away from is removed first.
Written(i, t, stale) ==
  [u \in Titles |->
     IF u = t THEN Serialized(i, run.b[i])
     ELSE IF u \in stale THEN None ELSE vault[u]]

PreviousPath(i) == IF manifest[i] = None THEN {} ELSE {manifest[i].rel}

ExportEdit(i) ==
  LET t == run.path[i] IN
  /\ Pending(i) /\ Both(i)
  /\ BrainChanged(i) /\ ~VaultChanged(i)
  /\ vault' = Written(i, t, PreviousPath(i) \cup {run.v[i].rel})
  /\ DoneWith(i, [rel |-> t, vaultHash |-> vault'[t], brainHash |-> vault'[t]])
  /\ UNCHANGED <<brain, newer, sidecar, manifest, imports>>
  /\ Remember

\* Both moved and the brain wins: the vault's copy goes to the sidecar ...
Conflict(i) ==
  /\ Pending(i) /\ Both(i)
  /\ BrainChanged(i) /\ VaultChanged(i) /\ Policy = "brain"
  /\ sidecar' = [sidecar EXCEPT ![run.v[i].rel] = run.v[i].file.body]
  /\ run' = [run EXCEPT !.pc = "overwrite", !.cur = i]
  /\ UNCHANGED <<brain, newer, vault, manifest, imports, inBrain, inVault>>

\* ... then the file is overwritten ...
Overwrite ==
  LET i == run.cur
      t == run.v[i].rel IN
  /\ run.pc = "overwrite"
  /\ vault' = [vault EXCEPT ![t] = Serialized(i, run.b[i])]
  /\ run' = [run EXCEPT !.pc = "tag",
               !.next[i] = [rel |-> t, vaultHash |-> vault'[t], brainHash |-> vault'[t]]]
  /\ UNCHANGED <<brain, newer, sidecar, manifest, imports>>
  /\ Remember

TagConflict_takes_the_new_hash ==
  LET i == run.cur IN
  /\ run.pc = "tag"
  /\ brain' = [brain EXCEPT ![i].tags = run.b[i].tags \cup {"sync-conflict"}]
  /\ DoneWith(i, [run.next[i] EXCEPT !.brainHash = Serialized(i, brain'[i])])
  /\ UNCHANGED <<newer, disk>>
  /\ Remember

\* ... and the note tagged, after the hash was taken: the tag is for the next
\* sync to export.
TagConflict ==
  LET i == run.cur IN
  /\ run.pc = "tag"
  /\ brain' = [brain EXCEPT ![i].tags = run.b[i].tags \cup {"sync-conflict"}]
  /\ DoneWith(i, run.next[i])
  /\ UNCHANGED <<newer, disk>>
  /\ Remember

\* A file whose note the brain did not list.
ImportFile(i) ==
  LET f == run.v[i].file IN
  /\ Pending(i) /\ run.v[i] # None /\ run.b[i] = None
  /\ IF f.id = None
     THEN /\ Apply(i)
          /\ run' = [run EXCEPT !.pc = "writeback", !.cur = i]
     ELSE Import(i, f)
  /\ UNCHANGED disk
  /\ Remember

\* writeBack: a new file is given the id of its note.
WriteBack ==
  LET i == run.cur
      t == run.v[i].rel IN
  /\ run.pc = "writeback"
  /\ vault' = [vault EXCEPT ![t] = [run.v[i].file EXCEPT !.id = i]]
  /\ UNCHANGED <<brain, newer, sidecar, manifest, imports>>
  /\ DoneWith(i, Remanifest(i, t, vault'[t]))
  /\ Remember

\* The note is written to its path, and its former one removed.
WriteNote(i) ==
  /\ vault' = Written(i, run.path[i], PreviousPath(i))
  /\ DoneWith(i, [rel |-> run.path[i], vaultHash |-> vault'[run.path[i]],
                  brainHash |-> vault'[run.path[i]]])
  /\ UNCHANGED <<brain, newer, sidecar, manifest, imports>>
  /\ Remember

\* A note without a file: new, or the file was deleted.
ExportNote(i) ==
  /\ Pending(i) /\ run.b[i] # None /\ run.v[i] = None
  /\ WriteNote(i)

Reconcile ==
  /\ \/ \E i \in Ids :
          \/ Unchanged(i) \/ ImportEdit(i) \/ ExportEdit(i) \/ Conflict(i)
          \/ ImportFile(i) \/ ExportNote(i)
     \/ Overwrite \/ TagConflict \/ WriteBack
  /\ UNCHANGED <<edits, crashes, quiet>>

\* saveSyncManifest writes a temporary file and renames it: all or nothing.
SaveManifest ==
  /\ run.pc \in {"sync", "export"} /\ run.todo = {}
  /\ manifest' = run.next
  /\ run' = NoRun
  /\ quiet' = IF run.pc = "sync" /\ quiet < MaxQuiet THEN quiet + 1 ELSE quiet
  /\ UNCHANGED <<brain, newer, vault, sidecar, imports, edits, crashes, inBrain, inVault>>

SyncStep == Gather \/ Reconcile \/ SaveManifest

\* The process ends: nothing of the run is left but what it wrote.
Crash ==
  /\ run.pc # "idle" /\ crashes < MaxCrashes
  /\ crashes' = crashes + 1
  /\ run' = NoRun
  /\ quiet' = 0
  /\ UNCHANGED <<brain, newer, disk, edits, inBrain, inVault>>

----------------------------------------------------------------------------
(* exportVault and importVault, one way each.                              *)

BeginExport ==
  /\ Begin("export", [i \in Ids |-> None])
  /\ quiet' = 0

\* The file is what the manifest says it is, or at least there is one.
AsRecorded(i) ==
  /\ manifest[i] # None /\ vault[run.path[i]] # None
  /\ manifest[i].brainHash = Serialized(i, run.b[i]) /\ manifest[i].rel = run.path[i]

Export(i) ==
  /\ run.pc = "export" /\ HasTurn(i)
  /\ IF AsRecorded(i)
     THEN DoneWith(i, manifest[i]) /\ UNCHANGED <<brain, newer, disk, inBrain, inVault>>
     ELSE WriteNote(i)
  /\ UNCHANGED <<edits, crashes, quiet>>

\* The importer knows files by its own manifest, not by the sync's.
ImportId(t) ==
  IF vault[t].id # None THEN vault[t].id
  ELSE IF imports[t] # None THEN imports[t] ELSE PathId[t]

\* One step of a whole import; the notes it creates are listed in any order.
ImportVault ==
  LET of(i) == {t \in Files : ImportId(t) = i}
      created == {i \in Ids : of(i) # {} /\ brain[i] = None}
      listed == {i \in Ids : HasNote(i)} IN
  /\ run.pc = "idle"
  /\ brain' = [i \in Ids |->
       IF of(i) = {} THEN brain[i]
       ELSE LET t == CHOOSE u \in of(i) : TRUE IN Patched(i, t, vault[t])]
  /\ \E rank \in [created -> 1 .. Cardinality(created)] :
       /\ \A i, j \in created : rank[i] = rank[j] => i = j
       /\ newer' = newer \cup created \X listed
            \cup {p \in created \X created : rank[p[1]] < rank[p[2]]}
  /\ vault' = [t \in Titles |->
       IF t \in Files /\ vault[t].id = None /\ imports[t] = None
       THEN [vault[t] EXCEPT !.id = ImportId(t)] ELSE vault[t]]
  /\ imports' = [t \in Titles |-> IF t \in Files THEN ImportId(t) ELSE imports[t]]
  /\ quiet' = 0
  /\ Remember
  /\ UNCHANGED <<manifest, sidecar, run, edits, crashes>>

OneWay == BeginExport \/ (\E i \in Ids : Export(i)) \/ ImportVault

VaultNext == User \/ SyncStep \/ Crash \/ OneWay

VaultSpec == VaultInit /\ [][VaultNext]_vaultVars

----------------------------------------------------------------------------
(* Properties.                                                             *)

\* The variables are of their types, and every entry of the manifest, saved or
\* to be saved, is about the note it is filed under.
VaultTypeOK ==
  /\ brain \in [Ids -> Note \cup {None}]
  /\ newer \subseteq {i \in Ids : HasNote(i)} \X {i \in Ids : HasNote(i)}
  /\ vault \in [Titles -> File \cup {None}]
  /\ sidecar \in [Titles -> Body \cup {None}]
  /\ manifest \in [Ids -> Entry \cup {None}]
  /\ imports \in [Titles -> Ids \cup {None}]
  /\ run.pc \in {"idle", "sync", "overwrite", "tag", "writeback", "export"}
  /\ run.todo \subseteq Ids /\ run.cur \in Ids \cup {None}
  /\ \A i \in Ids : /\ run.v[i] \in Gathered \cup {None}
                    /\ run.b[i] \in Note \cup {None}
                    /\ run.path[i] \in Titles \cup {None}
                    /\ run.next[i] \in Entry \cup {None}
  /\ \A i \in Ids : manifest[i] # None => manifest[i].brainHash.id = i
  /\ edits \in 0 .. MaxEdits /\ crashes \in 0 .. MaxCrashes
  /\ inBrain \subseteq Body /\ inVault \subseteq Body
  /\ quiet \in 0 .. MaxQuiet

\* The bodies a user can still read somewhere.
Readable ==
  {brain[i].body : i \in {j \in Ids : HasNote(j)}} \cup {vault[t].body : t \in Files}
Kept == Readable \cup {sidecar[t] : t \in Titles}

\* The file at t is not the one the run has read for the note it is of.
Overlooked(t) == run.v[IdOf(t)] = None \/ run.v[IdOf(t)].rel # t

\* The step is the turn, or a part of the turn, of note j.
TurnOf(j) == j \in run.todo \ run'.todo \/ j = run.cur

\* File t is of another note than the one whose turn it is, or overlooked.
WrittenOver(t) == Overlooked(t) \/ \E j \in Ids : TurnOf(j) /\ j # IdOf(t)

\* "Never lossy" (sync.ts): a step of the sync, or a crash in it, takes away
\* no body that one side has and the other never had, whatever was edited,
\* renamed or left over from runs that ended early, unless another note is
\* written over its file.
NeverLossy ==
  [][run.pc \notin {"idle", "export"} =>
       \A x \in Readable \ (Kept' \cup (inBrain \cap inVault)) :
         \E t \in Files : vault[t].body = x /\ WrittenOver(t)]_vaultVars

\* File t is of note i and has its text.
Shows(t, i) == IdOf(t) = i /\ Serialized(i, vault[t]) = Serialized(i, brain[i])

\* Syncs without an edit between them settle the sides, under any names: every
\* note the sync sees has a file with its text, and every file is of such a
\* note, of one the brain has deleted, or one of several of its note.
Settled ==
  quiet = MaxQuiet =>
    /\ \A i \in Ids : Exportable(i) => \E t \in Files : Shows(t, i)
    /\ \A t \in Files : LET i == IdOf(t) IN
         /\ brain[i] # None
         /\ brain[i].deleted \/ Shows(t, i) \/ \E u \in Files \ {t} : IdOf(u) = i

=============================================================================
