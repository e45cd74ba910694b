------------------------------- MODULE Blobs -------------------------------
(***************************************************************************)
(* A space's attachments: uploads over content-addressed storage with a    *)
(* budget, notes that reference blobs by hash, and the mark-and-sweep      *)
(* collection (putBlob and gcBlobs of hub.ts, the blob routes of http.ts). *)
(* Nothing here takes a lock: an action is what runs between two awaits of *)
(* the store.  A hash is the blob it is the hash of.                       *)
(***************************************************************************)
EXTENDS Naturals, FiniteSetsExt

CONSTANTS
  Hashes,
  Size,         \* Size[h]
  Pages,        \* the notes that may reference blobs
  Uploads,      \* requests, each one upload at a time
  MaxBlobBytes, \* the limit of one blob
  BlobBudget,   \* the limit of a space
  MaxPuts       \* bound: uploads accepted or refused

ASSUME BlobsAssumption ==
  /\ Size \in [Hashes -> Nat]
  /\ IsFiniteSet(Uploads) /\ Uploads # {}
  /\ MaxBlobBytes \in Nat /\ BlobBudget \in Nat /\ MaxPuts \in Nat

VARIABLES
  blobs,     \* the stored hashes
  page,      \* page[n]: the note [row, draft, refs], or gone
  upload,    \* upload[u]: its place and blob
  gc,        \* the collection under way
  landed,    \* references whose write ended since gc listed the hashes
  puts

blobVars == <<blobs, page, upload, gc, landed, puts>>

\* `row`: the note has its row in the index.
NoPage == [row |-> FALSE, draft |-> FALSE, refs |-> {}, writing |-> FALSE]
NoUpload == [pc |-> "none", blob |-> {}]
NoGc == [pc |-> "none", hashes |-> {}, todo |-> {}, referenced |-> {}]

BlobsInit ==
  /\ blobs = {}
  /\ page = [n \in Pages |-> NoPage]
  /\ upload = [u \in Uploads |-> NoUpload]
  /\ gc = NoGc
  /\ landed = {}
  /\ puts = 0

Bytes(hs) == SumFunctionOnSet(Size, hs)

----------------------------------------------------------------------------
(* putBlob.                                                                *)

At(u, pc) == upload[u].pc = pc

\* Too large or empty: refused before anything is read.
Upload(u, h) ==
  /\ At(u, "none") /\ puts < MaxPuts
  /\ Size[h] \in 1 .. MaxBlobBytes
  /\ upload' = [upload EXCEPT ![u] = [pc |-> "has", blob |-> {h}]]
  /\ puts' = puts + 1
  /\ UNCHANGED <<blobs, page, gc, landed>>

\* A blob that is there already adds no bytes.
HasBlob(u) ==
  /\ At(u, "has")
  /\ upload' = [upload EXCEPT ![u].pc = IF upload[u].blob \subseteq blobs THEN "put" ELSE "budget"]
  /\ UNCHANGED <<blobs, page, gc, landed, puts>>

Fits_the_blob_alone(h) == Size[h] <= BlobBudget

\* The bytes stored by now, and the blob's.
Fits(h) == Bytes(blobs) + Size[h] <= BlobBudget

CheckBudget(u) ==
  /\ At(u, "budget")
  /\ IF \A h \in upload[u].blob : Fits(h)
     THEN upload' = [upload EXCEPT ![u].pc = "put"]
     ELSE upload' = [upload EXCEPT ![u] = NoUpload]
  /\ UNCHANGED <<blobs, page, gc, landed, puts>>

\* INSERT OR IGNORE.
PutBlob(u) ==
  /\ At(u, "put")
  /\ blobs' = blobs \cup upload[u].blob
  /\ upload' = [upload EXCEPT ![u].pc = "held"]
  /\ UNCHANGED <<page, gc, landed, puts>>

----------------------------------------------------------------------------
(* Notes.  A write changes the document, then the index.                   *)

\* The uploader writes the hash it was given into a note.
WritePage(u, n, draft) ==
  /\ At(u, "held") /\ ~page[n].writing
  /\ page' = [page EXCEPT ![n].refs = @ \cup upload[u].blob, ![n].writing = TRUE,
                          ![n].draft = @ \/ draft]
  /\ upload' = [upload EXCEPT ![u] = NoUpload]
  /\ UNCHANGED <<blobs, gc, landed, puts>>

IndexPage(n) ==
  /\ page[n].writing
  /\ page' = [page EXCEPT ![n].writing = FALSE, ![n].row = TRUE]
  /\ landed' = landed \cup {<<n, h>> : h \in page[n].refs}
  /\ UNCHANGED <<blobs, upload, gc, puts>>

\* Deleting a note, or purging it, does not touch the blobs.
DropPage(n) ==
  /\ page[n].row /\ ~page[n].writing
  /\ page' = [page EXCEPT ![n] = NoPage]
  /\ UNCHANGED <<blobs, upload, gc, landed, puts>>

----------------------------------------------------------------------------
(* gcBlobs: the hashes, then the notes, then each note's text, then the    *)
(* deletions.                                                              *)

GcList ==
  /\ gc.pc = "none" /\ blobs # {}
  /\ gc' = [NoGc EXCEPT !.pc = "notes", !.hashes = blobs]
  /\ landed' = {}
  /\ UNCHANGED <<blobs, page, upload, puts>>

Listed_for_discovery == {n \in Pages : page[n].row /\ ~page[n].draft}

\* listNodes, with the drafts and practically without a limit.
Listed == {n \in Pages : page[n].row}

GcNotes ==
  /\ gc.pc = "notes"
  /\ gc' = [gc EXCEPT !.pc = "scan", !.todo = Listed]
  /\ UNCHANGED <<blobs, page, upload, landed, puts>>

GcScan(n) ==
  /\ gc.pc = "scan" /\ n \in gc.todo
  /\ gc' = [gc EXCEPT !.todo = @ \ {n}, !.referenced = @ \cup page[n].refs]
  /\ UNCHANGED <<blobs, page, upload, landed, puts>>

Unreferenced == gc.hashes \ gc.referenced

GcDelete(h) ==
  /\ gc.pc = "scan" /\ gc.todo = {} /\ h \in Unreferenced
  /\ blobs' = blobs \ {h}
  /\ gc' = [gc EXCEPT !.hashes = @ \ {h}]
  /\ UNCHANGED <<page, upload, landed, puts>>

GcEnd ==
  /\ gc.pc = "scan" /\ gc.todo = {} /\ Unreferenced = {}
  /\ gc' = NoGc
  /\ UNCHANGED <<blobs, page, upload, landed, puts>>

\* DELETE /blobs/:hash, by an admin.
DeleteBlob(h) ==
  /\ h \in blobs
  /\ blobs' = blobs \ {h}
  /\ UNCHANGED <<page, upload, gc, landed, puts>>

BlobsNext ==
  \/ \E u \in Uploads :
       \/ \E h \in Hashes : Upload(u, h)
       \/ HasBlob(u) \/ CheckBudget(u) \/ PutBlob(u)
       \/ \E n \in Pages, draft \in BOOLEAN : WritePage(u, n, draft)
  \/ \E n \in Pages : IndexPage(n) \/ DropPage(n) \/ GcScan(n)
  \/ \E h \in Hashes : GcDelete(h) \/ DeleteBlob(h)
  \/ GcList \/ GcNotes \/ GcEnd

BlobsSpec == BlobsInit /\ [][BlobsNext]_blobVars

BlobsTypeOK ==
  /\ blobs \subseteq Hashes
  /\ page \in [Pages -> [row : BOOLEAN, draft : BOOLEAN, refs : SUBSET Hashes, writing : BOOLEAN]]
  /\ upload \in [Uploads -> [pc : {"none", "has", "budget", "put", "held"},
                             blob : SUBSET Hashes]]
  /\ gc \in [pc : {"none", "notes", "scan"}, hashes : SUBSET Hashes,
             todo : SUBSET Pages, referenced : SUBSET Hashes]

\* "We over-keep, never over-delete": a blob the collection is about to delete
\* is referenced by no note, but by those whose write ended during it.  (That
\* exception is real: the blob may have been uploaded before, or again since.)
GcSafe == \A n \in Pages, h \in Hashes :
  /\ gc.pc = "scan" /\ gc.todo = {} /\ h \in Unreferenced
  /\ page[n].row /\ h \in page[n].refs /\ ~page[n].writing
  => <<n, h>> \in landed

\* Uploads that pass the check together pass the budget, but by no more than
\* a blob for each of them beside the first.  This holds whatever is deleted
\* between a check, or the finding that a blob is there and needs none, and
\* the store, and then again: the blobs about to be stored count already.
BudgetKept ==
  LET coming == UNION {upload[u].blob : u \in {v \in Uploads : At(v, "put")}} IN
  Bytes(blobs \cup coming) <= BlobBudget + (Cardinality(Uploads) - 1) * MaxBlobBytes
=============================================================================
