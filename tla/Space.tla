------------------------------- MODULE Space -------------------------------
(***************************************************************************)
(* The parts of a space around its notes' documents (HubDoc and Cluster    *)
(* have those): the gates of the write routes, the derived index, the      *)
(* revert, the attachments, the retrieval of a context, the text diff, the *)
(* rate limiter and the vault sync.  They share no state that one of them  *)
(* writes and another reads within the steps modelled here, so a behaviour *)
(* is about one part, `part`, and the others stay as they began.           *)
(***************************************************************************)
EXTENDS NoteGates, DerivedIndex, Revert, Blobs, Retrieval, TextDiff, RateLimiter, VaultSync

CONSTANT Parts  \* the parts to look at

ASSUME SpaceAssumption ==
  Parts \subseteq {"gates", "index", "revert", "blobs", "retrieval", "diff", "limiter", "vault"}

VARIABLE part

spaceVars == <<part, gateVars, indexVars, revertVars, blobVars, retrievalVars, diffVars,
               limiterVars, vaultVars>>

SpaceInit ==
  /\ part \in Parts
  /\ GatesInit /\ IndexInit /\ RevertInit /\ BlobsInit
  /\ RetrievalInit /\ DiffInit /\ LimiterInit /\ VaultInit

SpaceNext ==
  /\ UNCHANGED part
  /\ \/ /\ part = "gates" /\ GatesNext
        /\ UNCHANGED <<indexVars, revertVars, blobVars, retrievalVars, diffVars, limiterVars, vaultVars>>
     \/ /\ part = "index" /\ IndexNext
        /\ UNCHANGED <<gateVars, revertVars, blobVars, retrievalVars, diffVars, limiterVars, vaultVars>>
     \/ /\ part = "revert" /\ RevertNext
        /\ UNCHANGED <<gateVars, indexVars, blobVars, retrievalVars, diffVars, limiterVars, vaultVars>>
     \/ /\ part = "blobs" /\ BlobsNext
        /\ UNCHANGED <<gateVars, indexVars, revertVars, retrievalVars, diffVars, limiterVars, vaultVars>>
     \/ /\ part = "retrieval" /\ RetrievalNext
        /\ UNCHANGED <<gateVars, indexVars, revertVars, blobVars, diffVars, limiterVars, vaultVars>>
     \/ /\ part = "diff" /\ DiffNext
        /\ UNCHANGED <<gateVars, indexVars, revertVars, blobVars, retrievalVars, limiterVars, vaultVars>>
     \/ /\ part = "limiter" /\ LimiterNext
        /\ UNCHANGED <<gateVars, indexVars, revertVars, blobVars, retrievalVars, diffVars, vaultVars>>
     \/ /\ part = "vault" /\ VaultNext
        /\ UNCHANGED <<gateVars, indexVars, revertVars, blobVars, retrievalVars, diffVars, limiterVars>>

SpaceSpec == SpaceInit /\ [][SpaceNext]_spaceVars

\* The variables of the part looked at are of their types.
TypeOK ==
  CASE part = "gates" -> GatesTypeOK
    [] part = "index" -> IndexTypeOK
    [] part = "revert" -> RevertTypeOK
    [] part = "blobs" -> BlobsTypeOK
    [] part = "retrieval" -> RetrievalTypeOK
    [] part = "limiter" -> LimiterTypeOK
    [] part = "vault" -> VaultTypeOK
    [] part = "diff" -> edited \in {oldText, newText}
=============================================================================
