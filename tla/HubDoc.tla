------------------------------- MODULE HubDoc -------------------------------
(***************************************************************************)
(* SpaceHub's document lifecycle (brain/src/hub.ts): the resident cache    *)
(* `docs` with its LRU eviction, the load guard `loading`, the per-note    *)
(* write lock, and the handlers that run over them: open and sync1 (lock   *)
(* free), a WS update with its gate and roll-back, the agent policy that   *)
(* follows it, an HTTP edit, hard purge, shutdown, and a crash.            *)
(*                                                                         *)
(* Granularity: JavaScript runs to the next await, so an action is the     *)
(* code from one store call (or one await of another routine) to the next. *)
(* A store call takes effect in the action that makes it; what follows the *)
(* await is a later action, and anything may happen in between.  A store's *)
(* answer that is only recorded (the seq of an append, the reset of        *)
(* sinceSnap after a save) is recorded in the action of the call.  A save  *)
(* is two actions where it holds no lock: the document and its seq are     *)
(* captured in one, and reach the store in the other (`saves`).            *)
(*                                                                         *)
(* A DocState is an object that outlives its entry in `docs`: a handler    *)
(* that holds one keeps it when the map drops or replaces it.  `heap`      *)
(* holds the objects and docs, loading and req refer to them.              *)
(*                                                                         *)
(* Each client runs one handler at a time (conn.tail).  Abstracted: roles  *)
(* (canRead and canWrite hold), the WS rate limit, the graph index beyond  *)
(* the existence of a note's row, and failing store calls.                 *)
(***************************************************************************)
EXTENDS NoteStore, FiniteSets, SequencesExt

CONSTANTS
  Notes, Clients,
  Agents,         \* clients whose principal is an agent (auth.kind)
  Capped,         \* clients whose writes may be rejected (mayReject)
  Objs,           \* DocState objects: enough that one is always free
  None,
  MaxLoadedDocs,  \* cap on resident documents, 0 = unlimited
  SnapshotEvery,  \* updates to a document between two snapshots
  MaxNotes,       \* the space's note quota, 0 = unlimited
  MaxSends,       \* bound: updates one client makes
  Workload        \* the operations the environment uses

Operations ==
  {"edit", "secret", "patch", "delete", "open", "purge", "crash", "shutdown"}

ASSUME HubAssumption ==
  /\ None \notin Notes \cup Clients \cup Objs
  /\ Agents \subseteq Clients /\ Capped \subseteq Clients
  /\ MaxLoadedDocs \in Nat /\ MaxNotes \in Nat /\ MaxSends \in Nat
  /\ SnapshotEvery \in Nat \ {0}
  /\ Cardinality(Objs) > 3 * Cardinality(Notes) + 2 * Cardinality(Clients) + 1
  /\ Workload \subseteq Operations

\* An edit's kind is what the hub's decisions tell apart: over the socket
\* ("edit"), with a secret in it, over HTTP ("patch"), the tombstone
\* (meta.deleted), and the draft tag the hub adds.
Kinds == {"edit", "secret", "patch", "delete", "draft"}
Delta == [by : Clients, n : 1 .. MaxSends, kind : Kinds]

VARIABLES
  files,     \* the store: files[k] is the snapshot and log of note k
  nodes,     \* the store: notes with a row in the derived index
  nextSeq,   \* the store: the next AUTOINCREMENT seq
  docs,      \* docs[k]: the resident DocState of note k, or None
  lru,       \* the keys of docs in Map insertion order, coldest first
  heap,      \* the DocState objects
  loading,   \* loading[k]: the in-flight load of note k
  lock,      \* lock[k]: the client whose handler holds note k's lock
  req,       \* req[c]: the handler client c is in
  open,      \* open[c]: the notes client c's connection has open
  sent,      \* sent[c]: updates client c has made
  stopping,  \* a graceful shutdown has begun: snapshotAll is running
  flushed,   \* the notes snapshotAll is done with
  saves,     \* snapshots captured with no lock held, on their way to the store
  got,       \* got[c][k]: the deltas client c has made or was sent
  synced,    \* synced[c]: notes for which c was answered a sync1 it sent after open
  fanned,    \* fanned[k]: deltas of k sent in `update` frames
  denied     \* deltas answered with an error frame

store == <<files, nodes, nextSeq>>
cache == <<docs, lru, heap, loading>>
flushing == <<stopping, flushed, saves>>
seen  == <<got, synced, fanned, denied>>
vars  == <<files, nodes, nextSeq, docs, lru, heap, loading, lock, req, open,
           sent, stopping, flushed, saves, got, synced, fanned, denied>>

DocState == [content : SUBSET Delta, lastSeq : Nat, sinceSnap : Nat]
FreshState_never_filled(content) == [content |-> {}, lastSeq |-> 0, sinceSnap |-> 0]
FreshState(content) == [content |-> content, lastSeq |-> 0, sinceSnap |-> 0]

NoLoad == [stage |-> "none", content |-> {}, written |-> FALSE, obj |-> None,
           victim |-> None]
Loads == [stage : {"none", "read", "index", "evict", "drop"},
          content : SUBSET Delta, written : BOOLEAN, obj : Objs \cup {None},
          victim : Notes \cup {None}]

\* A save under way: for the load of note `by`, which evicts, or for
\* snapshotAll (None); the object it is of, and what was captured.
Saving == [by : Notes \cup {None}, note : Notes, obj : Objs, seq : Nat,
           content : SUBSET Delta]

\* A handler: where it is, the note and delta in hand, the path it came by,
\* what hasNote answered, the DocState getDoc returned last (ref), the one it
\* writes (st), the pre-image, and where it resumes after a load.
IdleReq == [pc |-> "idle", note |-> None, delta |-> None, via |-> "ws",
            existed |-> FALSE, ref |-> None, st |-> None, before |-> {},
            then |-> "idle"]
Places == {"idle", "wait", "opened", "reply", "checked", "apply", "inspect",
           "judge", "unindex", "routed", "patch", "edit", "append", "index",
           "snapshot", "fanout", "enforce", "purged"}
Requests == [pc : Places, note : Notes \cup {None}, delta : Delta \cup {None},
             via : {"ws", "http", "policy"}, existed : BOOLEAN,
             ref : Objs \cup {None}, st : Objs \cup {None},
             before : SUBSET Delta, then : Places]

Secret(content)  == \E d \in content : d.kind = "secret"
Deleted(content) == \E d \in content : d.kind = "delete"
Draft(content)   == \E d \in content : d.kind = "draft"

Init ==
  /\ files = [k \in Notes |-> EmptyFile]
  /\ nodes = {}
  /\ nextSeq = 1
  /\ docs = [k \in Notes |-> None]
  /\ lru = <<>>
  /\ heap = [o \in Objs |-> FreshState({})]
  /\ loading = [k \in Notes |-> NoLoad]
  /\ lock = [k \in Notes |-> None]
  /\ req = [c \in Clients |-> IdleReq]
  /\ open = [c \in Clients |-> {}]
  /\ sent = [c \in Clients |-> 0]
  /\ stopping = FALSE
  /\ flushed = {}
  /\ saves = {}
  /\ got = [c \in Clients |-> [k \in Notes |-> {}]]
  /\ synced = [c \in Clients |-> {}]
  /\ fanned = [k \in Notes |-> {}]
  /\ denied = {}

----------------------------------------------------------------------------
(* The resident cache.                                                     *)

\* Map.delete: a key is in the order at most once.
Without(order, k) ==
  IF \E i \in DOMAIN order : order[i] = k
  THEN RemoveAt(order, CHOOSE i \in DOMAIN order : order[i] = k)
  ELSE order

\* Map.delete then Map.set: the key moves to the most recent end.
Touched(order, k) == Append(Without(order, k), k)

\* snapshotAll iterates over the live map: a key moved to the end, or added
\* there, is visited (again).
Requeue(k) == flushed' = flushed \ {k} /\ UNCHANGED <<stopping, saves>>

\* The objects something still refers to; the rest are garbage.
Live == {docs[k] : k \in Notes} \cup {loading[k].obj : k \in Notes}
          \cup {req[c].ref : c \in Clients} \cup {req[c].st : c \in Clients}
          \cup {s.obj : s \in saves}
Free == Objs \ Live

\* evictColdDocs goes on while the map is over its cap, but never past `keep`.
MustEvict(order, keep) ==
  /\ MaxLoadedDocs > 0
  /\ Len(order) > MaxLoadedDocs
  /\ Head(order) # keep

\* getDoc of note r.note by client c, whose handler becomes r: a resident
\* document is touched and returned, an in-flight load is joined, and
\* otherwise a load starts with the store's answer.
GetDoc(c, r) ==
  LET k == r.note IN
  \/ /\ docs[k] # None
     /\ lru' = Touched(lru, k)
     /\ Requeue(k)
     /\ req' = [req EXCEPT ![c] = [r EXCEPT !.ref = docs[k]]]
     /\ UNCHANGED loading
  \/ /\ docs[k] = None
     /\ req' = [req EXCEPT ![c] = [r EXCEPT !.pc = "wait", !.then = r.pc]]
     /\ loading' = IF loading[k].stage # "none" THEN loading
                   ELSE [loading EXCEPT ![k] =
                          [NoLoad EXCEPT !.stage = "read",
                                         !.content = Loaded(files[k]),
                                         !.written = ~NeverWritten(files[k])]]
     /\ UNCHANGED <<lru, flushing>>

Awaits(c, k) == req[c].pc = "wait" /\ req[c].note = k

Resume_only_one(k, o) ==
  LET first == CHOOSE c \in Clients : Awaits(c, k) IN
  [req EXCEPT ![first] = [req[first] EXCEPT !.pc = req[first].then, !.ref = o]]

\* The load of k resolves with object o: everyone awaiting it goes on.
Resume(k, o) ==
  [c \in Clients |->
     IF Awaits(c, k)
     THEN [req[c] EXCEPT !.pc = req[c].then, !.ref = o] ELSE req[c]]

\* The load of k is past its reindex, with `order` the map's order: it
\* enters evictColdDocs when it must, and resolves otherwise.
EvictOrResolve(k, o, order) ==
  IF MustEvict(order, k)
  THEN /\ loading' = [loading EXCEPT ![k] = 
                                     [@ EXCEPT !.stage = "evict", !.obj = o,
                                               !.victim = None]]
       /\ UNCHANGED req
  ELSE /\ loading' = [loading EXCEPT ![k] = NoLoad]
       /\ req' = Resume(k, o)

\* loadDoc has answered: build the document, make it resident, and reindex a
\* note that has been written before.
Install(k) ==
  LET o == CHOOSE x \in Free : TRUE
      order == Touched(lru, k) IN
  /\ loading[k].stage = "read"
  /\ Free # {}
  /\ heap' = [heap EXCEPT ![o] = FreshState(loading[k].content)]
  /\ docs' = [docs EXCEPT ![k] = o]
  /\ lru' = order
  /\ Requeue(k)
  /\ IF loading[k].written
     THEN /\ loading' = [loading EXCEPT ![k] = [@ EXCEPT !.stage = "index", !.obj = o]]
          /\ UNCHANGED req
     ELSE EvictOrResolve(k, o, order)
  /\ UNCHANGED <<store, lock, open, sent, seen>>

\* The node's row, as a document with this content has it.
Reindexed(k, content) == IF Deleted(content) THEN nodes \ {k} ELSE nodes \cup {k}

\* The reindex of a load, from the content it had when it started.
LoadIndex(k) ==
  /\ loading[k].stage = "index"
  /\ nodes' = Reindexed(k, loading[k].content)
  /\ EvictOrResolve(k, loading[k].obj, lru)
  /\ UNCHANGED <<files, nextSeq, docs, lru, heap, lock, open, sent, flushing, seen>>

\* snapshot(), with no lock held: what the DocState of note k holds, and the
\* seq it is up to, are captured when saveSnapshot is called.
Save(by, k, o) ==
  saves' = saves \cup {[by |-> by, note |-> k, obj |-> o,
                        seq |-> heap[o].lastSeq, content |-> heap[o].content]}

\* The store's transaction: it compares no seq, so it replaces whatever was
\* saved since the capture.
Saved(s) ==
  /\ files' = [files EXCEPT ![s.note] = Compacted(@, s.seq, s.content)]
  /\ heap' = [heap EXCEPT ![s.obj].sinceSnap = 0]
  /\ saves' = saves \ {s}
  /\ UNCHANGED <<nodes, nextSeq, docs, lru, loading, lock, req, open, sent,
                 stopping, flushed, seen>>

AwaitsSave(by) == \E s \in saves : s.by = by

\* evictColdDocs takes the coldest document: one with updates its snapshot
\* lacks is written first, and dropped when the store has answered.
EvictWrite(k) ==
  LET v == Head(lru)
      st == heap[docs[v]] IN
  /\ loading[k].stage = "evict"
  /\ MustEvict(lru, k)
  /\ st.lastSeq > 0 /\ st.sinceSnap > 0
  /\ Save(k, v, docs[v])
  /\ loading' = [loading EXCEPT ![k] = [@ EXCEPT !.stage = "drop", !.victim = v]]
  /\ UNCHANGED <<store, docs, lru, heap, lock, req, open, sent, stopping, flushed, seen>>

\* docs.delete(v) in the load of k: by key, whatever object is there by now.
Evict(k, v) ==
  LET order == Without(lru, v) IN
  /\ docs' = [docs EXCEPT ![v] = None]
  /\ lru' = order
  /\ EvictOrResolve(k, loading[k].obj, order)
  /\ UNCHANGED <<store, heap, lock, open, sent, flushing, seen>>

EvictClean(k) ==
  /\ loading[k].stage = "evict"
  /\ MustEvict(lru, k)
  /\ ~(heap[docs[Head(lru)]].lastSeq > 0 /\ heap[docs[Head(lru)]].sinceSnap > 0)
  /\ Evict(k, Head(lru))

EvictWritten(k) ==
  /\ loading[k].stage = "drop"
  /\ ~AwaitsSave(k)
  /\ Evict(k, loading[k].victim)

EvictNone_never_resolves(k) ==
  /\ loading[k].stage = "evict"
  /\ ~MustEvict(lru, k)
  /\ loading' = [loading EXCEPT ![k] = NoLoad]
  /\ UNCHANGED <<store, docs, lru, heap, lock, req, open, sent, flushing, seen>>

\* Handlers ran while the eviction waited, and nothing is left to evict.
EvictNone(k) ==
  /\ loading[k].stage = "evict"
  /\ ~MustEvict(lru, k)
  /\ EvictOrResolve(k, loading[k].obj, lru)
  /\ UNCHANGED <<store, docs, lru, heap, lock, open, sent, flushing, seen>>

----------------------------------------------------------------------------
(* Reading: open and sync1.  Neither takes the lock.                       *)

Idle(c) == req[c].pc = "idle"

Open(c, k) ==
  /\ "open" \in Workload
  /\ Idle(c)
  /\ GetDoc(c, [IdleReq EXCEPT !.pc = "opened", !.note = k])
  /\ UNCHANGED <<store, docs, heap, lock, open, sent, seen>>

Opened(c) ==
  /\ req[c].pc = "opened"
  /\ open' = [open EXCEPT ![c] = @ \cup {req[c].note}]
  /\ req' = [req EXCEPT ![c] = IdleReq]
  /\ UNCHANGED <<store, cache, lock, sent, flushing, seen>>

\* A client sends sync1 after the open of the same note, on the same socket.
Sync1(c, k) ==
  /\ Idle(c)
  /\ k \in open[c]
  /\ GetDoc(c, [IdleReq EXCEPT !.pc = "reply", !.note = k])
  /\ UNCHANGED <<store, docs, heap, lock, open, sent, seen>>

\* sync2 with everything the document has and the client lacks.
Reply(c) ==
  LET k == req[c].note IN
  /\ req[c].pc = "reply"
  /\ got' = [got EXCEPT ![c][k] = @ \cup heap[req[c].ref].content]
  /\ synced' = [synced EXCEPT ![c] = @ \cup {k}]
  /\ req' = [req EXCEPT ![c] = IdleReq]
  /\ UNCHANGED <<store, cache, lock, open, sent, flushing, fanned, denied>>

----------------------------------------------------------------------------
(* Writing.  An update and a purge hold the note's lock from their first   *)
(* step to their last: what waits for the lock has not started yet.        *)

Lock_not_exclusive(c, k) == lock' = [lock EXCEPT ![k] = c]
Lock(c, k) == lock[k] = None /\ lock' = [lock EXCEPT ![k] = c]

\* c's handler ends, and the next in the lock's chain may start.
Release(c) ==
  /\ lock' = [lock EXCEPT ![req[c].note] = None]
  /\ req' = [req EXCEPT ![c] = IdleReq]

Goto(c, pc) == req' = [req EXCEPT ![c].pc = pc]

\* The handler goes on in place pc with the document of its note.
WithDoc(c, pc) == GetDoc(c, [req[c] EXCEPT !.pc = pc])

NextDelta(c, kind) == [by |-> c, n |-> sent[c] + 1, kind |-> kind]

\* A client makes an update to its replica and sends it.
Make(c, k, d) ==
  /\ Idle(c)
  /\ sent[c] < MaxSends
  /\ sent' = [sent EXCEPT ![c] = @ + 1]
  /\ got' = [got EXCEPT ![c][k] = @ \cup {d}]

QuotaExceeded == MaxNotes > 0 /\ Cardinality(nodes) >= MaxNotes

\* applyClientDelta enters the lock: hasNote, and the quota for a new note.
Update(c, k, d) ==
  /\ Make(c, k, d)
  /\ k \in nodes \/ ~QuotaExceeded
  /\ Lock(c, k)
  /\ req' = [req EXCEPT ![c] = [IdleReq EXCEPT
               !.pc = "checked", !.note = k, !.delta = d, !.existed = k \in nodes]]
  /\ UNCHANGED <<store, cache, open, flushing, synced, fanned, denied>>

UpdateOverQuota(c, k, d) ==
  /\ Make(c, k, d)
  /\ k \notin nodes /\ QuotaExceeded
  /\ lock[k] = None
  /\ denied' = denied \cup {d}
  /\ UNCHANGED <<store, cache, lock, req, open, flushing, synced, fanned>>

SendUpdate(c, k) ==
  \E kind \in {"edit", "secret"} \cap Workload :
    \/ Update(c, k, NextDelta(c, kind))
    \/ UpdateOverQuota(c, k, NextDelta(c, kind))

UpdateLoad(c) ==
  /\ req[c].pc = "checked"
  /\ WithDoc(c, "apply")
  /\ UNCHANGED <<store, docs, heap, lock, open, sent, seen>>

\* The pre-image that a roll-back restores, captured before the delta.
PreDeltaState_captured_late(c) == heap[req[c].ref].content \cup {req[c].delta}
PreDeltaState(c) == heap[req[c].ref].content

\* Y.applyUpdate, after the pre-image when the write may be rejected.
Apply(c) ==
  LET st == req[c].ref IN
  /\ req[c].pc = "apply"
  /\ heap' = [heap EXCEPT ![st].content = @ \cup {req[c].delta}]
  /\ req' = [req EXCEPT ![c] =
       IF c \in Capped
       THEN [@ EXCEPT !.pc = "inspect", !.st = st, !.before = PreDeltaState(c)]
       ELSE [@ EXCEPT !.pc = "append", !.st = st]]
  /\ UNCHANGED <<store, docs, lru, loading, lock, open, sent, flushing, seen>>

\* writeViolation fetches the document again, by its key.
Inspect(c) ==
  /\ req[c].pc = "inspect"
  /\ WithDoc(c, "judge")
  /\ UNCHANGED <<store, docs, heap, lock, open, sent, seen>>

\* A hard gate's verdict on the fetched document ("secret" stands for what
\* any of the gates refuses).
Accept(c) ==
  /\ req[c].pc = "judge"
  /\ ~Secret(heap[req[c].ref].content)
  /\ Goto(c, "append")
  /\ UNCHANGED <<store, cache, lock, open, sent, flushing, seen>>

\* rollbackWrite: the pre-image becomes the DocState's document, or a note
\* that did not exist leaves the map.
Reject(c) ==
  LET k == req[c].note IN
  /\ req[c].pc = "judge"
  /\ Secret(heap[req[c].ref].content)
  /\ IF req[c].existed
     THEN /\ heap' = [heap EXCEPT ![req[c].st].content = req[c].before]
          /\ UNCHANGED <<docs, lru>>
     ELSE /\ docs' = [docs EXCEPT ![k] = None]
          /\ lru' = Without(lru, k)
          /\ UNCHANGED heap
  /\ Goto(c, "unindex")
  /\ UNCHANGED <<store, loading, lock, open, sent, flushing, seen>>

Deny_answers_after_reset(c) ==
  LET k == req[c].note IN
  /\ req[c].pc = "unindex"
  /\ nodes' = IF req[c].existed THEN Reindexed(k, req[c].before) ELSE nodes \ {k}
  /\ Release(c)
  /\ denied' = denied \cup {req'[c].delta}
  /\ UNCHANGED <<files, nextSeq, cache, open, sent, flushing, got, synced, fanned>>

\* The index is rolled back too, and the client is answered with an error.
Deny(c) ==
  LET k == req[c].note IN
  /\ req[c].pc = "unindex"
  /\ nodes' = IF req[c].existed THEN Reindexed(k, req[c].before) ELSE nodes \ {k}
  /\ denied' = denied \cup {req[c].delta}
  /\ Release(c)
  /\ UNCHANGED <<files, nextSeq, cache, open, sent, flushing, got, synced, fanned>>

\* The PATCH and DELETE routes, for a note with a row: each reads the note
\* before patchNote or deleteNote takes the lock.  An agent's HTTP edit carries
\* its draft tag itself, and is left out; so is the read that makes the answer.
Http(c, k) ==
  \E kind \in {"patch", "delete"} \cap Workload :
    /\ c \notin Agents
    /\ k \in nodes
    /\ Idle(c)
    /\ sent[c] < MaxSends
    /\ sent' = [sent EXCEPT ![c] = @ + 1]
    /\ GetDoc(c, [IdleReq EXCEPT !.pc = "routed", !.note = k, !.via = "http",
                                !.delta = NextDelta(c, kind)])
    /\ UNCHANGED <<store, docs, heap, lock, open, seen>>

LocalLock(c) ==
  /\ req[c].pc = "routed"
  /\ Lock(c, req[c].note)
  /\ Goto(c, "patch")
  /\ UNCHANGED <<store, cache, open, sent, flushing, seen>>

\* _applyLocalEdit: load, then edit the document under origin "http".
LocalLoad(c) ==
  /\ req[c].pc = "patch"
  /\ WithDoc(c, "edit")
  /\ UNCHANGED <<store, docs, heap, lock, open, sent, seen>>

LocalEdit(c) ==
  LET st == req[c].ref IN
  /\ req[c].pc = "edit"
  /\ heap' = [heap EXCEPT ![st].content = @ \cup {req[c].delta}]
  /\ req' = [req EXCEPT ![c].pc = "append", ![c].st = st]
  /\ UNCHANGED <<store, docs, lru, loading, lock, open, sent, flushing, seen>>

\* commit, from here to FanOut.  The append is an action of its own, since
\* an asynchronous store performs it some time after the call.
AppendLog(c) ==
  /\ req[c].pc = "append"
  /\ files' = [files EXCEPT ![req[c].note] = Appended(@, nextSeq, req[c].delta)]
  /\ nextSeq' = nextSeq + 1
  /\ heap' = [heap EXCEPT ![req[c].st].lastSeq = nextSeq]
  /\ Goto(c, "index")
  /\ UNCHANGED <<nodes, docs, lru, loading, lock, open, sent, flushing, seen>>

Index(c) ==
  LET st == heap[req[c].st] IN
  /\ req[c].pc = "index"
  /\ nodes' = Reindexed(req[c].note, st.content)
  /\ heap' = [heap EXCEPT ![req[c].st].sinceSnap = @ + 1]
  /\ Goto(c, IF st.sinceSnap + 1 >= SnapshotEvery THEN "snapshot" ELSE "fanout")
  /\ UNCHANGED <<files, nextSeq, docs, lru, loading, lock, open, sent, flushing, seen>>

\* The snapshot of a commit is captured under the lock, where nobody else
\* changes the DocState before the store has it: one action.
Snapshot(c) ==
  LET st == req[c].st IN
  /\ req[c].pc = "snapshot"
  /\ files' = [files EXCEPT ![req[c].note] =
                 Compacted(@, heap[st].lastSeq, heap[st].content)]
  /\ heap' = [heap EXCEPT ![st].sinceSnap = 0]
  /\ Goto(c, "fanout")
  /\ UNCHANGED <<nodes, nextSeq, docs, lru, loading, lock, open, sent, flushing, seen>>

Audience_never_the_sender(c) ==
  {x \in Clients : req[c].note \in open[x] /\ x # c}

\* `update` frames to the other connections that have the note open; a
\* handler on behalf of the hub itself spares nobody.
Audience(c) ==
  {x \in Clients : req[c].note \in open[x] /\ ~(x = c /\ req[c].via = "ws")}

FanOut(c) ==
  LET k == req[c].note
      d == req[c].delta IN
  /\ req[c].pc = "fanout"
  /\ got' = [x \in Clients |->
              IF x \in Audience(c) THEN [got[x] EXCEPT ![k] = @ \cup {d}] ELSE got[x]]
  /\ fanned' = [fanned EXCEPT ![k] = @ \cup {d}]
  /\ IF req[c].via = "ws"
     THEN Goto(c, "enforce") /\ UNCHANGED lock
     ELSE Release(c)
  /\ UNCHANGED <<store, cache, open, sent, flushing, synced, denied>>

NeedsDraft_only_when_new(c) ==
  LET k == req[c].note IN
  /\ c \in Agents
  /\ ~req[c].existed
  /\ docs[k] # None
  /\ ~Deleted(heap[docs[k]].content)
  /\ ~Draft(heap[docs[k]].content)

\* enforceAgentWrite reads `docs` without loading: nothing to do when the
\* note is not resident, is deleted, is not an agent's or is a draft already.
NeedsDraft(c) ==
  LET k == req[c].note IN
  /\ c \in Agents
  /\ docs[k] # None
  /\ ~Deleted(heap[docs[k]].content)
  /\ ~Draft(heap[docs[k]].content)

EnforceNothing(c) ==
  /\ req[c].pc = "enforce"
  /\ ~NeedsDraft(c)
  /\ Release(c)
  /\ UNCHANGED <<store, cache, open, sent, flushing, seen>>

Enforce(c) ==
  /\ req[c].pc = "enforce"
  /\ NeedsDraft(c)
  /\ req' = [req EXCEPT ![c].pc = "patch", ![c].via = "policy",
                        ![c].delta.kind = "draft"]
  /\ UNCHANGED <<store, cache, lock, open, sent, flushing, seen>>

\* purgeNote: the store's transaction, then docs.delete.
Purge(c, k) ==
  /\ "purge" \in Workload
  /\ Idle(c)
  /\ Lock(c, k)
  /\ files' = [files EXCEPT ![k] = Purged(@)]
  /\ nodes' = nodes \ {k}
  /\ fanned' = [fanned EXCEPT ![k] = {}]
  /\ req' = [req EXCEPT ![c] = [IdleReq EXCEPT !.pc = "purged", !.note = k]]
  /\ UNCHANGED <<nextSeq, cache, open, sent, flushing, got, synced, denied>>

PurgeEvict_forgotten(c) ==
  /\ req[c].pc = "purged"
  /\ Release(c)
  /\ UNCHANGED <<store, cache, open, sent, flushing, seen>>

PurgeEvict(c) ==
  /\ req[c].pc = "purged"
  /\ docs' = [docs EXCEPT ![req[c].note] = None]
  /\ lru' = Without(lru, req[c].note)
  /\ Release(c)
  /\ UNCHANGED <<store, heap, loading, open, sent, flushing, seen>>

----------------------------------------------------------------------------
(* The process: a crash at any moment, and the graceful shutdown.          *)

\* A new process over the same store; its clients come back with nothing.  A
\* save under way has reached the store or never does.
Restart ==
  /\ docs' = [k \in Notes |-> None]
  /\ lru' = <<>>
  /\ heap' = [o \in Objs |-> FreshState({})]
  /\ loading' = [k \in Notes |-> NoLoad]
  /\ lock' = [k \in Notes |-> None]
  /\ req' = [c \in Clients |-> IdleReq]
  /\ open' = [c \in Clients |-> {}]
  /\ stopping' = FALSE
  /\ flushed' = {}
  /\ saves' = {}
  /\ got' = [c \in Clients |-> [k \in Notes |-> {}]]
  /\ synced' = [c \in Clients |-> {}]
  /\ UNCHANGED <<store, sent, fanned, denied>>

Crash == "crash" \in Workload /\ Restart

Shutdown ==
  /\ "shutdown" \in Workload
  /\ ~stopping
  /\ stopping' = TRUE
  /\ UNCHANGED <<store, cache, lock, req, open, sent, flushed, saves, seen>>

Unflushed == {k \in Notes : docs[k] # None} \ flushed

\* One turn of snapshotAll's loop, when the save of the last one is over;
\* handlers go on running beside it.
Flush(k) ==
  /\ stopping /\ ~AwaitsSave(None)
  /\ k \in Unflushed
  /\ flushed' = flushed \cup {k}
  /\ IF heap[docs[k]].lastSeq > 0 THEN Save(None, k, docs[k]) ELSE UNCHANGED saves
  /\ UNCHANGED <<store, cache, lock, req, open, sent, stopping, seen>>

Exit == stopping /\ ~AwaitsSave(None) /\ Unflushed = {} /\ Restart

----------------------------------------------------------------------------
Start(c) ==
  \E k \in Notes :
    Open(c, k) \/ Sync1(c, k) \/ SendUpdate(c, k) \/ Http(c, k) \/ Purge(c, k)

\* What c's handler does next, once started.
Step(c) ==
  \/ Opened(c) \/ Reply(c)
  \/ UpdateLoad(c) \/ Apply(c) \/ Inspect(c) \/ Accept(c) \/ Reject(c) \/ Deny(c)
  \/ LocalLock(c) \/ LocalLoad(c) \/ LocalEdit(c)
  \/ AppendLog(c) \/ Index(c) \/ Snapshot(c) \/ FanOut(c)
  \/ EnforceNothing(c) \/ Enforce(c)
  \/ PurgeEvict(c)

Load(k) ==
  \/ Install(k) \/ LoadIndex(k)
  \/ EvictWrite(k) \/ EvictClean(k) \/ EvictWritten(k) \/ EvictNone(k)

Next ==
  \/ \E c \in Clients : Start(c) \/ Step(c)
  \/ \E k \in Notes : Load(k) \/ Flush(k)
  \/ \E s \in saves : Saved(s)
  \/ Crash \/ Shutdown \/ Exit

Spec == Init /\ [][Next]_vars

\* A pending promise is settled in the end: the event loop and the store
\* make progress on every started handler and every load.  Nothing says
\* that a client starts anything.
Fairness ==
  /\ \A c \in Clients : WF_vars(Step(c))
  /\ \A k \in Notes : WF_vars(Load(k))
  /\ WF_vars(\E s \in saves : Saved(s))

FairSpec == Spec /\ Fairness

----------------------------------------------------------------------------
(* Properties.                                                             *)

\* The type invariant of the hub's state.
TypeOK ==
  /\ files \in [Notes -> File(Delta)]
  /\ nodes \subseteq Notes
  /\ nextSeq \in Nat \ {0}
  /\ docs \in [Notes -> Objs \cup {None}]
  /\ lru \in Seq(Notes)
  /\ heap \in [Objs -> DocState]
  /\ loading \in [Notes -> Loads]
  /\ lock \in [Notes -> Clients \cup {None}]
  /\ req \in [Clients -> Requests]
  /\ open \in [Clients -> SUBSET Notes]
  /\ sent \in [Clients -> 0 .. MaxSends]
  /\ stopping \in BOOLEAN
  /\ flushed \subseteq Notes
  /\ saves \subseteq Saving
  /\ got \in [Clients -> [Notes -> SUBSET Delta]]
  /\ synced \in [Clients -> SUBSET Notes]
  /\ fanned \in [Notes -> SUBSET Delta]
  /\ denied \subseteq Delta

\* What a fresh process would load of note k.
Stored(k) == Loaded(files[k])

\* No handler is inside a write or a purge of note k.
Quiet(k) == lock[k] = None

\* Between two writes the resident document of a note is the document its
\* snapshot and log make: rehydration would return the same one, and a
\* handler that finds it resident misses nothing (getDoc, commit).
ResidentExact ==
  \A k \in Notes :
    Quiet(k) /\ docs[k] # None => heap[docs[k]].content = Stored(k)

\* Where c's handler is, or where the load it awaits takes it.
Place(c) == IF req[c].pc = "wait" THEN req[c].then ELSE req[c].pc

\* c is in a handler that runs under the lock of its note.
Writing(c) == Place(c) \notin {"idle", "opened", "reply", "routed"}

\* Two handlers are never inside the write section of one note together:
\* withDocLock makes apply, gate, roll-back and commit atomic per note
\* (ARCHITECTURE.md 3.2), also while one of them awaits a load.
OneWriterPerNote ==
  \A c, x \in Clients :
    c # x /\ Writing(c) /\ Writing(x) => req[c].note # req[x].note

\* A write answered with an error is in no snapshot and no log: the gates
\* roll an applied delta back before it is persisted (applyClientDelta,
\* ARCHITECTURE.md 3.2).
RejectedNotDurable ==
  \A k \in Notes : denied \cap Stored(k) = {}

\* A write answered with an error never reached another client, by fan-out
\* or by a sync2 (applyClientDelta's comment: nothing rejected is fanned out).
RejectedNeverServed ==
  \A c \in Clients, k \in Notes :
    \A d \in denied \cap got[c][k] : d.by = c

\* Fan-out follows the append, and whatever was fanned out stays durable
\* through compaction, eviction and restarts, until the note is purged
\* (docs/specs/02-crdt-sync.md, 6: Durability).
FannedIsDurable ==
  \A k \in Notes : fanned[k] \subseteq Stored(k)

\* A step never takes a delta out of what a fresh process would load, unless
\* it purges the note: compaction and eviction lose nothing (evictColdDocs,
\* saveSnapshot).
NothingLost ==
  [][\A k \in Notes : Stored(k) \subseteq Stored(k)' \/ NeverWritten(files'[k])]_vars

\* Beside a graceful shutdown a delta is still only taken out of the store by
\* a save that was captured before the store's snapshot was, or by a purge: a
\* save that overtakes nothing keeps every row appended since its capture
\* (snapshotAll, saveSnapshot).
OnlyLateSavesLose ==
  [][\A k \in Notes :
       \/ Stored(k) \subseteq Stored(k)'
       \/ NeverWritten(files'[k])
       \/ \E s \in saves : s.note = k /\ s.seq < files[k].seq]_vars

\* Whatever a shutdown's save does to the store, the resident document has
\* every delta a fresh process would load: nobody is answered with less than
\* what is stored (getDoc, snapshotAll).
ResidentLacksNothing ==
  \A k \in Notes :
    docs[k] # None => Stored(k) \subseteq heap[docs[k]].content

\* A client that opened a note and then exchanged sync1 for sync2 has, while
\* no write is under way, every delta the store has: open before sync1 leaves
\* no gap between the sync2 and the updates that follow (handle, commit).
NoGap ==
  \A c \in Clients : \A k \in synced[c] :
    Quiet(k) => Stored(k) \subseteq got[c][k]

\* A note an agent has written to over the socket, and that is not deleted,
\* carries the draft tag once the write is over (enforceAgentWrite).
AgentNotesGated ==
  \A k \in Notes :
    Quiet(k) /\ (\E d \in Stored(k) : d.by \in Agents) =>
      Draft(Stored(k)) \/ Deleted(Stored(k))

\* Every handler ends and gives the lock back, whatever it joins, waits for
\* or is refused.
HandlersEnd ==
  /\ \A c \in Clients : ~Idle(c) ~> Idle(c)
  /\ \A k \in Notes : lock[k] # None ~> Quiet(k)

\* What enters the store of a note is the delta of the handler that holds
\* its lock, nothing an older document or an in-flight load brings back: a
\* purged note is not rehydrated (purgeNote; docs/specs/09-next-steps.md, N5).
OnlyTheWriterPersists ==
  [][\A k \in Notes :
       Stored(k)' \subseteq
         Stored(k) \cup {req[c].delta : c \in {x \in Clients : lock[k] = x}}]_vars

\* What the hub promises of a note: an ever-growing set of deltas of which
\* only durable ones are shown to others.
Log == INSTANCE NoteLog WITH
         note <- [k \in Notes |-> Stored(k)], shown <- fanned
LogSpec == Log!Spec

=============================================================================
