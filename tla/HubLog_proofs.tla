---------------------------- MODULE HubLog_proofs ----------------------------
(***************************************************************************)
(* What HubDoc promises of a note's deltas, for every number of notes,     *)
(* clients and updates: the resident document is the stored one, what was  *)
(* shown is durable, what was refused is not stored, and the hub           *)
(* implements NoteLog.  HubDoc_proofs has the types and the lock these     *)
(* proofs rest on.                                                         *)
(***************************************************************************)
EXTENDS HubDoc_proofs

\* The hubs these theorems are about.  Each condition is one that a run of
\* HubDoc shows to be needed: evictions beside handlers and purges beside
\* loads lose or bring back deltas, the late save of a shutdown overwrites a
\* newer snapshot, and a refusal beside the reindex of a load leaves the
\* refused text in the document that the load returns.
NoEviction ==
  \/ MaxLoadedDocs = 0
  \/ IsFiniteSet(Notes) /\ Cardinality(Notes) <= MaxLoadedDocs
Calm ==
  /\ NoEviction
  /\ Workload \cap {"purge", "shutdown"} = {}
  /\ Capped # {} => Workload \cap {"delete", "crash"} = {}

----------------------------------------------------------------------------
(* The invariant.                                                          *)

\* In the document, not yet in the log; in the log, not yet fanned out.
Applied == {"inspect", "judge", "append"}
Logged == {"index", "snapshot", "fanout"}
Unjudged == {"checked", "apply", "inspect", "judge", "unindex"}

\* The deltas of the handlers that are at these places with note k.
InHand(k, places) ==
  {req[c].delta : c \in {x \in Clients : req[x].note = k /\ At(req[x]) \in places}}

\* The log keeps only rows after the snapshot, and no seq is from the future.
FileGood(k) ==
  /\ files[k].seq < nextSeq
  /\ \A u \in files[k].updates : files[k].seq < u.seq
  /\ files[k].seq = 0 => files[k].state = {}

\* A resident document is the stored one and what its writer has applied.
DocGood(k) ==
  /\ docs[k] # None => heap[docs[k]].content = Stored(k) \cup InHand(k, Applied)
  /\ \A j \in Notes : docs[k] # None /\ docs[k] = docs[j] => k = j

\* A load that has yet to install its document has read what is stored.
LoadGood(k) ==
  /\ loading[k].stage \in {"none", "read", "index"}
  /\ loading[k].stage # "none" => loading[k].content \subseteq Stored(k)
  /\ loading[k].stage = "read" =>
       /\ docs[k] = None
       /\ Stored(k) \subseteq loading[k].content
       /\ loading[k].written = ~NeverWritten(files[k])
  /\ loading[k].stage = "index" => docs[k] = loading[k].obj

\* A writer works on the resident document, and what it has logged is stored.
WriterGood(c) ==
  LET r == req[c] IN
  /\ At(r) # "purged"
  /\ At(r) \in Applied \cup Logged => docs[r.note] = r.st
  /\ At(r) = "enforce" => docs[r.note] # None
  /\ r.pc \in {"apply", "judge", "edit"} => docs[r.note] = r.ref
  /\ r.pc = "wait" => r.then # "judge"
  /\ At(r) \in Logged => r.delta \in Stored(r.note) /\ heap[r.st].lastSeq > 0
  /\ At(r) \in {"inspect", "judge", "unindex"} =>
       c \in Capped /\ r.before = Stored(r.note)

ExactInv ==
  /\ \A o \in Objs : heap[o].lastSeq < nextSeq
  /\ \A k \in Notes : FileGood(k) /\ DocGood(k) /\ LoadGood(k)
  /\ \A c \in Clients : WriterGood(c)
  /\ ~stopping /\ saves = {}

\* Where writes are judged: nothing is a tombstone, what is stored has its row
\* or will have, and a note whose row the handler missed has nothing stored.
JudgedInv ==
  Capped # {} =>
    /\ \A k \in Notes :
         /\ \A d \in Stored(k) : d.kind # "delete"
         /\ ~NeverWritten(files[k]) =>
              \/ k \in nodes
              \/ \E c \in Clients : req[c].note = k /\ At(req[c]) = "index"
         /\ loading[k].stage = "index" => ~NeverWritten(files[k])
    /\ \A c \in Clients :
         /\ At(req[c]) \notin {"idle", "opened", "reply", "purged"} =>
              req[c].delta.kind # "delete"
         /\ At(req[c]) \in Unjudged /\ ~req[c].existed => NeverWritten(files[req[c].note])

----------------------------------------------------------------------------
(* What the operators of the model return.                                 *)

\* No key occurs twice, so there are no more resident documents than notes.
LEMMA NeverEvicts ==
  ASSUME NoEviction, NEW order \in Seq(Notes), Once(order), NEW k
  PROVE  ~MustEvict(order, k)
<1>1. CASE MaxLoadedDocs = 0
  BY <1>1 DEF MustEvict
<1>2. CASE IsFiniteSet(Notes) /\ Cardinality(Notes) <= MaxLoadedDocs
  <2> DEFINE f == [i \in 1 .. Len(order) |-> order[i]]
  <2>1. f \in Injection(1 .. Len(order), Notes)
    BY DEF Once, Injection, IsInjective
  <2>2. Cardinality(1 .. Len(order)) <= Cardinality(Notes)
    BY <1>2, <2>1, FS_Injection
  <2>3. Len(order) \in Nat /\ Cardinality(Notes) \in Nat
    BY <1>2, FS_CardinalityType
  <2> HIDE DEF f
  <2>4. Cardinality(1 .. Len(order)) = Len(order)
    <3> DEFINE n == Len(order)
    <3> HIDE DEF n
    <3>1. n \in Nat
      BY <2>3 DEF n
    <3>2. Cardinality(1 .. n) = IF 1 > n THEN 0 ELSE n - 1 + 1
      BY <3>1, FS_Interval
    <3>3. Cardinality(1 .. n) = n
      BY <3>1, <3>2
    <3> QED
      BY <3>3 DEF n
  <2> QED
    BY <1>2, <2>2, <2>3, <2>4, HubAssumption DEF MustEvict
<1> QED
  BY <1>1, <1>2 DEF NoEviction

\* A row under a fresh seq adds its delta to what a load returns.
LEMMA LoadedAppended ==
  ASSUME NEW f \in File(Delta), NEW s \in Nat, NEW d \in Delta, f.seq < s
  PROVE  /\ Loaded(Appended(f, s, d)) = Loaded(f) \cup {d}
         /\ ~NeverWritten(Appended(f, s, d))
<1> DEFINE g == Appended(f, s, d)
           row == [seq |-> s, delta |-> d]
<1>1. g.seq = f.seq /\ g.state = f.state /\ g.updates = f.updates \cup {row}
  BY DEF Appended, File
<1> HIDE DEF g
<1>2. LogTail(g) = LogTail(f) \cup {row}
  BY <1>1 DEF LogTail
<1>3. row.delta = d
  OBVIOUS
<1> HIDE DEF row
<1> QED
  BY <1>1, <1>2, <1>3 DEF Loaded, NeverWritten, g

\* A snapshot with all that was stored is what a load returns after it.
LEMMA LoadedCompacted ==
  ASSUME NEW f \in File(Delta), NEW s \in Nat, NEW content \in SUBSET Delta,
         \A u \in f.updates : f.seq < u.seq,
         Loaded(f) \subseteq content
  PROVE  Loaded(Compacted(f, s, content)) = content
<1> DEFINE g == Compacted(f, s, content)
<1>1. g.seq = s /\ g.state = content /\ g.updates = {u \in f.updates : u.seq > s}
  BY DEF Compacted, File
<1> HIDE DEF g
<1>2. \A u \in LogTail(g) : u.delta \in Loaded(f)
  BY <1>1 DEF LogTail, Loaded
<1> QED
  BY <1>1, <1>2 DEF Loaded, g

LEMMA LoadedType ==
  ASSUME TypeInv, NEW k \in Notes
  PROVE  Stored(k) \subseteq Delta
BY DEF TypeInv, TypeOK, Stored, File, Loaded, LogTail

\* The handler inside the write section of a note is alone there.
LEMMA InHandAlone ==
  ASSUME LockInv, NEW c \in Clients, InWrite(req[c]),
         NEW places, places \cap {"idle", "opened", "reply", "routed"} = {}
  PROVE  InHand(req[c].note, places) =
           IF At(req[c]) \in places THEN {req[c].delta} ELSE {}
<1>1. ASSUME NEW x \in Clients, req[x].note = req[c].note, At(req[x]) \in places
      PROVE  x = c
  BY <1>1, WritingIsInWrite DEF LockInv, InWrite
<1> QED
  BY <1>1 DEF InHand

LEMMA InHandNobody ==
  ASSUME LockInv, NEW k, NEW places, lock[k] \notin Clients,
         places \cap {"idle", "opened", "reply", "routed"} = {}
  PROVE  InHand(k, places) = {}
<1>1. ASSUME NEW x \in Clients, req[x].note = k, At(req[x]) \in places
      PROVE  FALSE
  BY <1>1, WritingIsInWrite DEF LockInv, InWrite
<1> QED
  BY <1>1 DEF InHand

----------------------------------------------------------------------------
(* What each step does to the handlers, the documents and the store.       *)

Others(c) == \A x \in Clients \ {c} : req'[x] = req[x]

\* r is r0 at another place: what it carries is the same.
SameWork(r, r0) ==
  /\ r.note = r0.note /\ r.delta = r0.delta /\ r.via = r0.via
  /\ r.existed = r0.existed /\ r.before = r0.before

\* getDoc returns the resident document or waits for a load of what is stored.
LEMMA GetDocEffect ==
  ASSUME TypeInv, NEW c \in Clients, NEW r \in Requests, GetDoc(c, r),
         r.note \in Notes, r.pc \in LoadPlaces
  PROVE  LET k == r.note IN
         /\ Others(c)
         /\ SameWork(req'[c], r) /\ req'[c].st = r.st /\ At(req'[c]) = r.pc
         /\ \/ /\ docs[k] # None /\ req'[c].pc = r.pc /\ req'[c].ref = docs[k]
               /\ loading' = loading
            \/ /\ docs[k] = None /\ req'[c].pc = "wait" /\ req'[c].then = r.pc
               /\ \/ loading' = loading /\ loading[k].stage # "none"
                  \/ /\ loading[k].stage = "none"
                     /\ \A j \in Notes \ {k} : loading'[j] = loading[j]
                     /\ loading'[k].stage = "read" /\ loading'[k].content = Stored(k)
                     /\ loading'[k].written = ~NeverWritten(files[k])
<1> DEFINE k == r.note
<1>0. TypeOK
  BY DEF TypeInv
<1>1. CASE /\ docs[k] # None
           /\ req' = [req EXCEPT ![c] = [r EXCEPT !.ref = docs[k]]]
           /\ UNCHANGED loading
  <2> DEFINE q == [r EXCEPT !.ref = docs[k]]
  <2>1. /\ q.pc = r.pc /\ q.ref = docs[k] /\ q.st = r.st /\ q.note = r.note
        /\ q.delta = r.delta /\ q.via = r.via /\ q.existed = r.existed
        /\ q.before = r.before
    BY DEF Requests
  <2>2. req'[c] = q /\ Others(c)
    BY <1>0, <1>1 DEF TypeOK, Others
  <2> HIDE DEF q
  <2> QED
    BY <1>1, <2>1, <2>2 DEF SameWork, At, LoadPlaces
<1>2. CASE /\ docs[k] = None
           /\ req' = [req EXCEPT ![c] = [r EXCEPT !.pc = "wait", !.then = r.pc]]
           /\ loading' = IF loading[k].stage # "none" THEN loading
                         ELSE [loading EXCEPT ![k] =
                                [NoLoad EXCEPT !.stage = "read",
                                               !.content = Loaded(files[k]),
                                               !.written = ~NeverWritten(files[k])]]
  <2> DEFINE q == [r EXCEPT !.pc = "wait", !.then = r.pc]
             new == [NoLoad EXCEPT !.stage = "read", !.content = Loaded(files[k]),
                                   !.written = ~NeverWritten(files[k])]
  <2>1. /\ q.pc = "wait" /\ q.then = r.pc /\ q.st = r.st /\ q.note = r.note
        /\ q.delta = r.delta /\ q.via = r.via /\ q.existed = r.existed
        /\ q.before = r.before
    BY DEF Requests
  <2>2. req'[c] = q /\ Others(c)
    BY <1>0, <1>2 DEF TypeOK, Others
  <2>3. /\ new.stage = "read" /\ new.content = Stored(k)
        /\ new.written = ~NeverWritten(files[k])
    BY DEF NoLoad, Stored
  <2>4. loading' = IF loading[k].stage # "none" THEN loading
                   ELSE [loading EXCEPT ![k] = new]
    BY <1>2
  <2> HIDE DEF q, new
  <2> QED
    BY <1>0, <1>2, <2>1, <2>2, <2>3, <2>4 DEF SameWork, At, TypeOK
<1> QED
  BY <1>1, <1>2 DEF GetDoc

\* A client starts a read, or an HTTP edit reads its note.
LEMMA ReadEffect ==
  ASSUME TypeInv, NEW c \in Clients, NEW k \in Notes,
         Open(c, k) \/ Sync1(c, k) \/ Http(c, k)
  PROVE  /\ At(req[c]) = "idle" /\ Others(c)
         /\ \E r \in Requests :
              /\ r.note = k /\ r.pc \in {"opened", "reply", "routed"}
              /\ r.pc = "reply" => k \in open[c]
              /\ r.pc = "routed" =>
                   /\ c \notin Agents /\ r.via = "http"
                   /\ \E kind \in {"patch", "delete"} \cap Workload :
                        r.delta = NextDelta(c, kind)
                   /\ sent[c] < MaxSends /\ sent' = [sent EXCEPT ![c] = @ + 1]
              /\ r.pc # "routed" => sent' = sent
              /\ GetDoc(c, r)
         /\ UNCHANGED <<store, docs, heap, lock, open, stopping, saves, seen>>
<1>1. At(req[c]) = "idle"
  BY DEF Open, Sync1, Http, Idle, At
<1>2. UNCHANGED <<store, docs, heap, lock, open, seen>>
  BY DEF Open, Sync1, Http
<1>3. \E r \in Requests :
        /\ r.note = k /\ r.pc \in {"opened", "reply", "routed"}
        /\ r.pc = "reply" => k \in open[c]
        /\ r.pc = "routed" =>
             /\ c \notin Agents /\ r.via = "http"
             /\ \E kind \in {"patch", "delete"} \cap Workload :
                  r.delta = NextDelta(c, kind)
             /\ sent[c] < MaxSends /\ sent' = [sent EXCEPT ![c] = @ + 1]
        /\ r.pc # "routed" => sent' = sent
        /\ GetDoc(c, r)
  <2>1. CASE Open(c, k) \/ Sync1(c, k)
    <3>1. PICK pc \in {"opened", "reply"} :
            /\ GetDoc(c, [IdleReq EXCEPT !.pc = pc, !.note = k])
            /\ sent' = sent
            /\ pc = "reply" => k \in open[c]
      BY <2>1 DEF Open, Sync1
    <3> DEFINE r == [IdleReq EXCEPT !.pc = pc, !.note = k]
    <3>2. r \in Requests /\ r.pc = pc /\ r.note = k
      BY DEF IdleReq, Requests, Places
    <3>3. GetDoc(c, r)
      BY <3>1
    <3> HIDE DEF r
    <3> QED
      BY <3>1, <3>2, <3>3
  <2>2. CASE Http(c, k)
    <3> DEFINE r(kind) == [IdleReq EXCEPT !.pc = "routed", !.note = k, !.via = "http",
                                          !.delta = NextDelta(c, kind)]
    <3>1. PICK kind \in {"patch", "delete"} \cap Workload :
            /\ c \notin Agents /\ sent[c] < MaxSends
            /\ sent' = [sent EXCEPT ![c] = @ + 1]
            /\ GetDoc(c, r(kind))
      BY <2>2 DEF Http
    <3>2. NextDelta(c, kind) \in Delta
      BY <3>1, NextDeltaType DEF Kinds
    <3>3. /\ r(kind) \in Requests /\ r(kind).pc = "routed" /\ r(kind).note = k
          /\ r(kind).via = "http" /\ r(kind).delta = NextDelta(c, kind)
      BY <3>2 DEF IdleReq, Requests, Places
    <3> HIDE DEF r
    <3> QED
      BY <3>1, <3>3
  <2> QED
    BY <2>1, <2>2
<1>4. Others(c) /\ stopping' = stopping /\ saves' = saves
  BY <1>3, GetDocEffect, GetDocShape DEF LoadPlaces
<1> QED
  BY <1>1, <1>2, <1>3, <1>4

\* A handler moves on with the same work and the same documents.
LEMMA GotoEffect ==
  ASSUME TypeInv, NEW c \in Clients, NEW pc \in Places \ {"wait"}, Goto(c, pc)
  PROVE  /\ Others(c) /\ SameWork(req'[c], req[c])
         /\ req'[c].st = req[c].st /\ req'[c].ref = req[c].ref
         /\ req'[c].pc = pc /\ At(req'[c]) = pc
<1> DEFINE r == [req[c] EXCEPT !.pc = pc]
<1>1. req[c] \in Requests
  BY DEF TypeInv, TypeOK
<1>2. /\ r.pc = pc /\ r.st = req[c].st /\ r.ref = req[c].ref /\ r.note = req[c].note
      /\ r.delta = req[c].delta /\ r.via = req[c].via /\ r.existed = req[c].existed
      /\ r.before = req[c].before
  BY <1>1 DEF Requests
<1>3. req' = [req EXCEPT ![c] = r]
  BY DEF Goto
<1> HIDE DEF r
<1>4. req'[c] = r /\ Others(c)
  BY <1>3 DEF Others, TypeInv, TypeOK
<1> QED
  BY <1>2, <1>4 DEF SameWork, At

\* A handler ends.
LEMMA EndEffect ==
  ASSUME TypeInv, NEW c \in Clients, req' = [req EXCEPT ![c] = IdleReq]
  PROVE  Others(c) /\ At(req'[c]) = "idle" /\ req'[c].pc = "idle"
<1>1. IdleReq.pc = "idle"
  BY DEF IdleReq
<1>2. Others(c) /\ req'[c] = IdleReq
  BY DEF Others, TypeInv, TypeOK
<1> QED
  BY <1>1, <1>2 DEF At

\* An update enters the lock, with or without a row for its note.
LEMMA UpdateEffect ==
  ASSUME TypeInv, NEW c \in Clients, NEW k \in Notes, NEW d, Update(c, k, d)
  PROVE  /\ At(req[c]) = "idle" /\ lock[k] = None /\ Others(c)
         /\ req'[c].pc = "checked" /\ At(req'[c]) = "checked"
         /\ req'[c].note = k /\ req'[c].delta = d /\ req'[c].via = "ws"
         /\ req'[c].existed = (k \in nodes)
         /\ sent' = [sent EXCEPT ![c] = @ + 1]
         /\ got' = [got EXCEPT ![c][k] = @ \cup {d}]
         /\ UNCHANGED <<store, cache, open, flushing, synced, fanned, denied>>
<1> DEFINE e == k \in nodes
           r == [IdleReq EXCEPT !.pc = "checked", !.note = k, !.delta = d, !.existed = e]
<1>1. req' = [req EXCEPT ![c] = r]
  BY DEF Update
<1> HIDE DEF e
<1>2. /\ r.pc = "checked" /\ r.note = k /\ r.delta = d /\ r.via = "ws"
      /\ r.existed = e
  BY DEF IdleReq
<1> HIDE DEF r
<1>3. req'[c] = r /\ Others(c)
  BY <1>1 DEF Others, TypeInv, TypeOK
<1> QED
  BY <1>2, <1>3 DEF Update, Make, Lock, Idle, At, e

\* A writer loads the document of its note.
LEMMA WriteLoadEffect ==
  ASSUME TypeInv, NEW c \in Clients, UpdateLoad(c) \/ Inspect(c) \/ LocalLoad(c)
  PROVE  LET k == req[c].note IN
         \E pc \in {"apply", "judge", "edit"} :
           /\ k \in Notes /\ Others(c)
           /\ At(req[c]) = req[c].pc
           /\ \/ pc = "apply" /\ req[c].pc = "checked"
              \/ pc = "judge" /\ req[c].pc = "inspect"
              \/ pc = "edit" /\ req[c].pc = "patch"
           /\ SameWork(req'[c], req[c]) /\ req'[c].st = req[c].st /\ At(req'[c]) = pc
           /\ \/ /\ docs[k] # None /\ req'[c].pc = pc /\ req'[c].ref = docs[k]
                 /\ loading' = loading
              \/ /\ docs[k] = None /\ req'[c].pc = "wait" /\ req'[c].then = pc
                 /\ \/ loading' = loading /\ loading[k].stage # "none"
                    \/ /\ loading[k].stage = "none"
                       /\ \A j \in Notes \ {k} : loading'[j] = loading[j]
                       /\ loading'[k].stage = "read" /\ loading'[k].content = Stored(k)
                       /\ loading'[k].written = ~NeverWritten(files[k])
           /\ UNCHANGED <<store, docs, heap, lock, open, sent, stopping, saves, seen>>
<1>1. PICK pc \in {"apply", "judge", "edit"} :
        /\ WithDoc(c, pc)
        /\ UNCHANGED <<store, docs, heap, lock, open, sent, seen>>
        /\ \/ pc = "apply" /\ req[c].pc = "checked"
           \/ pc = "judge" /\ req[c].pc = "inspect"
           \/ pc = "edit" /\ req[c].pc = "patch"
  BY DEF UpdateLoad, Inspect, LocalLoad
<1> DEFINE r == [req[c] EXCEPT !.pc = pc]
<1>2. req[c] \in Requests /\ HandlerShape(req[c]) /\ At(req[c]) = req[c].pc
  BY <1>1 DEF TypeInv, TypeOK, At
<1>3. /\ r \in Requests /\ r.pc = pc /\ r.note = req[c].note /\ r.st = req[c].st
      /\ r.delta = req[c].delta /\ r.via = req[c].via /\ r.existed = req[c].existed
      /\ r.before = req[c].before
  BY <1>2 DEF Requests, Places
<1>4. GetDoc(c, r)
  BY <1>1 DEF WithDoc
<1> HIDE DEF r
<1>5. req[c].note \in Notes
  BY <1>1, <1>2 DEF HandlerShape
<1>6. stopping' = stopping /\ saves' = saves
  BY <1>3, <1>4, <1>5, GetDocShape DEF LoadPlaces
<1> QED
  BY <1>1, <1>2, <1>3, <1>4, <1>5, <1>6, GetDocEffect DEF LoadPlaces, SameWork

\* The delta enters the document its handler holds.
LEMMA ApplyEffect ==
  ASSUME TypeInv, NEW c \in Clients, Apply(c) \/ LocalEdit(c)
  PROVE  LET o == req[c].ref IN
         /\ At(req[c]) = req[c].pc /\ req[c].pc \in {"apply", "edit"}
         /\ req[c].note \in Notes /\ req[c].delta \in Delta /\ o \in Objs
         /\ Others(c)
         /\ req'[c].note = req[c].note /\ req'[c].delta = req[c].delta
         /\ req'[c].via = req[c].via /\ req'[c].existed = req[c].existed
         /\ req'[c].st = o /\ At(req'[c]) = req'[c].pc
         /\ \/ req[c].pc = "edit" /\ req'[c].pc = "append"
            \/ req[c].pc = "apply" /\ c \notin Capped /\ req'[c].pc = "append"
            \/ /\ req[c].pc = "apply" /\ c \in Capped /\ req'[c].pc = "inspect"
               /\ req'[c].before = heap[o].content
         /\ \A x \in Objs : heap'[x].lastSeq = heap[x].lastSeq
         /\ \A x \in Objs \ {o} : heap'[x] = heap[x]
         /\ heap'[o].content = heap[o].content \cup {req[c].delta}
         /\ UNCHANGED <<store, docs, lru, loading, lock, open, sent, flushing, seen>>
<1> DEFINE o == req[c].ref
           r1 == [req[c] EXCEPT !.pc = "inspect", !.st = o, !.before = PreDeltaState(c)]
           r2 == [req[c] EXCEPT !.pc = "append", !.st = o]
           edited == [heap[o] EXCEPT !.content = @ \cup {req[c].delta}]
<1>1. req[c] \in Requests /\ HandlerShape(req[c]) /\ req[c].pc \in {"apply", "edit"}
  BY DEF TypeInv, TypeOK, Apply, LocalEdit
<1>2. /\ o \in Objs /\ req[c].delta \in Delta /\ req[c].note \in Notes
      /\ At(req[c]) = req[c].pc
  BY <1>1 DEF HandlerShape, At, LoadPlaces
<1>3. /\ r1.pc = "inspect" /\ r1.note = req[c].note /\ r1.delta = req[c].delta
      /\ r1.via = req[c].via /\ r1.existed = req[c].existed /\ r1.st = o
      /\ r1.before = heap[o].content
  BY <1>1 DEF Requests, PreDeltaState
<1>4. /\ r2.pc = "append" /\ r2.note = req[c].note /\ r2.delta = req[c].delta
      /\ r2.via = req[c].via /\ r2.existed = req[c].existed /\ r2.st = o
  BY <1>1 DEF Requests
<1>5. \/ req[c].pc = "edit" /\ req' = [req EXCEPT ![c] = r2]
      \/ req[c].pc = "apply" /\ c \notin Capped /\ req' = [req EXCEPT ![c] = r2]
      \/ req[c].pc = "apply" /\ c \in Capped /\ req' = [req EXCEPT ![c] = r1]
  BY DEF Apply, LocalEdit
<1>6. heap[o] \in DocState
  BY <1>2 DEF TypeInv, TypeOK
<1>7. edited.content = heap[o].content \cup {req[c].delta} /\ edited.lastSeq = heap[o].lastSeq
  BY <1>6 DEF DocState
<1>8. heap' = [heap EXCEPT ![o] = edited]
  BY DEF Apply, LocalEdit
<1> HIDE DEF r1, r2, edited
<1>9. /\ heap'[o] = edited /\ \A x \in Objs \ {o} : heap'[x] = heap[x]
  BY <1>2, <1>8 DEF TypeInv, TypeOK
<1>10. Others(c) /\ \A r : req' = [req EXCEPT ![c] = r] => req'[c] = r
  BY <1>5 DEF Others, TypeInv, TypeOK
<1>11. UNCHANGED <<store, docs, lru, loading, lock, open, sent, flushing, seen>>
  BY DEF Apply, LocalEdit
<1> QED
  BY <1>1, <1>2, <1>3, <1>4, <1>5, <1>7, <1>9, <1>10, <1>11 DEF At

\* A refused delta: the document has the pre-image again, or leaves the cache.
LEMMA RejectEffect ==
  ASSUME TypeInv, NEW c \in Clients, Reject(c)
  PROVE  LET k == req[c].note
             o == req[c].st IN
         /\ req[c].pc = "judge" /\ At(req[c]) = "judge" /\ k \in Notes /\ o \in Objs
         /\ Others(c) /\ SameWork(req'[c], req[c])
         /\ req'[c].pc = "unindex" /\ At(req'[c]) = "unindex"
         /\ \/ /\ req[c].existed /\ docs' = docs
               /\ \A x \in Objs : heap'[x].lastSeq = heap[x].lastSeq
               /\ \A x \in Objs \ {o} : heap'[x] = heap[x]
               /\ heap'[o].content = req[c].before
            \/ /\ ~req[c].existed /\ heap' = heap
               /\ docs'[k] = None /\ \A j \in Notes \ {k} : docs'[j] = docs[j]
         /\ UNCHANGED <<store, loading, lock, open, sent, flushing, seen>>
<1> DEFINE k == req[c].note
           o == req[c].st
           restored == [heap[o] EXCEPT !.content = req[c].before]
<1>1. /\ req[c].pc = "judge" /\ Goto(c, "unindex")
      /\ IF req[c].existed
         THEN heap' = [heap EXCEPT ![o] = restored] /\ docs' = docs
         ELSE docs' = [docs EXCEPT ![k] = None] /\ heap' = heap
      /\ UNCHANGED <<store, loading, lock, open, sent, flushing, seen>>
  BY DEF Reject
<1>2. At(req[c]) = "judge" /\ k \in Notes /\ o \in Objs /\ req[c].existed \in BOOLEAN
  BY <1>1 DEF At, TypeInv, TypeOK, HandlerShape, WritePlaces, Requests
<1>3. heap[o] \in DocState
  BY <1>2 DEF TypeInv, TypeOK
<1>4. restored.content = req[c].before /\ restored.lastSeq = heap[o].lastSeq
  BY <1>3 DEF DocState
<1>5. /\ Others(c) /\ SameWork(req'[c], req[c])
      /\ req'[c].pc = "unindex" /\ At(req'[c]) = "unindex"
  BY <1>1, GotoEffect DEF Places
<1> HIDE DEF restored
<1>6. CASE req[c].existed
  BY <1>1, <1>2, <1>4, <1>5, <1>6 DEF TypeInv, TypeOK
<1>7. CASE ~req[c].existed
  BY <1>1, <1>2, <1>5, <1>7 DEF TypeInv, TypeOK
<1> QED
  BY <1>6, <1>7

\* The delta's row, under a fresh seq.
LEMMA AppendEffect ==
  ASSUME TypeInv, NEW c \in Clients, AppendLog(c)
  PROVE  LET k == req[c].note
             o == req[c].st IN
         /\ req[c].pc = "append" /\ At(req[c]) = "append" /\ k \in Notes /\ o \in Objs
         /\ req[c].delta \in Delta
         /\ Others(c) /\ SameWork(req'[c], req[c]) /\ req'[c].st = o
         /\ req'[c].pc = "index" /\ At(req'[c]) = "index"
         /\ files'[k] = Appended(files[k], nextSeq, req[c].delta)
         /\ \A j \in Notes \ {k} : files'[j] = files[j]
         /\ nextSeq' = nextSeq + 1
         /\ heap'[o].lastSeq = nextSeq
         /\ \A x \in Objs \ {o} : heap'[x] = heap[x]
         /\ \A x \in Objs : heap'[x].content = heap[x].content
         /\ UNCHANGED <<nodes, docs, lru, loading, lock, open, sent, flushing, seen>>
<1> DEFINE k == req[c].note
           o == req[c].st
           logged == [heap[o] EXCEPT !.lastSeq = nextSeq]
<1>1. /\ req[c].pc = "append" /\ Goto(c, "index")
      /\ files' = [files EXCEPT ![k] = Appended(files[k], nextSeq, req[c].delta)]
      /\ nextSeq' = nextSeq + 1
      /\ heap' = [heap EXCEPT ![o] = logged]
      /\ UNCHANGED <<nodes, docs, lru, loading, lock, open, sent, flushing, seen>>
  BY DEF AppendLog
<1>2. At(req[c]) = "append" /\ k \in Notes /\ o \in Objs /\ req[c].delta \in Delta
  BY <1>1 DEF At, TypeInv, HandlerShape, WritePlaces
<1>3. heap[o] \in DocState
  BY <1>2 DEF TypeInv, TypeOK
<1>4. logged.content = heap[o].content /\ logged.lastSeq = nextSeq
  BY <1>3 DEF DocState
<1>5. /\ Others(c) /\ SameWork(req'[c], req[c]) /\ req'[c].st = o
      /\ req'[c].pc = "index" /\ At(req'[c]) = "index"
  BY <1>1, GotoEffect DEF Places
<1> HIDE DEF logged
<1> QED
  BY <1>1, <1>2, <1>4, <1>5 DEF TypeInv, TypeOK

\* The note's row, and the count of updates since the last snapshot.
LEMMA IndexEffect ==
  ASSUME TypeInv, NEW c \in Clients, Index(c)
  PROVE  LET k == req[c].note
             o == req[c].st IN
         /\ req[c].pc = "index" /\ At(req[c]) = "index" /\ k \in Notes /\ o \in Objs
         /\ Others(c) /\ SameWork(req'[c], req[c]) /\ req'[c].st = o
         /\ req'[c].pc \in {"snapshot", "fanout"} /\ At(req'[c]) = req'[c].pc
         /\ nodes' = Reindexed(k, heap[o].content)
         /\ \A x \in Objs : /\ heap'[x].content = heap[x].content
                            /\ heap'[x].lastSeq = heap[x].lastSeq
         /\ UNCHANGED <<files, nextSeq, docs, lru, loading, lock, open, sent, flushing, seen>>
<1> DEFINE k == req[c].note
           o == req[c].st
           pc == IF heap[o].sinceSnap + 1 >= SnapshotEvery THEN "snapshot" ELSE "fanout"
           counted == [heap[o] EXCEPT !.sinceSnap = @ + 1]
<1>1. /\ req[c].pc = "index" /\ Goto(c, pc)
      /\ nodes' = Reindexed(k, heap[o].content)
      /\ heap' = [heap EXCEPT ![o] = counted]
      /\ UNCHANGED <<files, nextSeq, docs, lru, loading, lock, open, sent, flushing, seen>>
  BY DEF Index
<1>2. At(req[c]) = "index" /\ k \in Notes /\ o \in Objs
  BY <1>1 DEF At, TypeInv, HandlerShape, WritePlaces
<1>3. heap[o] \in DocState
  BY <1>2 DEF TypeInv, TypeOK
<1>4. counted.content = heap[o].content /\ counted.lastSeq = heap[o].lastSeq
  BY <1>3 DEF DocState
<1>5. pc \in {"snapshot", "fanout"}
  OBVIOUS
<1> HIDE DEF counted, pc
<1>6. /\ Others(c) /\ SameWork(req'[c], req[c]) /\ req'[c].st = o
      /\ req'[c].pc = pc /\ At(req'[c]) = pc
  BY <1>1, <1>5, GotoEffect DEF Places
<1> QED
  BY <1>1, <1>2, <1>4, <1>5, <1>6 DEF TypeInv, TypeOK

\* The snapshot of a commit: what the writer's object holds.
LEMMA SnapshotEffect ==
  ASSUME TypeInv, NEW c \in Clients, Snapshot(c)
  PROVE  LET k == req[c].note
             o == req[c].st IN
         /\ req[c].pc = "snapshot" /\ At(req[c]) = "snapshot" /\ k \in Notes /\ o \in Objs
         /\ Others(c) /\ SameWork(req'[c], req[c]) /\ req'[c].st = o
         /\ req'[c].pc = "fanout" /\ At(req'[c]) = "fanout"
         /\ files'[k] = Compacted(files[k], heap[o].lastSeq, heap[o].content)
         /\ \A j \in Notes \ {k} : files'[j] = files[j]
         /\ \A x \in Objs : /\ heap'[x].content = heap[x].content
                            /\ heap'[x].lastSeq = heap[x].lastSeq
         /\ UNCHANGED <<nodes, nextSeq, docs, lru, loading, lock, open, sent, flushing, seen>>
<1> DEFINE k == req[c].note
           o == req[c].st
           saved == [heap[o] EXCEPT !.sinceSnap = 0]
<1>1. /\ req[c].pc = "snapshot" /\ Goto(c, "fanout")
      /\ files' = [files EXCEPT ![k] = Compacted(files[k], heap[o].lastSeq, heap[o].content)]
      /\ heap' = [heap EXCEPT ![o] = saved]
      /\ UNCHANGED <<nodes, nextSeq, docs, lru, loading, lock, open, sent, flushing, seen>>
  BY DEF Snapshot
<1>2. At(req[c]) = "snapshot" /\ k \in Notes /\ o \in Objs
  BY <1>1 DEF At, TypeInv, HandlerShape, WritePlaces
<1>3. heap[o] \in DocState
  BY <1>2 DEF TypeInv, TypeOK
<1>4. saved.content = heap[o].content /\ saved.lastSeq = heap[o].lastSeq
  BY <1>3 DEF DocState
<1> HIDE DEF saved
<1>5. /\ files'[k] = Compacted(files[k], heap[o].lastSeq, heap[o].content)
      /\ \A j \in Notes \ {k} : files'[j] = files[j]
      /\ \A x \in Objs : /\ heap'[x].content = heap[x].content
                         /\ heap'[x].lastSeq = heap[x].lastSeq
  BY <1>1, <1>2, <1>4 DEF TypeInv, TypeOK
<1> QED
  BY <1>1, <1>2, <1>5, GotoEffect DEF Places

\* The `update` frames, after which a socket's handler goes on to the policy.
LEMMA FanOutEffect ==
  ASSUME TypeInv, NEW c \in Clients, FanOut(c)
  PROVE  LET k == req[c].note
             d == req[c].delta IN
         /\ req[c].pc = "fanout" /\ At(req[c]) = "fanout" /\ k \in Notes /\ d \in Delta
         /\ Others(c)
         /\ \/ /\ req[c].via = "ws" /\ SameWork(req'[c], req[c])
               /\ req'[c].pc = "enforce" /\ At(req'[c]) = "enforce"
            \/ req[c].via # "ws" /\ At(req'[c]) = "idle" /\ req'[c].pc = "idle"
         /\ \A x \in Clients, j \in Notes :
              got'[x][j] = IF x \in Audience(c) /\ j = k
                           THEN got[x][j] \cup {d} ELSE got[x][j]
         /\ fanned' = [fanned EXCEPT ![k] = @ \cup {d}]
         /\ UNCHANGED <<store, cache, open, sent, flushing, synced, denied>>
<1>1. /\ req[c].pc = "fanout"
      /\ IF req[c].via = "ws" THEN Goto(c, "enforce") ELSE Release(c)
      /\ UNCHANGED <<store, cache, open, sent, flushing, synced, denied>>
      /\ fanned' = [fanned EXCEPT ![req[c].note] = @ \cup {req[c].delta}]
  BY DEF FanOut
<1>2. At(req[c]) = "fanout" /\ req[c].note \in Notes /\ req[c].delta \in Delta
  BY <1>1 DEF At, TypeInv, HandlerShape
<1>3. /\ Others(c)
      /\ \/ /\ req[c].via = "ws" /\ SameWork(req'[c], req[c])
            /\ req'[c].pc = "enforce" /\ At(req'[c]) = "enforce"
         \/ req[c].via # "ws" /\ At(req'[c]) = "idle" /\ req'[c].pc = "idle"
  BY <1>1, GotoEffect, EndEffect DEF Places, Release
<1>4. \A x \in Clients, j \in Notes :
        got'[x][j] = IF x \in Audience(c) /\ j = req[c].note
                     THEN got[x][j] \cup {req[c].delta} ELSE got[x][j]
  BY <1>2 DEF FanOut, TypeInv, TypeOK
<1> QED
  BY <1>1, <1>2, <1>3, <1>4

\* A socket's handler goes on to add the draft tag.
LEMMA EnforceEffect ==
  ASSUME TypeInv, NEW c \in Clients, Enforce(c)
  PROVE  /\ req[c].pc = "enforce" /\ At(req[c]) = "enforce" /\ req[c].note \in Notes
         /\ req[c].delta \in Delta /\ c \in Agents
         /\ Others(c) /\ req'[c].pc = "patch" /\ At(req'[c]) = "patch"
         /\ req'[c].note = req[c].note /\ req'[c].via = "policy"
         /\ req'[c].delta = [req[c].delta EXCEPT !.kind = "draft"]
         /\ UNCHANGED <<store, cache, lock, open, sent, flushing, seen>>
<1> DEFINE mark == [req[c].delta EXCEPT !.kind = "draft"]
           r == [req[c] EXCEPT !.pc = "patch", !.via = "policy", !.delta = mark]
<1>1. req[c] \in Requests /\ HandlerShape(req[c]) /\ req[c].pc = "enforce"
  BY DEF Enforce, TypeInv, TypeOK
<1>2. req[c].note \in Notes /\ req[c].delta \in Delta /\ At(req[c]) = "enforce"
  BY <1>1 DEF HandlerShape, At
<1>3. req' = [req EXCEPT ![c] = r]
  BY <1>1 DEF Enforce, TypeInv, TypeOK, Requests
<1> HIDE DEF mark
<1>4. r.pc = "patch" /\ r.note = req[c].note /\ r.delta = mark /\ r.via = "policy"
  BY <1>1 DEF Requests
<1> HIDE DEF r
<1>5. req'[c] = r /\ Others(c)
  BY <1>3 DEF Others, TypeInv, TypeOK
<1> QED
  BY <1>1, <1>2, <1>4, <1>5 DEF Enforce, NeedsDraft, At, mark

\* An HTTP edit takes the lock of its note.
LEMMA LocalLockEffect ==
  ASSUME TypeInv, NEW c \in Clients, LocalLock(c)
  PROVE  /\ req[c].pc = "routed" /\ At(req[c]) = "routed" /\ req[c].note \in Notes
         /\ lock[req[c].note] = None
         /\ Others(c) /\ SameWork(req'[c], req[c])
         /\ req'[c].pc = "patch" /\ At(req'[c]) = "patch"
         /\ UNCHANGED <<store, cache, open, sent, flushing, seen>>
<1>1. At(req[c]) = "routed" /\ req[c].note \in Notes
  BY DEF LocalLock, At, TypeInv, HandlerShape
<1> QED
  BY <1>1, GotoEffect DEF LocalLock, Lock, Places

\* The load of a note resolves: who awaits it goes on with its document.
LEMMA ResolveEffect ==
  ASSUME NoEviction, TypeInv, NEW k \in Notes, NEW o \in Objs,
         NEW order \in Seq(Notes), Once(order), EvictOrResolve(k, o, order)
  PROVE  /\ loading'[k].stage = "none"
         /\ \A j \in Notes \ {k} : loading'[j] = loading[j]
         /\ \A c \in Clients :
              /\ SameWork(req'[c], req[c]) /\ req'[c].st = req[c].st
              /\ At(req'[c]) = At(req[c])
              /\ \/ req'[c] = req[c] /\ ~Awaits(c, k)
                 \/ /\ Awaits(c, k) /\ req'[c].pc = req[c].then /\ req'[c].ref = o
                    /\ req[c].then \in LoadPlaces
<1>1. ~MustEvict(order, k)
  BY NeverEvicts
<1>2. loading' = [loading EXCEPT ![k] = NoLoad] /\ req' = Resume(k, o)
  BY <1>1 DEF EvictOrResolve
<1>3. loading'[k].stage = "none" /\ \A j \in Notes \ {k} : loading'[j] = loading[j]
  BY <1>2 DEF NoLoad, TypeInv, TypeOK
<1>4. ASSUME NEW c \in Clients
      PROVE  /\ SameWork(req'[c], req[c]) /\ req'[c].st = req[c].st
             /\ At(req'[c]) = At(req[c])
             /\ \/ req'[c] = req[c] /\ ~Awaits(c, k)
                \/ /\ Awaits(c, k) /\ req'[c].pc = req[c].then /\ req'[c].ref = o
                   /\ req[c].then \in LoadPlaces
  <2> DEFINE r == [req[c] EXCEPT !.pc = req[c].then, !.ref = o]
  <2>1. CASE Awaits(c, k)
    <3>1. req'[c] = r
      BY <1>2, <2>1 DEF Resume
    <3>2. req[c] \in Requests /\ HandlerShape(req[c]) /\ req[c].pc = "wait"
      BY <2>1 DEF Awaits, TypeInv, TypeOK
    <3>3. /\ r.pc = req[c].then /\ r.ref = o /\ r.st = req[c].st /\ r.note = req[c].note
          /\ r.delta = req[c].delta /\ r.via = req[c].via /\ r.existed = req[c].existed
          /\ r.before = req[c].before
      BY <3>2 DEF Requests
    <3>4. req[c].then \in LoadPlaces
      BY <3>2 DEF HandlerShape
    <3> HIDE DEF r
    <3> QED
      BY <2>1, <3>1, <3>2, <3>3, <3>4 DEF SameWork, At, LoadPlaces
  <2>2. CASE ~Awaits(c, k)
    BY <1>2, <2>2 DEF Resume, SameWork
  <2> QED
    BY <2>1, <2>2
<1> QED
  BY <1>3, <1>4

\* A load makes an object that nothing refers to the note's document.
LEMMA InstallEffect ==
  ASSUME NoEviction, TypeInv, NEW k \in Notes, Install(k)
  PROVE  /\ loading[k].stage = "read"
         /\ \E o \in Objs :
              /\ \A j \in Notes : docs[j] # o
              /\ \A c \in Clients : req[c].ref # o /\ req[c].st # o
              /\ docs'[k] = o /\ \A j \in Notes \ {k} : docs'[j] = docs[j]
              /\ heap'[o].content = loading[k].content /\ heap'[o].lastSeq = 0
              /\ \A x \in Objs \ {o} : heap'[x] = heap[x]
              /\ \A j \in Notes \ {k} : loading'[j] = loading[j]
              /\ \/ /\ loading[k].written /\ req' = req
                    /\ loading'[k].stage = "index" /\ loading'[k].obj = o
                    /\ loading'[k].content = loading[k].content
                 \/ loading'[k].stage = "none"
              /\ \A c \in Clients :
                   /\ SameWork(req'[c], req[c]) /\ req'[c].st = req[c].st
                   /\ At(req'[c]) = At(req[c])
                   /\ \/ req'[c] = req[c]
                      \/ /\ Awaits(c, k) /\ req'[c].pc = req[c].then /\ req'[c].ref = o
                         /\ req[c].then \in LoadPlaces
              /\ UNCHANGED <<store, lock, open, sent, stopping, saves, seen>>
<1> DEFINE o == CHOOSE x \in Free : TRUE
           order == Touched(lru, k)
           new == [loading[k] EXCEPT !.stage = "index", !.obj = o]
<1>1. o \in Free
  BY DEF Install
<1>2. /\ o \in Objs /\ \A j \in Notes : docs[j] # o
      /\ \A c \in Clients : req[c].ref # o /\ req[c].st # o
  BY <1>1 DEF Free, Live
<1>3. /\ loading[k].stage = "read"
      /\ heap' = [heap EXCEPT ![o] = FreshState(loading[k].content)]
      /\ docs' = [docs EXCEPT ![k] = o]
      /\ stopping' = stopping /\ saves' = saves
      /\ \/ /\ loading[k].written /\ loading' = [loading EXCEPT ![k] = new]
            /\ UNCHANGED req
         \/ EvictOrResolve(k, o, order)
      /\ UNCHANGED <<store, lock, open, sent, seen>>
  BY DEF Install, Requeue
<1>4. new.stage = "index" /\ new.obj = o /\ new.content = loading[k].content
  BY DEF TypeInv, TypeOK, Loads
<1>5. order \in Seq(Notes) /\ Once(order)
  BY TouchedOnce DEF TypeInv, TypeOK, OrderShape
<1> HIDE DEF o, new, order
<1>6. FreshState(loading[k].content).content = loading[k].content
      /\ FreshState(loading[k].content).lastSeq = 0
  BY DEF FreshState
<1>7. /\ docs'[k] = o /\ \A j \in Notes \ {k} : docs'[j] = docs[j]
      /\ heap'[o].content = loading[k].content /\ heap'[o].lastSeq = 0
      /\ \A x \in Objs \ {o} : heap'[x] = heap[x]
  BY <1>2, <1>3, <1>6 DEF TypeInv, TypeOK
<1>8. CASE loading[k].written /\ loading' = [loading EXCEPT ![k] = new] /\ UNCHANGED req
  <2>1. loading'[k] = new /\ \A j \in Notes \ {k} : loading'[j] = loading[j]
    BY <1>8 DEF TypeInv, TypeOK
  <2>2. \A c \in Clients : SameWork(req'[c], req[c]) /\ req'[c] = req[c]
    BY <1>8 DEF SameWork
  <2> QED
    BY <1>2, <1>3, <1>4, <1>7, <1>8, <2>1, <2>2
<1>9. CASE EvictOrResolve(k, o, order)
  BY <1>2, <1>3, <1>5, <1>7, <1>9, ResolveEffect
<1> QED
  BY <1>3, <1>8, <1>9

----------------------------------------------------------------------------
(* Resident documents are exact.                                           *)

\* The places of a write section.
LEMMA PlacesInWrite ==
  \A r : At(r) \in Applied \cup Logged \cup Unjudged \cup {"patch", "edit", "enforce", "purged"}
           => InWrite(r)
BY DEF Applied, Logged, Unjudged, InWrite

\* A handler's step touches its own note only.
LEMMA OwnNoteStep ==
  ASSUME TypeInv, TypeInv', ExactInv, NEW c \in Clients, NEW k \in Notes, Others(c),
         InWrite(req[c]) => req[c].note = k,
         InWrite(req'[c]) => req'[c].note = k,
         \A x \in Clients \ {c} : InWrite(req[x]) => req[x].note # k,
         nextSeq' \in {nextSeq, nextSeq + 1},
         \A j \in Notes \ {k} :
           files'[j] = files[j] /\ docs'[j] = docs[j] /\ loading'[j] = loading[j],
         docs'[k] \in {docs[k], None},
         \A o \in Objs : docs[k] # o =>
           heap'[o].content = heap[o].content /\ heap'[o].lastSeq = heap[o].lastSeq,
         \A o \in Objs : heap'[o].lastSeq < nextSeq',
         stopping' = stopping /\ saves' = saves,
         FileGood(k)', LoadGood(k)', WriterGood(c)',
         docs'[k] # None =>
           heap'[docs'[k]].content =
             Stored(k)' \cup IF At(req'[c]) \in Applied THEN {req'[c].delta} ELSE {}
  PROVE  ExactInv'
<1>0. nextSeq \in Nat /\ docs \in [Notes -> Objs \cup {None}]
  BY DEF TypeInv, TypeOK
<1>1. InHand(k, Applied)' = IF At(req'[c]) \in Applied THEN {req'[c].delta} ELSE {}
  <2>1. ASSUME NEW x \in Clients, req'[x].note = k, At(req'[x]) \in Applied
        PROVE  x = c
    BY <2>1, PlacesInWrite DEF Others
  <2>2. At(req'[c]) \in Applied => req'[c].note = k
    BY PlacesInWrite
  <2> QED
    BY <2>1, <2>2 DEF InHand
<1>2. ASSUME NEW j \in Notes \ {k}
      PROVE  FileGood(j)' /\ DocGood(j)' /\ LoadGood(j)'
  <2>1. InHand(j, Applied)' = InHand(j, Applied)
    <3>1. \A x \in Clients :
            req'[x].note = j /\ At(req'[x]) \in Applied => req'[x] = req[x]
      BY PlacesInWrite DEF Others
    <3>2. \A x \in Clients :
            req[x].note = j /\ At(req[x]) \in Applied => req'[x] = req[x]
      BY PlacesInWrite DEF Others
    <3> QED
      BY <3>1, <3>2 DEF InHand
  <2>2. Stored(j)' = Stored(j)
    BY DEF Stored
  <2>3. FileGood(j) /\ DocGood(j) /\ LoadGood(j) /\ files[j] \in File(Delta)
    BY DEF ExactInv, TypeInv, TypeOK
  <2>4. FileGood(j)'
    BY <1>0, <2>3 DEF FileGood, File
  <2>5. LoadGood(j)'
    BY <2>2, <2>3 DEF LoadGood
  <2>6. docs'[j] # None => heap'[docs'[j]].content = Stored(j)' \cup InHand(j, Applied)'
    BY <1>0, <2>1, <2>2, <2>3 DEF DocGood
  <2>7. \A i \in Notes : docs'[j] # None /\ docs'[j] = docs'[i] => j = i
    BY <2>3 DEF DocGood
  <2> QED
    BY <2>4, <2>5, <2>6, <2>7 DEF DocGood
<1>3. DocGood(k)'
  <2>1. docs'[k] # None => heap'[docs'[k]].content = Stored(k)' \cup InHand(k, Applied)'
    BY <1>1
  <2>2. \A j \in Notes : docs'[k] # None /\ docs'[k] = docs'[j] => k = j
    BY DEF ExactInv, DocGood
  <2> QED
    BY <2>1, <2>2 DEF DocGood
<1>4. ASSUME NEW x \in Clients \ {c}
      PROVE  WriterGood(x)'
  <2>1. req'[x] = req[x] /\ WriterGood(x) /\ HandlerShape(req[x])
    BY DEF Others, ExactInv, TypeInv
  <2>2. CASE InWrite(req[x])
    <3> DEFINE j == req[x].note
    <3>1. j \in Notes \ {k}
      BY <2>1, <2>2 DEF HandlerShape, InWrite
    <3>2. Stored(j)' = Loaded(files[j]) /\ docs'[j] = docs[j]
      BY <3>1, <2>1 DEF Stored
    <3>3. At(req[x]) \in Logged =>
            /\ req[x].st \in Objs /\ docs[j] = req[x].st /\ docs[k] # req[x].st
            /\ heap'[req[x].st].lastSeq = heap[req[x].st].lastSeq
      <4> SUFFICES ASSUME At(req[x]) \in Logged PROVE
            /\ req[x].st \in Objs /\ docs[j] = req[x].st /\ docs[k] # req[x].st
            /\ heap'[req[x].st].lastSeq = heap[req[x].st].lastSeq
        OBVIOUS
      <4>1. req[x].st \in Objs /\ docs[j] = req[x].st
        BY <2>1 DEF HandlerShape, WritePlaces, Logged, WriterGood
      <4>2. docs[j] # None /\ (docs[j] = docs[k] => j = k)
        BY <3>1, <4>1, HubAssumption DEF ExactInv, DocGood
      <4> QED
        BY <3>1, <4>1, <4>2
    <3>4. req'[x].note = j /\ Loaded(files'[j]) = Loaded(files[j])
      BY <2>1, <3>1
    <3> HIDE DEF j
    <3> QED
      BY <2>1, <3>2, <3>3, <3>4 DEF WriterGood, Stored, j
  <2>3. CASE ~InWrite(req[x])
    <3>1. At(req[x]) \notin Applied \cup Logged \cup {"enforce", "inspect", "judge", "unindex"}
      BY <2>3, PlacesInWrite DEF Unjudged
    <3>2. req[x].pc \notin {"apply", "judge", "edit"}
      BY <2>3 DEF InWrite, At
    <3> QED
      BY <2>1, <3>1, <3>2 DEF WriterGood
  <2> QED
    BY <2>2, <2>3
<1>5. (~stopping /\ saves = {})'
  BY DEF ExactInv
<1> QED
  BY <1>2, <1>3, <1>4, <1>5 DEF ExactInv

\* A step that leaves the documents and the store alone, by a handler that is
\* in no write section afterwards or only at its start.
LEMMA NoWriteStep ==
  ASSUME TypeInv, TypeInv', ExactInv, NEW c \in Clients, Others(c),
         UNCHANGED <<files, nextSeq, docs, heap, stopping, saves>>,
         At(req[c]) \notin Applied,
         At(req'[c]) \in {"idle", "opened", "reply", "routed", "checked", "patch"},
         req'[c].pc \notin {"apply", "judge", "edit"},
         req'[c].pc = "wait" => req'[c].then # "judge",
         \A k \in Notes : LoadGood(k)'
  PROVE  ExactInv'
<1>1. ASSUME NEW k \in Notes
      PROVE  FileGood(k)' /\ DocGood(k)'
  <2>1. InHand(k, Applied)' = InHand(k, Applied)
    BY DEF Others, InHand, Applied
  <2>2. FileGood(k) /\ DocGood(k)
    BY DEF ExactInv
  <2> QED
    BY <2>1, <2>2 DEF FileGood, DocGood, Stored
<1>2. ASSUME NEW x \in Clients PROVE WriterGood(x)'
  <2>1. CASE x = c
    BY <2>1 DEF WriterGood, Applied, Logged
  <2>2. CASE x # c
    BY <2>2 DEF Others, ExactInv, WriterGood, Stored
  <2> QED
    BY <2>1, <2>2
<1> QED
  BY <1>1, <1>2 DEF ExactInv

LEMMA WriterAlone ==
  ASSUME LockInv, NEW c \in Clients, InWrite(req[c])
  PROVE  \A x \in Clients \ {c} : InWrite(req[x]) => req[x].note # req[c].note
BY WritingIsInWrite DEF LockInv

\* A document in use by its writer, with what it has applied.
LEMMA WriterDoc ==
  ASSUME TypeInv, LockInv, ExactInv, NEW c \in Clients, InWrite(req[c]),
         docs[req[c].note] # None
  PROVE  heap[docs[req[c].note]].content =
           Stored(req[c].note) \cup IF At(req[c]) \in Applied THEN {req[c].delta} ELSE {}
<1>1. req[c].note \in Notes
  BY DEF TypeInv, HandlerShape, InWrite
<1>2. InHand(req[c].note, Applied) = IF At(req[c]) \in Applied THEN {req[c].delta} ELSE {}
  BY InHandAlone DEF Applied
<1> QED
  BY <1>1, <1>2 DEF ExactInv, DocGood

\* The loads as a getDoc leaves them.
LEMMA GetDocLoads ==
  ASSUME TypeInv, ExactInv, NEW k \in Notes, UNCHANGED <<files, docs>>,
         \/ loading' = loading
         \/ /\ docs[k] = None
            /\ \A j \in Notes \ {k} : loading'[j] = loading[j]
            /\ loading'[k].stage = "read" /\ loading'[k].content = Stored(k)
            /\ loading'[k].written = ~NeverWritten(files[k])
  PROVE  \A j \in Notes : LoadGood(j)'
<1> TAKE j \in Notes
<1>1. LoadGood(j) /\ Stored(j)' = Stored(j)
  BY DEF ExactInv, Stored
<1>2. CASE loading'[j] = loading[j]
  BY <1>1, <1>2 DEF LoadGood
<1>3. CASE /\ j = k /\ docs[k] = None
           /\ loading'[k].stage = "read" /\ loading'[k].content = Stored(k)
           /\ loading'[k].written = ~NeverWritten(files[k])
  BY <1>1, <1>3 DEF LoadGood
<1> QED
  BY <1>2, <1>3

LEMMA ReadExact ==
  ASSUME TypeInv, TypeInv', ExactInv, NEW c \in Clients, NEW k \in Notes,
         Open(c, k) \/ Sync1(c, k) \/ Http(c, k)
  PROVE  ExactInv'
<1>1. PICK r \in Requests :
        r.note = k /\ r.pc \in {"opened", "reply", "routed"} /\ GetDoc(c, r)
  BY ReadEffect
<1>2. At(req[c]) = "idle" /\ UNCHANGED <<files, nextSeq, docs, heap, stopping, saves>>
  BY ReadEffect DEF store
<1>3. /\ Others(c) /\ At(req'[c]) = r.pc
      /\ req'[c].pc = "wait" => req'[c].then = r.pc
      /\ req'[c].pc \in {r.pc, "wait"}
      /\ \A j \in Notes : LoadGood(j)'
  <2>1. /\ Others(c) /\ At(req'[c]) = r.pc
        /\ req'[c].pc = r.pc \/ (req'[c].pc = "wait" /\ req'[c].then = r.pc)
        /\ \/ loading' = loading
           \/ /\ docs[k] = None
              /\ \A j \in Notes \ {k} : loading'[j] = loading[j]
              /\ loading'[k].stage = "read" /\ loading'[k].content = Stored(k)
              /\ loading'[k].written = ~NeverWritten(files[k])
    BY <1>1, GetDocEffect DEF LoadPlaces
  <2> QED
    BY <1>1, <1>2, <2>1, GetDocLoads
<1> QED
  BY <1>1, <1>2, <1>3, NoWriteStep DEF Applied

LEMMA ReadEndExact ==
  ASSUME TypeInv, TypeInv', ExactInv, NEW c \in Clients, Opened(c) \/ Reply(c)
  PROVE  ExactInv'
<1>1. /\ At(req[c]) \in {"opened", "reply"} /\ req' = [req EXCEPT ![c] = IdleReq]
      /\ UNCHANGED <<files, nextSeq, docs, heap, loading, stopping, saves>>
  BY DEF Opened, Reply, At, store, cache, flushing
<1>2. Others(c) /\ At(req'[c]) = "idle" /\ req'[c].pc = "idle"
  BY <1>1, EndEffect
<1>3. \A j \in Notes : LoadGood(j)'
  BY <1>1, GetDocLoads
<1> QED
  BY <1>1, <1>2, <1>3, NoWriteStep DEF Applied

LEMMA UpdateExact ==
  ASSUME TypeInv, TypeInv', ExactInv, NEW c \in Clients, NEW k \in Notes, SendUpdate(c, k)
  PROVE  ExactInv'
<1>1. PICK d : Update(c, k, d) \/ UpdateOverQuota(c, k, d)
  BY DEF SendUpdate
<1>2. CASE Update(c, k, d)
  <2>1. /\ At(req[c]) = "idle" /\ Others(c)
        /\ req'[c].pc = "checked" /\ At(req'[c]) = "checked"
        /\ UNCHANGED <<files, nextSeq, docs, heap, loading, stopping, saves>>
    BY <1>2, UpdateEffect DEF store, cache, flushing
  <2>2. \A j \in Notes : LoadGood(j)'
    BY <2>1, GetDocLoads
  <2> QED
    BY <2>1, <2>2, NoWriteStep DEF Applied
<1>3. CASE UpdateOverQuota(c, k, d)
  <2>1. UNCHANGED <<files, nextSeq, docs, heap, loading, req, stopping, saves>>
    BY <1>3 DEF UpdateOverQuota, store, cache, flushing
  <2> QED
    BY <2>1 DEF ExactInv, FileGood, DocGood, LoadGood, WriterGood, Stored, InHand
<1> QED
  BY <1>1, <1>2, <1>3

LEMMA WriteLoadExact ==
  ASSUME TypeInv, TypeInv', LockInv, ExactInv, NEW c \in Clients,
         UpdateLoad(c) \/ Inspect(c) \/ LocalLoad(c)
  PROVE  ExactInv'
<1>0. PICK k \in Notes : k = req[c].note
  BY WriteLoadEffect
<1>1. PICK pc \in {"apply", "judge", "edit"} :
        /\ Others(c)
        /\ At(req[c]) = req[c].pc
        /\ \/ pc = "apply" /\ req[c].pc = "checked"
           \/ pc = "judge" /\ req[c].pc = "inspect"
           \/ pc = "edit" /\ req[c].pc = "patch"
        /\ SameWork(req'[c], req[c]) /\ req'[c].st = req[c].st /\ At(req'[c]) = pc
        /\ \/ /\ docs[k] # None /\ req'[c].pc = pc /\ req'[c].ref = docs[k]
              /\ loading' = loading
           \/ /\ docs[k] = None /\ req'[c].pc = "wait" /\ req'[c].then = pc
              /\ \/ loading' = loading /\ loading[k].stage # "none"
                 \/ /\ loading[k].stage = "none"
                    /\ \A j \in Notes \ {k} : loading'[j] = loading[j]
                    /\ loading'[k].stage = "read" /\ loading'[k].content = Stored(k)
                    /\ loading'[k].written = ~NeverWritten(files[k])
        /\ UNCHANGED <<store, docs, heap, lock, open, sent, stopping, saves, seen>>
  BY <1>0, WriteLoadEffect
<1>2. InWrite(req[c]) /\ req'[c].note = k
  BY <1>0, <1>1 DEF InWrite, SameWork
<1>3. /\ UNCHANGED <<files, nextSeq, docs, heap, stopping, saves>>
      /\ \A j \in Notes \ {k} : loading'[j] = loading[j]
  BY <1>1 DEF store
<1>4. \A j \in Notes : LoadGood(j)'
  BY <1>1, <1>3, GetDocLoads
<1>5. WriterGood(c)
  BY DEF ExactInv
<1>6. pc = "judge" => docs[k] = req[c].st /\ docs[k] # None
  BY <1>0, <1>1, <1>5, HubAssumption DEF WriterGood, Applied, TypeInv, HandlerShape, WritePlaces
<1>7. WriterGood(c)'
  BY <1>0, <1>1, <1>2, <1>3, <1>5, <1>6 DEF WriterGood, SameWork, Applied, Logged, Stored, At
<1>8. docs'[k] # None =>
        heap'[docs'[k]].content =
          Stored(k)' \cup IF At(req'[c]) \in Applied THEN {req'[c].delta} ELSE {}
  BY <1>0, <1>1, <1>2, <1>3, WriterDoc DEF Applied, Stored, SameWork
<1>9. FileGood(k)' /\ nextSeq' = nextSeq /\ \A o \in Objs : heap'[o].lastSeq < nextSeq'
  BY <1>1, <1>3 DEF ExactInv, FileGood
<1> QED
  BY <1>0, <1>1, <1>2, <1>3, <1>4, <1>7, <1>8, <1>9, WriterAlone, OwnNoteStep

\* A writer goes on, or ends, and neither the document nor the store changes.
LEMMA MoveStep ==
  ASSUME TypeInv, TypeInv', LockInv, ExactInv, NEW c \in Clients,
         InWrite(req[c]), Others(c),
         InWrite(req'[c]) => req'[c].note = req[c].note,
         UNCHANGED <<files, nextSeq, docs, loading, stopping, saves>>,
         \A o \in Objs : /\ heap'[o].content = heap[o].content
                         /\ heap'[o].lastSeq = heap[o].lastSeq,
         At(req'[c]) \in Applied <=> At(req[c]) \in Applied,
         At(req'[c]) \in Applied => req'[c].delta = req[c].delta,
         WriterGood(c)'
  PROVE  ExactInv'
<1>1. PICK k \in Notes : k = req[c].note
  BY DEF TypeInv, HandlerShape, InWrite
<1>2. FileGood(k)' /\ LoadGood(k)' /\ \A o \in Objs : heap'[o].lastSeq < nextSeq'
  BY DEF ExactInv, FileGood, LoadGood, Stored
<1>3. docs[k] # None => docs[k] \in Objs
  BY DEF TypeInv, TypeOK
<1>4. docs'[k] # None =>
        heap'[docs'[k]].content =
          Stored(k)' \cup IF At(req'[c]) \in Applied THEN {req'[c].delta} ELSE {}
  BY <1>1, <1>3, WriterDoc DEF Stored
<1> QED
  BY <1>1, <1>2, <1>4, WriterAlone, OwnNoteStep

LEMMA ApplyExact ==
  ASSUME TypeInv, TypeInv', LockInv, ExactInv, NEW c \in Clients, Apply(c) \/ LocalEdit(c)
  PROVE  ExactInv'
<1>0. PICK k \in Notes : k = req[c].note
  BY ApplyEffect
<1>1. PICK o \in Objs : o = req[c].ref
  BY ApplyEffect
<1>2. /\ At(req[c]) = req[c].pc /\ req[c].pc \in {"apply", "edit"}
      /\ Others(c) /\ req'[c].note = k /\ req'[c].delta = req[c].delta
      /\ req'[c].st = o /\ At(req'[c]) = req'[c].pc
      /\ \/ req'[c].pc = "append"
         \/ c \in Capped /\ req'[c].pc = "inspect" /\ req'[c].before = heap[o].content
      /\ \A x \in Objs : heap'[x].lastSeq = heap[x].lastSeq
      /\ \A x \in Objs \ {o} : heap'[x] = heap[x]
      /\ heap'[o].content = heap[o].content \cup {req[c].delta}
      /\ UNCHANGED <<files, nextSeq, docs, loading, stopping, saves>>
  BY <1>0, <1>1, ApplyEffect DEF store, flushing
<1>3. InWrite(req[c]) /\ docs[k] = o /\ At(req[c]) \notin Applied
  BY <1>0, <1>1, <1>2 DEF InWrite, ExactInv, WriterGood, Applied
<1>4. docs[k] # None
  BY <1>3, HubAssumption
<1>5. heap[o].content = Stored(k)
  BY <1>0, <1>3, <1>4, WriterDoc
<1>6. WriterGood(c)'
  BY <1>2, <1>3, <1>5 DEF WriterGood, Applied, Logged, Stored
<1>7. heap'[docs'[k]].content =
        Stored(k)' \cup IF At(req'[c]) \in Applied THEN {req'[c].delta} ELSE {}
  BY <1>2, <1>3, <1>5 DEF Stored, Applied
<1>8. FileGood(k)' /\ LoadGood(k)' /\ \A x \in Objs : heap'[x].lastSeq < nextSeq'
  BY <1>2 DEF ExactInv, FileGood, LoadGood, Stored
<1> QED
  BY <1>0, <1>2, <1>3, <1>6, <1>7, <1>8, WriterAlone, OwnNoteStep

LEMMA AcceptExact ==
  ASSUME TypeInv, TypeInv', LockInv, ExactInv, NEW c \in Clients, Accept(c)
  PROVE  ExactInv'
<1>1. /\ req[c].pc = "judge" /\ Goto(c, "append")
      /\ UNCHANGED <<files, nextSeq, docs, heap, loading, stopping, saves>>
  BY DEF Accept, store, cache, flushing
<1>2. /\ Others(c) /\ SameWork(req'[c], req[c]) /\ req'[c].st = req[c].st
      /\ req'[c].pc = "append" /\ At(req'[c]) = "append" /\ At(req[c]) = "judge"
  BY <1>1, GotoEffect DEF Places, At
<1>3. WriterGood(c)'
  BY <1>1, <1>2 DEF ExactInv, WriterGood, SameWork, Applied, Logged, Stored
<1> QED
  BY <1>1, <1>2, <1>3, MoveStep DEF InWrite, Applied, SameWork

LEMMA RejectExact ==
  ASSUME TypeInv, TypeInv', LockInv, ExactInv, JudgedInv, NEW c \in Clients, Reject(c)
  PROVE  ExactInv'
<1>0. PICK k \in Notes : k = req[c].note
  BY RejectEffect
<1>1. PICK o \in Objs : o = req[c].st
  BY RejectEffect
<1>2. /\ At(req[c]) = "judge" /\ Others(c) /\ SameWork(req'[c], req[c])
      /\ req'[c].pc = "unindex" /\ At(req'[c]) = "unindex"
      /\ \/ /\ req[c].existed /\ docs' = docs
            /\ \A x \in Objs : heap'[x].lastSeq = heap[x].lastSeq
            /\ \A x \in Objs \ {o} : heap'[x] = heap[x]
            /\ heap'[o].content = req[c].before
         \/ /\ ~req[c].existed /\ heap' = heap
            /\ docs'[k] = None /\ \A j \in Notes \ {k} : docs'[j] = docs[j]
      /\ UNCHANGED <<files, nextSeq, loading, stopping, saves>>
  BY <1>0, <1>1, RejectEffect DEF store, flushing
<1>3. /\ InWrite(req[c]) /\ docs[k] = o /\ docs[k] # None /\ c \in Capped
      /\ req[c].before = Stored(k)
  BY <1>0, <1>1, <1>2, HubAssumption DEF InWrite, ExactInv, WriterGood, Applied
<1>4. WriterGood(c)'
  BY <1>0, <1>2, <1>3 DEF WriterGood, SameWork, Applied, Logged, Stored
<1>5. docs'[k] # None => heap'[docs'[k]].content = Stored(k)'
  BY <1>2, <1>3 DEF Stored
<1>6. LoadGood(k) /\ FileGood(k)
  BY DEF ExactInv
<1>7. ~req[c].existed => loading[k].stage # "index"
  BY <1>0, <1>2, <1>3 DEF JudgedInv, Unjudged
<1>8. LoadGood(k)'
  BY <1>2, <1>3, <1>6, <1>7 DEF LoadGood, Stored
<1>9. FileGood(k)' /\ \A x \in Objs : heap'[x].lastSeq < nextSeq'
  BY <1>2, <1>6 DEF ExactInv, FileGood
<1> QED
  BY <1>0, <1>2, <1>3, <1>4, <1>5, <1>8, <1>9, WriterAlone, OwnNoteStep DEF Applied, SameWork

LEMMA EndExact ==
  ASSUME TypeInv, TypeInv', LockInv, ExactInv, NEW c \in Clients,
         Deny(c) \/ EnforceNothing(c)
  PROVE  ExactInv'
<1>1. /\ req[c].pc \in {"unindex", "enforce"} /\ req' = [req EXCEPT ![c] = IdleReq]
      /\ UNCHANGED <<files, nextSeq, docs, heap, loading, stopping, saves>>
  BY DEF Deny, EnforceNothing, Release, store, cache, flushing
<1>2. Others(c) /\ At(req'[c]) = "idle" /\ req'[c].pc = "idle" /\ At(req[c]) = req[c].pc
  BY <1>1, EndEffect DEF At
<1>3. WriterGood(c)'
  BY <1>2 DEF WriterGood, Applied, Logged
<1> QED
  BY <1>1, <1>2, <1>3, MoveStep DEF InWrite, Applied

LEMMA LocalLockExact ==
  ASSUME TypeInv, TypeInv', ExactInv, NEW c \in Clients, LocalLock(c)
  PROVE  ExactInv'
<1>1. /\ At(req[c]) = "routed" /\ Others(c)
      /\ req'[c].pc = "patch" /\ At(req'[c]) = "patch"
      /\ UNCHANGED <<files, nextSeq, docs, heap, loading, stopping, saves>>
  BY LocalLockEffect DEF store, cache, flushing
<1>2. \A j \in Notes : LoadGood(j)'
  BY <1>1, GetDocLoads
<1> QED
  BY <1>1, <1>2, NoWriteStep DEF Applied

LEMMA AppendExact ==
  ASSUME TypeInv, TypeInv', LockInv, ExactInv, NEW c \in Clients, AppendLog(c)
  PROVE  /\ ExactInv'
         /\ \A k \in Notes : k = req[c].note => Stored(k)' = Stored(k) \cup {req[c].delta}
<1>0. PICK k \in Notes : k = req[c].note
  BY AppendEffect
<1>1. PICK o \in Objs : o = req[c].st
  BY AppendEffect
<1>2. /\ At(req[c]) = "append" /\ req[c].delta \in Delta
      /\ Others(c) /\ SameWork(req'[c], req[c]) /\ req'[c].st = o
      /\ req'[c].pc = "index" /\ At(req'[c]) = "index"
      /\ files'[k] = Appended(files[k], nextSeq, req[c].delta)
      /\ \A j \in Notes \ {k} : files'[j] = files[j]
      /\ nextSeq' = nextSeq + 1
      /\ heap'[o].lastSeq = nextSeq
      /\ \A x \in Objs \ {o} : heap'[x] = heap[x]
      /\ \A x \in Objs : heap'[x].content = heap[x].content
      /\ UNCHANGED <<docs, loading, stopping, saves>>
  BY <1>0, <1>1, AppendEffect DEF flushing
<1>3. /\ InWrite(req[c]) /\ docs[k] = o /\ docs[k] # None
  BY <1>0, <1>1, <1>2, HubAssumption DEF InWrite, ExactInv, WriterGood, Applied
<1>4. FileGood(k) /\ LoadGood(k) /\ files[k] \in File(Delta) /\ nextSeq \in Nat \ {0}
  BY DEF ExactInv, TypeInv, TypeOK
<1>5. Stored(k)' = Stored(k) \cup {req[c].delta}
  BY <1>2, <1>4, LoadedAppended DEF Stored, FileGood
<1>6. heap[o].content = Stored(k) \cup {req[c].delta}
  BY <1>0, <1>2, <1>3, WriterDoc DEF Applied
<1>7. WriterGood(c)'
  <2>1. req[c].delta \in Loaded(files'[k])
    BY <1>5 DEF Stored
  <2> QED
    BY <1>0, <1>2, <1>3, <1>4, <2>1 DEF WriterGood, SameWork, Applied, Logged, Stored
<1>8. FileGood(k)'
  <2>1. /\ files'[k].seq = files[k].seq /\ files'[k].state = files[k].state
        /\ files'[k].updates = files[k].updates \cup {[seq |-> nextSeq, delta |-> req[c].delta]}
    BY <1>2, <1>4 DEF Appended, File
  <2>2. files[k].seq \in Nat
    BY <1>4 DEF File
  <2> QED
    BY <1>2, <1>4, <2>1, <2>2 DEF FileGood
<1>9. LoadGood(k)'
  BY <1>2, <1>3, <1>4, <1>5 DEF LoadGood
<1>10. \A x \in Objs : heap'[x].lastSeq < nextSeq'
  <2>1. \A x \in Objs : heap[x].lastSeq < nextSeq /\ heap[x].lastSeq \in Nat
    BY DEF ExactInv, TypeInv, TypeOK, DocState
  <2> QED
    BY <1>2, <1>4, <2>1
<1>11. docs'[k] # None =>
         heap'[docs'[k]].content =
           Stored(k)' \cup IF At(req'[c]) \in Applied THEN {req'[c].delta} ELSE {}
  BY <1>2, <1>3, <1>5, <1>6 DEF Applied
<1>12. ExactInv'
  BY <1>0, <1>2, <1>3, <1>7, <1>8, <1>9, <1>10, <1>11, WriterAlone, OwnNoteStep DEF SameWork
<1> QED
  BY <1>0, <1>5, <1>12

LEMMA IndexStepExact ==
  ASSUME TypeInv, TypeInv', LockInv, ExactInv, NEW c \in Clients, Index(c)
  PROVE  ExactInv'
<1>1. /\ At(req[c]) = "index" /\ Others(c) /\ SameWork(req'[c], req[c])
      /\ req'[c].st = req[c].st /\ req[c].st \in Objs
      /\ req'[c].pc \in {"snapshot", "fanout"} /\ At(req'[c]) = req'[c].pc
      /\ \A x \in Objs : /\ heap'[x].content = heap[x].content
                         /\ heap'[x].lastSeq = heap[x].lastSeq
      /\ UNCHANGED <<files, nextSeq, docs, loading, stopping, saves>>
  BY IndexEffect DEF flushing
<1>2. WriterGood(c)'
  BY <1>1 DEF ExactInv, WriterGood, SameWork, Applied, Logged, Stored
<1> QED
  BY <1>1, <1>2, MoveStep DEF InWrite, Applied, SameWork

LEMMA FanOutExact ==
  ASSUME TypeInv, TypeInv', LockInv, ExactInv, NEW c \in Clients, FanOut(c)
  PROVE  ExactInv'
<1>1. /\ At(req[c]) = "fanout" /\ Others(c) /\ req[c].note \in Notes
      /\ \/ SameWork(req'[c], req[c]) /\ req'[c].pc = "enforce" /\ At(req'[c]) = "enforce"
         \/ At(req'[c]) = "idle" /\ req'[c].pc = "idle"
      /\ UNCHANGED <<files, nextSeq, docs, heap, loading, stopping, saves>>
  BY FanOutEffect DEF store, cache, flushing
<1>2. docs[req[c].note] # None
  BY <1>1, HubAssumption
  DEF ExactInv, WriterGood, Logged, TypeInv, HandlerShape, WritePlaces
<1>3. WriterGood(c)'
  BY <1>1, <1>2 DEF WriterGood, SameWork, Applied, Logged
<1> QED
  BY <1>1, <1>3, MoveStep DEF InWrite, Applied, SameWork

LEMMA EnforceExact ==
  ASSUME TypeInv, TypeInv', LockInv, ExactInv, NEW c \in Clients, Enforce(c)
  PROVE  ExactInv'
<1>1. /\ At(req[c]) = "enforce" /\ Others(c) /\ req'[c].pc = "patch"
      /\ At(req'[c]) = "patch" /\ req'[c].note = req[c].note
      /\ UNCHANGED <<files, nextSeq, docs, heap, loading, stopping, saves>>
  BY EnforceEffect DEF store, cache, flushing
<1>2. WriterGood(c)'
  BY <1>1 DEF WriterGood, Applied, Logged
<1> QED
  BY <1>1, <1>2, MoveStep DEF InWrite, Applied

\* A snapshot of the resident document stores what a writer has applied too.
LEMMA SavedFile ==
  ASSUME TypeInv, ExactInv, NEW k \in Notes, NEW o \in Objs, docs[k] = o,
         heap[o].lastSeq > 0,
         files'[k] = Compacted(files[k], heap[o].lastSeq, heap[o].content),
         nextSeq' = nextSeq
  PROVE  /\ Stored(k)' = heap[o].content
         /\ Stored(k) \subseteq heap[o].content
         /\ FileGood(k)'
<1>1. /\ files[k] \in File(Delta) /\ heap[o].lastSeq \in Nat
      /\ heap[o].content \in SUBSET Delta /\ heap[o].lastSeq < nextSeq
      /\ \A u \in files[k].updates : files[k].seq < u.seq
  BY DEF TypeInv, TypeOK, DocState, ExactInv, FileGood
<1>2. Loaded(files[k]) \subseteq heap[o].content
  BY HubAssumption DEF ExactInv, DocGood, Stored
<1>3. Loaded(files'[k]) = heap[o].content
  BY <1>1, <1>2, LoadedCompacted
<1>4. /\ files'[k].seq = heap[o].lastSeq
      /\ \A u \in files'[k].updates : u.seq > heap[o].lastSeq
      /\ \A u \in files'[k].updates : u.seq \in Nat
  BY <1>1 DEF Compacted, File
<1> QED
  BY <1>1, <1>2, <1>3, <1>4 DEF Stored, FileGood

LEMMA SnapshotExact ==
  ASSUME TypeInv, TypeInv', LockInv, ExactInv, NEW c \in Clients, Snapshot(c)
  PROVE  ExactInv' /\ \A k \in Notes : Stored(k)' = Stored(k)
<1>0. PICK k \in Notes : k = req[c].note
  BY SnapshotEffect
<1>1. PICK o \in Objs : o = req[c].st
  BY SnapshotEffect
<1>2. /\ At(req[c]) = "snapshot"
      /\ Others(c) /\ SameWork(req'[c], req[c]) /\ req'[c].st = o
      /\ req'[c].pc = "fanout" /\ At(req'[c]) = "fanout"
      /\ files'[k] = Compacted(files[k], heap[o].lastSeq, heap[o].content)
      /\ \A j \in Notes \ {k} : files'[j] = files[j]
      /\ \A x \in Objs : /\ heap'[x].content = heap[x].content
                         /\ heap'[x].lastSeq = heap[x].lastSeq
      /\ UNCHANGED <<nextSeq, docs, loading, stopping, saves>>
  BY <1>0, <1>1, SnapshotEffect DEF flushing
<1>3. InWrite(req[c]) /\ docs[k] = o /\ docs[k] # None
  BY <1>0, <1>1, <1>2, HubAssumption DEF InWrite, ExactInv, WriterGood, Logged
<1>4. heap[o].content = Stored(k)
  BY <1>0, <1>2, <1>3, WriterDoc DEF Applied
<1>5. Stored(k)' = Stored(k) /\ FileGood(k)'
  <2>1. heap[o].lastSeq > 0
    BY <1>1, <1>2 DEF ExactInv, WriterGood, Logged
  <2> QED
    BY <1>2, <1>3, <1>4, <2>1, SavedFile
<1>6. \A j \in Notes : Stored(j)' = Stored(j)
  BY <1>2, <1>5 DEF Stored
<1>7. LoadGood(k)'
  BY <1>2, <1>3, <1>5 DEF ExactInv, LoadGood
<1>8. WriterGood(c)'
  <2>1. WriterGood(c) /\ Loaded(files'[k]) = Loaded(files[k])
    BY <1>5 DEF ExactInv, Stored
  <2> QED
    BY <1>0, <1>1, <1>2, <1>3, <2>1 DEF WriterGood, SameWork, Applied, Logged, Stored
<1>9. \A x \in Objs : heap'[x].lastSeq < nextSeq'
  BY <1>2 DEF ExactInv
<1>10. ExactInv'
  BY <1>0, <1>2, <1>3, <1>4, <1>5, <1>7, <1>8, <1>9, WriterAlone, OwnNoteStep
  DEF Applied, SameWork
<1> QED
  BY <1>6, <1>10

\* A load installs what is stored, under an object of its own.
LEMMA InstallExact ==
  ASSUME NoEviction, TypeInv, TypeInv', LockInv, ExactInv, NEW k \in Notes, Install(k)
  PROVE  ExactInv'
<1>1. loading[k].stage = "read" /\ docs[k] = None /\ loading[k].content = Stored(k)
  <2>1. loading[k].stage = "read"
    BY InstallEffect
  <2>2. LoadGood(k)
    BY DEF ExactInv
  <2>3. /\ docs[k] = None
        /\ loading[k].content \subseteq Stored(k) /\ Stored(k) \subseteq loading[k].content
    BY <2>1, <2>2 DEF LoadGood
  <2> QED
    BY <2>1, <2>3
<1>2. PICK o \in Objs :
        /\ \A j \in Notes : docs[j] # o
        /\ \A c \in Clients : req[c].ref # o /\ req[c].st # o
        /\ docs'[k] = o /\ \A j \in Notes \ {k} : docs'[j] = docs[j]
        /\ heap'[o].content = loading[k].content /\ heap'[o].lastSeq = 0
        /\ \A x \in Objs \ {o} : heap'[x] = heap[x]
        /\ \A j \in Notes \ {k} : loading'[j] = loading[j]
        /\ \/ /\ loading[k].written /\ req' = req
              /\ loading'[k].stage = "index" /\ loading'[k].obj = o
              /\ loading'[k].content = loading[k].content
           \/ loading'[k].stage = "none"
        /\ \A c \in Clients :
             /\ SameWork(req'[c], req[c]) /\ req'[c].st = req[c].st
             /\ At(req'[c]) = At(req[c])
             /\ \/ req'[c] = req[c]
                \/ /\ Awaits(c, k) /\ req'[c].pc = req[c].then /\ req'[c].ref = o
                   /\ req[c].then \in LoadPlaces
        /\ UNCHANGED <<store, lock, open, sent, stopping, saves, seen>>
  BY InstallEffect
<1>3. UNCHANGED <<files, nextSeq>> /\ \A j \in Notes : Stored(j)' = Stored(j)
  BY <1>2 DEF store, Stored
<1>4. \A j \in Notes : InHand(j, Applied)' = InHand(j, Applied)
  BY <1>2 DEF InHand, SameWork
<1>5. ASSUME NEW c \in Clients
      PROVE  req[c].note = k => At(req[c]) \notin Applied \cup Logged \cup {"enforce"}
  BY <1>1, HubAssumption
  DEF ExactInv, WriterGood, Applied, Logged, TypeInv, HandlerShape, WritePlaces
<1>6. InHand(k, Applied) = {}
  BY <1>5 DEF InHand
<1>7. ASSUME NEW j \in Notes
      PROVE  FileGood(j)' /\ DocGood(j)' /\ LoadGood(j)'
  <2>1. FileGood(j) /\ DocGood(j) /\ LoadGood(j)
    BY DEF ExactInv
  <2>2. FileGood(j)'
    BY <1>3, <2>1 DEF FileGood
  <2>3. LoadGood(j)'
    BY <1>1, <1>2, <1>3, <2>1 DEF LoadGood
  <2>4. docs'[j] # None => heap'[docs'[j]].content = Stored(j)' \cup InHand(j, Applied)'
    <3>1. CASE j = k
      BY <1>1, <1>2, <1>3, <1>4, <1>6, <3>1
    <3>2. CASE j # k
      BY <1>2, <1>3, <1>4, <2>1, <3>2 DEF DocGood, TypeInv, TypeOK
    <3> QED
      BY <3>1, <3>2
  <2>5. \A i \in Notes : docs'[j] # None /\ docs'[j] = docs'[i] => j = i
    BY <1>2, <2>1 DEF DocGood
  <2> QED
    BY <2>2, <2>3, <2>4, <2>5 DEF DocGood
<1>8. ASSUME NEW c \in Clients PROVE WriterGood(c)'
  <2>1. WriterGood(c) /\ HandlerShape(req[c])
    BY DEF ExactInv, TypeInv
  <2>2. At(req[c]) \in Applied \cup Logged \cup {"enforce"} =>
          docs'[req[c].note] = docs[req[c].note]
    BY <1>2, <1>5, <2>1 DEF HandlerShape, Applied, Logged
  <2>3. At(req[c]) \in Logged => heap'[req[c].st] = heap[req[c].st]
    BY <1>2, <2>1 DEF HandlerShape, Logged, WritePlaces
  <2>4. Loaded(files'[req[c].note]) = Loaded(files[req[c].note])
    BY <1>3
  <2>5. req'[c].pc \in {"apply", "judge", "edit"} => docs'[req[c].note] = req'[c].ref
    <3>1. CASE req'[c] = req[c]
      <4> SUFFICES ASSUME req[c].pc \in {"apply", "judge", "edit"}
                   PROVE  docs'[req[c].note] = req[c].ref
        BY <3>1
      <4>1. docs[req[c].note] = req[c].ref /\ req[c].note \in Notes /\ req[c].ref # None
        BY <2>1, HubAssumption DEF WriterGood, HandlerShape, At, LoadPlaces
      <4> QED
        BY <1>1, <1>2, <4>1
    <3>2. CASE Awaits(c, k) /\ req'[c].ref = o
      BY <1>2, <3>2 DEF Awaits
    <3> QED
      BY <1>2, <3>1, <3>2
  <2>6. req'[c].pc = "wait" => req'[c].then # "judge"
    BY <1>2, <2>1 DEF WriterGood, LoadPlaces
  <2>7. /\ SameWork(req'[c], req[c]) /\ req'[c].st = req[c].st
        /\ At(req'[c]) = At(req[c])
    BY <1>2
  <2> QED
    BY <2>1, <2>2, <2>3, <2>4, <2>5, <2>6, <2>7 DEF WriterGood, SameWork, Stored
<1>9. \A x \in Objs : heap'[x].lastSeq < nextSeq'
  <2>1. nextSeq' = nextSeq /\ 0 < nextSeq
    BY <1>3 DEF TypeInv, TypeOK
  <2>2. \A x \in Objs : heap[x].lastSeq < nextSeq
    BY DEF ExactInv
  <2> QED
    BY <1>2, <2>1, <2>2
<1> QED
  BY <1>2, <1>7, <1>8, <1>9 DEF ExactInv

\* The end of a load, once its note has its row.
LEMMA LoadIndexExact ==
  ASSUME NoEviction, TypeInv, TypeInv', ExactInv, NEW k \in Notes, LoadIndex(k)
  PROVE  ExactInv'
<1>1. PICK o \in Objs : o = loading[k].obj /\ docs[k] = o
  BY DEF LoadIndex, TypeInv, LoadShape, ExactInv, LoadGood
<1>2. /\ EvictOrResolve(k, o, lru) /\ lru \in Seq(Notes) /\ Once(lru)
      /\ UNCHANGED <<files, nextSeq, docs, heap, stopping, saves>>
  BY <1>1 DEF LoadIndex, TypeInv, TypeOK, OrderShape, flushing
<1>3. /\ loading'[k].stage = "none"
      /\ \A j \in Notes \ {k} : loading'[j] = loading[j]
      /\ \A c \in Clients :
           /\ SameWork(req'[c], req[c]) /\ req'[c].st = req[c].st
           /\ At(req'[c]) = At(req[c])
           /\ \/ req'[c] = req[c]
              \/ Awaits(c, k) /\ req'[c].pc = req[c].then /\ req'[c].ref = o
  BY <1>2, ResolveEffect
<1>4. ASSUME NEW j \in Notes
      PROVE  FileGood(j)' /\ DocGood(j)' /\ LoadGood(j)'
  <2>1. FileGood(j) /\ DocGood(j) /\ LoadGood(j)
    BY DEF ExactInv
  <2>2. InHand(j, Applied)' = InHand(j, Applied)
    BY <1>3 DEF InHand, SameWork
  <2> QED
    BY <1>2, <1>3, <2>1, <2>2 DEF FileGood, DocGood, LoadGood, Stored
<1>5. ASSUME NEW c \in Clients PROVE WriterGood(c)'
  <2>1. WriterGood(c)
    BY DEF ExactInv
  <2>2. req'[c].pc \in {"apply", "judge", "edit"} => docs'[req[c].note] = req'[c].ref
    BY <1>1, <1>2, <1>3, <2>1 DEF WriterGood, Awaits
  <2>3. req'[c].pc = "wait" => req'[c].then # "judge"
    BY <1>3, <2>1 DEF WriterGood, Awaits, TypeInv, HandlerShape, LoadPlaces
  <2>4. /\ SameWork(req'[c], req[c]) /\ req'[c].st = req[c].st
        /\ At(req'[c]) = At(req[c])
    BY <1>3
  <2> QED
    BY <1>2, <2>1, <2>2, <2>3, <2>4 DEF WriterGood, SameWork, Stored
<1> QED
  BY <1>2, <1>4, <1>5 DEF ExactInv

\* A new process has nothing resident.
LEMMA RestartExact ==
  ASSUME TypeInv, ExactInv, Restart
  PROVE  ExactInv'
<1>1. /\ \A k \in Notes : docs'[k] = None /\ loading'[k] = NoLoad
      /\ \A o \in Objs : heap'[o] = FreshState({})
      /\ \A c \in Clients : req'[c] = IdleReq
      /\ stopping' = FALSE /\ saves' = {} /\ UNCHANGED <<files, nextSeq>>
  BY DEF Restart, store
<1>2. \A k \in Notes : FileGood(k)' /\ DocGood(k)' /\ LoadGood(k)'
  BY <1>1 DEF ExactInv, FileGood, DocGood, LoadGood, NoLoad
<1>3. \A c \in Clients : WriterGood(c)'
  BY <1>1 DEF WriterGood, IdleReq, At, Applied, Logged
<1>4. \A o \in Objs : heap'[o].lastSeq < nextSeq'
  BY <1>1 DEF FreshState, TypeInv, TypeOK
<1> QED
  BY <1>1, <1>2, <1>3, <1>4 DEF ExactInv

LEMMA InitExact == Init => ExactInv
<1> SUFFICES ASSUME Init PROVE ExactInv
  OBVIOUS
<1>1. /\ \A k \in Notes : docs[k] = None /\ loading[k] = NoLoad /\ files[k] = EmptyFile
      /\ \A o \in Objs : heap[o] = FreshState({})
      /\ \A c \in Clients : req[c] = IdleReq
      /\ stopping = FALSE /\ saves = {} /\ nextSeq = 1
  BY DEF Init
<1>2. \A k \in Notes : FileGood(k) /\ DocGood(k) /\ LoadGood(k)
  BY <1>1 DEF FileGood, DocGood, LoadGood, NoLoad, EmptyFile
<1>3. \A c \in Clients : WriterGood(c)
  BY <1>1 DEF WriterGood, IdleReq, At, Applied, Logged
<1> QED
  BY <1>1, <1>2, <1>3 DEF ExactInv, FreshState

----------------------------------------------------------------------------
(* What is judged.                                                         *)

\* A handler's step that leaves the store's files alone and drops no row.
LEMMA JudgedKept ==
  ASSUME JudgedInv, NEW c \in Clients, Others(c), files' = files,
         nodes \subseteq nodes', At(req[c]) # "index",
         \A k \in Notes : loading'[k].stage = "index" => loading[k].stage = "index",
         At(req'[c]) \notin {"idle", "opened", "reply", "purged"} =>
           req'[c].delta.kind # "delete",
         At(req'[c]) \in Unjudged /\ ~req'[c].existed =>
           NeverWritten(files[req'[c].note])
  PROVE  JudgedInv'
<1> SUFFICES ASSUME Capped # {} PROVE JudgedInv'
  BY DEF JudgedInv
<1>1. ASSUME NEW k \in Notes
      PROVE  /\ \A d \in Stored(k)' : d.kind # "delete"
             /\ ~NeverWritten(files'[k]) =>
                  \/ k \in nodes'
                  \/ \E x \in Clients : req'[x].note = k /\ At(req'[x]) = "index"
             /\ loading'[k].stage = "index" => ~NeverWritten(files'[k])
  BY DEF JudgedInv, Others, Stored
<1>2. ASSUME NEW x \in Clients
      PROVE  /\ At(req'[x]) \notin {"idle", "opened", "reply", "purged"} =>
                  req'[x].delta.kind # "delete"
             /\ At(req'[x]) \in Unjudged /\ ~req'[x].existed =>
                  NeverWritten(files'[req'[x].note])
  <2>1. CASE x = c
    BY <2>1
  <2>2. CASE x # c
    BY <2>2 DEF Others, JudgedInv
  <2> QED
    BY <2>1, <2>2
<1> QED
  BY <1>1, <1>2 DEF JudgedInv

\* The same for a handler that goes on with its work.
LEMMA JudgedSameWork ==
  ASSUME JudgedInv, NEW c \in Clients, Others(c), files' = files,
         nodes \subseteq nodes', At(req[c]) # "index",
         \A k \in Notes : loading'[k].stage = "index" => loading[k].stage = "index",
         req'[c].note = req[c].note, req'[c].delta = req[c].delta,
         req'[c].existed = req[c].existed,
         At(req[c]) \notin {"idle", "opened", "reply", "purged"},
         At(req'[c]) \in Unjudged => At(req[c]) \in Unjudged
  PROVE  JudgedInv'
<1> SUFFICES ASSUME Capped # {} PROVE JudgedInv'
  BY DEF JudgedInv
<1> QED
  BY JudgedKept DEF JudgedInv

LEMMA StartJudged ==
  ASSUME Calm, TypeInv, LockInv, JudgedInv, NEW c \in Clients, NEW k \in Notes,
         Open(c, k) \/ Sync1(c, k) \/ SendUpdate(c, k) \/ Http(c, k)
  PROVE  JudgedInv'
<1> SUFFICES ASSUME Capped # {} PROVE JudgedInv'
  BY DEF JudgedInv
<1>1. CASE Open(c, k) \/ Sync1(c, k) \/ Http(c, k)
  <2>1. PICK r \in Requests :
          /\ r.note = k /\ r.pc \in {"opened", "reply", "routed"} /\ GetDoc(c, r)
          /\ r.pc = "routed" => \E kind \in {"patch", "delete"} \cap Workload :
                                  r.delta = NextDelta(c, kind)
    BY <1>1, ReadEffect
  <2>2. At(req[c]) = "idle" /\ UNCHANGED <<files, nodes>>
    BY <1>1, ReadEffect DEF store
  <2>3. /\ Others(c) /\ At(req'[c]) = r.pc /\ req'[c].delta = r.delta
        /\ \A j \in Notes : loading'[j].stage = "index" => loading[j].stage = "index"
    <3>1. /\ Others(c) /\ At(req'[c]) = r.pc /\ SameWork(req'[c], r)
          /\ \/ loading' = loading
             \/ /\ loading'[k].stage = "read"
                /\ \A j \in Notes \ {k} : loading'[j] = loading[j]
      BY <2>1, GetDocEffect DEF LoadPlaces
    <3> QED
      BY <3>1 DEF SameWork
  <2>4. r.pc = "routed" => r.delta.kind # "delete"
    <3>1. "delete" \notin Workload
      BY DEF Calm
    <3>2. r.pc = "routed" => r.delta = NextDelta(c, "patch")
      BY <2>1, <3>1
    <3> QED
      BY <3>2 DEF NextDelta
  <2> QED
    BY <2>1, <2>2, <2>3, <2>4, JudgedKept DEF Unjudged
<1>2. CASE SendUpdate(c, k)
  <2>1. PICK kind \in {"edit", "secret"} :
          Update(c, k, NextDelta(c, kind)) \/ UpdateOverQuota(c, k, NextDelta(c, kind))
    BY <1>2 DEF SendUpdate
  <2>2. CASE Update(c, k, NextDelta(c, kind))
    <3>1. /\ At(req[c]) = "idle" /\ lock[k] = None /\ Others(c)
          /\ At(req'[c]) = "checked" /\ req'[c].note = k
          /\ req'[c].delta = NextDelta(c, kind)
          /\ req'[c].existed = (k \in nodes)
          /\ UNCHANGED <<files, nodes, loading>>
      BY <2>2, UpdateEffect DEF store, cache
    <3>2. \A x \in Clients : At(req[x]) = "index" => req[x].note # k
      BY <3>1, WritingIsInWrite, HubAssumption DEF LockInv, InWrite
    <3>3. ~req'[c].existed => NeverWritten(files[k])
      BY <3>1, <3>2 DEF JudgedInv
    <3>4. req'[c].delta.kind # "delete"
      BY <3>1 DEF NextDelta
    <3> QED
      BY <3>1, <3>3, <3>4, JudgedKept
  <2>3. CASE UpdateOverQuota(c, k, NextDelta(c, kind))
    BY <2>3 DEF UpdateOverQuota, store, cache, JudgedInv, Stored
  <2> QED
    BY <2>1, <2>2, <2>3
<1> QED
  BY <1>1, <1>2

\* The steps that touch neither the files nor the rows.
LEMMA HandlerJudged ==
  ASSUME TypeInv, ExactInv, JudgedInv, NEW c \in Clients,
         \/ Opened(c) \/ Reply(c) \/ UpdateLoad(c) \/ Apply(c) \/ Inspect(c)
         \/ Accept(c) \/ Reject(c) \/ LocalLock(c) \/ LocalLoad(c) \/ LocalEdit(c)
         \/ FanOut(c) \/ EnforceNothing(c) \/ Enforce(c)
  PROVE  JudgedInv'
<1>1. CASE Opened(c) \/ Reply(c) \/ EnforceNothing(c)
  <2>1. /\ req' = [req EXCEPT ![c] = IdleReq] /\ UNCHANGED <<files, nodes, loading>>
        /\ At(req[c]) # "index"
    BY <1>1 DEF Opened, Reply, EnforceNothing, Release, store, cache, At
  <2>2. Others(c) /\ At(req'[c]) = "idle"
    BY <2>1, EndEffect
  <2> QED
    BY <2>1, <2>2, JudgedKept DEF Unjudged
<1>2. CASE UpdateLoad(c) \/ Inspect(c) \/ LocalLoad(c)
  <2>1. /\ Others(c) /\ SameWork(req'[c], req[c])
        /\ \/ At(req[c]) = "checked" /\ At(req'[c]) = "apply"
           \/ At(req[c]) = "inspect" /\ At(req'[c]) = "judge"
           \/ At(req[c]) = "patch" /\ At(req'[c]) = "edit"
        /\ \/ loading' = loading
           \/ \E k \in Notes :
                /\ loading'[k].stage = "read"
                /\ \A j \in Notes \ {k} : loading'[j] = loading[j]
        /\ UNCHANGED store
    BY <1>2, WriteLoadEffect
  <2>2. \A j \in Notes : loading'[j].stage = "index" => loading[j].stage = "index"
    BY <2>1
  <2> QED
    BY <2>1, <2>2, JudgedSameWork DEF SameWork, Unjudged, store
<1>3. CASE Apply(c) \/ LocalEdit(c)
  <2>1. /\ Others(c) /\ req'[c].note = req[c].note /\ req'[c].delta = req[c].delta
        /\ req'[c].existed = req[c].existed
        /\ \/ At(req[c]) = "edit" /\ At(req'[c]) = "append"
           \/ At(req[c]) = "apply" /\ At(req'[c]) \in {"append", "inspect"}
        /\ UNCHANGED <<files, nodes, loading>>
    BY <1>3, ApplyEffect DEF store
  <2> QED
    BY <2>1, JudgedSameWork DEF Unjudged
<1>4. CASE Accept(c)
  <2>1. /\ Others(c) /\ SameWork(req'[c], req[c]) /\ At(req[c]) = "judge"
        /\ At(req'[c]) = "append" /\ UNCHANGED <<files, nodes, loading>>
    BY <1>4, GotoEffect DEF Accept, Places, At, store, cache
  <2> QED
    BY <2>1, JudgedSameWork DEF SameWork, Unjudged
<1>5. CASE Reject(c)
  <2>1. /\ Others(c) /\ SameWork(req'[c], req[c]) /\ At(req[c]) = "judge"
        /\ At(req'[c]) = "unindex" /\ UNCHANGED <<files, nodes, loading>>
    BY <1>5, RejectEffect DEF store
  <2> QED
    BY <2>1, JudgedSameWork DEF SameWork, Unjudged
<1>6. CASE LocalLock(c)
  <2>1. /\ Others(c) /\ SameWork(req'[c], req[c]) /\ At(req[c]) = "routed"
        /\ At(req'[c]) = "patch" /\ UNCHANGED <<files, nodes, loading>>
    BY <1>6, LocalLockEffect DEF store, cache
  <2> QED
    BY <2>1, JudgedSameWork DEF SameWork, Unjudged
<1>7. CASE FanOut(c)
  <2>1. /\ Others(c) /\ At(req[c]) = "fanout" /\ UNCHANGED <<files, nodes, loading>>
        /\ \/ SameWork(req'[c], req[c]) /\ At(req'[c]) = "enforce"
           \/ At(req'[c]) = "idle"
    BY <1>7, FanOutEffect DEF store, cache
  <2> QED
    BY <2>1, JudgedSameWork, JudgedKept DEF SameWork, Unjudged
<1>8. CASE Enforce(c)
  <2>1. /\ Others(c) /\ At(req[c]) = "enforce" /\ UNCHANGED <<files, nodes, loading>>
        /\ At(req'[c]) = "patch"
        /\ req'[c].delta = [req[c].delta EXCEPT !.kind = "draft"] /\ req[c].delta \in Delta
    BY <1>8, EnforceEffect DEF store, cache
  <2>2. req'[c].delta.kind = "draft"
    BY <2>1 DEF Delta
  <2> QED
    BY <2>1, <2>2, JudgedKept DEF Unjudged
<1> QED
  BY <1>1, <1>2, <1>3, <1>4, <1>5, <1>6, <1>7, <1>8

LEMMA DenyJudged ==
  ASSUME TypeInv, LockInv, ExactInv, JudgedInv, NEW c \in Clients, Deny(c)
  PROVE  JudgedInv'
<1> SUFFICES ASSUME Capped # {} PROVE JudgedInv'
  BY DEF JudgedInv
<1>0. PICK k \in Notes : k = req[c].note
  BY DEF Deny, TypeInv, HandlerShape, At
<1>1. /\ At(req[c]) = "unindex" /\ req' = [req EXCEPT ![c] = IdleReq]
      /\ nodes' = IF req[c].existed THEN Reindexed(k, req[c].before) ELSE nodes \ {k}
      /\ UNCHANGED <<files, loading>>
  BY <1>0 DEF Deny, Release, At, cache
<1>2. Others(c) /\ At(req'[c]) = "idle"
  BY <1>1, EndEffect
<1>3. req[c].existed => nodes' = nodes \cup {k}
  <2>1. req[c].before = Stored(k)
    BY <1>0, <1>1 DEF ExactInv, WriterGood
  <2>2. ~Deleted(Stored(k))
    BY DEF JudgedInv, Deleted
  <2> QED
    BY <1>1, <2>1, <2>2 DEF Reindexed
<1>4. ~req[c].existed => NeverWritten(files[k])
  BY <1>0, <1>1 DEF JudgedInv, Unjudged
<1>5. ASSUME NEW j \in Notes
      PROVE  /\ \A d \in Stored(j)' : d.kind # "delete"
             /\ ~NeverWritten(files'[j]) =>
                  \/ j \in nodes'
                  \/ \E x \in Clients : req'[x].note = j /\ At(req'[x]) = "index"
             /\ loading'[j].stage = "index" => ~NeverWritten(files'[j])
  BY <1>1, <1>2, <1>3, <1>4 DEF JudgedInv, Others, Stored
<1>6. ASSUME NEW x \in Clients
      PROVE  /\ At(req'[x]) \notin {"idle", "opened", "reply", "purged"} =>
                  req'[x].delta.kind # "delete"
             /\ At(req'[x]) \in Unjudged /\ ~req'[x].existed =>
                  NeverWritten(files'[req'[x].note])
  BY <1>1, <1>2 DEF JudgedInv, Others, Unjudged
<1> QED
  BY <1>5, <1>6 DEF JudgedInv

\* A writer's step on the store of its note, which has something stored after.
LEMMA WriterJudged ==
  ASSUME TypeInv, LockInv, JudgedInv, NEW c \in Clients, NEW k \in Notes,
         InWrite(req[c]), k = req[c].note, Others(c), SameWork(req'[c], req[c]),
         At(req[c]) \notin {"idle", "opened", "reply", "purged"},
         At(req'[c]) \notin Unjudged,
         UNCHANGED loading,
         \A j \in Notes \ {k} : files'[j] = files[j],
         Capped # {} => \A d \in Stored(k)' : d.kind # "delete",
         ~NeverWritten(files'[k]),
         \A j \in Notes \ {k} : j \in nodes => j \in nodes',
         k \in nodes' \/ At(req'[c]) = "index"
  PROVE  JudgedInv'
<1> SUFFICES ASSUME Capped # {} PROVE JudgedInv'
  BY DEF JudgedInv
<1>1. ASSUME NEW j \in Notes \ {k}
      PROVE  /\ \A d \in Stored(j)' : d.kind # "delete"
             /\ ~NeverWritten(files'[j]) =>
                  \/ j \in nodes'
                  \/ \E x \in Clients : req'[x].note = j /\ At(req'[x]) = "index"
             /\ loading'[j].stage = "index" => ~NeverWritten(files'[j])
  BY DEF JudgedInv, Others, Stored
<1>2. /\ \A d \in Stored(k)' : d.kind # "delete"
      /\ ~NeverWritten(files'[k]) =>
           \/ k \in nodes'
           \/ \E x \in Clients : req'[x].note = k /\ At(req'[x]) = "index"
      /\ loading'[k].stage = "index" => ~NeverWritten(files'[k])
  BY DEF SameWork
<1>3. ASSUME NEW x \in Clients
      PROVE  /\ At(req'[x]) \notin {"idle", "opened", "reply", "purged"} =>
                  req'[x].delta.kind # "delete"
             /\ At(req'[x]) \in Unjudged /\ ~req'[x].existed =>
                  NeverWritten(files'[req'[x].note])
  <2>1. CASE x = c
    BY <2>1 DEF JudgedInv, SameWork
  <2>2. CASE x # c
    <3>1. req'[x] = req[x]
      BY <2>2 DEF Others
    <3>2. At(req[x]) \in Unjudged => req[x].note \in Notes \ {k}
      BY <2>2, WriterAlone, PlacesInWrite DEF TypeInv, HandlerShape, Unjudged
    <3> QED
      BY <3>1, <3>2 DEF JudgedInv
  <2> QED
    BY <2>1, <2>2
<1> QED
  BY <1>1, <1>2, <1>3 DEF JudgedInv

LEMMA CommitJudged ==
  ASSUME TypeInv, LockInv, ExactInv, ExactInv', JudgedInv, NEW c \in Clients,
         AppendLog(c) \/ Index(c) \/ Snapshot(c)
  PROVE  JudgedInv'
<1> SUFFICES ASSUME Capped # {} PROVE JudgedInv'
  BY DEF JudgedInv
<1>0. PICK k \in Notes : k = req[c].note
  BY AppendEffect, IndexEffect, SnapshotEffect
<1>1. /\ At(req[c]) \in {"append", "index", "snapshot"}
      /\ Others(c) /\ SameWork(req'[c], req[c])
      /\ At(req'[c]) \in {"index", "snapshot", "fanout"}
      /\ \A j \in Notes \ {k} : files'[j] = files[j]
      /\ UNCHANGED loading
  BY <1>0, AppendEffect, IndexEffect, SnapshotEffect
<1>2. InWrite(req[c])
  BY <1>1 DEF InWrite
<1>3. ~NeverWritten(files'[k])
  <2>1. req[c].delta \in Stored(k)' /\ FileGood(k)'
    BY <1>0, <1>1 DEF ExactInv, WriterGood, Logged, SameWork
  <2> QED
    BY <2>1 DEF Stored, Loaded, LogTail, NeverWritten, FileGood
<1>4. /\ \A d \in Stored(k) : d.kind # "delete"
      /\ req[c].delta.kind # "delete"
  BY <1>1 DEF JudgedInv
<1>5. CASE AppendLog(c)
  <2>1. nodes' = nodes /\ At(req'[c]) = "index"
    BY <1>5, AppendEffect
  <2>2. Stored(k)' = Stored(k) \cup {req[c].delta}
    <3>1. /\ files[k] \in File(Delta) /\ nextSeq \in Nat /\ files[k].seq < nextSeq
          /\ req[c].delta \in Delta
          /\ files'[k] = Appended(files[k], nextSeq, req[c].delta)
      BY <1>0, <1>5, AppendEffect DEF TypeInv, TypeOK, ExactInv, FileGood
    <3> QED
      BY <3>1, LoadedAppended DEF Stored
  <2> QED
    BY <1>0, <1>1, <1>2, <1>3, <1>4, <2>1, <2>2, WriterJudged DEF Unjudged
<1>6. CASE Index(c)
  <2>1. files' = files /\ nodes' = Reindexed(k, heap[req[c].st].content)
    BY <1>0, <1>6, IndexEffect
  <2>2. heap[req[c].st].content = Stored(k)
    <3>1. /\ At(req[c]) = "index" /\ docs[k] = req[c].st /\ docs[k] # None
      BY <1>0, <1>6, IndexEffect, HubAssumption DEF ExactInv, WriterGood, Logged
    <3> QED
      BY <1>0, <1>2, <3>1, WriterDoc DEF Applied
  <2>3. nodes' = nodes \cup {k}
    BY <1>4, <2>1, <2>2 DEF Reindexed, Deleted
  <2>4. Stored(k)' = Stored(k)
    BY <2>1 DEF Stored
  <2> QED
    BY <1>0, <1>1, <1>2, <1>3, <1>4, <2>3, <2>4, WriterJudged DEF Unjudged
<1>7. CASE Snapshot(c)
  <2>1. nodes' = nodes /\ At(req[c]) = "snapshot" /\ At(req'[c]) = "fanout"
        /\ files'[k] = Compacted(files[k], heap[req[c].st].lastSeq, heap[req[c].st].content)
        /\ nextSeq' = nextSeq
    BY <1>0, <1>7, SnapshotEffect
  <2>2. docs[k] = req[c].st /\ docs[k] # None /\ req[c].st \in Objs
        /\ heap[req[c].st].lastSeq > 0 /\ req[c].delta \in Stored(k)
    BY <1>0, <2>1, <1>7, SnapshotEffect, HubAssumption DEF ExactInv, WriterGood, Logged
  <2>3. heap[req[c].st].content = Stored(k)
    BY <1>0, <1>2, <2>1, <2>2, WriterDoc DEF Applied
  <2>4. Stored(k)' = Stored(k)
    BY <2>1, <2>2, <2>3, SavedFile
  <2>5. ~NeverWritten(files[k])
    BY <2>2 DEF Stored, Loaded, LogTail, NeverWritten, ExactInv, FileGood
  <2>6. \A x \in Clients : req[x].note = k => At(req[x]) # "index"
    BY <1>0, <1>2, <2>1, WriterAlone, PlacesInWrite DEF Logged
  <2>7. k \in nodes
    BY <2>5, <2>6 DEF JudgedInv
  <2> QED
    BY <1>0, <1>1, <1>2, <1>3, <1>4, <2>1, <2>4, <2>7, WriterJudged DEF Unjudged
<1> QED
  BY <1>5, <1>6, <1>7

LEMMA LoadJudged ==
  ASSUME NoEviction, TypeInv, ExactInv, JudgedInv, NEW k \in Notes,
         Install(k) \/ LoadIndex(k)
  PROVE  JudgedInv'
<1> SUFFICES ASSUME Capped # {} PROVE JudgedInv'
  BY DEF JudgedInv
<1>1. /\ files' = files /\ nodes \subseteq nodes'
      /\ \A j \in Notes \ {k} : loading'[j] = loading[j]
      /\ loading'[k].stage = "index" => ~NeverWritten(files[k])
      /\ \A x \in Clients : SameWork(req'[x], req[x]) /\ At(req'[x]) = At(req[x])
  <2>1. CASE Install(k)
    <3>1. /\ UNCHANGED <<files, nodes>> /\ loading[k].stage = "read"
          /\ \A j \in Notes \ {k} : loading'[j] = loading[j]
          /\ loading'[k].stage = "index" => loading[k].written
          /\ \A x \in Clients : SameWork(req'[x], req[x]) /\ At(req'[x]) = At(req[x])
      BY <2>1, InstallEffect DEF store
    <3> QED
      BY <3>1 DEF ExactInv, LoadGood
  <2>2. CASE LoadIndex(k)
    <3>1. /\ loading[k].stage = "index" /\ EvictOrResolve(k, loading[k].obj, lru)
          /\ nodes' = Reindexed(k, loading[k].content) /\ files' = files
      BY <2>2 DEF LoadIndex
    <3>2. loading[k].obj \in Objs /\ lru \in Seq(Notes) /\ Once(lru)
      BY <3>1 DEF TypeInv, TypeOK, LoadShape, OrderShape
    <3>3. loading[k].content \subseteq Stored(k)
      BY <3>1 DEF ExactInv, LoadGood
    <3>4. nodes \subseteq nodes'
      BY <3>1, <3>3 DEF JudgedInv, Reindexed, Deleted
    <3> QED
      BY <3>1, <3>2, <3>4, ResolveEffect
  <2> QED
    BY <2>1, <2>2
<1>2. ASSUME NEW j \in Notes
      PROVE  /\ \A d \in Stored(j)' : d.kind # "delete"
             /\ ~NeverWritten(files'[j]) =>
                  \/ j \in nodes'
                  \/ \E x \in Clients : req'[x].note = j /\ At(req'[x]) = "index"
             /\ loading'[j].stage = "index" => ~NeverWritten(files'[j])
  BY <1>1 DEF JudgedInv, Stored, SameWork
<1>3. ASSUME NEW x \in Clients
      PROVE  /\ At(req'[x]) \notin {"idle", "opened", "reply", "purged"} =>
                  req'[x].delta.kind # "delete"
             /\ At(req'[x]) \in Unjudged /\ ~req'[x].existed =>
                  NeverWritten(files'[req'[x].note])
  BY <1>1 DEF JudgedInv, SameWork
<1> QED
  BY <1>2, <1>3 DEF JudgedInv

----------------------------------------------------------------------------
(* The steps of a calm hub.                                                *)

Handles(c) ==
  \/ Opened(c) \/ Reply(c)
  \/ UpdateLoad(c) \/ Apply(c) \/ Inspect(c) \/ Accept(c) \/ Reject(c) \/ Deny(c)
  \/ LocalLock(c) \/ LocalLoad(c) \/ LocalEdit(c)
  \/ AppendLog(c) \/ Index(c) \/ Snapshot(c) \/ FanOut(c)
  \/ EnforceNothing(c) \/ Enforce(c)

CalmNext ==
  \/ \E c \in Clients, k \in Notes :
       Open(c, k) \/ Sync1(c, k) \/ SendUpdate(c, k) \/ Http(c, k)
  \/ \E c \in Clients : Handles(c)
  \/ \E k \in Notes : Install(k) \/ LoadIndex(k)
  \/ Restart /\ "crash" \in Workload
  \/ UNCHANGED vars

LEMMA CalmSteps == Calm /\ ExactInv /\ [Next]_vars => CalmNext
<1> SUFFICES ASSUME Calm, ExactInv, [Next]_vars PROVE CalmNext
  OBVIOUS
<1>1. ASSUME NEW c \in Clients, Start(c) PROVE CalmNext
  BY <1>1 DEF Start, Purge, Calm, CalmNext
<1>2. ASSUME NEW c \in Clients, Step(c) PROVE CalmNext
  <2>1. ~PurgeEvict(c)
    BY DEF PurgeEvict, ExactInv, WriterGood, At
  <2> QED
    BY <1>2, <2>1 DEF Step, Handles, CalmNext
<1>3. ASSUME NEW k \in Notes, Load(k) PROVE CalmNext
  <2>1. loading[k].stage \in {"none", "read", "index"}
    BY DEF ExactInv, LoadGood
  <2> QED
    BY <1>3, <2>1 DEF Load, EvictWrite, EvictClean, EvictWritten, EvictNone, CalmNext
<1>4. /\ \A k \in Notes : ~Flush(k)
      /\ ~(\E s \in saves : Saved(s))
      /\ ~Shutdown /\ ~Exit
  BY DEF Flush, Shutdown, Exit, ExactInv, Calm
<1>5. CASE Crash
  BY <1>5 DEF Crash, CalmNext
<1>6. CASE UNCHANGED vars
  BY <1>6 DEF CalmNext
<1> QED
  BY <1>1, <1>2, <1>3, <1>4, <1>5, <1>6 DEF Next

HubInv == TypeInv /\ LockInv /\ ExactInv /\ JudgedInv

LEMMA StepExact ==
  ASSUME Calm, HubInv, TypeInv', LockInv', CalmNext
  PROVE  ExactInv' /\ JudgedInv'
<1> USE DEF HubInv
<1>0. NoEviction
  BY DEF Calm
<1>1. ASSUME NEW c \in Clients, NEW k \in Notes,
             Open(c, k) \/ Sync1(c, k) \/ SendUpdate(c, k) \/ Http(c, k)
      PROVE  ExactInv' /\ JudgedInv'
  BY <1>1, ReadExact, UpdateExact, StartJudged
<1>2. ASSUME NEW c \in Clients, Handles(c)
      PROVE  ExactInv' /\ JudgedInv'
  <2>1. CASE Opened(c) \/ Reply(c)
    BY <2>1, ReadEndExact, HandlerJudged
  <2>2. CASE UpdateLoad(c) \/ Inspect(c) \/ LocalLoad(c)
    BY <2>2, WriteLoadExact, HandlerJudged
  <2>3. CASE Apply(c) \/ LocalEdit(c)
    BY <2>3, ApplyExact, HandlerJudged
  <2>4. CASE Accept(c) \/ Reject(c) \/ LocalLock(c) \/ FanOut(c) \/ Enforce(c)
    BY <2>4, AcceptExact, RejectExact, LocalLockExact, FanOutExact, EnforceExact,
       HandlerJudged
  <2>5. CASE Deny(c) \/ EnforceNothing(c)
    BY <2>5, EndExact, HandlerJudged, DenyJudged
  <2>6. CASE AppendLog(c) \/ Index(c) \/ Snapshot(c)
    BY <2>6, AppendExact, IndexStepExact, SnapshotExact, CommitJudged
  <2> QED
    BY <1>2, <2>1, <2>2, <2>3, <2>4, <2>5, <2>6 DEF Handles
<1>3. ASSUME NEW k \in Notes, Install(k) \/ LoadIndex(k)
      PROVE  ExactInv' /\ JudgedInv'
  BY <1>0, <1>3, InstallExact, LoadIndexExact, LoadJudged
<1>5. CASE Restart /\ "crash" \in Workload
  <2>1. Capped = {}
    BY <1>5 DEF Calm
  <2> QED
    BY <1>5, <2>1, RestartExact DEF JudgedInv
<1>6. CASE UNCHANGED vars
  <2>1. UNCHANGED <<files, nodes, nextSeq, docs, heap, loading, req, stopping, saves>>
    BY <1>6 DEF vars
  <2>2. ExactInv'
    BY <2>1 DEF ExactInv, FileGood, DocGood, LoadGood, WriterGood, Stored, InHand
  <2>3. JudgedInv'
    BY <2>1 DEF JudgedInv, Stored
  <2> QED
    BY <2>2, <2>3
<1> QED
  BY <1>1, <1>2, <1>3, <1>5, <1>6 DEF CalmNext

LEMMA InitHubInv == Init => HubInv
<1>1. Init => JudgedInv
  BY DEF Init, JudgedInv, EmptyFile, Stored, Loaded, LogTail, NeverWritten, NoLoad,
         IdleReq, At, Unjudged
<1> QED
  BY <1>1, InitTypeInv, InitLockInv, InitExact DEF HubInv

LEMMA StepHubInv == Calm /\ HubInv /\ [Next]_vars => HubInv'
BY StepTypeInv, StepLockInv, StepExact, CalmSteps DEF HubInv

\* In a calm hub, whatever the numbers of notes, clients and updates: between
\* two writes the resident document of a note is what its snapshot and log
\* make, through loads, roll-backs, snapshots and crashes.
THEOREM ResidentIsStored ==
  ASSUME Calm
  PROVE  Spec => []ResidentExact
<1>1. HubInv => ResidentExact
  <2> SUFFICES ASSUME HubInv, NEW k \in Notes, Quiet(k), docs[k] # None
               PROVE  heap[docs[k]].content = Stored(k)
    BY DEF ResidentExact
  <2>1. InHand(k, Applied) = {}
    BY InHandNobody, HubAssumption DEF HubInv, Quiet, Applied
  <2> QED
    BY <2>1 DEF HubInv, ExactInv, DocGood
<1> QED
  BY InitHubInv, StepHubInv, <1>1, PTL DEF Spec

----------------------------------------------------------------------------
(* What a step adds to the store.                                          *)

SameStore == \A k \in Notes : Stored(k)' = Stored(k)

\* The delta that the handler of c has applied becomes stored.
Grows(c, k) ==
  /\ At(req[c]) = "append" /\ req[c].note = k
  /\ Stored(k)' = Stored(k) \cup {req[c].delta}
  /\ \A j \in Notes \ {k} : Stored(j)' = Stored(j)

LEMMA AppendGrows ==
  ASSUME HubInv, TypeInv', NEW c \in Clients, AppendLog(c)
  PROVE  \E k \in Notes : Grows(c, k)
<1>1. PICK k \in Notes : k = req[c].note
  BY AppendEffect DEF HubInv
<1>2. Stored(k)' = Stored(k) \cup {req[c].delta}
  BY <1>1, AppendExact DEF HubInv
<1>3. At(req[c]) = "append" /\ \A j \in Notes \ {k} : Stored(j)' = Stored(j)
  BY <1>1, AppendEffect DEF HubInv, Stored
<1> QED
  BY <1>1, <1>2, <1>3 DEF Grows

\* No step loses a delta, and one at most becomes stored, its writer's.
LEMMA StoreGrows ==
  ASSUME Calm, HubInv, TypeInv', CalmNext
  PROVE  SameStore \/ \E c \in Clients, k \in Notes : Grows(c, k)
<1>1. ASSUME files' = files PROVE SameStore
  BY <1>1 DEF SameStore, Stored
<1>2. ASSUME NEW c \in Clients, NEW k \in Notes,
             Open(c, k) \/ Sync1(c, k) \/ SendUpdate(c, k) \/ Http(c, k)
      PROVE  files' = files
  BY <1>2 DEF Open, Sync1, SendUpdate, Update, UpdateOverQuota, Http, store
<1>3. ASSUME NEW c \in Clients, Handles(c)
      PROVE  files' = files \/ SameStore \/ \E k \in Notes : Grows(c, k)
  <2>1. CASE AppendLog(c)
    BY <2>1, AppendGrows
  <2>2. CASE Snapshot(c)
    BY <2>2, SnapshotExact DEF HubInv, SameStore
  <2>3. CASE ~AppendLog(c) /\ ~Snapshot(c)
    BY <1>3, <2>3
    DEF Handles, Opened, Reply, UpdateLoad, Apply, Inspect, Accept, Reject, Deny,
        LocalLock, LocalLoad, LocalEdit, Index, FanOut, EnforceNothing, Enforce, store
  <2> QED
    BY <2>1, <2>2, <2>3
<1>4. ASSUME NEW k \in Notes, Install(k) \/ LoadIndex(k)
      PROVE  files' = files
  BY <1>4 DEF Install, LoadIndex, store
<1>5. CASE Restart \/ UNCHANGED vars
  BY <1>1, <1>5 DEF Restart, vars, store
<1> QED
  BY <1>1, <1>2, <1>3, <1>4, <1>5 DEF CalmNext

\* In a calm hub no step takes a delta out of what a fresh process would load:
\* compaction, roll-back and restart lose nothing.
THEOREM NothingIsLost ==
  ASSUME Calm
  PROVE  Spec => NothingLost
<1>1. HubInv /\ [Next]_vars =>
        [\A k \in Notes : Stored(k) \subseteq Stored(k)' \/ NeverWritten(files'[k])]_vars
  <2> SUFFICES ASSUME HubInv, [Next]_vars
               PROVE  \A k \in Notes : Stored(k) \subseteq Stored(k)'
    OBVIOUS
  <2>1. SameStore \/ \E c \in Clients, k \in Notes : Grows(c, k)
    BY StoreGrows, StepHubInv, CalmSteps DEF HubInv
  <2> QED
    BY <2>1 DEF SameStore, Grows
<1> QED
  BY InitHubInv, StepHubInv, <1>1, PTL DEF Spec, NothingLost

\* In a calm hub what enters the store of a note is the delta of the handler
\* that holds its lock: no older document and no load brings anything back.
THEOREM OnlyTheWriter ==
  ASSUME Calm
  PROVE  Spec => OnlyTheWriterPersists
<1>1. HubInv /\ [Next]_vars =>
        [\A k \in Notes :
           Stored(k)' \subseteq
             Stored(k) \cup {req[c].delta : c \in {x \in Clients : lock[k] = x}}]_vars
  <2> SUFFICES ASSUME HubInv, [Next]_vars, NEW k \in Notes
               PROVE  Stored(k)' \subseteq
                        Stored(k) \cup {req[c].delta : c \in {x \in Clients : lock[k] = x}}
    OBVIOUS
  <2>1. SameStore \/ \E c \in Clients, j \in Notes : Grows(c, j)
    BY StoreGrows, StepHubInv, CalmSteps DEF HubInv
  <2>2. ASSUME NEW c \in Clients, Grows(c, k)
        PROVE  lock[k] = c
    BY <2>2, WritingIsInWrite DEF Grows, HubInv, LockInv, InWrite
  <2> QED
    BY <2>1, <2>2 DEF SameStore, Grows
<1> QED
  BY InitHubInv, StepHubInv, <1>1, PTL DEF Spec, OnlyTheWriterPersists

\* Only FanOut sends `update` frames, of a delta that is stored.
LEMMA FannedStep ==
  ASSUME HubInv, CalmNext
  PROVE  \/ fanned' = fanned
         \/ /\ \E c \in Clients :
                 /\ req[c].note \in Notes /\ req[c].delta \in Delta
                 /\ req[c].delta \in Stored(req[c].note)
                 /\ fanned' = [fanned EXCEPT ![req[c].note] = @ \cup {req[c].delta}]
            /\ files' = files
<1>1. ASSUME NEW c \in Clients, NEW k \in Notes,
             Open(c, k) \/ Sync1(c, k) \/ SendUpdate(c, k) \/ Http(c, k)
      PROVE  fanned' = fanned
  BY <1>1 DEF Open, Sync1, SendUpdate, Update, UpdateOverQuota, Http, seen
<1>2. ASSUME NEW c \in Clients, Handles(c), ~FanOut(c)
      PROVE  fanned' = fanned
  BY <1>2
  DEF Handles, Opened, Reply, UpdateLoad, Apply, Inspect, Accept, Reject, Deny,
      LocalLock, LocalLoad, LocalEdit, AppendLog, Index, Snapshot, EnforceNothing,
      Enforce, seen
<1>3. ASSUME NEW c \in Clients, FanOut(c)
      PROVE  /\ req[c].note \in Notes /\ req[c].delta \in Delta
             /\ req[c].delta \in Stored(req[c].note)
             /\ fanned' = [fanned EXCEPT ![req[c].note] = @ \cup {req[c].delta}]
             /\ files' = files
  BY <1>3, FanOutEffect DEF HubInv, ExactInv, WriterGood, Logged, store
<1>4. ASSUME NEW k \in Notes, Install(k) \/ LoadIndex(k)
      PROVE  fanned' = fanned
  BY <1>4 DEF Install, LoadIndex, seen
<1>5. CASE Restart \/ UNCHANGED vars
  BY <1>5 DEF Restart, vars, seen
<1> QED
  BY <1>1, <1>2, <1>3, <1>4, <1>5 DEF CalmNext

LEMMA StepFanned ==
  Calm /\ HubInv /\ FannedIsDurable /\ [Next]_vars => FannedIsDurable'
<1> SUFFICES ASSUME Calm, HubInv, FannedIsDurable, [Next]_vars, NEW k \in Notes
             PROVE  fanned'[k] \subseteq Stored(k)'
  BY DEF FannedIsDurable
<1>1. Stored(k) \subseteq Stored(k)'
  BY StoreGrows, StepHubInv, CalmSteps DEF HubInv, SameStore, Grows
<1>2. fanned[k] \subseteq Stored(k) /\ fanned \in [Notes -> SUBSET Delta]
  BY DEF FannedIsDurable, HubInv, TypeInv, TypeOK
<1>3. fanned'[k] \subseteq Stored(k)
  BY <1>2, FannedStep, CalmSteps DEF HubInv
<1> QED
  BY <1>1, <1>3

\* In a calm hub whatever was sent to another client in an `update` frame is
\* in what a fresh process would load, from then on.
THEOREM FannedStaysDurable ==
  ASSUME Calm
  PROVE  Spec => []FannedIsDurable
<1>1. Init => FannedIsDurable
  BY DEF Init, FannedIsDurable
<1> QED
  BY InitHubInv, StepHubInv, StepFanned, <1>1, PTL DEF Spec

\* A calm hub implements the log of NoteLog: every step accepts one delta of a
\* note, shows one that is accepted, or is none of the log's business.
THEOREM ImplementsLog ==
  ASSUME Calm
  PROVE  Spec => LogSpec
<1> DEFINE note == [k \in Notes |-> Stored(k)]
<1>1. Init => Log!Init
  BY DEF Init, Log!Init, Stored, Loaded, LogTail, EmptyFile
<1>2. HubInv /\ [Next]_vars => [Log!Next]_(Log!vars)
  <2> SUFFICES ASSUME HubInv, [Next]_vars PROVE [Log!Next]_(Log!vars)
    OBVIOUS
  <2>0. HubInv' /\ CalmNext
    BY StepHubInv, CalmSteps DEF HubInv
  <2>1. CASE SameStore /\ fanned' = fanned
    BY <2>1 DEF Log!vars, SameStore
  <2>2. ASSUME NEW c \in Clients, NEW k \in Notes, Grows(c, k), fanned' = fanned
        PROVE  Log!Next
    <3>1. req[c].delta \in Delta
      BY <2>2 DEF Grows, HubInv, TypeInv, HandlerShape
    <3>2. note' = [note EXCEPT ![k] = @ \cup {req[c].delta}]
      BY <2>2 DEF Grows
    <3>3. Log!Accept(k, req[c].delta)
      BY <2>2, <3>2 DEF Log!Accept
    <3> QED
      BY <3>1, <3>3 DEF Log!Next
  <2>3. ASSUME NEW c \in Clients,
               req[c].note \in Notes, req[c].delta \in Delta,
               req[c].delta \in Stored(req[c].note),
               fanned' = [fanned EXCEPT ![req[c].note] = @ \cup {req[c].delta}],
               files' = files
        PROVE  Log!Next
    <3>1. note' = note
      BY <2>3 DEF Stored
    <3>2. Log!Show(req[c].note, req[c].delta)
      BY <2>3, <3>1 DEF Log!Show
    <3> QED
      BY <2>3, <3>2 DEF Log!Next
  <2>4. SameStore \/ \E c \in Clients, k \in Notes : Grows(c, k)
    BY <2>0, StoreGrows DEF HubInv
  <2>5. files' = files => SameStore
    BY DEF SameStore, Stored
  <2> QED
    BY <2>0, <2>1, <2>2, <2>3, <2>4, FannedStep
<1> QED
  BY InitHubInv, StepHubInv, <1>1, <1>2, PTL DEF Spec, LogSpec, Log!Spec

----------------------------------------------------------------------------
(* What is refused is not stored.                                          *)

\* A handler with an update in hand.
Carries(r) == At(r) \notin {"idle", "opened", "reply", "purged"}

\* Every update has a number of its own, and a refused one is in no store and
\* in no hand; one that is yet to be judged is in no store either.
RefusedInv ==
  /\ \A d \in denied : d.n <= sent[d.by] /\ d.kind # "draft"
  /\ \A k \in Notes : \A d \in Stored(k) : d.n <= sent[d.by] /\ d \notin denied
  /\ \A c \in Clients :
       Carries(req[c]) =>
         /\ req[c].delta.by = c /\ req[c].delta.n <= sent[c]
         /\ req[c].delta \notin denied
         /\ At(req[c]) \in Unjudged =>
              /\ req[c].delta.kind # "draft"
              /\ \A k \in Notes : req[c].delta \notin Stored(k)

\* x goes on with the update it has, or drops it, and is not judged anew.
GoesOn(x) ==
  Carries(req'[x]) =>
    /\ Carries(req[x]) /\ req'[x].delta = req[x].delta
    /\ At(req'[x]) \in Unjudged => At(req[x]) \in Unjudged

LEMMA RefusedKept ==
  ASSUME RefusedInv, sent' = sent, denied' = denied,
         SameStore \/ \E c \in Clients, k \in Notes : Grows(c, k),
         \A x \in Clients : GoesOn(x)
  PROVE  RefusedInv'
<1>1. \A k \in Notes : \A d \in Stored(k)' :
        \/ d \in Stored(k)
        \/ \E c \in Clients : At(req[c]) = "append" /\ d = req[c].delta
  BY DEF SameStore, Grows
<1>2. \A c \in Clients : At(req[c]) = "append" => Carries(req[c])
  BY DEF Carries
<1>3. \A k \in Notes : \A d \in Stored(k)' : d.n <= sent[d.by] /\ d \notin denied
  BY <1>1, <1>2 DEF RefusedInv
<1>4. ASSUME NEW x \in Clients, Carries(req'[x])
      PROVE  /\ req'[x].delta.by = x /\ req'[x].delta.n <= sent[x]
             /\ req'[x].delta \notin denied
             /\ At(req'[x]) \in Unjudged =>
                  /\ req'[x].delta.kind # "draft"
                  /\ \A k \in Notes : req'[x].delta \notin Stored(k)'
  <2>1. Carries(req[x]) /\ req'[x].delta = req[x].delta
    BY <1>4 DEF GoesOn
  <2>2. ASSUME At(req'[x]) \in Unjudged
        PROVE  /\ req[x].delta.kind # "draft"
               /\ \A k \in Notes : req[x].delta \notin Stored(k)'
    <3>1. At(req[x]) \in Unjudged /\ At(req[x]) # "append"
      BY <1>4, <2>2 DEF GoesOn, Unjudged
    <3> QED
      BY <1>1, <1>2, <2>1, <3>1 DEF RefusedInv
  <2> QED
    BY <2>1, <2>2 DEF RefusedInv
<1> QED
  BY <1>3, <1>4 DEF RefusedInv

\* A client's next update has not been seen anywhere.
LEMMA NextDeltaFresh ==
  ASSUME TypeInv, RefusedInv, NEW c \in Clients, NEW kind \in Kinds, sent[c] < MaxSends
  PROVE  LET d == NextDelta(c, kind) IN
         /\ d \in Delta /\ d.by = c /\ d.n = sent[c] + 1 /\ d.kind = kind
         /\ d \notin denied /\ \A k \in Notes : d \notin Stored(k)
<1> DEFINE d == NextDelta(c, kind)
<1>1. d \in Delta /\ d.by = c /\ d.n = sent[c] + 1 /\ d.kind = kind
  BY NextDeltaType DEF NextDelta
<1> HIDE DEF d
<1>2. sent[c] \in Nat
  BY DEF TypeInv, TypeOK
<1> QED
  BY <1>1, <1>2 DEF RefusedInv, d

\* A client numbers an update: what others have is older.
LEMMA RefusedNew ==
  ASSUME TypeInv, RefusedInv, NEW c \in Clients, NEW d \in Delta,
         d.by = c, d.n = sent[c] + 1, d.kind # "draft",
         d \notin denied, \A k \in Notes : d \notin Stored(k),
         At(req[c]) = "idle", Others(c),
         sent' = [sent EXCEPT ![c] = @ + 1], SameStore,
         \/ denied' = denied /\ (Carries(req'[c]) => req'[c].delta = d)
         \/ denied' = denied \cup {d} /\ ~Carries(req'[c])
  PROVE  RefusedInv'
<1>1. /\ sent \in [Clients -> 0 .. MaxSends] /\ MaxSends \in Nat
      /\ \A e \in denied : e.by \in Clients /\ e.n \in Nat
      /\ \A k \in Notes : \A e \in Stored(k) : e.by \in Clients /\ e.n \in Nat
  <2>1. \A e \in Delta : e.by \in Clients /\ e.n \in Nat
    BY DEF Delta
  <2>2. sent \in [Clients -> 0 .. MaxSends] /\ denied \subseteq Delta
    BY DEF TypeInv, TypeOK
  <2> QED
    BY <2>1, <2>2, LoadedType, HubAssumption
<1>2. \A x \in Clients : sent[x] \in Nat /\ sent[x] <= sent'[x]
  BY <1>1
<1>3. sent'[c] = sent[c] + 1
  BY <1>1
<1>4. \A e \in denied' : e.n <= sent'[e.by] /\ e.kind # "draft"
  <2>1. \A e \in denied : e.n <= sent'[e.by] /\ e.kind # "draft"
    <3> TAKE e \in denied
    <3>1. e.n <= sent[e.by] /\ e.kind # "draft" /\ e.by \in Clients /\ e.n \in Nat
      BY <1>1 DEF RefusedInv
    <3> QED
      BY <1>1, <1>2, <3>1
  <2>2. d.n <= sent'[d.by]
    BY <1>2, <1>3
  <2> QED
    BY <2>1, <2>2
<1>5. \A k \in Notes : \A e \in Stored(k)' : e.n <= sent'[e.by] /\ e \notin denied'
  <2>1. \A k \in Notes : \A e \in Stored(k) : e.n <= sent'[e.by]
    <3> TAKE k \in Notes
    <3> TAKE e \in Stored(k)
    <3>1. e.n <= sent[e.by] /\ e.by \in Clients /\ e.n \in Nat
      BY <1>1 DEF RefusedInv
    <3> QED
      BY <1>1, <1>2, <3>1
  <2> QED
    BY <2>1 DEF RefusedInv, SameStore
<1>6. ASSUME NEW x \in Clients, Carries(req'[x])
      PROVE  /\ req'[x].delta.by = x /\ req'[x].delta.n <= sent'[x]
             /\ req'[x].delta \notin denied'
             /\ At(req'[x]) \in Unjudged =>
                  /\ req'[x].delta.kind # "draft"
                  /\ \A k \in Notes : req'[x].delta \notin Stored(k)'
  <2>1. CASE x = c
    BY <1>2, <1>3, <1>6, <2>1 DEF SameStore
  <2>2. CASE x # c
    <3>1. req'[x] = req[x] /\ Carries(req[x])
      BY <1>6, <2>2 DEF Others
    <3>2. /\ req[x].delta.by = x /\ req[x].delta.n <= sent[x] /\ req[x].delta \notin denied
          /\ req[x].delta \in Delta
          /\ At(req[x]) \in Unjudged =>
               /\ req[x].delta.kind # "draft"
               /\ \A k \in Notes : req[x].delta \notin Stored(k)
      BY <3>1 DEF RefusedInv, TypeInv, HandlerShape, Carries
    <3>3. sent'[x] = sent[x]
      BY <1>1, <2>2
    <3> QED
      BY <2>2, <3>1, <3>2, <3>3 DEF SameStore
  <2> QED
    BY <2>1, <2>2
<1> QED
  BY <1>4, <1>5, <1>6 DEF RefusedInv

LEMMA StartRefused ==
  ASSUME HubInv, RefusedInv, NEW c \in Clients, NEW k \in Notes,
         Open(c, k) \/ Sync1(c, k) \/ SendUpdate(c, k) \/ Http(c, k)
  PROVE  RefusedInv'
<1> USE DEF HubInv
<1>1. CASE Open(c, k) \/ Sync1(c, k) \/ Http(c, k)
  <2>1. PICK r \in Requests :
          /\ r.note = k /\ r.pc \in {"opened", "reply", "routed"} /\ GetDoc(c, r)
          /\ r.pc = "routed" =>
               /\ \E kind \in {"patch", "delete"} : r.delta = NextDelta(c, kind)
               /\ sent[c] < MaxSends /\ sent' = [sent EXCEPT ![c] = @ + 1]
          /\ r.pc # "routed" => sent' = sent
    BY <1>1, ReadEffect
  <2>2. At(req[c]) = "idle" /\ SameStore /\ denied' = denied
    BY <1>1, ReadEffect DEF store, seen, SameStore, Stored
  <2>3. Others(c) /\ At(req'[c]) = r.pc /\ req'[c].delta = r.delta
    BY <2>1, GetDocEffect DEF LoadPlaces, SameWork
  <2>4. CASE r.pc = "routed"
    <3>1. PICK kind \in {"patch", "delete"} : r.delta = NextDelta(c, kind)
      BY <2>1, <2>4
    <3>2. /\ r.delta \in Delta /\ r.delta.by = c /\ r.delta.n = sent[c] + 1
          /\ r.delta.kind # "draft" /\ r.delta \notin denied
          /\ \A j \in Notes : r.delta \notin Stored(j)
      BY <2>1, <2>4, <3>1, NextDeltaFresh DEF Kinds
    <3> QED
      BY <2>1, <2>2, <2>3, <2>4, <3>2, RefusedNew
  <2>5. CASE r.pc # "routed"
    <3>1. \A x \in Clients : GoesOn(x)
      BY <2>1, <2>3, <2>5 DEF GoesOn, Others, Carries
    <3> QED
      BY <2>1, <2>2, <2>5, <3>1, RefusedKept
  <2> QED
    BY <2>4, <2>5
<1>2. CASE SendUpdate(c, k)
  <2>1. PICK kind \in {"edit", "secret"} :
          Update(c, k, NextDelta(c, kind)) \/ UpdateOverQuota(c, k, NextDelta(c, kind))
    BY <1>2 DEF SendUpdate
  <2>2. At(req[c]) = "idle" /\ sent[c] < MaxSends /\ sent' = [sent EXCEPT ![c] = @ + 1]
    BY <2>1 DEF Update, UpdateOverQuota, Make, Idle, At
  <2> DEFINE d == NextDelta(c, kind)
  <2>3. /\ d \in Delta /\ d.by = c /\ d.n = sent[c] + 1 /\ d.kind # "draft"
        /\ d \notin denied /\ \A j \in Notes : d \notin Stored(j)
    BY <2>2, NextDeltaFresh DEF Kinds
  <2> HIDE DEF d
  <2>4. CASE Update(c, k, d)
    <3>1. /\ Others(c) /\ req'[c].delta = d /\ UNCHANGED <<files, denied>>
      BY <2>4, UpdateEffect DEF store
    <3>2. SameStore
      BY <3>1 DEF SameStore, Stored
    <3> QED
      BY <2>2, <2>3, <3>1, <3>2, RefusedNew
  <2>5. CASE UpdateOverQuota(c, k, d)
    <3>1. UNCHANGED <<files, req>> /\ denied' = denied \cup {d}
      BY <2>5 DEF UpdateOverQuota, store
    <3>2. SameStore /\ Others(c) /\ ~Carries(req'[c])
      BY <2>2, <3>1 DEF SameStore, Stored, Others, Carries
    <3> QED
      BY <2>2, <2>3, <3>1, <3>2, RefusedNew
  <2> QED
    BY <2>1, <2>4, <2>5 DEF d
<1> QED
  BY <1>1, <1>2

\* r1 is r a step further with the same update.
Turns ==
  {<<"checked", "apply">>, <<"apply", "inspect">>, <<"apply", "append">>,
   <<"inspect", "judge">>, <<"judge", "append">>, <<"judge", "unindex">>,
   <<"routed", "patch">>, <<"patch", "edit">>, <<"edit", "append">>,
   <<"append", "index">>, <<"index", "snapshot">>, <<"index", "fanout">>,
   <<"snapshot", "fanout">>, <<"fanout", "enforce">>}
Turn(r, r1) ==
  /\ r1.note = r.note /\ r1.delta = r.delta /\ r1.via = r.via
  /\ <<At(r), At(r1)>> \in Turns

\* A handler ends, goes a step further, or turns to the agent policy.
LEMMA HandlerTurns ==
  ASSUME TypeInv, NEW c \in Clients, Handles(c)
  PROVE  /\ Others(c) /\ sent' = sent
         /\ \/ /\ At(req'[c]) = "idle"
               /\ At(req[c]) \in {"opened", "reply", "unindex", "fanout", "enforce"}
            \/ Turn(req[c], req'[c])
            \/ Enforce(c)
<1>1. CASE Opened(c) \/ Reply(c) \/ Deny(c) \/ EnforceNothing(c)
  <2>1. /\ req' = [req EXCEPT ![c] = IdleReq] /\ sent' = sent
        /\ At(req[c]) \in {"opened", "reply", "unindex", "enforce"}
    BY <1>1 DEF Opened, Reply, Deny, EnforceNothing, Release, At
  <2> QED
    BY <2>1, EndEffect
<1>2. CASE UpdateLoad(c) \/ Inspect(c) \/ LocalLoad(c)
  BY <1>2, WriteLoadEffect DEF SameWork, Turn, Turns
<1>3. CASE Apply(c) \/ LocalEdit(c)
  BY <1>3, ApplyEffect DEF Turn, Turns
<1>4. CASE Accept(c)
  <2>1. At(req[c]) = "judge" /\ sent' = sent
    BY <1>4 DEF Accept, At
  <2> QED
    BY <1>4, <2>1, GotoEffect DEF Accept, Places, SameWork, Turn, Turns
<1>5. CASE Reject(c)
  BY <1>5, RejectEffect DEF SameWork, Turn, Turns
<1>6. CASE LocalLock(c)
  BY <1>6, LocalLockEffect DEF SameWork, Turn, Turns
<1>7. CASE AppendLog(c)
  BY <1>7, AppendEffect DEF SameWork, Turn, Turns
<1>8. CASE Index(c)
  BY <1>8, IndexEffect DEF SameWork, Turn, Turns
<1>9. CASE Snapshot(c)
  BY <1>9, SnapshotEffect DEF SameWork, Turn, Turns
<1>10. CASE FanOut(c)
  BY <1>10, FanOutEffect DEF SameWork, Turn, Turns
<1>11. CASE Enforce(c)
  BY <1>11, EnforceEffect
<1> QED
  BY <1>1, <1>2, <1>3, <1>4, <1>5, <1>6, <1>7, <1>8, <1>9, <1>10, <1>11 DEF Handles

\* The other steps leave every handler at its place with its work.
Stays(x) == SameWork(req'[x], req[x]) /\ At(req'[x]) = At(req[x])

LEMMA RestStays ==
  ASSUME NoEviction, TypeInv,
         \/ \E k \in Notes : Install(k) \/ LoadIndex(k)
         \/ UNCHANGED vars
  PROVE  /\ \A x \in Clients : Stays(x)
         /\ UNCHANGED <<open, sent, got, synced, denied>>
<1>1. ASSUME NEW k \in Notes, Install(k)
      PROVE  /\ \A x \in Clients : Stays(x)
             /\ UNCHANGED <<open, sent, got, synced, denied>>
  BY <1>1, InstallEffect DEF Stays, seen
<1>2. ASSUME NEW k \in Notes, LoadIndex(k)
      PROVE  /\ \A x \in Clients : Stays(x)
             /\ UNCHANGED <<open, sent, got, synced, denied>>
  <2>1. /\ EvictOrResolve(k, loading[k].obj, lru)
        /\ UNCHANGED <<open, sent, got, synced, denied>>
    BY <1>2 DEF LoadIndex, seen
  <2>2. loading[k].obj \in Objs /\ lru \in Seq(Notes) /\ Once(lru)
    BY <1>2 DEF LoadIndex, TypeInv, TypeOK, LoadShape, OrderShape
  <2> QED
    BY <2>1, <2>2, ResolveEffect DEF Stays
<1>3. ASSUME UNCHANGED vars
      PROVE  UNCHANGED <<req, open, sent, got, synced, denied>>
  BY <1>3 DEF vars, seen
<1> QED
  BY <1>1, <1>2, <1>3 DEF Stays, SameWork

LEMMA HandlerRefused ==
  ASSUME Calm, HubInv, TypeInv', RefusedInv, NEW c \in Clients, Handles(c)
  PROVE  RefusedInv'
<1> USE DEF HubInv
<1>0. /\ Others(c) /\ sent' = sent
      /\ SameStore \/ \E x \in Clients, k \in Notes : Grows(x, k)
  BY HandlerTurns, StoreGrows DEF CalmNext
<1>1. CASE Deny(c)
  <2>1. /\ At(req[c]) = "unindex" /\ SameStore
        /\ denied' = denied \cup {req[c].delta} /\ req' = [req EXCEPT ![c] = IdleReq]
    BY <1>1 DEF Deny, Release, At, SameStore, Stored
  <2>2. ~Carries(req'[c])
    BY <2>1, EndEffect DEF Carries
  <2>3. /\ req[c].delta.by = c /\ req[c].delta.n <= sent[c]
        /\ req[c].delta.kind # "draft" /\ \A k \in Notes : req[c].delta \notin Stored(k)
    BY <2>1 DEF RefusedInv, Carries, Unjudged
  <2>4. ASSUME NEW x \in Clients, Carries(req'[x])
        PROVE  /\ req'[x].delta.by = x /\ req'[x].delta.n <= sent'[x]
               /\ req'[x].delta \notin denied'
               /\ At(req'[x]) \in Unjudged =>
                    /\ req'[x].delta.kind # "draft"
                    /\ \A k \in Notes : req'[x].delta \notin Stored(k)'
    <3>1. x # c /\ req'[x] = req[x]
      BY <1>0, <2>2, <2>4 DEF Others
    <3> QED
      BY <1>0, <2>1, <2>3, <2>4, <3>1 DEF RefusedInv, SameStore
  <2>5. /\ \A d \in denied' : d.n <= sent'[d.by] /\ d.kind # "draft"
        /\ \A k \in Notes : \A d \in Stored(k)' : d.n <= sent'[d.by] /\ d \notin denied'
    BY <1>0, <2>1, <2>3 DEF RefusedInv, SameStore
  <2> QED
    BY <2>4, <2>5 DEF RefusedInv
<1>2. CASE Enforce(c)
  <2>1. /\ req[c].delta \in Delta /\ At(req'[c]) = "patch" /\ At(req[c]) = "enforce"
        /\ req'[c].delta = [req[c].delta EXCEPT !.kind = "draft"]
        /\ SameStore /\ denied' = denied
    BY <1>2, EnforceEffect DEF store, seen, SameStore, Stored
  <2>2. /\ req'[c].delta.by = req[c].delta.by /\ req'[c].delta.n = req[c].delta.n
        /\ req'[c].delta.kind = "draft"
    BY <2>1 DEF Delta
  <2>3. ASSUME NEW x \in Clients, Carries(req'[x])
        PROVE  /\ req'[x].delta.by = x /\ req'[x].delta.n <= sent'[x]
               /\ req'[x].delta \notin denied'
               /\ At(req'[x]) \in Unjudged =>
                    /\ req'[x].delta.kind # "draft"
                    /\ \A k \in Notes : req'[x].delta \notin Stored(k)'
    <3>1. CASE x = c
      BY <1>0, <2>1, <2>2, <3>1 DEF RefusedInv, Carries, Unjudged
    <3>2. CASE x # c
      BY <1>0, <2>1, <2>3, <3>2 DEF RefusedInv, SameStore, Others
    <3> QED
      BY <3>1, <3>2
  <2>4. /\ \A d \in denied' : d.n <= sent'[d.by] /\ d.kind # "draft"
        /\ \A k \in Notes : \A d \in Stored(k)' : d.n <= sent'[d.by] /\ d \notin denied'
    BY <1>0, <2>1 DEF RefusedInv, SameStore
  <2> QED
    BY <2>3, <2>4 DEF RefusedInv
<1>3. CASE ~Deny(c) /\ ~Enforce(c)
  <2>1. denied' = denied
    BY <1>3
    DEF Handles, Opened, Reply, UpdateLoad, Apply, Inspect, Accept, Reject, LocalLock,
        LocalLoad, LocalEdit, AppendLog, Index, Snapshot, FanOut, EnforceNothing, seen
  <2>2. GoesOn(c)
    BY <1>3, HandlerTurns DEF GoesOn, Turn, Turns, Carries, Unjudged
  <2>3. \A x \in Clients : GoesOn(x)
    BY <1>0, <2>2 DEF GoesOn, Others
  <2> QED
    BY <1>0, <2>1, <2>3, RefusedKept
<1> QED
  BY <1>1, <1>2, <1>3

LEMMA StepRefused == Calm /\ HubInv /\ RefusedInv /\ [Next]_vars => RefusedInv'
<1> SUFFICES ASSUME Calm, HubInv, RefusedInv, [Next]_vars PROVE RefusedInv'
  OBVIOUS
<1>0. HubInv' /\ CalmNext /\ NoEviction /\ TypeInv
  BY StepHubInv, CalmSteps DEF HubInv, Calm
<1>1. SameStore \/ \E c \in Clients, k \in Notes : Grows(c, k)
  BY <1>0, StoreGrows DEF HubInv
<1>2. CASE \/ \E k \in Notes : Install(k) \/ LoadIndex(k)
           \/ UNCHANGED vars
  <2>1. (\A x \in Clients : Stays(x)) /\ UNCHANGED <<sent, denied>>
    BY <1>0, <1>2, RestStays
  <2>2. \A x \in Clients : GoesOn(x)
    BY <2>1 DEF Stays, SameWork, GoesOn, Carries
  <2> QED
    BY <1>1, <2>1, <2>2, RefusedKept
<1>3. CASE Restart
  <2>1. /\ \A x \in Clients : req'[x] = IdleReq
        /\ UNCHANGED <<sent, denied>>
    BY <1>3 DEF Restart
  <2>2. \A x \in Clients : GoesOn(x)
    BY <2>1 DEF GoesOn, Carries, IdleReq, At
  <2> QED
    BY <1>1, <2>1, <2>2, RefusedKept
<1> QED
  BY <1>0, <1>2, <1>3, StartRefused, HandlerRefused DEF CalmNext, HubInv

LEMMA InitRefused == Init => RefusedInv
BY DEF Init, RefusedInv, EmptyFile, Stored, Loaded, LogTail, IdleReq, At, Carries

\* In a calm hub a write answered with an error is in no snapshot and no log,
\* whatever loads, other writers and roll-backs run beside the one that judged
\* it.
THEOREM RejectedStaysOut ==
  ASSUME Calm
  PROVE  Spec => []RejectedNotDurable
<1>1. RefusedInv => RejectedNotDurable
  BY DEF RefusedInv, RejectedNotDurable
<1> QED
  BY InitHubInv, StepHubInv, InitRefused, StepRefused, <1>1, PTL DEF Spec

----------------------------------------------------------------------------
(* The path an update came by.                                             *)

\* What a client sent over its socket it has itself; the hub's own edits are
\* draft tags, and no agent writes over HTTP.
Unshown == Applied \cup Logged
Sender(x) ==
  LET r == req[x] IN
  /\ At(r) \in Unshown \cup {"checked", "apply"} /\ r.via = "ws" =>
       r.delta \in got[x][r.note]
  /\ At(r) \in {"routed", "patch", "edit"} => r.via # "ws"
  /\ Carries(r) /\ r.via = "policy" => r.delta.kind = "draft"
  /\ Carries(r) /\ r.via = "http" => x \notin Agents
SenderInv == \A x \in Clients : Sender(x)

GotGrows == \A x \in Clients, k \in Notes : got[x][k] \subseteq got'[x][k]

\* A handler that only moves keeps to its path.
LEMMA SenderKept ==
  ASSUME TypeInv, NEW x \in Clients, Sender(x), GotGrows,
         Stays(x) \/ Turn(req[x], req'[x]) \/ At(req'[x]) = "idle"
  PROVE  Sender(x)'
<1>1. CASE At(req'[x]) = "idle"
  BY <1>1 DEF Sender, Unshown, Applied, Logged, Carries
<1>2. CASE At(req'[x]) # "idle" /\ (Stays(x) \/ Turn(req[x], req'[x]))
  <2>1. /\ req'[x].note = req[x].note /\ req'[x].delta = req[x].delta
        /\ req'[x].via = req[x].via
    BY <1>2 DEF Stays, SameWork, Turn
  <2>2. At(req'[x]) = At(req[x]) \/ <<At(req[x]), At(req'[x])>> \in Turns
    BY <1>2 DEF Stays, Turn
  <2>3. /\ Carries(req'[x]) => Carries(req[x])
        /\ At(req'[x]) \in {"patch", "edit"} => At(req[x]) \in {"routed", "patch", "edit"}
        /\ At(req'[x]) = "routed" => At(req[x]) = "routed"
        /\ At(req'[x]) \in Unshown \cup {"checked", "apply"} =>
             \/ At(req[x]) \in Unshown \cup {"checked", "apply"}
             \/ At(req[x]) = "edit"
    BY <2>2 DEF Turns, Carries, Unshown, Applied, Logged
  <2>4. Carries(req[x]) => req[x].note \in Notes
    BY DEF TypeInv, HandlerShape, Carries
  <2>5. At(req[x]) \in Unshown \cup {"checked", "apply"} => Carries(req[x])
    BY DEF Carries, Unshown, Applied, Logged
  <2>6. got[x][req[x].note] \subseteq got'[x][req[x].note] \/ ~Carries(req[x])
    BY <2>4 DEF GotGrows
  <2> QED
    BY <2>1, <2>3, <2>5, <2>6 DEF Sender
<1> QED
  BY <1>1, <1>2

LEMMA StartSender ==
  ASSUME HubInv, SenderInv, NEW c \in Clients, NEW k \in Notes,
         Open(c, k) \/ Sync1(c, k) \/ SendUpdate(c, k) \/ Http(c, k)
  PROVE  SenderInv' /\ GotGrows
<1> USE DEF HubInv
<1>0. got \in [Clients -> [Notes -> SUBSET Delta]]
  BY DEF TypeInv, TypeOK
<1>1. CASE Open(c, k) \/ Sync1(c, k) \/ Http(c, k)
  <2>1. PICK r \in Requests :
          /\ r.note = k /\ r.pc \in {"opened", "reply", "routed"} /\ GetDoc(c, r)
          /\ r.pc = "routed" => c \notin Agents /\ r.via = "http"
    BY <1>1, ReadEffect
  <2>2. GotGrows
    BY <1>1, ReadEffect DEF seen, GotGrows
  <2>3. Others(c) /\ At(req'[c]) = r.pc /\ req'[c].via = r.via
    BY <2>1, GetDocEffect DEF LoadPlaces, SameWork
  <2>4. Sender(c)'
    BY <2>1, <2>3 DEF Sender, Unshown, Applied, Logged, Carries
  <2>5. \A x \in Clients \ {c} : Stays(x)
    BY <2>3 DEF Others, Stays, SameWork
  <2> QED
    BY <2>2, <2>4, <2>5, SenderKept DEF SenderInv
<1>2. CASE SendUpdate(c, k)
  <2>1. PICK d : Update(c, k, d) \/ UpdateOverQuota(c, k, d)
    BY <1>2 DEF SendUpdate
  <2>2. got' = [got EXCEPT ![c][k] = @ \cup {d}]
    BY <2>1 DEF Update, UpdateOverQuota, Make
  <2>3. GotGrows /\ d \in got'[c][k]
    BY <1>0, <2>2 DEF GotGrows
  <2>4. CASE Update(c, k, d)
    <3>1. /\ Others(c) /\ At(req'[c]) = "checked" /\ req'[c].note = k
          /\ req'[c].delta = d /\ req'[c].via = "ws"
      BY <2>4, UpdateEffect
    <3>2. Sender(c)'
      BY <2>3, <3>1 DEF Sender
    <3>3. \A x \in Clients \ {c} : Stays(x)
      BY <3>1 DEF Others, Stays, SameWork
    <3> QED
      BY <2>3, <3>2, <3>3, SenderKept DEF SenderInv
  <2>5. CASE UpdateOverQuota(c, k, d)
    <3>1. \A x \in Clients : Stays(x)
      BY <2>5 DEF UpdateOverQuota, Stays, SameWork
    <3> QED
      BY <2>3, <3>1, SenderKept DEF SenderInv
  <2> QED
    BY <2>1, <2>4, <2>5
<1> QED
  BY <1>1, <1>2

LEMMA HandlerSender ==
  ASSUME HubInv, SenderInv, NEW c \in Clients, Handles(c)
  PROVE  SenderInv' /\ GotGrows
<1> USE DEF HubInv
<1>1. GotGrows
  <2>1. got \in [Clients -> [Notes -> SUBSET Delta]]
    BY DEF TypeInv, TypeOK
  <2>2. CASE Reply(c)
    <3>1. req[c].note \in Notes
      BY <2>2 DEF Reply, TypeInv, HandlerShape, At
    <3> QED
      BY <2>1, <2>2, <3>1 DEF Reply, GotGrows
  <2>3. CASE FanOut(c)
    <3>1. \A x \in Clients, j \in Notes :
            got'[x][j] = IF x \in Audience(c) /\ j = req[c].note
                         THEN got[x][j] \cup {req[c].delta} ELSE got[x][j]
      BY ONLY TypeInv, <2>3, FanOutEffect, c \in Clients
    <3> QED
      BY ONLY <3>1 DEF GotGrows
  <2>4. CASE ~Reply(c) /\ ~FanOut(c)
    BY <2>4
    DEF GotGrows, Handles, Opened, UpdateLoad, Apply, Inspect, Accept, Reject, Deny,
        LocalLock, LocalLoad, LocalEdit, AppendLog, Index, Snapshot, EnforceNothing,
        Enforce, seen
  <2> QED
    BY <2>2, <2>3, <2>4
<1>2. Others(c) /\ (At(req'[c]) = "idle" \/ Turn(req[c], req'[c]) \/ Enforce(c))
  BY HandlerTurns
<1>3. \A x \in Clients \ {c} : Stays(x)
  BY <1>2 DEF Others, Stays, SameWork
<1>4. CASE Enforce(c)
  <2>1. /\ At(req'[c]) = "patch" /\ req'[c].via = "policy" /\ req[c].delta \in Delta
        /\ req'[c].delta = [req[c].delta EXCEPT !.kind = "draft"]
    BY <1>4, EnforceEffect
  <2>2. req'[c].delta.kind = "draft"
    BY <2>1 DEF Delta
  <2>3. Sender(c)'
    BY <2>1, <2>2 DEF Sender, Unshown, Applied, Logged
  <2> QED
    BY <1>1, <1>3, <2>3, SenderKept DEF SenderInv
<1> QED
  BY <1>1, <1>2, <1>3, <1>4, SenderKept DEF SenderInv

LEMMA StepSender == Calm /\ HubInv /\ SenderInv /\ [Next]_vars => SenderInv'
<1> SUFFICES ASSUME Calm, HubInv, SenderInv, [Next]_vars PROVE SenderInv'
  OBVIOUS
<1>0. CalmNext /\ NoEviction /\ TypeInv
  BY CalmSteps DEF HubInv, Calm
<1>1. CASE \/ \E k \in Notes : Install(k) \/ LoadIndex(k)
           \/ UNCHANGED vars
  <2>1. (\A x \in Clients : Stays(x)) /\ GotGrows
    BY <1>0, <1>1, RestStays DEF GotGrows
  <2> QED
    BY <1>0, <2>1, SenderKept DEF SenderInv
<1>2. CASE Restart
  <2>1. \A x \in Clients : At(req'[x]) = "idle"
    BY <1>2 DEF Restart, IdleReq, At
  <2> QED
    BY <2>1 DEF SenderInv, Sender, Unshown, Applied, Logged, Carries
<1> QED
  BY <1>0, <1>1, <1>2, StartSender, HandlerSender DEF CalmNext

LEMMA InitSender == Init => SenderInv
BY DEF Init, SenderInv, Sender, IdleReq, At, Carries, Unshown, Applied, Logged

----------------------------------------------------------------------------
(* Readers miss nothing.                                                   *)

\* What is stored of a note a client has synced has reached it, or is on its
\* way to be fanned out; the document a sync1 found is the note's, and has the
\* rest.
Reader(x) ==
  LET r == req[x] IN
  /\ synced[x] \subseteq open[x]
  /\ \A k \in synced[x] : Stored(k) \subseteq got[x][k] \cup InHand(k, Unshown)
  /\ At(r) = "reply" => r.note \in open[x]
  /\ r.pc = "reply" =>
       /\ Stored(r.note) \subseteq
            heap[r.ref].content \cup got[x][r.note] \cup InHand(r.note, Unshown)
       /\ \A k \in Notes : docs[k] = r.ref => k = r.note
ReadersInv == \A x \in Clients : Reader(x)

\* x still has its update in hand, or everyone who has the note open has it.
HasStill(x) ==
  At(req'[x]) \in Unshown /\ req'[x].note = req[x].note /\ req'[x].delta = req[x].delta
Shows(x) ==
  /\ At(req[x]) = "append" => HasStill(x)
  /\ At(req[x]) \in Unshown /\ req[x].delta \in Stored(req[x].note) =>
       \/ HasStill(x)
       \/ \A y \in Clients :
            req[x].note \in open[y] => req[x].delta \in got'[y][req[x].note]

\* What x reads is the resident document, or is there as it was.
Reads(x) ==
  req'[x].pc = "reply" =>
    \/ docs'[req'[x].note] = req'[x].ref
    \/ /\ req'[x] = req[x]
       /\ \/ heap[req[x].ref].content \subseteq heap'[req[x].ref].content
          \/ Stored(req[x].note) \subseteq heap'[req[x].ref].content
       /\ \A k \in Notes : docs'[k] = req[x].ref => docs[k] = req[x].ref

\* What is stored after a step was stored, or is in hand.
LEMMA StoredInHand ==
  ASSUME SameStore \/ \E c \in Clients, k \in Notes : Grows(c, k),
         \A x \in Clients : Shows(x), NEW k \in Notes
  PROVE  Stored(k)' \subseteq Stored(k) \cup InHand(k, Unshown)'
<1>1. ASSUME NEW c \in Clients, Grows(c, k)
      PROVE  req[c].delta \in InHand(k, Unshown)'
  BY <1>1 DEF Grows, Shows, HasStill, InHand
<1> QED
  BY <1>1 DEF SameStore, Grows

\* What is stored and leaves the hand has been shown.
LEMMA LeavesHand ==
  ASSUME \A x \in Clients : Shows(x), NEW y \in Clients, NEW k \in Notes,
         k \in open[y], NEW d, d \in InHand(k, Unshown), d \in Stored(k)
  PROVE  d \in InHand(k, Unshown)' \cup got'[y][k]
<1>1. PICK x \in Clients : req[x].note = k /\ At(req[x]) \in Unshown /\ d = req[x].delta
  BY DEF InHand
<1> QED
  BY <1>1 DEF Shows, HasStill, InHand

LEMMA ReadersKept ==
  ASSUME HubInv, HubInv', ReadersInv, GotGrows,
         SameStore \/ \E c \in Clients, k \in Notes : Grows(c, k),
         \A x \in Clients : Shows(x) /\ Reads(x),
         \A x \in Clients : open[x] \subseteq open'[x],
         \A x \in Clients : At(req'[x]) = "reply" => req'[x].note \in open[x],
         \A x \in Clients : synced'[x] \subseteq open[x],
         \A x \in Clients : \A k \in synced'[x] \ synced[x] :
           Stored(k) \subseteq got'[x][k] \cup InHand(k, Unshown)
  PROVE  ReadersInv'
<1> SUFFICES ASSUME NEW x \in Clients PROVE Reader(x)'
  BY DEF ReadersInv
<1>0. open[x] \subseteq Notes /\ Reader(x)
  BY DEF HubInv, TypeInv, TypeOK, ReadersInv
<1>1. ASSUME NEW k \in Notes, k \in open[x], NEW d, d \in Stored(k)'
      PROVE  \/ d \in InHand(k, Unshown)' \/ d \in got'[x][k]
             \/ d \in Stored(k) /\ d \notin InHand(k, Unshown)
  <2>1. d \in Stored(k) \/ d \in InHand(k, Unshown)'
    BY <1>1, StoredInHand
  <2>2. CASE d \in Stored(k) /\ d \in InHand(k, Unshown)
    <3>1. d \in InHand(k, Unshown)' \cup got'[x][k]
      BY <1>1, <2>2, LeavesHand
    <3> QED
      BY <3>1
  <2> QED
    BY <2>1, <2>2
<1>2. ASSUME NEW k \in Notes, k \in synced'[x]
      PROVE  Stored(k)' \subseteq got'[x][k] \cup InHand(k, Unshown)'
  <2>1. k \in open[x]
    BY <1>2
  <2>2. Stored(k) \subseteq got'[x][k] \cup InHand(k, Unshown)
    <3>1. CASE k \in synced[x]
      BY <1>0, <3>1 DEF Reader, GotGrows
    <3>2. CASE k \notin synced[x]
      BY <1>2, <3>2
    <3> QED
      BY <3>1, <3>2
  <2> QED
    BY <1>1, <2>1, <2>2
<1>3. ASSUME NEW j \in Notes, req'[x].pc = "reply", j = req'[x].note
      PROVE  /\ Stored(j)' \subseteq
                  heap'[req'[x].ref].content \cup got'[x][j] \cup InHand(j, Unshown)'
             /\ \A k \in Notes : docs'[k] = req'[x].ref => k = j
  <2>1. CASE docs'[j] = req'[x].ref
    <3>1. req'[x].ref \in Objs
      BY <1>3 DEF HubInv, TypeInv, HandlerShape, LoadPlaces
    <3>2. DocGood(j)'
      BY DEF HubInv, ExactInv
    <3>3. docs'[j] # None
      BY <2>1, <3>1, HubAssumption
    <3>4. InHand(j, Applied)' \subseteq InHand(j, Unshown)'
      BY DEF InHand, Unshown
    <3> QED
      BY <2>1, <3>2, <3>3, <3>4 DEF DocGood
  <2>2. CASE docs'[j] # req'[x].ref
    <3>1. /\ req'[x] = req[x]
          /\ \/ heap[req[x].ref].content \subseteq heap'[req[x].ref].content
             \/ Stored(j) \subseteq heap'[req[x].ref].content
          /\ \A k \in Notes : docs'[k] = req[x].ref => docs[k] = req[x].ref
      BY <1>3, <2>2 DEF Reads
    <3>2. /\ Stored(j) \subseteq heap[req[x].ref].content \cup got[x][j] \cup InHand(j, Unshown)
          /\ \A k \in Notes : docs[k] = req[x].ref => k = j
          /\ j \in open[x]
      BY <1>0, <1>3, <3>1 DEF Reader, At
    <3>3. got[x][j] \subseteq got'[x][j]
      BY DEF GotGrows
    <3>4. Stored(j) \subseteq heap'[req[x].ref].content \cup got'[x][j] \cup InHand(j, Unshown)
      BY <3>1, <3>2, <3>3
    <3>5. Stored(j)' \subseteq heap'[req[x].ref].content \cup got'[x][j] \cup InHand(j, Unshown)'
      BY <1>1, <3>2, <3>4
    <3> QED
      BY <3>1, <3>2, <3>5
  <2> QED
    BY <2>1, <2>2
<1>4. synced'[x] \subseteq open'[x] /\ (At(req'[x]) = "reply" => req'[x].note \in open'[x])
  OBVIOUS
<1>5. synced'[x] \subseteq Notes /\ (req'[x].pc = "reply" => req'[x].note \in Notes)
  BY <1>0 DEF HubInv, TypeInv, HandlerShape, At
<1> QED
  BY <1>2, <1>3, <1>4, <1>5 DEF Reader

\* A handler that a step passes by.
LEMMA PassedBy ==
  ASSUME NEW x \in Clients, Stays(x)
  PROVE  Shows(x)
BY DEF Shows, HasStill, Stays, SameWork, Unshown, Applied

LEMMA StartReaders ==
  ASSUME HubInv, HubInv', RefusedInv, SenderInv, ReadersInv,
         NEW c \in Clients, NEW k \in Notes,
         Open(c, k) \/ Sync1(c, k) \/ SendUpdate(c, k) \/ Http(c, k)
  PROVE  ReadersInv'
<1> USE DEF HubInv
<1>1. GotGrows
  BY StartSender
<1>2. /\ UNCHANGED <<files, open, synced, docs, heap>> /\ At(req[c]) = "idle"
      /\ Others(c)
      /\ req'[c].pc = "reply" =>
           docs'[req'[c].note] = req'[c].ref
      /\ At(req'[c]) = "reply" => req'[c].note \in open[c]
  <2>1. CASE Open(c, k) \/ Sync1(c, k) \/ Http(c, k)
    <3>1. PICK r \in Requests :
            /\ r.note = k /\ r.pc \in {"opened", "reply", "routed"} /\ GetDoc(c, r)
            /\ r.pc = "reply" => k \in open[c]
      BY <2>1, ReadEffect
    <3>2. /\ UNCHANGED <<files, open, synced, docs, heap>> /\ At(req[c]) = "idle"
      BY <2>1, ReadEffect DEF store, seen
    <3>3. /\ Others(c) /\ At(req'[c]) = r.pc /\ req'[c].note = k
          /\ \/ req'[c].pc = r.pc /\ req'[c].ref = docs[k]
             \/ req'[c].pc = "wait"
      BY <3>1, GetDocEffect DEF LoadPlaces, SameWork
    <3> QED
      BY <3>1, <3>2, <3>3
  <2>2. CASE SendUpdate(c, k)
    <3>1. PICK d : Update(c, k, d) \/ UpdateOverQuota(c, k, d)
      BY <2>2 DEF SendUpdate
    <3>2. CASE Update(c, k, d)
      BY <3>2, UpdateEffect DEF store, cache
    <3>3. CASE UpdateOverQuota(c, k, d)
      BY <3>3 DEF UpdateOverQuota, Make, Idle, At, Others, store, cache
    <3> QED
      BY <3>1, <3>2, <3>3
  <2> QED
    BY <2>1, <2>2
<1>3. SameStore
  BY <1>2 DEF SameStore, Stored
<1>4. ASSUME NEW x \in Clients PROVE Shows(x) /\ Reads(x)
  <2>1. CASE x = c
    BY <1>2, <2>1 DEF Shows, Reads, Unshown, Applied, Logged
  <2>2. CASE x # c
    <3>1. req'[x] = req[x]
      BY <1>2, <2>2 DEF Others
    <3>2. Shows(x)
      BY <3>1, PassedBy DEF Stays, SameWork
    <3> QED
      BY <1>2, <3>1, <3>2 DEF Reads
  <2> QED
    BY <2>1, <2>2
<1>5. \A x \in Clients : At(req'[x]) = "reply" => req'[x].note \in open[x]
  BY <1>2 DEF Others, ReadersInv, Reader
<1>6. \A x \in Clients : synced'[x] \subseteq open[x]
  BY <1>2 DEF ReadersInv, Reader
<1> QED
  BY <1>1, <1>2, <1>3, <1>4, <1>5, <1>6, ReadersKept

\* A handler shows an update before it lets go of it.
LEMMA HandlerShows ==
  ASSUME HubInv, RefusedInv, SenderInv, NEW c \in Clients, Handles(c)
  PROVE  Shows(c)
<1> USE DEF HubInv
<1>0. SenderInv' /\ GotGrows
  BY HandlerSender
<1>1. CASE At(req'[c]) = "idle" /\ At(req[c]) \in {"opened", "reply", "unindex", "enforce"}
  BY <1>1 DEF Shows, Unshown, Applied, Logged
<1>2. CASE Enforce(c)
  BY <1>2, EnforceEffect DEF Shows, Unshown, Applied, Logged
<1>3. CASE FanOut(c)
  <2>1. PICK k \in Notes : k = req[c].note
    BY <1>3, FanOutEffect
  <2>2. /\ At(req[c]) = "fanout"
        /\ \A x \in Clients, j \in Notes :
             got'[x][j] = IF x \in Audience(c) /\ j = k
                          THEN got[x][j] \cup {req[c].delta} ELSE got[x][j]
    BY <1>3, <2>1, FanOutEffect
  <2>3. ASSUME NEW y \in Clients, k \in open[y]
        PROVE  req[c].delta \in got'[y][k]
    <3>1. CASE y \in Audience(c)
      BY <2>2, <3>1
    <3>2. CASE y \notin Audience(c)
      <4>1. y = c /\ req[c].via = "ws"
        BY <2>1, <2>3, <3>2 DEF Audience
      <4>2. req[c].delta \in got[c][k]
        BY <2>1, <2>2, <4>1 DEF SenderInv, Sender, Unshown, Logged
      <4> QED
        BY <1>0, <4>1, <4>2 DEF GotGrows
    <3> QED
      BY <3>1, <3>2
  <2> QED
    BY <2>1, <2>2, <2>3 DEF Shows
<1>4. CASE Turn(req[c], req'[c]) /\ ~FanOut(c)
  <2>1. At(req[c]) # "fanout"
    BY <1>4
    DEF Handles, Opened, Reply, UpdateLoad, Apply, Inspect, Accept, Reject, Deny,
        LocalLock, LocalLoad, LocalEdit, AppendLog, Index, Snapshot, EnforceNothing,
        Enforce, At, TypeInv, HandlerShape, LoadPlaces
  <2>2. /\ req'[c].note = req[c].note /\ req'[c].delta = req[c].delta
        /\ <<At(req[c]), At(req'[c])>> \in Turns
    BY <1>4 DEF Turn
  <2>3. At(req[c]) = "append" => At(req'[c]) = "index"
    BY <2>2 DEF Turns
  <2>4. At(req[c]) \in Unshown => At(req'[c]) \in Unshown \/ At(req[c]) = "judge"
    BY <2>1, <2>2 DEF Turns, Unshown, Applied, Logged
  <2>5. At(req[c]) = "judge" => req[c].delta \notin Stored(req[c].note)
    BY DEF RefusedInv, Carries, Unjudged, TypeInv, HandlerShape
  <2> QED
    BY <2>2, <2>3, <2>4, <2>5 DEF Shows, HasStill, Unshown, Logged
<1>5. At(req'[c]) = "idle" /\ At(req[c]) = "fanout" => FanOut(c)
  BY
  DEF Handles, Opened, Reply, UpdateLoad, Apply, Inspect, Accept, Reject, Deny,
      LocalLock, LocalLoad, LocalEdit, AppendLog, Index, Snapshot, EnforceNothing,
      Enforce, At, TypeInv, HandlerShape, LoadPlaces
<1> QED
  BY <1>1, <1>2, <1>3, <1>4, <1>5, HandlerTurns

\* A handler takes from a document only what its roll-back restores, and
\* gives no note another document.
LEMMA HandlerDocs ==
  ASSUME HubInv, NEW c \in Clients, Handles(c)
  PROVE  /\ \A j \in Notes : docs'[j] \in {docs[j], None}
         /\ \A o \in Objs :
              \/ heap[o].content \subseteq heap'[o].content
              \/ /\ req[c].note \in Notes /\ docs[req[c].note] = o
                 /\ Stored(req[c].note) \subseteq heap'[o].content
<1> USE DEF HubInv
<1>1. CASE \/ Opened(c) \/ Reply(c) \/ UpdateLoad(c) \/ Inspect(c) \/ Accept(c) \/ Deny(c)
           \/ LocalLock(c) \/ LocalLoad(c) \/ FanOut(c) \/ EnforceNothing(c) \/ Enforce(c)
  BY <1>1
  DEF Opened, Reply, UpdateLoad, Inspect, Accept, Deny, LocalLock, LocalLoad, FanOut,
      EnforceNothing, Enforce, cache
<1>2. CASE Apply(c) \/ LocalEdit(c)
  <2>1. /\ docs' = docs /\ req[c].ref \in Objs
        /\ \A x \in Objs \ {req[c].ref} : heap'[x] = heap[x]
        /\ heap'[req[c].ref].content = heap[req[c].ref].content \cup {req[c].delta}
    BY <1>2, ApplyEffect
  <2> QED
    BY <2>1
<1>3. CASE Reject(c)
  <2>1. /\ \/ /\ docs' = docs
              /\ \A x \in Objs \ {req[c].st} : heap'[x] = heap[x]
              /\ heap'[req[c].st].content = req[c].before
           \/ /\ heap' = heap /\ docs'[req[c].note] = None
              /\ \A j \in Notes \ {req[c].note} : docs'[j] = docs[j]
        /\ req[c].note \in Notes /\ At(req[c]) = "judge"
    BY <1>3, RejectEffect
  <2>2. docs[req[c].note] = req[c].st /\ req[c].before = Stored(req[c].note)
    BY <2>1 DEF ExactInv, WriterGood, Applied
  <2> QED
    BY <2>1, <2>2
<1>4. CASE AppendLog(c) \/ Index(c) \/ Snapshot(c)
  BY <1>4, AppendEffect, IndexEffect, SnapshotEffect
<1> QED
  BY <1>1, <1>2, <1>3, <1>4 DEF Handles

LEMMA HandlerReaders ==
  ASSUME Calm, HubInv, HubInv', RefusedInv, SenderInv, ReadersInv,
         NEW c \in Clients, Handles(c)
  PROVE  ReadersInv'
<1> USE DEF HubInv
<1>1. GotGrows /\ (SameStore \/ \E x \in Clients, k \in Notes : Grows(x, k))
  BY HandlerSender, StoreGrows DEF CalmNext
<1>2. Others(c) /\ At(req'[c]) # "reply"
  BY HandlerTurns, EnforceEffect DEF Turn, Turns
<1>3. ASSUME NEW x \in Clients PROVE Shows(x) /\ Reads(x)
  <2>1. CASE x = c
    <3>1. req'[c].pc # "reply"
      BY <1>2 DEF At
    <3> QED
      BY <2>1, <3>1, HandlerShows DEF Reads
  <2>2. CASE x # c
    <3>1. req'[x] = req[x]
      BY <1>2, <2>2 DEF Others
    <3>2. Shows(x)
      BY <3>1, PassedBy DEF Stays, SameWork
    <3>3. ASSUME req[x].pc = "reply"
          PROVE  /\ \/ heap[req[x].ref].content \subseteq heap'[req[x].ref].content
                    \/ Stored(req[x].note) \subseteq heap'[req[x].ref].content
                 /\ \A k \in Notes : docs'[k] = req[x].ref => docs[k] = req[x].ref
      <4>1. req[x].ref \in Objs /\ req[x].ref # None
        BY <3>3, HubAssumption DEF TypeInv, HandlerShape, LoadPlaces
      <4>2. \A k \in Notes : docs[k] = req[x].ref => k = req[x].note
        BY <3>3 DEF ReadersInv, Reader
      <4> QED
        BY <4>1, <4>2, HandlerDocs
    <3> QED
      BY <3>1, <3>2, <3>3 DEF Reads
  <2> QED
    BY <2>1, <2>2
<1>4. \A x \in Clients : At(req'[x]) = "reply" => req'[x].note \in open[x]
  BY <1>2 DEF Others, ReadersInv, Reader
<1>5. \A x \in Clients : open[x] \subseteq open'[x]
  <2>1. CASE Opened(c)
    BY <2>1 DEF Opened, TypeInv, TypeOK
  <2>2. CASE ~Opened(c)
    BY <2>2
    DEF Handles, Reply, UpdateLoad, Apply, Inspect, Accept, Reject, Deny, LocalLock,
        LocalLoad, LocalEdit, AppendLog, Index, Snapshot, FanOut, EnforceNothing, Enforce
  <2> QED
    BY <2>1, <2>2
<1>6. ASSUME NEW x \in Clients
      PROVE  /\ synced'[x] \subseteq open[x]
             /\ \A k \in synced'[x] \ synced[x] :
                  Stored(k) \subseteq got'[x][k] \cup InHand(k, Unshown)
  <2>0. Reader(x) /\ synced[x] \subseteq Notes
    BY DEF ReadersInv, TypeInv, TypeOK
  <2>1. CASE Reply(c) /\ x = c
    <3>1. PICK k \in Notes : k = req[c].note
      BY <2>1 DEF Reply, TypeInv, HandlerShape, At
    <3>2. /\ req[c].pc = "reply" /\ At(req[c]) = "reply"
          /\ got' = [got EXCEPT ![c][k] = @ \cup heap[req[c].ref].content]
          /\ synced' = [synced EXCEPT ![c] = @ \cup {k}]
      BY <2>1, <3>1 DEF Reply, At
    <3>3. /\ got'[c][k] = got[c][k] \cup heap[req[c].ref].content
          /\ synced'[c] = synced[c] \cup {k}
      BY <3>2 DEF TypeInv, TypeOK
    <3>4. k \in open[c]
      BY <2>0, <2>1, <3>1, <3>2 DEF Reader
    <3>5. Stored(k) \subseteq heap[req[c].ref].content \cup got[c][k] \cup InHand(k, Unshown)
      BY <2>0, <2>1, <3>1, <3>2 DEF Reader
    <3> QED
      BY <2>0, <2>1, <3>3, <3>4, <3>5 DEF Reader
  <2>2. CASE ~Reply(c) \/ x # c
    <3>1. synced'[x] = synced[x]
      BY <2>2
      DEF Handles, Opened, Reply, UpdateLoad, Apply, Inspect, Accept, Reject, Deny,
          LocalLock, LocalLoad, LocalEdit, AppendLog, Index, Snapshot, FanOut,
          EnforceNothing, Enforce, seen, TypeInv, TypeOK
    <3> QED
      BY <2>0, <3>1 DEF Reader
  <2> QED
    BY <2>1, <2>2
<1> QED
  BY <1>1, <1>3, <1>4, <1>5, <1>6, ReadersKept

\* A load hands the resident document to who awaits it.
LEMMA RestReads ==
  ASSUME NoEviction, HubInv, NEW x \in Clients,
         \/ \E k \in Notes : Install(k) \/ LoadIndex(k)
         \/ UNCHANGED vars
  PROVE  Reads(x)
<1> USE DEF HubInv
<1>0. req[x].pc = "reply" => req[x].ref \in Objs
  BY DEF TypeInv, HandlerShape, LoadPlaces
<1>1. ASSUME NEW k \in Notes, Install(k) PROVE Reads(x)
  <2>1. PICK o \in Objs :
          /\ req[x].ref # o
          /\ docs'[k] = o /\ \A j \in Notes \ {k} : docs'[j] = docs[j]
          /\ \A p \in Objs \ {o} : heap'[p] = heap[p]
          /\ SameWork(req'[x], req[x])
          /\ req'[x] = req[x] \/ (Awaits(x, k) /\ req'[x].ref = o)
    BY <1>1, InstallEffect
  <2>2. CASE req'[x] = req[x]
    BY <1>0, <2>1, <2>2 DEF Reads
  <2>3. CASE Awaits(x, k) /\ req'[x].ref = o
    BY <2>1, <2>3 DEF Reads, Awaits, SameWork
  <2> QED
    BY <2>1, <2>2, <2>3
<1>2. ASSUME NEW k \in Notes, LoadIndex(k) PROVE Reads(x)
  <2>1. /\ EvictOrResolve(k, loading[k].obj, lru) /\ loading[k].stage = "index"
        /\ UNCHANGED <<docs, heap>>
    BY <1>2 DEF LoadIndex
  <2>2. loading[k].obj \in Objs /\ lru \in Seq(Notes) /\ Once(lru)
    BY <2>1 DEF TypeInv, TypeOK, LoadShape, OrderShape
  <2>3. docs[k] = loading[k].obj
    BY <2>1 DEF ExactInv, LoadGood
  <2>4. /\ SameWork(req'[x], req[x])
        /\ req'[x] = req[x] \/ (Awaits(x, k) /\ req'[x].ref = loading[k].obj)
    BY <2>1, <2>2, ResolveEffect
  <2> QED
    BY <2>1, <2>3, <2>4 DEF Reads, Awaits, SameWork
<1>4. CASE UNCHANGED vars
  BY <1>4 DEF vars, cache, Reads
<1> QED
  BY <1>1, <1>2, <1>4

LEMMA StepReaders ==
  Calm /\ HubInv /\ RefusedInv /\ SenderInv /\ ReadersInv /\ [Next]_vars => ReadersInv'
<1> SUFFICES ASSUME Calm, HubInv, RefusedInv, SenderInv, ReadersInv, [Next]_vars
             PROVE  ReadersInv'
  OBVIOUS
<1>0. HubInv' /\ CalmNext /\ NoEviction /\ TypeInv
  BY StepHubInv, CalmSteps DEF HubInv, Calm
<1>1. CASE \/ \E k \in Notes : Install(k) \/ LoadIndex(k)
           \/ UNCHANGED vars
  <2>1. (\A x \in Clients : Stays(x)) /\ UNCHANGED <<open, got, synced>>
    BY <1>0, <1>1, RestStays
  <2>2. SameStore \/ \E c \in Clients, k \in Notes : Grows(c, k)
    BY <1>0, StoreGrows DEF HubInv
  <2>3. \A x \in Clients : Shows(x) /\ Reads(x)
    BY <1>0, <1>1, <2>1, PassedBy, RestReads
  <2>4. \A x \in Clients : At(req'[x]) = "reply" => req'[x].note \in open[x]
    BY <2>1 DEF Stays, SameWork, ReadersInv, Reader
  <2>5. GotGrows /\ \A x \in Clients : synced[x] \subseteq open[x]
    BY <2>1 DEF GotGrows, ReadersInv, Reader
  <2> QED
    BY <1>0, <2>1, <2>2, <2>3, <2>4, <2>5, ReadersKept
<1>2. CASE Restart
  <2>1. \A x \in Clients : synced'[x] = {} /\ req'[x].pc = "idle"
    BY <1>2 DEF Restart, IdleReq
  <2> QED
    BY <2>1 DEF ReadersInv, Reader, At
<1> QED
  BY <1>0, <1>1, <1>2, StartReaders, HandlerReaders DEF CalmNext

LEMMA InitReaders == Init => ReadersInv
<1> SUFFICES ASSUME Init, NEW x \in Clients PROVE Reader(x)
  BY DEF ReadersInv
<1>1. synced[x] = {} /\ req[x].pc = "idle"
  BY DEF Init, IdleReq
<1> QED
  BY <1>1 DEF Reader, At

\* In a calm hub a client that opened a note and then exchanged sync1 for
\* sync2 has, while no write is under way, every delta the store has: nothing
\* falls between the sync2 and the `update` frames that follow it.
THEOREM ReadersMissNothing ==
  ASSUME Calm
  PROVE  Spec => []NoGap
<1>1. HubInv /\ ReadersInv => NoGap
  <2> SUFFICES ASSUME HubInv, ReadersInv, NEW x \in Clients, NEW k \in synced[x], Quiet(k)
               PROVE  Stored(k) \subseteq got[x][k]
    BY DEF NoGap
  <2>1. InHand(k, Unshown) = {}
    BY InHandNobody, HubAssumption DEF HubInv, Quiet, Unshown, Applied, Logged
  <2> QED
    BY <2>1 DEF ReadersInv, Reader
<1> QED
  BY InitHubInv, StepHubInv, InitRefused, StepRefused, InitSender, StepSender,
     InitReaders, StepReaders, <1>1, PTL DEF Spec

----------------------------------------------------------------------------
(* The agent policy.                                                       *)

\* c is on its way to see that note k carries the draft tag.
Follows(c, k) ==
  /\ c \in Agents /\ req[c].note = k
  /\ \/ At(req[c]) \in Logged \cup {"enforce"}
     \/ At(req[c]) \in {"patch", "edit", "append"} /\ req[c].via = "policy"

Gated(content) == Draft(content) \/ Deleted(content)

\* A note an agent has written to is gated, or will be by who wrote to it.
GatedInv ==
  \A k \in Notes :
    (\E d \in Stored(k) : d.by \in Agents) =>
      Gated(Stored(k)) \/ \E c \in Clients : Follows(c, k)

\* Who follows a note up goes on, unless it is done.
LEMMA FollowsOn ==
  ASSUME HubInv, SenderInv, NEW c \in Clients, NEW k \in Notes, Handles(c),
         Follows(c, k)
  PROVE  Follows(c, k)' \/ Gated(Stored(k))
<1> USE DEF HubInv
<1>1. CASE Enforce(c)
  BY <1>1, EnforceEffect DEF Follows
<1>2. CASE Turn(req[c], req'[c])
  <2>1. /\ req'[c].note = req[c].note /\ req'[c].via = req[c].via
        /\ <<At(req[c]), At(req'[c])>> \in Turns
    BY <1>2 DEF Turn
  <2>2. \/ At(req'[c]) \in Logged \cup {"enforce"}
        \/ At(req'[c]) \in {"edit", "append"} /\ req[c].via = "policy"
    BY <2>1 DEF Follows, Turns, Logged
  <2> QED
    BY <2>1, <2>2 DEF Follows
<1>3. CASE EnforceNothing(c)
  <2>1. At(req[c]) = "enforce" /\ ~NeedsDraft(c) /\ c \in Agents /\ req[c].note = k
    BY <1>3 DEF EnforceNothing, At, Follows
  <2>2. docs[k] # None /\ heap[docs[k]].content = Stored(k)
    <3>1. docs[k] # None
      BY <2>1 DEF ExactInv, WriterGood
    <3>2. InHand(k, Applied) = {}
      BY <2>1, InHandAlone DEF Applied, InWrite
    <3> QED
      BY <3>1, <3>2 DEF ExactInv, DocGood
  <2> QED
    BY <2>1, <2>2 DEF NeedsDraft, Gated
<1>4. CASE FanOut(c)
  <2>1. CASE At(req'[c]) = "enforce"
    BY <1>4, <2>1, FanOutEffect DEF Follows, SameWork
  <2>2. CASE At(req'[c]) # "enforce"
    <3>1. req[c].via # "ws" /\ At(req[c]) = "fanout" /\ c \in Agents /\ req[c].note = k
      BY <1>4, <2>2, FanOutEffect DEF Follows
    <3>2. req[c].via \in {"http", "policy"}
      BY <3>1 DEF TypeInv, TypeOK, Requests
    <3>3. req[c].delta.kind = "draft"
      BY <3>1, <3>2 DEF SenderInv, Sender, Carries
    <3>4. req[c].delta \in Stored(k)
      BY <3>1 DEF ExactInv, WriterGood, Logged
    <3> QED
      BY <3>3, <3>4 DEF Gated, Draft
  <2> QED
    BY <2>1, <2>2
<1>5. \/ EnforceNothing(c) \/ FanOut(c) \/ Enforce(c) \/ Turn(req[c], req'[c])
  <2>1. Opened(c) => At(req[c]) = "opened"
    BY DEF Opened, At
  <2>2. Reply(c) => At(req[c]) = "reply"
    BY DEF Reply, At
  <2>3. Deny(c) => At(req[c]) = "unindex"
    BY DEF Deny, At
  <2>4. At(req[c]) \notin {"opened", "reply", "unindex"}
    BY DEF Follows, Logged
  <2>5. At(req'[c]) = "idle" /\ ~EnforceNothing(c) /\ ~FanOut(c) => Enforce(c)
    BY <2>1, <2>2, <2>3, <2>4, WriteLoadEffect, ApplyEffect, RejectEffect, AppendEffect,
       IndexEffect, SnapshotEffect, LocalLockEffect, GotoEffect
    DEF Handles, Accept, Places
  <2> QED
    BY <2>5, HandlerTurns
<1> QED
  BY <1>1, <1>2, <1>3, <1>4, <1>5

\* Only an append changes what is stored.
LEMMA AppendsOnly ==
  ASSUME Calm, "crash" \notin Workload, HubInv, HubInv', CalmNext
  PROVE  SameStore \/ \E c \in Clients, k \in Notes : AppendLog(c) /\ Grows(c, k)
<1>1. ASSUME files' = files PROVE SameStore
  BY <1>1 DEF SameStore, Stored
<1>2. ASSUME NEW c \in Clients, NEW k \in Notes,
             Open(c, k) \/ Sync1(c, k) \/ SendUpdate(c, k) \/ Http(c, k)
      PROVE  files' = files
  BY <1>2 DEF Open, Sync1, SendUpdate, Update, UpdateOverQuota, Http, store
<1>3. ASSUME NEW c \in Clients, Handles(c)
      PROVE  \/ files' = files \/ SameStore
             \/ \E k \in Notes : AppendLog(c) /\ Grows(c, k)
  <2>1. CASE AppendLog(c)
    BY <2>1, AppendGrows DEF HubInv
  <2>2. CASE Snapshot(c)
    BY <2>2, SnapshotExact DEF HubInv, SameStore
  <2>3. CASE ~AppendLog(c) /\ ~Snapshot(c)
    BY <1>3, <2>3
    DEF Handles, Opened, Reply, UpdateLoad, Apply, Inspect, Accept, Reject, Deny,
        LocalLock, LocalLoad, LocalEdit, Index, FanOut, EnforceNothing, Enforce, store
  <2> QED
    BY <2>1, <2>2, <2>3
<1>4. ASSUME NEW k \in Notes, Install(k) \/ LoadIndex(k)
      PROVE  files' = files
  BY <1>4 DEF Install, LoadIndex, HubInv, ExactInv, store
<1>5. CASE Restart \/ UNCHANGED vars
  BY <1>1, <1>5 DEF Restart, vars, store
<1> QED
  BY <1>1, <1>2, <1>3, <1>4, <1>5 DEF CalmNext

LEMMA StepGated ==
  ASSUME Calm, "crash" \notin Workload,
         HubInv, RefusedInv, SenderInv, GatedInv, [Next]_vars
  PROVE  GatedInv'
<1>0. HubInv' /\ CalmNext /\ NoEviction /\ TypeInv /\ LockInv
  BY StepHubInv, CalmSteps DEF HubInv, Calm
<1>1. SameStore \/ \E c \in Clients, k \in Notes : Grows(c, k)
  BY <1>0, StoreGrows DEF HubInv
<1>2. \A k \in Notes : Stored(k) \subseteq Stored(k)'
  BY <1>1 DEF SameStore, Grows
<1>3. \A k \in Notes : Gated(Stored(k)) => Gated(Stored(k)')
  BY <1>2 DEF Gated, Draft, Deleted
<1>4. ASSUME NEW k \in Notes, NEW c \in Clients, Follows(c, k)
      PROVE  Follows(c, k)' \/ Gated(Stored(k))
  <2>1. CASE Handles(c)
    BY <1>4, <2>1, FollowsOn
  <2>2. CASE Stays(c)
    BY <1>4, <2>2 DEF Follows, Stays, SameWork
  <2>3. Handles(c) \/ Stays(c)
    <3>1. ASSUME NEW x \in Clients, NEW j \in Notes,
                 Open(x, j) \/ Sync1(x, j) \/ SendUpdate(x, j) \/ Http(x, j)
          PROVE  Stays(c)
      <4>1. Idle(x) /\ (Others(x) \/ req' = req)
        <5>1. CASE Open(x, j) \/ Sync1(x, j) \/ Http(x, j)
          BY <1>0, <3>1, <5>1, ReadEffect DEF Open, Sync1, Http
        <5>2. CASE SendUpdate(x, j)
          BY <1>0, <5>2, UpdateEffect DEF SendUpdate, Update, UpdateOverQuota, Make
        <5> QED
          BY <3>1, <5>1, <5>2
      <4>2. x # c
        BY <1>4, <4>1 DEF Idle, Follows, At, Logged
      <4> QED
        BY <4>1, <4>2 DEF Others, Stays, SameWork
    <3>2. ASSUME NEW x \in Clients, Handles(x), x # c PROVE Stays(c)
      BY <1>0, <3>2, HandlerTurns DEF Others, Stays, SameWork
    <3>3. ~(Restart /\ "crash" \in Workload)
      OBVIOUS
    <3> QED
      BY <1>0, <3>1, <3>2, <3>3, RestStays DEF CalmNext
  <2> QED
    BY <2>1, <2>2, <2>3
<1>5. SameStore \/ \E c \in Clients, k \in Notes : AppendLog(c) /\ Grows(c, k)
  BY <1>0, AppendsOnly
<1>6. ASSUME NEW k \in Notes, NEW d \in Stored(k)', d.by \in Agents
      PROVE  Gated(Stored(k)') \/ \E c \in Clients : Follows(c, k)'
  <2>1. CASE d \in Stored(k)
    <3>1. Gated(Stored(k)) \/ \E c \in Clients : Follows(c, k)
      BY <1>6, <2>1 DEF GatedInv
    <3> QED
      BY <1>3, <1>4, <3>1
  <2>2. CASE d \notin Stored(k)
    <3>1. PICK c \in Clients : AppendLog(c) /\ Grows(c, k) /\ d = req[c].delta
      BY <1>5, <2>2 DEF SameStore, Grows
    <3>2. d.by = c
      BY <3>1 DEF RefusedInv, Carries, Grows
    <3>3. At(req'[c]) = "index" /\ req'[c].note = k
      BY <1>0, <3>1, AppendEffect DEF SameWork, Grows
    <3>4. Follows(c, k)'
      BY <1>6, <3>2, <3>3 DEF Follows, Logged
    <3> QED
      BY <3>4
  <2> QED
    BY <2>1, <2>2
<1> QED
  BY <1>6 DEF GatedInv, Gated

LEMMA InitGated == Init => GatedInv
BY DEF Init, GatedInv, Stored, Loaded, LogTail, EmptyFile

\* In a calm hub that does not crash, a note an agent has written to
\* over the socket carries the draft tag or is deleted whenever no write is
\* under way.  A crash between the commit and the policy's own edit leaves one
\* without it.
THEOREM AgentNotesAreGated ==
  ASSUME Calm, "crash" \notin Workload
  PROVE  Spec => []AgentNotesGated
<1>1. HubInv /\ GatedInv => AgentNotesGated
  <2> SUFFICES ASSUME HubInv, GatedInv, NEW k \in Notes, Quiet(k),
                      NEW d \in Stored(k), d.by \in Agents
               PROVE  Draft(Stored(k)) \/ Deleted(Stored(k))
    BY DEF AgentNotesGated
  <2>1. ASSUME NEW c \in Clients, Follows(c, k) PROVE FALSE
    BY <2>1, WritingIsInWrite, HubAssumption
    DEF HubInv, LockInv, Quiet, Follows, InWrite, Logged
  <2> QED
    BY <2>1 DEF GatedInv, Gated
<1> QED
  BY InitHubInv, StepHubInv, InitRefused, StepRefused, InitSender, StepSender,
     InitGated, StepGated, <1>1, PTL DEF Spec

=============================================================================
