------------------------------ MODULE Cluster ------------------------------
(***************************************************************************)
(* Several hubs over one PostgreSQL store (broadcast.ts, the C2 parts of   *)
(* hub.ts, store/pg.ts), seen from one note.  A hub commits a delta to the *)
(* shared log, sends it to its own clients and publishes it; the others    *)
(* apply what the broker brings them to their resident document, if any,   *)
(* and send it on.  The broker keeps a queue per hub; Faults names what it *)
(* may do besides delivering in order.                                     *)
(*                                                                         *)
(* HubDoc has the handlers of one hub in full; here a handler is its write *)
(* path (lock, load, apply, append, snapshot, fan-out) and the two lock    *)
(* free reads.  No gates, no eviction.  Granularity as in HubDoc, except   *)
(* that loadDoc is the two queries it is over PostgreSQL.                  *)
(***************************************************************************)
EXTENDS NoteStore, SequencesExt

CONSTANTS
  Hubs, Clients,
  Home,           \* Home[c]: the hub client c is connected to
  Readers,        \* clients that open the note; the others only write
  None,
  SnapshotEvery,  \* updates to a document between two snapshots
  Faults,         \* of the broker (lose, repeat, reorder) and hubs (restart)
  MaxSends,       \* bound: MaxSends[c] updates of client c
  MaxFaults       \* bound: messages lost or repeated, and restarts

ASSUME ClusterAssumption ==
  /\ Home \in [Clients -> Hubs]
  /\ None \notin Clients /\ Readers \subseteq Clients
  /\ SnapshotEvery \in Nat \ {0}
  /\ Faults \subseteq {"lose", "repeat", "reorder", "restart"}
  /\ MaxSends \in [Clients -> Nat] /\ MaxFaults \in Nat

Delta == UNION {[by : {c}, n : 1 .. MaxSends[c]] : c \in Clients}

Messages == [origin : Hubs, seq : Nat, delta : Delta]

VARIABLES
  file,        \* the store: the note's snapshot and log
  nextSeq,     \* the store: the next bigserial seq
  doc,         \* doc[h]: the hub's resident DocState, if any
  load,        \* load[h]: its in-flight loadDoc
  remoteSeen,  \* remoteSeen[h]: the highest seq it took from the broker
  lock,        \* lock[h]: the client whose handler holds the note's lock
  req,         \* req[c]: the handler client c is in
  open,        \* clients whose connection has the note open
  net,         \* net[h]: the broker's messages on their way to h
  sent,        \* sent[c]: updates client c has made
  faults,      \* messages lost or repeated, and restarts of hubs
  got,         \* got[c]: the deltas client c has made or was sent
  synced,      \* clients answered a sync1 that they sent after open
  frames,      \* frames[c][d]: how often c was sent d in an update frame
  committed,   \* the deltas ever appended to the log
  dropped      \* dropped[h]: deltas the broker lost on h, or h did not take

store == <<file, nextSeq>>
bounds == <<sent, faults>>
vars == <<file, nextSeq, doc, load, remoteSeen, lock, req, open, net, sent,
          faults, got, synced, frames, committed, dropped>>

NoDoc == [resident |-> FALSE, content |-> {}, lastSeq |-> 0, sinceSnap |-> 0]
NoLoad == [stage |-> "none", since |-> 0, content |-> {}]
Idle == [pc |-> "idle", delta |-> None]

Stored == Loaded(file)

Init ==
  /\ file = EmptyFile
  /\ nextSeq = 1
  /\ doc = [h \in Hubs |-> NoDoc]
  /\ load = [h \in Hubs |-> NoLoad]
  /\ remoteSeen = [h \in Hubs |-> 0]
  /\ lock = [h \in Hubs |-> None]
  /\ req = [c \in Clients |-> Idle]
  /\ open = {}
  /\ net = [h \in Hubs |-> <<>>]
  /\ sent = [c \in Clients |-> 0]
  /\ faults = 0
  /\ got = [c \in Clients |-> {}]
  /\ synced = {}
  /\ frames = [c \in Clients |-> [d \in Delta |-> 0]]
  /\ committed = {}
  /\ dropped = [h \in Hubs |-> {}]

Goto(c, pc) == req' = [req EXCEPT ![c].pc = pc]

\* Frames to those of the hub's connections that hold the note open.
FanTo(cs, d) ==
  /\ frames' = [c \in Clients |->
       IF c \in cs THEN [frames[c] EXCEPT ![d] = @ + 1] ELSE frames[c]]
  /\ got' = [c \in Clients |-> got[c] \cup IF c \in cs THEN {d} ELSE {}]

----------------------------------------------------------------------------
(* getDoc: one load at a time per hub, in two queries.                     *)

NeedsDoc(h) ==
  \E c \in Clients : Home[c] = h /\ req[c].pc \in {"opened", "reply", "apply"}

QuerySnapshot(h) ==
  /\ NeedsDoc(h)
  /\ ~doc[h].resident
  /\ load[h].stage = "none"
  /\ load' = [load EXCEPT ![h] =
       [stage |-> "snapshot", since |-> file.seq, content |-> file.state]]
  /\ UNCHANGED <<store, doc, remoteSeen, lock, req, open, net, bounds, got,
                 synced, frames, committed, dropped>>

TailRows_after_the_next(h) == {u \in file.updates : u.seq > load[h].since + 1}

\* The second query asks for the rows after the first one's seq.
TailRows(h) == {u \in file.updates : u.seq > load[h].since}

QueryTail(h) ==
  /\ load[h].stage = "snapshot"
  /\ load' = [load EXCEPT ![h].stage = "tail",
       ![h].content = @ \cup {u.delta : u \in TailRows(h)}]
  /\ UNCHANGED <<store, doc, remoteSeen, lock, req, open, net, bounds, got,
                 synced, frames, committed, dropped>>

Install(h) ==
  /\ load[h].stage = "tail"
  /\ doc' = [doc EXCEPT ![h] =
       [NoDoc EXCEPT !.resident = TRUE, !.content = load[h].content]]
  /\ load' = [load EXCEPT ![h] = NoLoad]
  /\ UNCHANGED <<store, remoteSeen, lock, req, open, net, bounds, got, synced,
                 frames, committed, dropped>>

----------------------------------------------------------------------------
(* The reads of a client: open, then sync1.                                *)

Open(c) ==
  /\ req[c].pc = "idle" /\ c \in Readers \ open
  /\ Goto(c, "opened")
  /\ UNCHANGED <<store, doc, load, remoteSeen, lock, open, net, bounds, got,
                 synced, frames, committed, dropped>>

Opened(c) ==
  /\ req[c].pc = "opened" /\ doc[Home[c]].resident
  /\ open' = open \cup {c}
  /\ Goto(c, "idle")
  /\ UNCHANGED <<store, doc, load, remoteSeen, lock, net, bounds, got, synced,
                 frames, committed, dropped>>

Sync1(c) ==
  /\ req[c].pc = "idle" /\ c \in open \ synced
  /\ Goto(c, "reply")
  /\ UNCHANGED <<store, doc, load, remoteSeen, lock, open, net, bounds, got,
                 synced, frames, committed, dropped>>

\* encodeStateAsUpdate against the client's state vector: what c lacks.
Reply(c) ==
  /\ req[c].pc = "reply" /\ doc[Home[c]].resident
  /\ got' = [got EXCEPT ![c] = @ \cup doc[Home[c]].content]
  /\ synced' = synced \cup {c}
  /\ Goto(c, "idle")
  /\ UNCHANGED <<store, doc, load, remoteSeen, lock, open, net, bounds, frames,
                 committed, dropped>>

----------------------------------------------------------------------------
(* The write path of a client: applyClientDelta and commit.                *)

Update(c) ==
  LET d == [by |-> c, n |-> sent[c] + 1] IN
  /\ req[c].pc = "idle" /\ sent[c] < MaxSends[c]
  /\ lock[Home[c]] = None
  /\ lock' = [lock EXCEPT ![Home[c]] = c]
  /\ sent' = [sent EXCEPT ![c] = @ + 1]
  /\ got' = [got EXCEPT ![c] = @ \cup {d}]
  /\ req' = [req EXCEPT ![c] = [pc |-> "apply", delta |-> d]]
  /\ UNCHANGED <<store, doc, load, remoteSeen, open, net, faults, synced, frames, committed, dropped>>

Apply(c) ==
  /\ req[c].pc = "apply" /\ doc[Home[c]].resident
  /\ doc' = [doc EXCEPT ![Home[c]].content = @ \cup {req[c].delta}]
  /\ Goto(c, "append")
  /\ UNCHANGED <<store, load, remoteSeen, lock, open, net, bounds, got, synced,
                 frames, committed, dropped>>

AppendLog(c) ==
  /\ req[c].pc = "append"
  /\ file' = Appended(file, nextSeq, req[c].delta)
  /\ nextSeq' = nextSeq + 1
  /\ doc' = [doc EXCEPT ![Home[c]].lastSeq = nextSeq]
  /\ committed' = committed \cup {req[c].delta}
  /\ Goto(c, "snapshot")
  /\ UNCHANGED <<load, remoteSeen, lock, open, net, bounds, got, synced, frames,
                 dropped>>

\* Every SnapshotEvery-th commit saves what the document holds under the seq
\* of this hub's last append.
Snapshot(c) ==
  LET st == doc[Home[c]]
      due == st.sinceSnap + 1 >= SnapshotEvery IN
  /\ req[c].pc = "snapshot"
  /\ file' = IF due THEN Compacted(file, st.lastSeq, st.content) ELSE file
  /\ doc' = [doc EXCEPT ![Home[c]].sinceSnap = IF due THEN 0 ELSE @ + 1]
  /\ Goto(c, "fanout")
  /\ UNCHANGED <<nextSeq, load, remoteSeen, lock, open, net, bounds, got, synced,
                 frames, committed, dropped>>

Published_swallowed(m) == net

\* LocalBus: a publication goes to every subscriber, its publisher included.
Published(m) == [h \in Hubs |-> Append(net[h], m)]

FanOut_keeps_the_lock(c) ==
  LET h == Home[c] IN
  /\ req[c].pc = "fanout"
  /\ FanTo({o \in open \ {c} : Home[o] = h}, req[c].delta)
  /\ net' = Published([origin |-> h, seq |-> doc[h].lastSeq, delta |-> req[c].delta])
  /\ req' = [req EXCEPT ![c] = Idle]
  /\ UNCHANGED <<store, doc, load, remoteSeen, lock, open, bounds, synced,
                 committed, dropped>>

FanOut(c) ==
  LET h == Home[c] IN
  /\ req[c].pc = "fanout"
  /\ FanTo({o \in open \ {c} : Home[o] = h}, req[c].delta)
  /\ net' = Published([origin |-> h, seq |-> doc[h].lastSeq, delta |-> req[c].delta])
  /\ lock' = [lock EXCEPT ![h] = None]
  /\ req' = [req EXCEPT ![c] = Idle]
  /\ UNCHANGED <<store, doc, load, remoteSeen, open, bounds, synced, committed,
                 dropped>>

----------------------------------------------------------------------------
(* onRemoteUpdate, one atomic section under the note's lock.               *)

Positions(h) ==
  IF "reorder" \in Faults THEN DOMAIN net[h] ELSE DOMAIN net[h] \cap {1}

\* The broker hands over one message, and may keep it to hand it over again.
Handover(h, i) ==
  \/ net' = [net EXCEPT ![h] = RemoveAt(@, i)] /\ UNCHANGED faults
  \/ /\ "repeat" \in Faults /\ faults < MaxFaults
     /\ faults' = faults + 1
     /\ UNCHANGED net

OwnMessage(h, i) ==
  /\ net[h][i].origin = h
  /\ net' = [net EXCEPT ![h] = RemoveAt(@, i)]
  /\ UNCHANGED <<store, doc, load, remoteSeen, lock, req, open, bounds,
                 got, synced, frames, committed, dropped>>

Stale_never(h, m) == FALSE

\* At or below the high-water mark: taken for a redelivery.
Stale(h, m) == m.seq <= remoteSeen[h]

SeenMessage(h, i) ==
  LET m == net[h][i] IN
  /\ m.origin # h /\ lock[h] = None
  /\ Stale(h, m)
  /\ Handover(h, i)
  /\ dropped' = [dropped EXCEPT ![h] = @ \cup ({m.delta} \ doc[h].content)]
  /\ UNCHANGED <<store, doc, load, remoteSeen, lock, req, open, sent,
                 got, synced, frames, committed>>

RemoteUpdate_applied_only(h, i) ==
  LET m == net[h][i] IN
  /\ m.origin # h /\ lock[h] = None
  /\ ~Stale(h, m)
  /\ Handover(h, i)
  /\ remoteSeen' = [remoteSeen EXCEPT ![h] = m.seq]
  /\ doc' = IF doc[h].resident
            THEN [doc EXCEPT ![h].content = @ \cup {m.delta}] ELSE doc
  /\ dropped' = IF load[h].stage = "none" THEN dropped
                ELSE [dropped EXCEPT ![h] = @ \cup ({m.delta} \ load[h].content)]
  /\ UNCHANGED <<store, load, lock, req, open, sent, got, synced,
                 frames, committed>>

\* A document that is resident takes the delta; one still being loaded does
\* not, and has it only if the load has read it.
RemoteUpdate(h, i) ==
  LET m == net[h][i] IN
  /\ m.origin # h /\ lock[h] = None
  /\ ~Stale(h, m)
  /\ Handover(h, i)
  /\ remoteSeen' = [remoteSeen EXCEPT ![h] = m.seq]
  /\ doc' = IF doc[h].resident
            THEN [doc EXCEPT ![h].content = @ \cup {m.delta}] ELSE doc
  /\ dropped' = IF load[h].stage = "none" THEN dropped
                ELSE [dropped EXCEPT ![h] = @ \cup ({m.delta} \ load[h].content)]
  /\ FanTo({o \in open : Home[o] = h}, m.delta)
  /\ UNCHANGED <<store, load, lock, req, open, sent, synced, committed>>

Receive(h) == \E i \in Positions(h) :
  OwnMessage(h, i) \/ SeenMessage(h, i) \/ RemoteUpdate(h, i)

Lose(h) ==
  /\ "lose" \in Faults /\ faults < MaxFaults
  /\ \E i \in Positions(h) :
       /\ net[h][i].origin # h
       /\ net' = [net EXCEPT ![h] = RemoveAt(@, i)]
       /\ dropped' = [dropped EXCEPT ![h] = @ \cup ({net[h][i].delta} \ doc[h].content)]
  /\ faults' = faults + 1
  /\ UNCHANGED <<store, doc, load, remoteSeen, lock, req, open, sent,
                 got, synced, frames, committed>>

----------------------------------------------------------------------------
\* Deltas of h in the log that h has yet to publish.
Unpublished(h) ==
  {req[c].delta : c \in {a \in Clients :
     Home[a] = h /\ req[a].pc \in {"snapshot", "fanout"}}}

\* A hub's process ends and another takes its place, with a subscription of
\* its own: it is not delivered what it was not, and what it had yet to
\* publish no hub is brought.
Restart(h) ==
  LET here == {c \in Clients : Home[c] = h} IN
  /\ "restart" \in Faults /\ faults < MaxFaults
  /\ faults' = faults + 1
  /\ doc' = [doc EXCEPT ![h] = NoDoc]
  /\ load' = [load EXCEPT ![h] = NoLoad]
  /\ remoteSeen' = [remoteSeen EXCEPT ![h] = 0]
  /\ lock' = [lock EXCEPT ![h] = None]
  /\ req' = [c \in Clients |-> IF c \in here THEN Idle ELSE req[c]]
  /\ open' = open \ here
  /\ synced' = synced \ here
  /\ net' = [net EXCEPT ![h] = <<>>]
  /\ dropped' = [g \in Hubs |->
       IF g = h THEN {} ELSE dropped[g] \cup (Unpublished(h) \ doc[g].content)]
  /\ UNCHANGED <<store, sent, got, frames, committed>>

Loading(h) == QuerySnapshot(h) \/ QueryTail(h) \/ Install(h)
Writing(c) == Apply(c) \/ AppendLog(c) \/ Snapshot(c) \/ FanOut(c)
Answer(c) == Opened(c) \/ Reply(c)

Next ==
  \/ \E h \in Hubs : Loading(h) \/ Receive(h) \/ Lose(h) \/ Restart(h)
  \/ \E c \in Clients :
       Open(c) \/ Sync1(c) \/ Update(c) \/ Writing(c) \/ Answer(c)

Spec == Init /\ [][Next]_vars

\* Promises settle and the broker delivers what it did not lose.  Nothing
\* says that a client opens, syncs or sends.
Fairness ==
  /\ \A h \in Hubs : WF_vars(Loading(h)) /\ WF_vars(Receive(h))
  /\ \A c \in Clients : WF_vars(Writing(c) \/ Answer(c))

FairSpec == Spec /\ Fairness

----------------------------------------------------------------------------
(* Properties.                                                             *)

Writes == {"apply", "append", "snapshot", "fanout"}

\* The variables are of their types, a lock is held by a client of the hub
\* while its handler is in the write section and by nobody else, a load runs
\* only for a hub without a document, and no hub knows a seq to come.
TypeOK ==
  /\ file \in File(Delta) /\ nextSeq \in Nat
  /\ doc \in [Hubs -> [resident : BOOLEAN, content : SUBSET Delta,
                       lastSeq : Nat, sinceSnap : Nat]]
  /\ load \in [Hubs -> [stage : {"none", "snapshot", "tail"}, since : Nat,
                        content : SUBSET Delta]]
  /\ remoteSeen \in [Hubs -> Nat]
  /\ lock \in [Hubs -> Clients \cup {None}]
  /\ \A c \in Clients : req[c].pc \in Writes <=> lock[Home[c]] = c
  /\ \A h \in Hubs : load[h].stage # "none" => ~doc[h].resident
  /\ \A h \in Hubs : doc[h].lastSeq < nextSeq /\ remoteSeen[h] < nextSeq
  /\ req \in [Clients -> [pc : {"idle", "opened", "reply", "apply", "append",
                                "snapshot", "fanout"},
                          delta : Delta \cup {None}]]
  /\ net \in [Hubs -> Seq(Messages)]
  /\ open \subseteq Clients /\ synced \subseteq Clients
  /\ \A c \in Clients : sent[c] \in 0 .. MaxSends[c]
  /\ faults \in 0 .. MaxFaults
  /\ got \in [Clients -> SUBSET Delta] /\ committed \subseteq Delta
  /\ frames \in [Clients -> [Delta -> Nat]]
  /\ dropped \in [Hubs -> SUBSET Delta]

\* "Skip anything we've already seen" (onRemoteUpdate): whatever the broker
\* repeats or reorders, no client is sent an update frame of a delta twice,
\* nor one of a delta it made itself.
FannedOnce ==
  \A c \in Clients, d \in Delta :
    frames[c][d] <= IF d.by = c THEN 0 ELSE 1

Publishing(d) ==
  \E c \in Clients : req[c].delta = d /\ req[c].pc \in {"snapshot", "fanout"}
Travelling(h, d) == \E i \in DOMAIN net[h] : net[h][i].delta = d

\* "Keep our in-memory cache coherent": a resident document that lacks a
\* stored delta will be brought it, unless the broker lost it, its hub ended
\* before it published it, or this hub did not take it.
StaleExplained ==
  \A h \in Hubs : doc[h].resident =>
    \A d \in Stored \ doc[h].content :
      d \in dropped[h] \/ Publishing(d) \/ Travelling(h, d)

\* Fanning out "exactly as if it had been applied here": when no write of the
\* note is under way at its hub, a client that has synced holds everything
\* the hub's document holds, whichever hub it came from.
ClientsMirrorHub ==
  \A c \in synced : lock[Home[c]] = None => doc[Home[c]].content \subseteq got[c]

\* "The store is the source of truth" (broadcast.ts): what was committed to
\* the log is what a load returns.
CommittedIsStored == committed \subseteq Stored

\* Several hubs still promise what one does: a note that grows by accepted
\* deltas, and update frames of those only (no compaction, no purge).
Log == INSTANCE NoteLog WITH
  Notes <- {"note"},
  note  <- [k \in {"note"} |-> Stored],
  shown <- [k \in {"note"} |-> {d \in Delta : \E c \in Clients : frames[c][d] > 0}]
LogSpec == Log!Spec

\* In the end a hub that dropped nothing holds the stored note, and so do its
\* clients that have synced.
Converges ==
  <>[](\A h \in Hubs : dropped[h] = {} /\ doc[h].resident =>
         /\ doc[h].content = Stored
         /\ \A c \in synced : Home[c] = h => Stored \subseteq got[c])
=============================================================================
