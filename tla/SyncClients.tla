---------------------------- MODULE SyncClients ----------------------------
(***************************************************************************)
(* The clients of the sync protocol and their connections, for one note:   *)
(* the arm (arm/src/replica.ts), which keeps its document on disk; the     *)
(* editor session (vscode/src), which does not; the web page (web/src),    *)
(* which never connects again; and the MCP server's socket (mcp/src),      *)
(* which only watches.                                                     *)
(*                                                                         *)
(* A link is the socket of a client: a queue of frames each way, which a   *)
(* drop empties.  The client hears of the drop later, in the socket's      *)
(* `close` event; that of a socket it closed itself may come after the     *)
(* next one opened.  The brain is its handler of one frame (HubDoc has it  *)
(* in full).  A document is the set of deltas applied to it and a state    *)
(* vector is the set it describes; an update of nothing is not fanned out. *)
(***************************************************************************)
EXTENDS Naturals, Sequences

CONSTANTS
  Arms, Editors, Tabs, Watchers,  \* clients by kind
  Crews,      \* the sets of clients that may be running together
  MaxEdits,   \* bound: edits of a client
  MaxFaults   \* bound: links dropped or closed, attempts failed, processes
              \* ended, and open notes opened again

Clients == Arms \cup Editors \cup Tabs \cup Watchers
Replicas == Arms \cup Editors

ASSUME ClientsAssumption ==
  /\ Arms \cap Editors = {} /\ Tabs \cap Watchers = {}
  /\ Replicas \cap (Tabs \cup Watchers) = {}
  /\ Crews \subseteq SUBSET Clients
  /\ MaxEdits \in Nat /\ MaxFaults \in Nat

Delta == [by : Clients, n : 1 .. MaxEdits]

VARIABLES
  crew,       \* the clients of this behaviour
  running,    \* clients whose process, window or page exists
  mem,        \* mem[c]: the document in memory; what a watcher was told of
  disk,       \* disk[c]: an arm's cached file
  made,       \* made[c]: how many edits c made
  working,    \* clients with the note in their working set, or watching it
  dirty,      \* clients that count the note as unsynced
  connected,  \* clients whose `connected` flag is set
  link,       \* link[c]: the socket
  closes,     \* closes[c]: close events of former sockets yet to come
  synced,     \* clients that answered the brain's sync1 on this link
  backlog,    \* backlog[c]: frames a page keeps until its socket opens
  brain,      \* the brain's document
  bopen,      \* clients whose connection has the note open at the brain
  base,       \* base[c]: what the brain had when c opened it and has not sent
  faults

client == <<mem, disk, made, working, dirty>>
server == <<brain, bopen, base>>
vars == <<crew, running, client, connected, link, closes, synced, backlog,
          server, faults>>

Frame(t, ds) == [t |-> t, ds |-> ds]
NoLink == [state |-> "none", up |-> <<>>, down |-> <<>>]

Init ==
  /\ crew \in Crews
  /\ running = crew
  /\ mem = [c \in Clients |-> {}] /\ disk = mem
  /\ made = [c \in Clients |-> 0]
  /\ working = {} /\ dirty = {} /\ connected = {} /\ synced = {}
  /\ link = [c \in Clients |-> NoLink]
  /\ closes = [c \in Clients |-> 0]
  /\ backlog = [c \in Clients |-> <<>>]
  /\ brain = {} /\ bopen = {} /\ base = mem
  /\ faults = 0

\* send: nothing at all unless the socket is open.  One that has dropped
\* looks open until its close event, and what it is given goes nowhere.
Sent(c, fs) ==
  IF link[c].state = "open" THEN [link EXCEPT ![c].up = @ \o fs] ELSE link

Handshake(c) == <<Frame("open", {}), Frame("sync1", mem[c])>>

\* One of the bounded number of things that go wrong or are done again.
Fault == faults < MaxFaults /\ faults' = faults + 1

----------------------------------------------------------------------------
(* Connections.  Arms and editors connect when their user says so, and      *)
(* again after a drop; a page and the MCP server connect once.              *)

Connect(c) ==
  /\ c \in running \ connected
  /\ link[c].state = "none"
  /\ link' = [link EXCEPT ![c].state = "connecting"]
  /\ synced' = synced \ {c}
  /\ UNCHANGED <<crew, running, client, connected, closes, backlog, server, faults>>

Opened(c, fs) ==
  /\ link[c].state = "connecting"
  /\ link' = [link EXCEPT ![c] = [NoLink EXCEPT !.state = "open", !.up = fs]]
  /\ UNCHANGED <<crew, running, client, closes, server, faults>>

ReplicaOpened_without_a_handshake(c) ==
  /\ c \in Replicas
  /\ Opened(c, <<>>)
  /\ connected' = connected \cup {c}
  /\ UNCHANGED <<synced, backlog>>

ReplicaOpened(c) ==
  /\ c \in Replicas
  /\ Opened(c, IF c \in working THEN Handshake(c) ELSE <<>>)
  /\ connected' = connected \cup {c}
  /\ UNCHANGED <<synced, backlog>>

\* The page's backlog goes before the handshake, which its session starts
\* when the transport says it is open.
TabOpened(c) ==
  /\ c \in Tabs
  /\ Opened(c, backlog[c] \o Handshake(c))
  /\ backlog' = [backlog EXCEPT ![c] = <<>>]
  /\ UNCHANGED <<connected, synced>>

WatcherOpened(c) ==
  /\ c \in Watchers
  /\ Opened(c, IF c \in working THEN <<Frame("open", {})>> ELSE <<>>)
  /\ UNCHANGED <<connected, synced, backlog>>

\* No connection is made: refused, or (editors) not upgraded in time.
ConnectFailed(c) ==
  /\ c \in Replicas
  /\ link[c].state = "connecting"
  /\ link' = [link EXCEPT ![c] = NoLink]
  /\ connected' = connected \ {c}
  /\ Fault
  /\ UNCHANGED <<crew, running, client, closes, synced, backlog, server>>

\* The network or the brain ends the link; frames on their way are lost.
Drop(c) ==
  /\ link[c].state = "open"
  /\ link' = [link EXCEPT ![c] = [NoLink EXCEPT !.state = "dead"]]
  /\ bopen' = bopen \ {c}
  /\ Fault
  /\ UNCHANGED <<crew, running, client, connected, closes, synced, backlog, brain, base>>

Closed(c) ==
  /\ c \in Replicas
  /\ link[c].state = "dead"
  /\ link' = [link EXCEPT ![c] = NoLink]
  /\ connected' = connected \ {c}
  /\ UNCHANGED <<crew, running, client, closes, synced, backlog, server, faults>>

\* The close event of a socket that disconnect() let go of.  It clears
\* `connected` whichever socket is the current one.
FormerClosed(c) ==
  /\ closes[c] > 0
  /\ closes' = [closes EXCEPT ![c] = @ - 1]
  /\ connected' = connected \ {c}
  /\ UNCHANGED <<crew, running, client, link, synced, backlog, server, faults>>

Disconnect(c) ==
  /\ c \in Replicas
  /\ link[c].state \in {"open", "dead"}
  /\ link' = [link EXCEPT ![c] = NoLink]
  /\ closes' = [closes EXCEPT ![c] = @ + 1]
  /\ connected' = connected \ {c}
  /\ bopen' = bopen \ {c}
  /\ Fault
  /\ UNCHANGED <<crew, running, client, synced, backlog, brain, base>>

----------------------------------------------------------------------------
(* Opening and editing the note.                                           *)

\* openNote: also of a note that is open, whose handshake is then sent again
\* whatever of the last one is under way.
OpenNote(c) ==
  /\ c \in running \cap Replicas
  /\ IF c \in working THEN Fault ELSE UNCHANGED faults
  /\ working' = working \cup {c}
  /\ link' = IF c \in connected THEN Sent(c, Handshake(c)) ELSE link
  /\ UNCHANGED <<crew, running, mem, disk, made, dirty, connected, closes,
                 synced, backlog, server>>

\* A user's change of the document, and what c's update listener does of it.
Edit(c, d) ==
  /\ c \in running /\ made[c] < MaxEdits
  /\ d = [by |-> c, n |-> made[c] + 1]
  /\ made' = [made EXCEPT ![c] = @ + 1]
  /\ mem' = [mem EXCEPT ![c] = @ \cup {d}]
  /\ UNCHANGED <<crew, running, working, connected, closes, synced, server, faults>>

\* Pushed when connected; else remembered, to be pushed on reconnect.
Push(c, d) ==
  /\ link' = IF c \in connected THEN Sent(c, <<Frame("update", {d})>>) ELSE link
  /\ dirty' = IF c \in connected THEN dirty ELSE dirty \cup {c}

\* An arm may edit a note that is not in its working set; it is from the next
\* start on, when its file is found.
ArmEdit(c) == \E d \in Delta :
  /\ c \in Arms
  /\ Edit(c, d) /\ Push(c, d)
  /\ disk' = [disk EXCEPT ![c] = mem'[c]]
  /\ UNCHANGED backlog

EditorEdit(c) == \E d \in Delta :
  /\ c \in Editors \cap working
  /\ Edit(c, d) /\ Push(c, d)
  /\ UNCHANGED <<disk, backlog>>

TabEdit(c) == \E d \in Delta :
  /\ c \in Tabs /\ link[c].state # "none"
  /\ Edit(c, d)
  /\ IF link[c].state = "connecting"
     THEN /\ backlog' = [backlog EXCEPT ![c] = Append(@, Frame("update", {d}))]
          /\ UNCHANGED link
     ELSE /\ link' = Sent(c, <<Frame("update", {d})>>)
          /\ UNCHANGED backlog
  /\ UNCHANGED <<disk, dirty>>

Watch(c) ==
  /\ c \in (running \cap Watchers) \ working
  /\ working' = working \cup {c}
  /\ link' = Sent(c, <<Frame("open", {})>>)
  /\ UNCHANGED <<crew, running, mem, disk, made, dirty, connected, closes,
                 synced, backlog, server, faults>>

----------------------------------------------------------------------------
(* Frames from the brain.                                                  *)

Received(c, t) ==
  /\ link[c].state = "open" /\ link[c].down # <<>>
  /\ link[c].down[1].t \in t
  /\ UNCHANGED <<crew, running, made, working, connected, closes, backlog,
                 server, faults>>

Rest(c) == [link[c] EXCEPT !.down = Tail(@)]

\* The brain's state vector: c answers what it describes nothing of, and
\* counts itself as synced.
Answer_remembered_only(c) ==
  /\ c \notin Watchers
  /\ Received(c, {"sync1"})
  /\ link' = [link EXCEPT ![c] = [Rest(c) EXCEPT !.up =
       IF c \in dirty THEN Append(@, Frame("sync2", mem[c] \ link[c].down[1].ds)) ELSE @]]
  /\ dirty' = dirty \ {c}
  /\ synced' = synced \cup {c}
  /\ UNCHANGED <<mem, disk>>

Answer(c) ==
  /\ c \notin Watchers
  /\ Received(c, {"sync1"})
  /\ link' = [link EXCEPT ![c] = [Rest(c) EXCEPT !.up =
       Append(@, Frame("sync2", mem[c] \ link[c].down[1].ds))]]
  /\ dirty' = dirty \ {c}
  /\ synced' = synced \cup {c}
  /\ UNCHANGED <<mem, disk>>

ApplyRemote_in_memory(c) ==
  /\ Received(c, {"sync2", "update"})
  /\ mem' = [mem EXCEPT ![c] = @ \cup link[c].down[1].ds]
  /\ link' = [link EXCEPT ![c] = Rest(c)]
  /\ UNCHANGED <<dirty, synced, disk>>

\* The document takes it, and an arm saves that.
ApplyRemote(c) ==
  /\ Received(c, {"sync2", "update"})
  /\ mem' = [mem EXCEPT ![c] = @ \cup link[c].down[1].ds]
  /\ disk' = IF c \in Arms THEN [disk EXCEPT ![c] = mem'[c]] ELSE disk
  /\ link' = [link EXCEPT ![c] = Rest(c)]
  /\ UNCHANGED <<dirty, synced>>

----------------------------------------------------------------------------
(* Processes.                                                              *)

\* The process, window or page ends: what is not on disk is gone.
Stop(c) ==
  /\ c \in running
  /\ running' = running \ {c}
  /\ mem' = [mem EXCEPT ![c] = {}]
  /\ working' = IF c \in Arms THEN working ELSE working \ {c}
  /\ dirty' = dirty \ {c} /\ connected' = connected \ {c}
  /\ link' = [link EXCEPT ![c] = NoLink]
  /\ closes' = [closes EXCEPT ![c] = 0]
  /\ backlog' = [backlog EXCEPT ![c] = <<>>]
  /\ bopen' = bopen \ {c}
  /\ Fault
  /\ UNCHANGED <<crew, disk, made, synced, brain, base>>

\* load: the cached files and the manifest are the working set.
Start(c) ==
  /\ c \in crew \ running
  /\ running' = running \cup {c}
  /\ mem' = [mem EXCEPT ![c] = disk[c]]
  /\ working' = IF disk[c] # {} THEN working \cup {c} ELSE working
  /\ UNCHANGED <<crew, disk, made, dirty, connected, link, closes, synced,
                 backlog, server, faults>>

----------------------------------------------------------------------------
(* The brain's handler of a frame of c.                                    *)

Taken(c, t) ==
  /\ link[c].state = "open" /\ link[c].up # <<>>
  /\ link[c].up[1].t \in t
  /\ UNCHANGED <<crew, running, client, connected, closes, synced, backlog, faults>>

BrainOpen(c) ==
  /\ Taken(c, {"open"})
  /\ bopen' = bopen \cup {c}
  /\ base' = [base EXCEPT ![c] = brain]
  /\ link' = [link EXCEPT ![c].up = Tail(@)]
  /\ UNCHANGED brain

BrainSync1(c) ==
  /\ Taken(c, {"sync1"})
  /\ link' = [link EXCEPT ![c] = [link[c] EXCEPT !.up = Tail(@), !.down = @ \o
       <<Frame("sync2", brain \ link[c].up[1].ds), Frame("sync1", brain)>>]]
  /\ base' = [base EXCEPT ![c] = {}]
  /\ UNCHANGED <<brain, bopen>>

Fanned_until_synced(c, o) == o \in bopen \ {c} /\ base[o] # {}

\* Every other connection that has the note open.
Fanned(c, o) == o \in bopen \ {c}

BrainUpdate(c) ==
  LET ds == link[c].up[1].ds IN
  /\ Taken(c, {"sync2", "update"})
  /\ brain' = brain \cup ds
  /\ link' = [o \in Clients |->
       IF o = c THEN [link[c] EXCEPT !.up = Tail(@)]
       ELSE IF Fanned(c, o) /\ ds # {} THEN [link[o] EXCEPT !.down = Append(@, Frame("update", ds))]
       ELSE link[o]]
  /\ UNCHANGED <<bopen, base>>

Handling(c) == BrainOpen(c) \/ BrainSync1(c) \/ BrainUpdate(c)
Receiving(c) == Answer(c) \/ ApplyRemote(c)

Next == \E c \in Clients :
  \/ Connect(c) \/ ReplicaOpened(c) \/ TabOpened(c) \/ WatcherOpened(c)
  \/ ConnectFailed(c) \/ Drop(c) \/ Closed(c) \/ FormerClosed(c) \/ Disconnect(c)
  \/ OpenNote(c) \/ ArmEdit(c) \/ EditorEdit(c) \/ TabEdit(c) \/ Watch(c)
  \/ Receiving(c) \/ Stop(c) \/ Start(c) \/ Handling(c)

Spec == Init /\ [][Next]_vars

\* Frames that are not lost are handled, on both ends.  Nothing says that a
\* user connects, opens, edits or comes back.
Fairness == \A c \in Clients : WF_vars(Handling(c)) /\ WF_vars(Receiving(c))

FairSpec == Spec /\ Fairness

----------------------------------------------------------------------------
(* Properties.                                                             *)

Carried(q, t) == UNION {q[i].ds : i \in {j \in DOMAIN q : q[j].t \in t}}
Up(c) == Carried(link[c].up, {"sync2", "update"})
Down(c) == Carried(link[c].down, {"sync2", "update"})

\* The client's own end of the link works, as far as it knows and in fact.
Linked(c) ==
  /\ link[c].state = "open" /\ c \in working
  /\ c \in Replicas => c \in connected

\* The variables are of their types, a running arm's file holds its document
\* (the process may end at any time), only open links carry frames, and the
\* brain has the note open only for clients it has a link with.
TypeOK ==
  /\ crew \in Crews /\ running \subseteq crew
  /\ mem \in [Clients -> SUBSET Delta] /\ disk \in [Clients -> SUBSET Delta]
  /\ made \in [Clients -> 0 .. MaxEdits] /\ closes \in [Clients -> 0 .. MaxFaults]
  /\ working \cup dirty \cup connected \cup synced \subseteq Clients
  /\ \A c \in Arms \cap running : disk[c] = mem[c]
  /\ \A c \in Clients :
       /\ link[c].state \in {"none", "connecting", "open", "dead"}
       /\ link[c].state # "open" => link[c].up = <<>> /\ link[c].down = <<>>
       /\ link[c].state # "connecting" => backlog[c] = <<>>
  /\ bopen \subseteq {c \in Clients : link[c].state = "open"}
  /\ brain \subseteq Delta /\ base \in [Clients -> SUBSET brain]
  /\ faults \in 0 .. MaxFaults

\* Once a client has answered the brain's sync1, all it has is at the brain
\* or on its way, and stays so while it counts as connected: no edit falls
\* between the handshake, the update frames and the offline set.
CarriedUp == \A c \in synced \cap (Replicas \cup Tabs) :
  link[c].state = "open" /\ (c \in Replicas => c \in connected)
    => mem[c] \subseteq brain \cup Up(c)

\* All the brain has is known to each client that opened the note, or on its
\* way, but for what it had at the open until the sync1 is answered: no
\* update falls between the open, the answer and the fan-out.
CarriedDown == \A c \in bopen : brain \subseteq mem[c] \cup base[c] \cup Down(c)

\* While a link works the two ends come to agree (again and again, as edits
\* are made): also on the edits made offline, before the link.
Delivered == \A c \in Replicas : []<>(Linked(c) => mem[c] = brain)
=============================================================================
