------------------------- MODULE SyncClients_proofs -------------------------
(***************************************************************************)
(* The two carrying invariants of the sync protocol, for any clients, with *)
(* connections that break, users who type and processes that end at any    *)
(* moment.                                                                 *)
(*                                                                         *)
(* A client sends only what its document holds, and is sent only what the  *)
(* brain's holds; its answer to the brain's state vector then makes up for *)
(* all it had not sent, and the brain's answer for all it had not been     *)
(* sent.  A connection that is being made carries nothing, and its client  *)
(* has answered nothing on it.                                             *)
(***************************************************************************)
EXTENDS SyncClients, SequenceTheorems, TLAPS

FrameType == [t : {"open", "sync1", "sync2", "update"}, ds : SUBSET Delta]
Frames == Seq(FrameType)
LinkType == [state : {"none", "connecting", "open", "dead"}, up : Frames, down : Frames]

----------------------------------------------------------------------------
(* What queues of frames carry.                                            *)

\* All frames of a queue are of a document.
Within(q, ds) == \A i \in DOMAIN q : q[i].ds \subseteq ds

LEMMA CarriedEmpty ==
  ASSUME NEW t, NEW ds
  PROVE  Carried(<<>>, t) = {} /\ Within(<<>>, ds)
  BY DEF Carried, Within

LEMMA CarriedAppend ==
  ASSUME NEW q \in Frames, NEW f \in FrameType, NEW t, NEW ds
  PROVE  /\ Append(q, f) \in Frames
         /\ Carried(Append(q, f), t) = Carried(q, t) \cup (IF f.t \in t THEN f.ds ELSE {})
         /\ Within(Append(q, f), ds) <=> Within(q, ds) /\ f.ds \subseteq ds
<1> DEFINE p == Append(q, f)
<1>1. p \in Frames /\ DOMAIN p = DOMAIN q \cup {Len(q) + 1} /\ p[Len(q) + 1] = f
      /\ \A i \in DOMAIN q : p[i] = q[i]
  BY DEF Frames
<1> HIDE DEF p
<1>2. Carried(p, t) = Carried(q, t) \cup (IF f.t \in t THEN f.ds ELSE {})
  BY <1>1 DEF Carried
<1>3. Within(p, ds) <=> Within(q, ds) /\ f.ds \subseteq ds
  BY <1>1 DEF Within
<1> QED BY <1>1, <1>2, <1>3 DEF p

LEMMA CarriedHead ==
  ASSUME NEW q \in Frames, q # <<>>, NEW t, NEW ds
  PROVE  /\ q[1] \in FrameType /\ Tail(q) \in Frames
         /\ Carried(q, t) = (IF q[1].t \in t THEN q[1].ds ELSE {}) \cup Carried(Tail(q), t)
         /\ Within(q, ds) => Within(Tail(q), ds) /\ q[1].ds \subseteq ds
<1> DEFINE p == Tail(q)
<1>1. q[1] \in FrameType /\ p \in Frames /\ 1 \in DOMAIN q
      /\ (\A i \in DOMAIN p : i + 1 \in DOMAIN q /\ p[i] = q[i + 1])
      /\ (\A i \in DOMAIN q \ {1} : i - 1 \in DOMAIN p /\ q[i] = p[i - 1])
  BY DEF Frames
<1> HIDE DEF p
<1>2. Carried(q, t) = (IF q[1].t \in t THEN q[1].ds ELSE {}) \cup Carried(p, t)
  BY <1>1 DEF Carried
<1>3. Within(q, ds) => Within(p, ds) /\ q[1].ds \subseteq ds
  BY <1>1 DEF Within
<1> QED BY <1>1, <1>2, <1>3 DEF p

LEMMA CarriedConcat ==
  ASSUME NEW q \in Frames, NEW p \in Frames, NEW t, NEW ds
  PROVE  /\ q \o p \in Frames
         /\ Carried(q \o p, t) = Carried(q, t) \cup Carried(p, t)
         /\ Within(q \o p, ds) <=> Within(q, ds) /\ Within(p, ds)
<1> DEFINE r == q \o p
<1>1. /\ r \in Frames
      /\ \A i \in DOMAIN q : i \in DOMAIN r /\ r[i] = q[i]
      /\ \A i \in DOMAIN p : i + Len(q) \in DOMAIN r /\ r[i + Len(q)] = p[i]
      /\ \A i \in DOMAIN r : i \in DOMAIN q \/ i - Len(q) \in DOMAIN p
      /\ \A i \in DOMAIN r : i - Len(q) \in DOMAIN p => r[i] = p[i - Len(q)]
  BY DEF Frames
<1> HIDE DEF r
<1>2. Carried(r, t) = Carried(q, t) \cup Carried(p, t)
  BY <1>1 DEF Carried
<1>3. Within(r, ds) <=> Within(q, ds) /\ Within(p, ds)
  BY <1>1 DEF Within
<1> QED BY <1>1, <1>2, <1>3 DEF r

\* A document that grows keeps the frames it holds.
LEMMA WithinGrows ==
  ASSUME NEW q, NEW ds, NEW es, Within(q, ds), ds \subseteq es
  PROVE  Within(q, es)
  BY DEF Within

----------------------------------------------------------------------------
(* The invariant.                                                          *)

Typed ==
  /\ crew \in Crews /\ running \subseteq crew
  /\ mem \in [Clients -> SUBSET Delta] /\ disk \in [Clients -> SUBSET Delta]
  /\ made \in [Clients -> 0 .. MaxEdits] /\ closes \in [Clients -> Nat]
  /\ working \subseteq Clients /\ dirty \subseteq Clients /\ connected \subseteq Clients
  /\ synced \subseteq Clients /\ bopen \subseteq Clients
  /\ link \in [Clients -> LinkType] /\ backlog \in [Clients -> Frames]
  /\ brain \subseteq Delta /\ base \in [Clients -> SUBSET Delta]
  /\ faults \in 0 .. MaxFaults

\* A link carries frames when it is open, and is of a process that runs.
LinkGood(c) ==
  /\ link[c].state # "open" => link[c].up = <<>> /\ link[c].down = <<>>
  /\ link[c].state # "connecting" \/ c \notin Tabs => backlog[c] = <<>>
  /\ link[c].state # "none" => c \in running
  /\ link[c].state = "connecting" => c \notin synced
  /\ c \in bopen => link[c].state = "open"
  /\ closes[c] <= faults
  /\ c \in Arms \cap running => disk[c] = mem[c]

\* Both ends send what they hold.
SentGood(c) ==
  /\ Within(link[c].up, mem[c]) /\ Within(backlog[c], mem[c])
  /\ Within(link[c].down, brain)
  /\ base[c] \subseteq brain

UpGood(c) ==
  /\ c \in synced /\ c \in Replicas \cup Tabs
  /\ link[c].state = "open" /\ (c \in Replicas => c \in connected)
  => mem[c] \subseteq brain \cup Up(c)

DownGood(c) == c \in bopen => brain \subseteq mem[c] \cup base[c] \cup Down(c)

Good(c) == LinkGood(c) /\ SentGood(c) /\ UpGood(c) /\ DownGood(c)

IInv == Typed /\ \A c \in Clients : Good(c)

\* What a step leaves of a client.
Alone(c) ==
  /\ link'[c] = link[c] /\ backlog'[c] = backlog[c] /\ mem'[c] = mem[c] /\ disk'[c] = disk[c]
  /\ base'[c] = base[c] /\ closes'[c] = closes[c]
  /\ c \in running' <=> c \in running
  /\ c \in synced' <=> c \in synced
  /\ c \in connected' => c \in connected
  /\ c \in bopen' <=> c \in bopen

LEMMA AloneGood ==
  ASSUME IInv, NEW c \in Clients, Alone(c), UNCHANGED brain, faults' \in Nat, faults' >= faults
  PROVE  Good(c)'
<1>1. Good(c) /\ closes[c] \in Nat /\ faults \in Nat
  BY DEF IInv, Typed
<1>2. LinkGood(c)'
  BY <1>1 DEF Good, LinkGood, Alone
<1>3. SentGood(c)'
  BY <1>1 DEF Good, SentGood, Alone
<1>4. UpGood(c)'
  BY <1>1 DEF Good, UpGood, Alone, Up
<1>5. DownGood(c)'
  BY <1>1 DEF Good, DownGood, Alone, Down
<1> QED BY <1>2, <1>3, <1>4, <1>5 DEF Good

\* A step of one client that leaves the brain's document.
LEMMA OneClient ==
  ASSUME IInv, NEW c \in Clients, Typed', Good(c)', UNCHANGED brain, faults' >= faults,
         \A o \in Clients \ {c} : Alone(o)
  PROVE  IInv'
<1>1. faults' \in Nat
  BY ClientsAssumption DEF Typed
<1> QED BY <1>1, AloneGood DEF IInv

\* A link with new values is a link.
LEMMA LinkSet ==
  ASSUME IInv, NEW c \in Clients, NEW l \in LinkType, link' = [link EXCEPT ![c] = l]
  PROVE  /\ link' \in [Clients -> LinkType] /\ link'[c] = l
         /\ \A o \in Clients \ {c} : link'[o] = link[o]
  BY DEF IInv, Typed

LEMMA LinkFields ==
  ASSUME IInv, NEW c \in Clients
  PROVE  /\ link[c] \in LinkType /\ link[c].up \in Frames /\ link[c].down \in Frames
         /\ link[c].state \in {"none", "connecting", "open", "dead"}
         /\ mem[c] \in SUBSET Delta /\ backlog[c] \in Frames
  BY DEF IInv, Typed, LinkType

LEMMA NoLinkTyped ==
  /\ NoLink \in LinkType
  /\ NoLink.state = "none" /\ NoLink.up = <<>> /\ NoLink.down = <<>>
<1>1. <<>> \in Frames
  BY DEF Frames
<1> QED BY <1>1 DEF NoLink, LinkType

\* Most fields of a step's typing are of no interest.
LEMMA FaultStep ==
  ASSUME Typed, Fault
  PROVE  faults' \in 0 .. MaxFaults /\ faults' = faults + 1 /\ faults \in Nat
  BY ClientsAssumption DEF Typed, Fault

----------------------------------------------------------------------------
(* Connections.                                                            *)

LEMMA StepConnect ==
  ASSUME IInv, NEW c \in Clients, Connect(c)
  PROVE  IInv'
<1> DEFINE l == [link[c] EXCEPT !.state = "connecting"]
<1>1. Typed /\ Good(c)
  BY DEF IInv
<1>2. l \in LinkType /\ l.state = "connecting" /\ l.up = link[c].up /\ l.down = link[c].down
  BY LinkFields DEF LinkType
<1>3. link' = [link EXCEPT ![c] = l]
  BY DEF Connect
<1> HIDE DEF l
<1>4. /\ link' \in [Clients -> LinkType] /\ link'[c] = l
      /\ \A o \in Clients \ {c} : link'[o] = link[o]
  BY <1>2, <1>3, LinkSet
<1>5. Typed'
  BY <1>1, <1>4 DEF Connect, Typed, client, server
<1>6. \A o \in Clients \ {c} : Alone(o)
  BY <1>4 DEF Connect, Alone, client, server
<1>7. LinkGood(c)'
  BY <1>1, <1>2, <1>4 DEF Connect, client, server, Good, LinkGood
<1>8. SentGood(c)'
  BY <1>1, <1>2, <1>4 DEF Connect, client, server, Good, SentGood
<1>9. UpGood(c)' /\ DownGood(c)'
  BY <1>1, <1>2, <1>4 DEF Connect, client, server, Good, LinkGood, UpGood, DownGood
<1>10. UNCHANGED brain /\ faults' >= faults
  BY <1>1, ClientsAssumption DEF Connect, server, Typed
<1> QED BY <1>5, <1>6, <1>7, <1>8, <1>9, <1>10, OneClient DEF Good

\* A link that opens with frames of what its client holds.
LEMMA StepOpened ==
  ASSUME IInv, NEW c \in Clients, NEW fs \in Frames, Opened(c, fs), Within(fs, mem[c]),
         UNCHANGED synced, connected' \subseteq Clients, connected' \subseteq connected \cup {c},
         \/ UNCHANGED backlog /\ c \notin Tabs
         \/ backlog' = [backlog EXCEPT ![c] = <<>>]
  PROVE  IInv'
<1> DEFINE l == [NoLink EXCEPT !.state = "open", !.up = fs]
<1>1. Typed /\ Good(c) /\ link[c].state = "connecting"
  BY DEF IInv, Opened
<1>2. l \in LinkType /\ l.state = "open" /\ l.up = fs /\ l.down = <<>>
  BY NoLinkTyped DEF LinkType
<1>3. link' = [link EXCEPT ![c] = l]
  BY DEF Opened
<1> HIDE DEF l
<1>4. /\ link' \in [Clients -> LinkType] /\ link'[c] = l
      /\ \A o \in Clients \ {c} : link'[o] = link[o]
  BY <1>2, <1>3, LinkSet
<1>5. <<>> \in Frames
  BY DEF Frames
<1>6. /\ backlog' \in [Clients -> Frames] /\ backlog'[c] = <<>>
      /\ \A o \in Clients \ {c} : backlog'[o] = backlog[o]
  BY <1>1, <1>5 DEF Typed, Good, LinkGood
<1>7. Typed'
  BY <1>1, <1>4, <1>6 DEF Opened, Typed, client, server
<1>8. \A o \in Clients \ {c} : Alone(o)
  BY <1>4, <1>6 DEF Opened, Alone, client, server
<1>9. LinkGood(c)'
  BY <1>1, <1>2, <1>4, <1>6 DEF Opened, client, server, Good, LinkGood
<1>10. SentGood(c)'
  <2>1. mem'[c] = mem[c] /\ brain' = brain /\ base'[c] = base[c] /\ base[c] \subseteq brain
    BY <1>1 DEF Opened, client, server, Good, SentGood
  <2>2. Within(<<>>, mem[c]) /\ Within(<<>>, brain)
    BY CarriedEmpty
  <2> QED BY <1>2, <1>4, <1>6, <2>1, <2>2 DEF SentGood
<1>11. UpGood(c)' /\ DownGood(c)'
  BY <1>1 DEF Opened, client, server, Good, LinkGood, UpGood, DownGood
<1>12. UNCHANGED brain /\ faults' >= faults
  BY <1>1, ClientsAssumption DEF Opened, server, Typed
<1> QED BY <1>7, <1>8, <1>9, <1>10, <1>11, <1>12, OneClient DEF Good

LEMMA HandshakeGood ==
  ASSUME IInv, NEW c \in Clients
  PROVE  /\ Handshake(c) \in Frames /\ Within(Handshake(c), mem[c])
         /\ Frame("open", {}) \in FrameType
         /\ \A d \in SUBSET Delta : Frame("update", d) \in FrameType /\ Frame("sync2", d) \in FrameType
<1>1. Frame("open", {}) \in FrameType /\ Frame("sync1", mem[c]) \in FrameType
  BY LinkFields DEF Frame, FrameType
<1>2. Handshake(c) \in Frames
  BY <1>1 DEF Handshake, Frames
<1>3. Within(Handshake(c), mem[c])
  BY DEF Handshake, Within, Frame
<1>4. \A d \in SUBSET Delta : Frame("update", d) \in FrameType /\ Frame("sync2", d) \in FrameType
  BY DEF Frame, FrameType
<1> QED BY <1>1, <1>2, <1>3, <1>4

LEMMA StepReplicaOpened ==
  ASSUME IInv, NEW c \in Clients, ReplicaOpened(c)
  PROVE  IInv'
<1> DEFINE fs == IF c \in working THEN Handshake(c) ELSE <<>>
<1>1. fs \in Frames /\ Within(fs, mem[c])
  BY HandshakeGood, CarriedEmpty DEF Frames
<1>2. c \notin Tabs /\ connected' = connected \cup {c}
  BY ClientsAssumption DEF ReplicaOpened
<1> QED BY <1>1, <1>2, StepOpened DEF ReplicaOpened, IInv, Typed

LEMMA StepTabOpened ==
  ASSUME IInv, NEW c \in Clients, TabOpened(c)
  PROVE  IInv'
<1> DEFINE fs == backlog[c] \o Handshake(c)
<1>1. backlog[c] \in Frames /\ Within(backlog[c], mem[c])
  BY LinkFields DEF IInv, Good, SentGood
<1>2. fs \in Frames /\ Within(fs, mem[c])
  BY <1>1, HandshakeGood, CarriedConcat
<1> QED BY <1>2, StepOpened DEF TabOpened, IInv, Typed

LEMMA StepWatcherOpened ==
  ASSUME IInv, NEW c \in Clients, WatcherOpened(c)
  PROVE  IInv'
<1> DEFINE fs == IF c \in working THEN <<Frame("open", {})>> ELSE <<>>
<1>1. fs \in Frames
  BY HandshakeGood DEF Frames
<1>2. Within(fs, mem[c])
  BY DEF Within, Frame
<1>3. c \notin Tabs
  BY ClientsAssumption DEF WatcherOpened
<1> QED BY <1>1, <1>2, <1>3, StepOpened DEF WatcherOpened, IInv, Typed

\* A link that ends, or whose process does.
LEMMA EndedGood ==
  ASSUME IInv, NEW c \in Clients,
         link'[c].up = <<>>, link'[c].down = <<>>, link'[c].state \in {"none", "dead"},
         link'[c].state = "dead" => c \in running', c \notin bopen', backlog'[c] = <<>>,
         base'[c] = base[c], UNCHANGED brain, closes'[c] <= faults',
         c \in Arms \cap running' => disk'[c] = mem'[c]
  PROVE  Good(c)'
<1>1. LinkGood(c)'
  BY DEF LinkGood
<1>2. SentGood(c)'
  <2>1. base[c] \subseteq brain
    BY DEF IInv, Good, SentGood
  <2>2. Within(<<>>, mem'[c]) /\ Within(<<>>, brain)
    BY CarriedEmpty
  <2> QED BY <2>1, <2>2 DEF SentGood
<1>3. UpGood(c)' /\ DownGood(c)'
  BY DEF UpGood, DownGood
<1> QED BY <1>1, <1>2, <1>3 DEF Good

LEMMA StepConnectFailed ==
  ASSUME IInv, NEW c \in Clients, ConnectFailed(c)
  PROVE  IInv'
<1>1. Typed /\ Good(c) /\ c \notin Tabs /\ closes[c] \in Nat
  BY ClientsAssumption DEF IInv, ConnectFailed, Typed
<1>2. /\ link' \in [Clients -> LinkType] /\ link'[c] = NoLink
      /\ \A o \in Clients \ {c} : link'[o] = link[o]
  BY NoLinkTyped, LinkSet DEF ConnectFailed
<1>3. faults' \in 0 .. MaxFaults /\ faults' = faults + 1 /\ faults \in Nat
  BY <1>1, FaultStep DEF ConnectFailed
<1>4. Typed'
  BY <1>1, <1>2, <1>3 DEF ConnectFailed, Typed, client, server
<1>5. \A o \in Clients \ {c} : Alone(o)
  BY <1>2 DEF ConnectFailed, Alone, client, server
<1>6. c \notin bopen /\ backlog[c] = <<>> /\ closes[c] <= faults
      /\ (c \in Arms \cap running => disk[c] = mem[c])
  BY <1>1 DEF Good, LinkGood, ConnectFailed
<1>7. /\ UNCHANGED brain /\ base'[c] = base[c] /\ closes'[c] <= faults'
      /\ (c \in Arms \cap running' => disk'[c] = mem'[c])
      /\ c \notin bopen' /\ backlog'[c] = <<>>
  BY <1>1, <1>3, <1>6 DEF ConnectFailed, client, server
<1>8. Good(c)'
  BY <1>2, <1>7, NoLinkTyped, EndedGood
<1> QED BY <1>3, <1>4, <1>5, <1>7, <1>8, OneClient

LEMMA StepDrop ==
  ASSUME IInv, NEW c \in Clients, Drop(c)
  PROVE  IInv'
<1> DEFINE l == [NoLink EXCEPT !.state = "dead"]
<1>1. Typed /\ Good(c) /\ closes[c] \in Nat
  BY DEF IInv, Typed
<1>2. l \in LinkType /\ l.state = "dead" /\ l.up = <<>> /\ l.down = <<>>
  BY NoLinkTyped DEF LinkType
<1>3. link' = [link EXCEPT ![c] = l]
  BY DEF Drop
<1> HIDE DEF l
<1>4. /\ link' \in [Clients -> LinkType] /\ link'[c] = l
      /\ \A o \in Clients \ {c} : link'[o] = link[o]
  BY <1>2, <1>3, LinkSet
<1>5. faults' \in 0 .. MaxFaults /\ faults' = faults + 1 /\ faults \in Nat
  BY <1>1, FaultStep DEF Drop
<1>6. Typed'
  BY <1>1, <1>4, <1>5 DEF Drop, Typed, client
<1>7. \A o \in Clients \ {c} : Alone(o)
  BY <1>4 DEF Drop, Alone, client
<1>8. backlog[c] = <<>> /\ closes[c] <= faults /\ c \in running
      /\ (c \in Arms \cap running => disk[c] = mem[c])
  BY <1>1 DEF Good, LinkGood, Drop
<1>9. /\ UNCHANGED brain /\ base'[c] = base[c] /\ closes'[c] <= faults' /\ c \in running'
      /\ (c \in Arms \cap running' => disk'[c] = mem'[c])
      /\ c \notin bopen' /\ backlog'[c] = <<>>
  BY <1>1, <1>5, <1>8 DEF Drop, client
<1>10. Good(c)'
  BY <1>2, <1>4, <1>9, EndedGood
<1> QED BY <1>5, <1>6, <1>7, <1>9, <1>10, OneClient

LEMMA StepClosed ==
  ASSUME IInv, NEW c \in Clients, Closed(c)
  PROVE  IInv'
<1>1. Typed /\ Good(c) /\ faults \in Nat
  BY ClientsAssumption DEF IInv, Typed
<1>2. /\ link' \in [Clients -> LinkType] /\ link'[c] = NoLink
      /\ \A o \in Clients \ {c} : link'[o] = link[o]
  BY NoLinkTyped, LinkSet DEF Closed
<1>3. Typed'
  BY <1>1, <1>2 DEF Closed, Typed, client, server
<1>4. \A o \in Clients \ {c} : Alone(o)
  BY <1>2 DEF Closed, Alone, client, server
<1>5. c \notin bopen /\ backlog[c] = <<>> /\ closes[c] <= faults
      /\ (c \in Arms \cap running => disk[c] = mem[c])
  BY <1>1 DEF Good, LinkGood, Closed
<1>6. /\ UNCHANGED brain /\ base'[c] = base[c] /\ closes'[c] <= faults' /\ faults' >= faults
      /\ (c \in Arms \cap running' => disk'[c] = mem'[c])
      /\ c \notin bopen' /\ backlog'[c] = <<>>
  BY <1>1, <1>5 DEF Closed, client, server
<1>7. Good(c)'
  BY <1>2, <1>6, NoLinkTyped, EndedGood
<1> QED BY <1>3, <1>4, <1>6, <1>7, OneClient

LEMMA StepFormerClosed ==
  ASSUME IInv, NEW c \in Clients, FormerClosed(c)
  PROVE  IInv'
<1>1. Typed /\ Good(c) /\ faults \in Nat
  BY ClientsAssumption DEF IInv, Typed
<1>2. /\ closes' \in [Clients -> Nat] /\ closes'[c] <= closes[c]
      /\ \A o \in Clients \ {c} : closes'[o] = closes[o]
  BY <1>1 DEF FormerClosed, Typed
<1>3. Typed'
  BY <1>1, <1>2 DEF FormerClosed, Typed, client, server
<1>4. \A o \in Clients \ {c} : Alone(o)
  BY <1>2 DEF FormerClosed, Alone, client, server
<1>5. UNCHANGED brain /\ faults' >= faults
  BY <1>1 DEF FormerClosed, server
<1>6. closes'[c] <= faults'
  BY <1>1, <1>2 DEF FormerClosed, Typed, Good, LinkGood
<1>7. LinkGood(c)'
  BY <1>1, <1>6 DEF FormerClosed, client, server, Good, LinkGood
<1>8. SentGood(c)' /\ UpGood(c)' /\ DownGood(c)'
  BY <1>1 DEF FormerClosed, client, server, Good, SentGood, UpGood, DownGood, Up, Down
<1> QED BY <1>3, <1>4, <1>5, <1>7, <1>8, OneClient DEF Good

LEMMA StepDisconnect ==
  ASSUME IInv, NEW c \in Clients, Disconnect(c)
  PROVE  IInv'
<1>1. Typed /\ Good(c) /\ closes[c] \in Nat
  BY DEF IInv, Typed
<1>2. /\ link' \in [Clients -> LinkType] /\ link'[c] = NoLink
      /\ \A o \in Clients \ {c} : link'[o] = link[o]
  BY NoLinkTyped, LinkSet DEF Disconnect
<1>3. faults' \in 0 .. MaxFaults /\ faults' = faults + 1 /\ faults \in Nat
  BY <1>1, FaultStep DEF Disconnect
<1>4. /\ closes' \in [Clients -> Nat] /\ closes'[c] = closes[c] + 1
      /\ \A o \in Clients \ {c} : closes'[o] = closes[o]
  BY <1>1 DEF Disconnect, Typed
<1>5. Typed'
  BY <1>1, <1>2, <1>3, <1>4 DEF Disconnect, Typed, client
<1>6. \A o \in Clients \ {c} : Alone(o)
  BY <1>2, <1>4 DEF Disconnect, Alone, client
<1>7. backlog[c] = <<>> /\ closes[c] <= faults
      /\ (c \in Arms \cap running => disk[c] = mem[c])
  BY <1>1 DEF Good, LinkGood, Disconnect
<1>8. /\ UNCHANGED brain /\ base'[c] = base[c] /\ closes'[c] <= faults'
      /\ (c \in Arms \cap running' => disk'[c] = mem'[c])
      /\ c \notin bopen' /\ backlog'[c] = <<>>
  BY <1>1, <1>3, <1>4, <1>7 DEF Disconnect, client
<1>9. Good(c)'
  BY <1>2, <1>8, NoLinkTyped, EndedGood
<1> QED BY <1>3, <1>5, <1>6, <1>8, <1>9, OneClient

LEMMA StepStop ==
  ASSUME IInv, NEW c \in Clients, Stop(c)
  PROVE  IInv'
<1>1. Typed /\ Good(c)
  BY DEF IInv
<1>2. /\ link' \in [Clients -> LinkType] /\ link'[c] = NoLink
      /\ \A o \in Clients \ {c} : link'[o] = link[o]
  BY NoLinkTyped, LinkSet DEF Stop
<1>3. faults' \in 0 .. MaxFaults /\ faults' = faults + 1 /\ faults \in Nat
  BY <1>1, FaultStep DEF Stop
<1>4. /\ closes' \in [Clients -> Nat] /\ closes'[c] = 0
      /\ mem' \in [Clients -> SUBSET Delta]
      /\ \A o \in Clients \ {c} : closes'[o] = closes[o] /\ mem'[o] = mem[o]
  BY <1>1 DEF Stop, Typed
<1>5. /\ backlog' \in [Clients -> Frames] /\ backlog'[c] = <<>>
      /\ \A o \in Clients \ {c} : backlog'[o] = backlog[o]
  <2>1. <<>> \in Frames
    BY DEF Frames
  <2> QED BY <1>1, <2>1 DEF Stop, Typed
<1>6. Typed'
  BY <1>1, <1>2, <1>3, <1>4, <1>5 DEF Stop, Typed
<1>7. \A o \in Clients \ {c} : Alone(o)
  BY <1>2, <1>4, <1>5 DEF Stop, Alone
<1>8. /\ UNCHANGED brain /\ base'[c] = base[c] /\ closes'[c] <= faults'
      /\ c \notin running' /\ c \notin bopen'
  BY <1>1, <1>3, <1>4 DEF Stop
<1>9. Good(c)'
  BY <1>2, <1>5, <1>8, NoLinkTyped, EndedGood
<1> QED BY <1>3, <1>6, <1>7, <1>8, <1>9, OneClient

LEMMA StepStart ==
  ASSUME IInv, NEW c \in Clients, Start(c)
  PROVE  IInv'
<1>1. Typed /\ Good(c) /\ faults \in Nat
  BY ClientsAssumption DEF IInv, Typed
<1>2. /\ mem' \in [Clients -> SUBSET Delta] /\ mem'[c] = disk[c]
      /\ \A o \in Clients \ {c} : mem'[o] = mem[o]
  BY <1>1 DEF Start, Typed
<1>3. Typed'
  BY <1>1, <1>2 DEF Start, Typed, server
<1>4. \A o \in Clients \ {c} : Alone(o)
  BY <1>2 DEF Start, Alone, server
<1>5. /\ link[c].state = "none" /\ link[c].up = <<>> /\ link[c].down = <<>>
      /\ backlog[c] = <<>> /\ c \notin bopen /\ closes[c] <= faults
  BY <1>1 DEF Start, Good, LinkGood
<1>6. /\ UNCHANGED brain /\ base'[c] = base[c] /\ closes'[c] <= faults' /\ faults' >= faults
      /\ disk'[c] = mem'[c] /\ c \notin bopen' /\ backlog'[c] = <<>> /\ link'[c] = link[c]
  BY <1>1, <1>2, <1>5 DEF Start, server
<1>7. Good(c)'
  BY <1>5, <1>6, EndedGood
<1> QED BY <1>3, <1>4, <1>6, <1>7, OneClient

----------------------------------------------------------------------------
(* Opening and editing the note.                                           *)

\* What a client gives its socket to send.
LEMMA Sending ==
  ASSUME IInv, NEW c \in Clients, NEW fs \in Frames, Within(fs, mem'[c]), mem[c] \subseteq mem'[c],
         link' = Sent(c, fs)
  PROVE  /\ link' \in [Clients -> LinkType]
         /\ \A o \in Clients \ {c} : link'[o] = link[o]
         /\ link'[c].state = link[c].state /\ link'[c].down = link[c].down
         /\ link[c].state # "open" => link'[c].up = link[c].up
         /\ Within(link'[c].up, mem'[c])
         /\ link[c].state = "open" =>
              Up(c)' = Up(c) \cup Carried(fs, {"sync2", "update"})
<1> DEFINE l == [link[c] EXCEPT !.up = @ \o fs]
<1>1. Within(link[c].up, mem[c]) /\ Typed
  BY DEF IInv, Good, SentGood
<1>2. Within(link[c].up, mem'[c])
  BY <1>1, WithinGrows
<1>3. CASE link[c].state = "open"
  <2>1. link[c].up \o fs \in Frames /\ Within(link[c].up \o fs, mem'[c])
        /\ Carried(link[c].up \o fs, {"sync2", "update"})
             = Up(c) \cup Carried(fs, {"sync2", "update"})
    BY <1>2, LinkFields, CarriedConcat DEF Up
  <2>2. l \in LinkType /\ l.state = link[c].state /\ l.up = link[c].up \o fs
        /\ l.down = link[c].down
    BY <2>1, LinkFields DEF LinkType
  <2>3. link' = [link EXCEPT ![c] = l]
    BY <1>3 DEF Sent
  <2> HIDE DEF l
  <2>4. /\ link' \in [Clients -> LinkType] /\ link'[c] = l
        /\ \A o \in Clients \ {c} : link'[o] = link[o]
    BY <2>2, <2>3, LinkSet
  <2> QED BY <1>3, <2>1, <2>2, <2>4 DEF Up
<1>4. CASE link[c].state # "open"
  <2>1. link' = link
    BY <1>4 DEF Sent
  <2> QED BY <1>1, <1>2, <1>4, <2>1 DEF Typed
<1> QED BY <1>3, <1>4

\* A client whose document grows and that sends what it grew by, if its link
\* is one that counts.
LEMMA GrownGood ==
  ASSUME IInv, NEW c \in Clients,
         link'[c].state = link[c].state, link'[c].down = link[c].down,
         link[c].state # "open" => link'[c].up = link[c].up,
         mem[c] \subseteq mem'[c], Within(link'[c].up, mem'[c]), Within(backlog'[c], mem'[c]),
         (link[c].state = "connecting" /\ c \in Tabs) \/ backlog'[c] = backlog[c],
         /\ c \in Replicas \cup Tabs /\ link[c].state = "open"
         /\ c \in Replicas => c \in connected
         => mem'[c] \subseteq mem[c] \cup Up(c)' /\ Up(c) \subseteq Up(c)',
         base'[c] = base[c], UNCHANGED <<running, brain, bopen, synced, connected, closes>>,
         faults' \in {faults, faults + 1}, c \in Arms \cap running => disk'[c] = mem'[c]
  PROVE  Good(c)'
<1>0. faults \in Nat /\ closes[c] \in Nat
  BY ClientsAssumption DEF IInv, Typed
<1>1. Good(c)
  BY DEF IInv
<1>2. LinkGood(c)'
  BY <1>0, <1>1 DEF Good, LinkGood
<1>3. SentGood(c)'
  BY <1>1 DEF Good, SentGood
<1>4. UpGood(c)'
  BY <1>1 DEF Good, UpGood
<1>5. DownGood(c)'
  BY <1>1 DEF Good, DownGood, Down
<1> QED BY <1>2, <1>3, <1>4, <1>5 DEF Good

LEMMA StepOpenNote ==
  ASSUME IInv, NEW c \in Clients, OpenNote(c)
  PROVE  IInv'
<1>0. faults' \in 0 .. MaxFaults /\ faults' >= faults /\ faults' \in {faults, faults + 1}
  BY ClientsAssumption DEF IInv, Typed, OpenNote, Fault
<1>1. Typed /\ Good(c) /\ mem' = mem /\ UNCHANGED brain
  BY DEF IInv, OpenNote, server
<1>2. /\ link' \in [Clients -> LinkType]
      /\ \A o \in Clients \ {c} : link'[o] = link[o]
      /\ link'[c].state = link[c].state /\ link'[c].down = link[c].down
      /\ link[c].state # "open" => link'[c].up = link[c].up
      /\ Within(link'[c].up, mem'[c])
      /\ link[c].state = "open" => Up(c) \subseteq Up(c)'
  <2>1. CASE c \in connected
    BY <1>1, <2>1, HandshakeGood, Sending DEF OpenNote
  <2>2. CASE c \notin connected
    <3>1. link' = link
      BY <2>2 DEF OpenNote
    <3> QED BY <1>1, <3>1 DEF Typed, Good, SentGood, Up
  <2> QED BY <2>1, <2>2
<1>3. Typed'
  BY <1>0, <1>1, <1>2 DEF OpenNote, Typed, server
<1>4. \A o \in Clients \ {c} : Alone(o)
  BY <1>2 DEF OpenNote, Alone, server
<1>5. Within(backlog'[c], mem'[c]) /\ (c \in Arms \cap running => disk'[c] = mem'[c])
  BY <1>1 DEF OpenNote, Good, LinkGood, SentGood
<1>6. Good(c)'
  BY <1>0, <1>1, <1>2, <1>5, GrownGood DEF OpenNote, server
<1> QED BY <1>0, <1>1, <1>3, <1>4, <1>6, OneClient

LEMMA StepWatch ==
  ASSUME IInv, NEW c \in Clients, Watch(c)
  PROVE  IInv'
<1>1. Typed /\ Good(c) /\ mem' = mem /\ UNCHANGED brain /\ faults' >= faults
  BY ClientsAssumption DEF IInv, Typed, Watch, server
<1>2. <<Frame("open", {})>> \in Frames
  BY HandshakeGood DEF Frames
<1>3. Within(<<Frame("open", {})>>, mem'[c])
  BY DEF Within, Frame
<1>4. /\ link' \in [Clients -> LinkType]
      /\ \A o \in Clients \ {c} : link'[o] = link[o]
      /\ link'[c].state = link[c].state /\ link'[c].down = link[c].down
      /\ link[c].state # "open" => link'[c].up = link[c].up
      /\ Within(link'[c].up, mem'[c])
      /\ link[c].state = "open" => Up(c) \subseteq Up(c)'
  BY <1>1, <1>2, <1>3, Sending DEF Watch
<1>5. Typed'
  BY <1>1, <1>4 DEF Watch, Typed, server
<1>6. \A o \in Clients \ {c} : Alone(o)
  BY <1>4 DEF Watch, Alone, server
<1>7. Within(backlog'[c], mem'[c]) /\ (c \in Arms \cap running => disk'[c] = mem'[c])
  BY <1>1 DEF Watch, Good, LinkGood, SentGood
<1>8. Good(c)'
  BY <1>1, <1>4, <1>7, GrownGood DEF Watch, server
<1> QED BY <1>1, <1>5, <1>6, <1>8, OneClient

\* The frame of an edit.
LEMMA EditFrame ==
  ASSUME IInv, NEW c \in Clients, NEW d \in Delta, Edit(c, d)
  PROVE  /\ <<Frame("update", {d})>> \in Frames /\ Frame("update", {d}) \in FrameType
         /\ Carried(<<Frame("update", {d})>>, {"sync2", "update"}) = {d}
         /\ Within(<<Frame("update", {d})>>, mem'[c])
         /\ mem' \in [Clients -> SUBSET Delta] /\ mem'[c] = mem[c] \cup {d}
         /\ \A o \in Clients \ {c} : mem'[o] = mem[o]
         /\ made' \in [Clients -> 0 .. MaxEdits]
<1>1. Typed
  BY DEF IInv
<1>2. Frame("update", {d}) \in FrameType
  BY HandshakeGood
<1>3. /\ mem' \in [Clients -> SUBSET Delta] /\ mem'[c] = mem[c] \cup {d}
      /\ \A o \in Clients \ {c} : mem'[o] = mem[o]
  BY <1>1 DEF Edit, Typed
<1>4. made' \in [Clients -> 0 .. MaxEdits]
  BY <1>1, ClientsAssumption DEF Edit, Typed
<1>5. <<Frame("update", {d})>> \in Frames
  BY <1>2 DEF Frames
<1>6. Carried(<<Frame("update", {d})>>, {"sync2", "update"}) = {d}
  BY DEF Carried, Frame
<1>7. Within(<<Frame("update", {d})>>, mem'[c])
  BY <1>3 DEF Within, Frame
<1> QED BY <1>2, <1>3, <1>4, <1>5, <1>6, <1>7

LEMMA EditSent ==
  ASSUME IInv, NEW c \in Clients, NEW d \in Delta, Edit(c, d),
         link' = Sent(c, <<Frame("update", {d})>>)
  PROVE  /\ link' \in [Clients -> LinkType]
         /\ \A o \in Clients \ {c} : link'[o] = link[o]
         /\ link'[c].state = link[c].state /\ link'[c].down = link[c].down
         /\ link[c].state # "open" => link'[c].up = link[c].up
         /\ Within(link'[c].up, mem'[c])
         /\ link[c].state = "open" => Up(c)' = Up(c) \cup {d}
<1> DEFINE fs == <<Frame("update", {d})>>
<1>1. /\ fs \in Frames /\ Carried(fs, {"sync2", "update"}) = {d}
      /\ Within(fs, mem'[c]) /\ mem[c] \subseteq mem'[c]
  BY EditFrame
<1>2. link' = Sent(c, fs)
  OBVIOUS
<1> HIDE DEF fs
<1> QED BY <1>1, <1>2, Sending

\* An edit of an arm or an editor, and its push.
LEMMA StepPush ==
  ASSUME IInv, NEW c \in Clients, NEW d \in Delta, Edit(c, d), Push(c, d), c \notin Tabs,
         UNCHANGED backlog, disk' \in [Clients -> SUBSET Delta],
         \A o \in Clients \ {c} : disk'[o] = disk[o], c \in Arms => disk'[c] = mem'[c]
  PROVE  IInv'
<1>1. Typed /\ Good(c) /\ UNCHANGED brain /\ faults' >= faults
  BY ClientsAssumption DEF IInv, Typed, Edit, server
<1>2. /\ mem' \in [Clients -> SUBSET Delta] /\ mem'[c] = mem[c] \cup {d}
      /\ \A o \in Clients \ {c} : mem'[o] = mem[o]
      /\ made' \in [Clients -> 0 .. MaxEdits]
  BY EditFrame
<1>3. /\ link' \in [Clients -> LinkType]
      /\ \A o \in Clients \ {c} : link'[o] = link[o]
      /\ link'[c].state = link[c].state /\ link'[c].down = link[c].down
      /\ link[c].state # "open" => link'[c].up = link[c].up
      /\ Within(link'[c].up, mem'[c])
      /\ link[c].state = "open" /\ c \in connected => Up(c)' = Up(c) \cup {d}
  <2>1. CASE c \in connected
    BY <2>1, EditSent DEF Push
  <2>2. CASE c \notin connected
    <3>1. link' = link
      BY <2>2 DEF Push
    <3>2. Within(link[c].up, mem'[c])
      BY <1>1, <1>2, WithinGrows DEF Good, SentGood
    <3> QED BY <1>1, <2>2, <3>1, <3>2 DEF Typed
  <2> QED BY <2>1, <2>2
<1>4. Typed'
  <2>1. dirty' \subseteq Clients
    BY <1>1 DEF Push, Typed
  <2> QED BY <1>1, <1>2, <1>3, <2>1 DEF Edit, Typed, server
<1>5. \A o \in Clients \ {c} : Alone(o)
  BY <1>2, <1>3 DEF Edit, Alone, server
<1>6. Within(backlog'[c], mem'[c])
  BY <1>1, <1>2, WithinGrows DEF Good, SentGood
<1>7. c \in Replicas \/ c \notin Replicas \cup Tabs
  OBVIOUS
<1>8. /\ c \in Replicas \cup Tabs /\ link[c].state = "open"
      /\ c \in Replicas => c \in connected
      => mem'[c] \subseteq mem[c] \cup Up(c)' /\ Up(c) \subseteq Up(c)'
  BY <1>2, <1>3, <1>7
<1>9. Good(c)'
  BY <1>1, <1>2, <1>3, <1>6, <1>8, GrownGood DEF Edit, server
<1> QED BY <1>1, <1>4, <1>5, <1>9, OneClient

LEMMA StepArmEdit ==
  ASSUME IInv, NEW c \in Clients, ArmEdit(c)
  PROVE  IInv'
<1>1. PICK d \in Delta : /\ c \in Arms /\ Edit(c, d) /\ Push(c, d) /\ UNCHANGED backlog
                        /\ disk' = [disk EXCEPT ![c] = mem'[c]]
  BY DEF ArmEdit
<1>2. c \notin Tabs
  BY <1>1, ClientsAssumption DEF Replicas
<1>3. mem'[c] \in SUBSET Delta
  BY <1>1, EditFrame
<1>4. disk' \in [Clients -> SUBSET Delta] /\ disk'[c] = mem'[c]
      /\ \A o \in Clients \ {c} : disk'[o] = disk[o]
  BY <1>1, <1>3 DEF IInv, Typed
<1> QED BY <1>1, <1>2, <1>4, StepPush

LEMMA StepEditorEdit ==
  ASSUME IInv, NEW c \in Clients, EditorEdit(c)
  PROVE  IInv'
<1>1. PICK d \in Delta : /\ c \in Editors /\ Edit(c, d) /\ Push(c, d)
                        /\ UNCHANGED <<disk, backlog>>
  BY DEF EditorEdit
<1>2. c \notin Tabs /\ c \notin Arms
  BY <1>1, ClientsAssumption DEF Replicas
<1>3. disk \in [Clients -> SUBSET Delta]
  BY DEF IInv, Typed
<1> QED BY <1>1, <1>2, <1>3, StepPush

LEMMA StepTabEdit ==
  ASSUME IInv, NEW c \in Clients, TabEdit(c)
  PROVE  IInv'
<1>1. PICK d \in Delta :
        /\ c \in Tabs /\ link[c].state # "none" /\ Edit(c, d) /\ UNCHANGED <<disk, dirty>>
        /\ IF link[c].state = "connecting"
           THEN /\ backlog' = [backlog EXCEPT ![c] = Append(@, Frame("update", {d}))]
                /\ UNCHANGED link
           ELSE link' = Sent(c, <<Frame("update", {d})>>) /\ UNCHANGED backlog
  BY DEF TabEdit
<1>2. Typed /\ Good(c) /\ UNCHANGED brain /\ faults' >= faults
  BY <1>1, ClientsAssumption DEF IInv, Typed, Edit, server
<1>3. c \notin Arms
  BY <1>1, ClientsAssumption DEF Replicas
<1>4. /\ mem' \in [Clients -> SUBSET Delta] /\ mem'[c] = mem[c] \cup {d}
      /\ \A o \in Clients \ {c} : mem'[o] = mem[o]
      /\ made' \in [Clients -> 0 .. MaxEdits] /\ Frame("update", {d}) \in FrameType
  BY <1>1, EditFrame
<1>5. /\ link' \in [Clients -> LinkType]
      /\ \A o \in Clients \ {c} : link'[o] = link[o]
      /\ link'[c].state = link[c].state /\ link'[c].down = link[c].down
      /\ link[c].state # "open" => link'[c].up = link[c].up
      /\ Within(link'[c].up, mem'[c])
      /\ link[c].state = "open" => Up(c)' = Up(c) \cup {d}
  <2>1. CASE link[c].state # "connecting"
    BY <1>1, <2>1, EditSent
  <2>2. CASE link[c].state = "connecting"
    <3>1. Within(link[c].up, mem'[c])
      BY <1>2, <1>4, WithinGrows DEF Good, SentGood
    <3> QED BY <1>1, <1>2, <2>2, <3>1 DEF Typed
  <2> QED BY <2>1, <2>2
<1>6. /\ backlog' \in [Clients -> Frames] /\ Within(backlog'[c], mem'[c])
      /\ \A o \in Clients \ {c} : backlog'[o] = backlog[o]
      /\ link[c].state = "connecting" \/ backlog'[c] = backlog[c]
  <2>1. Within(backlog[c], mem'[c])
    BY <1>2, <1>4, WithinGrows DEF Good, SentGood
  <2>2. CASE link[c].state = "connecting"
    <3> DEFINE f == Frame("update", {d})
    <3>1. f \in FrameType /\ f.ds \subseteq mem'[c] /\ backlog[c] \in Frames
      BY <1>4, LinkFields DEF Frame
    <3>2. Append(backlog[c], f) \in Frames /\ Within(Append(backlog[c], f), mem'[c])
      <4> HIDE DEF f
      <4> QED BY <2>1, <3>1, CarriedAppend
    <3> QED BY <1>1, <1>2, <2>2, <3>2 DEF Typed
  <2>3. CASE link[c].state # "connecting"
    BY <1>1, <1>2, <2>1, <2>3 DEF Typed
  <2> QED BY <2>2, <2>3
<1>7. Typed'
  BY <1>1, <1>2, <1>4, <1>5, <1>6 DEF Edit, Typed, server
<1>8. \A o \in Clients \ {c} : Alone(o)
  BY <1>1, <1>4, <1>5, <1>6 DEF Edit, Alone, server
<1>9. link[c].state = "open" => mem'[c] \subseteq mem[c] \cup Up(c)' /\ Up(c) \subseteq Up(c)'
  BY <1>4, <1>5
<1>10. Good(c)'
  BY <1>1, <1>2, <1>3, <1>4, <1>5, <1>6, <1>9, GrownGood DEF Edit, server
<1> QED BY <1>2, <1>7, <1>8, <1>10, OneClient

----------------------------------------------------------------------------
(* Frames from the brain.                                                  *)

\* The frame a client takes, and the rest of its link.
LEMMA Taking ==
  ASSUME IInv, NEW c \in Clients, NEW t, Received(c, t)
  PROVE  /\ Rest(c) \in LinkType /\ Rest(c).state = "open" /\ Rest(c).up = link[c].up
         /\ Rest(c).down = Tail(link[c].down) /\ Within(Rest(c).down, brain)
         /\ link[c].down[1] \in FrameType /\ link[c].down[1].ds \subseteq brain
         /\ link[c].down[1].t \in t
         /\ Down(c) = (IF link[c].down[1].t \in {"sync2", "update"} THEN link[c].down[1].ds ELSE {})
                         \cup Carried(Rest(c).down, {"sync2", "update"})
<1>1. link[c].down # <<>> /\ Within(link[c].down, brain)
  BY DEF Received, IInv, Good, SentGood
<1>2. /\ link[c].down[1] \in FrameType /\ Tail(link[c].down) \in Frames
      /\ Within(Tail(link[c].down), brain) /\ link[c].down[1].ds \subseteq brain
      /\ Down(c) = (IF link[c].down[1].t \in {"sync2", "update"} THEN link[c].down[1].ds ELSE {})
                      \cup Carried(Tail(link[c].down), {"sync2", "update"})
  BY <1>1, LinkFields, CarriedHead DEF Down
<1>3. /\ Rest(c) \in LinkType /\ Rest(c).state = link[c].state /\ Rest(c).up = link[c].up
      /\ Rest(c).down = Tail(link[c].down)
  BY <1>2, LinkFields DEF Rest, LinkType
<1> QED BY <1>2, <1>3 DEF Received

LEMMA StepAnswer ==
  ASSUME IInv, NEW c \in Clients, Answer(c)
  PROVE  IInv'
<1> DEFINE ds == link[c].down[1].ds
           f == Frame("sync2", mem[c] \ ds)
           l == [Rest(c) EXCEPT !.up = Append(@, f)]
<1>1. Typed /\ Good(c) /\ UNCHANGED <<brain, mem, disk>> /\ faults' >= faults
  BY ClientsAssumption DEF IInv, Typed, Answer, Received, server
<1>2. /\ Rest(c) \in LinkType /\ Rest(c).state = "open" /\ Rest(c).up = link[c].up
      /\ Within(Rest(c).down, brain) /\ ds \subseteq brain
      /\ Down(c) = Carried(Rest(c).down, {"sync2", "update"})
  <2>1. Received(c, {"sync1"})
    BY DEF Answer
  <2> QED BY <2>1, Taking, ZenonT(60)
<1>3. f \in FrameType /\ f.ds = mem[c] \ ds /\ f.t = "sync2"
  <2>1. mem[c] \ ds \in SUBSET Delta
    BY LinkFields
  <2> QED BY <2>1, HandshakeGood DEF Frame
<1>4. link' = [link EXCEPT ![c] = l]
  BY DEF Answer
<1> HIDE DEF f, ds
<1>5. /\ Append(link[c].up, f) \in Frames /\ Within(Append(link[c].up, f), mem[c])
      /\ Carried(Append(link[c].up, f), {"sync2", "update"}) = Up(c) \cup (mem[c] \ ds)
  <2>1. Within(link[c].up, mem[c]) /\ f.ds \subseteq mem[c]
    BY <1>1, <1>3 DEF Good, SentGood
  <2> QED BY <1>3, <2>1, LinkFields, CarriedAppend DEF Up
<1>6. /\ l \in LinkType /\ l.state = "open" /\ l.up = Append(link[c].up, f)
      /\ l.down = Rest(c).down
  BY <1>2, <1>5 DEF LinkType
<1> HIDE DEF l
<1>7. /\ link' \in [Clients -> LinkType] /\ link'[c] = l
      /\ \A o \in Clients \ {c} : link'[o] = link[o]
  BY <1>4, <1>6, LinkSet
<1>8. Typed'
  BY <1>1, <1>7 DEF Answer, Received, Typed, server
<1>9. \A o \in Clients \ {c} : Alone(o)
  BY <1>1, <1>7 DEF Answer, Received, Alone, server
<1>10. LinkGood(c)'
  <2>1. link[c].state = "open"
    BY DEF Answer, Received
  <2> QED BY <1>1, <1>6, <1>7, <2>1 DEF Answer, Received, server, Good, LinkGood
<1>11. SentGood(c)'
  BY <1>1, <1>2, <1>5, <1>6, <1>7 DEF Answer, Received, server, Good, SentGood
<1>12. UpGood(c)'
  BY <1>1, <1>2, <1>5, <1>6, <1>7 DEF UpGood, Up
<1>13. DownGood(c)'
  BY <1>1, <1>2, <1>6, <1>7 DEF Answer, Received, server, Good, DownGood, Down
<1> QED BY <1>1, <1>8, <1>9, <1>10, <1>11, <1>12, <1>13, OneClient DEF Good

LEMMA StepApplyRemote ==
  ASSUME IInv, NEW c \in Clients, ApplyRemote(c)
  PROVE  IInv'
<1> DEFINE ds == link[c].down[1].ds
<1>1. Typed /\ Good(c) /\ UNCHANGED brain /\ faults' >= faults /\ link[c].state = "open"
  BY ClientsAssumption DEF IInv, Typed, ApplyRemote, Received, server
<1>2. /\ Rest(c) \in LinkType /\ Rest(c).state = "open" /\ Rest(c).up = link[c].up
      /\ Within(Rest(c).down, brain) /\ ds \subseteq brain
      /\ Down(c) = ds \cup Carried(Rest(c).down, {"sync2", "update"})
  <2>1. Received(c, {"sync2", "update"})
    BY DEF ApplyRemote
  <2> QED BY <2>1, Taking
<1>3. /\ link' \in [Clients -> LinkType] /\ link'[c] = Rest(c)
      /\ \A o \in Clients \ {c} : link'[o] = link[o]
  BY <1>2, LinkSet DEF ApplyRemote
<1>4. mem' = [mem EXCEPT ![c] = @ \cup ds]
  BY DEF ApplyRemote
<1> HIDE DEF ds
<1>5. /\ mem' \in [Clients -> SUBSET Delta] /\ mem'[c] = mem[c] \cup ds
      /\ \A o \in Clients \ {c} : mem'[o] = mem[o]
  BY <1>1, <1>2, <1>4 DEF Typed
<1>6. /\ disk' \in [Clients -> SUBSET Delta] /\ (c \in Arms => disk'[c] = mem'[c])
      /\ \A o \in Clients \ {c} : disk'[o] = disk[o]
  <2>1. mem'[c] \in SUBSET Delta
    BY <1>5
  <2> QED BY <1>1, <2>1 DEF ApplyRemote, Typed
<1>7. Typed'
  BY <1>1, <1>3, <1>5, <1>6 DEF ApplyRemote, Received, Typed, server
<1>8. \A o \in Clients \ {c} : Alone(o)
  BY <1>3, <1>5, <1>6 DEF ApplyRemote, Received, Alone, server
<1>9. LinkGood(c)'
  BY <1>1, <1>2, <1>3, <1>6 DEF ApplyRemote, Received, server, Good, LinkGood
<1>10. SentGood(c)'
  <2>1. Within(link[c].up, mem'[c]) /\ Within(backlog[c], mem'[c])
    BY <1>1, <1>5, WithinGrows DEF Good, SentGood
  <2> QED BY <1>1, <1>2, <1>3, <2>1 DEF ApplyRemote, Received, server, Good, SentGood
<1>11. UpGood(c)'
  BY <1>1, <1>2, <1>3, <1>5 DEF ApplyRemote, Received, Good, UpGood, Up
<1>12. DownGood(c)'
  BY <1>1, <1>2, <1>3, <1>5 DEF ApplyRemote, Received, server, Good, DownGood, Down
<1> QED BY <1>1, <1>7, <1>8, <1>9, <1>10, <1>11, <1>12, OneClient DEF Good

----------------------------------------------------------------------------
(* The brain's handler.                                                    *)

\* The frame the brain takes of a client, and the rest of its link.
LEMMA TakingUp ==
  ASSUME IInv, NEW c \in Clients, NEW t, Taken(c, t)
  PROVE  /\ Tail(link[c].up) \in Frames /\ Within(Tail(link[c].up), mem[c])
         /\ link[c].up[1] \in FrameType /\ link[c].up[1].ds \in SUBSET Delta
         /\ link[c].up[1].ds \subseteq mem[c] /\ link[c].up[1].t \in t
         /\ Up(c) = (IF link[c].up[1].t \in {"sync2", "update"} THEN link[c].up[1].ds ELSE {})
                       \cup Carried(Tail(link[c].up), {"sync2", "update"})
<1>1. link[c].up # <<>> /\ Within(link[c].up, mem[c])
  BY DEF Taken, IInv, Good, SentGood
<1>2. link[c].up[1] \in FrameType
  BY <1>1, LinkFields, CarriedHead
<1>3. link[c].up[1].ds \in SUBSET Delta
  BY <1>2 DEF FrameType
<1>4. /\ Tail(link[c].up) \in Frames /\ Within(Tail(link[c].up), mem[c])
      /\ link[c].up[1].ds \subseteq mem[c]
      /\ Up(c) = (IF link[c].up[1].t \in {"sync2", "update"} THEN link[c].up[1].ds ELSE {})
                   \cup Carried(Tail(link[c].up), {"sync2", "update"})
  BY <1>1, LinkFields, CarriedHead DEF Up
<1> QED BY <1>2, <1>3, <1>4 DEF Taken

LEMMA StepBrainOpen ==
  ASSUME IInv, NEW c \in Clients, BrainOpen(c)
  PROVE  IInv'
<1> DEFINE l == [link[c] EXCEPT !.up = Tail(@)]
<1>1. Typed /\ Good(c) /\ UNCHANGED brain /\ faults' >= faults /\ link[c].state = "open"
  BY ClientsAssumption DEF IInv, Typed, BrainOpen, Taken
<1>2. Taken(c, {"open"})
  BY DEF BrainOpen
<1>3. /\ Tail(link[c].up) \in Frames /\ Within(Tail(link[c].up), mem[c])
      /\ Up(c) = Carried(Tail(link[c].up), {"sync2", "update"})
  <2>1. /\ Tail(link[c].up) \in Frames /\ Within(Tail(link[c].up), mem[c])
        /\ link[c].up[1].ds \in SUBSET Delta /\ link[c].up[1].ds \subseteq mem[c]
        /\ link[c].up[1].t \in {"open"}
        /\ Up(c) = (IF link[c].up[1].t \in {"sync2", "update"} THEN link[c].up[1].ds ELSE {})
                     \cup Carried(Tail(link[c].up), {"sync2", "update"})
    BY <1>2, TakingUp
  <2> QED BY <2>1
<1>4. /\ l \in LinkType /\ l.state = "open" /\ l.up = Tail(link[c].up) /\ l.down = link[c].down
  BY <1>1, <1>3, LinkFields DEF LinkType
<1>5. link' = [link EXCEPT ![c] = l]
  BY DEF BrainOpen
<1> HIDE DEF l
<1>6. /\ link' \in [Clients -> LinkType] /\ link'[c] = l
      /\ \A o \in Clients \ {c} : link'[o] = link[o]
  BY <1>4, <1>5, LinkSet
<1>7. /\ base' \in [Clients -> SUBSET Delta] /\ base'[c] = brain
      /\ \A o \in Clients \ {c} : base'[o] = base[o]
  BY <1>1 DEF BrainOpen, Typed
<1>8. Typed'
  BY <1>1, <1>6, <1>7 DEF BrainOpen, Taken, Typed, client
<1>9. \A o \in Clients \ {c} : Alone(o)
  BY <1>6, <1>7 DEF BrainOpen, Taken, Alone, client
<1>10. LinkGood(c)'
  BY <1>1, <1>4, <1>6 DEF BrainOpen, Taken, client, Good, LinkGood
<1>11. SentGood(c)'
  BY <1>1, <1>3, <1>4, <1>6, <1>7 DEF BrainOpen, Taken, client, Good, SentGood
<1>12. UpGood(c)'
  BY <1>1, <1>3, <1>4, <1>6 DEF BrainOpen, Taken, client, Good, UpGood, Up
<1>13. DownGood(c)'
  BY <1>1, <1>7 DEF DownGood
<1> QED BY <1>1, <1>8, <1>9, <1>10, <1>11, <1>12, <1>13, OneClient DEF Good

LEMMA StepBrainSync1 ==
  ASSUME IInv, NEW c \in Clients, BrainSync1(c)
  PROVE  IInv'
<1> DEFINE ds == link[c].up[1].ds
           f == Frame("sync2", brain \ ds)
           g == Frame("sync1", brain)
           fs == <<f, g>>
           l == [link[c] EXCEPT !.up = Tail(@), !.down = @ \o fs]
<1>1. Typed /\ Good(c) /\ UNCHANGED brain /\ faults' >= faults /\ link[c].state = "open"
  BY ClientsAssumption DEF IInv, Typed, BrainSync1, Taken
<1>2. Taken(c, {"sync1"})
  BY DEF BrainSync1
<1>3. /\ Tail(link[c].up) \in Frames /\ Within(Tail(link[c].up), mem[c])
      /\ Up(c) = Carried(Tail(link[c].up), {"sync2", "update"}) /\ ds \subseteq mem[c]
  <2>1. /\ Tail(link[c].up) \in Frames /\ Within(Tail(link[c].up), mem[c])
        /\ link[c].up[1].ds \in SUBSET Delta /\ link[c].up[1].ds \subseteq mem[c]
        /\ link[c].up[1].t \in {"sync1"}
        /\ Up(c) = (IF link[c].up[1].t \in {"sync2", "update"} THEN link[c].up[1].ds ELSE {})
                     \cup Carried(Tail(link[c].up), {"sync2", "update"})
    BY <1>2, TakingUp
  <2> QED BY <2>1
<1>4. link' = [link EXCEPT ![c] = l]
  BY <1>1 DEF BrainSync1, Typed
<1> HIDE DEF ds
<1>5. /\ f \in FrameType /\ f.t = "sync2" /\ f.ds = brain \ ds
      /\ g \in FrameType /\ g.t = "sync1" /\ g.ds = brain
  BY <1>1 DEF Frame, FrameType, Typed
<1> HIDE DEF f, g, fs
<1>6. /\ fs \in Frames /\ Within(fs, brain)
      /\ Carried(fs, {"sync2", "update"}) = brain \ ds
  <2>1. fs \in Frames
    BY <1>5 DEF fs, Frames
  <2>2. DOMAIN fs = {1, 2} /\ fs[1] = f /\ fs[2] = g
    BY DEF fs
  <2>3. Within(fs, brain)
    BY <1>5, <2>2 DEF Within
  <2>4. Carried(fs, {"sync2", "update"}) = brain \ ds
    BY <1>5, <2>2 DEF Carried
  <2> QED BY <2>1, <2>3, <2>4
<1>7. /\ link[c].down \o fs \in Frames /\ Within(link[c].down \o fs, brain)
      /\ Carried(link[c].down \o fs, {"sync2", "update"}) = Down(c) \cup (brain \ ds)
  <2>1. Within(link[c].down, brain)
    BY <1>1 DEF Good, SentGood
  <2> QED BY <1>6, <2>1, LinkFields, CarriedConcat DEF Down
<1>8. /\ l \in LinkType /\ l.state = "open" /\ l.up = Tail(link[c].up)
      /\ l.down = link[c].down \o fs
  BY <1>1, <1>3, <1>7, LinkFields DEF LinkType
<1> HIDE DEF l
<1>9. /\ link' \in [Clients -> LinkType] /\ link'[c] = l
      /\ \A o \in Clients \ {c} : link'[o] = link[o]
  BY <1>4, <1>8, LinkSet
<1>10. /\ base' \in [Clients -> SUBSET Delta] /\ base'[c] = {}
       /\ \A o \in Clients \ {c} : base'[o] = base[o]
  BY <1>1 DEF BrainSync1, Typed
<1>11. Typed'
  BY <1>1, <1>9, <1>10 DEF BrainSync1, Taken, Typed, client
<1>12. \A o \in Clients \ {c} : Alone(o)
  BY <1>9, <1>10 DEF BrainSync1, Taken, Alone, client
<1>13. LinkGood(c)'
  BY <1>1, <1>8, <1>9 DEF BrainSync1, Taken, client, Good, LinkGood
<1>14. SentGood(c)'
  BY <1>1, <1>3, <1>7, <1>8, <1>9, <1>10 DEF BrainSync1, Taken, client, Good, SentGood
<1>15. UpGood(c)'
  BY <1>1, <1>3, <1>8, <1>9 DEF BrainSync1, Taken, client, Good, UpGood, Up
<1>16. DownGood(c)'
  <2>1. mem'[c] = mem[c] /\ Down(c)' = Down(c) \cup (brain \ ds)
    BY <1>7, <1>8, <1>9 DEF BrainSync1, Taken, client, Down
  <2> QED BY <1>1, <1>3, <2>1 DEF DownGood
<1> QED BY <1>1, <1>11, <1>12, <1>13, <1>14, <1>15, <1>16, OneClient DEF Good

LEMMA StepBrainUpdate ==
  ASSUME IInv, NEW c \in Clients, BrainUpdate(c)
  PROVE  IInv'
<1> DEFINE ds == link[c].up[1].ds
           f == Frame("update", ds)
           l == [link[c] EXCEPT !.up = Tail(@)]
           m(o) == [link[o] EXCEPT !.down = Append(@, f)]
<1>1. /\ Typed /\ link[c].state = "open"
      /\ UNCHANGED <<running, mem, disk, connected, closes, synced, backlog, faults, bopen, base>>
      /\ UNCHANGED <<crew, made, working, dirty>>
  BY DEF IInv, BrainUpdate, Taken, client
<1>2. Taken(c, {"sync2", "update"})
  BY DEF BrainUpdate
<1>3. /\ Tail(link[c].up) \in Frames /\ Within(Tail(link[c].up), mem[c])
      /\ Up(c) = ds \cup Carried(Tail(link[c].up), {"sync2", "update"})
      /\ ds \subseteq mem[c] /\ ds \in SUBSET Delta
  <2>1. /\ Tail(link[c].up) \in Frames /\ Within(Tail(link[c].up), mem[c])
        /\ link[c].up[1].ds \in SUBSET Delta /\ link[c].up[1].ds \subseteq mem[c]
        /\ link[c].up[1].t \in {"sync2", "update"}
        /\ Up(c) = (IF link[c].up[1].t \in {"sync2", "update"} THEN link[c].up[1].ds ELSE {})
                     \cup Carried(Tail(link[c].up), {"sync2", "update"})
    BY <1>2, TakingUp
  <2> QED BY <2>1
<1>4. f \in FrameType /\ f.t = "update" /\ f.ds = ds
  BY <1>3, HandshakeGood DEF Frame
<1>5. /\ l \in LinkType /\ l.state = "open" /\ l.up = Tail(link[c].up) /\ l.down = link[c].down
  BY <1>1, <1>3, LinkFields DEF LinkType
<1>6. /\ brain' = brain \cup ds
      /\ link' = [o \in Clients |->
           IF o = c THEN l
           ELSE IF Fanned(c, o) /\ ds # {} THEN m(o) ELSE link[o]]
  BY DEF BrainUpdate
<1> HIDE DEF ds, f, l
<1>7. ASSUME NEW o \in Clients
      PROVE  /\ Append(link[o].down, f) \in Frames
             /\ m(o) \in LinkType /\ m(o).state = link[o].state /\ m(o).up = link[o].up
             /\ m(o).down = Append(link[o].down, f) /\ Within(m(o).down, brain')
             /\ Carried(m(o).down, {"sync2", "update"}) = Down(o) \cup ds
  <2>1. Within(link[o].down, brain')
    <3>1. Within(link[o].down, brain) /\ brain \subseteq brain'
      BY <1>6 DEF IInv, Good, SentGood
    <3> QED BY <3>1, WithinGrows
  <2>2. f.ds \subseteq brain'
    BY <1>4, <1>6
  <2>3. /\ Append(link[o].down, f) \in Frames /\ Within(Append(link[o].down, f), brain')
        /\ Carried(Append(link[o].down, f), {"sync2", "update"}) = Down(o) \cup ds
    BY <1>4, <2>1, <2>2, LinkFields, CarriedAppend DEF Down
  <2> QED BY <2>3, LinkFields DEF LinkType
<1> HIDE DEF m
<1>8. /\ link' \in [Clients -> LinkType] /\ link'[c] = l
      /\ \A o \in Clients \ {c} : link'[o] \in {link[o], m(o)}
                                /\ (o \in bopen /\ ds # {} => link'[o] = m(o))
                                /\ (o \notin bopen => link'[o] = link[o])
  BY <1>1, <1>5, <1>6, <1>7, LinkFields DEF Fanned
<1>9. Typed'
  BY <1>1, <1>3, <1>6, <1>8 DEF Typed
<1>10. Good(c)'
  <2>1. Good(c)
    BY DEF IInv
  <2>2. LinkGood(c)'
    BY <1>1, <1>5, <1>8, <2>1 DEF Good, LinkGood
  <2>3. SentGood(c)'
    <3>1. Within(link[c].down, brain')
      BY <1>6, <2>1, WithinGrows DEF Good, SentGood
    <3> QED BY <1>1, <1>3, <1>5, <1>6, <1>8, <2>1, <3>1 DEF Good, SentGood
  <2>4. UpGood(c)'
    BY <1>1, <1>3, <1>5, <1>6, <1>8, <2>1 DEF Good, UpGood, Up
  <2>5. DownGood(c)'
    BY <1>1, <1>3, <1>5, <1>6, <1>8, <2>1 DEF Good, DownGood, Down
  <2> QED BY <2>2, <2>3, <2>4, <2>5 DEF Good
<1>11. ASSUME NEW o \in Clients \ {c}
       PROVE  Good(o)'
  <2>1. Good(o) /\ link'[o].state = link[o].state /\ link'[o].up = link[o].up
        /\ brain' = brain \cup ds
        /\ (link'[o] = link[o] \/ (link'[o] = m(o) /\ o \in bopen))
    BY <1>6, <1>7, <1>8 DEF IInv
  <2>2. LinkGood(o)'
    BY <1>1, <2>1 DEF Good, LinkGood
  <2>3. SentGood(o)'
    <3>1. Within(link[o].down, brain')
      BY <2>1, WithinGrows DEF Good, SentGood
    <3>2. Within(link'[o].down, brain')
      BY <1>7, <2>1, <3>1
    <3> QED BY <1>1, <2>1, <3>2 DEF Good, SentGood
  <2>4. UpGood(o)'
    BY <1>1, <2>1 DEF Good, UpGood, Up
  <2>5. DownGood(o)'
    <3>1. CASE ds = {}
      <4>1. Down(o) \subseteq Down(o)'
        BY <1>7, <2>1 DEF Down
      <4> QED BY <1>1, <2>1, <3>1, <4>1 DEF Good, DownGood
    <3>2. CASE ds # {} /\ o \in bopen
      <4>1. Down(o)' = Down(o) \cup ds
        BY <1>7, <1>8, <3>2 DEF Down
      <4> QED BY <1>1, <2>1, <4>1 DEF Good, DownGood
    <3>3. CASE o \notin bopen
      BY <1>1, <3>3 DEF DownGood
    <3> QED BY <3>1, <3>2, <3>3
  <2> QED BY <2>2, <2>3, <2>4, <2>5 DEF Good
<1> QED BY <1>9, <1>10, <1>11 DEF IInv

----------------------------------------------------------------------------
(* The theorems.                                                           *)

LEMMA Initially ==
  ASSUME Init
  PROVE  IInv
<1>1. <<>> \in Frames
  BY DEF Frames
<1>2. Typed
  BY <1>1, NoLinkTyped, ClientsAssumption DEF Init, Typed
<1>3. ASSUME NEW c \in Clients
      PROVE  Good(c)
  <2>1. /\ link[c] = NoLink /\ backlog[c] = <<>> /\ mem[c] = {} /\ base[c] = {}
        /\ disk[c] = {} /\ closes[c] = 0 /\ bopen = {} /\ synced = {} /\ faults = 0
    BY DEF Init
  <2>2. LinkGood(c)
    BY <2>1, NoLinkTyped DEF LinkGood
  <2>3. SentGood(c)
    BY <2>1, NoLinkTyped, CarriedEmpty DEF SentGood
  <2>4. UpGood(c) /\ DownGood(c)
    BY <2>1 DEF UpGood, DownGood
  <2> QED BY <2>2, <2>3, <2>4 DEF Good
<1> QED BY <1>2, <1>3 DEF IInv

LEMMA Stuttering ==
  ASSUME IInv, UNCHANGED vars
  PROVE  IInv'
<1>1. Typed'
  BY DEF IInv, Typed, vars, client, server
<1>2. ASSUME NEW c \in Clients
      PROVE  Good(c)'
  <2>1. Alone(c) /\ UNCHANGED brain /\ faults' \in Nat /\ faults' >= faults
    BY ClientsAssumption DEF IInv, Typed, Alone, vars, client, server
  <2> QED BY <2>1, AloneGood
<1> QED BY <1>1, <1>2 DEF IInv

LEMMA Inductive ==
  ASSUME IInv, [Next]_vars
  PROVE  IInv'
<1>1. ASSUME NEW c \in Clients,
             \/ Connect(c) \/ ReplicaOpened(c) \/ TabOpened(c) \/ WatcherOpened(c)
             \/ ConnectFailed(c) \/ Drop(c) \/ Closed(c) \/ FormerClosed(c) \/ Disconnect(c)
      PROVE  IInv'
  BY <1>1, StepConnect, StepReplicaOpened, StepTabOpened, StepWatcherOpened,
     StepConnectFailed, StepDrop, StepClosed, StepFormerClosed, StepDisconnect
<1>2. ASSUME NEW c \in Clients,
             \/ OpenNote(c) \/ ArmEdit(c) \/ EditorEdit(c) \/ TabEdit(c) \/ Watch(c)
             \/ Receiving(c) \/ Stop(c) \/ Start(c) \/ Handling(c)
      PROVE  IInv'
  BY <1>2, StepOpenNote, StepArmEdit, StepEditorEdit, StepTabEdit, StepWatch,
     StepAnswer, StepApplyRemote, StepStop, StepStart,
     StepBrainOpen, StepBrainSync1, StepBrainUpdate DEF Receiving, Handling
<1> QED BY <1>1, <1>2, Stuttering DEF Next

LEMMA Always == Spec => []IInv
<1>1. Init => IInv
  BY Initially
<1>2. IInv /\ [Next]_vars => IInv'
  BY Inductive
<1> QED BY <1>1, <1>2, PTL DEF Spec

\* In every reachable state the variables are of their types, a running
\* arm's file holds its document, frames are on open links only, and the
\* brain has the note open for linked clients only (replica.ts, hub.ts).
THEOREM TypeCorrect == Spec => []TypeOK
<1>1. IInv => TypeOK
  <2> SUFFICES ASSUME IInv PROVE TypeOK
    OBVIOUS
  <2>1. Typed /\ \A c \in Clients : Good(c)
    BY DEF IInv
  <2>2. closes \in [Clients -> 0 .. MaxFaults]
    <3>1. \A c \in Clients : closes[c] \in 0 .. MaxFaults
      BY <2>1, ClientsAssumption DEF Typed, Good, LinkGood
    <3> QED BY <2>1, <3>1 DEF Typed
  <2>3. base \in [Clients -> SUBSET brain]
    <3>1. \A c \in Clients : base[c] \in SUBSET brain
      BY <2>1 DEF Good, SentGood
    <3> QED BY <2>1, <3>1 DEF Typed
  <2>4. \A c \in Arms \cap running : disk[c] = mem[c]
    BY <2>1 DEF Good, LinkGood, Clients
  <2>5. \A c \in Clients :
          /\ link[c].state \in {"none", "connecting", "open", "dead"}
          /\ link[c].state # "open" => link[c].up = <<>> /\ link[c].down = <<>>
          /\ link[c].state # "connecting" => backlog[c] = <<>>
    BY <2>1, LinkFields DEF Good, LinkGood
  <2>6. bopen \subseteq {c \in Clients : link[c].state = "open"}
    BY <2>1 DEF Typed, Good, LinkGood
  <2> QED BY <2>1, <2>2, <2>3, <2>4, <2>5, <2>6 DEF Typed, TypeOK
<1> QED BY <1>1, Always, PTL

\* Once a client has answered the brain's state vector, nothing it has is
\* lost between the handshake, the update frames and the offline set, for
\* any clients and any breaks (replica.ts, session.ts, sync.ts).
THEOREM NothingLostUp == Spec => []CarriedUp
<1>1. IInv => CarriedUp
  BY DEF IInv, Typed, Good, UpGood, CarriedUp
<1> QED BY <1>1, Always, PTL

\* Nothing the brain has falls between a client's open, the brain's answer to
\* its state vector and the fan-out (hub.ts handleSyncMessage, fan).
THEOREM NothingLostDown == Spec => []CarriedDown
<1>1. IInv => CarriedDown
  BY DEF IInv, Typed, Good, DownGood, CarriedDown
<1> QED BY <1>1, Always, PTL
=============================================================================
