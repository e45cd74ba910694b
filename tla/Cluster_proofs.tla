--------------------------- MODULE Cluster_proofs ---------------------------
(***************************************************************************)
(* What several hubs over one store keep up, for any hubs, clients and     *)
(* broker: the types, that no delta is sent to a client twice, that a      *)
(* synced client holds what its hub does; and, until a hub compacts the    *)
(* log, that a stale document will be brought what it lacks and that the   *)
(* hubs together implement the abstract note.                              *)
(*                                                                         *)
(* A delta is in the hands of one handler until that handler publishes it, *)
(* so every queue holds at most one message of it, under the seq of its    *)
(* row; a hub that took it has a high-water mark of at least that seq.     *)
(***************************************************************************)
EXTENDS Cluster, FiniteSetTheorems, FunctionTheorems, SequenceTheorems, TLAPS

Doc == [resident : BOOLEAN, content : SUBSET Delta, lastSeq : Nat, sinceSnap : Nat]
Load == [stage : {"none", "snapshot", "tail"}, since : Nat, content : SUBSET Delta]
Request == [pc : {"idle", "opened", "reply", "apply", "append", "snapshot", "fanout"},
            delta : Delta \cup {None}]

InNet(h) == {net[h][i] : i \in DOMAIN net[h]}

TypeInv ==
  /\ file \in File(Delta) /\ nextSeq \in Nat
  /\ doc \in [Hubs -> Doc] /\ load \in [Hubs -> Load]
  /\ remoteSeen \in [Hubs -> Nat]
  /\ lock \in [Hubs -> Clients \cup {None}]
  /\ req \in [Clients -> Request]
  /\ net \in [Hubs -> Seq(Messages)]
  /\ open \subseteq Clients /\ synced \subseteq Clients
  /\ sent \in [Clients -> Nat] /\ \A c \in Clients : sent[c] <= MaxSends[c]
  /\ faults \in 0 .. MaxFaults
  /\ got \in [Clients -> SUBSET Delta] /\ committed \subseteq Delta
  /\ frames \in [Clients -> [Delta -> Nat]]
  /\ dropped \in [Hubs -> SUBSET Delta]

\* A handler in the write section holds the lock and has the client's latest
\* delta in hand; past the apply its document is resident and holds it.
WriteOf(c) ==
  /\ req[c].pc \in Writes <=> lock[Home[c]] = c
  /\ req[c].pc \in Writes =>
       /\ req[c].delta = [by |-> c, n |-> sent[c]]
       /\ req[c].delta \in got[c]
       /\ req[c].delta \in Delta
  /\ req[c].pc \in Writes \ {"apply"} =>
       doc[Home[c]].resident /\ req[c].delta \in doc[Home[c]].content

WriteInv == \A c \in Clients : WriteOf(c)

\* A document becomes resident when its load ends and stays so until its hub
\* does; only then is it open, and only what is open is synced.
DocOf(h) ==
  /\ load[h].stage # "none" => ~doc[h].resident
  /\ ~doc[h].resident => doc[h].content = {}

ReaderOf(c) ==
  /\ c \in open => doc[Home[c]].resident
  /\ c \in synced => c \in open
  /\ req[c].pc = "reply" => c \in open

DocInv == (\A h \in Hubs : DocOf(h)) /\ (\A c \in Clients : ReaderOf(c))

\* Seqs in use are below the next one.
HubSeqs(h) ==
  /\ doc[h].lastSeq < nextSeq /\ remoteSeen[h] < nextSeq
  /\ \A m \in InNet(h) : m.seq < nextSeq

SeqInv ==
  /\ nextSeq > 0
  /\ \A h \in Hubs : HubSeqs(h)
  /\ \A u \in file.updates : u.seq > 0
  /\ \A c \in Clients : req[c].pc \in {"snapshot", "fanout"} => doc[Home[c]].lastSeq > 0

\* d was sent, and its handler is through with it.
Done(d) ==
  /\ d.n <= sent[d.by]
  /\ req[d.by].pc \in Writes => d # req[d.by].delta

\* A message is of a delta whose handler is through, from that client's hub,
\* the only one of its delta in its queue.
NetOf(h) ==
  /\ \A m \in InNet(h) : Done(m.delta) /\ m.origin = Home[m.delta.by]
  /\ \A m, w \in InNet(h) : m.delta = w.delta => m = w

NetInv == \A h \in Hubs : NetOf(h)

\* What a client was sent from another hub is below its hub's mark.
FrameOf(c, d) ==
  /\ frames[c][d] <= (IF d.by = c THEN 0 ELSE 1)
  /\ frames[c][d] > 0 =>
       /\ Done(d)
       /\ Home[d.by] # Home[c] =>
            \A m \in InNet(Home[c]) : m.delta = d => m.seq <= remoteSeen[Home[c]]

FrameInv == \A c \in Clients, d \in Delta : FrameOf(c, d)

\* The delta in the hands of h's writer.
InHand(h) == {req[c].delta : c \in {a \in Clients : Home[a] = h /\ lock[h] = a}}

\* All that a synced client lacks of its hub's document is in the writer's hands.
MirrorOf(c) == c \in synced => doc[Home[c]].content \subseteq got[c] \cup InHand(Home[c])

MirrorInv == \A c \in Clients : MirrorOf(c)

\* Deltas that are published, or in a queue, are of the log; until a hub
\* compacts it, the store holds all of the log and nothing else.
LogInv ==
  /\ \A h \in Hubs : \A m \in InNet(h) : m.delta \in committed
  /\ \A c \in Clients : req[c].pc \in {"snapshot", "fanout"} => req[c].delta \in committed
  /\ file.seq = 0 => file.state = {} /\ committed = {u.delta : u \in file.updates}

\* A hub holds what it published.
OwnOf(h) == \A m \in InNet(h) :
  m.origin = h => doc[h].resident /\ m.delta \in doc[h].content

Explained(h, d) == d \in dropped[h] \/ Publishing(d) \/ Travelling(h, d)

\* Until a hub compacts the log, a document and a load past its second query
\* lack only deltas that are explained.
LackOf(h) ==
  file.seq = 0 =>
    /\ load[h].stage = "snapshot" => load[h].since = 0
    /\ load[h].stage = "tail" => \A d \in committed \ load[h].content : Explained(h, d)
    /\ doc[h].resident => \A d \in committed \ doc[h].content : Explained(h, d)

StaleInv == \A h \in Hubs : OwnOf(h) /\ LackOf(h)

IInv == TypeInv /\ WriteInv /\ DocInv /\ SeqInv /\ NetInv /\ FrameInv /\ MirrorInv
        /\ LogInv /\ StaleInv

----------------------------------------------------------------------------
(* Queues and files.                                                       *)

LEMMA RemovedFrom ==
  ASSUME NEW S, NEW s \in Seq(S), NEW p \in DOMAIN s
  PROVE  LET t == RemoveAt(s, p) IN
         /\ t \in Seq(S)
         /\ \A j \in DOMAIN t : \E i \in DOMAIN s : t[j] = s[i]
         /\ \A i \in DOMAIN s : i = p \/ \E j \in DOMAIN t : t[j] = s[i]
<1> DEFINE a == SubSeq(s, 1, p - 1)
           b == SubSeq(s, p + 1, Len(s))
           t == a \o b
<1>0. p \in 1 .. Len(s) /\ DOMAIN s = 1 .. Len(s) /\ RemoveAt(s, p) = t
  BY DEF RemoveAt
<1>1. a \in Seq(S) /\ Len(a) = p - 1 /\ \A i \in 1 .. p - 1 : a[i] = s[i]
  BY <1>0, SubSeqProperties
<1>2. b \in Seq(S) /\ Len(b) = Len(s) - p /\ \A i \in 1 .. Len(s) - p : b[i] = s[p + i]
  <2>1. p \in 1 .. Len(s)
    BY <1>0
  <2> HIDE DEF a, t
  <2> QED
    BY ONLY <2>1, s \in Seq(S), SubSeqProperties
<1>3. /\ t \in Seq(S) /\ Len(t) = Len(a) + Len(b)
      /\ \A i \in 1 .. Len(a) + Len(b) :
           t[i] = IF i <= Len(a) THEN a[i] ELSE b[i - Len(a)]
  BY <1>1, <1>2, ConcatProperties
<1> HIDE DEF a, b, t
<1>4. DOMAIN t = 1 .. Len(s) - 1
  BY <1>0, <1>1, <1>2, <1>3
<1>5. \A i \in 1 .. p - 1 : t[i] = s[i]
  BY <1>0, <1>1, <1>2, <1>3
<1>6. \A i \in p .. Len(s) - 1 : t[i] = s[i + 1]
  <2> TAKE i \in p .. Len(s) - 1
  <2>1. t[i] = b[i - (p - 1)] /\ i - (p - 1) \in 1 .. Len(s) - p
    BY <1>0, <1>1, <1>2, <1>3
  <2>2. p + (i - (p - 1)) = i + 1
    BY <1>0
  <2> QED
    BY <1>2, <2>1, <2>2
<1>7. \A j \in DOMAIN t : \E i \in DOMAIN s : t[j] = s[i]
  <2> TAKE j \in DOMAIN t
  <2>1. CASE j < p
    BY <1>0, <1>4, <1>5, <2>1
  <2>2. CASE ~(j < p)
    <3>1. t[j] = s[j + 1] /\ j + 1 \in DOMAIN s
      BY <1>0, <1>4, <1>6, <2>2
    <3> QED
      BY <3>1
  <2> QED
    BY <2>1, <2>2
<1>8. \A i \in DOMAIN s : i = p \/ \E j \in DOMAIN t : t[j] = s[i]
  <2> TAKE i \in DOMAIN s
  <2>1. CASE i < p
    BY <1>0, <1>4, <1>5, <2>1
  <2>2. CASE i > p
    <3>1. i - 1 \in p .. Len(s) - 1 /\ i - 1 \in DOMAIN t
      BY <1>0, <1>4, <2>2
    <3>2. t[i - 1] = s[(i - 1) + 1] /\ (i - 1) + 1 = i
      BY <1>0, <1>6, <3>1
    <3> QED
      BY <3>1, <3>2
  <2> QED
    BY <1>0, <2>1, <2>2
<1> QED
  BY <1>0, <1>3, <1>7, <1>8

\* What is in h's queue when message i is off it.
LEMMA Removed ==
  ASSUME TypeInv, NEW h \in Hubs, NEW i \in DOMAIN net[h],
         net' = [net EXCEPT ![h] = RemoveAt(@, i)]
  PROVE  /\ net' \in [Hubs -> Seq(Messages)]
         /\ \A g \in Hubs : InNet(g)' \subseteq InNet(g)
         /\ \A g \in Hubs \ {h} : InNet(g)' = InNet(g)
         /\ InNet(h) \ {net[h][i]} \subseteq InNet(h)'
<1>1. net \in [Hubs -> Seq(Messages)]
  BY DEF TypeInv
<1>2. net'[h] = RemoveAt(net[h], i) /\ \A g \in Hubs \ {h} : net'[g] = net[g]
  BY <1>1
<1>3. /\ net'[h] \in Seq(Messages)
      /\ \A j \in DOMAIN net'[h] : \E n \in DOMAIN net[h] : net'[h][j] = net[h][n]
      /\ \A n \in DOMAIN net[h] : n = i \/ \E j \in DOMAIN net'[h] : net'[h][j] = net[h][n]
  BY <1>1, <1>2, RemovedFrom
<1>4. \A g \in Hubs \ {h} : InNet(g)' = InNet(g)
  BY <1>2 DEF InNet
<1>5. InNet(h)' \subseteq InNet(h) /\ InNet(h) \ {net[h][i]} \subseteq InNet(h)'
  BY <1>3 DEF InNet
<1> QED
  BY <1>1, <1>3, <1>4, <1>5

\* The broker hands a message over, or keeps it as well.
LEMMA HandedOver ==
  ASSUME TypeInv, NEW h \in Hubs, NEW i \in DOMAIN net[h], Handover(h, i)
  PROVE  /\ net' \in [Hubs -> Seq(Messages)] /\ faults' \in 0 .. MaxFaults
         /\ \A g \in Hubs : InNet(g)' \subseteq InNet(g)
         /\ \A g \in Hubs \ {h} : InNet(g)' = InNet(g)
         /\ InNet(h) \ {net[h][i]} \subseteq InNet(h)'
<1>1. CASE net' = [net EXCEPT ![h] = RemoveAt(@, i)] /\ UNCHANGED faults
  BY <1>1, Removed DEF TypeInv
<1>2. CASE UNCHANGED net /\ faults < MaxFaults /\ faults' = faults + 1
  BY <1>2, ClusterAssumption DEF TypeInv, InNet
<1> QED
  BY <1>1, <1>2 DEF Handover

LEMMA InNetMessage ==
  ASSUME TypeInv, NEW h \in Hubs
  PROVE  /\ InNet(h) \subseteq Messages
         /\ \A i \in DOMAIN net[h] : net[h][i] \in InNet(h) /\ net[h][i] \in Messages
  BY DEF TypeInv, InNet

LEMMA PublishedTo ==
  ASSUME TypeInv, NEW m \in Messages, net' = Published(m)
  PROVE  /\ net' \in [Hubs -> Seq(Messages)]
         /\ \A h \in Hubs : InNet(h)' = InNet(h) \cup {m}
<1>1. ASSUME NEW h \in Hubs
      PROVE  net'[h] \in Seq(Messages) /\ InNet(h)' = InNet(h) \cup {m}
  <2>1. net[h] \in Seq(Messages) /\ net'[h] = Append(net[h], m)
    BY DEF TypeInv, Published
  <2>2. /\ net'[h] \in Seq(Messages) /\ DOMAIN net[h] = 1 .. Len(net[h])
        /\ DOMAIN net'[h] = 1 .. Len(net[h]) + 1
        /\ net'[h][Len(net[h]) + 1] = m
        /\ \A i \in 1 .. Len(net[h]) : net'[h][i] = net[h][i]
    BY <2>1
  <2>3. InNet(h)' \subseteq InNet(h) \cup {m}
    BY <2>2 DEF InNet
  <2>4. InNet(h) \cup {m} \subseteq InNet(h)'
    <3>1. m \in InNet(h)'
      <4>1. Len(net[h]) + 1 \in DOMAIN net'[h]
        BY <2>1, <2>2
      <4> QED
        BY <2>2, <4>1 DEF InNet
    <3>2. InNet(h) \subseteq InNet(h)'
      BY <2>1, <2>2 DEF InNet
    <3> QED
      BY <3>1, <3>2
  <2> QED
    BY <2>2, <2>3, <2>4
<1>2. net' = [h \in Hubs |-> net'[h]]
  BY DEF Published
<1> QED
  BY <1>1, <1>2

LEMMA AppendedTyped ==
  ASSUME NEW f \in File(Delta), NEW s \in Nat, NEW d \in Delta
  PROVE  /\ Appended(f, s, d) \in File(Delta)
         /\ Appended(f, s, d).seq = f.seq /\ Appended(f, s, d).state = f.state
         /\ Appended(f, s, d).updates = f.updates \cup {[seq |-> s, delta |-> d]}
  BY DEF Appended, File

LEMMA CompactedTyped ==
  ASSUME NEW f \in File(Delta), NEW s \in Nat, NEW ds \in SUBSET Delta
  PROVE  /\ Compacted(f, s, ds) \in File(Delta) /\ Compacted(f, s, ds).seq = s
         /\ Compacted(f, s, ds).updates \subseteq f.updates
  BY DEF Compacted, File

LEMMA DeltaFields ==
  /\ \A d \in Delta : d.by \in Clients /\ d.n \in 1 .. MaxSends[d.by]
                      /\ d = [by |-> d.by, n |-> d.n]
  /\ \A c \in Clients : \A n \in 1 .. MaxSends[c] : [by |-> c, n |-> n] \in Delta
  BY DEF Delta

LEMMA MessageFields ==
  \A m \in Messages : m.origin \in Hubs /\ m.seq \in Nat /\ m.delta \in Delta
  BY DEF Messages

LEMMA HomeIsHub == \A c \in Clients : Home[c] \in Hubs
  BY ClusterAssumption

\* A request that only changes its place.
LEMMA GotoRequest ==
  ASSUME TypeInv, NEW c \in Clients,
         NEW pc \in {"idle", "opened", "reply", "apply", "append", "snapshot", "fanout"},
         Goto(c, pc)
  PROVE  /\ req' \in [Clients -> Request]
         /\ req'[c].pc = pc /\ req'[c].delta = req[c].delta
         /\ \A x \in Clients \ {c} : req'[x] = req[x]
<1>1. req \in [Clients -> Request] /\ req[c] \in Request
  BY DEF TypeInv
<1>2. req' = [req EXCEPT ![c] = [req[c] EXCEPT !.pc = pc]]
  BY DEF Goto
<1>3. /\ [req[c] EXCEPT !.pc = pc] \in Request
      /\ [req[c] EXCEPT !.pc = pc].pc = pc
      /\ [req[c] EXCEPT !.pc = pc].delta = req[c].delta
  BY <1>1 DEF Request
<1> QED
  BY <1>1, <1>2, <1>3

LEMMA FanToGrows ==
  ASSUME TypeInv, NEW cs \in SUBSET Clients, NEW d \in Delta, FanTo(cs, d)
  PROVE  /\ frames' \in [Clients -> [Delta -> Nat]]
         /\ \A c \in Clients, e \in Delta :
              frames'[c][e] = IF c \in cs /\ e = d THEN frames[c][e] + 1 ELSE frames[c][e]
         /\ got' \in [Clients -> SUBSET Delta]
         /\ \A c \in Clients : got'[c] = got[c] \cup IF c \in cs THEN {d} ELSE {}
<1>1. /\ frames' = [c \in Clients |->
           IF c \in cs THEN [frames[c] EXCEPT ![d] = @ + 1] ELSE frames[c]]
      /\ got' = [c \in Clients |-> got[c] \cup IF c \in cs THEN {d} ELSE {}]
  BY DEF FanTo
<1>2. frames \in [Clients -> [Delta -> Nat]] /\ got \in [Clients -> SUBSET Delta]
  BY DEF TypeInv
<1>3. \A c \in Clients : frames'[c] \in [Delta -> Nat]
  BY <1>1, <1>2
<1>4. \A c \in Clients, e \in Delta :
        frames'[c][e] = IF c \in cs /\ e = d THEN frames[c][e] + 1 ELSE frames[c][e]
  BY <1>1, <1>2
<1>5. frames' \in [Clients -> [Delta -> Nat]]
  BY <1>1, <1>3
<1>6. /\ got' \in [Clients -> SUBSET Delta]
      /\ \A c \in Clients : got'[c] = got[c] \cup IF c \in cs THEN {d} ELSE {}
  BY <1>1, <1>2
<1> QED
  BY <1>4, <1>5, <1>6

----------------------------------------------------------------------------
(* Types.                                                                  *)

LEMMA InitType == Init => TypeInv
<1> SUFFICES ASSUME Init PROVE TypeInv
  OBVIOUS
<1>1. file \in File(Delta) /\ nextSeq \in Nat
  BY DEF Init, EmptyFile, File
<1>2. doc \in [Hubs -> Doc] /\ load \in [Hubs -> Load] /\ req \in [Clients -> Request]
  BY DEF Init, NoDoc, NoLoad, Idle, Doc, Load, Request
<1>3. frames \in [Clients -> [Delta -> Nat]]
  BY DEF Init
<1> QED
  BY <1>1, <1>2, <1>3, ClusterAssumption DEF Init, TypeInv

LEMMA LoadingType ==
  ASSUME TypeInv, NEW h \in Hubs, Loading(h)
  PROVE  TypeInv'
<1>1. CASE QuerySnapshot(h)
  <2>1. [stage |-> "snapshot", since |-> file.seq, content |-> file.state] \in Load
    BY DEF TypeInv, File, Load
  <2> QED
    BY <1>1, <2>1 DEF QuerySnapshot, TypeInv, store, bounds
<1>2. CASE QueryTail(h)
  <2>1. load[h].content \cup {u.delta : u \in TailRows(h)} \in SUBSET Delta
    BY DEF TypeInv, File, Load, TailRows
  <2>2. load' \in [Hubs -> Load]
    <3> DEFINE rows == {u.delta : u \in TailRows(h)}
               new == [load[h] EXCEPT !.stage = "tail", !.content = @ \cup rows]
    <3>1. load' = [load EXCEPT ![h] = new]
      BY <1>2 DEF QueryTail, TypeInv
    <3>2. load[h] \in Load
      BY DEF TypeInv
    <3>3. load[h].content \cup rows \in SUBSET Delta
      BY <2>1
    <3> HIDE DEF rows
    <3>4. new \in Load
      BY <3>2, <3>3 DEF Load
    <3> QED
      BY <3>1, <3>4 DEF TypeInv
  <2> QED
    BY <1>2, <2>2 DEF QueryTail, TypeInv, store, bounds
<1>3. CASE Install(h)
  <2>1. doc' \in [Hubs -> Doc]
    BY <1>3 DEF Install, TypeInv, Doc, NoDoc, Load
  <2>2. load' \in [Hubs -> Load]
    BY <1>3 DEF Install, TypeInv, NoLoad, Load
  <2> QED
    BY <1>3, <2>1, <2>2 DEF Install, TypeInv, store, bounds
<1> QED
  BY <1>1, <1>2, <1>3 DEF Loading

LEMMA ReadingType ==
  ASSUME TypeInv, NEW c \in Clients, Open(c) \/ Sync1(c) \/ Answer(c)
  PROVE  TypeInv'
<1>1. CASE Open(c)
  BY <1>1, GotoRequest DEF Open, TypeInv, store, bounds
<1>2. CASE Sync1(c)
  BY <1>2, GotoRequest DEF Sync1, TypeInv, store, bounds
<1>3. CASE Opened(c)
  BY <1>3, GotoRequest DEF Opened, TypeInv, store, bounds
<1>4. CASE Reply(c)
  <2>1. req' \in [Clients -> Request]
    BY <1>4, GotoRequest DEF Reply
  <2>2. got' \in [Clients -> SUBSET Delta]
    <3>1. doc[Home[c]].content \in SUBSET Delta
      BY HomeIsHub DEF TypeInv, Doc
    <3> QED
      BY <1>4, <3>1 DEF Reply, TypeInv
  <2> QED
    BY <1>4, <2>1, <2>2 DEF Reply, TypeInv, store, bounds
<1> QED
  BY <1>1, <1>2, <1>3, <1>4 DEF Answer

LEMMA UpdateType ==
  ASSUME TypeInv, NEW c \in Clients, Update(c)
  PROVE  TypeInv'
<1> DEFINE d == [by |-> c, n |-> sent[c] + 1]
<1>1. d \in Delta /\ sent[c] + 1 \in Nat /\ sent[c] + 1 <= MaxSends[c]
  <2>1. sent[c] \in Nat /\ MaxSends[c] \in Nat /\ sent[c] < MaxSends[c]
    BY ClusterAssumption DEF Update, TypeInv
  <2>2. sent[c] + 1 \in 1 .. MaxSends[c]
    BY <2>1
  <2> QED
    BY <2>1, <2>2, DeltaFields
<1>2. /\ lock' = [lock EXCEPT ![Home[c]] = c]
      /\ sent' = [sent EXCEPT ![c] = @ + 1]
      /\ got' = [got EXCEPT ![c] = @ \cup {d}]
      /\ req' = [req EXCEPT ![c] = [pc |-> "apply", delta |-> d]]
      /\ UNCHANGED <<store, doc, load, remoteSeen, open, net, faults, synced, frames,
                     committed, dropped>>
  BY DEF Update
<1> HIDE DEF d
<1>3. req' \in [Clients -> Request]
  BY <1>1, <1>2 DEF TypeInv, Request
<1>4. sent' \in [Clients -> Nat] /\ \A x \in Clients : sent'[x] <= MaxSends[x]
  BY <1>1, <1>2 DEF TypeInv
<1>5. got' \in [Clients -> SUBSET Delta] /\ lock' \in [Hubs -> Clients \cup {None}]
  BY <1>1, <1>2 DEF TypeInv
<1> QED
  BY <1>2, <1>3, <1>4, <1>5 DEF TypeInv, store

LEMMA WritingType ==
  ASSUME TypeInv, WriteInv, NEW c \in Clients, Writing(c)
  PROVE  TypeInv'
<1> DEFINE h == Home[c]
           d == req[c].delta
<1>0. h \in Hubs /\ d \in Delta /\ doc[h] \in Doc
  BY HomeIsHub DEF Writing, Apply, AppendLog, Snapshot, FanOut, WriteInv, WriteOf, Writes, TypeInv
<1>1. CASE Apply(c)
  <2>1. doc' \in [Hubs -> Doc]
    BY <1>0, <1>1 DEF Apply, TypeInv, Doc
  <2> QED
    BY <1>1, <2>1, GotoRequest DEF Apply, TypeInv, store, bounds
<1>2. CASE AppendLog(c)
  <2>1. doc' \in [Hubs -> Doc]
    BY <1>0, <1>2 DEF AppendLog, TypeInv, Doc
  <2>2. file' \in File(Delta) /\ nextSeq' \in Nat /\ committed' \subseteq Delta
    BY <1>0, <1>2, AppendedTyped DEF AppendLog, TypeInv
  <2> QED
    BY <1>2, <2>1, <2>2, GotoRequest DEF AppendLog, TypeInv, bounds
<1>3. CASE Snapshot(c)
  <2>1. doc' \in [Hubs -> Doc]
    <3> DEFINE n == IF doc[h].sinceSnap + 1 >= SnapshotEvery THEN 0 ELSE doc[h].sinceSnap + 1
    <3>1. n \in Nat
      BY <1>0 DEF Doc
    <3>2. doc' = [doc EXCEPT ![h].sinceSnap = n]
      BY <1>0, <1>3 DEF Snapshot, TypeInv
    <3> HIDE DEF n
    <3> QED
      BY <1>0, <3>1, <3>2 DEF TypeInv, Doc
  <2>2. file' \in File(Delta)
    BY <1>0, <1>3, CompactedTyped DEF Snapshot, TypeInv, Doc
  <2> QED
    BY <1>3, <2>1, <2>2, GotoRequest DEF Snapshot, TypeInv, bounds
<1>4. CASE FanOut(c)
  <2>1. {o \in open \ {c} : Home[o] = h} \in SUBSET Clients
    BY DEF TypeInv
  <2>2. frames' \in [Clients -> [Delta -> Nat]] /\ got' \in [Clients -> SUBSET Delta]
    BY <1>0, <1>4, <2>1, FanToGrows DEF FanOut
  <2>3. [origin |-> h, seq |-> doc[h].lastSeq, delta |-> d] \in Messages
    BY <1>0 DEF Messages, Doc
  <2>4. net' \in [Hubs -> Seq(Messages)]
    BY <1>4, <2>3, PublishedTo DEF FanOut
  <2>5. req' \in [Clients -> Request] /\ lock' \in [Hubs -> Clients \cup {None}]
    BY <1>4 DEF FanOut, TypeInv, Request, Idle
  <2> QED
    BY <1>4, <2>2, <2>4, <2>5 DEF FanOut, TypeInv, store, bounds
<1> QED
  BY <1>1, <1>2, <1>3, <1>4 DEF Writing

LEMMA PositionInNet ==
  ASSUME NEW h \in Hubs, NEW i \in Positions(h)
  PROVE  i \in DOMAIN net[h]
  BY DEF Positions

LEMMA ReceiveType ==
  ASSUME TypeInv, NEW h \in Hubs, Receive(h)
  PROVE  TypeInv'
<1>0. PICK i \in Positions(h) : OwnMessage(h, i) \/ SeenMessage(h, i) \/ RemoteUpdate(h, i)
  BY DEF Receive
<1> DEFINE m == net[h][i]
<1>1. i \in DOMAIN net[h] /\ m \in Messages /\ m.delta \in Delta /\ m.seq \in Nat
  BY PositionInNet, InNetMessage, MessageFields
<1> HIDE DEF m
<1>2. CASE OwnMessage(h, i)
  <2>1. net' \in [Hubs -> Seq(Messages)]
    BY <1>1, <1>2, Removed DEF OwnMessage
  <2> QED
    BY <1>2, <2>1 DEF OwnMessage, TypeInv, store, bounds
<1>3. CASE SeenMessage(h, i)
  <2>1. net' \in [Hubs -> Seq(Messages)] /\ faults' \in 0 .. MaxFaults
    BY <1>1, <1>3, HandedOver DEF SeenMessage
  <2>2. dropped' \in [Hubs -> SUBSET Delta]
    BY <1>1, <1>3 DEF SeenMessage, TypeInv, m
  <2> QED
    BY <1>3, <2>1, <2>2 DEF SeenMessage, TypeInv, store, bounds
<1>4. CASE RemoteUpdate(h, i)
  <2>1. net' \in [Hubs -> Seq(Messages)] /\ faults' \in 0 .. MaxFaults
    BY <1>1, <1>4, HandedOver DEF RemoteUpdate
  <2>2. dropped' \in [Hubs -> SUBSET Delta]
    BY <1>1, <1>4 DEF RemoteUpdate, TypeInv, m
  <2>3. doc' \in [Hubs -> Doc] /\ remoteSeen' \in [Hubs -> Nat]
    BY <1>1, <1>4 DEF RemoteUpdate, TypeInv, Doc, m
  <2>4. {o \in open : Home[o] = h} \in SUBSET Clients
    BY DEF TypeInv
  <2>5. frames' \in [Clients -> [Delta -> Nat]] /\ got' \in [Clients -> SUBSET Delta]
    BY <1>1, <1>4, <2>4, FanToGrows DEF RemoteUpdate, m
  <2> QED
    BY <1>4, <2>1, <2>2, <2>3, <2>5 DEF RemoteUpdate, TypeInv, store, bounds
<1> QED
  BY <1>0, <1>2, <1>3, <1>4

LEMMA LoseType ==
  ASSUME TypeInv, NEW h \in Hubs, Lose(h)
  PROVE  TypeInv'
<1>1. PICK i \in Positions(h) :
        /\ net' = [net EXCEPT ![h] = RemoveAt(@, i)]
        /\ dropped' = [dropped EXCEPT ![h] = @ \cup ({net[h][i].delta} \ doc[h].content)]
  BY DEF Lose
<1>2. i \in DOMAIN net[h] /\ net[h][i].delta \in Delta
  BY PositionInNet, InNetMessage, MessageFields
<1>3. net' \in [Hubs -> Seq(Messages)] /\ dropped' \in [Hubs -> SUBSET Delta]
  BY <1>1, <1>2, Removed DEF TypeInv
<1>4. faults' \in 0 .. MaxFaults
  BY ClusterAssumption DEF Lose, TypeInv
<1> QED
  BY <1>3, <1>4 DEF Lose, TypeInv, store

LEMMA RestartType ==
  ASSUME TypeInv, WriteInv, NEW h \in Hubs, Restart(h)
  PROVE  TypeInv'
<1>1. doc' \in [Hubs -> Doc] /\ load' \in [Hubs -> Load] /\ remoteSeen' \in [Hubs -> Nat]
  BY DEF Restart, TypeInv, Doc, NoDoc, Load, NoLoad
<1>2. req' \in [Clients -> Request]
  BY DEF Restart, TypeInv, Request, Idle
<1>3. lock' \in [Hubs -> Clients \cup {None}] /\ net' \in [Hubs -> Seq(Messages)]
  BY DEF Restart, TypeInv
<1>4. faults' \in 0 .. MaxFaults
  BY ClusterAssumption DEF Restart, TypeInv
<1>5. Unpublished(h) \subseteq Delta
  BY DEF Unpublished, WriteInv, WriteOf, Writes
<1>6. dropped' \in [Hubs -> SUBSET Delta]
  BY <1>5 DEF Restart, TypeInv
<1>7. open' \subseteq Clients /\ synced' \subseteq Clients
  BY DEF Restart, TypeInv
<1> QED
  BY <1>1, <1>2, <1>3, <1>4, <1>6, <1>7 DEF Restart, TypeInv, store

LEMMA StutterType == TypeInv /\ UNCHANGED vars => TypeInv'
  BY DEF TypeInv, vars

----------------------------------------------------------------------------
(* The write section and the documents.                                    *)

\* The hub's document stays and loses nothing.
DocGrows(h) ==
  /\ doc[h].resident => doc'[h].resident
  /\ doc[h].content \subseteq doc'[h].content

LEMMA WriteKept ==
  ASSUME NEW c \in Clients, WriteOf(c), req'[c] = req[c], sent'[c] = sent[c],
         lock'[Home[c]] = c <=> lock[Home[c]] = c,
         got[c] \subseteq got'[c], DocGrows(Home[c])
  PROVE  WriteOf(c)'
  BY DEF WriteOf, DocGrows

\* A client that is not writing, before and after.
LEMMA WriteIdle ==
  ASSUME NEW c \in Clients, WriteOf(c), req[c].pc \notin Writes, req'[c].pc \notin Writes,
         lock'[Home[c]] = c <=> lock[Home[c]] = c
  PROVE  WriteOf(c)'
  BY DEF WriteOf, Writes

LEMMA LoadingDocs ==
  ASSUME TypeInv, WriteInv, DocInv, NEW h \in Hubs, Loading(h)
  PROVE  WriteInv' /\ DocInv'
<1>1. /\ UNCHANGED <<lock, req, open, sent, got, synced>>
      /\ load[h].stage # "none" \/ ~doc[h].resident
      /\ \A g \in Hubs \ {h} : doc'[g] = doc[g] /\ load'[g] = load[g]
  BY DEF Loading, QuerySnapshot, QueryTail, Install, TypeInv, bounds
<1>2. ~doc[h].resident /\ doc[h].content = {}
  BY <1>1 DEF DocInv, DocOf
<1>3. \/ UNCHANGED doc
      \/ doc'[h].resident /\ load'[h].stage = "none"
  <2>1. CASE Install(h)
    <3>1. doc'[h] = [NoDoc EXCEPT !.resident = TRUE, !.content = load[h].content]
          /\ load'[h] = NoLoad
      BY <2>1 DEF Install, TypeInv
    <3> QED
      BY <3>1 DEF NoDoc, NoLoad
  <2> QED
    BY <2>1 DEF Loading, QuerySnapshot, QueryTail
<1>4. \A g \in Hubs : DocGrows(g)
  BY <1>1, <1>2, <1>3 DEF DocGrows
<1>5. WriteInv'
  BY <1>1, <1>4, HomeIsHub, WriteKept DEF WriteInv
<1>6. \A g \in Hubs : DocOf(g)'
  BY <1>1, <1>2, <1>3 DEF DocInv, DocOf
<1>7. \A c \in Clients : ReaderOf(c)'
  BY <1>1, <1>4, HomeIsHub DEF DocInv, ReaderOf, DocGrows
<1> QED
  BY <1>5, <1>6, <1>7 DEF DocInv

LEMMA ReadingDocs ==
  ASSUME TypeInv, WriteInv, DocInv, NEW c \in Clients, Open(c) \/ Sync1(c) \/ Answer(c)
  PROVE  WriteInv' /\ DocInv'
<1>1. /\ UNCHANGED <<doc, load, lock, sent>>
      /\ req[c].pc \notin Writes
      /\ \A x \in Clients : got[x] \subseteq got'[x]
      /\ open' = open \/ (open' = open \cup {c} /\ doc[Home[c]].resident)
      /\ synced' = synced \/ (synced' = synced \cup {c} /\ req[c].pc = "reply")
  BY DEF Open, Sync1, Answer, Opened, Reply, TypeInv, Writes, bounds
<1>2. /\ req'[c].pc \notin Writes
      /\ req'[c].pc = "reply" => c \in open
      /\ \A x \in Clients \ {c} : req'[x] = req[x]
  BY DEF Open, Sync1, Answer, Opened, Reply, Goto, TypeInv, Writes, Request
<1>3. \A g \in Hubs : DocGrows(g)
  BY <1>1 DEF DocGrows
<1>4. WriteOf(c)'
  BY <1>1, <1>2, WriteIdle DEF WriteInv
<1>5. \A x \in Clients \ {c} : WriteOf(x)'
  BY <1>1, <1>2, <1>3, HomeIsHub, WriteKept DEF WriteInv
<1>6. \A g \in Hubs : DocOf(g)'
  BY <1>1 DEF DocInv, DocOf
<1>7. \A x \in Clients : ReaderOf(x)'
  <2> SUFFICES ASSUME NEW x \in Clients PROVE ReaderOf(x)'
    OBVIOUS
  <2>1. ReaderOf(x) /\ ReaderOf(c)
    BY DEF DocInv
  <2>2. x \in open' => doc'[Home[x]].resident
    BY <1>1, <2>1 DEF ReaderOf
  <2>3. x \in synced' => x \in open'
    BY <1>1, <2>1 DEF ReaderOf
  <2>4. req'[x].pc = "reply" => x \in open
    <3>1. CASE x = c
      BY <1>2, <3>1
    <3>2. CASE x # c
      BY <1>2, <2>1, <3>2 DEF ReaderOf
    <3> QED
      BY <3>1, <3>2
  <2>5. open \subseteq open'
    BY <1>1
  <2> QED
    BY <2>2, <2>3, <2>4, <2>5 DEF ReaderOf
<1> QED
  BY <1>4, <1>5, <1>6, <1>7 DEF WriteInv, DocInv

LEMMA UpdateDocs ==
  ASSUME TypeInv, WriteInv, DocInv, NEW c \in Clients, Update(c)
  PROVE  WriteInv' /\ DocInv'
<1> DEFINE d == [by |-> c, n |-> sent[c] + 1]
<1>1. /\ req[c].pc = "idle" /\ lock[Home[c]] = None
      /\ lock'[Home[c]] = c /\ \A g \in Hubs \ {Home[c]} : lock'[g] = lock[g]
      /\ sent'[c] = sent[c] + 1 /\ d \in got'[c]
      /\ req'[c] = [pc |-> "apply", delta |-> d]
      /\ \A x \in Clients : got[x] \subseteq got'[x]
      /\ \A x \in Clients \ {c} : req'[x] = req[x] /\ sent'[x] = sent[x]
      /\ UNCHANGED <<doc, load, open, synced>>
  BY HomeIsHub DEF Update, TypeInv
<1>2. d \in Delta
  <2>1. sent[c] \in Nat /\ MaxSends[c] \in Nat /\ sent[c] < MaxSends[c]
    BY ClusterAssumption DEF Update, TypeInv
  <2>2. sent[c] + 1 \in 1 .. MaxSends[c]
    BY <2>1
  <2> QED
    BY <2>2, DeltaFields
<1> HIDE DEF d
<1>3. WriteOf(c)'
  BY <1>1, <1>2 DEF WriteOf, Writes, d
<1>4. \A g \in Hubs : DocGrows(g)
  BY <1>1 DEF DocGrows
<1>5. \A x \in Clients \ {c} : WriteOf(x)'
  <2> SUFFICES ASSUME NEW x \in Clients \ {c} PROVE WriteOf(x)'
    OBVIOUS
  <2>1. lock'[Home[x]] = x <=> lock[Home[x]] = x
    BY <1>1, HomeIsHub, ClusterAssumption
  <2> QED
    BY <1>1, <1>4, <2>1, HomeIsHub, WriteKept DEF WriteInv
<1>6. DocInv'
  BY <1>1 DEF DocInv, DocOf, ReaderOf
<1> QED
  BY <1>3, <1>5, <1>6 DEF WriteInv

LEMMA WritingDocs ==
  ASSUME TypeInv, WriteInv, DocInv, NEW c \in Clients, Writing(c)
  PROVE  WriteInv' /\ DocInv'
<1> DEFINE h == Home[c]
           d == req[c].delta
<1>0. /\ h \in Hubs /\ d \in Delta /\ req[c].pc \in Writes /\ lock[h] = c
      /\ doc[h].resident
      /\ d = [by |-> c, n |-> sent[c]] /\ d \in got[c]
      /\ req[c].pc # "apply" => d \in doc[h].content
  BY HomeIsHub DEF Writing, Apply, AppendLog, Snapshot, FanOut, WriteInv, WriteOf, Writes
<1>1. /\ \A g \in Hubs \ {h} : doc'[g] = doc[g]
      /\ doc'[h].resident /\ doc[h].content \subseteq doc'[h].content
      /\ UNCHANGED <<load, open, sent, synced>>
      /\ \A x \in Clients \ {c} : req'[x] = req[x]
      /\ \A x \in Clients : got[x] \subseteq got'[x]
  <2>1. CASE Apply(c)
    BY <1>0, <2>1, GotoRequest DEF Apply, TypeInv, Doc, bounds
  <2>2. CASE AppendLog(c)
    <3>1. doc'[h] = [doc[h] EXCEPT !.lastSeq = nextSeq]
      BY <1>0, <2>2 DEF AppendLog, TypeInv
    <3>2. doc'[h].resident = doc[h].resident /\ doc'[h].content = doc[h].content
      BY <1>0, <3>1 DEF TypeInv, Doc
    <3> QED
      BY <1>0, <2>2, <3>2, GotoRequest DEF AppendLog, TypeInv, bounds
  <2>3. CASE Snapshot(c)
    <3>1. doc'[h].resident = doc[h].resident /\ doc'[h].content = doc[h].content
          /\ \A g \in Hubs \ {h} : doc'[g] = doc[g]
      BY <1>0, <2>3 DEF Snapshot, TypeInv, Doc
    <3> QED
      BY <1>0, <2>3, <3>1, GotoRequest DEF Snapshot, bounds
  <2>4. CASE FanOut(c)
    <3>1. \A x \in Clients : got[x] \subseteq got'[x]
      BY <2>4 DEF FanOut, FanTo
    <3> QED
      BY <1>0, <2>4, <3>1 DEF FanOut, TypeInv, bounds
  <2> QED
    BY <2>1, <2>2, <2>3, <2>4 DEF Writing
<1>2. \A g \in Hubs : DocGrows(g)
  BY <1>1 DEF DocGrows
<1>3. \/ /\ UNCHANGED lock
         /\ req'[c].delta = d /\ req'[c].pc \in {"append", "snapshot", "fanout"}
         /\ d \in doc'[h].content
      \/ lock' = [lock EXCEPT ![h] = None] /\ req'[c].pc = "idle"
  <2>1. CASE Apply(c)
    BY <1>0, <2>1, GotoRequest DEF Apply, TypeInv, Doc
  <2>2. CASE AppendLog(c)
    BY <1>0, <1>1, <2>2, GotoRequest DEF AppendLog
  <2>3. CASE Snapshot(c)
    BY <1>0, <1>1, <2>3, GotoRequest DEF Snapshot
  <2>4. CASE FanOut(c)
    BY <2>4 DEF FanOut, TypeInv, Idle
  <2> QED
    BY <2>1, <2>2, <2>3, <2>4 DEF Writing
<1>4. /\ \A g \in Hubs \ {h} : lock'[g] = lock[g]
      /\ lock'[h] = c \/ (lock'[h] = None /\ req'[c].pc = "idle")
  BY <1>0, <1>3 DEF TypeInv
<1>5. WriteOf(c)'
  <2>1. CASE lock'[h] = c /\ req'[c].pc \in {"append", "snapshot", "fanout"}
              /\ req'[c].delta = d /\ d \in doc'[h].content
    BY <1>0, <1>1, <2>1 DEF WriteOf, Writes
  <2>2. CASE lock'[h] = None /\ req'[c].pc = "idle"
    BY <2>2, ClusterAssumption DEF WriteOf, Writes
  <2>3. lock' = [lock EXCEPT ![h] = None] => lock'[h] = None
    BY <1>0 DEF TypeInv
  <2> QED
    BY <1>0, <1>3, <2>1, <2>2, <2>3
<1>6. \A x \in Clients \ {c} : WriteOf(x)'
  <2> SUFFICES ASSUME NEW x \in Clients \ {c} PROVE WriteOf(x)'
    OBVIOUS
  <2>1. lock'[Home[x]] = x <=> lock[Home[x]] = x
    BY <1>0, <1>4, HomeIsHub, ClusterAssumption
  <2> QED
    BY <1>1, <1>2, <2>1, HomeIsHub, WriteKept DEF WriteInv
<1>7. DocInv'
  <2>1. \A g \in Hubs : DocOf(g)'
    BY <1>0, <1>1 DEF DocInv, DocOf
  <2>2. req'[c].pc # "reply"
    BY <1>3
  <2>3. \A x \in Clients : ReaderOf(x)'
    <3> SUFFICES ASSUME NEW x \in Clients PROVE ReaderOf(x)'
      OBVIOUS
    <3>1. ReaderOf(x)
      BY DEF DocInv
    <3>2. doc[Home[x]].resident => doc'[Home[x]].resident
      BY <1>0, <1>1, HomeIsHub
    <3>3. req'[x].pc = "reply" => req[x].pc = "reply"
      BY <1>1, <2>2
    <3> QED
      BY <1>1, <3>1, <3>2, <3>3 DEF ReaderOf
  <2> QED
    BY <2>1, <2>3 DEF DocInv
<1> QED
  BY <1>5, <1>6, <1>7 DEF WriteInv

\* What the broker does reaches documents and clients of one hub.
LEMMA NetDocs ==
  ASSUME TypeInv, WriteInv, DocInv, NEW h \in Hubs, Receive(h) \/ Lose(h)
  PROVE  WriteInv' /\ DocInv'
<1>1. /\ UNCHANGED <<load, lock, req, open, sent, synced>>
      /\ \A x \in Clients : got[x] \subseteq got'[x]
      /\ \A g \in Hubs : /\ doc'[g].resident = doc[g].resident
                         /\ doc[g].content \subseteq doc'[g].content
                         /\ ~doc[g].resident => doc'[g].content = doc[g].content
  <2>1. CASE Lose(h)
    BY <2>1 DEF Lose
  <2>2. CASE Receive(h)
    <3>0. PICK i \in Positions(h) : OwnMessage(h, i) \/ SeenMessage(h, i) \/ RemoteUpdate(h, i)
      BY <2>2 DEF Receive
    <3>1. CASE OwnMessage(h, i) \/ SeenMessage(h, i)
      BY <3>1 DEF OwnMessage, SeenMessage, bounds
    <3>2. CASE RemoteUpdate(h, i)
      <4>1. \A x \in Clients : got[x] \subseteq got'[x]
        BY <3>2 DEF RemoteUpdate, FanTo
      <4>2. \A g \in Hubs : /\ doc'[g].resident = doc[g].resident
                            /\ doc[g].content \subseteq doc'[g].content
                            /\ ~doc[g].resident => doc'[g].content = doc[g].content
        BY <3>2 DEF RemoteUpdate, TypeInv, Doc
      <4> QED
        BY <3>2, <4>1, <4>2 DEF RemoteUpdate
    <3> QED
      BY <3>0, <3>1, <3>2
  <2> QED
    BY <2>1, <2>2
<1>2. WriteInv'
  BY <1>1, HomeIsHub, WriteKept DEF WriteInv, DocGrows
<1>3. DocInv'
  <2>1. \A g \in Hubs : DocOf(g)'
    BY <1>1 DEF DocInv, DocOf
  <2>2. \A x \in Clients : ReaderOf(x)'
    BY <1>1, HomeIsHub DEF DocInv, ReaderOf
  <2> QED
    BY <2>1, <2>2 DEF DocInv
<1> QED
  BY <1>2, <1>3

LEMMA RestartDocs ==
  ASSUME TypeInv, WriteInv, DocInv, NEW h \in Hubs, Restart(h)
  PROVE  WriteInv' /\ DocInv'
<1>1. /\ doc'[h] = NoDoc /\ load'[h] = NoLoad /\ lock'[h] = None
      /\ \A g \in Hubs \ {h} : doc'[g] = doc[g] /\ load'[g] = load[g] /\ lock'[g] = lock[g]
      /\ \A c \in Clients : req'[c] = IF Home[c] = h THEN Idle ELSE req[c]
      /\ open' = open \ {c \in Clients : Home[c] = h}
      /\ synced' = synced \ {c \in Clients : Home[c] = h}
      /\ UNCHANGED <<sent, got>>
  BY DEF Restart, TypeInv
<1>2. \A c \in Clients : WriteOf(c)'
  <2> SUFFICES ASSUME NEW c \in Clients PROVE WriteOf(c)'
    OBVIOUS
  <2>1. CASE Home[c] = h
    <3>1. req'[c].pc = "idle" /\ lock'[Home[c]] # c
      BY <1>1, <2>1, ClusterAssumption DEF Idle
    <3> QED
      BY <3>1 DEF WriteOf, Writes
  <2>2. CASE Home[c] # h
    BY <1>1, <2>2, HomeIsHub, WriteKept DEF WriteInv, DocGrows
  <2> QED
    BY <2>1, <2>2
<1>3. DocInv'
  <2>1. \A g \in Hubs : DocOf(g)'
    BY <1>1 DEF DocInv, DocOf, NoDoc, NoLoad
  <2>2. \A c \in Clients : ReaderOf(c)'
    BY <1>1, HomeIsHub DEF DocInv, ReaderOf, Idle
  <2> QED
    BY <2>1, <2>2 DEF DocInv
<1> QED
  BY <1>2, <1>3 DEF WriteInv

----------------------------------------------------------------------------
(* Seqs.                                                                   *)

LEMMA SeqKept ==
  ASSUME SeqInv, nextSeq' >= nextSeq, nextSeq \in Nat, nextSeq' \in Nat,
         NEW h \in Hubs, doc[h].lastSeq \in Nat, remoteSeen[h] \in Nat,
         \A m \in InNet(h) : m.seq \in Nat,
         doc'[h].lastSeq \in {doc[h].lastSeq, 0}, remoteSeen'[h] \in {remoteSeen[h], 0},
         InNet(h)' \subseteq InNet(h)
  PROVE  HubSeqs(h)'
<1>1. HubSeqs(h) /\ nextSeq > 0
  BY DEF SeqInv
<1>2. doc'[h].lastSeq < nextSeq' /\ remoteSeen'[h] < nextSeq'
  BY <1>1 DEF HubSeqs
<1>3. \A m \in InNet(h)' : m.seq < nextSeq'
  BY <1>1 DEF HubSeqs
<1> QED
  BY <1>2, <1>3 DEF HubSeqs

LEMMA SeqTypes ==
  ASSUME TypeInv, NEW h \in Hubs
  PROVE  /\ nextSeq \in Nat /\ doc[h] \in Doc /\ doc[h].lastSeq \in Nat
         /\ remoteSeen[h] \in Nat /\ \A m \in InNet(h) : m.seq \in Nat
  BY InNetMessage, MessageFields DEF TypeInv, Doc

\* Steps that leave seqs, requests past the append, and queues alone.
LEMMA SeqSame ==
  ASSUME TypeInv, SeqInv, UNCHANGED <<file, nextSeq, remoteSeen>>,
         \A h \in Hubs : InNet(h)' \subseteq InNet(h),
         \A h \in Hubs : doc'[h].lastSeq = doc[h].lastSeq \/
           /\ doc'[h].lastSeq = 0
           /\ \A c \in Clients : Home[c] = h => req'[c].pc \notin {"snapshot", "fanout"},
         \A c \in Clients : req'[c].pc \in {"snapshot", "fanout"} =>
           req[c].pc \in {"snapshot", "fanout"}
  PROVE  SeqInv'
<1>1. \A h \in Hubs : HubSeqs(h)'
  BY SeqTypes, SeqKept
<1>2. \A c \in Clients : req'[c].pc \in {"snapshot", "fanout"} => doc'[Home[c]].lastSeq > 0
  BY HomeIsHub DEF SeqInv
<1> QED
  BY <1>1, <1>2 DEF SeqInv

LEMMA LoadingSeq ==
  ASSUME TypeInv, WriteInv, SeqInv, DocInv, NEW h \in Hubs, Loading(h)
  PROVE  SeqInv'
<1>1. UNCHANGED <<file, nextSeq, remoteSeen, net, req>>
  BY DEF Loading, QuerySnapshot, QueryTail, Install, store, bounds
<1>2. UNCHANGED doc \/ Install(h)
  BY DEF Loading, QuerySnapshot, QueryTail
<1>3. CASE Install(h)
  <2>1. ~doc[h].resident
    BY <1>3 DEF Install, DocInv, DocOf
  <2>2. \A c \in Clients : Home[c] = h => req[c].pc \notin {"snapshot", "fanout"}
    BY <2>1 DEF WriteInv, WriteOf, Writes
  <2>3. doc'[h] = [NoDoc EXCEPT !.resident = TRUE, !.content = load[h].content]
        /\ \A g \in Hubs \ {h} : doc'[g] = doc[g]
    BY <1>3 DEF Install, TypeInv
  <2>4. doc'[h].lastSeq = 0
    BY <2>3 DEF NoDoc
  <2> QED
    BY <1>1, <2>2, <2>3, <2>4, SeqSame DEF InNet
<1>4. CASE UNCHANGED doc
  BY <1>1, <1>4, SeqSame DEF InNet
<1> QED
  BY <1>2, <1>3, <1>4

LEMMA ClientSeq ==
  ASSUME TypeInv, SeqInv, NEW c \in Clients,
         Open(c) \/ Sync1(c) \/ Answer(c) \/ Update(c) \/ Apply(c)
  PROVE  SeqInv'
<1>1. UNCHANGED <<file, nextSeq, remoteSeen, net>>
  BY DEF Open, Sync1, Answer, Opened, Reply, Update, Apply, store
<1>2. \A h \in Hubs : doc'[h].lastSeq = doc[h].lastSeq
  <2>1. CASE Apply(c)
    BY <2>1, HomeIsHub DEF Apply, TypeInv, Doc
  <2> QED
    BY <2>1 DEF Open, Sync1, Answer, Opened, Reply, Update
<1>3. \A x \in Clients : req'[x].pc \in {"snapshot", "fanout"} => req'[x] = req[x]
  BY DEF Open, Sync1, Answer, Opened, Reply, Update, Apply, Goto, TypeInv, Request
<1> QED
  BY <1>1, <1>2, <1>3, SeqSame DEF InNet

LEMMA AppendSeq ==
  ASSUME TypeInv, WriteInv, SeqInv, NEW c \in Clients, AppendLog(c)
  PROVE  SeqInv'
<1> DEFINE h == Home[c]
<1>0. h \in Hubs /\ req[c].delta \in Delta
  BY HomeIsHub DEF AppendLog, WriteInv, WriteOf, Writes
<1>1. /\ nextSeq' = nextSeq + 1 /\ nextSeq \in Nat /\ nextSeq > 0
      /\ UNCHANGED <<remoteSeen, net>>
      /\ \A g \in Hubs \ {h} : doc'[g] = doc[g]
      /\ \A x \in Clients \ {c} : req'[x] = req[x]
  BY GotoRequest DEF AppendLog, TypeInv, SeqInv
<1>2. doc'[h].lastSeq = nextSeq
  BY <1>0 DEF AppendLog, TypeInv, Doc
<1>3. \A g \in Hubs \ {h} : HubSeqs(g)'
  BY <1>1, SeqTypes, SeqKept DEF InNet
<1>4. HubSeqs(h)'
  <2>1. remoteSeen[h] < nextSeq /\ remoteSeen[h] \in Nat
        /\ \A m \in InNet(h) : m.seq < nextSeq /\ m.seq \in Nat
    BY <1>0, SeqTypes DEF SeqInv, HubSeqs
  <2>2. InNet(h)' = InNet(h)
    BY <1>1 DEF InNet
  <2>3. \A m \in InNet(h)' : m.seq < nextSeq'
    BY <1>1, <2>1, <2>2
  <2>4. doc'[h].lastSeq < nextSeq' /\ remoteSeen'[h] < nextSeq'
    BY <1>1, <1>2, <2>1
  <2> QED
    BY <2>3, <2>4 DEF HubSeqs
<1>5. \A u \in file'.updates : u.seq > 0
  <2>1. file'.updates = file.updates \cup {[seq |-> nextSeq, delta |-> req[c].delta]}
    BY <1>0, AppendedTyped DEF AppendLog, TypeInv
  <2> QED
    BY <1>1, <2>1 DEF SeqInv
<1>6. \A x \in Clients : req'[x].pc \in {"snapshot", "fanout"} => doc'[Home[x]].lastSeq > 0
  <2> SUFFICES ASSUME NEW x \in Clients, req'[x].pc \in {"snapshot", "fanout"}
               PROVE  doc'[Home[x]].lastSeq > 0
    OBVIOUS
  <2>1. CASE Home[x] = h
    BY <1>1, <1>2, <2>1
  <2>2. CASE Home[x] # h
    <3>1. req'[x] = req[x] /\ doc'[Home[x]] = doc[Home[x]]
      BY <1>1, <2>2, HomeIsHub
    <3> QED
      BY <3>1 DEF SeqInv
  <2> QED
    BY <2>1, <2>2
<1> QED
  BY <1>1, <1>3, <1>4, <1>5, <1>6 DEF SeqInv

LEMMA SnapshotSeq ==
  ASSUME TypeInv, WriteInv, SeqInv, NEW c \in Clients, Snapshot(c)
  PROVE  SeqInv'
<1> DEFINE h == Home[c]
<1>0. h \in Hubs
  BY HomeIsHub
<1>1. /\ UNCHANGED <<nextSeq, remoteSeen, net>> /\ req[c].pc = "snapshot"
      /\ \A g \in Hubs : doc'[g].lastSeq = doc[g].lastSeq
      /\ \A x \in Clients \ {c} : req'[x] = req[x]
  BY <1>0, GotoRequest DEF Snapshot, TypeInv, Doc
<1>2. file'.updates \subseteq file.updates
  BY <1>0, CompactedTyped DEF Snapshot, TypeInv, Doc
<1>3. \A g \in Hubs : HubSeqs(g)'
  BY <1>1, SeqTypes, SeqKept DEF InNet
<1>4. \A x \in Clients : req'[x].pc \in {"snapshot", "fanout"} => doc'[Home[x]].lastSeq > 0
  BY <1>1, HomeIsHub DEF SeqInv
<1> QED
  BY <1>1, <1>2, <1>3, <1>4 DEF SeqInv

LEMMA FanOutSeq ==
  ASSUME TypeInv, WriteInv, SeqInv, NEW c \in Clients, FanOut(c)
  PROVE  SeqInv'
<1> DEFINE h == Home[c]
           m == [origin |-> h, seq |-> doc[h].lastSeq, delta |-> req[c].delta]
<1>0. h \in Hubs /\ req[c].delta \in Delta /\ doc[h].lastSeq \in Nat
  BY HomeIsHub, SeqTypes DEF FanOut, WriteInv, WriteOf, Writes
<1>1. m \in Messages /\ m.seq = doc[h].lastSeq
  BY <1>0 DEF Messages
<1>2. \A g \in Hubs : InNet(g)' = InNet(g) \cup {m}
  BY <1>1, PublishedTo DEF FanOut
<1>3. /\ UNCHANGED <<file, nextSeq, remoteSeen, doc>>
      /\ \A x \in Clients : req'[x].pc \in {"snapshot", "fanout"} => req'[x] = req[x]
  BY DEF FanOut, TypeInv, Idle, store
<1> HIDE DEF m
<1>4. ASSUME NEW g \in Hubs PROVE HubSeqs(g)'
  <2>1. HubSeqs(g) /\ doc[h].lastSeq < nextSeq
    BY <1>0 DEF SeqInv, HubSeqs
  <2>2. \A w \in InNet(g)' : w.seq < nextSeq
    BY <1>1, <1>2, <2>1 DEF HubSeqs
  <2> QED
    BY <1>3, <2>1, <2>2 DEF HubSeqs
<1> QED
  BY <1>3, <1>4 DEF SeqInv

LEMMA NetSeq ==
  ASSUME TypeInv, SeqInv, NEW h \in Hubs, Receive(h) \/ Lose(h)
  PROVE  SeqInv'
<1>1. CASE Lose(h)
  <2>1. PICK i \in Positions(h) : net' = [net EXCEPT ![h] = RemoveAt(@, i)]
    BY <1>1 DEF Lose
  <2>2. \A g \in Hubs : InNet(g)' \subseteq InNet(g)
    BY <2>1, PositionInNet, Removed
  <2> QED
    BY <1>1, <2>2, SeqSame DEF Lose, store
<1>2. CASE Receive(h)
  <2>0. PICK i \in Positions(h) : OwnMessage(h, i) \/ SeenMessage(h, i) \/ RemoteUpdate(h, i)
    BY <1>2 DEF Receive
  <2>1. i \in DOMAIN net[h]
    BY PositionInNet
  <2>2. CASE OwnMessage(h, i)
    <3>1. \A g \in Hubs : InNet(g)' \subseteq InNet(g)
      BY <2>1, <2>2, Removed DEF OwnMessage
    <3> QED
      BY <2>2, <3>1, SeqSame DEF OwnMessage, store
  <2>3. CASE SeenMessage(h, i)
    <3>1. \A g \in Hubs : InNet(g)' \subseteq InNet(g)
      BY <2>1, <2>3, HandedOver DEF SeenMessage
    <3> QED
      BY <2>3, <3>1, SeqSame DEF SeenMessage, store
  <2>4. CASE RemoteUpdate(h, i)
    <3>1. \A g \in Hubs : InNet(g)' \subseteq InNet(g)
      BY <2>1, <2>4, HandedOver DEF RemoteUpdate
    <3>2. /\ UNCHANGED <<file, nextSeq, req>>
          /\ remoteSeen'[h] = net[h][i].seq
          /\ \A g \in Hubs \ {h} : remoteSeen'[g] = remoteSeen[g]
          /\ \A g \in Hubs : doc'[g].lastSeq = doc[g].lastSeq
      BY <2>4 DEF RemoteUpdate, TypeInv, Doc, store
    <3>3. net[h][i] \in InNet(h)
      BY <2>1, InNetMessage
    <3>4. ASSUME NEW g \in Hubs PROVE HubSeqs(g)'
      <4>1. HubSeqs(g) /\ HubSeqs(h)
        BY DEF SeqInv
      <4> QED
        BY <3>1, <3>2, <3>3, <4>1 DEF HubSeqs
    <3>5. \A c \in Clients : req'[c].pc \in {"snapshot", "fanout"} => doc'[Home[c]].lastSeq > 0
      BY <3>2, HomeIsHub DEF SeqInv
    <3> QED
      BY <3>2, <3>4, <3>5 DEF SeqInv
  <2> QED
    BY <2>0, <2>2, <2>3, <2>4
<1> QED
  BY <1>1, <1>2

\* What a restart does to the broker's side and the requests.
LEMMA RestartEffect ==
  ASSUME TypeInv, NEW h \in Hubs, Restart(h)
  PROVE  /\ doc'[h] = NoDoc /\ load'[h] = NoLoad /\ remoteSeen'[h] = 0
         /\ \A g \in Hubs \ {h} : /\ doc'[g] = doc[g] /\ load'[g] = load[g]
                                  /\ remoteSeen'[g] = remoteSeen[g] /\ net'[g] = net[g]
                                  /\ lock'[g] = lock[g]
         /\ InNet(h)' = {} /\ \A g \in Hubs \ {h} : InNet(g)' = InNet(g)
         /\ \A c \in Clients : req'[c] = IF Home[c] = h THEN Idle ELSE req[c]
         /\ UNCHANGED <<file, nextSeq, sent, got, frames, committed>>
<1>1. net'[h] = <<>> /\ \A g \in Hubs \ {h} : net'[g] = net[g]
  BY DEF Restart, TypeInv
<1>2. InNet(h)' = {} /\ \A g \in Hubs \ {h} : InNet(g)' = InNet(g)
  BY <1>1 DEF InNet
<1> QED
  BY <1>1, <1>2 DEF Restart, TypeInv, store

LEMMA RestartSeq ==
  ASSUME TypeInv, SeqInv, NEW h \in Hubs, Restart(h)
  PROVE  SeqInv'
<1>1. doc'[h].lastSeq = 0
  BY RestartEffect DEF NoDoc
<1>2. \A g \in Hubs : HubSeqs(g)'
  BY <1>1, RestartEffect, SeqTypes, SeqKept
<1>3. \A c \in Clients : req'[c].pc \in {"snapshot", "fanout"} => doc'[Home[c]].lastSeq > 0
  <2> SUFFICES ASSUME NEW c \in Clients, req'[c].pc \in {"snapshot", "fanout"}
               PROVE  doc'[Home[c]].lastSeq > 0
    OBVIOUS
  <2>1. Home[c] # h /\ req'[c] = req[c]
    BY RestartEffect DEF Idle
  <2> QED
    BY <2>1, RestartEffect, HomeIsHub DEF SeqInv
<1> QED
  BY <1>2, <1>3, RestartEffect DEF SeqInv

----------------------------------------------------------------------------
(* Every delta is published once, and taken once.                          *)

\* A delta whose handler is through stays so.
DoneNext(d) ==
  /\ d.n <= sent'[d.by]
  /\ req'[d.by].pc \in Writes => d # req'[d.by].delta

DoneStays == \A d \in Delta : Done(d) => DoneNext(d)

LEMMA DoneSame ==
  ASSUME TypeInv,
         \A c \in Clients : sent'[c] = sent[c],
         \A c \in Clients : req'[c].pc \in Writes =>
           req[c].pc \in Writes /\ req'[c].delta = req[c].delta
  PROVE  DoneStays
  BY DeltaFields DEF DoneStays, Done, DoneNext

LEMMA DoneStep ==
  ASSUME TypeInv, WriteInv, Next
  PROVE  DoneStays
<1>1. ASSUME NEW h \in Hubs, Loading(h) \/ Receive(h) \/ Lose(h)
      PROVE  DoneStays
  <2>1. UNCHANGED <<req, sent>>
    BY <1>1 DEF Loading, QuerySnapshot, QueryTail, Install, Receive, OwnMessage,
                SeenMessage, RemoteUpdate, Lose, bounds
  <2> QED
    BY <2>1, DoneSame
<1>2. ASSUME NEW h \in Hubs, Restart(h)
      PROVE  DoneStays
  <2>1. \A c \in Clients : req'[c].pc \in Writes => req'[c] = req[c]
    BY <1>2, RestartEffect DEF Idle, Writes
  <2> QED
    BY <1>2, <2>1, RestartEffect, DoneSame
<1>3. ASSUME NEW c \in Clients, Open(c) \/ Sync1(c) \/ Answer(c) \/ Writing(c)
      PROVE  DoneStays
  <2>1. UNCHANGED sent
    BY <1>3 DEF Open, Sync1, Answer, Opened, Reply, Writing, Apply, AppendLog,
                Snapshot, FanOut, bounds
  <2>2. \A x \in Clients \ {c} : req'[x] = req[x]
    BY <1>3 DEF Open, Sync1, Answer, Opened, Reply, Writing, Apply, AppendLog,
                Snapshot, FanOut, Goto, TypeInv
  <2>3. req'[c].pc \in Writes => req[c].pc \in Writes /\ req'[c].delta = req[c].delta
    <3>1. CASE Open(c) \/ Sync1(c) \/ Opened(c) \/ Reply(c)
      BY <3>1, GotoRequest DEF Open, Sync1, Opened, Reply, Writes
    <3>2. CASE Apply(c) \/ AppendLog(c) \/ Snapshot(c)
      BY <3>2, GotoRequest DEF Apply, AppendLog, Snapshot, Writes
    <3>3. CASE FanOut(c)
      BY <3>3 DEF FanOut, TypeInv, Idle, Writes
    <3> QED
      BY <1>3, <3>1, <3>2, <3>3 DEF Answer, Writing
  <2> QED
    BY <2>1, <2>2, <2>3, DoneSame
<1>4. ASSUME NEW c \in Clients, Update(c)
      PROVE  DoneStays
  <2> DEFINE e == [by |-> c, n |-> sent[c] + 1]
  <2>1. /\ req'[c].delta = e /\ sent'[c] = sent[c] + 1 /\ sent[c] \in Nat
        /\ \A x \in Clients \ {c} : req'[x] = req[x] /\ sent'[x] = sent[x]
    BY <1>4 DEF Update, TypeInv
  <2> SUFFICES ASSUME NEW d \in Delta, Done(d) PROVE DoneNext(d)
    BY DEF DoneStays
  <2>2. CASE d.by = c
    <3>1. d.n \in Nat /\ d.n <= sent[c]
      BY <2>2, DeltaFields DEF Done
    <3>2. d.n <= sent'[c] /\ d # e
      BY <2>1, <3>1
    <3> QED
      BY <2>1, <2>2, <3>2 DEF Done, DoneNext
  <2>3. CASE d.by # c
    BY <2>1, <2>3, DeltaFields DEF Done, DoneNext
  <2> QED
    BY <2>2, <2>3
<1> QED
  BY <1>1, <1>2, <1>3, <1>4 DEF Next

\* Queues that only lose messages, and marks that only rise.
LEMMA NetShrinks ==
  ASSUME TypeInv, NetInv, DoneStays, \A h \in Hubs : InNet(h)' \subseteq InNet(h)
  PROVE  NetInv'
<1> SUFFICES ASSUME NEW h \in Hubs PROVE NetOf(h)'
  BY DEF NetInv
<1>1. NetOf(h)
  BY DEF NetInv
<1>2. \A m \in InNet(h)' : m.delta \in Delta /\ m \in InNet(h)
  BY InNetMessage, MessageFields
<1>3. \A m \in InNet(h) : m.delta \in Delta => DoneNext(m.delta)
  BY <1>1 DEF NetOf, DoneStays
<1> QED
  BY <1>1, <1>2, <1>3 DEF NetOf, Done, DoneNext

LEMMA FramesKept ==
  ASSUME TypeInv, FrameInv, DoneStays, UNCHANGED frames,
         \A h \in Hubs : InNet(h)' # {} =>
           /\ InNet(h)' \subseteq InNet(h)
           /\ remoteSeen'[h] \in Nat /\ remoteSeen'[h] >= remoteSeen[h]
  PROVE  FrameInv'
<1> SUFFICES ASSUME NEW c \in Clients, NEW d \in Delta PROVE FrameOf(c, d)'
  BY DEF FrameInv
<1>1. FrameOf(c, d) /\ (Done(d) => DoneNext(d))
  BY DEF FrameInv, DoneStays
<1>2. ASSUME frames[c][d] > 0, Home[d.by] # Home[c]
      PROVE  \A m \in InNet(Home[c])' : m.delta = d => m.seq <= remoteSeen'[Home[c]]
  <2>1. \A m \in InNet(Home[c]) : m.delta = d => m.seq <= remoteSeen[Home[c]]
    BY <1>1, <1>2 DEF FrameOf
  <2>2. remoteSeen[Home[c]] \in Nat /\ \A m \in InNet(Home[c]) : m.seq \in Nat
    BY HomeIsHub, SeqTypes
  <2> QED
    BY <2>1, <2>2, HomeIsHub
<1> QED
  BY <1>1, <1>2 DEF FrameOf, Done, DoneNext

LEMMA FanOutOnce ==
  ASSUME TypeInv, WriteInv, NetInv, FrameInv, DoneStays, NEW c \in Clients, FanOut(c)
  PROVE  NetInv' /\ FrameInv'
<1> DEFINE h == Home[c]
           d == req[c].delta
           m == [origin |-> h, seq |-> doc[h].lastSeq, delta |-> d]
           cs == {o \in open \ {c} : Home[o] = h}
<1>0. /\ h \in Hubs /\ d \in Delta /\ doc[h].lastSeq \in Nat /\ req[c].pc \in Writes
      /\ d = [by |-> c, n |-> sent[c]] /\ d.by = c /\ d.n = sent[c] /\ sent[c] \in Nat
  <2>1. WriteOf(c) /\ req[c].pc = "fanout"
    BY DEF FanOut, WriteInv
  <2> QED
    BY <2>1, HomeIsHub, SeqTypes DEF WriteOf, Writes, TypeInv
<1>1. m \in Messages /\ m.delta = d /\ m.origin = h
  BY <1>0 DEF Messages
<1>2. \A g \in Hubs : InNet(g)' = InNet(g) \cup {m}
  BY <1>1, PublishedTo DEF FanOut
<1>3. ~Done(d)
  BY <1>0 DEF Done
<1>4. DoneNext(d)
  <2>1. req'[c].pc \notin Writes /\ sent'[c] = sent[c]
    BY DEF FanOut, TypeInv, Idle, Writes, bounds
  <2> HIDE DEF d, m, cs
  <2> QED
    BY <1>0, <2>1 DEF DoneNext
<1>5. cs \in SUBSET Clients /\ c \notin cs /\ \A o \in cs : Home[o] = h
  BY DEF TypeInv
<1>f. FanTo(cs, d)
  BY DEF FanOut
<1>6. \A x \in Clients, e \in Delta :
        frames'[x][e] = IF x \in cs /\ e = d THEN frames[x][e] + 1 ELSE frames[x][e]
  <2>1. cs \in SUBSET Clients
    BY <1>5
  <2>2. d \in Delta
    BY <1>0
  <2> HIDE DEF cs, d, h, m
  <2> QED
    <3>1. frames \in [Clients -> [Delta -> Nat]]
      BY DEF TypeInv
    <3>2. frames' = [x \in Clients |->
            IF x \in cs THEN [frames[x] EXCEPT ![d] = @ + 1] ELSE frames[x]]
      BY <1>f DEF FanTo
    <3> QED
      BY <2>2, <3>1, <3>2
<1>7. UNCHANGED remoteSeen
  BY DEF FanOut
<1> HIDE DEF m, cs, h, d
<1>8. NetInv'
  <2> SUFFICES ASSUME NEW g \in Hubs PROVE NetOf(g)'
    BY DEF NetInv
  <2>1. NetOf(g) /\ \A w \in InNet(g) : w.delta \in Delta
    BY InNetMessage, MessageFields DEF NetInv
  <2>2. \A w \in InNet(g) : w.delta # d
    BY <1>3, <2>1 DEF NetOf
  <2>3. \A w \in InNet(g) : DoneNext(w.delta)
    BY <2>1 DEF NetOf, DoneStays
  <2>4. \A w \in InNet(g) \cup {m} : DoneNext(w.delta)
    BY <1>1, <1>4, <2>3
  <2>5. m.origin = Home[m.delta.by]
    BY <1>0, <1>1 DEF h
  <2> QED
    BY <1>1, <1>2, <2>1, <2>2, <2>4, <2>5 DEF NetOf, Done, DoneNext
<1>9. FrameInv'
  <2> SUFFICES ASSUME NEW x \in Clients, NEW e \in Delta PROVE FrameOf(x, e)'
    BY DEF FrameInv
  <2>1. FrameOf(x, e) /\ frames[x][e] \in Nat /\ (Done(e) => DoneNext(e))
    BY DEF FrameInv, TypeInv, DoneStays
  <2>2. CASE e = d
    <3>1. frames[x][e] = 0
      BY <1>3, <2>1, <2>2 DEF FrameOf
    <3>2. x \in cs => Home[e.by] = Home[x] /\ e.by # x
      BY <1>0, <1>5, <2>2 DEF h
    <3>3. frames'[x][e] = (IF x \in cs THEN 1 ELSE 0)
      BY <1>6, <2>2, <3>1
    <3> QED
      BY <1>4, <2>2, <3>2, <3>3 DEF FrameOf, Done, DoneNext
  <2>3. CASE e # d
    <3>1. frames'[x][e] = frames[x][e]
      BY <1>6, <2>3
    <3>2. \A w \in InNet(Home[x])' : w.delta = e => w \in InNet(Home[x])
      BY <1>1, <1>2, <2>3, HomeIsHub
    <3> QED
      BY <1>7, <2>1, <3>1, <3>2 DEF FrameOf, Done, DoneNext
  <2> QED
    BY <2>2, <2>3
<1> QED
  BY <1>8, <1>9

LEMMA RemoteOnce ==
  ASSUME TypeInv, NetInv, FrameInv, DoneStays, NEW h \in Hubs,
         NEW i \in DOMAIN net[h], RemoteUpdate(h, i)
  PROVE  FrameInv'
<1> DEFINE m == net[h][i]
           d == m.delta
           cs == {o \in open : Home[o] = h}
<1>0. /\ m \in InNet(h) /\ m \in Messages /\ d \in Delta /\ m.seq \in Nat
      /\ NetOf(h) /\ remoteSeen[h] \in Nat
  BY InNetMessage, MessageFields, SeqTypes DEF NetInv
<1>1. /\ m.origin # h /\ m.seq > remoteSeen[h]
      /\ remoteSeen'[h] = m.seq
      /\ \A g \in Hubs \ {h} : remoteSeen'[g] = remoteSeen[g]
  BY <1>0 DEF RemoteUpdate, Stale, TypeInv
<1>2. /\ InNet(h)' \subseteq InNet(h)
      /\ \A g \in Hubs \ {h} : InNet(g)' = InNet(g)
  BY HandedOver DEF RemoteUpdate
<1>3. cs \in SUBSET Clients /\ \A o \in cs : Home[o] = h
  BY DEF TypeInv
<1>f. FanTo(cs, d)
  BY DEF RemoteUpdate
<1>4. \A x \in Clients, e \in Delta :
        frames'[x][e] = IF x \in cs /\ e = d THEN frames[x][e] + 1 ELSE frames[x][e]
  <2>1. cs \in SUBSET Clients
    BY <1>3
  <2>2. d \in Delta
    BY <1>0
  <2> HIDE DEF cs, d, m
  <2> QED
    <3>1. frames \in [Clients -> [Delta -> Nat]]
      BY DEF TypeInv
    <3>2. frames' = [x \in Clients |->
            IF x \in cs THEN [frames[x] EXCEPT ![d] = @ + 1] ELSE frames[x]]
      BY <1>f DEF FanTo
    <3> QED
      BY <2>2, <3>1, <3>2
<1>5. Done(d) /\ Home[d.by] # h /\ \A w \in InNet(h) : w.delta = d => w = m
  BY <1>0, <1>1 DEF NetOf
<1> HIDE DEF m, d, cs
<1> SUFFICES ASSUME NEW x \in Clients, NEW e \in Delta PROVE FrameOf(x, e)'
  BY DEF FrameInv
<1>6. FrameOf(x, e) /\ frames[x][e] \in Nat /\ (Done(e) => DoneNext(e))
  BY DEF FrameInv, TypeInv, DoneStays
<1>7. CASE x \in cs /\ e = d
  <2>1. Home[x] = h /\ e.by # x
    BY <1>3, <1>5, <1>7
  <2>2. frames[x][e] = 0
    <3> SUFFICES ASSUME frames[x][e] > 0 PROVE FALSE
      BY <1>6
    <3>1. m.seq <= remoteSeen[h]
      BY <1>0, <1>5, <1>6, <1>7, <2>1 DEF FrameOf, d
    <3> QED
      BY <1>0, <1>1, <3>1
  <2>3. frames'[x][e] = 1
    BY <1>4, <1>7, <2>2
  <2>4. \A w \in InNet(Home[x])' : w.delta = e => w.seq <= remoteSeen'[Home[x]]
    BY <1>0, <1>1, <1>2, <1>5, <1>7, <2>1
  <2> QED
    BY <1>5, <1>6, <1>7, <2>1, <2>3, <2>4 DEF FrameOf, Done, DoneNext
<1>8. CASE ~(x \in cs /\ e = d)
  <2>1. frames'[x][e] = frames[x][e]
    BY <1>4, <1>8
  <2>2. /\ InNet(Home[x])' \subseteq InNet(Home[x])
        /\ remoteSeen'[Home[x]] >= remoteSeen[Home[x]]
        /\ remoteSeen'[Home[x]] \in Nat /\ remoteSeen[Home[x]] \in Nat
    BY <1>0, <1>1, <1>2, HomeIsHub, SeqTypes
  <2>3. \A w \in InNet(Home[x]) : w.seq \in Nat
    BY HomeIsHub, SeqTypes
  <2>4. ASSUME frames[x][e] > 0, Home[e.by] # Home[x]
        PROVE  \A w \in InNet(Home[x])' : w.delta = e => w.seq <= remoteSeen'[Home[x]]
    <3>1. \A w \in InNet(Home[x]) : w.delta = e => w.seq <= remoteSeen[Home[x]]
      BY <1>6, <2>4 DEF FrameOf
    <3> QED
      BY <2>2, <2>3, <3>1
  <2> QED
    BY <1>6, <2>1, <2>4 DEF FrameOf, Done, DoneNext
<1> QED
  BY <1>7, <1>8

LEMMA OnceStep ==
  ASSUME TypeInv, WriteInv, NetInv, FrameInv, Next
  PROVE  NetInv' /\ FrameInv'
<1>0. DoneStays
  BY DoneStep
<1>1. ASSUME UNCHANGED <<net, remoteSeen, frames>>
      PROVE  NetInv' /\ FrameInv'
  <2>1. \A h \in Hubs : InNet(h)' = InNet(h) /\ remoteSeen'[h] = remoteSeen[h]
                        /\ remoteSeen[h] \in Nat
    BY <1>1, SeqTypes DEF InNet
  <2> QED
    BY <1>0, <1>1, <2>1, NetShrinks, FramesKept
<1>2. ASSUME NEW h \in Hubs, Loading(h)
      PROVE  NetInv' /\ FrameInv'
  BY <1>1, <1>2 DEF Loading, QuerySnapshot, QueryTail, Install
<1>3. ASSUME NEW c \in Clients,
             Open(c) \/ Sync1(c) \/ Answer(c) \/ Update(c) \/ Apply(c) \/ AppendLog(c)
             \/ Snapshot(c)
      PROVE  NetInv' /\ FrameInv'
  BY <1>1, <1>3 DEF Open, Sync1, Answer, Opened, Reply, Update, Apply, AppendLog, Snapshot
<1>4. ASSUME NEW c \in Clients, FanOut(c)
      PROVE  NetInv' /\ FrameInv'
  BY <1>0, <1>4, FanOutOnce
<1>5. ASSUME UNCHANGED <<remoteSeen, frames>>, \A h \in Hubs : InNet(h)' \subseteq InNet(h)
      PROVE  NetInv' /\ FrameInv'
  <2>1. \A h \in Hubs : remoteSeen'[h] = remoteSeen[h] /\ remoteSeen[h] \in Nat
    BY <1>5, SeqTypes
  <2> QED
    BY <1>0, <1>5, <2>1, NetShrinks, FramesKept
<1>6. ASSUME NEW h \in Hubs, Receive(h)
      PROVE  NetInv' /\ FrameInv'
  <2>0. PICK i \in Positions(h) : OwnMessage(h, i) \/ SeenMessage(h, i) \/ RemoteUpdate(h, i)
    BY <1>6 DEF Receive
  <2>1. i \in DOMAIN net[h]
    BY PositionInNet
  <2>2. CASE OwnMessage(h, i)
    BY <1>5, <2>1, <2>2, Removed DEF OwnMessage
  <2>3. CASE SeenMessage(h, i)
    BY <1>5, <2>1, <2>3, HandedOver DEF SeenMessage
  <2>4. CASE RemoteUpdate(h, i)
    BY <1>0, <2>1, <2>4, HandedOver, NetShrinks, RemoteOnce DEF RemoteUpdate
  <2> QED
    BY <2>0, <2>2, <2>3, <2>4
<1>7. ASSUME NEW h \in Hubs, Lose(h)
      PROVE  NetInv' /\ FrameInv'
  <2>1. PICK i \in Positions(h) : net' = [net EXCEPT ![h] = RemoveAt(@, i)]
    BY <1>7 DEF Lose
  <2> QED
    BY <1>5, <1>7, <2>1, PositionInNet, Removed DEF Lose
<1>8. ASSUME NEW h \in Hubs, Restart(h)
      PROVE  NetInv' /\ FrameInv'
  <2>1. /\ InNet(h)' = {} /\ UNCHANGED frames
        /\ \A g \in Hubs \ {h} : InNet(g)' = InNet(g) /\ remoteSeen'[g] = remoteSeen[g]
                                 /\ remoteSeen[g] \in Nat
    BY <1>8, RestartEffect, SeqTypes
  <2>2. \A g \in Hubs : InNet(g)' \subseteq InNet(g)
    BY <2>1
  <2>3. \A g \in Hubs : InNet(g)' # {} =>
          InNet(g)' \subseteq InNet(g) /\ remoteSeen'[g] \in Nat
          /\ remoteSeen'[g] >= remoteSeen[g]
    BY <2>1
  <2> QED
    BY <1>0, <2>1, <2>2, <2>3, NetShrinks, FramesKept
<1> QED
  BY <1>2, <1>3, <1>4, <1>6, <1>7, <1>8 DEF Next, Writing

----------------------------------------------------------------------------
(* What a synced client holds.                                             *)

LEMMA MirrorKept ==
  ASSUME NEW c \in Clients, MirrorOf(c), c \in synced' => c \in synced,
         doc'[Home[c]].content \subseteq doc[Home[c]].content \cup got'[c],
         got[c] \subseteq got'[c],
         InHand(Home[c]) \subseteq got'[c] \cup InHand(Home[c])'
  PROVE  MirrorOf(c)'
  BY DEF MirrorOf

\* What the hub's writer has in its hands stays there when its request does.
LEMMA InHandKept ==
  ASSUME NEW h \in Hubs,
         \A c \in Clients : Home[c] = h /\ lock[h] = c =>
           lock'[h] = c /\ req'[c].delta = req[c].delta
  PROVE  InHand(h) \subseteq InHand(h)'
  BY DEF InHand

LEMMA LoadingMirror ==
  ASSUME TypeInv, DocInv, MirrorInv, NEW h \in Hubs, Loading(h)
  PROVE  MirrorInv'
<1>1. UNCHANGED <<lock, req, got, synced>>
  BY DEF Loading, QuerySnapshot, QueryTail, Install
<1>2. ~doc[h].resident /\ \A g \in Hubs \ {h} : doc'[g] = doc[g]
  <2>1. load[h].stage # "none" \/ ~doc[h].resident
    BY DEF Loading, QuerySnapshot, QueryTail, Install
  <2>2. \A g \in Hubs \ {h} : doc'[g] = doc[g]
    BY DEF Loading, QuerySnapshot, QueryTail, Install, TypeInv
  <2> QED
    BY <2>1, <2>2 DEF DocInv, DocOf
<1>3. ASSUME NEW c \in Clients PROVE MirrorOf(c)'
  <2>1. CASE Home[c] = h
    BY <1>1, <1>2, <2>1 DEF DocInv, ReaderOf, MirrorOf
  <2>2. CASE Home[c] # h
    <3>1. InHand(Home[c]) \subseteq InHand(Home[c])'
      BY <1>1, HomeIsHub, InHandKept
    <3>2. doc'[Home[c]] = doc[Home[c]]
      BY <1>2, <2>2, HomeIsHub
    <3> QED
      BY <1>1, <3>1, <3>2, MirrorKept DEF MirrorInv
  <2> QED
    BY <2>1, <2>2
<1> QED
  BY <1>3 DEF MirrorInv

LEMMA ReadingMirror ==
  ASSUME TypeInv, WriteInv, MirrorInv, NEW c \in Clients,
         Open(c) \/ Sync1(c) \/ Answer(c)
  PROVE  MirrorInv'
<1>1. /\ UNCHANGED <<doc, lock>> /\ req[c].pc \notin Writes
      /\ \A x \in Clients : got[x] \subseteq got'[x]
      /\ \A x \in Clients \ {c} : req'[x] = req[x] /\ (x \in synced' => x \in synced)
      /\ c \in synced' => c \in synced \/ doc[Home[c]].content \subseteq got'[c]
  BY DEF Open, Sync1, Answer, Opened, Reply, Goto, TypeInv, Writes
<1>2. lock[Home[c]] # c
  BY <1>1 DEF WriteInv, WriteOf
<1>3. \A h \in Hubs : InHand(h) \subseteq InHand(h)'
  BY <1>1, <1>2, InHandKept
<1>4. ASSUME NEW x \in Clients PROVE MirrorOf(x)'
  <2>1. CASE x \in synced' => x \in synced
    BY <1>1, <1>3, <2>1, HomeIsHub, MirrorKept DEF MirrorInv
  <2>2. CASE x = c /\ doc[Home[c]].content \subseteq got'[c]
    BY <1>1, <2>2 DEF MirrorOf
  <2> QED
    BY <1>1, <2>1, <2>2
<1> QED
  BY <1>4 DEF MirrorInv

LEMMA UpdateMirror ==
  ASSUME TypeInv, MirrorInv, NEW c \in Clients, Update(c)
  PROVE  MirrorInv'
<1>1. /\ UNCHANGED <<doc, synced>> /\ lock[Home[c]] = None
      /\ \A x \in Clients : got[x] \subseteq got'[x]
      /\ \A x \in Clients \ {c} : req'[x] = req[x]
      /\ \A g \in Hubs \ {Home[c]} : lock'[g] = lock[g]
  BY DEF Update, TypeInv
<1>2. \A h \in Hubs : InHand(h) \subseteq InHand(h)'
  BY <1>1, InHandKept, ClusterAssumption
<1>3. ASSUME NEW x \in Clients PROVE MirrorOf(x)'
  BY <1>1, <1>2, HomeIsHub, MirrorKept DEF MirrorInv
<1> QED
  BY <1>3 DEF MirrorInv

LEMMA ApplyMirror ==
  ASSUME TypeInv, WriteInv, MirrorInv, NEW c \in Clients, Apply(c)
  PROVE  MirrorInv'
<1> DEFINE h == Home[c]
           d == req[c].delta
<1>1. /\ UNCHANGED <<lock, got, synced>> /\ h \in Hubs
      /\ \A g \in Hubs \ {h} : doc'[g] = doc[g]
      /\ doc'[h].content = doc[h].content \cup {d}
      /\ \A x \in Clients : req'[x].delta = req[x].delta
  <2>1. h \in Hubs /\ \A x \in Clients : req'[x].delta = req[x].delta
    BY HomeIsHub, GotoRequest DEF Apply
  <2>2. /\ \A g \in Hubs \ {h} : doc'[g] = doc[g]
        /\ doc'[h].content = doc[h].content \cup {d}
    BY <2>1 DEF Apply, TypeInv, Doc
  <2> QED
    BY <2>1, <2>2 DEF Apply
<1>2. lock[h] = c
  BY DEF Apply, WriteInv, WriteOf, Writes
<1>3. \A g \in Hubs : InHand(g) \subseteq InHand(g)'
  BY <1>1, InHandKept
<1>4. d \in InHand(h)'
  BY <1>1, <1>2 DEF InHand
<1>5. ASSUME NEW x \in Clients PROVE MirrorOf(x)'
  <2>1. MirrorOf(x) /\ Home[x] \in Hubs
    BY HomeIsHub DEF MirrorInv
  <2>2. CASE Home[x] = h
    BY <1>1, <1>3, <1>4, <2>1, <2>2 DEF MirrorOf
  <2>3. CASE Home[x] # h
    BY <1>1, <1>3, <2>1, <2>3, MirrorKept
  <2> QED
    BY <2>2, <2>3
<1> QED
  BY <1>5 DEF MirrorInv

LEMMA LoggingMirror ==
  ASSUME TypeInv, MirrorInv, NEW c \in Clients, AppendLog(c) \/ Snapshot(c)
  PROVE  MirrorInv'
<1>1. /\ UNCHANGED <<lock, got, synced>>
      /\ \A x \in Clients : req'[x].delta = req[x].delta
  BY GotoRequest DEF AppendLog, Snapshot
<1>2. \A g \in Hubs : doc'[g].content = doc[g].content
  <2>1. CASE AppendLog(c)
    BY <2>1 DEF AppendLog, TypeInv, Doc
  <2>2. CASE Snapshot(c)
    BY <2>2 DEF Snapshot, TypeInv, Doc
  <2> QED
    BY <2>1, <2>2
<1>3. \A g \in Hubs : InHand(g) \subseteq InHand(g)'
  BY <1>1, InHandKept
<1>4. ASSUME NEW x \in Clients PROVE MirrorOf(x)'
  BY <1>1, <1>2, <1>3, HomeIsHub, MirrorKept DEF MirrorInv
<1> QED
  BY <1>4 DEF MirrorInv

LEMMA FanOutMirror ==
  ASSUME TypeInv, WriteInv, DocInv, MirrorInv, NEW c \in Clients, FanOut(c)
  PROVE  MirrorInv'
<1> DEFINE h == Home[c]
           d == req[c].delta
<1>1. /\ UNCHANGED <<doc, synced>> /\ h \in Hubs
      /\ \A x \in Clients \ {c} : req'[x] = req[x]
      /\ \A g \in Hubs \ {h} : lock'[g] = lock[g]
  BY HomeIsHub DEF FanOut, TypeInv
<1>2. \A x \in Clients :
        got'[x] = got[x] \cup IF x \in {o \in open \ {c} : Home[o] = h} THEN {d} ELSE {}
  BY DEF FanOut, FanTo
<1>3. lock[h] = c /\ d \in got[c]
  BY DEF FanOut, WriteInv, WriteOf, Writes
<1>4. InHand(h) = {d}
  BY <1>1, <1>3 DEF InHand
<1>5. ASSUME NEW x \in Clients PROVE MirrorOf(x)'
  <2>1. CASE x \notin synced
    BY <1>1, <2>1 DEF MirrorOf
  <2>2. CASE Home[x] # h
    <3>1. InHand(Home[x]) \subseteq InHand(Home[x])'
      BY <1>1, <2>2, HomeIsHub, InHandKept
    <3> QED
      BY <1>1, <1>2, <3>1, MirrorKept DEF MirrorInv
  <2>3. CASE x \in synced /\ Home[x] = h
    <3>1. x \in open
      BY <2>3 DEF DocInv, ReaderOf
    <3>2. d \in got'[x]
      BY <1>2, <1>3, <2>3, <3>1
    <3> QED
      BY <1>1, <1>2, <1>4, <2>3, <3>2, MirrorKept DEF MirrorInv
  <2> QED
    BY <2>1, <2>2, <2>3
<1> QED
  BY <1>5 DEF MirrorInv

LEMMA NetMirror ==
  ASSUME TypeInv, WriteInv, DocInv, MirrorInv, NEW h \in Hubs, Receive(h) \/ Lose(h)
  PROVE  MirrorInv'
<1>1. UNCHANGED <<lock, req, synced>>
  BY DEF Receive, OwnMessage, SeenMessage, RemoteUpdate, Lose
<1>2. \A g \in Hubs : InHand(g) \subseteq InHand(g)'
  BY <1>1, InHandKept
<1>3. CASE UNCHANGED <<doc, got>>
  BY <1>1, <1>2, <1>3, HomeIsHub, MirrorKept DEF MirrorInv
<1>4. CASE \E i \in Positions(h) : RemoteUpdate(h, i)
  <2>1. PICK i \in Positions(h) : RemoteUpdate(h, i)
    BY <1>4
  <2> DEFINE d == net[h][i].delta
  <2>2. \A x \in Clients :
          got'[x] = got[x] \cup IF x \in {o \in open : Home[o] = h} THEN {d} ELSE {}
    BY <2>1 DEF RemoteUpdate, FanTo
  <2>3. /\ \A g \in Hubs \ {h} : doc'[g] = doc[g]
        /\ doc'[h].content \subseteq doc[h].content \cup {d}
    BY <2>1 DEF RemoteUpdate, TypeInv, Doc
  <2> HIDE DEF d
  <2>4. ASSUME NEW x \in Clients PROVE MirrorOf(x)'
    <3>1. CASE x \notin synced
      BY <1>1, <3>1 DEF MirrorOf
    <3>2. CASE x \in synced
      <4>1. x \in open
        BY <3>2 DEF DocInv, ReaderOf
      <4>2. doc'[Home[x]].content \subseteq doc[Home[x]].content \cup got'[x]
        BY <2>2, <2>3, <4>1, HomeIsHub
      <4> QED
        BY <1>1, <1>2, <2>2, <4>2, HomeIsHub, MirrorKept DEF MirrorInv
    <3> QED
      BY <3>1, <3>2
  <2> QED
    BY <2>4 DEF MirrorInv
<1> QED
  BY <1>3, <1>4 DEF Receive, OwnMessage, SeenMessage, Lose

LEMMA RestartMirror ==
  ASSUME TypeInv, MirrorInv, NEW h \in Hubs, Restart(h)
  PROVE  MirrorInv'
<1>1. synced' = synced \ {c \in Clients : Home[c] = h}
  BY DEF Restart
<1>2. ASSUME NEW x \in Clients PROVE MirrorOf(x)'
  <2>1. CASE Home[x] = h
    BY <1>1, <2>1 DEF MirrorOf
  <2>2. CASE Home[x] # h
    <3>1. InHand(Home[x]) \subseteq InHand(Home[x])'
      BY <2>2, HomeIsHub, RestartEffect, InHandKept
    <3>2. doc'[Home[x]] = doc[Home[x]] /\ got' = got
      BY <2>2, HomeIsHub, RestartEffect
    <3> QED
      BY <1>1, <3>1, <3>2, MirrorKept DEF MirrorInv
  <2> QED
    BY <2>1, <2>2
<1> QED
  BY <1>2 DEF MirrorInv

----------------------------------------------------------------------------
(* The log.                                                                *)

LEMMA LogKept ==
  ASSUME LogInv, UNCHANGED <<file, committed>>,
         \A h \in Hubs : InNet(h)' \subseteq InNet(h),
         \A c \in Clients : req'[c].pc \in {"snapshot", "fanout"} => req'[c] = req[c]
  PROVE  LogInv'
  BY DEF LogInv

LEMMA AppendLogged ==
  ASSUME TypeInv, WriteInv, LogInv, NEW c \in Clients, AppendLog(c)
  PROVE  LogInv'
<1> DEFINE d == req[c].delta
<1>0. d \in Delta /\ file \in File(Delta) /\ nextSeq \in Nat
  BY DEF AppendLog, WriteInv, WriteOf, Writes, TypeInv
<1>1. /\ file'.seq = file.seq /\ file'.state = file.state
      /\ file'.updates = file.updates \cup {[seq |-> nextSeq, delta |-> d]}
  BY <1>0, AppendedTyped DEF AppendLog
<1>2. /\ committed' = committed \cup {d} /\ UNCHANGED net
      /\ \A x \in Clients \ {c} : req'[x] = req[x]
      /\ req'[c].delta = d
  BY GotoRequest DEF AppendLog
<1> HIDE DEF d
<1>3. \A h \in Hubs : \A m \in InNet(h)' : m.delta \in committed'
  BY <1>2 DEF LogInv, InNet
<1>4. \A x \in Clients : req'[x].pc \in {"snapshot", "fanout"} => req'[x].delta \in committed'
  BY <1>2 DEF LogInv
<1>5. {u.delta : u \in file'.updates} = {u.delta : u \in file.updates} \cup {d}
  <2> DEFINE row == [seq |-> nextSeq, delta |-> d]
  <2>1. row.delta = d
    OBVIOUS
  <2> HIDE DEF row
  <2>2. file'.updates = file.updates \cup {row}
    BY <1>1 DEF row
  <2> QED
    BY ONLY <2>1, <2>2
<1> QED
  BY <1>1, <1>2, <1>3, <1>4, <1>5 DEF LogInv

LEMMA SnapshotLogged ==
  ASSUME TypeInv, SeqInv, LogInv, NEW c \in Clients, Snapshot(c)
  PROVE  LogInv' /\ (file'.seq = 0 => UNCHANGED file)
<1>1. /\ UNCHANGED <<net, committed>> /\ req[c].pc = "snapshot"
      /\ \A x \in Clients : req'[x].delta = req[x].delta
      /\ \A x \in Clients \ {c} : req'[x] = req[x]
  BY GotoRequest DEF Snapshot
<1>2. file'.seq = 0 => UNCHANGED file
  <2>1. doc[Home[c]].lastSeq > 0 /\ doc[Home[c]].lastSeq \in Nat
        /\ doc[Home[c]].content \in SUBSET Delta /\ file \in File(Delta)
    BY <1>1, HomeIsHub DEF SeqInv, TypeInv, Doc
  <2>2. Compacted(file, doc[Home[c]].lastSeq, doc[Home[c]].content).seq > 0
    BY <2>1, CompactedTyped
  <2> QED
    BY <2>2 DEF Snapshot
<1>3. \A x \in Clients : req'[x].pc \in {"snapshot", "fanout"} => req'[x].delta \in committed'
  BY <1>1 DEF LogInv
<1> QED
  BY <1>1, <1>2, <1>3 DEF LogInv, InNet

LEMMA FanOutLogged ==
  ASSUME TypeInv, WriteInv, LogInv, NEW c \in Clients, FanOut(c)
  PROVE  LogInv'
<1> DEFINE h == Home[c]
           m == [origin |-> h, seq |-> doc[h].lastSeq, delta |-> req[c].delta]
<1>0. h \in Hubs /\ req[c].delta \in Delta /\ doc[h].lastSeq \in Nat
  BY HomeIsHub, SeqTypes DEF FanOut, WriteInv, WriteOf, Writes
<1>1. m \in Messages /\ m.delta \in committed
  BY <1>0 DEF Messages, FanOut, LogInv
<1>2. \A g \in Hubs : InNet(g)' = InNet(g) \cup {m}
  BY <1>1, PublishedTo DEF FanOut
<1>3. /\ UNCHANGED <<file, committed>>
      /\ \A x \in Clients : req'[x].pc \in {"snapshot", "fanout"} => req'[x] = req[x]
  BY DEF FanOut, TypeInv, Idle, store
<1> HIDE DEF m
<1> QED
  BY <1>1, <1>2, <1>3 DEF LogInv

LEMMA LogStep ==
  ASSUME TypeInv, WriteInv, SeqInv, LogInv, Next
  PROVE  LogInv' /\ (file'.seq = 0 => file.seq = 0)
<1>1. ASSUME NEW h \in Hubs, Loading(h)
      PROVE  LogInv' /\ UNCHANGED file
  BY <1>1, LogKept DEF Loading, QuerySnapshot, QueryTail, Install, store, InNet
<1>2. ASSUME NEW c \in Clients,
             Open(c) \/ Sync1(c) \/ Answer(c) \/ Update(c) \/ Apply(c)
      PROVE  LogInv' /\ UNCHANGED file
  <2>1. UNCHANGED <<file, committed, net>>
    BY <1>2 DEF Open, Sync1, Answer, Opened, Reply, Update, Apply, store
  <2>2. \A x \in Clients : req'[x].pc \in {"snapshot", "fanout"} => req'[x] = req[x]
    BY <1>2 DEF Open, Sync1, Answer, Opened, Reply, Update, Apply, Goto, TypeInv, Request
  <2> QED
    BY <2>1, <2>2, LogKept DEF InNet
<1>3. ASSUME NEW c \in Clients, AppendLog(c)
      PROVE  LogInv' /\ file'.seq = file.seq
  BY <1>3, AppendLogged DEF AppendLog, Appended, TypeInv, File
<1>4. ASSUME NEW c \in Clients, Snapshot(c)
      PROVE  LogInv' /\ (file'.seq = 0 => file.seq = 0)
  BY <1>4, SnapshotLogged
<1>5. ASSUME NEW c \in Clients, FanOut(c)
      PROVE  LogInv' /\ UNCHANGED file
  BY <1>5, FanOutLogged DEF FanOut, store
<1>6. ASSUME NEW h \in Hubs, Receive(h) \/ Lose(h)
      PROVE  LogInv' /\ UNCHANGED file
  <2>1. UNCHANGED <<file, committed, req>>
    BY <1>6 DEF Receive, OwnMessage, SeenMessage, RemoteUpdate, Lose, store
  <2>2. \A g \in Hubs : InNet(g)' \subseteq InNet(g)
    <3>1. CASE Lose(h)
      BY <3>1, PositionInNet, Removed DEF Lose
    <3>2. CASE Receive(h)
      BY <3>2, PositionInNet, Removed, HandedOver
      DEF Receive, OwnMessage, SeenMessage, RemoteUpdate
    <3> QED
      BY <1>6, <3>1, <3>2
  <2> QED
    BY <2>1, <2>2, LogKept
<1>7. ASSUME NEW h \in Hubs, Restart(h)
      PROVE  LogInv' /\ UNCHANGED file
  <2>1. \A x \in Clients : req'[x].pc \in {"snapshot", "fanout"} => req'[x] = req[x]
    BY <1>7, RestartEffect DEF Idle
  <2>2. UNCHANGED <<file, committed>> /\ \A g \in Hubs : InNet(g)' \subseteq InNet(g)
    BY <1>7, RestartEffect
  <2> QED
    BY <2>1, <2>2, LogKept
<1> QED
  BY <1>1, <1>2, <1>3, <1>4, <1>5, <1>6, <1>7 DEF Next, Writing

----------------------------------------------------------------------------
(* What a document lacks.                                                  *)

LEMMA TravelsInNet ==
  ASSUME NEW h \in Hubs, NEW d
  PROVE  Travelling(h, d) <=> \E m \in InNet(h) : m.delta = d
  BY DEF Travelling, InNet

LEMMA OwnKept ==
  ASSUME NEW h \in Hubs, OwnOf(h), InNet(h)' \subseteq InNet(h),
         InNet(h)' = {} \/ DocGrows(h)
  PROVE  OwnOf(h)'
  BY DEF OwnOf, DocGrows

\* An explanation holds after the step, or h no longer needs it.
StillExplained(h, d) ==
  \/ d \in dropped'[h]
  \/ \E c \in Clients : req'[c].delta = d /\ req'[c].pc \in {"snapshot", "fanout"}
  \/ \E i \in DOMAIN net'[h] : net'[h][i].delta = d
  \/ doc[h].resident /\ d \in doc'[h].content
  \/ ~doc[h].resident /\ (d \in load[h].content \/ load[h].stage = "none")

LEMMA LackKept ==
  ASSUME NEW h \in Hubs, LackOf(h), DocOf(h), file'.seq = 0 => file.seq = 0,
         load'[h] = load[h] \/ load'[h].stage = "none",
         doc'[h].resident => doc[h].resident,
         doc[h].content \subseteq doc'[h].content \/ ~doc'[h].resident,
         \A d \in committed : Explained(h, d) => StillExplained(h, d),
         \A d \in committed' \ committed : StillExplained(h, d)
  PROVE  LackOf(h)'
<1> SUFFICES ASSUME file'.seq = 0 PROVE
      /\ load'[h].stage = "snapshot" => load'[h].since = 0
      /\ load'[h].stage = "tail" =>
           \A d \in committed' \ load'[h].content : Explained(h, d)'
      /\ doc'[h].resident => \A d \in committed' \ doc'[h].content : Explained(h, d)'
  BY DEF LackOf
<1>1. /\ load[h].stage = "snapshot" => load[h].since = 0
      /\ load[h].stage = "tail" => \A d \in committed \ load[h].content : Explained(h, d)
      /\ doc[h].resident => \A d \in committed \ doc[h].content : Explained(h, d)
  BY DEF LackOf
<1>2. ASSUME load'[h].stage = "tail"
      PROVE  \A d \in committed' \ load'[h].content : StillExplained(h, d) /\ ~doc[h].resident
             /\ load[h].stage = "tail" /\ load'[h] = load[h]
  BY <1>1, <1>2 DEF DocOf
<1>3. ASSUME doc'[h].resident
      PROVE  doc[h].resident /\
             \A d \in committed' \ doc'[h].content : StillExplained(h, d)
  BY <1>1, <1>3
<1>4. load'[h].stage = "tail" =>
        \A d \in committed' \ load'[h].content : Explained(h, d)'
  BY <1>2 DEF StillExplained, Explained, Publishing, Travelling
<1>5. doc'[h].resident => \A d \in committed' \ doc'[h].content : Explained(h, d)'
  BY <1>3 DEF StillExplained, Explained, Publishing, Travelling
<1> QED
  BY <1>1, <1>4, <1>5

\* Steps that publish nothing and take no message away.
LEMMA StaleSame ==
  ASSUME TypeInv, DocInv, StaleInv, UNCHANGED <<committed, dropped, net>>,
         file'.seq = 0 => file.seq = 0,
         \A h \in Hubs :
           /\ DocGrows(h) /\ load'[h] = load[h]
           /\ doc'[h].resident => doc[h].resident,
         \A c \in Clients : req[c].pc \in {"snapshot", "fanout"} =>
           req'[c].pc \in {"snapshot", "fanout"} /\ req'[c].delta = req[c].delta
  PROVE  StaleInv'
<1> SUFFICES ASSUME NEW h \in Hubs PROVE OwnOf(h)' /\ LackOf(h)'
  BY DEF StaleInv
<1>1. OwnOf(h) /\ LackOf(h) /\ DocOf(h)
  BY DEF StaleInv, DocInv
<1>2. OwnOf(h)'
  BY <1>1, OwnKept DEF InNet
<1>3. \A d \in committed : Explained(h, d) => StillExplained(h, d)
  BY DEF Explained, StillExplained, Publishing, Travelling
<1>4. LackOf(h)'
  BY <1>1, <1>3, LackKept DEF DocGrows
<1> QED
  BY <1>2, <1>4

LEMMA QueryStale ==
  ASSUME TypeInv, DocInv, SeqInv, LogInv, StaleInv, NEW h \in Hubs,
         QuerySnapshot(h) \/ QueryTail(h)
  PROVE  StaleInv'
<1>1. /\ UNCHANGED <<file, committed, dropped, net, doc, req>>
      /\ \A g \in Hubs \ {h} : load'[g] = load[g]
  BY DEF QuerySnapshot, QueryTail, TypeInv, store
<1> SUFFICES ASSUME NEW g \in Hubs PROVE OwnOf(g)' /\ LackOf(g)'
  BY DEF StaleInv
<1>2. OwnOf(g) /\ LackOf(g) /\ DocOf(g)
  BY DEF StaleInv, DocInv
<1>3. OwnOf(g)'
  BY <1>1, <1>2 DEF OwnOf, InNet
<1>4. CASE g # h
  <2>1. \A d \in committed : Explained(g, d) => StillExplained(g, d)
    BY <1>1 DEF Explained, StillExplained, Publishing, Travelling
  <2>2. LackOf(g)'
    BY <1>1, <1>2, <1>4, <2>1, LackKept
  <2> QED
    BY <1>3, <2>2
<1>5. CASE g = h /\ QuerySnapshot(h)
  <2>1. load'[h] = [stage |-> "snapshot", since |-> file.seq, content |-> file.state]
        /\ ~doc[h].resident
    BY <1>5 DEF QuerySnapshot, TypeInv
  <2>2. LackOf(h)'
    BY <1>1, <2>1 DEF LackOf
  <2> QED
    BY <1>3, <1>5, <2>2
<1>6. CASE g = h /\ QueryTail(h)
  <2>1. load[h].stage = "snapshot" /\ ~doc[h].resident
    BY <1>2, <1>6 DEF QueryTail, DocOf
  <2>2. load'[h].stage = "tail"
        /\ load'[h].content = load[h].content \cup {u.delta : u \in TailRows(h)}
    <3> DEFINE rows == {u.delta : u \in TailRows(h)}
    <3>1. load[h] \in Load
      BY DEF TypeInv
    <3>2. load' = [load EXCEPT ![h] = [load[h] EXCEPT !.stage = "tail", !.content = @ \cup rows]]
      BY <1>6 DEF QueryTail, TypeInv
    <3> HIDE DEF rows
    <3> QED
      BY <3>1, <3>2 DEF Load, TypeInv, rows
  <2>3. ASSUME file.seq = 0
        PROVE  committed \subseteq load'[h].content
    <3>1. load[h].since = 0
      BY <1>2, <1>6, <2>1, <2>3 DEF LackOf
    <3>2. TailRows(h) = file.updates
      BY <3>1 DEF TailRows, SeqInv, TypeInv, File
    <3> QED
      BY <2>2, <2>3, <3>2 DEF LogInv
  <2>4. LackOf(h)'
    BY <1>1, <2>1, <2>2, <2>3 DEF LackOf
  <2> QED
    BY <1>3, <1>6, <2>4
<1> QED
  BY <1>4, <1>5, <1>6

LEMMA InstallStale ==
  ASSUME TypeInv, DocInv, StaleInv, NEW h \in Hubs, Install(h)
  PROVE  StaleInv'
<1>1. /\ UNCHANGED <<file, committed, dropped, net, req>>
      /\ \A g \in Hubs \ {h} : load'[g] = load[g] /\ doc'[g] = doc[g]
      /\ load[h].stage = "tail"
      /\ load'[h] = NoLoad
      /\ doc'[h] = [NoDoc EXCEPT !.resident = TRUE, !.content = load[h].content]
  BY DEF Install, TypeInv, store
<1>2. load'[h].stage = "none" /\ doc'[h].content = load[h].content
  BY <1>1 DEF NoLoad, NoDoc
<1> SUFFICES ASSUME NEW g \in Hubs PROVE OwnOf(g)' /\ LackOf(g)'
  BY DEF StaleInv
<1>3. OwnOf(g) /\ LackOf(g) /\ DocOf(g)
  BY DEF StaleInv, DocInv
<1>4. CASE g # h
  <2>1. OwnOf(g)'
    BY <1>1, <1>3, <1>4 DEF OwnOf, InNet
  <2>2. \A d \in committed : Explained(g, d) => StillExplained(g, d)
    BY <1>1 DEF Explained, StillExplained, Publishing, Travelling
  <2>3. LackOf(g)'
    BY <1>1, <1>3, <1>4, <2>2, LackKept
  <2> QED
    BY <2>1, <2>3
<1>5. CASE g = h
  <2>1. ~doc[h].resident
    BY <1>1, <1>3, <1>5 DEF DocOf
  <2>2. OwnOf(h)'
    <3>1. InNet(h)' = InNet(h)
      BY <1>1 DEF InNet
    <3> QED
      BY <1>3, <1>5, <2>1, <3>1 DEF OwnOf
  <2>3. \A d : Explained(h, d) => Explained(h, d)'
    BY <1>1 DEF Explained, Publishing, Travelling
  <2>4. LackOf(h)'
    BY <1>1, <1>2, <1>3, <1>5, <2>3 DEF LackOf
  <2> QED
    BY <1>5, <2>2, <2>4
<1> QED
  BY <1>4, <1>5

LEMMA QuietStale ==
  ASSUME TypeInv, WriteInv, DocInv, SeqInv, LogInv, StaleInv, NEW c \in Clients,
         Open(c) \/ Sync1(c) \/ Answer(c) \/ Update(c) \/ Apply(c) \/ Snapshot(c)
  PROVE  StaleInv'
<1>1. UNCHANGED <<committed, dropped, net, load>>
  BY DEF Open, Sync1, Answer, Opened, Reply, Update, Apply, Snapshot
<1>2. file'.seq = 0 => file.seq = 0
  <2>1. CASE Snapshot(c)
    BY <2>1, SnapshotLogged
  <2> QED
    BY <2>1 DEF Open, Sync1, Answer, Opened, Reply, Update, Apply, store
<1>3. \A h \in Hubs : DocGrows(h) /\ (doc'[h].resident => doc[h].resident)
  <2>1. CASE Apply(c)
    BY <2>1 DEF Apply, TypeInv, Doc, DocGrows
  <2>2. CASE Snapshot(c)
    <3>1. \A h \in Hubs : doc'[h].resident = doc[h].resident /\ doc'[h].content = doc[h].content
      BY <2>2 DEF Snapshot, TypeInv, Doc
    <3> QED
      BY <3>1 DEF DocGrows
  <2> QED
    BY <2>1, <2>2 DEF Open, Sync1, Answer, Opened, Reply, Update, DocGrows
<1>4. \A x \in Clients : req[x].pc \in {"snapshot", "fanout"} =>
        req'[x].pc \in {"snapshot", "fanout"} /\ req'[x].delta = req[x].delta
  <2>1. CASE Snapshot(c)
    BY <2>1, GotoRequest DEF Snapshot
  <2>2. CASE Open(c) \/ Sync1(c) \/ Answer(c) \/ Update(c) \/ Apply(c)
    <3>1. \A x \in Clients \ {c} : req'[x] = req[x]
      BY <2>2 DEF Open, Sync1, Answer, Opened, Reply, Update, Apply, Goto, TypeInv
    <3>2. req[c].pc \notin {"snapshot", "fanout"}
      BY <2>2 DEF Open, Sync1, Answer, Opened, Reply, Update, Apply
    <3> QED
      BY <3>1, <3>2
  <2> QED
    BY <2>1, <2>2
<1> QED
  BY <1>1, <1>2, <1>3, <1>4, StaleSame

LEMMA AppendStale ==
  ASSUME TypeInv, WriteInv, DocInv, StaleInv, NEW c \in Clients, AppendLog(c)
  PROVE  StaleInv'
<1> DEFINE d == req[c].delta
<1>1. /\ UNCHANGED <<dropped, net, load>>
      /\ committed' = committed \cup {d}
      /\ req[c].pc = "append" /\ req'[c].pc = "snapshot" /\ req'[c].delta = d
      /\ \A x \in Clients \ {c} : req'[x] = req[x]
      /\ file'.seq = file.seq
  BY GotoRequest DEF AppendLog, Appended, TypeInv, File
<1>2. \A h \in Hubs : doc'[h].resident = doc[h].resident /\ doc'[h].content = doc[h].content
  <2>1. \A h \in Hubs : doc'[h] = IF h = Home[c] THEN [doc[h] EXCEPT !.lastSeq = nextSeq] ELSE doc[h]
    BY DEF AppendLog, TypeInv
  <2>2. \A h \in Hubs : doc[h] \in Doc
    BY DEF TypeInv
  <2> QED
    BY <2>1, <2>2 DEF Doc
<1> SUFFICES ASSUME NEW h \in Hubs PROVE OwnOf(h)' /\ LackOf(h)'
  BY DEF StaleInv
<1>3. OwnOf(h) /\ LackOf(h) /\ DocOf(h)
  BY DEF StaleInv, DocInv
<1>4. OwnOf(h)'
  BY <1>1, <1>2, <1>3, OwnKept DEF InNet, DocGrows
<1>5. \A e \in committed : Explained(h, e) => StillExplained(h, e)
  BY <1>1 DEF Explained, StillExplained, Publishing, Travelling
<1>6. StillExplained(h, d)
  BY <1>1 DEF StillExplained
<1> HIDE DEF d
<1>7. LackOf(h)'
  BY <1>1, <1>2, <1>3, <1>5, <1>6, LackKept
<1> QED
  BY <1>4, <1>7

LEMMA FanOutStale ==
  ASSUME TypeInv, WriteInv, DocInv, StaleInv, NEW c \in Clients, FanOut(c)
  PROVE  StaleInv'
<1> DEFINE h == Home[c]
           d == req[c].delta
           m == [origin |-> h, seq |-> doc[h].lastSeq, delta |-> d]
<1>0. h \in Hubs /\ d \in Delta /\ doc[h].lastSeq \in Nat
      /\ doc[h].resident /\ d \in doc[h].content
  BY HomeIsHub, SeqTypes DEF FanOut, WriteInv, WriteOf, Writes
<1>1. m \in Messages /\ m.delta = d /\ m.origin = h
  BY <1>0 DEF Messages
<1>2. \A g \in Hubs : InNet(g)' = InNet(g) \cup {m}
  BY <1>1, PublishedTo DEF FanOut
<1>3. /\ UNCHANGED <<file, doc, load, committed, dropped>>
      /\ \A x \in Clients \ {c} : req'[x] = req[x]
  BY DEF FanOut, TypeInv, store
<1> HIDE DEF m, d, h
<1> SUFFICES ASSUME NEW g \in Hubs PROVE OwnOf(g)' /\ LackOf(g)'
  BY DEF StaleInv
<1>4. OwnOf(g) /\ LackOf(g) /\ DocOf(g)
  BY DEF StaleInv, DocInv
<1>5. OwnOf(g)'
  BY <1>0, <1>1, <1>2, <1>3, <1>4 DEF OwnOf
<1>6. ASSUME NEW e \in committed, Explained(g, e)
      PROVE  StillExplained(g, e)
  <2>1. CASE Travelling(g, e) \/ e = d
    <3>1. \E w \in InNet(g)' : w.delta = e
      BY <1>1, <1>2, <2>1, TravelsInNet
    <3> QED
      BY <3>1 DEF InNet, StillExplained
  <2>2. CASE Publishing(e) /\ e # d
    BY <1>3, <2>2 DEF Publishing, StillExplained, d
  <2>3. CASE e \in dropped[g]
    BY <1>3, <2>3 DEF StillExplained
  <2> QED
    BY <1>6, <2>1, <2>2, <2>3 DEF Explained
<1>7. LackOf(g)'
  BY <1>3, <1>4, <1>6, LackKept
<1> QED
  BY <1>5, <1>7

\* The broker takes a message off h's queue, and h takes its delta, lacks no
\* such delta, or is noted to have dropped it.
LEMMA MessageStale ==
  ASSUME TypeInv, DocInv, StaleInv, NEW h \in Hubs, NEW m \in InNet(h),
         UNCHANGED <<file, committed, req, load>>,
         InNet(h)' \subseteq InNet(h), InNet(h) \ {m} \subseteq InNet(h)',
         \A g \in Hubs \ {h} : InNet(g)' = InNet(g) /\ doc'[g] = doc[g]
                               /\ dropped'[g] = dropped[g],
         DocGrows(h), doc'[h].resident => doc[h].resident,
         dropped[h] \subseteq dropped'[h],
         StillExplained(h, m.delta)
  PROVE  StaleInv'
<1> SUFFICES ASSUME NEW g \in Hubs PROVE OwnOf(g)' /\ LackOf(g)'
  BY DEF StaleInv
<1>1. OwnOf(g) /\ LackOf(g) /\ DocOf(g)
  BY DEF StaleInv, DocInv
<1>2. DocGrows(g) /\ InNet(g)' \subseteq InNet(g)
  BY DEF DocGrows
<1>3. OwnOf(g)'
  BY <1>1, <1>2, OwnKept
<1>4. ASSUME NEW e \in committed, Explained(g, e)
      PROVE  StillExplained(g, e)
  <2>1. CASE g = h /\ e = m.delta
    BY <2>1
  <2>2. CASE Travelling(g, e) /\ ~(g = h /\ e = m.delta)
    <3>1. PICK w \in InNet(g) : w.delta = e
      BY <2>2, TravelsInNet
    <3>2. w \in InNet(g)'
      BY <2>2, <3>1
    <3> QED
      BY <3>1, <3>2 DEF InNet, StillExplained
  <2>3. CASE Publishing(e)
    BY <2>3 DEF Publishing, StillExplained
  <2>4. CASE e \in dropped[g]
    BY <2>4 DEF StillExplained
  <2> QED
    BY <1>4, <2>1, <2>2, <2>3, <2>4 DEF Explained
<1>5. LackOf(g)'
  <2>1. doc'[g].resident => doc[g].resident
    OBVIOUS
  <2>2. doc[g].content \subseteq doc'[g].content
    BY <1>2 DEF DocGrows
  <2> QED
    BY <1>1, <1>4, <2>1, <2>2, LackKept
<1> QED
  BY <1>3, <1>5

LEMMA ReceiveStale ==
  ASSUME TypeInv, DocInv, StaleInv, NEW h \in Hubs, Receive(h)
  PROVE  StaleInv'
<1>0. PICK i \in Positions(h) : OwnMessage(h, i) \/ SeenMessage(h, i) \/ RemoteUpdate(h, i)
  BY DEF Receive
<1> DEFINE m == net[h][i]
<1>1. i \in DOMAIN net[h] /\ m \in InNet(h)
  BY PositionInNet, InNetMessage
<1>2. OwnOf(h) /\ DocOf(h)
  BY DEF StaleInv, DocInv
<1>3. CASE OwnMessage(h, i)
  <2>1. /\ UNCHANGED <<file, committed, req, load, doc, dropped>> /\ m.origin = h
        /\ net' = [net EXCEPT ![h] = RemoveAt(@, i)]
    BY <1>3 DEF OwnMessage, store
  <2>2. StillExplained(h, m.delta) /\ DocGrows(h)
    BY <1>1, <1>2, <2>1 DEF OwnOf, StillExplained, DocGrows
  <2> HIDE DEF m
  <2> QED
    BY <1>1, <2>1, <2>2, Removed, MessageStale DEF m
<1>4. CASE SeenMessage(h, i)
  <2>1. /\ UNCHANGED <<file, committed, req, load, doc>>
        /\ dropped' = [dropped EXCEPT ![h] = @ \cup ({m.delta} \ doc[h].content)]
        /\ Handover(h, i)
    BY <1>4 DEF SeenMessage, store
  <2> HIDE DEF m
  <2>2. /\ dropped'[h] = dropped[h] \cup ({m.delta} \ doc[h].content)
        /\ \A g \in Hubs \ {h} : dropped'[g] = dropped[g]
    BY <2>1 DEF TypeInv
  <2>3. StillExplained(h, m.delta) /\ DocGrows(h)
    BY <1>2, <2>1, <2>2 DEF DocOf, StillExplained, DocGrows
  <2> QED
    BY <1>1, <2>1, <2>2, <2>3, HandedOver, MessageStale DEF m
<1>5. CASE RemoteUpdate(h, i)
  <2>1. /\ UNCHANGED <<file, committed, req, load>>
        /\ doc' = IF doc[h].resident
                  THEN [doc EXCEPT ![h].content = @ \cup {m.delta}] ELSE doc
        /\ dropped' = IF load[h].stage = "none" THEN dropped
                      ELSE [dropped EXCEPT ![h] = @ \cup ({m.delta} \ load[h].content)]
        /\ Handover(h, i)
    BY <1>5 DEF RemoteUpdate, store
  <2> HIDE DEF m
  <2>2. /\ dropped'[h] = IF load[h].stage = "none" THEN dropped[h]
                         ELSE dropped[h] \cup ({m.delta} \ load[h].content)
        /\ \A g \in Hubs \ {h} : dropped'[g] = dropped[g]
    BY <2>1 DEF TypeInv
  <2>3. /\ doc'[h].resident = doc[h].resident
        /\ doc'[h].content = IF doc[h].resident THEN doc[h].content \cup {m.delta}
                             ELSE doc[h].content
        /\ \A g \in Hubs \ {h} : doc'[g] = doc[g]
    BY <2>1 DEF TypeInv, Doc
  <2>4. StillExplained(h, m.delta) /\ DocGrows(h)
    BY <2>2, <2>3 DEF StillExplained, DocGrows
  <2> QED
    BY <1>1, <2>1, <2>2, <2>3, <2>4, HandedOver, MessageStale DEF m
<1> QED
  BY <1>0, <1>3, <1>4, <1>5

LEMMA LoseStale ==
  ASSUME TypeInv, DocInv, StaleInv, NEW h \in Hubs, Lose(h)
  PROVE  StaleInv'
<1>1. PICK i \in Positions(h) :
        /\ net' = [net EXCEPT ![h] = RemoveAt(@, i)]
        /\ dropped' = [dropped EXCEPT ![h] = @ \cup ({net[h][i].delta} \ doc[h].content)]
  BY DEF Lose
<1> DEFINE m == net[h][i]
<1>2. i \in DOMAIN net[h] /\ m \in InNet(h)
  BY PositionInNet, InNetMessage
<1>3. UNCHANGED <<file, committed, req, load, doc>>
  BY DEF Lose, store
<1> HIDE DEF m
<1>4. /\ dropped'[h] = dropped[h] \cup ({m.delta} \ doc[h].content)
      /\ \A g \in Hubs \ {h} : dropped'[g] = dropped[g]
  BY <1>1 DEF TypeInv, m
<1>5. DocOf(h)
  BY DEF DocInv
<1>6. StillExplained(h, m.delta) /\ DocGrows(h)
  BY <1>3, <1>4, <1>5 DEF DocOf, StillExplained, DocGrows
<1> QED
  BY <1>1, <1>2, <1>3, <1>4, <1>6, Removed, MessageStale DEF m

LEMMA RestartStale ==
  ASSUME TypeInv, DocInv, StaleInv, NEW h \in Hubs, Restart(h)
  PROVE  StaleInv'
<1> SUFFICES ASSUME NEW g \in Hubs PROVE OwnOf(g)' /\ LackOf(g)'
  BY DEF StaleInv
<1>1. OwnOf(g) /\ LackOf(g) /\ DocOf(g)
  BY DEF StaleInv, DocInv
<1>2. CASE g = h
  <2>1. InNet(h)' = {} /\ ~doc'[h].resident /\ load'[h].stage = "none"
    BY RestartEffect DEF NoDoc, NoLoad
  <2> QED
    BY <1>2, <2>1 DEF OwnOf, LackOf
<1>3. CASE g # h
  <2>1. /\ doc'[g] = doc[g] /\ load'[g] = load[g] /\ net'[g] = net[g]
        /\ InNet(g)' = InNet(g) /\ UNCHANGED <<file, committed>>
        /\ \A c \in Clients : req'[c] = IF Home[c] = h THEN Idle ELSE req[c]
    BY <1>3, RestartEffect
  <2>2. dropped'[g] = dropped[g] \cup (Unpublished(h) \ doc[g].content)
    BY <1>3 DEF Restart
  <2>3. ASSUME NEW d \in committed, Explained(g, d)
        PROVE  StillExplained(g, d)
    <3>1. CASE Publishing(d)
      <4>1. PICK c \in Clients : req[c].delta = d /\ req[c].pc \in {"snapshot", "fanout"}
        BY <3>1 DEF Publishing
      <4>2. CASE Home[c] = h
        <5>1. d \in Unpublished(h)
          BY <4>1, <4>2 DEF Unpublished
        <5>2. d \in dropped'[g] \/ d \in doc[g].content
          BY <2>2, <5>1
        <5> QED
          BY <1>1, <2>1, <5>2 DEF DocOf, StillExplained
      <4>3. CASE Home[c] # h
        BY <2>1, <4>1, <4>3 DEF StillExplained
      <4> QED
        BY <4>2, <4>3
    <3>2. CASE Travelling(g, d)
      BY <2>1, <3>2 DEF Travelling, StillExplained
    <3>3. CASE d \in dropped[g]
      BY <2>2, <3>3 DEF StillExplained
    <3> QED
      BY <2>3, <3>1, <3>2, <3>3 DEF Explained
  <2>4. LackOf(g)'
    BY <1>1, <2>1, <2>3, LackKept
  <2>5. OwnOf(g)'
    BY <1>1, <2>1 DEF OwnOf
  <2> QED
    BY <2>4, <2>5
<1> QED
  BY <1>2, <1>3

----------------------------------------------------------------------------
(* The invariant.                                                          *)

LEMMA Initially == Init => IInv
<1> SUFFICES ASSUME Init PROVE IInv
  OBVIOUS
<1>0. TypeInv
  BY InitType
<1>1. /\ \A h \in Hubs : InNet(h) = {} /\ doc[h] = NoDoc /\ load[h] = NoLoad
                         /\ remoteSeen[h] = 0 /\ lock[h] = None
      /\ \A c \in Clients : req[c] = Idle /\ \A d \in Delta : frames[c][d] = 0
      /\ open = {} /\ synced = {} /\ nextSeq = 1
  BY DEF Init, InNet
<1>2. file.seq = 0 /\ file.state = {} /\ file.updates = {} /\ committed = {}
  BY DEF Init, EmptyFile
<1>3. WriteInv
  BY <1>1, HomeIsHub, ClusterAssumption DEF WriteInv, WriteOf, Writes, Idle
<1>4. DocInv
  BY <1>1 DEF DocInv, DocOf, ReaderOf, NoDoc, NoLoad, Idle
<1>5. SeqInv
  BY <1>1, <1>2 DEF SeqInv, HubSeqs, NoDoc, Idle
<1>6. NetInv /\ FrameInv
  BY <1>1 DEF NetInv, NetOf, FrameInv, FrameOf
<1>7. MirrorInv
  BY <1>1 DEF MirrorInv, MirrorOf
<1>8. LogInv
  BY <1>1, <1>2 DEF LogInv, Idle
<1>9. StaleInv
  BY <1>1, <1>2 DEF StaleInv, OwnOf, LackOf, NoDoc, NoLoad
<1> QED
  BY <1>0, <1>3, <1>4, <1>5, <1>6, <1>7, <1>8, <1>9 DEF IInv

LEMMA Stuttering == IInv /\ UNCHANGED vars => IInv'
<1> SUFFICES ASSUME IInv, UNCHANGED vars PROVE IInv'
  OBVIOUS
<1>1. UNCHANGED <<file, nextSeq, doc, load, remoteSeen, lock, req, open, net, sent,
                  faults, got, synced, frames, committed, dropped>>
  BY DEF vars
<1>2. TypeInv' /\ WriteInv' /\ DocInv'
  BY <1>1 DEF IInv, TypeInv, WriteInv, WriteOf, DocInv, DocOf, ReaderOf
<1>3. \A h \in Hubs : InNet(h)' = InNet(h)
  BY <1>1 DEF InNet
<1>4. SeqInv' /\ LogInv'
  BY <1>1, <1>3 DEF IInv, SeqInv, HubSeqs, LogInv
<1>5. NetInv' /\ FrameInv'
  BY <1>1, <1>3, HomeIsHub DEF IInv, NetInv, NetOf, FrameInv, FrameOf, Done
<1>6. MirrorInv'
  BY <1>1 DEF IInv, MirrorInv, MirrorOf, InHand
<1>7. StaleInv'
  <2>1. \A h \in Hubs : OwnOf(h)'
    BY <1>1, <1>3 DEF IInv, StaleInv, OwnOf
  <2>2. \A h \in Hubs : LackOf(h)'
    BY <1>1 DEF IInv, StaleInv, LackOf, Explained, Publishing, Travelling
  <2> QED
    BY <2>1, <2>2 DEF StaleInv
<1> QED
  BY <1>2, <1>4, <1>5, <1>6, <1>7 DEF IInv

LEMMA Inductive == IInv /\ [Next]_vars => IInv'
<1> SUFFICES ASSUME IInv, Next PROVE IInv'
  BY Stuttering
<1> USE DEF IInv
<1>1. NetInv' /\ FrameInv' /\ LogInv'
  BY OnceStep, LogStep
<1>2. ASSUME NEW h \in Hubs, Loading(h)
      PROVE  IInv'
  <2>1. TypeInv' /\ WriteInv' /\ DocInv' /\ SeqInv' /\ MirrorInv'
    BY <1>2, LoadingType, LoadingDocs, LoadingSeq, LoadingMirror
  <2>2. StaleInv'
    BY <1>2, QueryStale, InstallStale DEF Loading
  <2> QED
    BY <1>1, <2>1, <2>2
<1>3. ASSUME NEW c \in Clients, Open(c) \/ Sync1(c) \/ Answer(c)
      PROVE  IInv'
  BY <1>1, <1>3, ReadingType, ReadingDocs, ClientSeq, ReadingMirror, QuietStale
<1>4. ASSUME NEW c \in Clients, Update(c)
      PROVE  IInv'
  BY <1>1, <1>4, UpdateType, UpdateDocs, ClientSeq, UpdateMirror, QuietStale
<1>5. ASSUME NEW c \in Clients, Writing(c)
      PROVE  IInv'
  <2>1. TypeInv' /\ WriteInv' /\ DocInv'
    BY <1>5, WritingType, WritingDocs
  <2>2. SeqInv'
    BY <1>5, ClientSeq, AppendSeq, SnapshotSeq, FanOutSeq DEF Writing
  <2>3. MirrorInv'
    BY <1>5, ApplyMirror, LoggingMirror, FanOutMirror DEF Writing
  <2>4. StaleInv'
    BY <1>5, QuietStale, AppendStale, FanOutStale DEF Writing
  <2> QED
    BY <1>1, <2>1, <2>2, <2>3, <2>4
<1>6. ASSUME NEW h \in Hubs, Receive(h) \/ Lose(h)
      PROVE  IInv'
  BY <1>1, <1>6, ReceiveType, LoseType, NetDocs, NetSeq, NetMirror, ReceiveStale, LoseStale
<1>7. ASSUME NEW h \in Hubs, Restart(h)
      PROVE  IInv'
  BY <1>1, <1>7, RestartType, RestartDocs, RestartSeq, RestartMirror, RestartStale
<1> QED
  BY <1>2, <1>3, <1>4, <1>5, <1>6, <1>7 DEF Next

LEMMA Always == Spec => []IInv
  BY Initially, Inductive, PTL DEF Spec

\* The variables keep their types, a lock its one holder, a load is of no
\* resident document, and no hub knows a seq to come.
THEOREM TypeCorrect == Spec => []TypeOK
<1>1. IInv => TypeOK
  <2> SUFFICES ASSUME IInv PROVE TypeOK
    OBVIOUS
  <2>1. \A c \in Clients : sent[c] \in 0 .. MaxSends[c]
    BY ClusterAssumption DEF IInv, TypeInv
  <2>2. \A c \in Clients : req[c].pc \in Writes <=> lock[Home[c]] = c
    BY DEF IInv, WriteInv, WriteOf
  <2>3. \A h \in Hubs : load[h].stage # "none" => ~doc[h].resident
    BY DEF IInv, DocInv, DocOf
  <2>4. \A h \in Hubs : doc[h].lastSeq < nextSeq /\ remoteSeen[h] < nextSeq
    BY DEF IInv, SeqInv, HubSeqs
  <2>5. TypeInv
    BY DEF IInv
  <2> QED
    BY <2>1, <2>2, <2>3, <2>4, <2>5 DEF TypeOK, TypeInv, Doc, Load, Request
<1> QED
  BY <1>1, Always, PTL

\* Whatever the broker repeats or reorders and whichever hubs restart, no
\* client is sent an update frame of a delta twice, or of one it made.
THEOREM SentOnce == Spec => []FannedOnce
<1>1. IInv => FannedOnce
  BY DEF IInv, FrameInv, FrameOf, FannedOnce
<1> QED
  BY <1>1, Always, PTL

\* When no write is under way at its hub, a synced client holds all that the
\* hub's document holds, of this hub or another.
THEOREM MirrorsHold == Spec => []ClientsMirrorHub
<1>1. IInv => ClientsMirrorHub
  <2> SUFFICES ASSUME IInv, NEW c \in synced, lock[Home[c]] = None
               PROVE  doc[Home[c]].content \subseteq got[c]
    BY DEF ClientsMirrorHub
  <2>1. InHand(Home[c]) = {}
    BY ClusterAssumption DEF InHand
  <2>2. c \in Clients
    BY DEF IInv, TypeInv
  <2> QED
    BY <2>1, <2>2 DEF IInv, MirrorInv, MirrorOf
<1> QED
  BY <1>1, Always, PTL

----------------------------------------------------------------------------
(* Until the first compaction.                                             *)

LEMMA StoredIsLog ==
  ASSUME IInv, file.seq = 0
  PROVE  Stored = committed
<1>1. LogTail(file) = file.updates
  BY DEF IInv, SeqInv, TypeInv, File, LogTail
<1> QED
  BY <1>1 DEF Stored, Loaded, IInv, LogInv

\* As long as no hub has compacted the note, a resident document that lacks
\* a stored delta will be brought it, or the loss is one that is known.
THEOREM StaleIsExplained == Spec => [](file.seq = 0 => StaleExplained)
<1>1. IInv => (file.seq = 0 => StaleExplained)
  <2> SUFFICES ASSUME IInv, file.seq = 0 PROVE StaleExplained
    OBVIOUS
  <2> QED
    BY StoredIsLog DEF StaleExplained, IInv, StaleInv, LackOf, Explained
<1> QED
  BY <1>1, Always, PTL

\* And what was committed is what a load returns.
THEOREM LogIsStored == Spec => [](file.seq = 0 => CommittedIsStored)
<1>1. IInv => (file.seq = 0 => CommittedIsStored)
  BY StoredIsLog DEF CommittedIsStored
<1> QED
  BY <1>1, Always, PTL

----------------------------------------------------------------------------
(* The refinement of NoteLog.                                              *)

Shown == {d \in Delta : \E c \in Clients : frames[c][d] > 0}

LEMMA ShownGrows ==
  ASSUME TypeInv, NEW cs \in SUBSET Clients, NEW d \in Delta, FanTo(cs, d)
  PROVE  Shown' = Shown \/ Shown' = Shown \cup {d}
<1>1. /\ frames \in [Clients -> [Delta -> Nat]]
      /\ frames' = [c \in Clients |->
           IF c \in cs THEN [frames[c] EXCEPT ![d] = @ + 1] ELSE frames[c]]
  BY DEF TypeInv, FanTo
<1>2. \A c \in Clients, e \in Delta :
        frames'[c][e] = IF c \in cs /\ e = d THEN frames[c][e] + 1 ELSE frames[c][e]
  BY <1>1
<1>3. \A c \in Clients, e \in Delta : frames[c][e] \in Nat
  BY <1>1
<1>4. CASE cs = {}
  BY <1>2, <1>4 DEF Shown
<1>5. CASE cs # {}
  <2>1. PICK c \in cs : TRUE
    BY <1>5
  <2>2. frames'[c][d] > 0
    BY <1>2, <1>3, <2>1
  <2>3. \A e \in Delta \ {d} : e \in Shown' <=> e \in Shown
    BY <1>2 DEF Shown
  <2>4. d \in Shown'
    BY <2>1, <2>2 DEF Shown
  <2> QED
    BY <2>3, <2>4 DEF Shown
<1> QED
  BY <1>4, <1>5

\* A step of the hubs appends one delta to the log, or shows one of the log,
\* or does neither.
LEMMA LogEffect ==
  ASSUME IInv, Next
  PROVE  \/ committed' = committed /\ frames' = frames
         \/ frames' = frames /\ \E d \in Delta : committed' = committed \cup {d}
         \/ /\ committed' = committed
            /\ \E d \in committed : d \in Delta /\ (Shown' = Shown \/ Shown' = Shown \cup {d})
<1> USE DEF IInv
<1>1. ASSUME NEW h \in Hubs, Loading(h) \/ Lose(h) \/ Restart(h)
      PROVE  committed' = committed /\ frames' = frames
  BY <1>1 DEF Loading, QuerySnapshot, QueryTail, Install, Lose, Restart
<1>2. ASSUME NEW c \in Clients,
             Open(c) \/ Sync1(c) \/ Answer(c) \/ Update(c) \/ Apply(c) \/ Snapshot(c)
      PROVE  committed' = committed /\ frames' = frames
  BY <1>2 DEF Open, Sync1, Answer, Opened, Reply, Update, Apply, Snapshot
<1>3. ASSUME NEW c \in Clients, AppendLog(c)
      PROVE  frames' = frames /\ \E d \in Delta : committed' = committed \cup {d}
  BY <1>3 DEF AppendLog, WriteInv, WriteOf, Writes
<1>4. ASSUME NEW c \in Clients, FanOut(c)
      PROVE  /\ committed' = committed
             /\ \E d \in committed : d \in Delta /\ (Shown' = Shown \/ Shown' = Shown \cup {d})
  <2> DEFINE cs == {o \in open \ {c} : Home[o] = Home[c]}
             d == req[c].delta
  <2>1. d \in committed /\ d \in Delta /\ committed' = committed
    BY <1>4 DEF FanOut, LogInv, WriteInv, WriteOf, Writes
  <2>2. cs \in SUBSET Clients /\ FanTo(cs, d)
    BY <1>4 DEF FanOut, TypeInv
  <2> HIDE DEF cs, d
  <2>3. Shown' = Shown \/ Shown' = Shown \cup {d}
    BY <2>1, <2>2, ShownGrows
  <2> QED
    BY <2>1, <2>3
<1>5. ASSUME NEW h \in Hubs, Receive(h)
      PROVE  \/ committed' = committed /\ frames' = frames
             \/ /\ committed' = committed
                /\ \E d \in committed : d \in Delta /\ (Shown' = Shown \/ Shown' = Shown \cup {d})
  <2>0. PICK i \in Positions(h) : OwnMessage(h, i) \/ SeenMessage(h, i) \/ RemoteUpdate(h, i)
    BY <1>5 DEF Receive
  <2>1. CASE OwnMessage(h, i) \/ SeenMessage(h, i)
    BY <2>1 DEF OwnMessage, SeenMessage
  <2>2. CASE RemoteUpdate(h, i)
    <3> DEFINE cs == {o \in open : Home[o] = h}
               d == net[h][i].delta
    <3>1. d \in committed /\ d \in Delta /\ committed' = committed
      BY <2>2, PositionInNet, InNetMessage, MessageFields DEF RemoteUpdate, LogInv
    <3>2. cs \in SUBSET Clients /\ FanTo(cs, d)
      BY <2>2 DEF RemoteUpdate, TypeInv
    <3> HIDE DEF cs, d
    <3>3. Shown' = Shown \/ Shown' = Shown \cup {d}
      BY <3>1, <3>2, ShownGrows
    <3> QED
      BY <3>1, <3>3
  <2> QED
    BY <2>0, <2>1, <2>2
<1> QED
  BY <1>1, <1>2, <1>3, <1>4, <1>5 DEF Next, Writing

\* Over a log that no hub compacts, the hubs together implement the note of
\* one hub: it grows by accepted deltas, and no client is shown another.
THEOREM HubsImplementLog == Spec /\ [](file.seq = 0) => LogSpec
<1> DEFINE Shows == [k \in {"note"} |-> Shown]
           Holds == [k \in {"note"} |-> Stored]
<1>1. Init => Log!Init
  <2> SUFFICES ASSUME Init PROVE Log!Init
    OBVIOUS
  <2>1. Stored = {}
    BY DEF Init, EmptyFile, Stored, Loaded, LogTail
  <2>2. {d \in Delta : \E c \in Clients : frames[c][d] > 0} = {}
    BY DEF Init
  <2> QED
    BY <2>1, <2>2 DEF Log!Init
<1>2. IInv /\ file.seq = 0 => Stored = committed
  BY StoredIsLog
<1>3. (IInv /\ file.seq = 0 => Stored = committed)'
  BY <1>2, PTL
<1>4. IInv /\ IInv' /\ file.seq = 0 /\ (file.seq = 0)' /\ [Next]_vars => [Log!Next]_(Log!vars)
  <2> SUFFICES ASSUME IInv, IInv', file.seq = 0, file'.seq = 0, [Next]_vars
               PROVE  [Log!Next]_(Log!vars)
    OBVIOUS
  <2>1. Stored = committed /\ Stored' = committed'
    BY <1>2, <1>3
  <2>2. \/ Stored' = Stored /\ Shown' = Shown
        \/ Shown' = Shown /\ \E d \in Delta : Stored' = Stored \cup {d}
        \/ Stored' = Stored /\ \E d \in Stored : Shown' = Shown \cup {d} /\ d \in Delta
    <3>1. CASE UNCHANGED vars
      BY <2>1, <3>1 DEF vars, Shown
    <3>2. CASE Next
      <4>1. frames' = frames => Shown' = Shown
        BY DEF Shown
      <4> QED
        BY <2>1, <3>2, <4>1, LogEffect
    <3> QED
      BY <3>1, <3>2
  <2>3. CASE Stored' = Stored /\ Shown' = Shown
    BY <2>3 DEF Log!vars, Shown
  <2>4. CASE Shown' = Shown /\ \E d \in Delta : Stored' = Stored \cup {d}
    <3>1. PICK d \in Delta : Stored' = Stored \cup {d}
      BY <2>4
    <3>2. Log!Accept("note", d)
      <4>1. Holds' = [Holds EXCEPT !["note"] = @ \cup {d}]
        BY <3>1
      <4>2. Shows' = Shows
        BY <2>4
      <4> QED
        BY <4>1, <4>2 DEF Log!Accept, Shown
    <3> QED
      BY <3>2 DEF Log!Next
  <2>5. CASE Stored' = Stored /\ \E d \in Stored : Shown' = Shown \cup {d} /\ d \in Delta
    <3>1. PICK d \in Stored : Shown' = Shown \cup {d} /\ d \in Delta
      BY <2>5
    <3>2. Log!Show("note", d)
      <4>1. Shows' = [Shows EXCEPT !["note"] = @ \cup {d}]
        BY <3>1
      <4>2. Holds' = Holds /\ d \in Holds["note"]
        BY <2>5
      <4> QED
        BY <4>1, <4>2 DEF Log!Show, Shown
    <3> QED
      BY <3>1, <3>2 DEF Log!Next
  <2> QED
    BY <2>2, <2>3, <2>4, <2>5
<1> QED
  BY <1>1, <1>4, Always, PTL DEF Spec, LogSpec, Log!Spec

----------------------------------------------------------------------------
(* Logs too short to be compacted.  A hub counts its appends since it has  *)
(* the document, and there are no more of them than deltas.                *)

Short == IsFiniteSet(Delta) /\ Cardinality(Delta) < SnapshotEvery

AtSnapshot(h) == \E c \in Clients : Home[c] = h /\ req[c].pc = "snapshot"
Unlogged(c) == req[c].pc \in {"apply", "append"}

\* What is in the log was sent before, and is not what someone is to append.
Past(d) == d.n <= sent[d.by] /\ (Unlogged(d.by) => d # req[d.by].delta)

CountOf(h) ==
  /\ doc[h].sinceSnap <= Cardinality(committed)
  /\ AtSnapshot(h) => doc[h].sinceSnap + 1 <= Cardinality(committed)

CountInv ==
  /\ file.seq = 0
  /\ \A d \in committed : Past(d)
  /\ \A h \in Hubs : CountOf(h)

LEMMA CommittedFinite ==
  ASSUME Short, TypeInv
  PROVE  /\ IsFiniteSet(committed) /\ Cardinality(committed) \in Nat
         /\ Cardinality(committed) < SnapshotEvery
<1>1. IsFiniteSet(committed) /\ Cardinality(committed) <= Cardinality(Delta)
  BY FS_Subset DEF Short, TypeInv
<1>2. Cardinality(committed) \in Nat /\ Cardinality(Delta) \in Nat
  BY <1>1, FS_CardinalityType DEF Short
<1> QED
  BY <1>1, <1>2, ClusterAssumption DEF Short

\* Steps that log nothing and bring no handler to its snapshot.
LEMMA CountKept ==
  ASSUME Short, TypeInv, CountInv, file'.seq = file.seq, committed' = committed,
         \A c \in Clients : sent[c] <= sent'[c] /\ sent'[c] \in Nat,
         \A c \in Clients : Unlogged(c)' =>
           \/ Unlogged(c) /\ req'[c].delta = req[c].delta
           \/ req'[c].delta.n = sent[c] + 1,
         \A h \in Hubs : /\ doc'[h].sinceSnap = doc[h].sinceSnap \/ doc'[h].sinceSnap = 0
                         /\ AtSnapshot(h)' => AtSnapshot(h)
  PROVE  CountInv'
<1>1. ASSUME NEW d \in committed PROVE Past(d)'
  <2>1. /\ d.by \in Clients /\ d.n \in Nat /\ Past(d) /\ sent[d.by] \in Nat
    BY DeltaFields, ClusterAssumption DEF TypeInv, CountInv
  <2>2. d.n <= sent'[d.by]
    BY <2>1 DEF Past
  <2>3. Unlogged(d.by)' => d # req'[d.by].delta
    BY <2>1 DEF Past
  <2> QED
    BY <2>2, <2>3 DEF Past
<1>2. ASSUME NEW h \in Hubs PROVE CountOf(h)'
  <2>1. CountOf(h) /\ doc[h].sinceSnap \in Nat
    BY DEF CountInv, TypeInv, Doc
  <2>2. CASE doc'[h].sinceSnap = doc[h].sinceSnap
    BY <2>1, <2>2 DEF CountOf
  <2>3. CASE doc'[h].sinceSnap = 0
    BY <2>1, <2>3, CommittedFinite DEF CountOf
  <2> QED
    BY <2>2, <2>3
<1> QED
  BY <1>1, <1>2 DEF CountInv

LEMMA ContentOnly ==
  ASSUME TypeInv, NEW h \in Hubs, NEW s, doc' = doc \/ doc' = [doc EXCEPT ![h].content = s]
  PROVE  \A g \in Hubs : doc'[g].sinceSnap = doc[g].sinceSnap
<1>1. doc \in [Hubs -> Doc] /\ doc[h] \in Doc
  BY DEF TypeInv
<1>2. CASE doc' = [doc EXCEPT ![h].content = s]
  <2>1. /\ doc'[h] = [doc[h] EXCEPT !.content = s]
        /\ \A g \in Hubs \ {h} : doc'[g] = doc[g]
    BY <1>1, <1>2
  <2>2. doc'[h].sinceSnap = doc[h].sinceSnap
    BY <1>1, <2>1 DEF Doc
  <2> QED
    BY <2>1, <2>2
<1> QED
  BY <1>2

LEMMA LoadingCount ==
  ASSUME Short, TypeInv, CountInv, NEW h \in Hubs, Loading(h)
  PROVE  CountInv'
<1>1. UNCHANGED <<file, committed, sent, req>>
  BY DEF Loading, QuerySnapshot, QueryTail, Install, store, bounds
<1>2. \A g \in Hubs : doc'[g].sinceSnap = doc[g].sinceSnap \/ doc'[g].sinceSnap = 0
  <2> DEFINE d == [NoDoc EXCEPT !.resident = TRUE, !.content = load[h].content]
  <2>1. d.sinceSnap = 0
    BY DEF NoDoc
  <2>2. doc' = doc \/ doc' = [doc EXCEPT ![h] = d]
    BY DEF Loading, QuerySnapshot, QueryTail, Install
  <2> HIDE DEF d
  <2> QED
    BY <2>1, <2>2 DEF TypeInv
<1>3. \A c \in Clients : sent[c] \in Nat
  BY DEF TypeInv
<1> QED
  BY <1>1, <1>2, <1>3, CountKept DEF Unlogged, AtSnapshot

LEMMA ReadingCount ==
  ASSUME Short, TypeInv, CountInv, NEW c \in Clients, Open(c) \/ Sync1(c) \/ Answer(c)
  PROVE  CountInv'
<1>1. UNCHANGED <<file, committed, sent, doc>>
  BY DEF Open, Sync1, Answer, Opened, Reply, store, bounds
<1>2. \A x \in Clients : req'[x] = req[x] \/ req'[x].pc \in {"opened", "idle", "reply"}
  BY DEF Open, Sync1, Answer, Opened, Reply, Goto, TypeInv, Request
<1>3. \A x \in Clients : sent[x] \in Nat
  BY DEF TypeInv
<1>4. \A x \in Clients : (Unlogged(x)' => Unlogged(x) /\ req'[x].delta = req[x].delta)
                         /\ (req'[x].pc = "snapshot" => req[x].pc = "snapshot")
  BY <1>2 DEF Unlogged
<1> QED
  BY <1>1, <1>3, <1>4, CountKept DEF AtSnapshot

LEMMA UpdateCount ==
  ASSUME Short, TypeInv, CountInv, NEW c \in Clients, Update(c)
  PROVE  CountInv'
<1>1. UNCHANGED <<file, committed, doc>>
  BY DEF Update, store
<1>2. /\ req' = [req EXCEPT ![c] = [pc |-> "apply", delta |-> [by |-> c, n |-> sent[c] + 1]]]
      /\ sent' = [sent EXCEPT ![c] = @ + 1]
  BY DEF Update
<1>3. \A x \in Clients : \/ x # c /\ req'[x] = req[x] /\ sent'[x] = sent[x]
                         \/ /\ x = c /\ req'[x].pc = "apply" /\ req'[x].delta.n = sent[x] + 1
                            /\ sent'[x] = sent[x] + 1
  BY <1>2 DEF TypeInv
<1>4. \A x \in Clients : sent[x] \in Nat
  BY DEF TypeInv
<1> QED
  BY <1>1, <1>3, <1>4, CountKept DEF AtSnapshot, Unlogged

LEMMA QuietWriteCount ==
  ASSUME Short, TypeInv, CountInv, NEW c \in Clients, Apply(c) \/ FanOut(c)
  PROVE  CountInv'
<1>1. UNCHANGED <<file, committed, sent>>
  BY DEF Apply, FanOut, store, bounds
<1>2. \A h \in Hubs : doc'[h].sinceSnap = doc[h].sinceSnap
  <2>1. \/ doc' = doc
        \/ doc' = [doc EXCEPT ![Home[c]].content = @ \cup {req[c].delta}]
    BY DEF Apply, FanOut
  <2> QED
    BY <2>1, HomeIsHub, ContentOnly
<1>3. \A x \in Clients \ {c} : req'[x] = req[x]
  BY DEF Apply, FanOut, Goto, TypeInv
<1>4. /\ Unlogged(c)' => Unlogged(c) /\ req'[c].delta = req[c].delta
      /\ req'[c].pc # "snapshot"
  <2>1. CASE Apply(c)
    <3>1. req'[c].pc = "append" /\ req'[c].delta = req[c].delta
      BY <2>1, GotoRequest DEF Apply
    <3> QED
      BY <2>1, <3>1 DEF Apply, Unlogged
  <2>2. CASE FanOut(c)
    BY <2>2 DEF FanOut, TypeInv, Idle, Unlogged
  <2> QED
    BY <2>1, <2>2
<1>5. \A x \in Clients : /\ Unlogged(x)' => Unlogged(x) /\ req'[x].delta = req[x].delta
                         /\ req'[x].pc = "snapshot" => req[x].pc = "snapshot"
  BY <1>3, <1>4 DEF Unlogged
<1>6. \A x \in Clients : sent[x] \in Nat
  BY DEF TypeInv
<1> QED
  BY <1>1, <1>2, <1>5, <1>6, CountKept DEF AtSnapshot

\* One more delta is in the log, and its hub's handler at the snapshot.
LEMMA AppendCount ==
  ASSUME Short, IInv, CountInv, NEW c \in Clients, AppendLog(c)
  PROVE  CountInv'
<1> DEFINE h == Home[c]
           d == req[c].delta
<1>0. TypeInv /\ WriteOf(c) /\ req[c].pc = "append" /\ req[c].pc \in Writes
  BY DEF AppendLog, IInv, WriteInv, Writes
<1>1. h \in Hubs /\ d \in Delta /\ d.by = c /\ d.n = sent[c]
  <2>1. d = [by |-> c, n |-> sent[c]] /\ d \in Delta
    BY <1>0 DEF WriteOf
  <2> QED
    BY <2>1, HomeIsHub
<1>2. /\ file'.seq = file.seq /\ UNCHANGED sent /\ committed' = committed \cup {d}
      /\ req'[c].pc = "snapshot" /\ \A x \in Clients \ {c} : req'[x] = req[x]
      /\ \A g \in Hubs : doc'[g].sinceSnap = doc[g].sinceSnap
  <2>1. /\ file' = Appended(file, nextSeq, d) /\ UNCHANGED sent /\ committed' = committed \cup {d}
        /\ Goto(c, "snapshot") /\ doc' = [doc EXCEPT ![h].lastSeq = nextSeq]
    BY DEF AppendLog, bounds
  <2>2. file'.seq = file.seq
    BY <1>0, <1>1, <2>1, AppendedTyped DEF TypeInv
  <2>3. req'[c].pc = "snapshot" /\ \A x \in Clients \ {c} : req'[x] = req[x]
    BY <1>0, <2>1, GotoRequest
  <2>4. \A g \in Hubs : doc'[g].sinceSnap = doc[g].sinceSnap
    BY <1>0, <1>1, <2>1 DEF TypeInv, Doc
  <2> QED
    BY <2>1, <2>2, <2>3, <2>4
<1>3. d \notin committed
  BY <1>1 DEF CountInv, Past, Unlogged, AppendLog
<1>4. /\ Cardinality(committed') = Cardinality(committed) + 1 /\ Cardinality(committed) \in Nat
  BY <1>2, <1>3, CommittedFinite, FS_AddElement DEF IInv
<1>5. ASSUME NEW e \in committed' PROVE Past(e)'
  <2>1. CASE e = d
    BY <1>1, <1>2, <2>1 DEF Past, Unlogged, IInv, TypeInv
  <2>2. CASE e # d
    <3>1. Past(e) /\ e.by \in Clients
      BY <1>2, <2>2, DeltaFields DEF CountInv, IInv, TypeInv
    <3> QED
      BY <1>2, <3>1 DEF Past, Unlogged
  <2> QED
    BY <2>1, <2>2
<1>6. ASSUME NEW g \in Hubs PROVE CountOf(g)'
  <2>1. CountOf(g) /\ doc[g].sinceSnap \in Nat
    BY DEF CountInv, IInv, TypeInv, Doc
  <2> QED
    BY <1>2, <1>4, <2>1 DEF CountOf
<1> QED
  BY <1>2, <1>5, <1>6 DEF CountInv

\* The snapshot is not due.
LEMMA SnapshotCount ==
  ASSUME Short, IInv, CountInv, NEW c \in Clients, Snapshot(c)
  PROVE  CountInv'
<1> DEFINE h == Home[c]
<1>1. h \in Hubs /\ req[c].pc = "snapshot" /\ lock[h] = c
  BY HomeIsHub DEF Snapshot, IInv, WriteInv, WriteOf, Writes
<1>2. /\ doc[h].sinceSnap + 1 <= Cardinality(committed) /\ Cardinality(committed) \in Nat
      /\ Cardinality(committed) < SnapshotEvery /\ SnapshotEvery \in Nat
      /\ doc[h].sinceSnap \in Nat
  BY <1>1, CommittedFinite, ClusterAssumption DEF CountInv, CountOf, AtSnapshot, IInv, TypeInv, Doc
<1>3. ~(doc[h].sinceSnap + 1 >= SnapshotEvery)
  BY <1>2
<1>4. /\ UNCHANGED <<file, committed, sent>>
      /\ doc' = [doc EXCEPT ![h].sinceSnap = @ + 1]
      /\ Goto(c, "fanout")
  BY <1>3 DEF Snapshot, bounds
<1>5. /\ req'[c].pc = "fanout" /\ \A x \in Clients \ {c} : req'[x] = req[x]
      /\ doc'[h].sinceSnap = doc[h].sinceSnap + 1
      /\ \A g \in Hubs \ {h} : doc'[g] = doc[g]
  BY <1>1, <1>4, GotoRequest DEF IInv, TypeInv, Doc
<1>6. ASSUME NEW e \in committed PROVE Past(e)'
  <2>1. e.by \in Clients /\ Past(e)
    BY DeltaFields DEF CountInv, IInv, TypeInv
  <2> QED
    BY <1>4, <1>5, <2>1 DEF Past, Unlogged
<1>7. ~AtSnapshot(h)'
  <2>1. \A x \in Clients \ {c} : Home[x] = h => req[x].pc # "snapshot"
    BY <1>1 DEF IInv, WriteInv, WriteOf, Writes
  <2> QED
    BY <1>5, <2>1 DEF AtSnapshot
<1>8. ASSUME NEW g \in Hubs PROVE CountOf(g)'
  <2>1. CASE g = h
    BY <1>2, <1>4, <1>5, <1>7, <2>1 DEF CountOf
  <2>2. CASE g # h
    <3>1. AtSnapshot(g)' => AtSnapshot(g)
      BY <1>5, <2>2 DEF AtSnapshot
    <3> QED
      BY <1>4, <1>5, <2>2, <3>1 DEF CountInv, CountOf
  <2> QED
    BY <2>1, <2>2
<1> QED
  BY <1>4, <1>6, <1>8 DEF CountInv

LEMMA NetCount ==
  ASSUME Short, TypeInv, CountInv, NEW h \in Hubs, Receive(h) \/ Lose(h)
  PROVE  CountInv'
<1>1. UNCHANGED <<file, committed, sent, req>>
  BY DEF Receive, OwnMessage, SeenMessage, RemoteUpdate, Lose, store, bounds
<1>2. \A g \in Hubs : doc'[g].sinceSnap = doc[g].sinceSnap
  <2>1. PICK s : doc' = doc \/ doc' = [doc EXCEPT ![h].content = s]
    BY DEF Receive, OwnMessage, SeenMessage, RemoteUpdate, Lose
  <2> QED
    BY <2>1, ContentOnly
<1>3. \A c \in Clients : sent[c] \in Nat
  BY DEF TypeInv
<1> QED
  BY <1>1, <1>2, <1>3, CountKept DEF Unlogged, AtSnapshot

LEMMA RestartCount ==
  ASSUME Short, TypeInv, CountInv, NEW h \in Hubs, Restart(h)
  PROVE  CountInv'
<1>1. UNCHANGED <<file, committed, sent>>
  BY DEF Restart, store
<1>2. \A g \in Hubs : doc'[g].sinceSnap = doc[g].sinceSnap \/ doc'[g].sinceSnap = 0
  BY DEF Restart, TypeInv, NoDoc
<1>3. \A c \in Clients : req'[c] = req[c] \/ req'[c] = Idle
  BY DEF Restart
<1>4. \A x \in Clients : (Unlogged(x)' => Unlogged(x) /\ req'[x].delta = req[x].delta)
                         /\ (req'[x].pc = "snapshot" => req[x].pc = "snapshot")
  BY <1>3 DEF Unlogged, Idle
<1>5. \A c \in Clients : sent[c] \in Nat
  BY DEF TypeInv
<1> QED
  BY <1>1, <1>2, <1>4, <1>5, CountKept DEF AtSnapshot

LEMMA CountInductive == Short /\ IInv /\ CountInv /\ [Next]_vars => CountInv'
<1> SUFFICES ASSUME Short, IInv, CountInv, [Next]_vars PROVE CountInv'
  OBVIOUS
<1>0. TypeInv
  BY DEF IInv
<1>1. CASE UNCHANGED vars
  BY <1>1 DEF vars, CountInv, Past, CountOf, Unlogged, AtSnapshot
<1>2. ASSUME NEW c \in Clients, Writing(c) PROVE CountInv'
  BY <1>0, <1>2, QuietWriteCount, AppendCount, SnapshotCount DEF Writing
<1> QED
  BY <1>0, <1>1, <1>2, LoadingCount, ReadingCount, UpdateCount, NetCount, RestartCount DEF Next

LEMMA CountInitially == Init => CountInv
<1> SUFFICES ASSUME Init PROVE CountInv
  OBVIOUS
<1>1. Cardinality(committed) = 0
  BY FS_EmptySet DEF Init
<1>2. \A h \in Hubs : CountOf(h)
  BY <1>1 DEF Init, NoDoc, CountOf, AtSnapshot, Idle
<1> QED
  BY <1>2 DEF Init, EmptyFile, CountInv

\* While there are fewer deltas than commits between two snapshots, no hub
\* compacts the log, and the three hold without condition: a stale document
\* will be brought what it lacks, what was committed is what a load returns,
\* and the hubs together implement the abstract note.
THEOREM ShortLogsAreSafe ==
  ASSUME Short
  PROVE  Spec => []StaleExplained /\ []CommittedIsStored /\ LogSpec
<1>1. Spec => []CountInv
  BY Always, CountInitially, CountInductive, PTL DEF Spec
<1>2. CountInv => file.seq = 0
  BY DEF CountInv
<1> QED
  BY <1>1, <1>2, StaleIsExplained, LogIsStored, HubsImplementLog, PTL

=============================================================================
