---------------------------- MODULE HubDoc_proofs ----------------------------
(***************************************************************************)
(* Theorems about HubDoc, for every number of notes and clients, every     *)
(* quota, cache size and workload, and what they rest on.                  *)
(***************************************************************************)
EXTENDS HubDoc, SequenceTheorems, FiniteSetTheorems, TLAPS

----------------------------------------------------------------------------
(* The order of the resident keys.                                         *)

\* A key occurs once: lru is the key order of a Map.
Once(order) == \A i, j \in DOMAIN order : order[i] = order[j] => i = j

\* Map.delete leaves a sequence of the other keys.
LEMMA WithoutIsSeq ==
  ASSUME NEW S, NEW s \in Seq(S), NEW k
  PROVE  Without(s, k) \in Seq(S)
<1> DEFINE p == CHOOSE i \in DOMAIN s : s[i] = k
<1>1. CASE \E i \in DOMAIN s : s[i] = k
  <2>1. p \in 1 .. Len(s)
    BY <1>1
  <2>3. Without(s, k) = SubSeq(s, 1, p - 1) \o SubSeq(s, p + 1, Len(s))
    BY <1>1 DEF Without, RemoveAt
  <2> HIDE DEF p
  <2>2. /\ SubSeq(s, 1, p - 1) \in Seq(S)
        /\ SubSeq(s, p + 1, Len(s)) \in Seq(S)
    BY <2>1, SubSeqProperties
  <2> QED
    BY <2>2, <2>3
<1>2. CASE ~\E i \in DOMAIN s : s[i] = k
  BY <1>2 DEF Without
<1> QED
  BY <1>1, <1>2

\* Where the elements of the shorter sequence come from.
LEMMA WithoutElement ==
  ASSUME NEW S, NEW s \in Seq(S), NEW p \in 1 .. Len(s)
  PROVE  LET t == SubSeq(s, 1, p - 1) \o SubSeq(s, p + 1, Len(s)) IN
         /\ Len(t) = Len(s) - 1
         /\ \A i \in 1 .. Len(t) : t[i] = IF i < p THEN s[i] ELSE s[i + 1]
<1> DEFINE a == SubSeq(s, 1, p - 1)
           b == SubSeq(s, p + 1, Len(s))
           t == a \o b
<1>1. a \in Seq(S) /\ Len(a) = p - 1 /\ \A i \in 1 .. p - 1 : a[i] = s[i]
  BY SubSeqProperties
<1>2. b \in Seq(S) /\ Len(b) = Len(s) - p /\ \A i \in 1 .. Len(s) - p : b[i] = s[p + i]
  BY SubSeqProperties
<1>3. /\ Len(t) = Len(a) + Len(b)
      /\ \A i \in 1 .. Len(a) + Len(b) :
           t[i] = IF i <= Len(a) THEN a[i] ELSE b[i - Len(a)]
  BY <1>1, <1>2, ConcatProperties
<1> HIDE DEF a, b
<1>4. Len(t) = Len(s) - 1
  BY <1>1, <1>2, <1>3
<1>5. \A i \in 1 .. Len(s) - 1 : t[i] = IF i < p THEN s[i] ELSE s[i + 1]
  <2> TAKE i \in 1 .. Len(s) - 1
  <2>1. CASE i < p
    BY <2>1, <1>1, <1>2, <1>3
  <2>2. CASE ~(i < p)
    <3>1. t[i] = b[i - (p - 1)]
      BY <2>2, <1>1, <1>2, <1>3
    <3>2. i - (p - 1) \in 1 .. Len(s) - p
      BY <2>2
    <3> QED
      BY <2>2, <3>1, <3>2, <1>2
  <2> QED
    BY <2>1, <2>2
<1> QED
  BY <1>4, <1>5 DEF a, b

\* The other keys keep occurring once, and k does not occur.
LEMMA WithoutOnce ==
  ASSUME NEW S, NEW s \in Seq(S), NEW k, Once(s)
  PROVE  /\ Once(Without(s, k))
         /\ \A i \in DOMAIN Without(s, k) :
              /\ Without(s, k)[i] # k
              /\ \E j \in DOMAIN s : Without(s, k)[i] = s[j]
<1> DEFINE p == CHOOSE i \in DOMAIN s : s[i] = k
           t == Without(s, k)
<1>1. CASE \E i \in DOMAIN s : s[i] = k
  <2>1. p \in 1 .. Len(s) /\ s[p] = k
    BY <1>1
  <2>2. t = SubSeq(s, 1, p - 1) \o SubSeq(s, p + 1, Len(s))
    BY <1>1 DEF Without, RemoveAt
  <2> HIDE DEF p
  <2>3. /\ Len(t) = Len(s) - 1
        /\ \A i \in 1 .. Len(t) : t[i] = IF i < p THEN s[i] ELSE s[i + 1]
    BY <2>1, <2>2, WithoutElement
  <2>4. t \in Seq(S)
    BY WithoutIsSeq
  <2>5. DOMAIN t = 1 .. Len(t) /\ DOMAIN s = 1 .. Len(s) /\ Len(s) \in Nat
    BY <2>4
  <2> HIDE DEF t
  <2>6. \A i \in 1 .. Len(t) : t[i] # k /\ \E j \in 1 .. Len(s) : t[i] = s[j]
    BY <2>1, <2>3, <2>5 DEF Once
  <2>7. \A i, j \in 1 .. Len(t) : t[i] = t[j] => i = j
    BY <2>1, <2>3, <2>5 DEF Once
  <2> QED
    BY <2>5, <2>6, <2>7 DEF Once, t
<1>2. CASE ~\E i \in DOMAIN s : s[i] = k
  BY <1>2 DEF Without
<1> QED
  BY <1>1, <1>2

\* The same for a touched key, which ends up last.
LEMMA TouchedOnce ==
  ASSUME NEW S, NEW s \in Seq(S), NEW k \in S, Once(s)
  PROVE  /\ Touched(s, k) \in Seq(S)
         /\ Once(Touched(s, k))
         /\ \A i \in DOMAIN Touched(s, k) :
              \/ Touched(s, k)[i] = k
              \/ \E j \in DOMAIN s : Touched(s, k)[i] = s[j]
<1> DEFINE t == Without(s, k)
<1>1. /\ t \in Seq(S)
      /\ Once(t)
      /\ \A i \in DOMAIN t : t[i] # k /\ \E j \in DOMAIN s : t[i] = s[j]
  BY WithoutIsSeq, WithoutOnce
<1> HIDE DEF t
<1>2. Append(t, k) \in Seq(S) /\ Len(Append(t, k)) = Len(t) + 1
  BY <1>1
<1>3. \A i \in 1 .. Len(t) + 1 : Append(t, k)[i] = IF i = Len(t) + 1 THEN k ELSE t[i]
  BY <1>1
<1>4. Once(Append(t, k))
  BY <1>1, <1>2, <1>3 DEF Once
<1>5. \A i \in DOMAIN Append(t, k) :
        Append(t, k)[i] = k \/ \E j \in DOMAIN s : Append(t, k)[i] = s[j]
  BY <1>1, <1>2, <1>3
<1> QED
  BY <1>2, <1>4, <1>5 DEF Touched, t

----------------------------------------------------------------------------
(* Type correctness.                                                       *)

\* The places a load resumes at, and those that use the document it returned
\* or the one being written.
LoadPlaces == {"opened", "reply", "routed", "apply", "judge", "edit"}
WritePlaces ==
  {"inspect", "judge", "unindex", "append", "index", "snapshot", "fanout"}

\* A handler has in hand what its next step uses.
At(r) == IF r.pc = "wait" THEN r.then ELSE r.pc
HandlerShape(r) ==
  /\ At(r) # "idle" => r.note \in Notes
  /\ At(r) \notin {"idle", "opened", "reply", "purged"} => r.delta \in Delta
  /\ r.pc \in LoadPlaces => r.ref \in Objs
  /\ At(r) \in WritePlaces => r.st \in Objs
  /\ r.pc = "wait" => r.then \in LoadPlaces

\* So has a load.
LoadShape(k) ==
  /\ loading[k].stage \in {"index", "evict", "drop"} => loading[k].obj \in Objs
  /\ loading[k].stage = "drop" => loading[k].victim \in Notes

\* The keys in the order are resident.
OrderShape ==
  /\ Once(lru)
  /\ \A i \in DOMAIN lru : docs[lru[i]] # None

TypeInv ==
  /\ TypeOK
  /\ \A c \in Clients : HandlerShape(req[c])
  /\ \A k \in Notes : LoadShape(k)
  /\ OrderShape

LEMMA InitTypeInv == Init => TypeInv
<1> SUFFICES ASSUME Init PROVE TypeInv
  OBVIOUS
<1> USE HubAssumption DEF Init
<1>1. TypeOK
  <2>1. files \in [Notes -> File(Delta)] /\ nodes \subseteq Notes /\ nextSeq \in Nat \ {0}
    BY DEF File, EmptyFile
  <2>2. docs \in [Notes -> Objs \cup {None}] /\ lru \in Seq(Notes)
    OBVIOUS
  <2>3. heap \in [Objs -> DocState]
    BY DEF DocState, FreshState
  <2>4. loading \in [Notes -> Loads] /\ lock \in [Notes -> Clients \cup {None}]
    BY DEF Loads, NoLoad
  <2>5. req \in [Clients -> Requests]
    BY DEF Requests, IdleReq, Places
  <2>6. /\ open \in [Clients -> SUBSET Notes] /\ sent \in [Clients -> 0 .. MaxSends]
        /\ flushed \subseteq Notes /\ saves \subseteq Saving
    OBVIOUS
  <2>8. stopping \in BOOLEAN
    OBVIOUS
  <2>7. /\ got \in [Clients -> [Notes -> SUBSET Delta]]
        /\ synced \in [Clients -> SUBSET Notes]
        /\ fanned \in [Notes -> SUBSET Delta] /\ denied \subseteq Delta
    OBVIOUS
  <2> QED
    BY <2>1, <2>2, <2>3, <2>4, <2>5, <2>6, <2>7, <2>8 DEF TypeOK
<1>2. \A c \in Clients : HandlerShape(req[c])
  BY DEF HandlerShape, At, IdleReq, LoadPlaces, WritePlaces
<1>3. \A k \in Notes : LoadShape(k)
  BY DEF LoadShape, NoLoad
<1>4. OrderShape
  BY DEF OrderShape, Once
<1> QED
  BY <1>1, <1>2, <1>3, <1>4 DEF TypeInv

----------------------------------------------------------------------------
(* The steps several actions share.                                        *)

\* getDoc by a handler r: the handler is where the load takes it.
LEMMA GetDocShape ==
  ASSUME TypeInv, NEW c \in Clients, NEW r \in Requests, GetDoc(c, r),
         r.note \in Notes, r.pc \in LoadPlaces
  PROVE  /\ req' \in [Clients -> Requests]
         /\ \A x \in Clients \ {c} : req'[x] = req[x]
         /\ req'[c].note = r.note /\ req'[c].delta = r.delta
         /\ req'[c].st = r.st
         /\ \/ req'[c].pc = r.pc /\ req'[c].ref \in Objs
            \/ req'[c].pc = "wait" /\ req'[c].then = r.pc
         /\ At(req'[c]) = At(r)
         /\ lru' \in Seq(Notes)
         /\ flushed' \subseteq Notes /\ stopping' = stopping /\ saves' = saves
         /\ loading' \in [Notes -> Loads]
         /\ docs' = docs => OrderShape'
         /\ \A k \in Notes : LoadShape(k)'
<1> DEFINE k == r.note
<1>0. TypeOK
  BY DEF TypeInv
<1>1. CASE /\ docs[k] # None
           /\ lru' = Touched(lru, k)
           /\ Requeue(k)
           /\ req' = [req EXCEPT ![c] = [r EXCEPT !.ref = docs[k]]]
           /\ UNCHANGED loading
  <2>1. docs[k] \in Objs
    BY <1>0, <1>1 DEF TypeOK
  <2>2. [r EXCEPT !.ref = docs[k]] \in Requests
    BY <2>1 DEF Requests
  <2>3. lru \in Seq(Notes) /\ Once(lru)
    BY <1>0 DEF TypeOK, TypeInv, OrderShape
  <2>4. lru' \in Seq(Notes) /\ (docs' = docs => OrderShape')
    <3>1. /\ lru' \in Seq(Notes)
          /\ Once(lru')
          /\ \A i \in DOMAIN lru' : lru'[i] = k \/ \E j \in DOMAIN lru : lru'[i] = lru[j]
      BY <1>1, <2>3, TouchedOnce
    <3>2. \A j \in DOMAIN lru : docs[lru[j]] # None
      BY DEF TypeInv, OrderShape
    <3> QED
      BY <1>1, <3>1, <3>2 DEF OrderShape, Once
  <2>5. flushed' \subseteq Notes /\ stopping' = stopping /\ saves' = saves
    BY <1>0, <1>1 DEF Requeue, TypeOK
  <2>6. loading' \in [Notes -> Loads] /\ \A x \in Notes : LoadShape(x)'
    BY <1>0, <1>1 DEF TypeOK, TypeInv, LoadShape
  <2>7. req' \in [Clients -> Requests]
    BY <1>0, <1>1, <2>2 DEF TypeOK
  <2>8. /\ \A x \in Clients \ {c} : req'[x] = req[x]
        /\ req'[c] = [r EXCEPT !.ref = docs[k]]
    BY <1>0, <1>1 DEF TypeOK
  <2> QED
    BY <2>1, <2>4, <2>5, <2>6, <2>7, <2>8 DEF Requests, At, LoadPlaces
<1>2. CASE /\ docs[k] = None
           /\ req' = [req EXCEPT ![c] = [r EXCEPT !.pc = "wait", !.then = r.pc]]
           /\ loading' = IF loading[k].stage # "none" THEN loading
                         ELSE [loading EXCEPT ![k] =
                                [NoLoad EXCEPT !.stage = "read",
                                               !.content = Loaded(files[k]),
                                               !.written = ~NeverWritten(files[k])]]
           /\ UNCHANGED <<lru, flushing>>
  <2>1. [r EXCEPT !.pc = "wait", !.then = r.pc] \in Requests
    BY DEF Requests, Places
  <2>2. /\ req' \in [Clients -> Requests]
        /\ \A x \in Clients \ {c} : req'[x] = req[x]
        /\ req'[c] = [r EXCEPT !.pc = "wait", !.then = r.pc]
    BY <1>0, <1>2, <2>1 DEF TypeOK
  <2>3. Loaded(files[k]) \subseteq Delta
    BY <1>0 DEF TypeOK, File, Loaded, LogTail
  <2>4. loading' \in [Notes -> Loads] /\ \A x \in Notes : LoadShape(x)'
    <3> DEFINE new == [NoLoad EXCEPT !.stage = "read", !.content = Loaded(files[k]),
                                     !.written = ~NeverWritten(files[k])]
    <3>1. new \in Loads /\ new.stage = "read"
      BY <2>3 DEF NoLoad, Loads
    <3> HIDE DEF new
    <3>2. loading \in [Notes -> Loads] /\ \A x \in Notes : LoadShape(x)
      BY <1>0 DEF TypeOK, TypeInv
    <3>3. loading' = loading \/ loading' = [loading EXCEPT ![k] = new]
      BY <1>2 DEF new
    <3> QED
      BY <3>1, <3>2, <3>3 DEF LoadShape
  <2>5. lru' \in Seq(Notes) /\ (docs' = docs => OrderShape')
    BY <1>0, <1>2 DEF TypeOK, TypeInv, OrderShape, flushing
  <2>6. flushed' \subseteq Notes /\ stopping' = stopping /\ saves' = saves
    BY <1>0, <1>2 DEF TypeOK, flushing
  <2> QED
    BY <2>2, <2>4, <2>5, <2>6 DEF Requests, At, LoadPlaces
<1> QED
  BY <1>1, <1>2 DEF GetDoc

\* The end of a load: everyone awaiting it has the document it returns.
LEMMA EvictOrResolveShape ==
  ASSUME TypeInv, NEW k \in Notes, NEW o \in Objs, NEW order,
         EvictOrResolve(k, o, order)
  PROVE  /\ loading' \in [Notes -> Loads]
         /\ \A x \in Notes : LoadShape(x)'
         /\ req' \in [Clients -> Requests]
         /\ \A c \in Clients : HandlerShape(req'[c]) /\ At(req'[c]) = At(req[c])
         /\ \A c \in Clients : req'[c].note = req[c].note
<1>0. /\ req \in [Clients -> Requests] /\ loading \in [Notes -> Loads]
      /\ \A c \in Clients : HandlerShape(req[c])
      /\ \A x \in Notes : LoadShape(x)
  BY DEF TypeInv, TypeOK
<1>1. CASE MustEvict(order, k)
  <2> DEFINE new == [loading[k] EXCEPT !.stage = "evict", !.obj = o, !.victim = None]
  <2>1. new \in Loads /\ new.obj = o /\ new.stage = "evict"
    BY <1>0 DEF Loads
  <2> HIDE DEF new
  <2>2. loading' = [loading EXCEPT ![k] = new] /\ req' = req
    BY <1>1 DEF EvictOrResolve, new
  <2> QED
    BY <1>0, <2>1, <2>2 DEF LoadShape
<1>2. CASE ~MustEvict(order, k)
  <2>1. loading' = [loading EXCEPT ![k] = NoLoad] /\ req' = Resume(k, o)
    BY <1>2 DEF EvictOrResolve
  <2>2. NoLoad \in Loads /\ NoLoad.stage = "none"
    BY DEF NoLoad, Loads
  <2>3. loading' \in [Notes -> Loads] /\ \A x \in Notes : LoadShape(x)'
    BY <1>0, <2>1, <2>2 DEF LoadShape
  <2>4. ASSUME NEW c \in Clients
        PROVE  /\ Resume(k, o)[c] \in Requests
               /\ HandlerShape(Resume(k, o)[c])
               /\ At(Resume(k, o)[c]) = At(req[c])
               /\ Resume(k, o)[c].note = req[c].note
    <3> DEFINE r == [req[c] EXCEPT !.pc = req[c].then, !.ref = o]
    <3>1. CASE Awaits(c, k)
      <4>1. Resume(k, o)[c] = r
        BY <3>1 DEF Resume
      <4>2. req[c] \in Requests /\ HandlerShape(req[c]) /\ req[c].pc = "wait"
        BY <1>0, <3>1 DEF Awaits
      <4>3. /\ r \in Requests /\ r.pc = req[c].then /\ r.ref = o /\ r.st = req[c].st
            /\ r.note = req[c].note /\ r.delta = req[c].delta
        BY <4>2 DEF Requests
      <4>4. At(r) = At(req[c])
        BY <4>2, <4>3 DEF At, HandlerShape, LoadPlaces
      <4> HIDE DEF r
      <4>5. HandlerShape(r)
        BY <4>2, <4>3, <4>4 DEF HandlerShape, LoadPlaces
      <4> QED
        BY <4>1, <4>3, <4>4, <4>5
    <3>2. CASE ~Awaits(c, k)
      BY <1>0, <3>2 DEF Resume
    <3> QED
      BY <3>1, <3>2
  <2>5. req' \in [Clients -> Requests]
    BY <2>1, <2>4 DEF Resume
  <2> QED
    BY <2>1, <2>3, <2>4, <2>5
<1> QED
  BY <1>1, <1>2

\* One handler takes a step that leaves it with what it needs.
LEMMA HandlerStep ==
  ASSUME TypeInv, NEW c \in Clients, NEW r \in Requests, HandlerShape(r),
         req' = [req EXCEPT ![c] = r]
  PROVE  /\ req' \in [Clients -> Requests]
         /\ \A x \in Clients : HandlerShape(req'[x])
BY DEF TypeInv, TypeOK

LEMMA IdleShape == IdleReq \in Requests /\ HandlerShape(IdleReq)
BY DEF IdleReq, Requests, Places, HandlerShape, At, LoadPlaces, WritePlaces

LEMMA ReleaseShape ==
  ASSUME TypeInv, NEW c \in Clients, Release(c)
  PROVE  /\ req' \in [Clients -> Requests]
         /\ \A x \in Clients : HandlerShape(req'[x])
         /\ lock' \in [Notes -> Clients \cup {None}]
BY HandlerStep, IdleShape DEF Release, TypeInv, TypeOK

\* A handler moves to a place that needs no more than the one it leaves.
LEMMA GotoShape ==
  ASSUME TypeInv, NEW c \in Clients, NEW pc \in Places \ (LoadPlaces \cup {"wait", "idle"}),
         req[c].pc \notin {"wait", "idle", "opened", "reply", "purged"},
         pc \in WritePlaces => req[c].pc \in WritePlaces,
         Goto(c, pc)
  PROVE  /\ req' \in [Clients -> Requests]
         /\ \A x \in Clients : HandlerShape(req'[x])
<1> DEFINE r == [req[c] EXCEPT !.pc = pc]
<1>1. req[c] \in Requests /\ HandlerShape(req[c])
  BY DEF TypeInv, TypeOK
<1>2. /\ r \in Requests /\ r.pc = pc /\ r.note = req[c].note
      /\ r.delta = req[c].delta /\ r.st = req[c].st
  BY <1>1 DEF Requests
<1>3. req' = [req EXCEPT ![c] = r]
  BY DEF Goto
<1> HIDE DEF r
<1>4. HandlerShape(r)
  BY <1>1, <1>2 DEF HandlerShape, At, LoadPlaces, WritePlaces
<1> QED
  BY <1>2, <1>3, <1>4, HandlerStep

\* A handler loads the document of its note, on its way to a place pc.
LEMMA WithDocShape ==
  ASSUME TypeInv, NEW c \in Clients, NEW r \in Requests, r.pc \in LoadPlaces,
         r.note \in Notes,
         r.pc \in {"routed", "apply", "judge", "edit"} => r.delta \in Delta,
         r.pc = "judge" => r.st \in Objs,
         GetDoc(c, r)
  PROVE  /\ req' \in [Clients -> Requests]
         /\ \A x \in Clients : HandlerShape(req'[x])
<1>1. HandlerShape(req'[c])
  BY GetDocShape DEF HandlerShape, At, LoadPlaces, WritePlaces
<1>2. \A x \in Clients \ {c} : HandlerShape(req'[x])
  BY GetDocShape DEF TypeInv
<1> QED
  BY <1>1, <1>2, GetDocShape

----------------------------------------------------------------------------
(* Every action preserves the type invariant.                              *)

\* Actions outside a load leave the loads alone, but for getDoc.
LEMMA OpenType ==
  ASSUME TypeInv, NEW c \in Clients, NEW k \in Notes, Open(c, k) \/ Sync1(c, k)
  PROVE  TypeInv'
<1> DEFINE Begins(pc) ==
      /\ GetDoc(c, [IdleReq EXCEPT !.pc = pc, !.note = k])
      /\ UNCHANGED <<store, docs, heap, lock, open, sent, seen>>
<1>1. ASSUME NEW pc \in {"opened", "reply"}, Begins(pc)
      PROVE  TypeInv'
  <2> DEFINE r == [IdleReq EXCEPT !.pc = pc, !.note = k]
  <2>1. r \in Requests /\ r.pc = pc /\ r.note = k
    BY DEF IdleReq, Requests, Places
  <2>2. GetDoc(c, r) /\ UNCHANGED <<store, docs, heap, lock, open, sent, seen>>
    BY <1>1
  <2> HIDE DEF r
  <2>3. /\ req' \in [Clients -> Requests]
        /\ \A x \in Clients : HandlerShape(req'[x])
    BY <1>1, <2>1, <2>2, WithDocShape DEF LoadPlaces
  <2>4. /\ lru' \in Seq(Notes) /\ loading' \in [Notes -> Loads]
        /\ flushed' \subseteq Notes /\ stopping' = stopping /\ saves' = saves
        /\ OrderShape' /\ \A x \in Notes : LoadShape(x)'
    BY <1>1, <2>1, <2>2, GetDocShape DEF LoadPlaces
  <2>5. TypeOK'
    BY <2>2, <2>3, <2>4 DEF TypeInv, TypeOK, store, seen
  <2> QED
    BY <2>3, <2>4, <2>5 DEF TypeInv
<1> QED
  BY <1>1 DEF Open, Sync1

LEMMA OpenedType ==
  ASSUME TypeInv, NEW c \in Clients, Opened(c)
  PROVE  TypeInv'
<1>1. /\ req' \in [Clients -> Requests]
      /\ \A x \in Clients : HandlerShape(req'[x])
  BY HandlerStep, IdleShape DEF Opened
<1>2. req[c].note \in Notes
  BY DEF Opened, TypeInv, HandlerShape, At
<1>3. TypeOK'
  BY <1>1, <1>2 DEF Opened, TypeInv, TypeOK, store, cache, flushing, seen
<1> QED
  BY <1>1, <1>3 DEF Opened, TypeInv, LoadShape, OrderShape, Once, cache

LEMMA ReplyType ==
  ASSUME TypeInv, NEW c \in Clients, Reply(c)
  PROVE  TypeInv'
<1>1. /\ req' \in [Clients -> Requests]
      /\ \A x \in Clients : HandlerShape(req'[x])
  BY HandlerStep, IdleShape DEF Reply
<1>2. req[c].note \in Notes /\ req[c].ref \in Objs
  BY DEF Reply, TypeInv, HandlerShape, At, LoadPlaces
<1>3. heap[req[c].ref].content \subseteq Delta
  BY <1>2 DEF TypeInv, TypeOK, DocState
<1>4. TypeOK'
  BY <1>1, <1>2, <1>3 DEF Reply, TypeInv, TypeOK, store, cache, flushing
<1> QED
  BY <1>1, <1>4 DEF Reply, TypeInv, LoadShape, OrderShape, Once, cache

LEMMA NextDeltaType ==
  ASSUME TypeInv, NEW c \in Clients, NEW kind \in Kinds, sent[c] < MaxSends
  PROVE  NextDelta(c, kind) \in Delta /\ sent[c] + 1 \in 0 .. MaxSends
BY HubAssumption DEF TypeInv, TypeOK, NextDelta, Delta

LEMMA UpdateType ==
  ASSUME TypeInv, NEW c \in Clients, NEW k \in Notes, SendUpdate(c, k)
  PROVE  TypeInv'
<1>1. PICK kind \in {"edit", "secret"} :
        Update(c, k, NextDelta(c, kind)) \/ UpdateOverQuota(c, k, NextDelta(c, kind))
  BY DEF SendUpdate
<1> DEFINE d == NextDelta(c, kind)
<1>2. d \in Delta /\ sent[c] + 1 \in 0 .. MaxSends
  BY <1>1, NextDeltaType DEF Update, UpdateOverQuota, Make, Kinds
<1> HIDE DEF d
<1>3. CASE Update(c, k, d)
  <2> DEFINE e == k \in nodes
             r == [IdleReq EXCEPT !.pc = "checked", !.note = k, !.delta = d,
                                  !.existed = e]
  <2>0. e \in BOOLEAN
    OBVIOUS
  <2> HIDE DEF e
  <2>1. r \in Requests
    BY <1>2, <2>0 DEF IdleReq, Requests, Places
  <2>2. r.pc = "checked" /\ r.note = k /\ r.delta = d
    BY DEF IdleReq
  <2>3. req' = [req EXCEPT ![c] = r]
    BY <1>3 DEF Update, e
  <2> HIDE DEF r
  <2>4. HandlerShape(r)
    BY <1>2, <2>2 DEF HandlerShape, At, LoadPlaces, WritePlaces
  <2>5. /\ req' \in [Clients -> Requests]
        /\ \A x \in Clients : HandlerShape(req'[x])
    BY <2>1, <2>3, <2>4, HandlerStep
  <2>6. TypeOK'
    BY <1>2, <1>3, <2>5
    DEF Update, Make, Lock, TypeInv, TypeOK, store, cache, flushing
  <2> QED
    BY <1>3, <2>5, <2>6 DEF Update, TypeInv, LoadShape, OrderShape, Once, cache
<1>4. CASE UpdateOverQuota(c, k, d)
  <2>1. TypeOK'
    BY <1>2, <1>4
    DEF UpdateOverQuota, Make, TypeInv, TypeOK, store, cache, flushing
  <2> QED
    BY <1>4, <2>1 DEF UpdateOverQuota, TypeInv, LoadShape, OrderShape, Once, cache
<1> QED
  BY <1>1, <1>3, <1>4 DEF d

LEMMA HttpType ==
  ASSUME TypeInv, NEW c \in Clients, NEW k \in Notes, Http(c, k)
  PROVE  TypeInv'
<1> DEFINE r(kind) == [IdleReq EXCEPT !.pc = "routed", !.note = k, !.via = "http",
                                      !.delta = NextDelta(c, kind)]
<1>1. PICK kind \in {"patch", "delete"} :
        /\ sent[c] < MaxSends
        /\ sent' = [sent EXCEPT ![c] = @ + 1]
        /\ GetDoc(c, r(kind))
        /\ UNCHANGED <<store, docs, heap, lock, open, seen>>
  BY DEF Http
<1>2. NextDelta(c, kind) \in Delta /\ sent[c] + 1 \in 0 .. MaxSends
  BY <1>1, NextDeltaType DEF Kinds
<1>3. /\ r(kind) \in Requests /\ r(kind).pc = "routed" /\ r(kind).note = k
      /\ r(kind).delta \in Delta
  BY <1>2 DEF IdleReq, Requests, Places
<1> HIDE DEF r
<1>4. /\ req' \in [Clients -> Requests]
      /\ \A x \in Clients : HandlerShape(req'[x])
  BY <1>1, <1>3, WithDocShape DEF LoadPlaces
<1>5. /\ lru' \in Seq(Notes) /\ loading' \in [Notes -> Loads]
      /\ flushed' \subseteq Notes /\ stopping' = stopping /\ saves' = saves
      /\ OrderShape' /\ \A x \in Notes : LoadShape(x)'
  BY <1>1, <1>3, GetDocShape DEF LoadPlaces
<1>6. TypeOK'
  BY <1>1, <1>2, <1>4, <1>5 DEF TypeInv, TypeOK, store, seen
<1> QED
  BY <1>4, <1>5, <1>6 DEF TypeInv

LEMMA LocalLockType ==
  ASSUME TypeInv, NEW c \in Clients, LocalLock(c)
  PROVE  TypeInv'
<1>1. /\ req' \in [Clients -> Requests]
      /\ \A x \in Clients : HandlerShape(req'[x])
  BY GotoShape DEF LocalLock, LoadPlaces, WritePlaces, Places
<1>2. lock' \in [Notes -> Clients \cup {None}]
  BY DEF LocalLock, Lock, TypeInv, TypeOK
<1>3. TypeOK'
  BY <1>1, <1>2 DEF LocalLock, TypeInv, TypeOK, store, cache, flushing, seen
<1> QED
  BY <1>1, <1>3 DEF LocalLock, TypeInv, LoadShape, OrderShape, Once, cache

LEMMA LoadStepType ==
  ASSUME TypeInv, NEW c \in Clients, UpdateLoad(c) \/ Inspect(c) \/ LocalLoad(c)
  PROVE  TypeInv'
<1>1. PICK pc \in {"apply", "judge", "edit"} :
        /\ WithDoc(c, pc)
        /\ UNCHANGED <<store, docs, heap, lock, open, sent, seen>>
        /\ req[c].pc \in {"checked", "inspect", "patch"}
        /\ pc = "judge" => req[c].pc = "inspect"
  BY DEF UpdateLoad, Inspect, LocalLoad
<1> DEFINE r == [req[c] EXCEPT !.pc = pc]
<1>2. req[c] \in Requests /\ HandlerShape(req[c])
  BY DEF TypeInv, TypeOK
<1>3. /\ r \in Requests /\ r.pc = pc /\ r.note = req[c].note
      /\ r.delta = req[c].delta /\ r.st = req[c].st
  BY <1>2 DEF Requests, Places
<1>4. GetDoc(c, r)
  BY <1>1 DEF WithDoc
<1> HIDE DEF r
<1>5. r.note \in Notes /\ r.delta \in Delta /\ (pc = "judge" => r.st \in Objs)
  BY <1>1, <1>2, <1>3 DEF HandlerShape, At, WritePlaces
<1>6. /\ req' \in [Clients -> Requests]
      /\ \A x \in Clients : HandlerShape(req'[x])
  BY <1>3, <1>4, <1>5, WithDocShape DEF LoadPlaces
<1>7. /\ lru' \in Seq(Notes) /\ loading' \in [Notes -> Loads]
      /\ flushed' \subseteq Notes /\ stopping' = stopping /\ saves' = saves
      /\ OrderShape' /\ \A x \in Notes : LoadShape(x)'
  BY <1>1, <1>3, <1>4, <1>5, GetDocShape DEF LoadPlaces
<1>8. TypeOK'
  BY <1>1, <1>6, <1>7 DEF TypeInv, TypeOK, store, seen
<1> QED
  BY <1>6, <1>7, <1>8 DEF TypeInv

LEMMA ApplyType ==
  ASSUME TypeInv, NEW c \in Clients, Apply(c) \/ LocalEdit(c)
  PROVE  TypeInv'
<1> DEFINE st == req[c].ref
           r1 == [req[c] EXCEPT !.pc = "inspect", !.st = st, !.before = PreDeltaState(c)]
           r2 == [req[c] EXCEPT !.pc = "append", !.st = st]
<1>1. req[c] \in Requests /\ HandlerShape(req[c]) /\ req[c].pc \in {"apply", "edit"}
  BY DEF TypeInv, TypeOK, Apply, LocalEdit
<1>2. st \in Objs /\ req[c].delta \in Delta /\ req[c].note \in Notes
  BY <1>1 DEF HandlerShape, At, LoadPlaces
<1>3. heap[st].content \subseteq Delta /\ heap[st] \in DocState
  BY <1>2 DEF TypeInv, TypeOK, DocState
<1>4. /\ r1 \in Requests /\ r1.pc = "inspect" /\ r1.note = req[c].note
      /\ r1.delta = req[c].delta /\ r1.st = st
  BY <1>1, <1>2, <1>3 DEF Requests, Places, PreDeltaState
<1>5. /\ r2 \in Requests /\ r2.pc = "append" /\ r2.note = req[c].note
      /\ r2.delta = req[c].delta /\ r2.st = st
  BY <1>1, <1>2 DEF Requests, Places
<1>6. req' = [req EXCEPT ![c] = r1] \/ req' = [req EXCEPT ![c] = r2]
  BY DEF Apply, LocalEdit
<1> HIDE DEF r1, r2
<1>7. HandlerShape(r1) /\ HandlerShape(r2)
  BY <1>2, <1>4, <1>5 DEF HandlerShape, At, LoadPlaces, WritePlaces
<1>8. /\ req' \in [Clients -> Requests]
      /\ \A x \in Clients : HandlerShape(req'[x])
  BY <1>4, <1>5, <1>6, <1>7, HandlerStep
<1>9. heap' \in [Objs -> DocState]
  <2> DEFINE edited == [heap[st] EXCEPT !.content = @ \cup {req[c].delta}]
  <2>1. edited \in DocState
    BY <1>2, <1>3 DEF DocState
  <2>2. heap' = [heap EXCEPT ![st] = edited]
    BY DEF Apply, LocalEdit
  <2> QED
    BY <1>2, <2>1, <2>2 DEF TypeInv, TypeOK
<1>10. UNCHANGED <<store, docs, lru, loading, lock, open, sent, flushing, seen>>
  BY DEF Apply, LocalEdit
<1>11. TypeOK'
  BY <1>8, <1>9, <1>10 DEF TypeInv, TypeOK, store, flushing, seen
<1> QED
  BY <1>8, <1>10, <1>11 DEF TypeInv, LoadShape, OrderShape, Once

LEMMA AcceptType ==
  ASSUME TypeInv, NEW c \in Clients, Accept(c)
  PROVE  TypeInv'
<1>1. /\ req' \in [Clients -> Requests]
      /\ \A x \in Clients : HandlerShape(req'[x])
  BY GotoShape DEF Accept, LoadPlaces, WritePlaces, Places
<1>2. TypeOK'
  BY <1>1 DEF Accept, TypeInv, TypeOK, store, cache, flushing, seen
<1> QED
  BY <1>1, <1>2 DEF Accept, TypeInv, LoadShape, OrderShape, Once, cache

LEMMA RejectType ==
  ASSUME TypeInv, NEW c \in Clients, Reject(c)
  PROVE  TypeInv'
<1>1. /\ req' \in [Clients -> Requests]
      /\ \A x \in Clients : HandlerShape(req'[x])
  BY GotoShape DEF Reject, LoadPlaces, WritePlaces, Places
<1>2. /\ req[c].note \in Notes /\ req[c].st \in Objs
      /\ req[c].before \subseteq Delta
  BY DEF Reject, TypeInv, TypeOK, HandlerShape, At, WritePlaces, Requests
<1>3. heap' \in [Objs -> DocState]
  <2> DEFINE restored == [heap[req[c].st] EXCEPT !.content = req[c].before]
  <2>0. heap[req[c].st] \in DocState
    BY <1>2 DEF TypeInv, TypeOK
  <2>1. restored \in DocState
    BY <1>2, <2>0 DEF DocState
  <2>2. heap' = [heap EXCEPT ![req[c].st] = restored] \/ heap' = heap
    BY DEF Reject
  <2> QED
    BY <1>2, <2>1, <2>2 DEF TypeInv, TypeOK
<1>4. lru \in Seq(Notes) /\ Once(lru) /\ \A i \in DOMAIN lru : docs[lru[i]] # None
  BY DEF TypeInv, TypeOK, OrderShape
<1>5. docs' \in [Notes -> Objs \cup {None}] /\ lru' \in Seq(Notes) /\ OrderShape'
  <2>1. CASE req[c].existed
    BY <2>1, <1>4 DEF Reject, TypeInv, TypeOK, OrderShape, Once
  <2>2. CASE ~req[c].existed
    <3>1. /\ docs' = [docs EXCEPT ![req[c].note] = None]
          /\ lru' = Without(lru, req[c].note)
      BY <2>2 DEF Reject
    <3>2. /\ lru' \in Seq(Notes) /\ Once(lru')
          /\ \A i \in DOMAIN lru' :
               lru'[i] # req[c].note /\ \E j \in DOMAIN lru : lru'[i] = lru[j]
      BY <1>4, <3>1, WithoutIsSeq, WithoutOnce
    <3>3. docs' \in [Notes -> Objs \cup {None}]
      BY <1>2, <3>1 DEF TypeInv, TypeOK
    <3>4. \A i \in DOMAIN lru' : docs'[lru'[i]] # None
      <4> TAKE i \in DOMAIN lru'
      <4>1. PICK j \in DOMAIN lru : lru'[i] = lru[j] /\ lru'[i] # req[c].note
        BY <3>2
      <4>2. lru[j] \in Notes
        BY <1>4
      <4> QED
        BY <1>4, <3>1, <4>1, <4>2 DEF TypeInv, TypeOK
    <3> QED
      BY <3>2, <3>3, <3>4 DEF OrderShape, Once
  <2> QED
    BY <2>1, <2>2
<1>6. UNCHANGED <<store, loading, lock, open, sent, flushing, seen>>
  BY DEF Reject
<1>7. TypeOK'
  BY <1>1, <1>3, <1>5, <1>6 DEF TypeInv, TypeOK, store, flushing, seen
<1> QED
  BY <1>1, <1>5, <1>6, <1>7 DEF TypeInv, LoadShape

LEMMA DenyType ==
  ASSUME TypeInv, NEW c \in Clients, Deny(c)
  PROVE  TypeInv'
<1>1. /\ req' \in [Clients -> Requests]
      /\ \A x \in Clients : HandlerShape(req'[x])
      /\ lock' \in [Notes -> Clients \cup {None}]
  BY ReleaseShape DEF Deny
<1>2. req[c].note \in Notes /\ req[c].delta \in Delta
  BY DEF Deny, TypeInv, HandlerShape, At
<1>3. nodes' \subseteq Notes /\ denied' \subseteq Delta
  BY <1>2 DEF Deny, Reindexed, TypeInv, TypeOK
<1>4. UNCHANGED <<files, nextSeq, cache, open, sent, flushing, got, synced, fanned>>
  BY DEF Deny
<1>5. TypeOK'
  BY <1>1, <1>3, <1>4 DEF TypeInv, TypeOK, cache, flushing
<1> QED
  BY <1>1, <1>4, <1>5 DEF TypeInv, LoadShape, OrderShape, Once, cache

LEMMA AppendedType ==
  ASSUME NEW f \in File(Delta), NEW s \in Nat, NEW d \in Delta
  PROVE  Appended(f, s, d) \in File(Delta)
BY DEF File, Appended

LEMMA CompactedType ==
  ASSUME NEW f \in File(Delta), NEW s \in Nat, NEW content \in SUBSET Delta
  PROVE  Compacted(f, s, content) \in File(Delta)
BY DEF File, Compacted

LEMMA AppendLogType ==
  ASSUME TypeInv, NEW c \in Clients, AppendLog(c)
  PROVE  TypeInv'
<1>1. /\ req' \in [Clients -> Requests]
      /\ \A x \in Clients : HandlerShape(req'[x])
  BY GotoShape DEF AppendLog, LoadPlaces, WritePlaces, Places
<1>2. req[c].note \in Notes /\ req[c].delta \in Delta /\ req[c].st \in Objs
  BY DEF AppendLog, TypeInv, HandlerShape, At, WritePlaces
<1>3. files[req[c].note] \in File(Delta) /\ heap[req[c].st] \in DocState /\ nextSeq \in Nat
  BY <1>2 DEF TypeInv, TypeOK
<1>4. files' \in [Notes -> File(Delta)] /\ nextSeq' \in Nat \ {0}
  BY <1>2, <1>3, AppendedType DEF AppendLog, TypeInv, TypeOK
<1>5. heap' \in [Objs -> DocState]
  <2> DEFINE logged == [heap[req[c].st] EXCEPT !.lastSeq = nextSeq]
  <2>1. logged \in DocState
    BY <1>3 DEF DocState
  <2>2. heap' = [heap EXCEPT ![req[c].st] = logged]
    BY DEF AppendLog
  <2> QED
    BY <1>2, <2>1, <2>2 DEF TypeInv, TypeOK
<1>6. UNCHANGED <<nodes, docs, lru, loading, lock, open, sent, flushing, seen>>
  BY DEF AppendLog
<1>7. TypeOK'
  BY <1>1, <1>4, <1>5, <1>6 DEF TypeInv, TypeOK, flushing, seen
<1> QED
  BY <1>1, <1>6, <1>7 DEF TypeInv, LoadShape, OrderShape, Once

LEMMA IndexType ==
  ASSUME TypeInv, NEW c \in Clients, Index(c)
  PROVE  TypeInv'
<1>1. /\ req' \in [Clients -> Requests]
      /\ \A x \in Clients : HandlerShape(req'[x])
  BY GotoShape DEF Index, LoadPlaces, WritePlaces, Places
<1>2. req[c].note \in Notes /\ req[c].st \in Objs
  BY DEF Index, TypeInv, HandlerShape, At, WritePlaces
<1>3. heap[req[c].st] \in DocState
  BY <1>2 DEF TypeInv, TypeOK
<1>4. nodes' \subseteq Notes
  BY <1>2 DEF Index, Reindexed, TypeInv, TypeOK
<1>5. heap' \in [Objs -> DocState]
  <2> DEFINE counted == [heap[req[c].st] EXCEPT !.sinceSnap = @ + 1]
  <2>1. counted \in DocState
    BY <1>3 DEF DocState
  <2>2. heap' = [heap EXCEPT ![req[c].st] = counted]
    BY DEF Index
  <2> QED
    BY <1>2, <2>1, <2>2 DEF TypeInv, TypeOK
<1>6. UNCHANGED <<files, nextSeq, docs, lru, loading, lock, open, sent, flushing, seen>>
  BY DEF Index
<1>7. TypeOK'
  BY <1>1, <1>4, <1>5, <1>6 DEF TypeInv, TypeOK, flushing, seen
<1> QED
  BY <1>1, <1>6, <1>7 DEF TypeInv, LoadShape, OrderShape, Once

\* saveSnapshot keeps the types of the store and the heap.
LEMMA SavedShape ==
  ASSUME TypeInv, NEW k \in Notes, NEW o \in Objs, NEW n \in Nat,
         NEW content \in SUBSET Delta,
         files' = [files EXCEPT ![k] = Compacted(@, n, content)],
         heap' = [heap EXCEPT ![o].sinceSnap = 0]
  PROVE  files' \in [Notes -> File(Delta)] /\ heap' \in [Objs -> DocState]
<1>1. files[k] \in File(Delta) /\ heap[o] \in DocState
  BY DEF TypeInv, TypeOK
<1>2. Compacted(files[k], n, content) \in File(Delta)
  BY <1>1, CompactedType
<1>3. [heap[o] EXCEPT !.sinceSnap = 0] \in DocState
  BY <1>1 DEF DocState
<1>4. heap' = [heap EXCEPT ![o] = [heap[o] EXCEPT !.sinceSnap = 0]]
  OBVIOUS
<1> QED
  BY <1>2, <1>3, <1>4 DEF TypeInv, TypeOK

\* What is captured for a save has the types of a document.
LEMMA SaveShape ==
  ASSUME TypeInv, NEW by \in Notes \cup {None}, NEW k \in Notes, NEW o \in Objs,
         Save(by, k, o)
  PROVE  saves' \subseteq Saving
<1>1. heap[o].lastSeq \in Nat /\ heap[o].content \in SUBSET Delta
  BY DEF TypeInv, TypeOK, DocState
<1> QED
  BY <1>1 DEF Save, Saving, TypeInv, TypeOK

LEMMA SnapshotType ==
  ASSUME TypeInv, NEW c \in Clients, Snapshot(c)
  PROVE  TypeInv'
<1>1. /\ req' \in [Clients -> Requests]
      /\ \A x \in Clients : HandlerShape(req'[x])
  BY GotoShape DEF Snapshot, LoadPlaces, WritePlaces, Places
<1>2. req[c].note \in Notes /\ req[c].st \in Objs
  BY DEF Snapshot, TypeInv, HandlerShape, At, WritePlaces
<1>3. files' \in [Notes -> File(Delta)] /\ heap' \in [Objs -> DocState]
  <2>1. heap[req[c].st].lastSeq \in Nat /\ heap[req[c].st].content \in SUBSET Delta
    BY <1>2 DEF TypeInv, TypeOK, DocState
  <2> QED
    BY <1>2, <2>1, SavedShape DEF Snapshot
<1>4. UNCHANGED <<nodes, nextSeq, docs, lru, loading, lock, open, sent, flushing, seen>>
  BY DEF Snapshot
<1>5. TypeOK'
  BY <1>1, <1>3, <1>4 DEF TypeInv, TypeOK, flushing, seen
<1> QED
  BY <1>1, <1>4, <1>5 DEF TypeInv, LoadShape, OrderShape, Once

LEMMA FanOutType ==
  ASSUME TypeInv, NEW c \in Clients, FanOut(c)
  PROVE  TypeInv'
<1>1. req[c].note \in Notes /\ req[c].delta \in Delta
  BY DEF FanOut, TypeInv, HandlerShape, At
<1>2. /\ req' \in [Clients -> Requests]
      /\ \A x \in Clients : HandlerShape(req'[x])
      /\ lock' \in [Notes -> Clients \cup {None}]
  <2>1. CASE req[c].via = "ws"
    BY <2>1, GotoShape DEF FanOut, LoadPlaces, WritePlaces, Places, TypeInv, TypeOK
  <2>2. CASE req[c].via # "ws"
    BY <2>2, ReleaseShape DEF FanOut
  <2> QED
    BY <2>1, <2>2
<1>3. /\ got' \in [Clients -> [Notes -> SUBSET Delta]]
      /\ fanned' \in [Notes -> SUBSET Delta]
  BY <1>1 DEF FanOut, TypeInv, TypeOK
<1>4. UNCHANGED <<store, cache, open, sent, flushing, synced, denied>>
  BY DEF FanOut
<1>5. TypeOK'
  BY <1>2, <1>3, <1>4 DEF TypeInv, TypeOK, store, cache, flushing
<1> QED
  BY <1>2, <1>4, <1>5 DEF TypeInv, LoadShape, OrderShape, Once, cache

LEMMA EnforceNothingType ==
  ASSUME TypeInv, NEW c \in Clients, EnforceNothing(c)
  PROVE  TypeInv'
<1>1. /\ req' \in [Clients -> Requests]
      /\ \A x \in Clients : HandlerShape(req'[x])
      /\ lock' \in [Notes -> Clients \cup {None}]
  BY ReleaseShape DEF EnforceNothing
<1>2. UNCHANGED <<store, cache, open, sent, flushing, seen>>
  BY DEF EnforceNothing
<1>3. TypeOK'
  BY <1>1, <1>2 DEF TypeInv, TypeOK, store, cache, flushing, seen
<1> QED
  BY <1>1, <1>2, <1>3 DEF TypeInv, LoadShape, OrderShape, Once, cache

LEMMA EnforceType ==
  ASSUME TypeInv, NEW c \in Clients, Enforce(c)
  PROVE  TypeInv'
<1> DEFINE mark == [req[c].delta EXCEPT !.kind = "draft"]
           r == [req[c] EXCEPT !.pc = "patch", !.via = "policy", !.delta = mark]
<1>1. req[c] \in Requests /\ HandlerShape(req[c]) /\ req[c].pc = "enforce"
  BY DEF Enforce, TypeInv, TypeOK
<1>2. req[c].note \in Notes /\ req[c].delta \in Delta
  BY <1>1 DEF HandlerShape, At
<1>3. mark \in Delta
  BY <1>2 DEF Delta, Kinds
<1>4. req' = [req EXCEPT ![c] = r]
  BY <1>1 DEF Enforce, TypeInv, TypeOK, Requests
<1> HIDE DEF mark
<1>5. r \in Requests /\ r.pc = "patch" /\ r.note = req[c].note /\ r.delta = mark
  BY <1>1, <1>3 DEF Requests, Places
<1> HIDE DEF r
<1>6. HandlerShape(r)
  BY <1>2, <1>3, <1>5 DEF HandlerShape, At, LoadPlaces, WritePlaces
<1>7. /\ req' \in [Clients -> Requests]
      /\ \A x \in Clients : HandlerShape(req'[x])
  BY <1>4, <1>5, <1>6, HandlerStep
<1>8. UNCHANGED <<store, cache, lock, open, sent, flushing, seen>>
  BY DEF Enforce
<1>9. TypeOK'
  BY <1>7, <1>8 DEF TypeInv, TypeOK, store, cache, flushing, seen
<1> QED
  BY <1>7, <1>8, <1>9 DEF TypeInv, LoadShape, OrderShape, Once, cache

LEMMA PurgeType ==
  ASSUME TypeInv, NEW c \in Clients, NEW k \in Notes, Purge(c, k)
  PROVE  TypeInv'
<1> DEFINE r == [IdleReq EXCEPT !.pc = "purged", !.note = k]
<1>1. r \in Requests /\ r.pc = "purged" /\ r.note = k
  BY DEF IdleReq, Requests, Places
<1>2. req' = [req EXCEPT ![c] = r]
  BY DEF Purge
<1> HIDE DEF r
<1>3. HandlerShape(r)
  BY <1>1 DEF HandlerShape, At, LoadPlaces, WritePlaces
<1>4. /\ req' \in [Clients -> Requests]
      /\ \A x \in Clients : HandlerShape(req'[x])
  BY <1>1, <1>2, <1>3, HandlerStep
<1>5. Purged(files[k]) \in File(Delta)
  BY DEF Purged, EmptyFile, File
<1>6. /\ files' \in [Notes -> File(Delta)] /\ nodes' \subseteq Notes
      /\ fanned' \in [Notes -> SUBSET Delta]
      /\ lock' \in [Notes -> Clients \cup {None}]
  BY <1>5 DEF Purge, Lock, TypeInv, TypeOK
<1>7. UNCHANGED <<nextSeq, cache, open, sent, flushing, got, synced, denied>>
  BY DEF Purge
<1>8. TypeOK'
  BY <1>4, <1>6, <1>7 DEF TypeInv, TypeOK, cache, flushing
<1> QED
  BY <1>4, <1>7, <1>8 DEF TypeInv, LoadShape, OrderShape, Once, cache

\* docs.delete keeps the map and its order together.
LEMMA DeleteShape ==
  ASSUME TypeInv, NEW k \in Notes,
         docs' = [docs EXCEPT ![k] = None], lru' = Without(lru, k)
  PROVE  docs' \in [Notes -> Objs \cup {None}] /\ lru' \in Seq(Notes) /\ OrderShape'
<1>1. lru \in Seq(Notes) /\ Once(lru) /\ \A i \in DOMAIN lru : docs[lru[i]] # None
  BY DEF TypeInv, TypeOK, OrderShape
<1>2. /\ lru' \in Seq(Notes) /\ Once(lru')
      /\ \A i \in DOMAIN lru' : lru'[i] # k /\ \E j \in DOMAIN lru : lru'[i] = lru[j]
  BY <1>1, WithoutIsSeq, WithoutOnce
<1>3. docs' \in [Notes -> Objs \cup {None}]
  BY DEF TypeInv, TypeOK
<1>4. \A i \in DOMAIN lru' : docs'[lru'[i]] # None
  <2> TAKE i \in DOMAIN lru'
  <2>1. PICK j \in DOMAIN lru : lru'[i] = lru[j] /\ lru'[i] # k
    BY <1>2
  <2>2. lru[j] \in Notes
    BY <1>1
  <2> QED
    BY <1>1, <2>1, <2>2 DEF TypeInv, TypeOK
<1> QED
  BY <1>2, <1>3, <1>4 DEF OrderShape, Once

LEMMA PurgeEvictType ==
  ASSUME TypeInv, NEW c \in Clients, PurgeEvict(c)
  PROVE  TypeInv'
<1>1. /\ req' \in [Clients -> Requests]
      /\ \A x \in Clients : HandlerShape(req'[x])
      /\ lock' \in [Notes -> Clients \cup {None}]
  BY ReleaseShape DEF PurgeEvict
<1>2. req[c].note \in Notes
  BY DEF PurgeEvict, TypeInv, HandlerShape, At
<1>3. docs' \in [Notes -> Objs \cup {None}] /\ lru' \in Seq(Notes) /\ OrderShape'
  BY <1>2, DeleteShape DEF PurgeEvict
<1>4. UNCHANGED <<store, heap, loading, open, sent, flushing, seen>>
  BY DEF PurgeEvict
<1>5. TypeOK'
  BY <1>1, <1>3, <1>4 DEF TypeInv, TypeOK, store, flushing, seen
<1> QED
  BY <1>1, <1>3, <1>4, <1>5 DEF TypeInv, LoadShape

LEMMA InstallType ==
  ASSUME TypeInv, NEW k \in Notes, Install(k)
  PROVE  TypeInv'
<1> DEFINE o == CHOOSE x \in Free : TRUE
<1>1. o \in Free
  BY DEF Install
<1>2. o \in Objs /\ Free \subseteq Objs
  BY <1>1 DEF Free
<1>3. /\ loading[k].stage = "read"
      /\ heap' = [heap EXCEPT ![o] = FreshState(loading[k].content)]
      /\ docs' = [docs EXCEPT ![k] = o]
      /\ lru' = Touched(lru, k)
      /\ Requeue(k)
      /\ \/ /\ loading' = [loading EXCEPT ![k] = [@ EXCEPT !.stage = "index", !.obj = o]]
            /\ UNCHANGED req
         \/ EvictOrResolve(k, o, Touched(lru, k))
      /\ UNCHANGED <<store, lock, open, sent, seen>>
  BY DEF Install
<1> HIDE DEF o
<1>4. lru \in Seq(Notes) /\ Once(lru) /\ \A i \in DOMAIN lru : docs[lru[i]] # None
  BY DEF TypeInv, TypeOK, OrderShape
<1>5. docs' \in [Notes -> Objs \cup {None}]
  BY <1>2, <1>3 DEF TypeInv, TypeOK
<1>6. lru' \in Seq(Notes) /\ OrderShape'
  <2>1. /\ lru' \in Seq(Notes) /\ Once(lru')
        /\ \A i \in DOMAIN lru' : lru'[i] = k \/ \E j \in DOMAIN lru : lru'[i] = lru[j]
    BY <1>3, <1>4, TouchedOnce
  <2>2. o # None
    BY <1>2, HubAssumption
  <2>3. \A i \in DOMAIN lru' : docs'[lru'[i]] # None
    <3> TAKE i \in DOMAIN lru'
    <3>1. docs \in [Notes -> Objs \cup {None}]
      BY DEF TypeInv, TypeOK
    <3>4. docs'[k] = o /\ \A x \in Notes \ {k} : docs'[x] = docs[x]
      BY <1>3, <3>1
    <3>2. CASE lru'[i] = k
      BY <2>2, <3>2, <3>4
    <3>3. CASE lru'[i] # k
      <4>1. PICK j \in DOMAIN lru : lru'[i] = lru[j]
        BY <2>1, <3>3
      <4>2. lru[j] \in Notes
        BY <1>4
      <4> QED
        BY <1>4, <3>3, <3>4, <4>1, <4>2
    <3> QED
      BY <3>2, <3>3
  <2> QED
    BY <2>1, <2>3 DEF OrderShape, Once
<1>7. heap' \in [Objs -> DocState]
  <2>1. FreshState(loading[k].content) \in DocState
    BY DEF TypeInv, TypeOK, Loads, FreshState, DocState
  <2> QED
    BY <1>2, <1>3, <2>1 DEF TypeInv, TypeOK
<1>8. /\ loading' \in [Notes -> Loads]
      /\ \A x \in Notes : LoadShape(x)'
      /\ req' \in [Clients -> Requests]
      /\ \A c \in Clients : HandlerShape(req'[c])
  <2>1. CASE EvictOrResolve(k, o, Touched(lru, k))
    BY <1>2, <2>1, EvictOrResolveShape
  <2>2. CASE /\ loading' = [loading EXCEPT ![k] = [@ EXCEPT !.stage = "index", !.obj = o]]
             /\ UNCHANGED req
    <3> DEFINE new == [loading[k] EXCEPT !.stage = "index", !.obj = o]
    <3>0. loading[k] \in Loads
      BY DEF TypeInv, TypeOK
    <3>1. new \in Loads /\ new.stage = "index" /\ new.obj = o
      BY <1>2, <3>0 DEF Loads
    <3>2. loading' = [loading EXCEPT ![k] = new]
      BY <2>2
    <3> HIDE DEF new
    <3> QED
      BY <1>2, <2>2, <3>1, <3>2 DEF TypeInv, TypeOK, LoadShape
  <2> QED
    BY <1>3, <2>1, <2>2
<1>9. flushed' \subseteq Notes /\ stopping' = stopping /\ saves' = saves
  BY <1>3 DEF Requeue, TypeInv, TypeOK
<1>10. TypeOK'
  BY <1>3, <1>5, <1>6, <1>7, <1>8, <1>9 DEF TypeInv, TypeOK, store, seen
<1> QED
  BY <1>6, <1>8, <1>10 DEF TypeInv

\* The steps of a load that is past its installation and has an object.
LEMMA LoadIndexType ==
  ASSUME TypeInv, NEW k \in Notes, LoadIndex(k)
  PROVE  TypeInv'
<1>1. loading[k].obj \in Objs
  BY DEF LoadIndex, TypeInv, LoadShape
<1>2. /\ loading' \in [Notes -> Loads]
      /\ \A x \in Notes : LoadShape(x)'
      /\ req' \in [Clients -> Requests]
      /\ \A c \in Clients : HandlerShape(req'[c])
  BY <1>1, EvictOrResolveShape DEF LoadIndex
<1>3. nodes' \subseteq Notes
  BY DEF LoadIndex, Reindexed, TypeInv, TypeOK
<1>4. UNCHANGED <<files, nextSeq, docs, lru, heap, lock, open, sent, flushing, seen>>
  BY DEF LoadIndex
<1>5. TypeOK'
  BY <1>2, <1>3, <1>4 DEF TypeInv, TypeOK, flushing, seen
<1> QED
  BY <1>2, <1>4, <1>5 DEF TypeInv, OrderShape, Once

\* The coldest key exists and its document is resident.
LEMMA ColdestShape ==
  ASSUME TypeInv, NEW k \in Notes, MustEvict(lru, k)
  PROVE  Head(lru) \in Notes /\ docs[Head(lru)] \in Objs
<1>1. lru \in Seq(Notes) /\ Len(lru) > 0
  BY HubAssumption DEF TypeInv, TypeOK, MustEvict
<1>2. Head(lru) = lru[1] /\ 1 \in DOMAIN lru
  BY <1>1
<1>3. lru[1] \in Notes
  BY <1>1, <1>2
<1> QED
  BY <1>2, <1>3 DEF TypeInv, TypeOK, OrderShape

LEMMA EvictWriteType ==
  ASSUME TypeInv, NEW k \in Notes, EvictWrite(k)
  PROVE  TypeInv'
<1> DEFINE v == Head(lru)
           new == [loading[k] EXCEPT !.stage = "drop", !.victim = v]
<1>1. v \in Notes /\ docs[v] \in Objs
  BY ColdestShape DEF EvictWrite
<1>2. saves' \subseteq Saving
  BY <1>1, SaveShape DEF EvictWrite
<1> HIDE DEF v
<1>3. loading[k] \in Loads /\ loading[k].obj \in Objs
  BY DEF EvictWrite, TypeInv, TypeOK, LoadShape
<1>4. new \in Loads /\ new.stage = "drop" /\ new.victim = v /\ new.obj = loading[k].obj
  BY <1>1, <1>3 DEF Loads
<1>5. loading' = [loading EXCEPT ![k] = new]
  BY DEF EvictWrite, v
<1> HIDE DEF new
<1>6. loading' \in [Notes -> Loads] /\ \A x \in Notes : LoadShape(x)'
  BY <1>1, <1>3, <1>4, <1>5 DEF TypeInv, TypeOK, LoadShape
<1>7. UNCHANGED <<store, docs, lru, heap, lock, req, open, sent, stopping, flushed, seen>>
  BY DEF EvictWrite
<1>8. TypeOK'
  BY <1>2, <1>6, <1>7 DEF TypeInv, TypeOK, store, seen
<1> QED
  BY <1>6, <1>7, <1>8 DEF TypeInv, OrderShape, Once

LEMMA EvictType ==
  ASSUME TypeInv, NEW k \in Notes, EvictClean(k) \/ EvictWritten(k) \/ EvictNone(k)
  PROVE  TypeInv'
<1>1. loading[k].obj \in Objs
  BY DEF EvictClean, EvictWritten, EvictNone, TypeInv, LoadShape
<1>2. ASSUME NEW v \in Notes, Evict(k, v)
      PROVE  TypeInv'
  <2>1. docs' \in [Notes -> Objs \cup {None}] /\ lru' \in Seq(Notes) /\ OrderShape'
    BY <1>2, DeleteShape DEF Evict
  <2>2. /\ loading' \in [Notes -> Loads]
        /\ \A x \in Notes : LoadShape(x)'
        /\ req' \in [Clients -> Requests]
        /\ \A c \in Clients : HandlerShape(req'[c])
    BY <1>1, <1>2, EvictOrResolveShape DEF Evict
  <2>3. UNCHANGED <<store, heap, lock, open, sent, flushing, seen>>
    BY <1>2 DEF Evict
  <2>4. TypeOK'
    BY <2>1, <2>2, <2>3 DEF TypeInv, TypeOK, store, flushing, seen
  <2> QED
    BY <2>1, <2>2, <2>4 DEF TypeInv
<1>3. CASE EvictClean(k)
  BY <1>2, <1>3, ColdestShape DEF EvictClean
<1>4. CASE EvictWritten(k)
  BY <1>2, <1>4 DEF EvictWritten, TypeInv, LoadShape
<1>5. CASE EvictNone(k)
  <2>1. /\ loading' \in [Notes -> Loads]
        /\ \A x \in Notes : LoadShape(x)'
        /\ req' \in [Clients -> Requests]
        /\ \A c \in Clients : HandlerShape(req'[c])
    BY <1>1, <1>5, EvictOrResolveShape DEF EvictNone
  <2>2. UNCHANGED <<store, docs, lru, heap, lock, open, sent, flushing, seen>>
    BY <1>5 DEF EvictNone
  <2>3. TypeOK'
    BY <2>1, <2>2 DEF TypeInv, TypeOK, store, flushing, seen
  <2> QED
    BY <2>1, <2>2, <2>3 DEF TypeInv, OrderShape, Once
<1> QED
  BY <1>3, <1>4, <1>5

LEMMA ShutdownType ==
  ASSUME TypeInv, Shutdown
  PROVE  TypeInv'
<1>1. UNCHANGED <<store, cache, lock, req, open, sent, flushed, saves, seen>> /\ stopping' \in BOOLEAN
  BY DEF Shutdown
<1>2. TypeOK'
  BY <1>1 DEF TypeInv, TypeOK, store, cache, seen
<1> QED
  BY <1>1, <1>2 DEF TypeInv, LoadShape, OrderShape, Once, cache

LEMMA FlushType ==
  ASSUME TypeInv, NEW k \in Notes, Flush(k)
  PROVE  TypeInv'
<1>1. docs[k] \in Objs
  BY DEF Flush, Unflushed, TypeInv, TypeOK
<1>2. saves' \subseteq Saving
  <2>1. CASE Save(None, k, docs[k])
    BY <1>1, <2>1, SaveShape
  <2>2. CASE UNCHANGED saves
    BY <2>2 DEF TypeInv, TypeOK
  <2> QED
    BY <2>1, <2>2 DEF Flush
<1>3. flushed' \subseteq Notes
  BY DEF Flush, TypeInv, TypeOK
<1>4. UNCHANGED <<store, cache, lock, req, open, sent, stopping, seen>>
  BY DEF Flush
<1>5. TypeOK'
  BY <1>2, <1>3, <1>4 DEF TypeInv, TypeOK, store, cache, seen
<1> QED
  BY <1>4, <1>5 DEF TypeInv, LoadShape, OrderShape, Once, cache

LEMMA SavedType ==
  ASSUME TypeInv, NEW s \in saves, Saved(s)
  PROVE  TypeInv'
<1>1. s.note \in Notes /\ s.obj \in Objs /\ s.seq \in Nat /\ s.content \in SUBSET Delta
  BY DEF TypeInv, TypeOK, Saving
<1>2. files' \in [Notes -> File(Delta)] /\ heap' \in [Objs -> DocState]
  BY <1>1, SavedShape DEF Saved
<1>3. saves' \subseteq Saving
  BY DEF Saved, TypeInv, TypeOK
<1>4. UNCHANGED <<nodes, nextSeq, docs, lru, loading, lock, req, open, sent,
                  stopping, flushed, seen>>
  BY DEF Saved
<1>5. TypeOK'
  BY <1>2, <1>3, <1>4 DEF TypeInv, TypeOK, seen
<1> QED
  BY <1>4, <1>5 DEF TypeInv, LoadShape, OrderShape, Once

LEMMA RestartType ==
  ASSUME TypeInv, Restart
  PROVE  TypeInv'
<1>1. /\ docs' \in [Notes -> Objs \cup {None}] /\ lru' \in Seq(Notes)
      /\ lock' \in [Notes -> Clients \cup {None}] /\ open' \in [Clients -> SUBSET Notes]
      /\ got' \in [Clients -> [Notes -> SUBSET Delta]]
      /\ synced' \in [Clients -> SUBSET Notes] /\ flushed' \subseteq Notes
      /\ saves' \subseteq Saving
  BY DEF Restart
<1>2. stopping' \in BOOLEAN
  BY DEF Restart
<1>3. heap' \in [Objs -> DocState]
  BY DEF Restart, FreshState, DocState
<1>4. loading' \in [Notes -> Loads] /\ \A k \in Notes : LoadShape(k)'
  BY DEF Restart, NoLoad, Loads, LoadShape
<1>5. req' \in [Clients -> Requests] /\ \A c \in Clients : HandlerShape(req'[c])
  BY IdleShape DEF Restart
<1>6. OrderShape'
  BY DEF Restart, OrderShape, Once
<1>7. UNCHANGED <<store, sent, fanned, denied>>
  BY DEF Restart
<1>8. TypeOK'
  BY <1>1, <1>2, <1>3, <1>4, <1>5, <1>7 DEF TypeInv, TypeOK, store
<1> QED
  BY <1>4, <1>5, <1>6, <1>8 DEF TypeInv

LEMMA StepTypeInv == TypeInv /\ [Next]_vars => TypeInv'
<1> SUFFICES ASSUME TypeInv, [Next]_vars PROVE TypeInv'
  OBVIOUS
<1>1. ASSUME NEW c \in Clients, Start(c) PROVE TypeInv'
  <2>1. PICK k \in Notes :
          Open(c, k) \/ Sync1(c, k) \/ SendUpdate(c, k) \/ Http(c, k) \/ Purge(c, k)
    BY <1>1 DEF Start
  <2> QED
    BY <2>1, OpenType, UpdateType, HttpType, PurgeType
<1>2. ASSUME NEW c \in Clients, Step(c) PROVE TypeInv'
  BY <1>2, OpenedType, ReplyType, LocalLockType, LoadStepType, ApplyType, AcceptType, RejectType,
     DenyType, AppendLogType, IndexType, SnapshotType, FanOutType,
     EnforceNothingType, EnforceType, PurgeEvictType DEF Step
<1>3. ASSUME NEW k \in Notes, Load(k) PROVE TypeInv'
  BY <1>3, InstallType, LoadIndexType, EvictWriteType, EvictType DEF Load
<1>4. ASSUME NEW k \in Notes, Flush(k) PROVE TypeInv'
  BY <1>4, FlushType
<1>5. CASE Crash \/ Shutdown \/ Exit
  BY <1>5, RestartType, ShutdownType DEF Crash, Exit
<1>6. CASE UNCHANGED vars
  BY <1>6 DEF vars, TypeInv, TypeOK, LoadShape, OrderShape, Once
<1>7. ASSUME NEW s \in saves, Saved(s) PROVE TypeInv'
  BY <1>7, SavedType
<1> QED
  BY <1>1, <1>2, <1>3, <1>4, <1>5, <1>6, <1>7 DEF Next

\* Whatever the numbers of notes and clients, the cache size, the quota and
\* the workload: every reachable state has the types of TypeOK.  The handler
\* that resumes after a load has a document, and an eviction finds one.
THEOREM TypeCorrect == Spec => []TypeOK
<1>1. TypeInv => TypeOK
  BY DEF TypeInv
<1> QED
  BY InitTypeInv, StepTypeInv, <1>1, PTL DEF Spec

----------------------------------------------------------------------------
(* One writer per note.                                                    *)

\* A handler in its write section holds the lock of its note.
LockInv == \A c \in Clients : Writing(c) => lock[req[c].note] = c

InWrite(r) == At(r) \notin {"idle", "opened", "reply", "routed"}

LEMMA WritingIsInWrite ==
  /\ \A c \in Clients : Writing(c) <=> InWrite(req[c])
  /\ \A c \in Clients : Writing(c)' <=> InWrite(req'[c])
BY DEF Writing, Place, InWrite, At

\* No lock changes hands and no handler enters a write section.
LEMMA LockKept ==
  ASSUME LockInv, lock' = lock,
         \A x \in Clients :
           InWrite(req'[x]) => InWrite(req[x]) /\ req'[x].note = req[x].note
  PROVE  LockInv'
BY WritingIsInWrite DEF LockInv

\* c enters the write section of a note whose lock was free.
LEMMA LockTaken ==
  ASSUME TypeInv, LockInv, NEW c \in Clients, NEW k \in Notes, NEW r,
         Lock(c, k), req' = [req EXCEPT ![c] = r], r.note = k
  PROVE  LockInv'
<1>1. ASSUME NEW x \in Clients, Writing(x)'
      PROVE  lock'[req'[x].note] = x
  <2>1. CASE x = c
    BY <2>1 DEF Lock, TypeInv, TypeOK
  <2>2. CASE x # c
    <3>1. req'[x] = req[x]
      BY <2>2 DEF TypeInv, TypeOK
    <3>2. lock[req[x].note] = x /\ req[x].note \in Notes
      BY <1>1, <3>1, WritingIsInWrite DEF LockInv, TypeInv, HandlerShape, InWrite
    <3>3. req[x].note # k
      BY <3>2, HubAssumption DEF Lock
    <3> QED
      BY <3>1, <3>2, <3>3 DEF Lock, TypeInv, TypeOK
  <2> QED
    BY <2>1, <2>2
<1> QED
  BY <1>1 DEF LockInv

\* c leaves its write section.
LEMMA LockReleased ==
  ASSUME TypeInv, LockInv, NEW c \in Clients, Writing(c), Release(c)
  PROVE  LockInv'
<1>1. ASSUME NEW x \in Clients, Writing(x)'
      PROVE  lock'[req'[x].note] = x
  <2>1. x # c
    BY <1>1, WritingIsInWrite DEF Release, TypeInv, TypeOK, InWrite, At, IdleReq
  <2>2. req'[x] = req[x]
    BY <2>1 DEF Release, TypeInv, TypeOK
  <2>3. lock[req[x].note] = x /\ req[x].note \in Notes
    BY <1>1, <2>2, WritingIsInWrite DEF LockInv, TypeInv, HandlerShape, InWrite
  <2>4. lock[req[c].note] = c
    BY DEF LockInv
  <2> QED
    BY <2>1, <2>2, <2>3, <2>4 DEF Release, TypeInv, TypeOK
<1> QED
  BY <1>1 DEF LockInv

\* c goes on in the handler it is in.
LEMMA LockHeld ==
  ASSUME TypeInv, LockInv, NEW c \in Clients, Writing(c), lock' = lock,
         req'[c].note = req[c].note,
         \A x \in Clients \ {c} : req'[x] = req[x]
  PROVE  LockInv'
BY LockKept, WritingIsInWrite

LEMMA StartLock ==
  ASSUME TypeInv, LockInv, NEW c \in Clients, Start(c)
  PROVE  LockInv'
<1>1. PICK k \in Notes :
        Open(c, k) \/ Sync1(c, k) \/ SendUpdate(c, k) \/ Http(c, k) \/ Purge(c, k)
  BY DEF Start
<1>2. ASSUME NEW r \in Requests, r.pc \in {"opened", "reply", "routed"},
             r.note = k, lock' = lock, GetDoc(c, r)
      PROVE  LockInv'
  <2>1. At(req'[c]) = At(r) /\ \A x \in Clients \ {c} : req'[x] = req[x]
    BY <1>2, GetDocShape DEF LoadPlaces
  <2>2. ~InWrite(req'[c])
    BY <1>2, <2>1 DEF InWrite, At
  <2> QED
    BY <1>2, <2>1, <2>2, LockKept
<1>3. CASE Open(c, k) \/ Sync1(c, k)
  <2>1. PICK pc \in {"opened", "reply"} :
          lock' = lock /\ GetDoc(c, [IdleReq EXCEPT !.pc = pc, !.note = k])
    BY <1>3 DEF Open, Sync1
  <2> DEFINE r == [IdleReq EXCEPT !.pc = pc, !.note = k]
  <2>2. r \in Requests /\ r.pc = pc /\ r.note = k
    BY DEF IdleReq, Requests, Places
  <2>3. GetDoc(c, r)
    BY <2>1
  <2> HIDE DEF r
  <2> QED
    BY <1>2, <2>1, <2>2, <2>3
<1>4. CASE SendUpdate(c, k)
  <2>1. PICK d :
          Update(c, k, d) \/ UpdateOverQuota(c, k, d)
    BY <1>4 DEF SendUpdate
  <2>2. CASE Update(c, k, d)
    <3> DEFINE r == [IdleReq EXCEPT !.pc = "checked", !.note = k, !.delta = d,
                                    !.existed = k \in nodes]
    <3>1. r.note = k
      BY DEF IdleReq
    <3>2. Lock(c, k) /\ req' = [req EXCEPT ![c] = r]
      BY <2>2 DEF Update
    <3> HIDE DEF r
    <3> QED
      BY <3>1, <3>2, LockTaken
  <2>3. CASE UpdateOverQuota(c, k, d)
    BY <2>3, LockKept DEF UpdateOverQuota
  <2> QED
    BY <2>1, <2>2, <2>3
<1>5. CASE Http(c, k)
  <2> DEFINE r(kind) == [IdleReq EXCEPT !.pc = "routed", !.note = k, !.via = "http",
                                        !.delta = NextDelta(c, kind)]
  <2>1. PICK kind \in {"patch", "delete"} :
          sent[c] < MaxSends /\ lock' = lock /\ GetDoc(c, r(kind))
    BY <1>5 DEF Http
  <2>2. NextDelta(c, kind) \in Delta
    BY <2>1, NextDeltaType DEF Kinds
  <2>3. r(kind) \in Requests /\ r(kind).pc = "routed" /\ r(kind).note = k
    BY <2>2 DEF IdleReq, Requests, Places
  <2> HIDE DEF r
  <2> QED
    BY <1>2, <2>1, <2>3
<1>6. CASE Purge(c, k)
  <2> DEFINE r == [IdleReq EXCEPT !.pc = "purged", !.note = k]
  <2>1. r.note = k
    BY DEF IdleReq
  <2>2. Lock(c, k) /\ req' = [req EXCEPT ![c] = r]
    BY <1>6 DEF Purge
  <2> HIDE DEF r
  <2> QED
    BY <2>1, <2>2, LockTaken
<1> QED
  BY <1>1, <1>3, <1>4, <1>5, <1>6

LEMMA StepLock ==
  ASSUME TypeInv, LockInv, NEW c \in Clients, Step(c)
  PROVE  LockInv'
<1>0. req \in [Clients -> Requests] /\ req[c] \in Requests
  BY DEF TypeInv, TypeOK
<1>1. CASE Opened(c) \/ Reply(c)
  <2>1. lock' = lock /\ req' = [req EXCEPT ![c] = IdleReq]
    BY <1>1 DEF Opened, Reply
  <2>2. ~InWrite(IdleReq)
    BY DEF InWrite, At, IdleReq
  <2> QED
    BY <1>0, <2>1, <2>2, LockKept
<1>2. CASE UpdateLoad(c) \/ Inspect(c) \/ LocalLoad(c)
  <2>1. PICK pc \in {"apply", "judge", "edit"} : WithDoc(c, pc)
    BY <1>2 DEF UpdateLoad, Inspect, LocalLoad
  <2>2. lock' = lock /\ Writing(c) /\ req[c].note \in Notes
    BY <1>2 DEF UpdateLoad, Inspect, LocalLoad, Writing, Place, TypeInv, HandlerShape, At
  <2> DEFINE r == [req[c] EXCEPT !.pc = pc]
  <2>3. r \in Requests /\ r.pc = pc /\ r.note = req[c].note
    BY <1>0 DEF Requests, Places
  <2>4. GetDoc(c, r)
    BY <2>1 DEF WithDoc
  <2> HIDE DEF r
  <2>5. req'[c].note = req[c].note /\ \A x \in Clients \ {c} : req'[x] = req[x]
    BY <2>2, <2>3, <2>4, GetDocShape DEF LoadPlaces
  <2> QED
    BY <2>2, <2>5, LockHeld
<1>3. ASSUME NEW r, req' = [req EXCEPT ![c] = r], r.note = req[c].note,
             lock' = lock, Writing(c)
      PROVE  LockInv'
  BY <1>0, <1>3, LockHeld
<1>4. ASSUME NEW pc \in Places, Goto(c, pc), lock' = lock, Writing(c)
      PROVE  LockInv'
  <2> DEFINE r == [req[c] EXCEPT !.pc = pc]
  <2>1. r.note = req[c].note
    BY <1>0 DEF Requests
  <2>2. req' = [req EXCEPT ![c] = r]
    BY <1>4 DEF Goto
  <2> HIDE DEF r
  <2> QED
    BY <1>3, <1>4, <2>1, <2>2
<1>5. CASE Apply(c) \/ LocalEdit(c)
  <2> DEFINE r1 == [req[c] EXCEPT !.pc = "inspect", !.st = req[c].ref,
                                  !.before = PreDeltaState(c)]
             r2 == [req[c] EXCEPT !.pc = "append", !.st = req[c].ref]
  <2>1. r1.note = req[c].note /\ r2.note = req[c].note
    BY <1>0 DEF Requests
  <2>2. req' = [req EXCEPT ![c] = r1] \/ req' = [req EXCEPT ![c] = r2]
    BY <1>5 DEF Apply, LocalEdit
  <2> HIDE DEF r1, r2
  <2>3. lock' = lock /\ Writing(c)
    BY <1>5 DEF Apply, LocalEdit, Writing, Place
  <2> QED
    BY <1>3, <2>1, <2>2, <2>3
<1>6. CASE Accept(c) \/ Reject(c) \/ AppendLog(c) \/ Index(c) \/ Snapshot(c)
  BY <1>4, <1>6
  DEF Accept, Reject, AppendLog, Index, Snapshot, Writing, Place, Places
<1>7. CASE FanOut(c)
  <2>1. Writing(c)
    BY <1>7 DEF FanOut, Writing, Place
  <2>2. \/ Goto(c, "enforce") /\ lock' = lock
        \/ Release(c)
    BY <1>7 DEF FanOut
  <2> QED
    BY <1>4, <2>1, <2>2, LockReleased DEF Places
<1>8. CASE Deny(c) \/ EnforceNothing(c) \/ PurgeEvict(c)
  BY <1>8, LockReleased DEF Deny, EnforceNothing, PurgeEvict, Writing, Place
<1>9. CASE Enforce(c)
  <2> DEFINE mark == [req[c].delta EXCEPT !.kind = "draft"]
             r == [req[c] EXCEPT !.pc = "patch", !.via = "policy", !.delta = mark]
  <2>1. r.note = req[c].note
    BY <1>0 DEF Requests
  <2>2. req' = [req EXCEPT ![c] = r]
    BY <1>0, <1>9 DEF Enforce, Requests
  <2> HIDE DEF r
  <2>3. lock' = lock /\ Writing(c)
    BY <1>9 DEF Enforce, Writing, Place
  <2> QED
    BY <1>3, <2>1, <2>2, <2>3
<1>10. CASE LocalLock(c)
  <2> DEFINE r == [req[c] EXCEPT !.pc = "patch"]
  <2>1. r.note = req[c].note
    BY <1>0 DEF Requests
  <2>2. req' = [req EXCEPT ![c] = r] /\ Lock(c, req[c].note)
    BY <1>10 DEF LocalLock, Goto
  <2>3. req[c].note \in Notes
    BY <1>10 DEF LocalLock, TypeInv, HandlerShape, At
  <2> HIDE DEF r
  <2> QED
    BY <2>1, <2>2, <2>3, LockTaken
<1> QED
  BY <1>1, <1>2, <1>5, <1>6, <1>7, <1>8, <1>9, <1>10 DEF Step

LEMMA LoadLock ==
  ASSUME TypeInv, LockInv, NEW k \in Notes, Load(k)
  PROVE  LockInv'
<1>1. ASSUME NEW o \in Objs, NEW order, EvictOrResolve(k, o, order), lock' = lock
      PROVE  LockInv'
  BY <1>1, EvictOrResolveShape, LockKept DEF InWrite
<1>2. loading[k].stage \in {"index", "evict", "drop"} => loading[k].obj \in Objs
  BY DEF TypeInv, LoadShape
<1>3. CASE Install(k)
  <2> DEFINE o == CHOOSE x \in Free : TRUE
  <2>1. o \in Objs
    BY <1>3 DEF Install, Free
  <2>2. lock' = lock /\ (req' = req \/ EvictOrResolve(k, o, Touched(lru, k)))
    BY <1>3 DEF Install
  <2> HIDE DEF o
  <2> QED
    BY <1>1, <2>1, <2>2, LockKept
<1>4. CASE LoadIndex(k) \/ EvictNone(k)
  BY <1>1, <1>2, <1>4 DEF LoadIndex, EvictNone
<1>5. CASE EvictWrite(k)
  BY <1>5, LockKept DEF EvictWrite
<1>6. CASE EvictClean(k) \/ EvictWritten(k)
  BY <1>1, <1>2, <1>6 DEF EvictClean, EvictWritten, Evict
<1> QED
  BY <1>3, <1>4, <1>5, <1>6 DEF Load

LEMMA InitLockInv == Init => LockInv
BY DEF Init, LockInv, Writing, Place, IdleReq

LEMMA StepLockInv == TypeInv /\ LockInv /\ [Next]_vars => LockInv'
<1> SUFFICES ASSUME TypeInv, LockInv, [Next]_vars PROVE LockInv'
  OBVIOUS
<1>1. ASSUME NEW k \in Notes, Flush(k) PROVE LockInv'
  BY <1>1, LockKept DEF Flush
<1>5. ASSUME NEW s \in saves, Saved(s) PROVE LockInv'
  BY <1>5, LockKept DEF Saved
<1>2. CASE Crash \/ Exit
  BY <1>2 DEF Crash, Exit, Restart, LockInv, Writing, Place, IdleReq
<1>3. CASE Shutdown
  BY <1>3, LockKept DEF Shutdown
<1>4. CASE UNCHANGED vars
  BY <1>4, LockKept DEF vars
<1> QED
  BY <1>1, <1>2, <1>3, <1>4, <1>5, StartLock, StepLock, LoadLock DEF Next

\* Whatever the constants: two handlers are never inside the write section of
\* one note together, in whatever order they start, load, are refused, evict
\* each other's documents or crash.
THEOREM OneWriter == Spec => []OneWriterPerNote
<1>1. TypeInv /\ LockInv => OneWriterPerNote
  BY DEF LockInv, OneWriterPerNote
<1> QED
  BY InitTypeInv, StepTypeInv, InitLockInv, StepLockInv, <1>1, PTL DEF Spec

=============================================================================
