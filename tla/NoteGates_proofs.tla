-------------------------- MODULE NoteGates_proofs --------------------------
(***************************************************************************)
(* The draft gate, for any notes, requests and settings: what a gated      *)
(* agent wrote stays a draft until a request that is not gated writes the  *)
(* note's tags.                                                            *)
(*                                                                         *)
(* A gated request that has been decided carries the draft's tag in all it *)
(* would write, and a gated patch read it; what a request read of the tag  *)
(* is still so while the request counts as current.                        *)
(*                                                                         *)
(* And the quota: a request that was counted when it was decided still has *)
(* room for its row, until a new row takes the mark from it.               *)
(***************************************************************************)
EXTENDS NoteGates, FiniteSetTheorems, TLAPS

Words == {Draft, Secret} \cup UNION UNION {a.tags : a \in Shapes}

CallType ==
  [pc : {"none", "read", "decided", "written"}, op : Ops \cup {"none"}, agent : BOOLEAN,
   note : GateNotes \cup {"none"}, body : BOOLEAN, flagged : BOOLEAN,
   tags : SUBSET SUBSET Words, seen : SUBSET Words, gated : BOOLEAN,
   counted : BOOLEAN, current : BOOLEAN]

TextType == [tags : SUBSET Words, deleted : BOOLEAN]

Typed ==
  /\ call \in [Slots -> CallType]
  /\ text \in [GateNotes -> TextType]
  /\ unreviewed \subseteq GateNotes

\* What the gates made of a request.
Judged(c) ==
  /\ c.pc # "none" => c.note \in GateNotes /\ c.op \in Ops
  /\ c.op \in {"link", "delta", "delete"} => c.tags = {}
  /\ c.gated => \/ c.op = "create" /\ Draft \in Given(c)
                \/ c.op = "patch" /\ Draft \in c.seen /\ \A t \in c.tags : Draft \in t

\* What it read is so.
UpToDate(c) ==
  c.pc \in {"read", "decided"} /\ c.op # "create" /\ c.current /\ Draft \in c.seen
    => Draft \in text[c.note].tags

GatesInv ==
  /\ Typed
  /\ \A s \in Slots : Judged(call[s]) /\ UpToDate(call[s])
  /\ AgentTextIsDraft

----------------------------------------------------------------------------
(* Requests.                                                               *)

\* What others may change of a request.
Same(c, d) ==
  /\ d.pc = c.pc /\ d.op = c.op /\ d.note = c.note /\ d.body = c.body
  /\ d.tags = c.tags /\ d.seen = c.seen /\ d.gated = c.gated
  /\ d.current => c.current

LEMMA SameJudged ==
  ASSUME NEW c, NEW d, Same(c, d), Judged(c)
  PROVE  Judged(d)
  BY DEF Same, Judged, Given

LEMMA NoCallFine == NoCall \in CallType /\ Judged(NoCall) /\ UpToDate(NoCall)
  BY DEF NoCall, CallType, Judged, UpToDate

LEMMA ShapesTyped ==
  ASSUME NEW a \in Shapes
  PROVE  /\ ShapeOK(a)
         /\ a.tags \in SUBSET SUBSET Words
<1>1. ShapeOK(a)
  BY GatesAssumption
<1>2. \A t \in a.tags : t \subseteq UNION UNION {b.tags : b \in Shapes}
  OBVIOUS
<1> QED BY <1>1, <1>2 DEF Words

\* A new request has read the note as it is.
LEMMA CallFine ==
  ASSUME Typed, NEW s \in Slots, NEW a \in Shapes, NEW n \in GateNotes, Call(s, a, n)
  PROVE  /\ call' \in [Slots -> CallType]
         /\ Judged(call'[s]) /\ UpToDate(call[s])'
         /\ \A u \in Slots \ {s} : call'[u] = call[u]
<1> DEFINE c == [NoCall EXCEPT !.pc = "read", !.op = a.op, !.agent = a.agent, !.note = n,
                   !.body = a.body, !.flagged = a.flagged, !.tags = a.tags, !.seen = text[n].tags]
<1>1. NoCall \in CallType /\ NoCall.gated = FALSE
  BY NoCallFine DEF NoCall
<1>2. /\ a.op \in Ops /\ a.agent \in BOOLEAN /\ a.body \in BOOLEAN /\ a.flagged \in BOOLEAN
      /\ a.tags \in SUBSET SUBSET Words /\ text[n].tags \in SUBSET Words
      /\ a.op \in {"link", "delta", "delete"} => a.tags = {}
  BY ShapesTyped DEF ShapeOK, Typed, TextType
<1>3. c \in CallType
  BY <1>1, <1>2 DEF CallType
<1>4. c.op = a.op /\ c.note = n /\ c.tags = a.tags /\ c.seen = text[n].tags /\ c.gated = FALSE
  BY <1>1, <1>2 DEF CallType
<1>5. call' = [call EXCEPT ![s] = c] /\ text' = text
  BY DEF Call
<1> HIDE DEF c
<1>6. call'[s] = c /\ call' \in [Slots -> CallType] /\ \A u \in Slots \ {s} : call'[u] = call[u]
  BY <1>3, <1>5 DEF Typed
<1>7. Judged(call'[s])
  BY <1>2, <1>4, <1>6 DEF Judged
<1>8. UpToDate(call[s])'
  BY <1>4, <1>5, <1>6 DEF UpToDate
<1> QED BY <1>6, <1>7, <1>8

----------------------------------------------------------------------------
(* Decisions.                                                              *)

LEMMA SecretGateTyped ==
  ASSUME NEW c, NEW tags \in SUBSET Words
  PROVE  /\ SecretGate(c, tags) \in SUBSET SUBSET Words
         /\ \A t \in SecretGate(c, tags) : tags \subseteq t
  BY DEF SecretGate, Words

\* A decision that keeps the request's reading.
LEMMA DecidedFine ==
  ASSUME Typed, NEW s \in Slots, Judged(call[s]), UpToDate(call[s]), call[s].pc = "read",
         NEW r \in CallType, Decided(s, r), UNCHANGED text,
         r.op = call[s].op, r.note = call[s].note, r.seen = call[s].seen, r.current = call[s].current,
         r.op \in {"link", "delta", "delete"} => r.tags = {},
         r.gated => \/ r.op = "create" /\ Draft \in UNION r.tags
                    \/ r.op = "patch" /\ Draft \in r.seen /\ \A t \in r.tags : Draft \in t
  PROVE  /\ call' \in [Slots -> CallType]
         /\ Judged(call'[s]) /\ UpToDate(call[s])'
         /\ \A u \in Slots \ {s} : call'[u] = call[u]
<1> DEFINE d == [r EXCEPT !.pc = "decided"]
<1>1. d \in CallType
  BY DEF CallType
<1>2. /\ d.pc = "decided" /\ d.op = r.op /\ d.note = r.note /\ d.tags = r.tags /\ d.seen = r.seen
      /\ d.gated = r.gated /\ d.current = r.current
  BY DEF CallType
<1>3. call' = [call EXCEPT ![s] = d]
  BY DEF Decided
<1> HIDE DEF d
<1>4. call'[s] = d /\ call' \in [Slots -> CallType] /\ \A u \in Slots \ {s} : call'[u] = call[u]
  BY <1>1, <1>3 DEF Typed
<1>5. Judged(call'[s])
  BY <1>2, <1>4 DEF Judged, Given
<1>6. UpToDate(call[s])'
  BY <1>2, <1>4 DEF UpToDate
<1> QED BY <1>4, <1>5, <1>6

LEMMA RefusedFine ==
  ASSUME Typed, NEW s \in Slots, Refuse(s)
  PROVE  /\ call' \in [Slots -> CallType]
         /\ Judged(call'[s]) /\ UpToDate(call[s])'
         /\ \A u \in Slots \ {s} : call'[u] = call[u]
<1>1. call'[s] = NoCall /\ call' \in [Slots -> CallType] /\ \A u \in Slots \ {s} : call'[u] = call[u]
  BY NoCallFine DEF Refuse, Typed
<1>2. Judged(call'[s])
  BY <1>1, NoCallFine
<1>3. call'[s].pc = "none"
  BY <1>1 DEF NoCall
<1> QED BY <1>1, <1>2, <1>3 DEF UpToDate

\* A step of one request that leaves the notes as they are.
LEMMA SlotKeeps ==
  ASSUME GatesInv, NEW s \in Slots, UNCHANGED <<text, unreviewed>>,
         call' \in [Slots -> CallType], Judged(call'[s]), UpToDate(call[s])',
         \A u \in Slots \ {s} : call'[u] = call[u]
  PROVE  GatesInv'
<1>1. Typed' /\ AgentTextIsDraft'
  BY DEF GatesInv, Typed, AgentTextIsDraft
<1>2. ASSUME NEW u \in Slots PROVE (Judged(call[u]) /\ UpToDate(call[u]))'
  <2>1. CASE u = s
    BY <2>1 DEF Judged, Given
  <2>2. CASE u # s
    BY <2>2 DEF GatesInv, Judged, Given, UpToDate
  <2> QED BY <2>1, <2>2
<1> QED BY <1>1, <1>2 DEF GatesInv

LEMMA CreateDecided ==
  ASSUME GatesInv, NEW s \in Slots, DecideCreate(s)
  PROVE  GatesInv'
<1> DEFINE c == call[s]
           asked == Given(c) \cup IF Gated(c) THEN {Draft} ELSE {}
           passed == {t \in SecretGate(c, asked) : ~MissingFacets(t)}
           r == [c EXCEPT !.tags = passed, !.gated = Gated(c), !.counted = ~HasRow(c.note)]
<1>1. c \in CallType /\ Judged(c) /\ UpToDate(c) /\ c.pc = "read" /\ c.op = "create"
  BY DEF GatesInv, Typed, DecideCreate
<1>2. asked \in SUBSET Words
  BY <1>1 DEF CallType, Given, Words
<1>3. passed \in SUBSET SUBSET Words /\ \A t \in passed : asked \subseteq t
  BY <1>2, SecretGateTyped
<1>4. Gated(c) \in BOOLEAN /\ HasRow(c.note) \in BOOLEAN
  BY <1>1 DEF CallType, Gated, HasRow
<1>5. Gated(c) /\ passed # {} => Draft \in UNION passed
  BY <1>3
<1>6. CASE passed # {} /\ QuotaAllows(c.note)
  <2>1. Decided(s, r)
    BY <1>6 DEF DecideCreate
  <2> HIDE DEF c, passed
  <2>2. r \in CallType
    BY <1>1, <1>3, <1>4 DEF CallType
  <2>3. r.op = c.op /\ r.note = c.note /\ r.seen = c.seen /\ r.current = c.current
        /\ r.tags = passed /\ r.gated = Gated(c)
    BY <1>1 DEF CallType
  <2> HIDE DEF r
  <2>4. UNCHANGED <<text, unreviewed>>
    BY DEF DecideCreate
  <2>5. /\ r.op \in {"link", "delta", "delete"} => r.tags = {}
        /\ r.gated => \/ r.op = "create" /\ Draft \in UNION r.tags
                      \/ r.op = "patch" /\ Draft \in r.seen /\ \A t \in r.tags : Draft \in t
    BY <2>3, <1>1, <1>5, <1>6
  <2> QED BY <1>1, <2>1, <2>2, <2>3, <2>4, <2>5, DecidedFine, SlotKeeps DEF c, GatesInv
<1>7. CASE ~(passed # {} /\ QuotaAllows(c.note))
  <2>1. Refuse(s) /\ UNCHANGED <<text, unreviewed>>
    BY <1>7 DEF DecideCreate
  <2> QED BY <2>1, RefusedFine, SlotKeeps DEF GatesInv
<1> QED BY <1>6, <1>7

\* All a gated patch would write keeps the draft's tag.
LEMMA PatchTagsTyped ==
  ASSUME NEW c \in CallType
  PROVE  /\ PatchTags(c) \in SUBSET SUBSET Words
         /\ Gated(c) => \A t \in PatchTags(c) : Draft \in t
<1>1. c.seen \in SUBSET Words /\ Given(c) \in SUBSET Words /\ c.tags \in SUBSET SUBSET Words
  BY DEF CallType, Given
<1>2. ScannedTags(c) \in SUBSET SUBSET Words
  BY <1>1, SecretGateTyped DEF ScannedTags
<1>3. Draft \in Words
  BY DEF Words
<1> QED BY <1>2, <1>3 DEF PatchTags

LEMMA PatchDecided ==
  ASSUME GatesInv, NEW s \in Slots, DecidePatch(s)
  PROVE  GatesInv'
<1> DEFINE c == call[s]
           tags == PatchTags(c)
           r == [c EXCEPT !.tags = tags, !.gated = Gated(c)]
           passes == /\ c.body => SecretGate(c, {}) # {}
                     /\ Gated(c) => Draft \in c.seen
                     /\ \A t \in tags : ~MissingFacets(t)
<1>1. c \in CallType /\ Judged(c) /\ UpToDate(c) /\ c.pc = "read" /\ c.op = "patch"
  BY DEF GatesInv, Typed, DecidePatch
<1>2. tags \in SUBSET SUBSET Words /\ (Gated(c) => \A t \in tags : Draft \in t)
  BY <1>1, PatchTagsTyped
<1>3. Gated(c) \in BOOLEAN
  BY <1>1 DEF CallType, Gated
<1>4. CASE passes
  <2>1. Decided(s, r)
    BY <1>4 DEF DecidePatch
  <2> HIDE DEF c, tags
  <2>2. r \in CallType
    BY <1>1, <1>2, <1>3 DEF CallType
  <2>3. r.op = c.op /\ r.note = c.note /\ r.seen = c.seen /\ r.current = c.current
        /\ r.tags = tags /\ r.gated = Gated(c)
    BY <1>1 DEF CallType
  <2> HIDE DEF r
  <2>4. UNCHANGED <<text, unreviewed>>
    BY DEF DecidePatch
  <2>5. /\ r.op \in {"link", "delta", "delete"} => r.tags = {}
        /\ r.gated => \/ r.op = "create" /\ Draft \in UNION r.tags
                      \/ r.op = "patch" /\ Draft \in r.seen /\ \A t \in r.tags : Draft \in t
    BY <2>3, <1>1, <1>2, <1>4
  <2> QED BY <1>1, <2>1, <2>2, <2>3, <2>4, <2>5, DecidedFine, SlotKeeps DEF c, GatesInv
<1>5. CASE ~passes
  <2>1. Refuse(s) /\ UNCHANGED <<text, unreviewed>>
    BY <1>5 DEF DecidePatch
  <2> QED BY <2>1, RefusedFine, SlotKeeps DEF GatesInv
<1> QED BY <1>4, <1>5

LEMMA OtherDecided ==
  ASSUME GatesInv, NEW s \in Slots, DecideOther(s)
  PROVE  GatesInv'
<1> DEFINE c == call[s]
           tags == IF c.op = "promote" THEN {c.seen \ {Draft}} ELSE {}
           counted == c.op = "delta" /\ ~HasRow(c.note)
           r == [c EXCEPT !.counted = counted, !.tags = tags]
<1>1. /\ c \in CallType /\ Judged(c) /\ UpToDate(c) /\ c.pc = "read"
      /\ c.op \in {"promote", "delete", "link", "delta"}
  BY DEF GatesInv, Typed, DecideOther
<1>2. tags \in SUBSET SUBSET Words /\ counted \in BOOLEAN
  BY <1>1 DEF CallType, HasRow
<1>3. ~c.gated
  BY <1>1 DEF Judged
<1>4. CASE c.op = "delta" /\ ~QuotaAllows(c.note)
  <2>1. Refuse(s) /\ UNCHANGED <<text, unreviewed>>
    BY <1>4 DEF DecideOther
  <2> QED BY <2>1, RefusedFine, SlotKeeps DEF GatesInv
<1>5. CASE ~(c.op = "delta" /\ ~QuotaAllows(c.note))
  <2>1. Decided(s, r)
    BY <1>5 DEF DecideOther
  <2>2. c.op \in {"link", "delta", "delete"} => tags = {}
    OBVIOUS
  <2> HIDE DEF c, tags, counted
  <2>3. r \in CallType
    BY <1>1, <1>2 DEF CallType
  <2>4. r.op = c.op /\ r.note = c.note /\ r.seen = c.seen /\ r.current = c.current
        /\ r.tags = tags /\ r.gated = c.gated
    BY <1>1 DEF CallType
  <2> HIDE DEF r
  <2>5. UNCHANGED <<text, unreviewed>>
    BY DEF DecideOther
  <2>6. /\ r.op \in {"link", "delta", "delete"} => r.tags = {}
        /\ ~r.gated
    BY <2>2, <2>4, <1>3
  <2> QED BY <1>1, <2>1, <2>3, <2>4, <2>5, <2>6, DecidedFine, SlotKeeps DEF c, GatesInv
<1> QED BY <1>4, <1>5

----------------------------------------------------------------------------
(* Writes.                                                                 *)

\* The edit of a request that is gated, or that writes no tags but adds them,
\* keeps the draft's tag where it is.
LEMMA EditKeepsDraft ==
  ASSUME GatesInv, NEW s \in Slots, call[s].pc = "decided", Draft \in text[call[s].note].tags,
         ~(~call[s].gated /\ call[s].op \in {"patch", "promote"} /\ call[s].tags # {})
  PROVE  Draft \in Edited(call[s]).tags
<1> DEFINE c == call[s]
<1>1. c \in CallType /\ Judged(c)
  BY DEF GatesInv, Typed
<1>2. c.op \in Ops
  BY <1>1 DEF Judged
<1>3. CASE c.op = "create"
  BY <1>3 DEF Edited
<1>4. CASE c.op # "create" /\ c.tags = {}
  BY <1>4 DEF Edited
<1>5. CASE c.op = "patch" /\ c.gated /\ c.tags # {}
  <2>1. Draft \in Given(c)
    BY <1>5, <1>1 DEF Judged, Given
  <2> QED BY <2>1, <1>5 DEF Edited
<1>6. CASE c.op = "promote" /\ c.gated
  BY <1>6, <1>1 DEF Judged
<1> QED BY <1>2, <1>3, <1>4, <1>5, <1>6, <1>1 DEF Ops, Judged

\* A request to which others did no more than make it less current.
LEMMA Lowered ==
  ASSUME NEW c \in CallType, NEW b \in BOOLEAN
  PROVE  /\ [c EXCEPT !.current = FALSE] \in CallType /\ Same(c, [c EXCEPT !.current = FALSE])
         /\ ~[c EXCEPT !.current = FALSE].current
         /\ [c EXCEPT !.counted = b] \in CallType /\ Same(c, [c EXCEPT !.counted = b])
         /\ Same(c, c)
<1>1. [c EXCEPT !.current = FALSE] \in CallType /\ [c EXCEPT !.counted = b] \in CallType
  BY DEF CallType
<1>2. Same(c, [c EXCEPT !.current = FALSE]) /\ ~[c EXCEPT !.current = FALSE].current
  BY DEF CallType, Same
<1>3. Same(c, [c EXCEPT !.counted = b]) /\ Same(c, c)
  BY DEF CallType, Same
<1> QED BY <1>1, <1>2, <1>3

LEMMA EditApplied ==
  ASSUME GatesInv, NEW s \in Slots, ApplyEdit(s)
  PROVE  GatesInv'
<1> DEFINE c == call[s]
           n == c.note
           rules == ~c.gated /\ c.op \in {"patch", "promote"} /\ c.tags # {}
           written == [c EXCEPT !.pc = "written"]
<1>1. /\ c \in CallType /\ Judged(c) /\ UpToDate(c) /\ c.pc = "decided"
      /\ n \in GateNotes /\ c.op \in Ops
  BY DEF GatesInv, Typed, ApplyEdit, Judged
<1>2. written \in CallType /\ Judged(written) /\ written.pc = "written"
  <2> HIDE DEF c
  <2>1. /\ written \in CallType /\ written.pc = "written" /\ written.op = c.op /\ written.note = c.note
        /\ written.tags = c.tags /\ written.seen = c.seen /\ written.gated = c.gated
    BY <1>1 DEF CallType
  <2> HIDE DEF written
  <2> QED BY <1>1, <2>1 DEF Judged, Given
<1>3. Edited(c) \in TextType
  <2>1. text[n] \in TextType /\ Given(c) \in SUBSET Words
    BY <1>1 DEF GatesInv, Typed, CallType, Given
  <2> QED BY <2>1 DEF Edited, TextType
<1>4. /\ text' = [text EXCEPT ![n] = Edited(c)]
      /\ unreviewed' = IF rules THEN unreviewed \ {n}
                       ELSE IF c.gated /\ c.body /\ c.current THEN unreviewed \cup {n} ELSE unreviewed
      /\ call' = [u \in Slots |->
           IF u = s THEN written
           ELSE IF rules /\ call[u].note = n /\ call[u].op # "create"
           THEN [call[u] EXCEPT !.current = FALSE] ELSE call[u]]
  BY DEF ApplyEdit
<1>5. \A u \in Slots \ {s} :
        /\ call[u] \in CallType
        /\ call'[u] \in CallType /\ Same(call[u], call'[u])
        /\ rules /\ call[u].note = n /\ call[u].op # "create" => ~call'[u].current
  BY <1>4, Lowered DEF GatesInv, Typed
<1> HIDE DEF written
<1>6. call'[s] = written
  BY <1>4
<1>7. Typed'
  <2>1. call' = [u \in Slots |-> call'[u]]
    BY <1>4
  <2>2. \A u \in Slots : call'[u] \in CallType
    BY <1>2, <1>5, <1>6
  <2>3. text' \in [GateNotes -> TextType] /\ unreviewed' \subseteq GateNotes
    BY <1>1, <1>3, <1>4 DEF GatesInv, Typed
  <2> QED BY <2>1, <2>2, <2>3 DEF Typed
<1>8. text'[n] = Edited(c) /\ \A m \in GateNotes \ {n} : text'[m] = text[m]
  BY <1>1, <1>4 DEF GatesInv, Typed
<1>9. Draft \in text[n].tags /\ ~rules => Draft \in text'[n].tags
  BY <1>1, <1>8, EditKeepsDraft
<1>10. ASSUME NEW u \in Slots PROVE Judged(call'[u]) /\ UpToDate(call[u])'
  <2>1. CASE u = s
    BY <2>1, <1>2, <1>6 DEF UpToDate
  <2>2. CASE u # s
    <3>1. Same(call[u], call'[u]) /\ Judged(call[u]) /\ UpToDate(call[u])
      BY <2>2, <1>5 DEF GatesInv
    <3>2. Judged(call'[u])
      BY <3>1, SameJudged
    <3>3. ASSUME call'[u].pc \in {"read", "decided"}, call'[u].op # "create", call'[u].current,
                 Draft \in call'[u].seen
          PROVE  Draft \in text'[call'[u].note].tags
      <4>1. Draft \in text[call[u].note].tags /\ call[u].note \in GateNotes
        BY <3>1, <3>3 DEF Same, UpToDate, Judged
      <4>2. CASE call[u].note = n
        <5>1. ~rules
          BY <2>2, <3>1, <3>3, <4>2, <1>5 DEF Same
        <5> QED BY <5>1, <4>1, <4>2, <1>9, <3>1 DEF Same
      <4>3. CASE call[u].note # n
        BY <4>1, <4>3, <1>8, <3>1 DEF Same
      <4> QED BY <4>2, <4>3
    <3> QED BY <3>2, <3>3 DEF UpToDate
  <2> QED BY <2>1, <2>2
<1>11. ASSUME NEW m \in unreviewed' PROVE Draft \in text'[m].tags
  <2>1. CASE m # n
    <3>1. m \in unreviewed /\ m \in GateNotes
      BY <2>1, <1>4 DEF GatesInv, Typed
    <3> QED BY <3>1, <2>1, <1>8 DEF GatesInv, AgentTextIsDraft
  <2>2. CASE m = n
    <3>1. ~rules
      BY <2>2, <1>4
    <3>2. CASE n \in unreviewed
      BY <3>1, <3>2, <2>2, <1>9 DEF GatesInv, AgentTextIsDraft
    <3>3. CASE c.gated /\ c.current /\ c.op = "create"
      BY <3>3, <2>2, <1>1, <1>8 DEF Judged, Edited
    <3>4. CASE c.gated /\ c.current /\ c.op = "patch"
      <4>1. Draft \in c.seen
        BY <3>4, <1>1 DEF Judged
      <4>2. Draft \in text[n].tags
        BY <4>1, <3>4, <1>1 DEF UpToDate
      <4> QED BY <4>2, <3>1, <2>2, <1>9
    <3>5. n \in unreviewed \/ (c.gated /\ c.current)
      BY <3>1, <2>2, <1>4
    <3>6. c.gated => c.op \in {"create", "patch"}
      BY <1>1 DEF Judged
    <3> QED BY <3>2, <3>3, <3>4, <3>5, <3>6
  <2> QED BY <2>1, <2>2
<1> QED BY <1>7, <1>10, <1>11 DEF GatesInv, AgentTextIsDraft, Judged, Given

\* Steps that leave the notes and touch no more of a request than Same allows,
\* or end it.
LEMMA CallsKeep ==
  ASSUME GatesInv, UNCHANGED <<text, unreviewed>>, call' \in [Slots -> CallType],
         \A u \in Slots : call'[u] = NoCall \/ Same(call[u], call'[u])
  PROVE  GatesInv'
<1>1. Typed' /\ AgentTextIsDraft'
  BY DEF GatesInv, Typed, AgentTextIsDraft
<1>2. ASSUME NEW u \in Slots PROVE Judged(call'[u]) /\ UpToDate(call[u])'
  <2>1. CASE call'[u] = NoCall
    BY <2>1, NoCallFine DEF UpToDate, NoCall
  <2>2. CASE Same(call[u], call'[u])
    <3>1. Judged(call[u]) /\ UpToDate(call[u])
      BY DEF GatesInv
    <3>2. Judged(call'[u])
      BY <2>2, <3>1, SameJudged
    <3>3. UpToDate(call[u])'
      BY <2>2, <3>1 DEF UpToDate, Same
    <3> QED BY <3>2, <3>3
  <2> QED BY <2>1, <2>2
<1> QED BY <1>1, <1>2 DEF GatesInv, Judged, Given

LEMMA RowIndexed ==
  ASSUME GatesInv, NEW s \in Slots, IndexRow(s)
  PROVE  GatesInv'
<1>1. PICK new \in BOOLEAN :
        call' = [u \in Slots |-> IF u = s THEN NoCall
                                 ELSE IF new THEN [call[u] EXCEPT !.counted = FALSE] ELSE call[u]]
  BY DEF IndexRow
<1>2. \A u \in Slots : call[u] \in CallType
  BY DEF GatesInv, Typed
<1>3. \A u \in Slots : call'[u] = NoCall \/ (call'[u] \in CallType /\ Same(call[u], call'[u]))
  BY <1>1, <1>2, Lowered
<1>4. call' \in [Slots -> CallType]
  <2>1. call' = [u \in Slots |-> call'[u]]
    BY <1>1
  <2>2. \A u \in Slots : call'[u] \in CallType
    BY <1>3, NoCallFine
  <2> QED BY <2>1, <2>2
<1> QED BY <1>3, <1>4, CallsKeep DEF IndexRow

LEMMA TextPurged ==
  ASSUME GatesInv, NEW n \in GateNotes, PurgeText(n)
  PROVE  GatesInv'
<1>1. \A u \in Slots : call[u] \in CallType /\ Judged(call[u]) /\ UpToDate(call[u])
  BY DEF GatesInv, Typed
<1>2. call' = [u \in Slots |-> IF call[u].note = n /\ call[u].op # "create"
                               THEN [call[u] EXCEPT !.current = FALSE] ELSE call[u]]
  BY DEF PurgeText
<1>3. \A u \in Slots : /\ call'[u] \in CallType /\ Same(call[u], call'[u])
                       /\ call[u].note = n /\ call[u].op # "create" => ~call'[u].current
  BY <1>1, <1>2, Lowered
<1>4. text' = [text EXCEPT ![n] = Blank] /\ unreviewed' = unreviewed \ {n}
  BY DEF PurgeText
<1>5. Typed'
  <2>1. call' \in [Slots -> CallType]
    BY <1>2, <1>3
  <2>2. Blank \in TextType
    BY DEF Blank, TextType
  <2> QED BY <2>1, <2>2, <1>4 DEF GatesInv, Typed
<1>6. \A m \in GateNotes \ {n} : text'[m] = text[m]
  BY <1>4 DEF GatesInv, Typed
<1>7. ASSUME NEW u \in Slots PROVE Judged(call'[u]) /\ UpToDate(call[u])'
  <2>1. Judged(call'[u])
    BY <1>1, <1>3, SameJudged
  <2>2. ASSUME call'[u].pc \in {"read", "decided"}, call'[u].op # "create", call'[u].current,
               Draft \in call'[u].seen
        PROVE  Draft \in text'[call'[u].note].tags
    <3>1. call'[u].note = call[u].note /\ call[u].note \in GateNotes \ {n}
      BY <2>2, <1>1, <1>3 DEF Same, Judged
    <3>2. Draft \in text[call[u].note].tags
      BY <2>2, <1>1, <1>3 DEF Same, UpToDate
    <3> QED BY <3>1, <3>2, <1>6
  <2> QED BY <2>1, <2>2 DEF UpToDate
<1>8. AgentTextIsDraft'
  BY <1>4, <1>6 DEF GatesInv, Typed, AgentTextIsDraft
<1> QED BY <1>5, <1>7, <1>8 DEF GatesInv, Judged, Given

LEMMA SettingsPut ==
  ASSUME GatesInv, NEW new \in AllSettings, PutSettings(new)
  PROVE  GatesInv'
<1>1. \A u \in Slots : call[u] \in CallType
  BY DEF GatesInv, Typed
<1>2. CASE UNCHANGED call
  BY <1>1, <1>2, Lowered, CallsKeep DEF PutSettings, GatesInv, Typed
<1>3. CASE call' = [u \in Slots |-> [call[u] EXCEPT !.counted = FALSE]]
  <2>1. \A u \in Slots : call'[u] \in CallType /\ Same(call[u], call'[u])
    BY <1>1, <1>3, Lowered
  <2>2. call' \in [Slots -> CallType]
    BY <1>3, <2>1
  <2> QED BY <2>1, <2>2, CallsKeep DEF PutSettings
<1> QED BY <1>2, <1>3 DEF PutSettings

LEMMA GatesInitially == GatesInit => GatesInv
<1> SUFFICES ASSUME GatesInit PROVE GatesInv
  OBVIOUS
<1>1. \A s \in Slots : call[s] = NoCall
  BY DEF GatesInit
<1>2. Typed
  BY NoCallFine DEF GatesInit, Typed, TextType, Blank
<1>3. AgentTextIsDraft
  BY DEF GatesInit, AgentTextIsDraft
<1> QED BY <1>1, <1>2, <1>3, NoCallFine DEF GatesInv

LEMMA GatesInductive == GatesInv /\ [GatesNext]_gateVars => GatesInv'
<1> SUFFICES ASSUME GatesInv, [GatesNext]_gateVars PROVE GatesInv'
  OBVIOUS
<1>1. ASSUME NEW s \in Slots, NEW a \in Shapes, NEW n \in GateNotes, Call(s, a, n) PROVE GatesInv'
  <2>1. Typed
    BY DEF GatesInv
  <2> QED BY <1>1, <2>1, CallFine, SlotKeeps DEF Call
<1>2. ASSUME NEW n \in GateNotes, StubRow(n) PROVE GatesInv'
  BY <1>2, Lowered, CallsKeep DEF StubRow, GatesInv, Typed
<1>3. CASE UNCHANGED gateVars
  BY <1>3, Lowered, CallsKeep DEF gateVars, GatesInv, Typed
<1> QED
  BY <1>1, <1>2, <1>3, CreateDecided, PatchDecided, OtherDecided, EditApplied, RowIndexed,
     TextPurged, SettingsPut DEF GatesNext

\* For any notes, requests and settings, with every route's reading, decision,
\* write and indexing interleaved with purges, stubs and changes of settings:
\* a gated agent's text stays a draft until a request that is not gated
\* writes the note's tags.
THEOREM AgentTextStaysDraft == GatesSpec => []AgentTextIsDraft
<1>1. GatesInv => AgentTextIsDraft
  BY DEF GatesInv
<1> QED BY <1>1, GatesInitially, GatesInductive, PTL DEF GatesSpec

----------------------------------------------------------------------------
(* The quota.  A request that was counted found room for a row and nobody  *)
(* has made one since: a new row takes the mark from all the others.       *)

Counted == Rows \ uncounted

HasPlace(c) ==
  c.counted => /\ c.pc \in {"decided", "written"}
               /\ settings.maxNotes > 0 => Cardinality(Counted) < settings.maxNotes

QuotaInv ==
  /\ settings.maxNotes \in Nat
  /\ listed \in [GateNotes -> {"none", "stub", "note"}]
  /\ IsFiniteSet(Rows)
  /\ \A s \in Slots : HasPlace(call[s])
  /\ QuotaExplained

\* Fewer rows pass no quota that more did not.
LEMMA FewerRows ==
  ASSUME QuotaInv, UNCHANGED settings, listed' \in [GateNotes -> {"none", "stub", "note"}],
         Rows' \subseteq Rows, Counted' \subseteq Counted,
         \A u \in Slots : call'[u].counted => call[u].counted /\ call'[u].pc \in {"decided", "written"}
  PROVE  QuotaInv'
<1>1. IsFiniteSet(Rows) /\ IsFiniteSet(Counted)
  BY FS_Subset DEF QuotaInv, Counted
<1>2. IsFiniteSet(Rows')
  BY <1>1, FS_Subset
<1>3. /\ Cardinality(Counted') <= Cardinality(Counted)
      /\ Cardinality(Counted) \in Nat /\ Cardinality(Counted') \in Nat
  <2>1. IsFiniteSet(Counted') /\ Cardinality(Counted') <= Cardinality(Counted)
    BY <1>1, FS_Subset
  <2> QED BY <1>1, <2>1, FS_CardinalityType
<1>4. ASSUME NEW u \in Slots PROVE HasPlace(call[u])'
  BY <1>3 DEF QuotaInv, HasPlace
<1>5. QuotaExplained'
  BY <1>3 DEF QuotaInv, QuotaExplained, Counted
<1> QED BY <1>2, <1>4, <1>5 DEF QuotaInv

\* Steps that leave the rows alone and count a request only where it has room.
LEMMA RowsSame ==
  ASSUME QuotaInv, UNCHANGED <<settings, listed, uncounted>>,
         \A u \in Slots : call'[u].counted =>
           call'[u].pc \in {"decided", "written"} /\ (call[u].counted \/ ~QuotaExceeded)
  PROVE  QuotaInv'
<1>1. IsFiniteSet(Rows) /\ Rows' = Rows /\ Counted' = Counted
  BY DEF QuotaInv, Rows, Counted
<1>2. IsFiniteSet(Counted) /\ Cardinality(Counted) <= Cardinality(Rows)
  BY <1>1, FS_Subset DEF Counted
<1>3. Cardinality(Counted) \in Nat /\ Cardinality(Rows) \in Nat
  BY <1>1, <1>2, FS_CardinalityType
<1>4. ASSUME NEW u \in Slots PROVE HasPlace(call[u])'
  <2>1. HasPlace(call[u])
    BY DEF QuotaInv
  <2> QED BY <1>1, <1>2, <1>3, <2>1 DEF QuotaInv, HasPlace, QuotaExceeded
<1>5. QuotaExplained'
  BY <1>1 DEF QuotaInv, QuotaExplained, Counted
<1> QED BY <1>1, <1>4, <1>5 DEF QuotaInv

\* A step of one slot.
LEMMA SlotCounts ==
  ASSUME GatesInv, QuotaInv, NEW s \in Slots, NEW c,
         UNCHANGED <<settings, listed, uncounted>>, call' = [call EXCEPT ![s] = c],
         c.counted => c.pc \in {"decided", "written"} /\ (call[s].counted \/ ~QuotaExceeded)
  PROVE  QuotaInv'
<1>1. ASSUME NEW u \in Slots, call'[u].counted
      PROVE  call'[u].pc \in {"decided", "written"} /\ (call[u].counted \/ ~QuotaExceeded)
  <2>1. CASE u = s
    BY <1>1, <2>1 DEF GatesInv, Typed
  <2>2. CASE u # s
    <3>1. call'[u] = call[u]
      BY <2>2 DEF GatesInv, Typed
    <3> QED BY <1>1, <3>1 DEF QuotaInv, HasPlace
  <2> QED BY <2>1, <2>2
<1> QED BY <1>1, RowsSame

LEMMA CreateCounts ==
  ASSUME GatesInv, QuotaInv, NEW s \in Slots, DecideCreate(s)
  PROVE  QuotaInv'
<1>1. call[s] \in CallType /\ ~call[s].counted
  BY DEF GatesInv, Typed, DecideCreate, QuotaInv, HasPlace
<1>2. CASE Refuse(s)
  BY <1>2, SlotCounts DEF DecideCreate, Refuse, NoCall
<1>3. CASE ~Refuse(s)
  <2>1. PICK tags : /\ QuotaAllows(call[s].note)
                    /\ Decided(s, [call[s] EXCEPT !.tags = tags, !.gated = Gated(call[s]),
                                                  !.counted = ~HasRow(call[s].note)])
    BY <1>3 DEF DecideCreate
  <2> DEFINE c == [[call[s] EXCEPT !.tags = tags, !.gated = Gated(call[s]),
                                   !.counted = ~HasRow(call[s].note)] EXCEPT !.pc = "decided"]
  <2>2. c.pc = "decided" /\ c.counted = ~HasRow(call[s].note)
    BY <1>1 DEF CallType
  <2>3. call' = [call EXCEPT ![s] = c]
    BY <2>1 DEF Decided
  <2>4. c.counted => ~QuotaExceeded
    BY <2>1, <2>2 DEF QuotaAllows
  <2> QED BY <2>2, <2>3, <2>4, SlotCounts DEF DecideCreate
<1> QED BY <1>2, <1>3

LEMMA PatchCounts ==
  ASSUME GatesInv, QuotaInv, NEW s \in Slots, DecidePatch(s)
  PROVE  QuotaInv'
<1>1. call[s] \in CallType /\ ~call[s].counted
  BY DEF GatesInv, Typed, DecidePatch, QuotaInv, HasPlace
<1>2. CASE Refuse(s)
  BY <1>2, SlotCounts DEF DecidePatch, Refuse, NoCall
<1>3. CASE ~Refuse(s)
  <2>1. PICK tags : Decided(s, [call[s] EXCEPT !.tags = tags, !.gated = Gated(call[s])])
    BY <1>3 DEF DecidePatch
  <2> DEFINE c == [[call[s] EXCEPT !.tags = tags, !.gated = Gated(call[s])] EXCEPT !.pc = "decided"]
  <2>2. ~c.counted
    BY <1>1 DEF CallType
  <2>3. call' = [call EXCEPT ![s] = c]
    BY <2>1 DEF Decided
  <2> QED BY <2>2, <2>3, SlotCounts DEF DecidePatch
<1> QED BY <1>2, <1>3

LEMMA OtherCounts ==
  ASSUME GatesInv, QuotaInv, NEW s \in Slots, DecideOther(s)
  PROVE  QuotaInv'
<1>1. call[s] \in CallType /\ ~call[s].counted
  BY DEF GatesInv, Typed, DecideOther, QuotaInv, HasPlace
<1>2. CASE Refuse(s)
  BY <1>2, SlotCounts DEF DecideOther, Refuse, NoCall
<1>3. CASE ~Refuse(s)
  <2>1. PICK tags :
          /\ call[s].op = "delta" => QuotaAllows(call[s].note)
          /\ Decided(s, [call[s] EXCEPT !.counted = call[s].op = "delta" /\ ~HasRow(call[s].note),
                                        !.tags = tags])
    BY <1>3 DEF DecideOther
  <2> DEFINE c == [[call[s] EXCEPT !.counted = call[s].op = "delta" /\ ~HasRow(call[s].note),
                                   !.tags = tags] EXCEPT !.pc = "decided"]
  <2>2. c.pc = "decided" /\ c.counted = (call[s].op = "delta" /\ ~HasRow(call[s].note))
    BY <1>1 DEF CallType
  <2>3. call' = [call EXCEPT ![s] = c]
    BY <2>1 DEF Decided
  <2>4. c.counted => ~QuotaExceeded
    BY <2>1, <2>2 DEF QuotaAllows
  <2> QED BY <2>2, <2>3, <2>4, SlotCounts DEF DecideOther
<1> QED BY <1>2, <1>3

LEMMA EditCounts ==
  ASSUME GatesInv, QuotaInv, NEW s \in Slots, ApplyEdit(s)
  PROVE  QuotaInv'
<1>1. ASSUME NEW u \in Slots, call'[u].counted
      PROVE  call'[u].pc \in {"decided", "written"} /\ (call[u].counted \/ ~QuotaExceeded)
  <2>1. call[u] \in CallType /\ HasPlace(call[u])
    BY DEF GatesInv, Typed, QuotaInv
  <2>2. PICK c \in {call[u], [call[u] EXCEPT !.pc = "written"], [call[u] EXCEPT !.current = FALSE]} :
          call'[u] = c
    BY DEF ApplyEdit
  <2> QED BY <1>1, <2>1, <2>2 DEF CallType, HasPlace
<1> QED BY <1>1, RowsSame DEF ApplyEdit

\* A row that is new takes the room of the request that counted it, and is
\* uncounted otherwise.
LEMMA RowCounts ==
  ASSUME GatesInv, QuotaInv, NEW s \in Slots, IndexRow(s)
  PROVE  QuotaInv'
<1> DEFINE n == call[s].note
           kind == IF text[n].deleted THEN "none" ELSE "note"
           new == kind = "note" /\ listed[n] # "note"
<1>1. n \in GateNotes /\ listed' = [listed EXCEPT ![n] = kind] /\ UNCHANGED settings
  BY DEF GatesInv, Judged, IndexRow
<1>2. listed' \in [GateNotes -> {"none", "stub", "note"}]
  BY <1>1 DEF QuotaInv
<1>3. \A u \in Slots : call[u] \in CallType /\ HasPlace(call[u])
  BY DEF GatesInv, Typed, QuotaInv
<1>4. call' = [u \in Slots |-> IF u = s THEN NoCall
                               ELSE IF new THEN [call[u] EXCEPT !.counted = FALSE] ELSE call[u]]
  BY DEF IndexRow
<1>5. \A u \in Slots : call'[u].counted =>
        ~new /\ call[u].counted /\ call'[u].pc \in {"decided", "written"}
  BY <1>3, <1>4 DEF CallType, NoCall, HasPlace
<1>6. CASE ~new
  <2>1. Rows' \subseteq Rows
    BY <1>1, <1>6 DEF Rows, QuotaInv
  <2>2. uncounted' = IF kind = "none" THEN uncounted \ {n} ELSE uncounted
    BY <1>6 DEF IndexRow
  <2>3. Counted' \subseteq Counted
    <3>1. CASE kind = "none"
      <4>1. n \notin Rows'
        BY <1>1, <3>1 DEF Rows, QuotaInv
      <4> QED BY <2>1, <2>2, <3>1, <4>1 DEF Counted
    <3>2. CASE kind # "none"
      BY <2>1, <2>2, <3>2 DEF Counted
    <3> QED BY <3>1, <3>2
  <2> QED BY <1>1, <1>2, <1>5, <2>1, <2>3, FewerRows
<1>7. CASE new
  <2>1. Rows' = Rows \cup {n}
    BY <1>1, <1>7 DEF Rows, QuotaInv
  <2>2. IsFiniteSet(Rows') /\ IsFiniteSet(Counted)
    BY <2>1, FS_AddElement, FS_Subset DEF QuotaInv, Counted
  <2>3. /\ IsFiniteSet(Counted \cup {n}) /\ Cardinality(Counted) \in Nat
        /\ Cardinality(Counted \cup {n}) \in Nat
        /\ Cardinality(Counted \cup {n}) <= Cardinality(Counted) + 1
    <3>1. IsFiniteSet(Counted \cup {n})
      BY <2>2, FS_AddElement
    <3>2. Cardinality(Counted) \in Nat /\ Cardinality(Counted \cup {n}) \in Nat
      BY <2>2, <3>1, FS_CardinalityType
    <3>3. Cardinality(Counted \cup {n}) = IF n \in Counted THEN Cardinality(Counted) ELSE Cardinality(Counted) + 1
      BY <2>2, FS_AddElement
    <3> QED BY <3>1, <3>2, <3>3
  <2>4. QuotaExplained'
    <3>1. CASE call[s].counted
      <4>1. uncounted' = uncounted
        BY <1>7, <3>1 DEF IndexRow
      <4>2. Counted' \subseteq Counted \cup {n}
        BY <2>1, <4>1 DEF Counted
      <4>3. IsFiniteSet(Counted') /\ Cardinality(Counted') <= Cardinality(Counted \cup {n})
        BY <2>3, <4>2, FS_Subset
      <4>4. Cardinality(Counted') \in Nat
        BY <4>3, FS_CardinalityType
      <4>5. settings.maxNotes > 0 => Cardinality(Counted) < settings.maxNotes
        BY <1>3, <3>1 DEF HasPlace
      <4> QED BY <1>1, <2>3, <4>3, <4>4, <4>5 DEF QuotaExplained, Counted, QuotaInv
    <3>2. CASE ~call[s].counted
      <4>1. uncounted' = uncounted \cup {n}
        BY <1>7, <3>2 DEF IndexRow
      <4>2. Counted' \subseteq Counted
        BY <2>1, <4>1 DEF Counted
      <4>3. IsFiniteSet(Counted') /\ Cardinality(Counted') <= Cardinality(Counted)
        BY <2>2, <4>2, FS_Subset
      <4>4. Cardinality(Counted') \in Nat
        BY <4>3, FS_CardinalityType
      <4> QED BY <1>1, <2>3, <4>3, <4>4 DEF QuotaExplained, Counted, QuotaInv
    <3> QED BY <3>1, <3>2
  <2>5. \A u \in Slots : HasPlace(call[u])'
    BY <1>5, <1>7 DEF HasPlace
  <2> QED BY <1>1, <1>2, <2>2, <2>4, <2>5 DEF QuotaInv
<1> QED BY <1>6, <1>7

LEMMA PurgeCounts ==
  ASSUME GatesInv, QuotaInv, NEW n \in GateNotes, PurgeText(n)
  PROVE  QuotaInv'
<1>1. listed' = [listed EXCEPT ![n] = "none"] /\ uncounted' = uncounted \ {n} /\ UNCHANGED settings
  BY DEF PurgeText
<1>2. listed' \in [GateNotes -> {"none", "stub", "note"}] /\ Rows' = Rows \ {n}
  BY <1>1 DEF QuotaInv, Rows
<1>3. Counted' \subseteq Counted
  BY <1>1, <1>2 DEF Counted
<1>4. ASSUME NEW u \in Slots, call'[u].counted
      PROVE  call[u].counted /\ call'[u].pc \in {"decided", "written"}
  <2>1. call[u] \in CallType /\ HasPlace(call[u])
    BY DEF GatesInv, Typed, QuotaInv
  <2>2. PICK c \in {call[u], [call[u] EXCEPT !.current = FALSE]} : call'[u] = c
    BY DEF PurgeText
  <2> QED BY <1>4, <2>1, <2>2 DEF CallType, HasPlace
<1> QED BY <1>1, <1>2, <1>3, <1>4, FewerRows

LEMMA StubCounts ==
  ASSUME GatesInv, QuotaInv, NEW n \in GateNotes, StubRow(n)
  PROVE  QuotaInv'
<1>1. listed' = [listed EXCEPT ![n] = "stub"] /\ listed[n] = "none"
      /\ UNCHANGED <<settings, uncounted, call>>
  BY DEF StubRow
<1>2. listed' \in [GateNotes -> {"none", "stub", "note"}] /\ Rows' \subseteq Rows
  BY <1>1 DEF QuotaInv, Rows
<1>3. Counted' \subseteq Counted
  BY <1>1, <1>2 DEF Counted
<1> QED BY <1>1, <1>2, <1>3, FewerRows DEF QuotaInv, HasPlace

\* A change of the limit is not held against the rows there are.
LEMMA SettingsCount ==
  ASSUME GatesInv, QuotaInv, NEW new \in AllSettings, PutSettings(new)
  PROVE  QuotaInv'
<1>1. UNCHANGED listed /\ settings' = new /\ new.maxNotes \in Nat
  BY GatesAssumption DEF PutSettings
<1>2. IsFiniteSet(Rows) /\ Rows' = Rows
  BY <1>1 DEF QuotaInv, Rows
<1>3. CASE new.maxNotes = settings.maxNotes
  <2>1. UNCHANGED <<uncounted, call>> /\ settings'.maxNotes = settings.maxNotes
    BY <1>1, <1>3 DEF PutSettings
  <2> QED BY <1>1, <1>2, <2>1 DEF QuotaInv, HasPlace, QuotaExplained, Counted
<1>4. CASE new.maxNotes # settings.maxNotes
  <2>1. uncounted' = Rows /\ call' = [u \in Slots |-> [call[u] EXCEPT !.counted = FALSE]]
    BY <1>4 DEF PutSettings
  <2>2. Rows' \ uncounted' = {}
    BY <1>2, <2>1
  <2>3. QuotaExplained'
    BY <1>1, <2>2, FS_EmptySet DEF QuotaExplained
  <2>4. ASSUME NEW u \in Slots PROVE HasPlace(call[u])'
    <3>1. call[u] \in CallType /\ call'[u] = [call[u] EXCEPT !.counted = FALSE]
      BY <2>1 DEF GatesInv, Typed
    <3>2. ~call'[u].counted
      BY <3>1 DEF CallType
    <3> QED BY <3>2 DEF HasPlace
  <2> QED BY <1>1, <1>2, <2>3, <2>4 DEF QuotaInv
<1> QED BY <1>3, <1>4

LEMMA QuotaInitially == GatesInit => QuotaInv
<1> SUFFICES ASSUME GatesInit PROVE QuotaInv
  OBVIOUS
<1>1. Rows = {} /\ IsFiniteSet(Rows)
  BY FS_EmptySet DEF GatesInit, Rows
<1>2. \A s \in Slots : HasPlace(call[s])
  BY DEF GatesInit, HasPlace, NoCall
<1> QED BY <1>1, <1>2 DEF GatesInit, QuotaInv, DefaultSettings, QuotaExplained

LEMMA QuotaInductive == GatesInv /\ QuotaInv /\ [GatesNext]_gateVars => QuotaInv'
<1> SUFFICES ASSUME GatesInv, QuotaInv, [GatesNext]_gateVars PROVE QuotaInv'
  OBVIOUS
<1>1. ASSUME NEW s \in Slots, NEW a \in Shapes, NEW n \in GateNotes, Call(s, a, n) PROVE QuotaInv'
  <2>1. PICK c : call' = [call EXCEPT ![s] = c] /\ ~c.counted
    <3> DEFINE c == [NoCall EXCEPT !.pc = "read", !.op = a.op, !.agent = a.agent,
                       !.note = n, !.body = a.body, !.flagged = a.flagged, !.tags = a.tags,
                       !.seen = text[n].tags]
    <3>1. ~c.counted
      BY DEF NoCall
    <3> QED BY <1>1, <3>1 DEF Call
  <2> QED BY <1>1, <2>1, SlotCounts DEF Call
<1>2. CASE UNCHANGED gateVars
  BY <1>2, RowsSame DEF gateVars, QuotaInv, HasPlace
<1> QED
  BY <1>1, <1>2, CreateCounts, PatchCounts, OtherCounts, EditCounts, RowCounts, PurgeCounts,
     StubCounts, SettingsCount DEF GatesNext

\* For any notes, requests and settings: the notes that take part in the
\* quota are never more than it allows.  Those it was not checked for, or not
\* as things are by now, are the only ones past it.
THEOREM QuotaIsExplained == GatesSpec => []QuotaExplained
<1>1. QuotaInv => QuotaExplained
  BY DEF QuotaInv
<1> QED BY <1>1, GatesInitially, GatesInductive, QuotaInitially, QuotaInductive, PTL DEF GatesSpec

----------------------------------------------------------------------------
(* The types.  A request has one set of tags at most, and the rows that    *)
(* are not counted are rows.                                               *)

One(tags) == \A t, u \in tags : t = u

Tidy ==
  /\ settings \in AllSettings \cup {DefaultSettings}
  /\ \A s \in Slots : One(call[s].tags)
  /\ uncounted \subseteq Rows

LEMMA OneOfScanner == ASSUME NEW c, NEW tags PROVE One(SecretGate(c, tags))
BY DEF SecretGate, One

LEMMA OneOfPatch == ASSUME NEW c, One(c.tags) PROVE One(PatchTags(c))
<1>1. One(ScannedTags(c))
  <2>1. ASSUME NEW tags PROVE One(IF c.body THEN SecretGate(c, tags) ELSE {})
    BY OneOfScanner DEF One
  <2> QED BY <2>1 DEF ScannedTags, One
<1> QED BY <1>1 DEF PatchTags, One

\* A step of one request.
LEMMA SlotTidy ==
  ASSUME Typed, Tidy, NEW s \in Slots, NEW c, One(c.tags),
         UNCHANGED <<settings, listed, uncounted>>, call' = [call EXCEPT ![s] = c]
  PROVE  Tidy'
<1>1. \A u \in Slots : call'[u] = IF u = s THEN c ELSE call[u]
  BY DEF Typed
<1> QED BY <1>1 DEF Tidy, Rows

LEMMA DecidedTidy ==
  ASSUME Typed, Tidy, NEW s \in Slots, NEW c \in CallType, One(c.tags),
         UNCHANGED <<settings, listed, uncounted>>, Decided(s, c)
  PROVE  Tidy'
<1> DEFINE d == [c EXCEPT !.pc = "decided"]
<1>1. d.tags = c.tags /\ call' = [call EXCEPT ![s] = d]
  BY DEF Decided, CallType
<1> HIDE DEF d
<1>2. One(d.tags)
  BY <1>1
<1> QED BY <1>1, <1>2, SlotTidy

LEMMA RefusedTidy ==
  ASSUME Typed, Tidy, NEW s \in Slots, UNCHANGED <<settings, listed, uncounted>>, Refuse(s)
  PROVE  Tidy'
<1>1. One(NoCall.tags)
  BY DEF NoCall, One
<1> QED BY <1>1, SlotTidy DEF Refuse

LEMMA CreateTidy ==
  ASSUME Typed, Tidy, NEW s \in Slots, DecideCreate(s)
  PROVE  Tidy'
<1>1. CASE Refuse(s)
  BY <1>1, RefusedTidy DEF DecideCreate
<1>2. CASE ~Refuse(s)
  <2> DEFINE c == call[s]
             asked == Given(c) \cup IF Gated(c) THEN {Draft} ELSE {}
             passed == {t \in SecretGate(c, asked) : ~MissingFacets(t)}
  <2>1. call[s] \in CallType
    BY DEF Typed
  <2>2. Given(c) \subseteq Words /\ Draft \in Words
    BY <2>1 DEF Given, CallType, Words
  <2>3. passed \in SUBSET SUBSET Words /\ One(passed)
    <3>1. asked \in SUBSET Words
      BY <2>2
    <3>2. SecretGate(c, asked) \in SUBSET SUBSET Words /\ One(SecretGate(c, asked))
      BY <3>1, SecretGateTyped, OneOfScanner
    <3> HIDE DEF asked
    <3> QED BY <3>2 DEF One
  <2>4. Decided(s, [c EXCEPT !.tags = passed, !.gated = Gated(c), !.counted = ~HasRow(c.note)])
    BY <1>2 DEF DecideCreate
  <2>5. PICK tags : tags = passed
    OBVIOUS
  <2>6. PICK gated \in BOOLEAN, counted \in BOOLEAN : gated = Gated(c) /\ counted = ~HasRow(c.note)
    BY <2>1 DEF Gated, HasRow, CallType
  <2>7. Decided(s, [call[s] EXCEPT !.tags = tags, !.gated = gated, !.counted = counted])
    BY <2>4, <2>5, <2>6
  <2>8. tags \in SUBSET SUBSET Words /\ One(tags)
    BY <2>3, <2>5
  <2> HIDE DEF c, asked, passed
  <2>9. /\ [call[s] EXCEPT !.tags = tags, !.gated = gated, !.counted = counted] \in CallType
        /\ [call[s] EXCEPT !.tags = tags, !.gated = gated, !.counted = counted].tags = tags
    BY <2>1, <2>8 DEF CallType
  <2> QED BY <2>7, <2>8, <2>9, DecidedTidy DEF DecideCreate
<1> QED BY <1>1, <1>2

LEMMA PatchTidy ==
  ASSUME Typed, Tidy, NEW s \in Slots, Judged(call[s]), DecidePatch(s)
  PROVE  Tidy'
<1>1. CASE Refuse(s)
  BY <1>1, RefusedTidy DEF DecidePatch
<1>2. CASE ~Refuse(s)
  <2>1. call[s] \in CallType /\ One(call[s].tags)
    BY DEF Typed, Tidy
  <2>2. PICK tags : tags = PatchTags(call[s])
    OBVIOUS
  <2>3. tags \in SUBSET SUBSET Words
    BY <2>1, <2>2, PatchTagsTyped
  <2>4. One(tags)
    BY <2>1, <2>2, OneOfPatch
  <2>5. PICK gated \in BOOLEAN : gated = Gated(call[s])
    BY <2>1 DEF Gated, CallType
  <2>6. Decided(s, [call[s] EXCEPT !.tags = tags, !.gated = gated])
    BY <1>2, <2>2, <2>5 DEF DecidePatch
  <2>7. /\ [call[s] EXCEPT !.tags = tags, !.gated = gated] \in CallType
        /\ [call[s] EXCEPT !.tags = tags, !.gated = gated].tags = tags
    BY <2>1, <2>3 DEF CallType
  <2> QED BY <2>4, <2>6, <2>7, DecidedTidy DEF DecidePatch
<1> QED BY <1>1, <1>2

LEMMA OtherTidy ==
  ASSUME Typed, Tidy, NEW s \in Slots, DecideOther(s)
  PROVE  Tidy'
<1>1. CASE Refuse(s)
  BY <1>1, RefusedTidy DEF DecideOther
<1>2. CASE ~Refuse(s)
  <2>1. call[s] \in CallType
    BY DEF Typed
  <2>2. PICK tags : tags = IF call[s].op = "promote" THEN {call[s].seen \ {Draft}} ELSE {}
    OBVIOUS
  <2>3. tags \in SUBSET SUBSET Words /\ One(tags)
    BY <2>1, <2>2 DEF CallType, One
  <2>4. PICK counted \in BOOLEAN : counted = (call[s].op = "delta" /\ ~HasRow(call[s].note))
    OBVIOUS
  <2>5. Decided(s, [call[s] EXCEPT !.counted = counted, !.tags = tags])
    BY <1>2, <2>2, <2>4 DEF DecideOther
  <2>6. /\ [call[s] EXCEPT !.counted = counted, !.tags = tags] \in CallType
        /\ [call[s] EXCEPT !.counted = counted, !.tags = tags].tags = tags
    BY <2>1, <2>3 DEF CallType
  <2> QED BY <2>3, <2>5, <2>6, DecidedTidy DEF DecideOther
<1> QED BY <1>1, <1>2

LEMMA TidyStep ==
  ASSUME Typed, \A s \in Slots : Judged(call[s]), Tidy, QuotaInv, [GatesNext]_gateVars
  PROVE  Tidy'
<1>0. \A s \in Slots : call[s] \in CallType
  BY DEF Typed
<1>1. ASSUME NEW s \in Slots, NEW a \in Shapes, NEW n \in GateNotes, Call(s, a, n) PROVE Tidy'
  <2> DEFINE c == [NoCall EXCEPT !.pc = "read", !.op = a.op, !.agent = a.agent, !.note = n,
                     !.body = a.body, !.flagged = a.flagged, !.tags = a.tags, !.seen = text[n].tags]
  <2>1. One(a.tags)
    BY ShapesTyped DEF ShapeOK, One
  <2>2. c.tags = a.tags /\ call' = [call EXCEPT ![s] = c]
    BY <1>1 DEF Call, NoCall
  <2> HIDE DEF c
  <2>3. One(c.tags)
    BY <2>1, <2>2
  <2> QED BY <1>1, <2>2, <2>3, SlotTidy DEF Call
<1>2. ASSUME NEW s \in Slots, ApplyEdit(s) PROVE Tidy'
  <2>1. ASSUME NEW u \in Slots PROVE call'[u].tags = call[u].tags
    <3>1. \/ u = s /\ call'[u] = [call[s] EXCEPT !.pc = "written"]
          \/ call'[u] = [call[u] EXCEPT !.current = FALSE]
          \/ call'[u] = call[u]
      BY <1>2 DEF ApplyEdit
    <3> QED BY <1>0, <3>1 DEF CallType
  <2> QED BY <1>2, <2>1 DEF ApplyEdit, Tidy, Rows
<1>3. ASSUME NEW s \in Slots, IndexRow(s) PROVE Tidy'
  <2> DEFINE n == call[s].note
             kind == IF text[n].deleted THEN "none" ELSE "note"
             new == kind = "note" /\ listed[n] # "note"
  <2>1. ASSUME NEW u \in Slots PROVE One(call'[u].tags)
    <3>1. call'[u] = IF u = s THEN NoCall ELSE IF new THEN [call[u] EXCEPT !.counted = FALSE] ELSE call[u]
      BY <1>3 DEF IndexRow
    <3> HIDE DEF new
    <3>2. [call[u] EXCEPT !.counted = FALSE].tags = call[u].tags
      BY <1>0 DEF CallType
    <3> QED BY <3>1, <3>2 DEF Tidy, One, NoCall
  <2>2. n \in GateNotes /\ listed \in [GateNotes -> {"none", "stub", "note"}]
    BY <1>3 DEF Judged, IndexRow, QuotaInv
  <2>3. listed' = [listed EXCEPT ![n] = kind] /\ kind \in {"none", "note"}
    BY <1>3 DEF IndexRow
  <2>4. /\ uncounted' = IF new /\ ~call[s].counted THEN uncounted \cup {n}
                        ELSE IF kind = "none" THEN uncounted \ {n} ELSE uncounted
        /\ new => kind = "note"
    BY <1>3 DEF IndexRow
  <2>5. settings' = settings
    BY <1>3 DEF IndexRow
  <2> HIDE DEF n, kind, new
  <2>6. uncounted' \subseteq Rows'
    BY <2>2, <2>3, <2>4 DEF Tidy, Rows
  <2> QED BY <2>1, <2>5, <2>6 DEF Tidy
<1>4. ASSUME NEW n \in GateNotes, PurgeText(n) PROVE Tidy'
  <2>1. ASSUME NEW u \in Slots PROVE call'[u].tags = call[u].tags
    <3>1. call'[u] \in {[call[u] EXCEPT !.current = FALSE], call[u]}
      BY <1>4 DEF PurgeText
    <3> QED BY <1>0, <3>1 DEF CallType
  <2>2. uncounted' \subseteq Rows'
    BY <1>4 DEF PurgeText, Tidy, Rows, QuotaInv
  <2> QED BY <1>4, <2>1, <2>2 DEF PurgeText, Tidy
<1>5. ASSUME NEW n \in GateNotes, StubRow(n) PROVE Tidy'
  BY <1>5 DEF StubRow, Tidy, Rows, QuotaInv
<1>6. ASSUME NEW new \in AllSettings, PutSettings(new) PROVE Tidy'
  <2>1. ASSUME NEW u \in Slots PROVE call'[u].tags = call[u].tags
    <3>1. call'[u] \in {[call[u] EXCEPT !.counted = FALSE], call[u]}
      BY <1>6 DEF PutSettings
    <3> QED BY <1>0, <3>1 DEF CallType
  <2>2. uncounted' \subseteq Rows' /\ settings' \in AllSettings
    BY <1>6 DEF PutSettings, Tidy, Rows
  <2> QED BY <2>1, <2>2 DEF Tidy
<1>7. CASE UNCHANGED gateVars
  BY <1>7 DEF gateVars, Tidy, Rows
<1> QED BY <1>1, <1>2, <1>3, <1>4, <1>5, <1>6, <1>7, CreateTidy, PatchTidy, OtherTidy DEF GatesNext

LEMMA GatesAlways == GatesSpec => [](GatesInv /\ QuotaInv /\ Tidy)
<1>1. GatesInit => Tidy
  BY DEF GatesInit, Tidy, Rows, NoCall, One
<1>2. GatesInv /\ QuotaInv /\ Tidy /\ [GatesNext]_gateVars => Tidy'
  BY TidyStep DEF GatesInv
<1> QED BY <1>1, <1>2, GatesInitially, GatesInductive, QuotaInitially, QuotaInductive, PTL DEF GatesSpec

\* The settings, the notes, the rows and the requests under way are of their
\* types; a request carries one set of tags at most, and every row that the
\* quota does not count is there (brain/src/http.ts).
THEOREM GatesTyped == GatesSpec => []GatesTypeOK
<1>1. GatesInv /\ QuotaInv /\ Tidy => GatesTypeOK
  <2> SUFFICES ASSUME GatesInv, QuotaInv, Tidy PROVE GatesTypeOK
    OBVIOUS
  <2>1. ASSUME NEW s \in Slots
        PROVE  call[s].pc \in {"none", "read", "decided", "written"} /\ Cardinality(call[s].tags) <= 1
    <3>1. call[s].tags = {} \/ \E t \in call[s].tags : call[s].tags = {t}
      BY DEF Tidy, One
    <3>2. Cardinality(call[s].tags) <= 1
      <4>1. CASE call[s].tags = {}
        BY <4>1, FS_EmptySet
      <4>2. ASSUME NEW t, call[s].tags = {t} PROVE Cardinality(call[s].tags) = 1
        BY <4>2, FS_Singleton
      <4> QED BY <3>1, <4>1, <4>2
    <3> QED BY <3>2 DEF GatesInv, Typed, CallType
  <2> QED BY <2>1 DEF GatesTypeOK, GatesInv, Typed, TextType, Words, QuotaInv, Tidy
<1> QED BY <1>1, GatesAlways, PTL

=============================================================================
