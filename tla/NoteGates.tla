----------------------------- MODULE NoteGates -----------------------------
(***************************************************************************)
(* The gates of the write routes (brain/src/http.ts) over the hub's        *)
(* mutators: draft mode, required facets, the secret scan and the quota of *)
(* notes.  A route reads the index and the note, decides, and only then    *)
(* takes the note's lock to write; the row follows the write.              *)
(*                                                                         *)
(* A request says whether it carries text, whether the scanner would flag  *)
(* it, and its tags, if any.  Capability scopes always allow.              *)
(***************************************************************************)
EXTENDS Naturals, FiniteSets

CONSTANTS
  GateNotes,
  Slots,        \* requests under way at once
  Shapes,       \* what requests may ask: [op, agent, body, flagged, tags]
  AllSettings,  \* the settings a space may be given
  MaxCalls,     \* bound: requests
  MaxAdmin      \* bound: changes of the settings, purges and stubs

Ops == {"create", "patch", "promote", "delete", "link", "delta"}

\* tags: {} for none given, else {the tags}.  Only creates and patches give
\* any; every create and delta has text, and a patch may; agents may not
\* promote.
ShapeOK(a) ==
  /\ a.op \in Ops /\ a.agent \in BOOLEAN /\ a.body \in BOOLEAN /\ a.flagged \in BOOLEAN
  /\ a.body = (a.op \in {"create", "delta"}) \/ a.op = "patch"
  /\ a.flagged => a.body
  /\ a.tags # {} => a.op \in {"create", "patch"}
  /\ \A t, u \in a.tags : t = u
  /\ a.op = "promote" => ~a.agent

ASSUME GatesAssumption ==
  /\ AllSettings \subseteq [mode : {"draft", "open"}, facets : BOOLEAN, maxNotes : Nat,
                            scan : {"off", "warn", "block"}]
  /\ \A a \in Shapes : ShapeOK(a)
  /\ MaxCalls \in Nat /\ MaxAdmin \in Nat

VARIABLES
  settings,   \* the space's settings
  text,       \* text[n]: the document [tags, deleted]
  listed,     \* listed[n]: its row in the index
  call,       \* call[s]: the request in slot s
  calls, admin,
  uncounted,  \* rows the quota was not checked for, or not as things are
  unreviewed  \* notes with text of a gated agent, until their tags are written

gateVars == <<settings, text, listed, call, calls, admin, uncounted, unreviewed>>

DefaultSettings == [mode |-> "draft", facets |-> FALSE, maxNotes |-> 0, scan |-> "warn"]
Draft == "draft"
Secret == "secret-suspected"
Blank == [tags |-> {}, deleted |-> FALSE]

\* seen: the tags the route read.
NoCall == [pc |-> "none", op |-> "none", agent |-> FALSE, note |-> "none", body |-> FALSE,
           flagged |-> FALSE, tags |-> {}, seen |-> {}, gated |-> FALSE,
           counted |-> FALSE, current |-> TRUE]

GatesInit ==
  /\ settings = DefaultSettings
  /\ text = [n \in GateNotes |-> Blank]
  /\ listed = [n \in GateNotes |-> "none"]
  /\ call = [s \in Slots |-> NoCall]
  /\ calls = 0 /\ admin = 0
  /\ uncounted = {} /\ unreviewed = {}

----------------------------------------------------------------------------
(* What the gates read.                                                    *)

Rows == {n \in GateNotes : listed[n] = "note"}
HasRow(n) == listed[n] # "none"

QuotaExceeded_past_it == settings.maxNotes > 0 /\ Cardinality(Rows) > settings.maxNotes
QuotaExceeded == settings.maxNotes > 0 /\ Cardinality(Rows) >= settings.maxNotes

\* missingFacets, of one required facet; `shared` exempts.
MissingFacets(tags) == settings.facets /\ tags \cap {"shared", "client:acme"} = {}

\* secretGate: what tags come back, in a set; nothing when it refuses.
SecretGate(c, tags) ==
  IF ~c.flagged \/ settings.scan = "off" THEN {tags}
  ELSE IF settings.scan = "block" THEN {} ELSE {tags \cup {Secret}}

Gated(c) == c.agent /\ settings.mode = "draft"

----------------------------------------------------------------------------
(* A request comes in: what its route reads of the note before deciding.   *)

\* PATCH, promote and DELETE answer 404 without a row.
Call(s, a, n) ==
  /\ call[s].pc = "none" /\ calls < MaxCalls
  /\ a.op \in {"patch", "promote", "delete"} => HasRow(n)
  /\ call' = [call EXCEPT ![s] = [NoCall EXCEPT !.pc = "read", !.op = a.op, !.agent = a.agent,
       !.note = n, !.body = a.body, !.flagged = a.flagged, !.tags = a.tags, !.seen = text[n].tags]]
  /\ calls' = calls + 1
  /\ UNCHANGED <<settings, text, listed, admin, uncounted, unreviewed>>

Refuse(s) == call' = [call EXCEPT ![s] = NoCall]
Decided(s, c) == call' = [call EXCEPT ![s] = [c EXCEPT !.pc = "decided"]]

----------------------------------------------------------------------------
(* Decisions, on what was read and on the settings and rows as they are.   *)

Given(c) == UNION c.tags
QuotaAllows(n) == HasRow(n) \/ ~QuotaExceeded

\* POST notes: the tags of a gated create include the draft's.
DecideCreate(s) ==
  LET c == call[s]
      asked == Given(c) \cup IF Gated(c) THEN {Draft} ELSE {}
      passed == {t \in SecretGate(c, asked) : ~MissingFacets(t)} IN
  /\ c.pc = "read" /\ c.op = "create"
  /\ IF passed # {} /\ QuotaAllows(c.note)
     THEN Decided(s, [c EXCEPT !.tags = passed, !.gated = Gated(c), !.counted = ~HasRow(c.note)])
     ELSE Refuse(s)
  /\ UNCHANGED <<settings, text, listed, calls, admin, uncounted, unreviewed>>

\* The tags given, or those of the note with the scanner's.
ScannedTags(c) ==
  LET scanned == IF c.body THEN SecretGate(c, IF c.tags = {} THEN c.seen ELSE Given(c)) ELSE {} IN
  IF \E t \in scanned : Secret \in t THEN scanned ELSE c.tags

PatchTags_without_the_draft(c) == ScannedTags(c)

\* The tags a patch writes, in a set: a gated agent's keep the draft's.
PatchTags(c) ==
  IF Gated(c) THEN {t \cup {Draft} : t \in ScannedTags(c)} ELSE ScannedTags(c)

DecidePatch(s) ==
  LET c == call[s]
      tags == PatchTags(c) IN
  /\ c.pc = "read" /\ c.op = "patch"
  /\ IF /\ c.body => SecretGate(c, {}) # {}
        /\ Gated(c) => Draft \in c.seen
        /\ \A t \in tags : ~MissingFacets(t)
     THEN Decided(s, [c EXCEPT !.tags = tags, !.gated = Gated(c)])
     ELSE Refuse(s)
  /\ UNCHANGED <<settings, text, listed, calls, admin, uncounted, unreviewed>>

\* A promotion writes the tags it read, without the draft's.  DELETE and the
\* links have no gate; a delta over the socket has the quota's.
DecideOther(s) ==
  LET c == call[s] IN
  /\ c.pc = "read" /\ c.op \in {"promote", "delete", "link", "delta"}
  /\ IF c.op = "delta" /\ ~QuotaAllows(c.note) THEN Refuse(s)
     ELSE Decided(s, [c EXCEPT !.counted = c.op = "delta" /\ ~HasRow(c.note),
                               !.tags = IF c.op = "promote" THEN {c.seen \ {Draft}} ELSE {}])
  /\ UNCHANGED <<settings, text, listed, calls, admin, uncounted, unreviewed>>

----------------------------------------------------------------------------
(* createNote, patchNote, deleteNote and linkNote, under the note's lock.  *)

\* A create inserts into what is there; a patch replaces the tags it has.
Edited(c) ==
  LET d == text[c.note] IN
  [tags |-> IF c.op = "create" THEN d.tags \cup Given(c) ELSE IF c.tags = {} THEN d.tags ELSE Given(c),
   deleted |-> d.deleted \/ c.op = "delete"]

Locked(n) == \E s \in Slots : call[s].pc = "written" /\ call[s].note = n

\* The others' decisions on a note whose tags were written by someone who is
\* not gated are no longer current.
ApplyEdit(s) ==
  LET c == call[s]
      n == c.note
      rules == ~c.gated /\ c.op \in {"patch", "promote"} /\ c.tags # {} IN
  /\ c.pc = "decided" /\ ~Locked(n)
  /\ text' = [text EXCEPT ![n] = Edited(c)]
  /\ unreviewed' = IF rules THEN unreviewed \ {n}
                   ELSE IF c.gated /\ c.body /\ c.current THEN unreviewed \cup {n} ELSE unreviewed
  /\ call' = [u \in Slots |->
       IF u = s THEN [c EXCEPT !.pc = "written"]
       ELSE IF rules /\ call[u].note = n /\ call[u].op # "create" THEN [call[u] EXCEPT !.current = FALSE] ELSE call[u]]
  /\ UNCHANGED <<settings, listed, calls, admin, uncounted>>

\* reindex: any write makes a row, but of a tombstone.  A row that is new
\* takes the place the others' checks saw free.
IndexRow(s) ==
  LET n == call[s].note
      kind == IF text[n].deleted THEN "none" ELSE "note"
      new == kind = "note" /\ listed[n] # "note" IN
  /\ call[s].pc = "written"
  /\ listed' = [listed EXCEPT ![n] = kind]
  /\ uncounted' = IF new /\ ~call[s].counted THEN uncounted \cup {n}
                  ELSE IF kind = "none" THEN uncounted \ {n} ELSE uncounted
  /\ call' = [u \in Slots |-> IF u = s THEN NoCall
                              ELSE IF new THEN [call[u] EXCEPT !.counted = FALSE] ELSE call[u]]
  /\ UNCHANGED <<settings, text, calls, admin, unreviewed>>

----------------------------------------------------------------------------
(* Purges, stubs and settings.                                             *)

PurgeText(n) ==
  /\ ~Locked(n) /\ HasRow(n) /\ admin < MaxAdmin
  /\ text' = [text EXCEPT ![n] = Blank]
  /\ listed' = [listed EXCEPT ![n] = "none"]
  /\ uncounted' = uncounted \ {n} /\ unreviewed' = unreviewed \ {n}
  /\ call' = [u \in Slots |-> IF call[u].note = n /\ call[u].op # "create"
                              THEN [call[u] EXCEPT !.current = FALSE] ELSE call[u]]
  /\ admin' = admin + 1
  /\ UNCHANGED <<settings, calls>>

\* Another note's link makes a stub row.
StubRow(n) ==
  /\ listed[n] = "none" /\ text[n] = Blank /\ admin < MaxAdmin
  /\ listed' = [listed EXCEPT ![n] = "stub"]
  /\ admin' = admin + 1
  /\ UNCHANGED <<settings, text, call, calls, uncounted, unreviewed>>

\* A new limit is not applied to the rows there are.
PutSettings(new) ==
  /\ new # settings /\ admin < MaxAdmin
  /\ settings' = new
  /\ admin' = admin + 1
  /\ IF new.maxNotes = settings.maxNotes THEN UNCHANGED <<uncounted, call>>
     ELSE /\ uncounted' = Rows
          /\ call' = [u \in Slots |-> [call[u] EXCEPT !.counted = FALSE]]
  /\ UNCHANGED <<text, listed, calls, unreviewed>>

GatesNext ==
  \/ \E s \in Slots :
       \/ \E a \in Shapes, n \in GateNotes : Call(s, a, n)
       \/ DecideCreate(s) \/ DecidePatch(s) \/ DecideOther(s) \/ ApplyEdit(s) \/ IndexRow(s)
  \/ \E n \in GateNotes : PurgeText(n) \/ StubRow(n)
  \/ \E new \in AllSettings : PutSettings(new)

GatesSpec == GatesInit /\ [][GatesNext]_gateVars

----------------------------------------------------------------------------
GatesTypeOK ==
  /\ settings \in AllSettings \cup {DefaultSettings}
  /\ text \in [GateNotes -> [tags : SUBSET ({Draft, Secret} \cup UNION UNION {a.tags : a \in Shapes}), deleted : BOOLEAN]]
  /\ listed \in [GateNotes -> {"none", "stub", "note"}]
  /\ \A s \in Slots : call[s].pc \in {"none", "read", "decided", "written"} /\ Cardinality(call[s].tags) <= 1
  /\ uncounted \subseteq Rows /\ unreviewed \subseteq GateNotes

\* The quota is passed only by rows it was not checked for, or not as things
\* are by now: those of links and patches, of stubs that became notes, of
\* requests that decided before another's row was there, and of a limit that
\* was changed since.
QuotaExplained ==
  settings.maxNotes > 0 => Cardinality(Rows \ uncounted) <= settings.maxNotes

\* What an agent wrote through the draft gate stays a draft until a request
\* that is not gated writes the note's tags (a promotion, or a patch, if only
\* because the scanner flagged its text).  Exempt are the agent's own patches
\* that were decided before such a write and land after it.
AgentTextIsDraft == \A n \in unreviewed : Draft \in text[n].tags
=============================================================================
