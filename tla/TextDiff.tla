------------------------------ MODULE TextDiff ------------------------------
(***************************************************************************)
(* The single-range text diff by which the web page (web/src/yutil.js) and *)
(* the editor (vscode/src/diff.ts) turn a whole new text into one deletion *)
(* and one insertion.  A text is a sequence of UTF-16 code units; a        *)
(* character is a unit of its own or a high and a low surrogate.           *)
(***************************************************************************)
EXTENDS Naturals, Sequences, FiniteSetsExt

CONSTANTS
  Plain, High, Low,  \* code units by kind
  MaxLength          \* bound: characters of a text

ASSUME DiffAssumption ==
  /\ MaxLength \in Nat
  /\ High \cap Low = {} /\ Plain \cap (High \cup Low) = {}

VARIABLES oldText, newText, edited  \* edited: what the edit made of it

diffVars == <<oldText, newText, edited>>

Character == {<<p>> : p \in Plain} \cup (High \X Low)
Longer(texts) == texts \cup {p[1] \o p[2] : p \in texts \X Character}
Text[n \in Nat] == IF n = 0 THEN {<<>>} ELSE Longer(Text[n - 1])

DiffInit == oldText = <<>> /\ newText = <<>> /\ edited = <<>>

\* The length of the longest common prefix, and of the longest common suffix
\* of what is left after it.
Shared(s, t) == Max({k \in 0 .. Min({Len(s), Len(t)}) :
                       \A i \in 1 .. k : s[i] = t[i]})
SharedEnd(s, t, start) == Max({k \in 0 .. Min({Len(s), Len(t)}) - start :
                       \A i \in 0 .. k - 1 : s[Len(s) - i] = t[Len(t) - i]})

\* A cut of s after its first k units is between a pair's halves.
Splits(s, k) == k \in 1 .. Len(s) - 1 /\ s[k] \in High /\ s[k + 1] \in Low

DiffRange_cuts_at_the_suffix(s, t) ==
  LET start == Shared(s, t)
      kept == SharedEnd(s, t, start)
      from == IF Splits(s, start) THEN start - 1 ELSE start IN
  [index |-> from, remove |-> Len(s) - kept - from,
   insert |-> SubSeq(t, from + 1, Len(t) - kept)]

\* diffRange: either end is moved off a pair of the old text.
DiffRange(s, t) ==
  LET start == Shared(s, t)
      kept == SharedEnd(s, t, start)
      from == IF Splits(s, start) THEN start - 1 ELSE start
      to == IF Splits(s, Len(s) - kept) THEN kept - 1 ELSE kept IN
  [index |-> from, remove |-> Len(s) - to - from,
   insert |-> SubSeq(t, from + 1, Len(t) - to)]

\* applyTextChange on the document's text.
Applied(s, d) ==
  SubSeq(s, 1, d.index) \o d.insert \o SubSeq(s, d.index + d.remove + 1, Len(s))

\* The user makes the text shown another one.
UserEdits(t) ==
  /\ edited = newText /\ t # newText
  /\ oldText' = newText /\ edited' = newText
  /\ newText' = t

ApplyTextChange ==
  /\ edited # newText
  /\ edited' = Applied(oldText, DiffRange(oldText, newText))
  /\ UNCHANGED <<oldText, newText>>

DiffNext == ApplyTextChange \/ \E t \in Text[MaxLength] : UserEdits(t)

DiffSpec == DiffInit /\ [][DiffNext]_diffVars

\* Every high surrogate has its low one, and the other way round.
WholeCharacters(s) == \A k \in 1 .. Len(s) :
  /\ s[k] \in High => k < Len(s) /\ s[k + 1] \in Low
  /\ s[k] \in Low => k > 1 /\ s[k - 1] \in High

\* The edit makes the old text the new one, and neither what it deletes nor
\* what it inserts begins or ends inside a character, so that no concurrent
\* edit can be left with half of one.
EditsWholeCharacters ==
  LET d == DiffRange(oldText, newText) IN
  /\ edited \in {oldText, newText}
  /\ oldText # newText =>
    /\ WholeCharacters(d.insert)
    /\ WholeCharacters(SubSeq(oldText, d.index + 1, d.index + d.remove))
=============================================================================
