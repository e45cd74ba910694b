----------------------------- MODULE Retrieval -----------------------------
(***************************************************************************)
(* getContext (brain/src/hub.ts): a context of notes for a query, within a *)
(* budget of tokens.  A hybrid search ranks the notes, the graph around    *)
(* the hits adds linked ones, and each note is read when its turn comes,   *)
(* while others may delete it or make it a draft.                          *)
(***************************************************************************)
EXTENDS Naturals, Sequences, FiniteSetsExt, SequencesExt

CONSTANTS
  Notes,
  Stubs,          \* notes that are only the target of a link
  Tokens,         \* Tokens[n]: the estimate for the body of n
  Fixed,          \* that for a title and its framing
  Graphs,         \* the sets of links to choose from, each a set of pairs
  Rankings,       \* the results to choose from, each a sequence of notes
  IncludeDraftNotes,
  Hops, Seeds, Budget

ASSUME RetrievalAssumption ==
  /\ Tokens \in [Notes -> Nat] /\ Fixed \in Nat /\ Stubs \subseteq Notes
  /\ Graphs \subseteq SUBSET (Notes \X Notes)
  /\ \A ranking \in Rankings : ranking \in Seq(Notes)
  /\ Hops \in Nat /\ Seeds \in Nat \ {0} /\ Budget \in Nat \ {0}

VARIABLES
  links,      \* the edges
  lexical,    \* what the full-text index answers, best first
  semantic,   \* what the vector index answers
  drafts,     \* notes tagged as drafts
  deleted,
  ctx,        \* the request: its place and what it has in memory
  changed     \* notes deleted or made drafts since it searched

retrievalVars == <<links, lexical, semantic, drafts, deleted, ctx, changed>>

NoCtx == [pc |-> "index", seeds |-> <<>>, scope |-> {}, hidden |-> {},
          todo |-> {}, items |-> <<>>, used |-> 0, truncated |-> FALSE]

RetrievalInit ==
  /\ links = {} /\ lexical = <<>> /\ semantic = <<>>
  /\ drafts = {} /\ deleted = {}
  /\ ctx = NoCtx /\ changed = {}

\* What the index and the query come to.
Index ==
  /\ ctx.pc = "index"
  /\ links' \in Graphs /\ lexical' \in Rankings /\ semantic' \in Rankings
  /\ drafts' \in SUBSET (Notes \ Stubs)
  /\ ctx' = [ctx EXCEPT !.pc = "search"]
  /\ UNCHANGED <<deleted, changed>>

----------------------------------------------------------------------------
(* Search.                                                                 *)

\* The stores leave drafts out of the results unless asked.
Found(ranking) == {n \in ToSet(ranking) : IncludeDraftNotes \/ n \notin drafts}

\* The place of a result among them, from 1.
Place(n, ranking) ==
  LET at(m) == CHOOSE i \in DOMAIN ranking : ranking[i] = m IN
  Cardinality({m \in Found(ranking) : at(m) <= at(n)})

\* Reciprocal-rank fusion, with 1 / (60 + i) over a common denominator.
Denominator == 60 * 61 * 62 * 63
Score(n, ranking) ==
  IF n \in Found(ranking) THEN Denominator \div (59 + Place(n, ranking)) ELSE 0

\* By score; the sort is stable, over the hits in the order they came.
Before(m, n) ==
  LET score(h) == Score(h, lexical) + Score(h, semantic)
      came(h) == IF h \in Found(lexical) THEN Place(h, lexical) ELSE Len(lexical) + Place(h, semantic) IN
  score(m) > score(n) \/ (score(m) = score(n) /\ came(m) < came(n))

Hits == Found(lexical) \cup Found(semantic)

\* The hits in that order, the only one there is.
Fused == {s \in SeqOf(Hits, Len(lexical) + Len(semantic)) :
            ToSet(s) = Hits /\ \A i, j \in DOMAIN s : i < j => Before(s[i], s[j])}

SearchHybrid ==
  /\ ctx.pc = "search"
  /\ \E hits \in Fused :
       ctx' = [ctx EXCEPT !.pc = "expand", !.seeds = SubSeq(hits, 1, Min({Seeds, Len(hits)}))]
  /\ UNCHANGED <<links, lexical, semantic, drafts, deleted, changed>>

----------------------------------------------------------------------------
(* resolveScope: breadth first, over the links into and out of a note.     *)

Adjacent(n) == {e[1] : e \in {f \in links : f[2] = n}} \cup {e[2] : e \in {f \in links : f[1] = n}}

\* What has been seen after each hop; the next starts from the new ones only.
Hop(layer) ==
  LET next == (UNION {Adjacent(n) : n \in layer.frontier}) \ layer.seen IN
  [seen |-> layer.seen \cup next, frontier |-> next]

Layers(focus) ==
  LET L[h \in 0 .. Hops] ==
        IF h = 0 THEN [seen |-> focus, frontier |-> focus] ELSE Hop(L[h - 1]) IN
  L[Hops].seen

\* The notes found that have a row, with their tags as they are now.
ResolveScope ==
  LET found == Layers(ToSet(ctx.seeds)) \ deleted IN
  /\ ctx.pc = "expand"
  /\ ctx' = [ctx EXCEPT !.pc = "pack", !.scope = found \cup ToSet(ctx.seeds),
       !.hidden = IF IncludeDraftNotes THEN {} ELSE drafts \ ToSet(ctx.seeds),
       !.todo = found \cup ToSet(ctx.seeds)]
  /\ UNCHANGED <<links, lexical, semantic, drafts, deleted, changed>>

----------------------------------------------------------------------------
(* Packing.                                                                *)

IsSeed(n) == n \in ToSet(ctx.seeds)

\* How many links a neighbour has with the hits.
Proximity(n) == Cardinality({e \in links :
  (e[1] = n /\ IsSeed(e[2])) \/ (e[2] = n /\ IsSeed(e[1]))})

\* Hits in their order, then neighbours by how close they are.
Turn(n) ==
  /\ n \in ctx.todo
  /\ IF IsSeed(n)
     THEN \E i \in DOMAIN ctx.seeds :
            ctx.seeds[i] = n /\ \A j \in 1 .. i - 1 : ctx.seeds[j] \notin ctx.todo
     ELSE \A m \in ctx.todo : ~IsSeed(m) /\ Proximity(m) <= Proximity(n)

Packable_if_not_deleted(n) == n \notin Stubs \cup deleted

\* Not a stub, not a draft by the row read above, not deleted by the document.
Packable(n) == n \notin Stubs \cup ctx.hidden \cup deleted

Packed(n, kept) == Append(ctx.items, [note |-> n, kept |-> kept])

\* The note that does not fit is clipped to what is left, and is the last.
Pack(n) ==
  LET room == IF Budget > ctx.used + Fixed THEN Budget - ctx.used - Fixed ELSE 0 IN
  /\ ctx.pc = "pack" /\ Turn(n)
  /\ ctx' =
       IF ~Packable(n) THEN [ctx EXCEPT !.todo = @ \ {n}]
       ELSE IF Tokens[n] + Fixed + ctx.used <= Budget
       THEN [ctx EXCEPT !.todo = @ \ {n}, !.items = Packed(n, Tokens[n]),
                        !.used = @ + Fixed + Tokens[n]]
       ELSE IF room > 0 \/ ctx.items = <<>>
       THEN [ctx EXCEPT !.pc = "done", !.truncated = TRUE,
               !.items = Packed(n, Min({room, Tokens[n]})),
               !.used = @ + Fixed + Min({room, Tokens[n]})]
       ELSE [ctx EXCEPT !.pc = "done", !.truncated = TRUE]
  /\ UNCHANGED <<links, lexical, semantic, drafts, deleted, changed>>

PackEnd ==
  /\ ctx.pc = "pack" /\ ctx.todo = {}
  /\ ctx' = [ctx EXCEPT !.pc = "done"]
  /\ UNCHANGED <<links, lexical, semantic, drafts, deleted, changed>>

----------------------------------------------------------------------------
\* Meanwhile another request deletes a note or makes it a draft.
ChangeNote(n) ==
  /\ ctx.pc \in {"expand", "pack"} /\ n \notin changed \cup Stubs
  /\ \/ deleted' = deleted \cup {n} /\ UNCHANGED drafts
     \/ drafts' = drafts \cup {n} /\ UNCHANGED deleted
  /\ changed' = changed \cup {n}
  /\ UNCHANGED <<links, lexical, semantic, ctx>>

RetrievalNext ==
  \/ Index \/ SearchHybrid \/ ResolveScope \/ PackEnd
  \/ \E n \in Notes : Pack(n) \/ ChangeNote(n)

RetrievalSpec == RetrievalInit /\ [][RetrievalNext]_retrievalVars

RetrievalTypeOK ==
  /\ ctx.pc \in {"index", "search", "expand", "pack", "done"}
  /\ ToSet(ctx.seeds) \cup ctx.todo \cup ctx.hidden \subseteq Notes
  /\ \A i \in DOMAIN ctx.items : ctx.items[i] \in [note : Notes, kept : Nat]

\* The notes at most Hops links from a hit, by paths.
NearHits == {n \in Notes : \E k \in 1 .. Hops + 1, p \in [1 .. Hops + 1 -> Notes] :
  /\ IsSeed(p[1]) /\ p[k] = n
  /\ \A i \in 1 .. k - 1 : p[i + 1] \in Adjacent(p[i])}

\* The context costs what it says and no more than the budget, but for a
\* first note whose title alone is more.  It holds no note twice, none
\* further than Hops from a hit, and no draft that was one when the graph was
\* read; every other note in reach is in it when nothing had to be cut.
ContextSound ==
  LET packed == {ctx.items[i].note : i \in DOMAIN ctx.items} IN
  ctx.pc \in {"pack", "done"} =>
  /\ ctx.used = SumFunction([i \in DOMAIN ctx.items |-> Fixed + ctx.items[i].kept])
  /\ ctx.used <= Budget \/ Len(ctx.items) = 1
  /\ Cardinality(packed) = Len(ctx.items)
  /\ packed \subseteq NearHits \ Stubs
  /\ ~IncludeDraftNotes => packed \cap drafts \subseteq changed
  /\ ctx.pc = "done" /\ ~ctx.truncated =>
       NearHits \subseteq packed \cup Stubs \cup changed \cup IF IncludeDraftNotes THEN {} ELSE drafts
=============================================================================
