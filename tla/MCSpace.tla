------------------------------ MODULE MCSpace ------------------------------
(***************************************************************************)
(* Small instances of the parts of Space for TLC.                          *)
(***************************************************************************)
EXTENDS Space, TLC

CONSTANTS
  m1, m2,                         \* notes of the gates
  w1, w2,                         \* requests, actors, uploads
  title, stub,                    \* index: a title and its stub
  hub,                            \* revert: the hub's client
  b1, b2, b3, page1,              \* blobs: hashes; a note, of the index as well
  x, y, z, target,                \* retrieval: notes and a stub
  letter, hi1, hi2, lo1, lo2,     \* diff: code units
  n1, n2, p1, t1                  \* vault: ids and a name

Settings(mode, facets, maxNotes, scan) ==
  [mode |-> mode, facets |-> facets, maxNotes |-> maxNotes, scan |-> scan]
MCSettings == {
  Settings("draft", FALSE, 1, "warn"),
  Settings("open", TRUE, 2, "block")}

Ask(op, byAgent, body, flagged, tags) ==
  [op |-> op, agent |-> byAgent, body |-> body, flagged |-> flagged, tags |-> tags]
MCShapes == {
  Ask("create", FALSE, TRUE, FALSE, {{"client:acme"}}),
  Ask("create", TRUE, TRUE, TRUE, {}),
  Ask("patch", TRUE, TRUE, FALSE, {}),
  Ask("patch", TRUE, FALSE, FALSE, {{}}),
  Ask("patch", FALSE, TRUE, TRUE, {}),
  Ask("promote", FALSE, FALSE, FALSE, {}),
  Ask("delete", FALSE, FALSE, FALSE, {}),
  Ask("link", FALSE, FALSE, FALSE, {}),
  Ask("delta", FALSE, TRUE, FALSE, {})}

MCStubOf == title :> stub
MCLinks == {{}, {title}, {title, page1}}

MCSize == [h \in {b1, b2, b3} |-> 2]

MCTokens == (x :> 2) @@ (y :> 1) @@ (z :> 4) @@ (target :> 0)
MCGraphs == {{}, {<<x, y>>, <<z, x>>, <<z, y>>, <<x, target>>}}
MCRankings == {<<x>>, <<x, y>>, <<y, x, z>>}

MCJumps == {1, 3, -2}

\* Names of the vault: the one users give, and what assignPaths makes of it.
\* The notes' ids begin alike, as ids made from the time do.
MCVaultIds == {n1, n2, p1}
Name == <<t1>>
MCTitles == {Name, Append(Name, "n"), <<t1, "n", "n">>} \cup {Append(Name, i) : i \in MCVaultIds}
Marked(t, mark) == IF Append(t, mark) \in MCTitles THEN Append(t, mark) ELSE t
MCNames == {Name}
MCPathId == Name :> p1
MCWithFragment == [i \in MCVaultIds |-> [t \in MCTitles |-> Marked(t, "n")]]
MCWithId == [i \in MCVaultIds |-> [t \in MCTitles |-> Marked(t, i)]]

\* No part tells its notes, its requests or its actors apart.
Symmetry == Permutations({m1, m2}) \cup Permutations({w1, w2})
=============================================================================
