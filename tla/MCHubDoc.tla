----------------------------- MODULE MCHubDoc -----------------------------
(***************************************************************************)
(* Instances of HubDoc for TLC.                                            *)
(***************************************************************************)
EXTENDS HubDoc

\* The document objects, by number: at least one more than can be in use.
MCObjs == 1 .. (3 * Cardinality(Notes) + 2 * Cardinality(Clients) + 2)
=============================================================================
