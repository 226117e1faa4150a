---------------------------- MODULE MCSymbolStore ----------------------------
(***************************************************************************)
(* TLC instances of SymbolStore: the background thread and a ranking       *)
(* preflight over a symbol whose CSV row carries official metrics, and     *)
(* beside it a row that keeps the CSV from being empty.                    *)
(***************************************************************************)
EXTENDS SymbolStore

CONSTANTS full, bare, background, ui

\* The other row stays listed, no provider answers for it, and no ranking asks
\* for it.
BareRow ==
    /\ universe[bare] = "active" /\ records[bare] = None
    /\ \A w \in Preflight : bare \notin batch[w].targets
==============================================================================
