------------------------- MODULE MCBackgroundRefresh -------------------------
(***************************************************************************)
(* Instances of BackgroundRefresh: a plan of the real shape (startup batch, *)
(* steps, recurring batches) with a cap that cuts the last batch.          *)
(***************************************************************************)
EXTENDS BackgroundRefresh

Plan     == <<2>>
Scores   == [s \in Symbol |-> IF s = 1 THEN 60 ELSE 40]
Watched  == {{1, 3}, {2}}
==============================================================================
