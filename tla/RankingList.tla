------------------------------ MODULE RankingList ------------------------------
(***************************************************************************)
(* What the ranking history of a user promises: a list of runs that every  *)
(* mutation changes in one step, as if sessions took turns.  A new run is  *)
(* the newest one; pinned runs stay until they are deleted, and of the     *)
(* others the newest Keep stay, so that a new run is listed at once.       *)
(***************************************************************************)
EXTENDS Integers, FiniteSets

CONSTANTS
    Run,   \* runs, in the order of their numbers
    Item,  \* entries, with a field pinned
    Keep,  \* runs that stay without a pin
    None   \* not listed

VARIABLE listed   \* the entry of each run

InList(l)   == {r \in Run : l[r] # None}
Unpinned(l) == {r \in InList(l) : ~l[r].pinned}

\* A list without the unpinned runs that Keep unpinned runs have followed.
Retained(l) ==
    [r \in Run |-> IF r \in Unpinned(l) /\ Cardinality({n \in Unpinned(l) : n > r}) >= Keep
                   THEN None ELSE l[r]]

ListInit == listed = [r \in Run |-> None]

SaveRun(r, item) ==
    /\ \A q \in InList(listed) : q < r
    /\ ~item.pinned
    /\ Keep > 0 => listed'[r] = item
    /\ listed' = Retained([listed EXCEPT ![r] = item])

SetPinned(r, pinned) ==
    /\ listed[r] # None
    /\ listed' = Retained([listed EXCEPT ![r] = [@ EXCEPT !.pinned = pinned]])

DeleteRun(r) ==
    /\ listed[r] # None
    /\ listed' = [listed EXCEPT ![r] = None]

ListNext ==
    \E r \in Run :
       \/ \E item \in Item : SaveRun(r, item)
       \/ \E pinned \in BOOLEAN : SetPinned(r, pinned)
       \/ DeleteRun(r)

ListSpec == ListInit /\ [][ListNext]_listed
==============================================================================
