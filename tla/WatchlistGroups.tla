----------------------------- MODULE WatchlistGroups -----------------------------
(***************************************************************************)
(* watchlist_groups.json of a user and the drafts of the editors open on   *)
(* it: an editor copies the file into its draft, changes the draft, and    *)
(* replaces the file with it or gives it up.  The order inside a group, the *)
(* description and the tone are left out.                                  *)
(***************************************************************************)
EXTENDS Integers, FiniteSets, Sequences, SequencesExt

CONSTANTS
    Editor,    \* sessions of the user
    Placeable, \* symbols
    GroupId,   \* identifiers of groups
    Name,      \* names of groups
    MaxGroups, \* groups an editor may create (20)
    Unplaced   \* no group, no name, no draft

ASSUME GroupsAssumption == MaxGroups \in Nat /\ Unplaced \notin GroupId

Groups == [order : UNION {[1..n -> GroupId] : n \in 0..MaxGroups},
           name  : [GroupId -> Name \cup {Unplaced}],
           place : [Placeable -> GroupId \cup {Unplaced}]]

VARIABLES
    groups, \* watchlist_groups.json
    draft   \* the draft of each editor

groupsVars == <<groups, draft>>

NoGroups == [order |-> <<>>, name |-> [g \in GroupId |-> Unplaced],
             place |-> [s \in Placeable |-> Unplaced]]

GroupsTypeOK ==
    /\ groups \in Groups
    /\ draft \in [Editor -> Groups \cup {Unplaced}]

GroupsInit ==
    /\ groups = NoGroups
    /\ draft = [t \in Editor |-> Unplaced]

-----------------------------------------------------------------------------
\* Groups that exist in the file or in a draft: a new identifier is random.
InUse == ToSet(groups.order) \cup
         UNION {ToSet(draft[t].order) : t \in {u \in Editor : draft[u] # Unplaced}}

Open(t) == draft[t] # Unplaced

Drafted(t, d) ==
    /\ draft' = [draft EXCEPT ![t] = d]
    /\ UNCHANGED groups

\* open_watchlist_groups_editor: the draft is a copy of the file.
OpenEditor(t) == ~Open(t) /\ Drafted(t, groups)

\* draft_add_group
AddGroup(t, name) ==
    /\ Open(t)
    /\ Len(draft[t].order) < MaxGroups
    /\ \A g \in GroupId : draft[t].name[g] # name
    /\ \E g \in GroupId \ InUse :
         Drafted(t, [draft[t] EXCEPT !.order = Append(@, g), !.name[g] = name])

\* draft_update_group
RenameGroup(t, name) ==
    /\ Open(t)
    /\ \E g \in ToSet(draft[t].order) :
         /\ \A h \in GroupId \ {g} : draft[t].name[h] # name
         /\ Drafted(t, [draft[t] EXCEPT !.name[g] = name])

\* Fault: the placements in a deleted group stay.
DeleteGroupOnly(t) ==
    /\ Open(t)
    /\ \E i \in DOMAIN draft[t].order :
         Drafted(t, [draft[t] EXCEPT !.order = RemoveAt(@, i),
                                     !.name[draft[t].order[i]] = Unplaced])

\* draft_delete_group: its symbols are unplaced.
DeleteGroup(t) ==
    /\ Open(t)
    /\ \E i \in DOMAIN draft[t].order :
         LET g == draft[t].order[i]
         IN  Drafted(t, [order |-> RemoveAt(draft[t].order, i),
                         name  |-> [draft[t].name EXCEPT ![g] = Unplaced],
                         place |-> [s \in Placeable |-> IF draft[t].place[s] = g THEN Unplaced
                                                     ELSE draft[t].place[s]]])

\* draft_move_group: two neighbours change places.
MoveGroup(t) ==
    /\ Open(t)
    /\ \E i \in 1..(Len(draft[t].order) - 1) :
         Drafted(t, [draft[t] EXCEPT !.order[i] = draft[t].order[i + 1],
                                     !.order[i + 1] = draft[t].order[i]])

\* apply_sortable_payload: a board is accepted when it has the containers of
\* the draft and the items that were shown; it places these items, and the
\* others stay where they are, which is one of the boards here.
Sort(t) ==
    /\ Open(t)
    /\ \E board \in [Placeable -> ToSet(draft[t].order) \cup {Unplaced}] :
         Drafted(t, [draft[t] EXCEPT !.place = board])

\* A draft may be saved: the validator of WatchlistGroupsState.  It also looks at
\* the descriptions, which are left out; a draft that fails there stays as it is.
WellFormed(g) ==
    /\ Len(g.order) <= MaxGroups
    /\ IsInjective(g.order)
    /\ \A i, j \in DOMAIN g.order : i # j => g.name[g.order[i]] # g.name[g.order[j]]

\* save_state
SaveDraft(t) ==
    /\ Open(t)
    /\ WellFormed(draft[t])
    /\ groups' = draft[t]
    /\ draft' = [draft EXCEPT ![t] = Unplaced]

CancelDraft(t) == Open(t) /\ Drafted(t, Unplaced)

\* The server dies, and the drafts with it.
DraftsLost == draft' = [t \in Editor |-> Unplaced] /\ UNCHANGED groups

GroupsNext ==
    \/ \E t \in Editor : \/ OpenEditor(t) \/ DeleteGroup(t) \/ MoveGroup(t) \/ Sort(t)
                         \/ SaveDraft(t) \/ CancelDraft(t)
                         \/ \E name \in Name : AddGroup(t, name) \/ RenameGroup(t, name)
    \/ DraftsLost

GroupsSpec == GroupsInit /\ [][GroupsNext]_groupsVars

-----------------------------------------------------------------------------
(* Properties.                                                             *)

\* The file and every draft name existing groups only, once each and by
\* different names, whatever two editors overwrite of each other: no save is
\* refused for its groups, and none makes a file that would be read as empty.
GroupsConsistent ==
    \A g \in {groups} \cup {draft[t] : t \in {u \in Editor : Open(u)}} :
        /\ WellFormed(g)
        /\ \A s \in Placeable : g.place[s] \in ToSet(g.order) \cup {Unplaced}
==============================================================================
