-------------------------------- MODULE Favorites --------------------------------
(***************************************************************************)
(* favorites.json of a user, which every session and every refresh of the  *)
(* watchlist reads, changes and writes again without a lock.               *)
(*                                                                         *)
(* The file is written in place: opening it empties it, and what does not  *)
(* parse is read as no favorites.  The order of the favorites is left out, *)
(* and of what a favorite says only whether it has a decision note.        *)
(***************************************************************************)
EXTENDS Integers, FiniteSets

CONSTANTS
    Tab,       \* sessions of the user, each with its thread
    Symbol,    \* symbols
    Absent     \* not a favorite

Favorite == {"plain", "noted"}
FavoriteList == [Symbol -> Favorite \cup {Absent}]
EditKind == {"toggle", "remove", "note", "touch"}

VARIABLES
    favorites, \* favorites.json
    cut,       \* it does not parse
    edit,      \* what each tab is changing in it, and where it is
    wanted,    \* history: the favorites the edits should have led to
    overlap,   \* history: a tab has read while another was between its read
               \* and its write
    killed     \* history: the server has died inside a write

favoritesVars == <<favorites, cut, edit, wanted, overlap, killed>>

NoFavorites == [s \in Symbol |-> Absent]
NoEdit      == [pc |-> "idle", kind |-> "touch", symbol |-> Absent, read |-> NoFavorites]

FavoritesTypeOK ==
    /\ favorites \in FavoriteList
    /\ cut \in BOOLEAN
    /\ edit \in [Tab -> [pc : {"idle", "look", "load", "open", "write"},
                         kind : EditKind \cup {"add"}, symbol : Symbol \cup {Absent},
                         read : FavoriteList]]
    /\ wanted \in FavoriteList
    /\ overlap \in BOOLEAN
    /\ killed \in BOOLEAN

FavoritesInit ==
    /\ favorites = NoFavorites
    /\ cut = FALSE
    /\ edit = [t \in Tab |-> NoEdit]
    /\ wanted = NoFavorites
    /\ overlap = FALSE
    /\ killed = FALSE

-----------------------------------------------------------------------------
\* load_favorites: what does not parse counts as no favorites ...
Loaded == IF cut THEN NoFavorites ELSE favorites

\* What an edit makes of the favorites.
Edited(f, kind, s) ==
    CASE kind = "add"    -> IF f[s] = Absent THEN [f EXCEPT ![s] = "plain"] ELSE f
      [] kind = "remove" -> [f EXCEPT ![s] = Absent]
      [] kind = "note"   -> IF f[s] = Absent THEN f ELSE [f EXCEPT ![s] = "noted"]
      [] OTHER           -> f

\* Fault: an edit about a symbol that is not there is dropped.
NothingIfAbsent(f, kind, s) == f[s] = Absent

\* An edit without effect writes nothing: a favorite that is there, or is not.
NothingToSave(f, kind, s) ==
    IF kind = "add" THEN f[s] # Absent ELSE f[s] = Absent

Editing(t) == edit[t].pc \in {"open", "write"}

\* A button toggles a favorite or removes it, a form saves its note, and a
\* refresh of the watchlist writes its results, one symbol after the other.
BeginEdit(t) ==
    /\ edit[t].pc = "idle"
    /\ \E kind \in EditKind, s \in Symbol :
         edit' = [edit EXCEPT ![t] =
           [NoEdit EXCEPT !.pc = IF kind = "toggle" THEN "look" ELSE "load",
                          !.kind = kind, !.symbol = s]]
    /\ UNCHANGED <<favorites, cut, wanted, overlap, killed>>

\* toggle_favorite asks is_favorite first.
Look(t) ==
    /\ edit[t].pc = "look"
    /\ edit' = [edit EXCEPT ![t].pc = "load",
         ![t].kind = IF Loaded[edit[t].symbol] = Absent THEN "add" ELSE "remove"]
    /\ UNCHANGED <<favorites, cut, wanted, overlap, killed>>

\* The favorites are read; an edit without effect ends here.
LoadFavorites(t) ==
    /\ edit[t].pc = "load"
    /\ IF NothingToSave(Loaded, edit[t].kind, edit[t].symbol)
       THEN /\ edit' = [edit EXCEPT ![t] = NoEdit]
            /\ wanted' = Edited(wanted, edit[t].kind, edit[t].symbol)
       ELSE /\ edit' = [edit EXCEPT ![t] = [@ EXCEPT !.pc = "open", !.read = Loaded]]
            /\ UNCHANGED wanted
    /\ overlap' = (overlap \/ \E u \in Tab \ {t} : Editing(u))
    /\ UNCHANGED <<favorites, cut, killed>>

\* ... but a text that ends inside a character is an error that is not caught,
\* and the edit ends with it.
LoadFails(t) ==
    /\ edit[t].pc \in {"look", "load"} /\ cut
    /\ edit' = [edit EXCEPT ![t] = NoEdit]
    /\ UNCHANGED <<favorites, cut, wanted, overlap, killed>>

\* write_text opens the file, which empties it ...
OpenFavorites(t) ==
    /\ edit[t].pc = "open"
    /\ cut' = TRUE
    /\ edit' = [edit EXCEPT ![t].pc = "write"]
    /\ UNCHANGED <<favorites, wanted, overlap, killed>>

\* ... and writes what the edit has made of the list it has read.  If somebody
\* else has written since, the two texts may be mixed.
WriteFavorites(t) ==
    /\ edit[t].pc = "write"
    /\ favorites' = Edited(edit[t].read, edit[t].kind, edit[t].symbol)
    /\ wanted' = Edited(wanted, edit[t].kind, edit[t].symbol)
    /\ cut' \in IF cut THEN {FALSE} ELSE BOOLEAN
    /\ edit' = [edit EXCEPT ![t] = NoEdit]
    /\ UNCHANGED <<overlap, killed>>

\* The server dies; the file stays as it is.
FavoritesKilled ==
    /\ edit' = [t \in Tab |-> NoEdit]
    /\ killed' = (killed \/ \E t \in Tab : edit[t].pc = "write")
    /\ UNCHANGED <<favorites, cut, wanted, overlap>>

FavoritesNext ==
    \/ \E t \in Tab : \/ BeginEdit(t) \/ Look(t) \/ LoadFavorites(t) \/ LoadFails(t)
                      \/ OpenFavorites(t) \/ WriteFavorites(t)
    \/ FavoritesKilled

FavoritesSpec == FavoritesInit /\ [][FavoritesNext]_favoritesVars

-----------------------------------------------------------------------------
(* Properties.                                                             *)

\* Unless an edit has read while another was between its read and its write,
\* or the server died in a write, the file holds what the edits asked for, a
\* toggle being what its tab has decided when it looked.
FavoritesKept ==
    ~overlap /\ ~killed /\ (\A t \in Tab : ~Editing(t)) =>
        ~cut /\ favorites = wanted

\* What an edit has made of the favorites stays: between edits the file holds
\* what they asked for, however they were interleaved, unless the server died
\* in a write.  The code does not keep this (see the README).
FavoritesPersist ==
    ~killed /\ (\A t \in Tab : edit[t].pc = "idle") => favorites = wanted
==============================================================================
