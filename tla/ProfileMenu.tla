------------------------------ MODULE ProfileMenu ------------------------------
(***************************************************************************)
(* The menu of the profiles in the player (src/plugins/np_profiles.js):    *)
(* the button in the header, the list asked for each time it is opened,    *)
(* the menu of one profile (switch, icon, rename, delete), the creation of *)
(* a profile, and the history page, which loads again when the profile     *)
(* changes.  Requests are answered in any order, and the viewer goes on    *)
(* meanwhile.  The server keeps a row per profile; timecodes watched before*)
(* there was any belong to a profile without name, listed while it has     *)
(* some, and move to the next profile created.  What a switch loads is in  *)
(* PlayerProfiles.                                                         *)
(***************************************************************************)
EXTENDS Integers, FiniteSets, Functions

CONSTANTS
    Limit,        \* MaxProfiles of the role, 0: unlimited
    None,         \* no profile is active; the history page is closed
    Last,         \* (bound) the last id the server gives
    MaxAsks,      \* (bound) requests under way when the viewer acts
    MaxMoves      \* (bound) what the viewer does, and failures

VARIABLES
    rows,         \* profiles of the device, on the server
    orphans,      \* the nameless profile has timecodes
    next,         \* the next id the server gives
    active, face, \* np_active_profile: its id, and its name and icon, which the button shows
    menu,         \* Lampa.Select: what is open, and the profile object it is about
    list,         \* _allProfiles: the last list that came
    loading,
    history,      \* the profile the history page shows, None when it is closed
    asks,         \* requests under way
    moves,
    crossed       \* (ghost) an answer came too late to be of use, or not at all

server == <<rows, orphans, next>>
vars == <<server, active, face, menu, list, loading, history, asks, moves, crossed>>

Default == 0      \* the id of the profile without name
Id == Default..Last
Look == [name : 0..1, icon : 0..1]
Plain == [name |-> 0, icon |-> 0]
Objects == [id : Id, look : Look]
Lists == UNION {[S -> Look] : S \in SUBSET Id}
Kinds == {"list", "rest", "create", "patch", "icon", "rename", "delete", "pull", "data", "history"}
Asks == [what : Kinds, obj : Objects, done : BOOLEAN, got : Lists]

TypeOK ==
    /\ rows \in Lists /\ orphans \in BOOLEAN /\ next \in 1..(Last + 1)
    /\ active \in Id \cup {None} /\ face \in Look
    /\ menu.at \in {"closed", "list", "profile"} /\ menu.obj \in Objects
    /\ list \in Lists /\ loading \in BOOLEAN
    /\ history \in Id \cup {None}
    /\ asks \subseteq Asks
    /\ moves \in 0..MaxMoves /\ crossed \in BOOLEAN

\* handleListProfiles: the rows, and the nameless profile while it has timecodes.
Listed == DOMAIN rows \cup (IF orphans THEN {Default} ELSE {})
LookOf(p) == IF p \in DOMAIN rows THEN rows[p] ELSE Plain
AsListed == [p \in Listed |-> LookOf(p)]

Object(p, look) == [id |-> p, look |-> look]
Closed == [at |-> "closed", obj |-> Object(Default, Plain)]
Ask(what, obj) == [what |-> what, obj |-> obj, done |-> FALSE, got |-> << >>]
One(p, look) == [q \in {p} |-> look]
Put(f, p, look) == [q \in DOMAIN f \cup {p} |-> IF q = p THEN look ELSE f[q]]
Edits == {"icon", "rename", "delete"}
Edited == {a.obj.id : a \in {b \in asks : b.what \in Edits \cup {"patch"}}}

\* init: the list came; the saved profile is active if it is in it, else the first.
Init ==
    /\ rows \in Lists /\ DOMAIN rows \subseteq {Default, 1} /\ orphans \in BOOLEAN
    /\ \A p \in DOMAIN rows : rows[p] = Plain
    /\ next = 2
    /\ IF Listed = {} THEN active = None ELSE active \in Listed
    /\ face = Plain
    /\ menu = Closed /\ list = << >> /\ loading = FALSE
    /\ history = None /\ asks = {} /\ moves = 0 /\ crossed = FALSE

Move == moves < MaxMoves /\ moves' = moves + 1
Room == Cardinality(asks) < MaxAsks

-----------------------------------------------------------------------------
(* The viewer *)

openSelector ==
    /\ Move /\ Room /\ ~loading
    /\ loading' = TRUE
    /\ asks' = asks \cup {Ask("list", menu.obj)}
    /\ UNCHANGED <<server, active, face, menu, list, history, crossed>>

openProfileMenu(p) ==
    /\ menu.at = "list" /\ p \in DOMAIN list
    /\ menu' = [at |-> "profile", obj |-> Object(p, list[p])]
    /\ UNCHANGED <<server, active, face, list, loading, history, asks, moves, crossed>>

Close ==
    /\ Move /\ menu.at = "list"
    /\ menu' = Closed /\ loading' = FALSE
    /\ UNCHANGED <<server, active, face, list, history, asks, crossed>>

\* What an answer said of a profile is from before a change.
Outdated(obj) ==
    \/ obj.id \notin Listed \/ obj.look # LookOf(obj.id)
    \/ \E a \in asks : a.what \in {"icon", "rename", "patch"} /\ a.obj.id = obj.id

\* switchToProfile: named at once; the settings are pulled and the data loaded.
Switch(obj, heard, others) ==
    /\ active' = obj.id /\ face' = obj.look
    /\ asks' = others \cup {Ask("pull", obj), Ask("data", obj)}
    /\ crossed' = \/ crossed
                  \/ Outdated(heard)
                  \/ \E a \in others : a.what = "history" /\ a.obj.id # obj.id

ChooseProfile ==
    /\ Move /\ Room /\ menu.at = "profile"
    /\ menu.obj.id # active /\ Cardinality(DOMAIN list) > 1
    /\ menu' = Closed
    /\ Switch(menu.obj, menu.obj, asks)
    /\ UNCHANGED <<server, list, loading, history>>

\* Creation is offered while the list is shorter than the limit sent with it.
Offered == Cardinality(DOMAIN list) < Limit

CreateProfile(icon) ==
    /\ Move /\ Room /\ menu.at = "list" /\ Offered
    /\ menu' = Closed
    /\ asks' = asks \cup {Ask("create", Object(Default, [name |-> 1, icon |-> icon]))}
    /\ UNCHANGED <<server, active, face, list, loading, history, crossed>>

\* The icon or the name of the profile of the menu is changed, or it is deleted;
\* not two such requests for one profile at once (bound).
Edit(what) ==
    /\ Move /\ Room /\ menu.at = "profile" /\ menu.obj.id \notin Edited
    /\ menu' = Closed
    /\ asks' = asks \cup {Ask(what, menu.obj)}
    /\ crossed' = \/ crossed
                  \/ menu.obj.id \notin Listed
                  \/ \E a \in asks : a.what = "rename" /\ a.obj.id = Default
    /\ UNCHANGED <<server, active, face, list, loading, history>>

OpenHistory ==
    /\ Move /\ Room /\ history = None /\ active # None
    /\ history' = active
    /\ asks' = asks \cup {Ask("history", Object(active, face))}
    /\ UNCHANGED <<server, active, face, menu, list, loading, crossed>>

-----------------------------------------------------------------------------
(* The server *)

Serves(a, got) == asks' = (asks \ {a}) \cup {[a EXCEPT !.done = TRUE, !.got = got]}

Full == Limit > 0 /\ Cardinality(DOMAIN rows) >= Limit

\* handleCreateProfile: a new row, to which the timecodes of the nameless profile go.
Create(a, look) ==
    /\ ~Full /\ next <= Last
    /\ rows' = Put(rows, next, look) /\ orphans' = FALSE /\ next' = next + 1
    /\ Serves(a, One(next, look))

\* handleUpdateProfile: a profile that has no row gets one.
Changed(a) == IF a.what = "rename" THEN [LookOf(a.obj.id) EXCEPT !.name = 1]
              ELSE [LookOf(a.obj.id) EXCEPT !.icon = 1 - a.obj.look.icon]

\* A change of a profile that is gone brings it back.
Serve(a) ==
    /\ ~a.done
    /\ \/ /\ a.what \in {"list", "rest"}
          /\ Serves(a, AsListed) /\ UNCHANGED server
       \/ /\ a.what \in {"pull", "data", "history"}
          /\ Serves(a, << >>) /\ UNCHANGED server
       \/ /\ a.what = "create"
          /\ Create(a, [name |-> 1, icon |-> 0])
       \/ /\ a.what = "rename" /\ a.obj.id = Default
          /\ Create(a, [name |-> 1, icon |-> 0])
       \/ /\ a.what \in {"icon", "patch"} \/ (a.what = "rename" /\ a.obj.id # Default)
          /\ rows' = Put(rows, a.obj.id, Changed(a))
          /\ Serves(a, One(a.obj.id, Changed(a)))
          /\ UNCHANGED <<orphans, next>>
       \/ /\ a.what = "delete"
          /\ rows' = Restrict(rows, DOMAIN rows \ {a.obj.id})
          /\ orphans' = (orphans /\ a.obj.id # Default)
          /\ Serves(a, << >>)
          /\ UNCHANGED next
    /\ crossed' = (crossed \/ (a.what \in {"icon", "rename", "patch"} /\ a.obj.id \notin Listed))
    /\ UNCHANGED <<active, face, menu, list, loading, history, moves>>

\* At the limit the server refuses, and the viewer is told.
Refuse(a) ==
    /\ ~a.done /\ Full
    /\ a.what = "create" \/ (a.what = "rename" /\ a.obj.id = Default)
    /\ asks' = asks \ {a}
    /\ UNCHANGED <<server, active, face, menu, list, loading, history, moves, crossed>>

\* Lost: what was done, if it was, is not known here.
Fail(a) ==
    /\ Move
    /\ asks' = asks \ {a}
    /\ loading' = (loading /\ a.what # "list")
    /\ crossed' = TRUE
    /\ UNCHANGED <<server, active, face, menu, list, history>>

-----------------------------------------------------------------------------
(* Answers *)

GotList(a) ==
    /\ a.what = "list"
    /\ list' = a.got /\ loading' = FALSE
    /\ menu' = [at |-> "list", obj |-> menu.obj]
    /\ asks' = asks \ {a}
    /\ UNCHANGED <<active, face, history, crossed>>

\* The new profile becomes the active one; its icon is sent after it, unheard.
Created(a) ==
    /\ a.what = "create"
    /\ \E p \in DOMAIN a.got :
         LET obj == Object(p, a.obj.look) IN
         Switch(obj, Object(p, a.got[p]),
                (asks \ {a}) \cup
                (IF a.obj.look.icon = 1 THEN {Ask("patch", Object(p, a.got[p]))} ELSE {}))
    /\ UNCHANGED <<menu, list, loading, history>>

\* The icon changed: the menu of the profile comes back.
IconChanged(a) ==
    /\ a.what = "icon"
    /\ LET icon == a.got[a.obj.id].icon IN
       /\ face' = IF active = a.obj.id THEN [face EXCEPT !.icon = icon] ELSE face
       /\ menu' = [at |-> "profile", obj |-> [a.obj EXCEPT !.look.icon = icon]]
    /\ asks' = asks \ {a}
    /\ UNCHANGED <<active, list, loading, history, crossed>>

\* Mutant: only the name is taken from the answer.
RenamedNameOnly(a) ==
    /\ a.what = "rename"
    /\ face' = IF active = a.obj.id THEN [face EXCEPT !.name = 1] ELSE face
    /\ asks' = asks \ {a}
    /\ UNCHANGED <<active, menu, list, loading, history, crossed>>

\* The nameless profile gets an id with its name, and what the history page lists
\* of it is now the new one's.  A page of it still under way is not, and the icon
\* it was given stays behind, with a row for the nameless profile.
Renamed(a) ==
    /\ a.what = "rename"
    /\ \E p \in DOMAIN a.got :
         /\ active' = IF active = a.obj.id THEN p ELSE active
         /\ history' = IF history = a.obj.id THEN p ELSE history
    /\ face' = IF active = a.obj.id THEN [face EXCEPT !.name = 1] ELSE face
    /\ asks' = asks \ {a}
    /\ crossed' = \/ crossed
                  \/ a.obj.id = Default /\ face.icon = 1
                  \/ \E b \in asks : b.what = "history" /\ b.obj.id = a.obj.id
    /\ UNCHANGED <<menu, list, loading>>

\* If it was the active one the rest are asked for, else the list is shown again.
Deleted(a) ==
    /\ a.what = "delete"
    /\ LET why == IF active = a.obj.id THEN "rest" ELSE "list" IN
       /\ asks' = (asks \ {a}) \cup (IF why = "list" /\ loading THEN {} ELSE {Ask(why, menu.obj)})
       /\ loading' = (loading \/ why = "list")
    /\ UNCHANGED <<active, face, menu, list, history, crossed>>

\* The first profile that remains becomes the active one.
GotRest(a) ==
    /\ a.what = "rest"
    /\ IF a.got = << >>
       THEN /\ active' = None /\ face' = Plain /\ asks' = asks \ {a}
            /\ crossed' = (crossed \/ Listed # {})
       ELSE \E p \in DOMAIN a.got : LET obj == Object(p, a.got[p]) IN Switch(obj, obj, asks \ {a})
    /\ UNCHANGED <<menu, list, loading, history>>

\* 'profile changed', after the settings and after the data: the history loads again.
ProfileChanged(a) ==
    /\ a.what \in {"pull", "data"}
    /\ asks' = (asks \ {a}) \cup
               (IF history = None THEN {}
                ELSE {Ask("history", IF active = None THEN Object(Default, Plain) ELSE Object(active, face))})
    /\ UNCHANGED <<active, face, menu, list, loading, history, crossed>>

GotHistory(a) ==
    /\ a.what = "history"
    /\ history' = a.obj.id
    /\ asks' = asks \ {a}
    /\ UNCHANGED <<active, face, menu, list, loading, crossed>>

PatchDone(a) ==
    /\ a.what = "patch"
    /\ asks' = asks \ {a}
    /\ UNCHANGED <<active, face, menu, list, loading, history, crossed>>

Answer(a) ==
    /\ a.done
    /\ \/ GotList(a) \/ Created(a) \/ IconChanged(a) \/ Renamed(a) \/ Deleted(a)
       \/ GotRest(a) \/ ProfileChanged(a) \/ GotHistory(a) \/ PatchDone(a)
    /\ UNCHANGED <<server, moves>>

-----------------------------------------------------------------------------

Next ==
    \/ openSelector \/ Close \/ ChooseProfile \/ OpenHistory
    \/ \E p \in DOMAIN list : openProfileMenu(p)
    \/ \E icon \in 0..1 : CreateProfile(icon)
    \/ \E what \in Edits : Edit(what)
    \/ \E a \in asks : Serve(a) \/ Refuse(a) \/ Fail(a) \/ Answer(a)

Spec == Init /\ [][Next]_vars

-----------------------------------------------------------------------------

\* When nothing is under way and nothing was lost, the active profile is one of
\* the device's, under the name and the icon the server has for it.
SettledProfileExists ==
    asks = {} /\ ~crossed =>
        IF active = None THEN Listed = {} ELSE active \in Listed /\ face = LookOf(active)

\* ... and the history page, if it is open, shows that profile's.
SettledHistoryIsOfActive ==
    asks = {} /\ ~crossed /\ history # None /\ active # None => history = active

\* Violated by the code: a limit of 0 is no limit.  It is sent as it is, and no
\* list is shorter than 0.
CreationIsOffered == Limit = 0 /\ menu.at = "list" => Offered

=============================================================================
