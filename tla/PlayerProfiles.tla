---------------------------- MODULE PlayerProfiles ----------------------------
(***************************************************************************)
(* The profiles of a player (src/plugins/np_profiles.js, and the sending   *)
(* of timecodes in src/plugins/np.js).  The server keeps the favourites    *)
(* and the timecodes of every profile; the player holds one copy of each,  *)
(* for the active profile, in keys of its storage that do not name it.     *)
(*                                                                         *)
(* A change of the profile names the new one at once and brings its data   *)
(* later, in two requests one after the other.  A change of the favourites *)
(* is sent as a whole two seconds later, for the profile that is active    *)
(* then.  Other screens change both and the server passes it on.           *)
(***************************************************************************)
EXTENDS Naturals, Sequences, Bags

CONSTANTS
    Profile,      \* the profiles of the device
    Card,         \* favourites
    Hash,         \* timecodes
    None,
    MaxEvents,    \* (bound) what viewers do, here and elsewhere, and failures
    MaxLoads      \* (bound) loads and writes under way when the viewer acts

VARIABLES
    favs, marks,  \* favs[p], marks[p]: favourites and timecodes of p on the server
    active,       \* np_active_profile
    fav, view,    \* the storage of the player: favorite, file_view
    favBackup,    \* np_fav_<p>, or None
    viewBackup,   \* np_fv_<p>, empty when there is none
    up,           \* the profiles were fetched at the start: changes are heard and sent
    timer,        \* scheduleSaveFavorite is about to send
    loads,        \* fetchFileView and fetchFavorite under way
    writes,       \* favourites and timecodes on their way to the server
    news,         \* messages of the web socket
    events,
    made, seen,   \* (history) what was marked and watched under each profile
    crossed       \* (history) the profile, or the data, changed under a load or a pending save

server == <<favs, marks>>
storage == <<active, fav, view, favBackup, viewBackup>>
history == <<made, seen, crossed>>
vars == <<server, storage, up, timer, loads, writes, news, events, history>>

Load == [why : {"switch", "start", "full"}, step : {"view", "fav", "got"}, of : Profile,
         view : SUBSET Hash, fav : SUBSET Card]
Write == [of : Profile, fav : {None}, hash : Hash] \cup [of : Profile, fav : SUBSET Card, hash : {None}]

TypeOK ==
    /\ favs \in [Profile -> SUBSET Card] /\ marks \in [Profile -> SUBSET Hash]
    /\ active \in Profile
    /\ fav \subseteq Card /\ view \subseteq Hash
    /\ favBackup \in [Profile -> {None} \cup (SUBSET Card)]
    /\ viewBackup \in [Profile -> SUBSET Hash]
    /\ up \in BOOLEAN /\ timer \in BOOLEAN
    /\ IsABag(loads) /\ BagToSet(loads) \subseteq Load
    /\ IsABag(writes) /\ BagToSet(writes) \subseteq Write
    /\ news \in Seq(Write)
    /\ events \in 0..MaxEvents
    /\ made \in [Profile -> SUBSET Card] /\ seen \in [Profile -> SUBSET Hash]
    /\ crossed \in BOOLEAN

Event == events < MaxEvents /\ events' = events + 1
Room == BagCardinality(loads) + BagCardinality(writes) < MaxLoads

One(x) == SetToBag({x})
Fetch(why, p) == [why |-> why, step |-> "view", of |-> p, view |-> {}, fav |-> {}]
OfList(p, list) == [of |-> p, fav |-> list, hash |-> None]
OfHash(p, h) == [of |-> p, fav |-> None, hash |-> h]

Loading == \E l \in BagToSet(loads) : l.why # "full"

\* The player was used with its first profile before.
Init ==
    /\ favs \in [Profile -> SUBSET Card] /\ marks = [p \in Profile |-> {}]
    /\ active \in Profile
    /\ fav = favs[active] /\ view = {}
    /\ favBackup = [p \in Profile |-> None]
    /\ viewBackup = [p \in Profile |-> {}]
    /\ up = TRUE /\ timer = FALSE
    /\ loads = EmptyBag /\ writes = EmptyBag /\ news = <<>>
    /\ events = 0
    /\ made = favs /\ seen = marks /\ crossed = FALSE

-----------------------------------------------------------------------------
(* The viewer *)

\* Mutant: the favourites are kept under the new profile.
switchToProfileFirst(p) ==
    /\ Event /\ Room /\ p # active
    /\ active' = p
    /\ favBackup' = [favBackup EXCEPT ![p] = fav]
    /\ viewBackup' = [viewBackup EXCEPT ![p] = view]
    /\ loads' = loads (+) One(Fetch("switch", p))
    /\ crossed' = (crossed \/ timer \/ loads # EmptyBag)
    /\ UNCHANGED <<server, fav, view, up, timer, writes, news, made, seen>>

\* The data of the old profile are set aside, the new one is named, and its
\* data are asked for.
switchToProfile(p) ==
    /\ Event /\ Room /\ p # active
    /\ active' = p
    /\ favBackup' = [favBackup EXCEPT ![active] = fav]
    /\ viewBackup' = [viewBackup EXCEPT ![active] = view]
    /\ loads' = loads (+) One(Fetch("switch", p))
    /\ crossed' = (crossed \/ timer \/ loads # EmptyBag)
    /\ UNCHANGED <<server, fav, view, up, timer, writes, news, made, seen>>

\* Lampa.Favorite.add and remove: the player keeps the list, and the plugin
\* hears of it.
Favourite(c) ==
    /\ Event
    /\ fav' = IF c \in fav THEN fav \ {c} ELSE fav \cup {c}
    /\ made' = IF c \in fav THEN made ELSE [made EXCEPT ![active] = @ \cup {c}]
    /\ timer' = (timer \/ up)
    /\ crossed' = (crossed \/ Loading)
    /\ UNCHANGED <<server, active, view, favBackup, viewBackup, up, loads, writes, news, seen>>

\* A timecode of the player: np.js posts it for the profile that is active.
Watch(h) ==
    /\ Event /\ Room /\ h \notin view
    /\ view' = view \cup {h}
    /\ seen' = [seen EXCEPT ![active] = @ \cup {h}]
    /\ writes' = writes (+) One(OfHash(active, h))
    /\ crossed' = (crossed \/ Loading)
    /\ UNCHANGED <<server, active, fav, favBackup, viewBackup, up, timer, loads, news, made>>

\* A full card is opened: the timecodes are brought again.
OpenCard ==
    /\ Event /\ Room
    /\ loads' = loads (+) One(Fetch("full", active))
    /\ UNCHANGED <<server, storage, up, timer, writes, news, history>>

\* The player starts again.  The favourites set aside for the profile replace
\* those of the storage, before anything is asked of the server.
Restart(ok) ==
    /\ Event
    /\ fav' = IF favBackup[active] = None THEN fav ELSE favBackup[active]
    /\ up' = ok /\ timer' = FALSE /\ news' = <<>>
    /\ loads' = IF ok THEN One(Fetch("start", active)) ELSE EmptyBag
    /\ crossed' = (crossed \/ Loading)
    /\ UNCHANGED <<server, active, view, favBackup, viewBackup, writes, made, seen>>

\* Another screen of the account: the server passes on what it was sent.
Elsewhere(p) ==
    /\ Event
    /\ \/ \E c \in Card \ favs[p] :
             /\ favs' = [favs EXCEPT ![p] = @ \cup {c}]
             /\ made' = [made EXCEPT ![p] = @ \cup {c}]
             /\ news' = IF up THEN Append(news, OfList(p, favs'[p])) ELSE news
             /\ UNCHANGED <<marks, seen>>
       \/ \E h \in Hash \ marks[p] :
             /\ marks' = [marks EXCEPT ![p] = @ \cup {h}]
             /\ seen' = [seen EXCEPT ![p] = @ \cup {h}]
             /\ news' = IF up THEN Append(news, OfHash(p, h)) ELSE news
             /\ UNCHANGED <<favs, made>>
    /\ UNCHANGED <<storage, up, timer, loads, writes, crossed>>

-----------------------------------------------------------------------------
(* The loads of a profile *)

Pending(l, step) == BagIn(l, loads) /\ l.step = step
Ends(l) == loads' = loads (-) One(l)
GoesOn(l, m) == loads' = (loads (-) One(l)) (+) One(m)

\* applyFavorite with the favourites set aside, if there are any.
Fallback(p) == fav' = IF favBackup[p] = None THEN fav ELSE favBackup[p]

\* Mutant: the timecodes that come for a start are added to the others.
GotViewAdding(l) ==
    /\ Pending(l, "view")
    /\ IF l.why = "switch"
       THEN GoesOn(l, [l EXCEPT !.step = "fav", !.view = view \cup marks[l.of]]) /\ UNCHANGED view
       ELSE view' = view \cup marks[l.of]
            /\ (IF l.why = "start" THEN GoesOn(l, [l EXCEPT !.step = "fav"]) ELSE Ends(l))
    /\ UNCHANGED <<server, active, fav, favBackup, viewBackup, up, timer, writes, news, events, history>>

\* fetchFileView answers.  A switch keeps the timecodes until the favourites
\* are there; the others store them at once.
GotView(l) ==
    /\ Pending(l, "view")
    /\ IF l.why = "switch"
       THEN GoesOn(l, [l EXCEPT !.step = "fav", !.view = marks[l.of]]) /\ UNCHANGED view
       ELSE view' = marks[l.of]
            /\ (IF l.why = "start" THEN GoesOn(l, [l EXCEPT !.step = "fav"]) ELSE Ends(l))
    /\ UNCHANGED <<server, active, fav, favBackup, viewBackup, up, timer, writes, news, events, history>>

\* It fails: a switch falls back to what was set aside.
LostView(l) ==
    /\ Pending(l, "view") /\ Event
    /\ Ends(l)
    /\ IF l.why = "switch"
       THEN Fallback(l.of) /\ view' = viewBackup[l.of] /\ crossed' = (crossed \/ favBackup[l.of] = None)
       ELSE UNCHANGED <<fav, view, crossed>>
    /\ UNCHANGED <<server, active, favBackup, viewBackup, up, timer, writes, news, made, seen>>

\* fetchFavorite: the server answers, and the answer arrives.
AnswerFav(l) ==
    /\ Pending(l, "fav")
    /\ GoesOn(l, [l EXCEPT !.step = "got", !.fav = favs[l.of]])
    /\ UNCHANGED <<server, storage, up, timer, writes, news, events, history>>

GotFav(l) ==
    /\ Pending(l, "got")
    /\ Ends(l)
    /\ fav' = l.fav
    /\ view' = IF l.why = "switch" THEN l.view ELSE view
    /\ UNCHANGED <<server, active, favBackup, viewBackup, up, timer, writes, news, events, history>>

LostFav(l) ==
    /\ Pending(l, "fav") /\ Event
    /\ Ends(l)
    /\ IF l.why = "switch"
       THEN Fallback(l.of) /\ view' = l.view /\ crossed' = (crossed \/ favBackup[l.of] = None)
       ELSE UNCHANGED <<fav, view, crossed>>
    /\ UNCHANGED <<server, active, favBackup, viewBackup, up, timer, writes, news, made, seen>>

-----------------------------------------------------------------------------
(* To the server and from it *)

\* scheduleSaveFavorite: the whole list, for the profile that is active now.
SendFavourites ==
    /\ timer
    /\ timer' = FALSE
    /\ writes' = writes (+) One(OfList(active, fav))
    /\ UNCHANGED <<server, storage, up, loads, news, events, history>>

WriteDone(w) ==
    /\ BagIn(w, writes)
    /\ writes' = writes (-) One(w)
    /\ IF w.fav # None
       THEN favs' = [favs EXCEPT ![w.of] = w.fav] /\ UNCHANGED marks
       ELSE marks' = [marks EXCEPT ![w.of] = @ \cup {w.hash}] /\ UNCHANGED favs
    /\ UNCHANGED <<storage, up, timer, loads, news, events, history>>

\* Nothing is sent again.
WriteFails(w) ==
    /\ BagIn(w, writes) /\ Event
    /\ writes' = writes (-) One(w)
    /\ UNCHANGED <<server, storage, up, timer, loads, news, history>>

\* onWsFavorite and onWsTimecode: for the active profile only.
onWsMessage ==
    /\ news # <<>>
    /\ news' = Tail(news)
    /\ LET m == Head(news) IN
         IF m.of # active THEN UNCHANGED <<fav, view>>
         ELSE IF m.fav # None THEN fav' = m.fav /\ UNCHANGED view
         ELSE view' = view \cup {m.hash} /\ UNCHANGED fav
    /\ UNCHANGED <<server, active, favBackup, viewBackup, up, timer, loads, writes, events, history>>

-----------------------------------------------------------------------------

Viewer ==
    \/ \E p \in Profile : switchToProfile(p) \/ Elsewhere(p)
    \/ \E c \in Card : Favourite(c)
    \/ \E h \in Hash : Watch(h)
    \/ OpenCard
    \/ \E ok \in BOOLEAN : Restart(ok)

Next ==
    \/ Viewer
    \/ \E l \in BagToSet(loads) : GotView(l) \/ LostView(l) \/ AnswerFav(l) \/ GotFav(l) \/ LostFav(l)
    \/ SendFavourites \/ onWsMessage
    \/ \E w \in BagToSet(writes) : WriteDone(w) \/ WriteFails(w)

Spec == Init /\ [][Next]_vars

-----------------------------------------------------------------------------

\* The favourites of a profile on the server were marked under that profile,
\* here or elsewhere, through changes of the profile, messages, failures and
\* restarts; unless the profile was changed under a load or within two seconds
\* of a change, or the favourites were changed under a load.
FavouritesStayApart == ~crossed => \A p \in Profile : favs[p] \subseteq made[p]

\* The timecodes on screen are those of the active profile when nothing is
\* being loaded, under the same condition.
ProgressIsOfActive == ~crossed /\ loads = EmptyBag => view \subseteq seen[active]

\* Violated by the code: the copy set aside follows every successful fetch of
\* the favourites (1316).  It is made when the profile is left, only.
CopyFollowsFetch ==
    [][\A l \in BagToSet(loads) : GotFav(l) => favBackup'[l.of] = l.fav]_vars

=============================================================================
