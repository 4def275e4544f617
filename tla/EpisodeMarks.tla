---------------------------- MODULE EpisodeMarks ----------------------------
(***************************************************************************)
(* The MyShows plugin of the player (src/plugins/myshows.js): how watching *)
(* an episode becomes a mark in the MyShows account of the profile that    *)
(* watches.  One show is open.  Every step of the plugin is a callback: a  *)
(* timeline tick starts a chain of requests, and between two of them the   *)
(* viewer may change the profile, the session may end, another tick may    *)
(* start another chain, and answers may overtake each other.               *)
(*                                                                         *)
(* A request is a record in a slot.  Its field "by" is the profile its     *)
(* chain began in; the code keeps that profile for some requests (`start'  *)
(* of the unwatched list) and reads the current one again for the others.  *)
(***************************************************************************)
EXTENDS Naturals, FiniteSets, Functions, TLC

CONSTANTS
    Profile,      \* profiles of the device; each has a MyShows account of its own
    Episode,      \* episodes of the open show, all of them out
    First,        \* its first episode, S1E1
    Slot,         \* places for requests in flight (events their number)
    Free,         \* an empty slot
    None,
    MaxEvents     \* (bound) changes of the profile, requests that fail, sessions that end,
                  \* marks taken back, cards opened, lists asked for; in all

ASSUME MarksAssumption ==
    /\ First \in Episode
    /\ None \notin Profile \cup Episode
    /\ MaxEvents \in Nat
    /\ IsFiniteSet(Episode)

VARIABLES
    profile,      \* the current profile
    token,        \* token[p]: the account whose token is stored for p
    session,      \* session[a]: whether the service accepts tokens of a
    watched,      \* watched[a]: the marks in account a
    status,       \* status[a]: the status of the show in account a
    mapped,       \* the map from timeline hashes to episodes is stored
    checked,      \* checkedEpisodes: taken care of in this session
    unwatched,    \* _unwatchedEpisodeIds
    unwatchedOf,  \* _unwatchedEpisodeIdsProfile, None while not ready
    cardStatus,   \* cardStatusCache of the show, None while unknown
    moving,       \* watchingTransitionInFlight of the show
    cache,        \* cache[p]: unwatched_serials of p, None or a list
    requests,     \* requests[s]: the request in slot s
    events,       \* how many of those there have been
    viewed,       \* (history) viewed[p]: episodes watched to the end in p
    undone,       \* (history) undone[p]: episodes whose mark p took back
    crossed,      \* (history) a chain of one profile went on in another
    listIs,       \* (history) the status of the show when the list in memory was made;
                  \* "other" as well once a mark of another profile changed it
    blind         \* (history) taken for marked by a list that could not know

service == <<session, watched, status>>
memory == <<checked, unwatched, unwatchedOf, cardStatus, moving>>
history == <<viewed, undone, crossed, listIs, blind>>
vars == <<profile, token, service, mapped, memory, cache, requests, events, history>>

Status == {"watching", "other"}

\* The saved list of unwatched shows, as far as the open show is concerned: the
\* account it was made from, the number of episodes left and their identities;
\* left = 0 when the show is not in it.
Lists == [of : Profile, left : 0..Cardinality(Episode), eps : SUBSET Episode, is : Status]

ViaService == {"map", "check", "uncheck", "move", "list", "open"}
ViaStorage == {"ask", "apply", "seed"}
Want == {"mark", "unmark", "touch"}
Requests ==
    [kind : ViaService \cup ViaStorage \cup {"save"},
     by : Profile,                  \* the profile its chain began in
     to : Profile \cup {None},      \* the account or the storage it goes to
     ep : Episode \cup {None}, want : Want,
     phase : {"queued", "sent", "ok", "failed", "denied", "login"},
     eps : SUBSET Episode, is : Status, list : Lists \cup {None},   \* the answer
     again : BOOLEAN,               \* repeated with a new token
     note : BOOLEAN]                \* map: second attempt; check: already watching; seed: void

TypeOK ==
    /\ profile \in Profile
    /\ token \in [Profile -> Profile]
    /\ session \in [Profile -> BOOLEAN]
    /\ watched \in [Profile -> SUBSET Episode]
    /\ status \in [Profile -> Status]
    /\ mapped \in BOOLEAN
    /\ checked \in SUBSET Episode /\ unwatched \in SUBSET Episode
    /\ unwatchedOf \in Profile \cup {None}
    /\ cardStatus \in Status \cup {None}
    /\ moving \in BOOLEAN
    /\ cache \in [Profile -> Lists \cup {None}]
    /\ requests \in [Slot -> Requests \cup {Free}]
    /\ events \in 0..MaxEvents
    /\ viewed \in [Profile -> SUBSET Episode] /\ undone \in [Profile -> SUBSET Episode]
    /\ crossed \in BOOLEAN /\ listIs \in Status /\ blind \in SUBSET Episode

-----------------------------------------------------------------------------
(* Requests *)

Request(k, p, e, w) ==
    [kind |-> k, by |-> p, to |-> None, ep |-> e, want |-> w, phase |-> "queued",
     eps |-> {}, is |-> "other", list |-> None, again |-> FALSE, note |-> FALSE]

\* makeAuthenticatedRequest takes the token of the profile that is current when
\* the request goes out, whichever began the chain.
Outgoing(k, p, e, w) == [Request(k, p, e, w) EXCEPT !.phase = "sent", !.to = token[profile]]

\* loadCacheFromServer reads the storage of the current profile.
Loading(k, p, e, w) == [Request(k, p, e, w) EXCEPT !.phase = "sent", !.to = profile]

\* The requests rs take free slots of f; too many at a time do not fit.
Place(f, rs) ==
    \E h \in Injection(rs, {s \in Slot : f[s] = Free}) :
        requests' = [s \in Slot |-> IF \E r \in rs : h[r] = s
                                    THEN CHOOSE r \in rs : h[r] = s ELSE f[s]]

Issue(rs) == Place(requests, rs)
Replace(s, rs) == Place([requests EXCEPT ![s] = Free], rs)
Keep(s, r) == requests' = [requests EXCEPT ![s] = r]

\* (bound) A new chain begins only when a slot stays free for those under way.
Room == Cardinality({s \in Slot : requests[s] = Free}) > 1

Event == events < MaxEvents /\ events' = events + 1

Busy(s, kind, phases) ==
    /\ requests[s] # Free
    /\ requests[s].kind = kind /\ requests[s].phase \in phases

\* A chain goes on: in its own profile, or astray.
Resume(r) == crossed' = (crossed \/ r.by # profile)

-----------------------------------------------------------------------------
(* One tick of the timeline *)

KnownList == unwatchedOf = profile

\* ensureWatchingStatus: not if the card says so, not twice at a time.
Moves(p, w) == IF cardStatus # "watching" /\ ~moving THEN {Request("move", p, None, w)} ELSE {}

\* CheckEpisode, with what the card said when the tick was handled.
Check(p, e) == [Outgoing("check", p, e, "mark") EXCEPT !.note = (cardStatus = "watching")]

MarkRequests(p, e) ==
    IF e \in checked THEN {}
    ELSE IF cardStatus # "watching" THEN {Check(p, e)}
    ELSE IF ~KnownList THEN {Loading("ask", p, e, "mark")}
    ELSE IF e \in unwatched THEN {Check(p, e)} ELSE {}

UnmarkRequests(p, e) ==
    IF ~KnownList THEN {Loading("ask", p, e, "unmark")}
    ELSE IF e \in unwatched THEN {} ELSE {Outgoing("uncheck", p, e, "unmark")}

\* Mutant: the minimal progress is not asked for.
ProcessEpisodeAtOnce(p, e, w) ==
    IF w = "unmark" /\ cardStatus = "watching" THEN UnmarkRequests(p, e)
    ELSE (IF e = First THEN Moves(p, w) ELSE {}) \cup MarkRequests(p, e)

\* The requests one tick leads to.  w is what the percentage means: the minimal
\* progress is reached, it was put back to zero, or anything between.
ProcessEpisode(p, e, w) ==
    IF w = "unmark" /\ cardStatus = "watching" THEN UnmarkRequests(p, e)
    ELSE (IF e = First THEN Moves(p, w) ELSE {})
           \cup (IF w = "mark" THEN MarkRequests(p, e) ELSE {})

\* Not in a list that is known: the episode is taken for marked already.
TakenForMarked(e, w) ==
    w = "mark" /\ e \notin checked /\ cardStatus = "watching" /\ KnownList /\ e \notin unwatched

TakeForMarked(e) ==
    /\ checked' = checked \cup {e}
    /\ blind' = IF listIs = "other" THEN blind \cup {e} ELSE blind

\* What processEpisode changes at once.
Processed(p, e, w) ==
    /\ moving' = (moving \/ \E r \in ProcessEpisode(p, e, w) : r.kind = "move")
    /\ IF TakenForMarked(e, w) THEN TakeForMarked(e) ELSE UNCHANGED <<checked, blind>>

\* Timeline.update, about every two minutes of watching, and when the viewer
\* puts an episode back to zero.
Tick(e, w) ==
    /\ Room
    /\ IF w = "unmark" THEN Event ELSE UNCHANGED events
    /\ viewed' = [viewed EXCEPT ![profile] = IF w = "mark" THEN @ \cup {e} ELSE @]
    /\ undone' = [undone EXCEPT ![profile] = IF w = "unmark" THEN @ \cup {e} ELSE @]
    /\ IF mapped
       THEN Processed(profile, e, w) /\ Issue(ProcessEpisode(profile, e, w))
       ELSE Issue({Outgoing("map", profile, e, w)}) /\ UNCHANGED <<moving, checked, blind>>
    /\ UNCHANGED <<profile, token, service, mapped, unwatched, unwatchedOf, cardStatus, cache,
                   crossed, listIs>>

-----------------------------------------------------------------------------
(* The service and the storage answer *)

\* The lookups before manage.SetShowStatus are done; it goes out.
SendMove(s) ==
    /\ Busy(s, "move", {"queued"})
    /\ Keep(s, [requests[s] EXCEPT !.phase = "sent", !.to = token[profile]])
    /\ Resume(requests[s])
    /\ UNCHANGED <<profile, token, service, mapped, memory, cache, events, viewed, undone, listIs, blind>>

AtService(s) == requests[s] # Free /\ requests[s].phase = "sent" /\ requests[s].kind \in ViaService

\* The service carries out a request of a session it accepts.
Serve(s) ==
    LET r == requests[s] IN
    /\ AtService(s) /\ session[r.to]
    /\ watched' = [watched EXCEPT ![r.to] = CASE r.kind = "check" -> @ \cup {r.ep}
                                              [] r.kind = "uncheck" -> @ \ {r.ep}
                                              [] OTHER -> @]
    /\ status' = [status EXCEPT ![r.to] = IF r.kind = "move" THEN "watching" ELSE @]
    /\ Keep(s, [r EXCEPT !.phase = "ok", !.is = status[r.to],
                         !.eps = IF r.kind = "list" /\ status[r.to] = "watching"
                                 THEN Episode \ watched[r.to] ELSE {}])
    /\ UNCHANGED <<profile, token, session, mapped, memory, cache, events, history>>

\* 401: log in again, once.
Refuse(s) ==
    LET r == requests[s] IN
    /\ AtService(s) /\ ~session[r.to]
    /\ Keep(s, [r EXCEPT !.phase = IF r.again THEN "failed" ELSE "denied"])
    /\ UNCHANGED <<profile, token, service, mapped, memory, cache, events, history>>

\* The network fails on the way there, or on the way back.
Fail(s) ==
    /\ requests[s] # Free /\ Event
    /\ requests[s].phase \in {"sent", "login", "ok"} /\ requests[s].kind # "save"
    /\ Keep(s, [requests[s] EXCEPT !.phase = "failed"])
    /\ UNCHANGED <<profile, token, service, mapped, memory, cache, history>>

Expire(a) ==
    /\ session[a] /\ Event
    /\ session' = [session EXCEPT ![a] = FALSE]
    /\ UNCHANGED <<profile, token, watched, status, mapped, memory, cache, requests, history>>

\* tryAuthFromSettings takes the login and the password of the current profile.
Relogin(s) ==
    LET r == requests[s] IN
    /\ r # Free /\ r.phase = "denied"
    /\ Keep(s, [r EXCEPT !.phase = "login", !.to = profile])
    /\ Resume(r)
    /\ UNCHANGED <<profile, token, service, mapped, memory, cache, events, viewed, undone, listIs, blind>>

\* The new token is stored for the profile that is current now, and the request
\* is repeated with it.
LoggedIn(s) ==
    LET r == requests[s] IN
    /\ r # Free /\ r.phase = "login"
    /\ session' = [session EXCEPT ![r.to] = TRUE]
    /\ token' = [token EXCEPT ![profile] = r.to]
    /\ Keep(s, [r EXCEPT !.phase = "sent", !.again = TRUE])
    /\ Resume(r)
    /\ UNCHANGED <<profile, watched, status, mapped, memory, cache, events, viewed, undone, listIs, blind>>

\* The storage answers a load.
Load(s) ==
    /\ requests[s] # Free /\ requests[s].phase = "sent" /\ requests[s].kind \in ViaStorage
    /\ Keep(s, [requests[s] EXCEPT !.phase = "ok", !.list = cache[requests[s].to]])
    /\ UNCHANGED <<profile, token, service, mapped, memory, cache, events, history>>

-----------------------------------------------------------------------------
(* Callbacks *)

\* A request that failed and leaves nothing behind but the flag of a move.
Drop(s) ==
    /\ requests[s] # Free /\ requests[s].phase = "failed"
    /\ ~Busy(s, "ask", {"failed"}) /\ ~(Busy(s, "map", {"failed"}) /\ ~requests[s].note)
    /\ Replace(s, {})
    /\ moving' = (moving /\ requests[s].kind # "move")
    /\ UNCHANGED <<profile, token, service, mapped, checked, unwatched, unwatchedOf, cardStatus,
                   cache, events, history>>

\* ensureHashMap calls back with the episodes of the show.
MapArrives(s) ==
    LET r == requests[s] IN
    /\ Busy(s, "map", {"ok"})
    /\ mapped' = TRUE
    /\ Processed(r.by, r.ep, r.want)
    /\ Replace(s, ProcessEpisode(r.by, r.ep, r.want))
    /\ Resume(r)
    /\ UNCHANGED <<profile, token, service, unwatched, unwatchedOf, cardStatus, cache, events,
                   viewed, undone, listIs>>

\* Without the hash in the map it is asked for a second time.
MapMissing(s) ==
    LET r == requests[s] IN
    /\ Busy(s, "map", {"failed"}) /\ ~r.note
    /\ Keep(s, [Outgoing("map", r.by, r.ep, r.want) EXCEPT !.note = TRUE])
    /\ Resume(r)
    /\ UNCHANGED <<profile, token, service, mapped, memory, cache, events, viewed, undone, listIs, blind>>

\* isEpisodeUnwatched by the saved list.  A list that cannot be read says nothing:
\* then an episode is marked, and a mark is not taken back.
AskDone(s) ==
    LET r == requests[s]
        known == r.phase = "ok" /\ r.list # None
        left == known /\ r.ep \in r.list.eps
    IN
    /\ Busy(s, "ask", {"ok", "failed"})
    /\ IF r.want = "mark"
       THEN IF known /\ ~left
            THEN /\ Replace(s, {})
                 /\ checked' = checked \cup {r.ep}
                 /\ blind' = IF r.list.is = "other" THEN blind \cup {r.ep} ELSE blind
            ELSE /\ Replace(s, {[Outgoing("check", r.by, r.ep, "mark") EXCEPT !.note = TRUE]})
                 /\ UNCHANGED <<checked, blind>>
       ELSE /\ Replace(s, IF known /\ ~left THEN {Outgoing("uncheck", r.by, r.ep, "unmark")} ELSE {})
            /\ UNCHANGED <<checked, blind>>
    /\ Resume(r)
    /\ UNCHANGED <<profile, token, service, mapped, unwatched, unwatchedOf, cardStatus, moving, cache,
                   events, viewed, undone, listIs>>

\* The set in memory is changed whichever profile it belongs to.
ListAfterMark(r) == IF unwatchedOf = r.by THEN listIs ELSE "other"

\* CheckEpisode succeeded: remember it, move the show to "watching" if the card did
\* not say so, and count the mark in the saved list.
CheckDone(s) ==
    LET r == requests[s]
        moves == IF r.note THEN {} ELSE Moves(r.by, "mark")
    IN
    /\ Busy(s, "check", {"ok"})
    /\ checked' = checked \cup {r.ep}
    /\ unwatched' = unwatched \ {r.ep}
    /\ moving' = (moving \/ moves # {})
    /\ Replace(s, moves \cup {Loading("apply", r.by, r.ep, "mark")})
    /\ Resume(r)
    /\ listIs' = ListAfterMark(r)
    /\ UNCHANGED <<profile, token, service, mapped, unwatchedOf, cardStatus, cache, events,
                   viewed, undone, blind>>

UncheckDone(s) ==
    LET r == requests[s] IN
    /\ Busy(s, "uncheck", {"ok"})
    /\ checked' = checked \ {r.ep}
    /\ unwatched' = unwatched \cup {r.ep}
    /\ Replace(s, {Loading("apply", r.by, r.ep, "unmark")})
    /\ Resume(r)
    /\ listIs' = ListAfterMark(r)
    /\ UNCHANGED <<profile, token, service, mapped, unwatchedOf, cardStatus, moving, cache, events,
                   viewed, undone, blind>>

\* setMyShowsStatus and ensureWatchingStatus: the card is told and the list is
\* asked for.  (The second request for the list after a "touch" is a Refetch.)
MoveDone(s) ==
    /\ Busy(s, "move", {"ok"})
    /\ cardStatus' = "watching"
    /\ moving' = FALSE
    /\ Replace(s, {Outgoing("list", profile, None, "touch")})
    /\ Resume(requests[s])
    /\ UNCHANGED <<profile, token, service, mapped, checked, unwatched, unwatchedOf, cache, events,
                   viewed, undone, listIs, blind>>

\* Mutant: the list is taken for that of the current profile.
ListArrivesForAnyone(s) ==
    LET r == requests[s] IN
    /\ Busy(s, "list", {"ok"})
    /\ unwatched' = r.eps /\ unwatchedOf' = profile /\ listIs' = r.is
    /\ Keep(s, [r EXCEPT !.kind = "save"])
    /\ UNCHANGED <<profile, token, service, mapped, checked, cardStatus, moving, cache, events,
                   viewed, undone, crossed, blind>>

\* The list of the unwatched arrives: into memory if the profile is still the one
\* that asked; the details of the shows are looked up next.
ListArrives(s) ==
    LET r == requests[s] IN
    /\ Busy(s, "list", {"ok"})
    /\ IF profile = r.by
       THEN unwatched' = r.eps /\ unwatchedOf' = r.by /\ listIs' = r.is
       ELSE UNCHANGED <<unwatched, unwatchedOf, listIs>>
    /\ Keep(s, [r EXCEPT !.kind = "save"])
    /\ UNCHANGED <<profile, token, service, mapped, checked, cardStatus, moving, cache, events,
                   viewed, undone, crossed, blind>>

\* Mutant: it is saved for the profile that is current by then.
SaveListForCurrent(s) ==
    LET r == requests[s] IN
    /\ Busy(s, "save", {"ok"})
    /\ cache' = [cache EXCEPT ![profile] = [of |-> r.to, left |-> Cardinality(r.eps), eps |-> r.eps,
                                            is |-> r.is]]
    /\ Replace(s, {})
    /\ UNCHANGED <<profile, token, service, mapped, memory, events, history>>

\* The details are there: the list is saved for the profile that asked.
SaveList(s) ==
    LET r == requests[s] IN
    /\ Busy(s, "save", {"ok"})
    /\ cache' = [cache EXCEPT ![r.by] = [of |-> r.to, left |-> Cardinality(r.eps), eps |-> r.eps,
                                         is |-> r.is]]
    /\ Replace(s, {})
    /\ UNCHANGED <<profile, token, service, mapped, memory, events, history>>

\* Mutant: more may be left than there are.
CountedUncapped(list, e, w) ==
    [list EXCEPT !.left = IF w = "mark" THEN @ - 1 ELSE @ + 1,
                 !.eps = IF w = "mark" THEN @ \ {e} ELSE @]

\* The saved list after one mark more or less; a show with nothing left leaves it.
\* (In `is': a mark the list had counted already is counted twice.)
Counted(list, e, w) ==
    LET left == IF w = "mark" THEN list.left - 1
                ELSE IF list.left < Cardinality(Episode) THEN list.left + 1 ELSE list.left
    IN [list EXCEPT !.left = left,
                    !.eps = IF left = 0 THEN {} ELSE IF w = "mark" THEN @ \ {e} ELSE @,
                    !.is = IF w = "mark" /\ e \notin list.eps THEN "other" ELSE @]

\* applyEpisodeMarkLocally: the list that was loaded is changed and saved for the
\* profile that is current now.
ApplyMark(s) ==
    LET r == requests[s] IN
    /\ Busy(s, "apply", {"ok"})
    /\ IF r.list # None /\ r.list.left > 0
       THEN cache' = [cache EXCEPT ![profile] = Counted(r.list, r.ep, r.want)]
       ELSE UNCHANGED cache
    /\ Replace(s, {})
    /\ Resume(r)
    /\ UNCHANGED <<profile, token, service, mapped, memory, events, viewed, undone, listIs, blind>>

\* initMyShowsCaches: the set in memory is sown from the saved list, unless the
\* profile was changed again, and the list is asked for.
Seed(s) ==
    LET r == requests[s] IN
    /\ Busy(s, "seed", {"ok"})
    /\ IF ~r.note /\ r.list # None
       THEN unwatched' = r.list.eps /\ unwatchedOf' = profile /\ listIs' = r.list.is
       ELSE UNCHANGED <<unwatched, unwatchedOf, listIs>>
    /\ Replace(s, IF r.note THEN {} ELSE {Outgoing("list", profile, None, "touch")})
    /\ UNCHANGED <<profile, token, service, mapped, checked, cardStatus, moving, cache, events,
                   viewed, undone, crossed, blind>>

OpenDone(s) ==
    LET r == requests[s] IN
    /\ Busy(s, "open", {"ok"})
    /\ cardStatus' = r.is
    /\ Replace(s, {})
    /\ Resume(r)
    /\ UNCHANGED <<profile, token, service, mapped, checked, unwatched, unwatchedOf, moving, cache,
                   events, viewed, undone, listIs, blind>>

-----------------------------------------------------------------------------
(* The viewer *)

\* The full card is opened; its status is asked for.
OpenCard ==
    /\ Room /\ Event
    /\ Issue({Outgoing("open", profile, None, "touch")})
    /\ UNCHANGED <<profile, token, service, mapped, memory, cache, history>>

\* Back from the player to the card, the main page or the torrents: the list is
\* asked for again.
Refetch ==
    /\ Room /\ Event
    /\ Issue({Outgoing("list", profile, None, "touch")})
    /\ UNCHANGED <<profile, token, service, mapped, memory, cache, history>>

\* handleProfileChange: seeds on their way are void, and the lists of the new
\* profile are loaded.  What memory holds of episodes and of the card stays.
SwitchProfile(p) ==
    /\ p # profile /\ Room /\ Event
    /\ profile' = p
    /\ Place([s \in Slot |-> IF requests[s] # Free /\ requests[s].kind = "seed"
                             THEN [requests[s] EXCEPT !.note = TRUE] ELSE requests[s]],
             {[Request("seed", p, None, "touch") EXCEPT !.phase = "sent", !.to = p]})
    /\ UNCHANGED <<token, service, mapped, memory, cache, history>>

-----------------------------------------------------------------------------
Init ==
    /\ profile \in Profile
    /\ token = [p \in Profile |-> p]
    /\ session = [p \in Profile |-> TRUE]
    /\ watched = [p \in Profile |-> {}]
    /\ status \in [Profile -> Status]
    /\ mapped = FALSE /\ moving = FALSE
    /\ checked = {} /\ unwatched = {} /\ unwatchedOf = None /\ cardStatus = None
    /\ cache = [p \in Profile |-> None]
    /\ requests = [s \in Slot |-> Free]
    /\ events = 0
    /\ viewed = [p \in Profile |-> {}] /\ undone = [p \in Profile |-> {}]
    /\ crossed = FALSE /\ listIs = "other" /\ blind = {}

Callback(s) ==
    \/ Drop(s) \/ MapArrives(s) \/ MapMissing(s) \/ AskDone(s) \/ CheckDone(s) \/ UncheckDone(s)
    \/ MoveDone(s) \/ ListArrives(s) \/ SaveList(s) \/ ApplyMark(s) \/ Seed(s) \/ OpenDone(s)

Answer(s) == SendMove(s) \/ Serve(s) \/ Refuse(s) \/ Relogin(s) \/ LoggedIn(s) \/ Load(s)

Next ==
    \/ \E e \in Episode, w \in Want : Tick(e, w)
    \/ \E s \in Slot : Answer(s) \/ Fail(s) \/ Callback(s)
    \/ \E a \in Profile : Expire(a) \/ SwitchProfile(a)
    \/ OpenCard \/ Refetch

Spec == Init /\ [][Next]_vars

\* Requests end, and who watches an episode keeps sending ticks of it.
Fairness ==
    /\ \A s \in Slot : WF_vars(Answer(s) \/ Callback(s))
    /\ \A e \in Episode : SF_vars(Tick(e, "mark"))

FairSpec == Spec /\ Fairness

-----------------------------------------------------------------------------
(* Properties *)

\* A mark is made in the account of the profile that watched the episode to its
\* end, whatever sessions end and whichever requests are repeated, as long as no
\* chain of requests went on in another profile (processTimelineUpdate,
\* makeAuthenticatedRequest).
MarksAreViewed == ~crossed => \A a \in Profile : watched[a] \subseteq viewed[a]

\* The list of the unwatched in memory, once made while the show was being watched,
\* hides only episodes the account has marked, so that "not in the list" may be
\* taken for "marked" (isEpisodeUnwatched).  Marks the viewer took back are left out:
\* the saved list does not get them back.
ListHidesOnlyMarked ==
    ~crossed /\ unwatchedOf # None /\ listIs = "watching" =>
        \A e \in Episode \ (unwatched \cup undone[unwatchedOf]) : e \in watched[unwatchedOf]

\* The saved list of a profile is one its own account gave.
SavedListsAreOwn == \A p \in Profile : cache[p] # None => cache[p].of = p
SavedListsStayOwn == ~crossed => SavedListsAreOwn

\* An episode watched to the end is marked at last, as long as its viewer keeps
\* watching: a tick that failed is repeated by the next.  Unless it was taken for
\* marked by a list made before the show was being watched.
ViewedIsMarked ==
    \A p \in Profile, e \in Episode :
        (e \in viewed[p]) ~> (e \in watched[p] \cup undone[p] \cup blind)

\* What the tick skips as marked already is marked.
SkippedIsMarked == blind \subseteq watched[profile]

-----------------------------------------------------------------------------

\* Slots and profiles are told apart by nothing but their names.
Symmetry == Permutations(Slot) \cup Permutations(Profile)

=============================================================================
