------------------------------ MODULE LibraryRow ------------------------------
(***************************************************************************)
(* A row of the page "Mine" of the web client (src/web/src/pages/          *)
(* MediaLibraryPage.tsx): the cards of one status, or those with unwatched *)
(* episodes.  Unlike a row of the catalogue it outlives a switch of the    *)
(* profile: it is wiped and loads again, while answers it asked for under  *)
(* the old profile are still on their way.  The lists are kept for the     *)
(* next visit in a cache of the module, which every message about the      *)
(* profile empties (hooks/useLiveSync.ts, utils/rowCacheSync.ts).          *)
(***************************************************************************)
EXTENDS Naturals, Sequences, FiniteSets

CONSTANTS
    Show, Profile,
    MaxEvents,    \* (bound) changes of the data and of the profile
    MaxMoves      \* (bound) visits of the page and refreshes

VARIABLES
    kind,         \* "status", or "unwatched"
    server,       \* server[p]: the list of the row for profile p
    profile,
    sorted,       \* unwatchedSortLoaded: the order of the row is known
    place,        \* "row" or "away"
    items,        \* what the row shows, a set of at most one list
    loaded,       \* loadedRef of the row
    cache,        \* _rowCache[status], a set of at most one list
    key,          \* _libProfileKey
    fetches,      \* requests for the list
    finds,        \* cards being fetched for a message
    feed,         \* messages of the web socket
    events, moves,
    missed        \* (history) the ways to lose a change, named below, that were taken

vars == <<kind, server, profile, sorted, place, items, loaded, cache, key, fetches, finds, feed,
          events, moves, missed>>

Ways == {"failed", "crossed", "profile", "progress"}
List == SUBSET Show

\* alive: the row that asked is still on the page; items: what it showed when it left.
Fetches == [why : {"load", "stale"}, of : Profile, alive : BOOLEAN, got : SUBSET List]
Finds == [show : Show, of : Profile, alive : BOOLEAN, items : SUBSET List]
Messages == [type : {"in", "out", "timecode"}, show : Show, of : Profile]
               \cup [type : {"unwatched_stale"}]

TypeOK ==
    /\ kind \in {"status", "unwatched"}
    /\ server \in [Profile -> List]
    /\ profile \in Profile /\ key \in Profile
    /\ place \in {"row", "away"}
    /\ items \in SUBSET List /\ Cardinality(items) <= 1
    /\ cache \in SUBSET List /\ Cardinality(cache) <= 1
    /\ loaded \in BOOLEAN /\ sorted \in BOOLEAN
    /\ fetches \subseteq Fetches /\ finds \subseteq Finds
    /\ feed \in Seq(Messages)
    /\ events \in 0..MaxEvents /\ moves \in 0..MaxMoves
    /\ missed \subseteq Ways

Only(set) == CHOOSE x \in set : TRUE
Ask(why, p) == [why |-> why, of |-> p, alive |-> TRUE, got |-> {}]

Init ==
    /\ kind \in {"status", "unwatched"}
    /\ server \in [Profile -> {{}, Show}]
    /\ profile \in Profile /\ key = profile
    /\ sorted = FALSE /\ place = "away"
    /\ items = {} /\ loaded = FALSE /\ cache = {}
    /\ fetches = {} /\ finds = {} /\ feed = <<>>
    /\ events = 0 /\ moves = 0 /\ missed = {}

Move == moves < MaxMoves /\ moves' = moves + 1
Happens == events < MaxEvents /\ events' = events + 1
Lost(way, condition) == missed' = missed \cup (IF condition THEN {way} ELSE {})

-----------------------------------------------------------------------------
(* The page *)

\* The list waits for the order it is to have.
loadItems(was, ready, others, p) ==
    IF was \/ (kind = "unwatched" /\ ~ready)
    THEN loaded' = was /\ fetches' = others
    ELSE loaded' = TRUE /\ fetches' = others \cup {Ask("load", p)}

Orphaned == {[f EXCEPT !.alive = FALSE] : f \in fetches}
OrphanedFinds ==
    {[f EXCEPT !.alive = FALSE, !.items = IF f.alive THEN items ELSE @] : f \in finds}

\* The page is opened: the cache of another profile is dropped, the row shows what
\* the cache has or loads.  The order is asked for anew.
ShowRow ==
    /\ Move /\ place = "away"
    /\ place' = "row" /\ key' = profile /\ sorted' = FALSE
    /\ cache' = IF key = profile THEN cache ELSE {}
    /\ items' = cache'
    /\ loadItems(cache' # {}, FALSE, fetches, profile)
    /\ UNCHANGED <<kind, server, profile, finds, feed, events, missed>>

Leave ==
    /\ Move /\ place = "row"
    /\ place' = "away"
    /\ items' = {} /\ loaded' = FALSE
    /\ fetches' = Orphaned /\ finds' = OrphanedFinds
    /\ UNCHANGED <<kind, server, profile, sorted, cache, key, feed, events, missed>>

\* Pulled down: every cache is emptied and the page is built again.
softRefresh ==
    /\ Move /\ place = "row"
    /\ cache' = {} /\ items' = {} /\ sorted' = FALSE
    /\ finds' = OrphanedFinds
    /\ loadItems(FALSE, FALSE, Orphaned, profile)
    /\ UNCHANGED <<kind, server, profile, place, key, feed, events, missed>>

SortLoaded ==
    /\ place = "row" /\ ~sorted
    /\ sorted' = TRUE
    /\ loadItems(loaded, TRUE, fetches, profile)
    /\ UNCHANGED <<kind, server, profile, place, items, cache, key, finds, feed, events, moves, missed>>

\* Mutant: the latch of the first load stays, and with it the list.
SwitchProfileLatched(p) ==
    /\ Happens /\ p # profile
    /\ profile' = p
    /\ IF place = "away" THEN UNCHANGED <<sorted, items, loaded, cache, key, fetches>>
       ELSE /\ cache' = {} /\ key' = p /\ sorted' = FALSE
            /\ UNCHANGED items
            /\ loadItems(loaded, FALSE, fetches, p)
    /\ UNCHANGED <<kind, server, place, finds, feed, moves, missed>>

\* The row is wiped and loads again; what it asked for before still reaches it.
SwitchProfile(p) ==
    /\ Happens /\ p # profile
    /\ profile' = p
    /\ IF place = "away" THEN UNCHANGED <<sorted, items, loaded, cache, key, fetches>>
       ELSE /\ cache' = {} /\ key' = p /\ sorted' = FALSE
            /\ items' = {}
            /\ loadItems(FALSE, FALSE, fetches, p)
    /\ UNCHANGED <<kind, server, place, finds, feed, moves, missed>>

-----------------------------------------------------------------------------
(* Requests *)

Serve(f) ==
    /\ f.got = {}
    /\ fetches' = (fetches \ {f}) \cup {[f EXCEPT !.got = {server[f.of]}]}
    /\ UNCHANGED <<kind, server, profile, sorted, place, items, loaded, cache, key, finds, feed,
                   events, moves, missed>>

\* The list goes into the cache also when its row is gone.
Got(f) ==
    /\ f.got # {}
    /\ cache' = f.got
    /\ items' = IF f.alive THEN f.got ELSE items
    /\ fetches' = fetches \ {f}
    /\ missed' = missed \cup (IF f.of # key THEN {"profile"} ELSE {})
                        \cup (IF ~f.alive /\ place = "row" /\ items # f.got THEN {"crossed"} ELSE {})
    /\ UNCHANGED <<kind, server, profile, sorted, place, loaded, key, finds, feed, events, moves>>

\* A failed load leaves an empty row, which is not drawn and does not load again.
FetchFails(f) ==
    /\ Happens
    /\ items' = IF f.alive /\ f.why = "load" THEN {{}} ELSE items
    /\ fetches' = fetches \ {f}
    /\ missed' = missed \cup {"failed"}
    /\ UNCHANGED <<kind, server, profile, sorted, place, loaded, cache, key, finds, feed, moves>>

-----------------------------------------------------------------------------
(* Changes and messages *)

Told(type, s, p) == [type |-> type, show |-> s, of |-> p]
Changed(p, list) == server' = [server EXCEPT ![p] = list]

\* A status set on another device: "in" is the status of the row ("watching" for the
\* unwatched ones), "out" any other.
StatusElsewhere(p, s, type) ==
    /\ Happens /\ (s \in server[p]) # (type = "in")
    /\ Changed(p, IF type = "in" THEN server[p] \cup {s} ELSE server[p] \ {s})
    /\ feed' = Append(feed, Told(type, s, p))
    /\ UNCHANGED <<kind, profile, sorted, place, items, loaded, cache, key, fetches, finds, moves, missed>>

\* The last episode is watched elsewhere.
FinishedElsewhere(p, s) ==
    /\ Happens /\ kind = "unwatched" /\ s \in server[p]
    /\ Changed(p, server[p] \ {s})
    /\ feed' = Append(feed, Told("timecode", s, p))
    /\ UNCHANGED <<kind, profile, sorted, place, items, loaded, cache, key, fetches, finds, moves, missed>>

\* A new day: an episode of the show is out.
DayPasses(s) ==
    /\ Happens /\ kind = "unwatched" /\ s \notin server[profile]
    /\ Changed(profile, server[profile] \cup {s})
    /\ feed' = Append(feed, [type |-> "unwatched_stale"])
    /\ UNCHANGED <<kind, profile, sorted, place, items, loaded, cache, key, fetches, finds, moves, missed>>

\* On the page of a card; the cache is emptied once it is stored.
ChangeHere(s) ==
    /\ Happens /\ place = "away"
    /\ Changed(profile, IF s \in server[profile] THEN server[profile] \ {s} ELSE server[profile] \cup {s})
    /\ cache' = {}
    /\ Lost("crossed", (\E f \in fetches : f.of = profile /\ f.got # {}) \/ finds # {})
    /\ UNCHANGED <<kind, profile, sorted, place, items, loaded, key, fetches, finds, feed, moves>>

\* An answer on its way says what was before a change whose message is handled now.
Crosses(m) ==
    \E f \in fetches :
        f.got # {} /\ f.got # {server[f.of]} /\ (m.type = "unwatched_stale" \/ f.of = m.of)

\* Nothing on its way will put right what is said of s now: neither the message that
\* says the opposite nor one that has the row loaded again.
Final(type, p, s, msgs) ==
    ~\E i \in DOMAIN msgs : msgs[i].type = "unwatched_stale" \/ msgs[i] = Told(type, s, p)

\* Every message of the profile empties the cache; a row that shows something drops
\* the card that left it, and fetches the one that joins it; a message that names no
\* card makes the row of unwatched ones load again.
Message ==
    LET m == Head(feed)
        mine == m.type = "unwatched_stale" \/ (m.type # "unwatched_stale" /\ m.of = profile)
        shown == mine /\ place = "row" /\ items # {}
        leaves == shown /\ m.type = "out" /\ m.show \in Only(items)
        joins == shown /\ m.type = "in" /\ m.show \notin Only(items)
        list == Only(items) \ {m.show}
    IN
    /\ feed # <<>> /\ feed' = Tail(feed)
    /\ items' = IF leaves THEN {list} ELSE items
    /\ cache' = IF leaves THEN {list} ELSE IF mine THEN {} ELSE cache
    /\ finds' = finds \cup (IF joins THEN {[show |-> m.show, of |-> profile, alive |-> TRUE, items |-> {}]} ELSE {})
    /\ fetches' = fetches \cup (IF m.type = "unwatched_stale" /\ place = "row"
                                THEN {Ask("stale", profile)} ELSE {})
    /\ missed' = missed \cup (IF Crosses(m) THEN {"crossed"} ELSE {})
                        \cup (IF ~mine /\ m.of = key THEN {"profile"} ELSE {})
                        \cup (IF shown /\ m.type = "timecode" THEN {"progress"} ELSE {})
                        \cup (IF leaves /\ m.show \in server[profile] /\ Final("in", profile, m.show, Tail(feed))
                              THEN {"crossed"} ELSE {})
    /\ UNCHANGED <<kind, server, profile, sorted, place, loaded, key, events, moves>>

\* The connection is down; nothing is asked for when it is back.
MessageLost ==
    /\ feed # <<>> /\ Happens
    /\ feed' = Tail(feed)
    /\ missed' = missed \cup {"failed"}
    /\ UNCHANGED <<kind, server, profile, sorted, place, items, loaded, cache, key, fetches, finds, moves>>

\* The card of a message is there: it joins the list its row has by now, or had when
\* it left the page.
Found(f) ==
    LET list == IF f.alive THEN items ELSE f.items IN
    /\ finds' = finds \ {f}
    /\ IF list # {} /\ f.show \notin Only(list)
       THEN /\ cache' = {Only(list) \cup {f.show}}
            /\ items' = IF f.alive THEN cache' ELSE items
       ELSE UNCHANGED <<items, cache>>
    /\ missed' = missed \cup (IF f.of # key THEN {"profile"} ELSE {})
                        \cup (IF (f.show \notin server[f.of] /\ Final("out", f.of, f.show, feed)) \/ ~f.alive
                              THEN {"crossed"} ELSE {})
    /\ UNCHANGED <<kind, server, profile, sorted, place, loaded, key, fetches, feed, events, moves>>

FindFails(f) ==
    /\ Happens
    /\ finds' = finds \ {f}
    /\ missed' = missed \cup {"failed"}
    /\ UNCHANGED <<kind, server, profile, sorted, place, items, loaded, cache, key, fetches, feed, moves>>

-----------------------------------------------------------------------------

Next ==
    \/ ShowRow \/ Leave \/ softRefresh \/ SortLoaded
    \/ \E p \in Profile : SwitchProfile(p)
    \/ \E f \in fetches : Serve(f) \/ Got(f) \/ FetchFails(f)
    \/ \E p \in Profile, s \in Show : FinishedElsewhere(p, s)
    \/ \E p \in Profile, s \in Show, type \in {"in", "out"} : StatusElsewhere(p, s, type)
    \/ \E s \in Show : DayPasses(s) \/ ChangeHere(s)
    \/ Message \/ MessageLost
    \/ \E f \in finds : Found(f) \/ FindFails(f)

Spec == Init /\ [][Next]_vars

-----------------------------------------------------------------------------

Quiet == fetches = {} /\ finds = {} /\ feed = <<>>

\* When nothing is under way any more, the row on the page shows the list the server
\* has for the profile, and so does the cache; unless a request or a message was lost,
\* an answer from before a change arrived after its message, or one for a profile
\* under another.  A show that was finished elsewhere stays until the next load.
SettledRowIsOfProfile ==
    Quiet /\ missed = {} /\ key = profile =>
        /\ cache \subseteq {server[profile]}
        /\ place = "row" /\ loaded => items = {server[profile]}

=============================================================================
