----------------------------- MODULE CatalogRows -----------------------------
(***************************************************************************)
(* The row "Unwatched" of the web catalogue (src/web/src/pages/            *)
(* CatalogPage.tsx) and the cache of the rows that outlives the page.  The *)
(* row is loaded when it comes into view, fetched ahead while another row  *)
(* is on screen (hero layout), patched by messages of the web socket       *)
(* (hooks/useLiveSync.ts) and marked stale by changes made on a card.      *)
(* Answers arrive in any order, also after the row was closed or the       *)
(* profile changed.                                                        *)
(***************************************************************************)
EXTENDS Naturals, Sequences, FiniteSets

CONSTANTS
    Show, Profile,
    MaxEvents,    \* (bound) changes of the data and of the profile
    MaxMoves      \* (bound) pages opened, rows flipped, refreshes pulled

VARIABLES
    server,       \* server[p]: what /unwatched says of profile p
    profile,
    place,        \* the row is on screen ("row"), another one is ("other"), or another page ("away")
    items,        \* what the row shows, a set of at most one list
    loaded,       \* loadedRef of the row
    cache,        \* _cache.rows["unwatched"], a set of at most one entry
    key,          \* _cache.profileKey
    fetches,      \* requests for the row
    prefetching,
    finds,        \* cards being fetched for a message that lacks them
    feed,         \* messages of the web socket
    events, moves,
    missed        \* (history) the ways to lose a change, named below, that were taken

vars == <<server, profile, place, items, loaded, cache, key, fetches, prefetching, finds, feed,
          events, moves, missed>>

Ways == {"failed", "crossed", "unmarked", "profile", "progress"}
List == SUBSET Show
Entry == [items : List, stale : BOOLEAN]

\* alive: the row that asked is still on screen.
Fetches == [why : {"load", "ahead"}, of : Profile, alive : BOOLEAN, got : SUBSET List]
Finds == [show : Show, of : Profile, alive : BOOLEAN, items : SUBSET List]
Messages == [type : {"watching", "other", "timecode"}, show : Show, of : Profile]
               \cup [type : {"unwatched_stale"}]

TypeOK ==
    /\ server \in [Profile -> List]
    /\ profile \in Profile /\ key \in Profile
    /\ place \in {"row", "other", "away"}
    /\ items \in SUBSET List /\ Cardinality(items) <= 1
    /\ loaded \in BOOLEAN /\ prefetching \in BOOLEAN
    /\ cache \in SUBSET Entry /\ Cardinality(cache) <= 1
    /\ fetches \subseteq Fetches /\ finds \subseteq Finds
    /\ feed \in Seq(Messages)
    /\ events \in 0..MaxEvents /\ moves \in 0..MaxMoves
    /\ missed \subseteq Ways

Only(set) == CHOOSE x \in set : TRUE
Fresh(list) == {[items |-> list, stale |-> FALSE]}
Stale(entries) == {[e EXCEPT !.stale = TRUE] : e \in entries}
Ask(why, p) == [why |-> why, of |-> p, alive |-> why = "load", got |-> {}]

Init ==
    /\ server = [p \in Profile |-> {}]
    /\ profile \in Profile /\ key = profile
    /\ place = "away" /\ items = {} /\ loaded = FALSE
    /\ cache = {} /\ fetches = {} /\ prefetching = FALSE /\ finds = {} /\ feed = <<>>
    /\ events = 0 /\ moves = 0 /\ missed = {}

Move == moves < MaxMoves /\ moves' = moves + 1
Happens == events < MaxEvents /\ events' = events + 1

-----------------------------------------------------------------------------
(* The page *)

\* What is under way belongs to a row that is gone.
LeaveRow ==
    /\ finds' = {[f EXCEPT !.alive = FALSE, !.items = IF f.alive THEN items ELSE @] : f \in finds}
    /\ items' = {} /\ loaded' = FALSE

Orphaned == {[f EXCEPT !.alive = FALSE] : f \in fetches}

\* The cache as the page finds it when it is drawn for the current profile.
Kept == IF key = profile THEN cache ELSE {}

\* The row comes into view: it shows what the cache has, and loads what it has not
\* or what is marked stale.
ShowRow ==
    /\ Move /\ place # "row"
    /\ place' = "row" /\ key' = profile
    /\ cache' = Kept
    /\ items' = {e.items : e \in Kept}
    /\ loaded' = TRUE
    /\ fetches' = fetches \cup (IF \E e \in Kept : ~e.stale THEN {} ELSE {Ask("load", profile)})
    /\ UNCHANGED <<server, profile, prefetching, finds, feed, events, missed>>

\* The rows next to the one on screen are fetched ahead, each by one request at a time.
Ahead(entries, p) ==
    IF prefetching \/ \E e \in entries : ~e.stale THEN {} ELSE {Ask("ahead", p)}

Flip ==
    /\ Move
    /\ place' = "other" /\ key' = profile
    /\ cache' = Kept
    /\ fetches' = Orphaned \cup Ahead(Kept, profile)
    /\ prefetching' = (prefetching \/ Ahead(Kept, profile) # {})
    /\ LeaveRow
    /\ UNCHANGED <<server, profile, feed, events, missed>>

Leave ==
    /\ Move /\ place # "away"
    /\ place' = "away"
    /\ fetches' = Orphaned
    /\ LeaveRow
    /\ UNCHANGED <<server, profile, cache, key, prefetching, feed, events, missed>>

\* Pulled down: every row is marked stale, and a loaded one loads again.
Refresh ==
    /\ Move /\ place = "row" /\ loaded
    /\ cache' = Stale(cache)
    /\ fetches' = fetches \cup {Ask("load", profile)}
    /\ UNCHANGED <<server, profile, place, items, loaded, key, prefetching, finds, feed, events, missed>>

\* The page forgets the rows of the other profile; the row is a new one.
SwitchProfile(p) ==
    /\ Happens /\ p # profile
    /\ profile' = p
    /\ IF place = "away" THEN UNCHANGED <<items, loaded, cache, key, fetches, prefetching, finds>>
       ELSE /\ cache' = {} /\ key' = p
            /\ IF place = "row"
               THEN /\ fetches' = Orphaned \cup {Ask("load", p)}
                    /\ finds' = {[f EXCEPT !.alive = FALSE, !.items = IF f.alive THEN items ELSE @] : f \in finds}
                    /\ items' = {} /\ loaded' = TRUE
                    /\ UNCHANGED prefetching
               ELSE /\ fetches' = fetches \cup Ahead({}, p) /\ prefetching' = TRUE
                    /\ UNCHANGED <<items, loaded, finds>>
    /\ UNCHANGED <<server, place, feed, moves, missed>>

-----------------------------------------------------------------------------
(* Requests *)

Serve(f) ==
    /\ f.got = {}
    /\ fetches' = (fetches \ {f}) \cup {[f EXCEPT !.got = {server[f.of]}]}
    /\ UNCHANGED <<server, profile, place, items, loaded, cache, key, prefetching, finds, feed,
                   events, moves, missed>>

\* handleItemsLoaded: whoever calls it, the list becomes that of the row.
ItemsLoaded(list) == cache' = Fresh(list)

Lost(way, condition) == missed' = missed \cup (IF condition THEN {way} ELSE {})

\* An answer goes into the cache also when the row that asked is gone; one that
\* was fetched ahead only if nothing fresh is there.
Got(f) ==
    /\ f.got # {}
    /\ IF f.why = "load" \/ cache = {} \/ \E e \in cache : e.stale
       THEN ItemsLoaded(Only(f.got)) ELSE UNCHANGED cache
    /\ items' = IF f.alive THEN f.got ELSE items
    /\ prefetching' = (prefetching /\ f.why # "ahead")
    /\ fetches' = fetches \ {f}
    /\ missed' = missed \cup (IF f.of # key THEN {"profile"} ELSE {})
                        \cup (IF ~f.alive /\ place = "row" /\ items # f.got THEN {"crossed"} ELSE {})
    /\ UNCHANGED <<server, profile, place, loaded, key, finds, feed, events, moves>>

\* A row that shows something keeps showing it, and stays "loaded".
FetchFails(f) ==
    /\ Happens
    /\ prefetching' = (prefetching /\ f.why # "ahead")
    /\ fetches' = fetches \ {f}
    /\ missed' = missed \cup {"failed"}
    /\ UNCHANGED <<server, profile, place, items, loaded, cache, key, finds, feed, moves>>

-----------------------------------------------------------------------------
(* Changes and messages *)

Told(type, s, p) == [type |-> type, show |-> s, of |-> p]
Changed(p, list) == server' = [server EXCEPT ![p] = list]

\* An answer on its way says what was before a change whose message m is handled
\* now.
Crosses(m) ==
    \E f \in fetches :
        f.got # {} /\ f.got # {server[f.of]} /\ (m.type = "unwatched_stale" \/ f.of = m.of)

\* A status set elsewhere, and progress made elsewhere that finishes a show.
StatusElsewhere(p, s, type) ==
    /\ Happens /\ (s \in server[p]) # (type = "watching")
    /\ Changed(p, IF type = "watching" THEN server[p] \cup {s} ELSE server[p] \ {s})
    /\ feed' = Append(feed, Told(type, s, p))
    /\ UNCHANGED <<profile, place, items, loaded, cache, key, fetches, prefetching, finds, moves, missed>>

FinishedElsewhere(p, s) ==
    /\ Happens /\ s \in server[p]
    /\ Changed(p, server[p] \ {s})
    /\ feed' = Append(feed, Told("timecode", s, p))
    /\ UNCHANGED <<profile, place, items, loaded, cache, key, fetches, prefetching, finds, moves, missed>>

\* A new day: an episode of the show is out.
DayPasses(s) ==
    /\ Happens /\ s \notin server[profile]
    /\ Changed(profile, server[profile] \cup {s})
    /\ feed' = Append(feed, [type |-> "unwatched_stale"])
    /\ UNCHANGED <<profile, place, items, loaded, cache, key, fetches, prefetching, finds, moves, missed>>

\* On the page of a card; once it is stored, every row is marked stale.
ChangeHere(s) ==
    /\ Happens /\ place = "away"
    /\ Changed(profile, IF s \in server[profile] THEN server[profile] \ {s} ELSE server[profile] \cup {s})
    /\ cache' = Stale(cache)
    /\ Lost("crossed", \E f \in fetches : f.of = profile /\ f.got # {})
    /\ UNCHANGED <<profile, place, items, loaded, key, fetches, prefetching, finds, feed, moves>>

\* The list of the row after a message, as the cache gets it.
Patched(list) ==
    /\ items' = {list}
    /\ cache' = Fresh(list)

\* A stale mark that stood for another change goes with it.
Unmarks(p, s) == \E e \in cache : e.stale /\ (e.items \ {s}) # (server[p] \ {s})

\* Nothing on its way will put right what is said of s now: neither the message that
\* says the opposite nor one that has the row loaded again.
Final(type, p, s, msgs) ==
    ~\E i \in DOMAIN msgs : msgs[i].type = "unwatched_stale" \/ msgs[i] = Told(type, s, p)

\* Mutant: a show that is not watched any more stays in the row.
MessageAddingOnly ==
    LET m == Head(feed)
        mine == m.type = "unwatched_stale" \/ (m.type # "unwatched_stale" /\ m.of = profile)
        shown == place = "row" /\ items # {}
    IN
    /\ feed # <<>> /\ feed' = Tail(feed)
    /\ cache' = IF mine THEN Stale(cache) ELSE cache
    /\ finds' = IF mine /\ shown /\ m.type = "watching" /\ m.show \notin Only(items)
                THEN finds \cup {[show |-> m.show, of |-> profile, alive |-> TRUE, items |-> {}]}
                ELSE finds
    /\ fetches' = fetches \cup (IF m.type = "unwatched_stale" /\ place = "row"
                                THEN {Ask("load", profile)} ELSE {})
    /\ missed' = missed \cup (IF Crosses(m) THEN {"crossed"} ELSE {})
                        \cup (IF ~mine /\ m.of = key THEN {"profile"} ELSE {})
                        \cup (IF mine /\ shown /\ m.type = "timecode" THEN {"progress"} ELSE {})
    /\ UNCHANGED <<server, profile, place, items, loaded, key, prefetching, events, moves>>

\* A message of the profile marks the row stale; a row on screen is patched, or
\* fetched again when the message names no card.
Message ==
    LET m == Head(feed)
        mine == m.type = "unwatched_stale" \/ (m.type # "unwatched_stale" /\ m.of = profile)
        shown == place = "row" /\ items # {}
        leaves == mine /\ shown /\ m.type = "other" /\ m.show \in Only(items)
    IN
    /\ feed # <<>> /\ feed' = Tail(feed)
    /\ IF leaves THEN Patched(Only(items) \ {m.show})
       ELSE items' = items /\ cache' = IF mine THEN Stale(cache) ELSE cache
    /\ finds' = IF mine /\ shown /\ m.type = "watching" /\ m.show \notin Only(items)
                THEN finds \cup {[show |-> m.show, of |-> profile, alive |-> TRUE, items |-> {}]}
                ELSE finds
    /\ fetches' = fetches \cup (IF m.type = "unwatched_stale" /\ place = "row"
                                THEN {Ask("load", profile)} ELSE {})
    /\ missed' = missed \cup (IF Crosses(m) THEN {"crossed"} ELSE {})
                        \cup (IF ~mine /\ m.of = key THEN {"profile"} ELSE {})
                        \cup (IF mine /\ shown /\ m.type = "timecode" THEN {"progress"} ELSE {})
                        \cup (IF leaves /\ m.show \in server[profile] /\ Final("watching", profile, m.show, Tail(feed))
                              THEN {"crossed"} ELSE {})
                        \cup (IF leaves /\ Unmarks(profile, m.show) THEN {"unmarked"} ELSE {})
    /\ UNCHANGED <<server, profile, place, loaded, key, prefetching, events, moves>>

\* The connection is down; nothing is asked for when it is back.
MessageLost ==
    /\ feed # <<>> /\ Happens
    /\ feed' = Tail(feed)
    /\ missed' = missed \cup {"failed"}
    /\ UNCHANGED <<server, profile, place, items, loaded, cache, key, fetches, prefetching, finds, moves>>

\* The card of a message is there: it joins the list its row has by now, or had
\* when it was closed.
Found(f) ==
    LET list == IF f.alive THEN items ELSE f.items IN
    /\ finds' = finds \ {f}
    /\ IF list # {} /\ f.show \notin Only(list)
       THEN /\ cache' = Fresh(Only(list) \cup {f.show})
            /\ items' = IF f.alive THEN {Only(list) \cup {f.show}} ELSE items
       ELSE UNCHANGED <<items, cache>>
    /\ missed' = missed \cup (IF f.of # key THEN {"profile"} ELSE {})
                        \cup (IF (f.show \notin server[f.of] /\ Final("other", f.of, f.show, feed)) \/ ~f.alive
                              THEN {"crossed"} ELSE {})
                        \cup (IF Unmarks(f.of, f.show) THEN {"unmarked"} ELSE {})
    /\ UNCHANGED <<server, profile, place, loaded, key, fetches, prefetching, feed, events, moves>>

FindFails(f) ==
    /\ Happens
    /\ finds' = finds \ {f}
    /\ missed' = missed \cup {"failed"}
    /\ UNCHANGED <<server, profile, place, items, loaded, cache, key, fetches, prefetching, feed, moves>>

-----------------------------------------------------------------------------

Next ==
    \/ ShowRow \/ Flip \/ Leave \/ Refresh
    \/ \E p \in Profile : SwitchProfile(p)
    \/ \E f \in fetches : Serve(f) \/ Got(f) \/ FetchFails(f)
    \/ \E p \in Profile, s \in Show : FinishedElsewhere(p, s)
    \/ \E p \in Profile, s \in Show, type \in {"watching", "other"} : StatusElsewhere(p, s, type)
    \/ \E s \in Show : DayPasses(s) \/ ChangeHere(s)
    \/ Message \/ MessageLost
    \/ \E f \in finds : Found(f) \/ FindFails(f)

Spec == Init /\ [][Next]_vars

-----------------------------------------------------------------------------

Quiet == fetches = {} /\ finds = {} /\ feed = <<>>

\* When nothing is under way any more, the row on screen shows what the server
\* says for the profile, and so does a list in the cache that is not marked stale;
\* unless a request or a message was lost, an answer from before a change arrived
\* after its message, a patch took a stale mark away that stood for another change,
\* or an answer for one profile arrived under another.  A show that was finished
\* elsewhere stays on the screen (its message only marks the row).
SettledRowsAreCurrent ==
    Quiet /\ missed \subseteq {"progress"} /\ key = profile =>
        /\ \A e \in cache : ~e.stale => e.items = server[profile]
        /\ place = "row" /\ missed = {} => items = {server[profile]}

\* Violated by the code (96): the cached rows are those of the profile they are
\* kept for.  The answer a row of another profile waited for is stored as well.
CachedRowsAreOfProfile ==
    Quiet /\ missed \subseteq {"profile"} /\ key = profile =>
        \A e \in cache : ~e.stale => e.items = server[profile]

=============================================================================
