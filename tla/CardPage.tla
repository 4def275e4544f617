------------------------------ MODULE CardPage ------------------------------
(***************************************************************************)
(* The page of a show in the web client (src/web/src/pages/                *)
(* CardDetailPage.tsx): one component for every card, so a new address     *)
(* only changes its parameter and what was asked for the former card still *)
(* answers into the page.  It shows the card, the marks of its episodes,   *)
(* the status and the favourite of the active profile; a click is posted   *)
(* to the server and followed by new requests.                             *)
(***************************************************************************)
EXTENDS Naturals, Sequences

CONSTANTS
    Card, Profile,
    Last,         \* the episodes of a show are 1..Last, in order of their air dates
    Retries,      \* how often the list of episodes is asked for again
    MaxEvents,    \* (bound) changes of the data, failures, answers that change nothing
    MaxMoves      \* (bound) pages opened, profiles switched

VARIABLES
    marks,        \* server: marks[p][c], the watched episodes
    status,       \* server: status[p][c]
    book,         \* server: book[p], the favourites, one value per profile
    card, profile,
    shown,        \* the card object the page has, a set of at most one
    loading, timecodesLoaded, watchStatusLoaded, episodesLoaded, episodesFinal,
    timecodes,    \* of every profile
    watchStatus, isFavorite,
    reqs,         \* requests under way
    posts,        \* changes under way
    confirm,      \* the dialog that is open, a set of at most one
    feed,         \* messages of the web socket for the active profile
    events, moves,
    missed        \* (history) the ways to show something else, named below, that were taken

screen == <<shown, loading, timecodesLoaded, watchStatusLoaded, episodesLoaded, episodesFinal,
            timecodes, watchStatus, isFavorite>>
server == <<marks, status, book>>
vars == <<server, card, profile, screen, reqs, posts, confirm, feed, events, moves, missed>>

Episode == 1..Last
Status == {"none", "watching", "stopped"}
Ways == {"card failed", "timecodes failed", "failed", "crossed", "left", "wiped", "overwritten"}

\* newest: no later request supersedes it (timecodes); the loop that asked still
\* runs (episodes).  first: asked by the page's opening.
Requests ==
    [what : {"card", "timecodes", "status", "favorite", "episodes"}, of : Card, by : Profile,
     first : BOOLEAN, newest : BOOLEAN, tries : 0..Retries, got : BOOLEAN,
     marks : [Profile -> SUBSET Episode], status : Status, liked : BOOLEAN]

Dialogs == [mark : SUBSET Episode, unmark : SUBSET Episode, wipe : BOOLEAN, then : BOOLEAN,
            by : Profile, of : Card]

TypeOK ==
    /\ marks \in [Profile -> [Card -> SUBSET Episode]]
    /\ status \in [Profile -> [Card -> Status]]
    /\ book \in [Profile -> SUBSET Card]
    /\ card \in Card /\ profile \in Profile
    /\ shown \in SUBSET Card /\ \A c, d \in shown : c = d
    /\ {loading, timecodesLoaded, watchStatusLoaded, episodesLoaded, episodesFinal, isFavorite} \subseteq BOOLEAN
    /\ timecodes \in [Profile -> SUBSET Episode] /\ watchStatus \in Status
    /\ \A r \in reqs : r \in Requests
    /\ confirm \subseteq Dialogs /\ \A d, e \in confirm : d = e
    /\ \A i \in DOMAIN feed : feed[i] \in [type : {"status"}, of : Card, status : Status] \cup [type : {"timecode"}, of : Card]
    /\ events \in 0..MaxEvents /\ moves \in 0..MaxMoves /\ missed \subseteq Ways

NoMarks == [p \in Profile |-> {}]

Ask(what, c, p, first) ==
    [what |-> what, of |-> c, by |-> p, first |-> first, newest |-> TRUE, tries |-> 0,
     got |-> FALSE, marks |-> NoMarks, status |-> "none", liked |-> FALSE]

\* loadTimecodes: the sequence number of earlier requests is no longer the newest.
LoadTimecodes(asked, c) ==
    {IF r.what = "timecodes" THEN [r EXCEPT !.newest = FALSE] ELSE r : r \in asked}
        \cup {Ask("timecodes", c, profile, FALSE)}

Opening(asked, c, p) ==
    LoadTimecodes(asked, c) \cup {Ask("card", c, p, TRUE), Ask("status", c, p, TRUE)}

Happens == events < MaxEvents /\ events' = events + 1
Move == moves < MaxMoves /\ moves' = moves + 1
Missed(way, condition) == IF condition THEN {way} ELSE {}

Init ==
    /\ card \in Card /\ profile \in Profile
    /\ \E seen \in SUBSET Episode :
         marks = [p \in Profile |-> [c \in Card |-> IF c = card /\ p = profile THEN seen ELSE {}]]
    /\ status = [p \in Profile |-> [c \in Card |-> "none"]]
    /\ book = [p \in Profile |-> {}]
    /\ shown = {} /\ loading = TRUE
    /\ timecodesLoaded = FALSE /\ watchStatusLoaded = FALSE
    /\ episodesLoaded = FALSE /\ episodesFinal = FALSE
    /\ timecodes = NoMarks /\ watchStatus = "none" /\ isFavorite = FALSE
    /\ reqs = Opening({}, card, profile) /\ posts = {} /\ confirm = {} /\ feed = <<>>
    /\ events = 0 /\ moves = 0 /\ missed = {}

\* The gate before anything of the card is drawn.
Revealed ==
    /\ ~loading /\ shown # {}
    /\ watchStatusLoaded /\ timecodesLoaded /\ episodesLoaded

-----------------------------------------------------------------------------
(* The address and the profile *)

\* A card of the rows below: the page keeps the card it has, and its status, its
\* favourite and its dialog, until something replaces them.
Open(c) ==
    /\ Move /\ c # card
    /\ card' = c
    /\ loading' = TRUE /\ timecodesLoaded' = FALSE /\ watchStatusLoaded' = FALSE
    /\ episodesLoaded' = FALSE /\ episodesFinal' = FALSE
    /\ timecodes' = NoMarks
    /\ reqs' = Opening(reqs, c, profile)
    /\ UNCHANGED <<server, profile, shown, watchStatus, isFavorite, posts, confirm, feed, events, missed>>

\* The timecodes are those of every profile; status and favourite are asked for.
\* The socket passes on what is of the active profile.
SwitchProfile(p) ==
    /\ Move /\ p # profile
    /\ profile' = p
    /\ reqs' = reqs \cup {Ask("status", card, p, TRUE)}
                    \cup {Ask("favorite", c, p, FALSE) : c \in shown}
    /\ feed' = <<>>
    /\ missed' = missed \cup Missed("failed", feed # <<>>) \cup Missed("left", posts # {})
    /\ UNCHANGED <<server, card, screen, posts, confirm, events>>

-----------------------------------------------------------------------------
(* Answers *)

Serve(r) ==
    /\ ~r.got /\ r.what \notin {"card", "episodes"}
    /\ reqs' = (reqs \ {r}) \cup {[r EXCEPT !.got = TRUE,
         !.marks = IF r.what = "timecodes" THEN [p \in Profile |-> marks[p][r.of]] ELSE @,
         !.status = IF r.what = "status" THEN status[r.by][r.of] ELSE @,
         !.liked = r.what = "favorite" /\ r.of \in book[r.by]]}
    /\ UNCHANGED <<server, card, profile, screen, posts, confirm, feed, events, moves, missed>>

\* Whichever card it is.  Another card than the one before has its episodes asked
\* for; the favourites are asked for anyway.
GotCard(r) ==
    /\ r.what = "card"
    /\ shown' = {r.of} /\ loading' = FALSE
    /\ LET rest == reqs \ {r}
           others == {q \in rest : q.what # "episodes"}
           asked == IF shown = {r.of} THEN rest ELSE others \cup {Ask("episodes", r.of, profile, TRUE)}
       IN reqs' = asked \cup {Ask("favorite", r.of, profile, FALSE)}
    /\ missed' = missed \cup Missed("left", r.of # card)
    /\ UNCHANGED <<server, card, profile, timecodesLoaded, watchStatusLoaded, episodesLoaded,
                   episodesFinal, timecodes, watchStatus, isFavorite, posts, confirm, feed, events, moves>>

\* No such card, or no answer: then the card before stays.
CardFails(r) ==
    /\ Happens /\ r.what = "card"
    /\ shown' \in {{}, shown} /\ loading' = FALSE
    /\ reqs' = {q \in reqs \ {r} : q.what # "episodes" \/ shown' = shown}
    /\ missed' = missed \cup {"card failed"}
    /\ UNCHANGED <<server, card, profile, timecodesLoaded, watchStatusLoaded, episodesLoaded,
                   episodesFinal, timecodes, watchStatus, isFavorite, posts, confirm, feed, moves>>

\* Mutant: every answer is taken, in the order the answers come.
GotAnyTimecodes(r) ==
    /\ r.what = "timecodes" /\ r.got
    /\ reqs' = reqs \ {r}
    /\ timecodes' = r.marks /\ timecodesLoaded' = TRUE
    /\ UNCHANGED <<server, card, profile, shown, loading, watchStatusLoaded, episodesLoaded,
                   episodesFinal, watchStatus, isFavorite, posts, confirm, feed, events, moves, missed>>

\* An answer to a request that a later one superseded is dropped.
GotTimecodes(r) ==
    /\ r.what = "timecodes" /\ r.got
    /\ reqs' = reqs \ {r}
    /\ IF r.newest THEN timecodes' = r.marks /\ timecodesLoaded' = TRUE
       ELSE UNCHANGED <<timecodes, timecodesLoaded>>
    /\ UNCHANGED <<server, card, profile, shown, loading, watchStatusLoaded, episodesLoaded,
                   episodesFinal, watchStatus, isFavorite, posts, confirm, feed, events, moves, missed>>

\* An error of the server reads as no marks; a lost answer as nothing at all.
TimecodesFail(r) ==
    /\ Happens /\ r.what = "timecodes"
    /\ reqs' = reqs \ {r}
    /\ \/ /\ r.newest
          /\ timecodes' = NoMarks /\ timecodesLoaded' = TRUE
          /\ missed' = missed \cup {"failed"}
       \/ /\ UNCHANGED <<timecodes, timecodesLoaded>>
          /\ missed' = missed \cup {"timecodes failed"}
    /\ UNCHANGED <<server, card, profile, shown, loading, watchStatusLoaded, episodesLoaded,
                   episodesFinal, watchStatus, isFavorite, posts, confirm, feed, moves>>

\* Whichever card and profile it is of.
GotStatus(r) ==
    /\ r.what = "status" /\ r.got
    /\ reqs' = reqs \ {r}
    /\ watchStatus' = r.status
    /\ watchStatusLoaded' = (watchStatusLoaded \/ r.first)
    /\ missed' = missed \cup Missed("left", r.of # card \/ r.by # profile)
    /\ UNCHANGED <<server, card, profile, shown, loading, timecodesLoaded, episodesLoaded,
                   episodesFinal, timecodes, isFavorite, posts, confirm, feed, events, moves>>

\* Mutant: only an answer ends the wait.
StatusFailsForGood(r) ==
    /\ Happens /\ r.what = "status"
    /\ reqs' = reqs \ {r}
    /\ watchStatus' \in {"none", watchStatus}
    /\ missed' = missed \cup {"failed"}
    /\ UNCHANGED <<server, card, profile, shown, loading, timecodesLoaded, watchStatusLoaded, episodesLoaded,
                   episodesFinal, timecodes, isFavorite, posts, confirm, feed, moves>>

\* An error reads as no status, a lost answer changes nothing; the page waits for
\* neither.
StatusFails(r) ==
    /\ Happens /\ r.what = "status"
    /\ reqs' = reqs \ {r}
    /\ watchStatus' \in {"none", watchStatus}
    /\ watchStatusLoaded' = (watchStatusLoaded \/ r.first)
    /\ missed' = missed \cup {"failed"}
    /\ UNCHANGED <<server, card, profile, shown, loading, timecodesLoaded, episodesLoaded,
                   episodesFinal, timecodes, isFavorite, posts, confirm, feed, moves>>

GotFavorite(r) ==
    /\ r.what = "favorite"
    /\ reqs' = reqs \ {r}
    /\ \/ /\ r.got /\ isFavorite' = r.liked
          /\ missed' = missed \cup Missed("left", r.of # card \/ r.by # profile)
          /\ UNCHANGED events
       \/ /\ Happens /\ isFavorite' \in {isFavorite, FALSE}
          /\ missed' = missed \cup {"failed"}
    /\ UNCHANGED <<server, card, profile, shown, loading, timecodesLoaded, watchStatusLoaded,
                   episodesLoaded, episodesFinal, timecodes, watchStatus, posts, confirm, feed, moves>>

\* The list is final once the server has it from a catalogue of episodes (synced)
\* or was asked often enough; pictures that are missing have it asked for again too.
GotEpisodes(r) ==
    \E synced, again \in BOOLEAN :
        /\ r.what = "episodes"
        /\ ~synced => again
        /\ episodesLoaded' = TRUE
        /\ reqs' = (reqs \ {r}) \cup (IF again /\ r.tries < Retries
                                      THEN {[r EXCEPT !.tries = @ + 1]} ELSE {})
        /\ episodesFinal' = (episodesFinal \/ synced \/ ~again \/ r.tries = Retries)
        /\ UNCHANGED <<server, card, profile, shown, loading, timecodesLoaded, watchStatusLoaded,
                       timecodes, watchStatus, isFavorite, posts, confirm, feed, events, moves, missed>>

EpisodesFail(r) ==
    /\ Happens /\ r.what = "episodes"
    /\ reqs' = reqs \ {r}
    /\ episodesLoaded' = TRUE /\ episodesFinal' = TRUE
    /\ UNCHANGED <<server, card, profile, shown, loading, timecodesLoaded, watchStatusLoaded,
                   timecodes, watchStatus, isFavorite, posts, confirm, feed, moves, missed>>

-----------------------------------------------------------------------------
(* Clicks *)

EpIsWatched(e) == e \in timecodes[profile]

\* checkForwardCascade, checkBackwardCascade: offered by what the page shows when
\* the click is made.
Before(e) == {d \in Episode : d < e /\ ~EpIsWatched(d)}
After(e) == {d \in Episode : d > e /\ EpIsWatched(d)}

Dialog(mark, unmark, then) ==
    IF mark = {} /\ unmark = {} THEN {}
    ELSE {[mark |-> mark, unmark |-> unmark, wipe |-> FALSE, then |-> then, by |-> profile, of |-> card]}

\* then: the dialog that opens when the change is stored.
Change(mark, unmark, then) ==
    [what |-> "marks", mark |-> mark, unmark |-> unmark, wipe |-> FALSE, then |-> then,
     of |-> card, by |-> profile, stored |-> FALSE]

Click == Happens /\ Revealed /\ confirm = {}

\* A time picked, or the star: with the earlier episodes offered after it.
MarkEpisode(e) ==
    /\ Click
    /\ \E cascade \in BOOLEAN :
         posts' = posts \cup {Change({e}, {}, IF cascade THEN Dialog(Before(e), {}, FALSE) ELSE {})}
    /\ UNCHANGED <<server, card, profile, screen, reqs, confirm, feed, moves, missed>>

\* The mark taken back in the row of pictures, or the star.
UnmarkEpisode(e) ==
    /\ Click /\ EpIsWatched(e)
    /\ posts' = posts \cup {Change({}, {e}, {})}
    /\ UNCHANGED <<server, card, profile, screen, reqs, confirm, feed, moves, missed>>

MarkSeason ==
    /\ Click
    /\ posts' = posts \cup {Change(Episode, {}, {})}
    /\ UNCHANGED <<server, card, profile, screen, reqs, confirm, feed, moves, missed>>

\* One episode reset, or all of them: a dialog asks first.
AskReset(e) ==
    /\ Click /\ EpIsWatched(e)
    /\ confirm' = Dialog({}, {e}, TRUE)
    /\ UNCHANGED <<server, card, profile, screen, reqs, posts, feed, moves, missed>>

AskWipe ==
    /\ Click
    /\ confirm' = {[mark |-> {}, unmark |-> {}, wipe |-> TRUE, then |-> FALSE, by |-> profile, of |-> card]}
    /\ UNCHANGED <<server, card, profile, screen, reqs, posts, feed, moves, missed>>

\* runConfirm: the change goes to the card the page is of by now.
Confirmed(d) ==
    /\ confirm' = {}
    /\ posts' = posts \cup
         {[what |-> "marks", mark |-> d.mark, unmark |-> d.unmark, wipe |-> d.wipe,
           then |-> IF d.then THEN Dialog({}, {x \in Episode : d.unmark # {} /\ x > (CHOOSE e \in d.unmark : TRUE) /\ EpIsWatched(x)}, FALSE) ELSE {},
           of |-> card, by |-> d.by, stored |-> FALSE]}
    /\ missed' = missed \cup Missed("left", d.of # card)
    /\ UNCHANGED <<server, card, profile, screen, reqs, feed, events, moves>>

Dismissed ==
    /\ confirm # {} /\ confirm' = {}
    /\ UNCHANGED <<server, card, profile, screen, reqs, posts, feed, events, moves, missed>>

\* One at a time, and not the status that is shown.
ToggleWatchStatus(s) ==
    /\ Click /\ s # watchStatus /\ s # "none"
    /\ ~\E p \in posts : p.what = "status"
    /\ posts' = posts \cup {[what |-> "status", status |-> s, of |-> card, by |-> profile, stored |-> FALSE]}
    /\ UNCHANGED <<server, card, profile, screen, reqs, confirm, feed, moves, missed>>

\* The whole value is read, changed by what the page shows, and written back.
ToggleFavorite ==
    /\ Click
    /\ ~\E p \in posts : p.what = "favorite"
    /\ posts' = posts \cup {[what |-> "favorite", liked |-> ~isFavorite, of |-> card, by |-> profile,
                             read |-> {}, stored |-> FALSE]}
    /\ UNCHANGED <<server, card, profile, screen, reqs, confirm, feed, moves, missed>>

-----------------------------------------------------------------------------
(* Changes under way *)

Told(p, message) == feed' = IF p = profile THEN Append(feed, message) ELSE feed

\* A status that changes while an answer with the former one is on its way, while
\* a message with another one waits, or after a click that is not acknowledged.
Crosses(c, p) ==
    \/ \E r \in reqs : r.what = "status" /\ r.of = c /\ r.by = p /\ r.got
    \/ \E i \in DOMAIN feed : feed[i].type = "status" /\ feed[i].of = c
    \/ \E q \in posts : q.what = "status" /\ q.of = c /\ q.by = p /\ q.stored

\* What is marked implies the status "watching", which every client is told.
StoreMarks(q) ==
    /\ q.what = "marks" /\ ~q.stored
    /\ posts' = (posts \ {q}) \cup {[q EXCEPT !.stored = TRUE]}
    /\ marks' = IF q.wipe THEN [p \in Profile |-> [marks[p] EXCEPT ![q.of] = {}]]
                ELSE [marks EXCEPT ![q.by][q.of] = (@ \cup q.mark) \ q.unmark]
    /\ LET implied == q.mark # {} /\ status[q.by][q.of] # "watching" IN
       /\ status' = IF implied THEN [status EXCEPT ![q.by][q.of] = "watching"] ELSE status
       /\ IF implied THEN Told(q.by, [type |-> "status", of |-> q.of, status |-> "watching"])
          ELSE UNCHANGED feed
       /\ missed' = missed \cup Missed("crossed", implied /\ Crosses(q.of, q.by))
    /\ UNCHANGED <<book, card, profile, screen, reqs, confirm, events, moves>>

\* The page follows with requests for the card the change was made for.
MarksStored(q) ==
    /\ q.what = "marks" /\ q.stored
    /\ posts' = posts \ {q}
    /\ confirm' = IF q.then # {} THEN q.then ELSE confirm
    /\ timecodes' = IF q.wipe THEN NoMarks ELSE timecodes
    /\ reqs' = (IF q.wipe THEN reqs ELSE LoadTimecodes(reqs, q.of))
                  \cup (IF q.wipe \/ q.mark # {} THEN {Ask("status", q.of, q.by, FALSE)} ELSE {})
    /\ missed' = missed \cup Missed("left", q.of # card \/ q.by # profile)
                        \cup Missed("wiped", q.wipe /\ \E r \in reqs : r.what = "timecodes" /\ r.got)
                        \cup Missed("wiped", q.wipe /\ \E p \in Profile : marks[p][q.of] # {})
    /\ UNCHANGED <<server, card, profile, shown, loading, timecodesLoaded, watchStatusLoaded,
                   episodesLoaded, episodesFinal, watchStatus, isFavorite, feed, events, moves>>

StoreStatus(q) ==
    /\ q.what = "status" /\ ~q.stored
    /\ posts' = (posts \ {q}) \cup {[q EXCEPT !.stored = TRUE]}
    /\ status' = [status EXCEPT ![q.by][q.of] = q.status]
    /\ missed' = missed \cup Missed("crossed", Crosses(q.of, q.by))
    /\ UNCHANGED <<marks, book, card, profile, screen, reqs, confirm, feed, events, moves>>

StatusStored(q) ==
    /\ q.what = "status" /\ q.stored
    /\ posts' = posts \ {q}
    /\ watchStatus' = q.status
    /\ missed' = missed \cup Missed("left", q.of # card \/ q.by # profile)
    /\ UNCHANGED <<server, card, profile, shown, loading, timecodesLoaded, watchStatusLoaded,
                   episodesLoaded, episodesFinal, timecodes, isFavorite, reqs, confirm, feed, events, moves>>

ReadBook(q) ==
    /\ q.what = "favorite" /\ q.read = {}
    /\ posts' = (posts \ {q}) \cup {[q EXCEPT !.read = {book[q.by]}]}
    /\ UNCHANGED <<server, card, profile, screen, reqs, confirm, feed, events, moves, missed>>

StoreBook(q) ==
    /\ q.what = "favorite" /\ q.read # {} /\ ~q.stored
    /\ posts' = (posts \ {q}) \cup {[q EXCEPT !.stored = TRUE]}
    /\ book' = [book EXCEPT ![q.by] =
         LET was == CHOOSE b \in q.read : TRUE IN IF q.liked THEN was \cup {q.of} ELSE was \ {q.of}]
    /\ missed' = missed \cup Missed("overwritten", q.read # {book[q.by]})
                        \cup Missed("crossed", \E r \in reqs : r.what = "favorite" /\ r.got)
    /\ UNCHANGED <<marks, status, card, profile, screen, reqs, confirm, feed, events, moves>>

BookStored(q) ==
    /\ q.what = "favorite" /\ q.stored
    /\ posts' = posts \ {q}
    /\ isFavorite' = q.liked
    /\ missed' = missed \cup Missed("left", q.of # card \/ q.by # profile)
    /\ UNCHANGED <<server, card, profile, shown, loading, timecodesLoaded, watchStatusLoaded,
                   episodesLoaded, episodesFinal, timecodes, watchStatus, reqs, confirm, feed, events, moves>>

\* Lost on the way there or back: nothing follows.
PostFails(q) ==
    /\ Happens
    /\ posts' = posts \ {q}
    /\ missed' = missed \cup {"failed"}
    /\ UNCHANGED <<server, card, profile, screen, reqs, confirm, feed, moves>>

-----------------------------------------------------------------------------
(* Changes made elsewhere *)

MarkedElsewhere(c, e) ==
    /\ Happens
    /\ marks' = [marks EXCEPT ![profile][c] = IF e \in @ THEN @ \ {e} ELSE @ \cup {e}]
    /\ feed' = Append(feed, [type |-> "timecode", of |-> c])
    /\ UNCHANGED <<status, book, card, profile, screen, reqs, posts, confirm, moves, missed>>

StatusElsewhere(c, s) ==
    /\ Happens /\ s # status[profile][c]
    /\ status' = [status EXCEPT ![profile][c] = s]
    /\ feed' = Append(feed, [type |-> "status", of |-> c, status |-> s])
    /\ missed' = missed \cup Missed("crossed", Crosses(c, profile))
    /\ UNCHANGED <<marks, book, card, profile, screen, reqs, posts, confirm, moves>>

\* The page does not listen for favourites.
BookElsewhere(c) ==
    /\ Happens
    /\ book' = [book EXCEPT ![profile] = IF c \in @ THEN @ \ {c} ELSE @ \cup {c}]
    /\ missed' = missed \cup Missed("crossed", TRUE)
    /\ UNCHANGED <<marks, status, card, profile, screen, reqs, posts, confirm, feed, moves>>

Message ==
    LET m == Head(feed) IN
    /\ feed # <<>> /\ feed' = Tail(feed)
    /\ watchStatus' = IF m.type = "status" /\ m.of = card THEN m.status ELSE watchStatus
    /\ reqs' = IF m.type = "timecode" /\ m.of = card THEN LoadTimecodes(reqs, card) ELSE reqs
    /\ UNCHANGED <<server, card, profile, shown, loading, timecodesLoaded, watchStatusLoaded,
                   episodesLoaded, episodesFinal, timecodes, isFavorite, posts, confirm, events, moves, missed>>

MessageLost ==
    /\ Happens /\ feed # <<>>
    /\ feed' = Tail(feed)
    /\ missed' = missed \cup {"failed"}
    /\ UNCHANGED <<server, card, profile, screen, reqs, posts, confirm, moves>>

-----------------------------------------------------------------------------

Answers ==
    \E r \in reqs : Serve(r) \/ GotCard(r) \/ GotTimecodes(r) \/ GotStatus(r) \/ GotFavorite(r) \/ GotEpisodes(r)

Failures ==
    \/ \E r \in reqs : CardFails(r) \/ TimecodesFail(r) \/ StatusFails(r) \/ EpisodesFail(r)
    \/ \E q \in posts : PostFails(q)
    \/ MessageLost

Clicks ==
    \/ \E e \in Episode : MarkEpisode(e) \/ UnmarkEpisode(e) \/ AskReset(e)
    \/ MarkSeason \/ AskWipe \/ ToggleFavorite
    \/ \E s \in Status : ToggleWatchStatus(s)
    \/ \E d \in confirm : Confirmed(d)
    \/ Dismissed

Stored ==
    \E q \in posts : StoreMarks(q) \/ MarksStored(q) \/ StoreStatus(q) \/ StatusStored(q)
                     \/ ReadBook(q) \/ StoreBook(q) \/ BookStored(q)

Elsewhere ==
    \/ \E c \in Card, e \in Episode : MarkedElsewhere(c, e)
    \/ \E c \in Card, s \in Status : StatusElsewhere(c, s)
    \/ \E c \in Card : BookElsewhere(c)

Next ==
    \/ \E c \in Card : Open(c)
    \/ \E p \in Profile : SwitchProfile(p)
    \/ Answers \/ Failures \/ Clicks \/ Stored \/ Elsewhere \/ Message

Spec == Init /\ [][Next]_vars

\* Every request is answered in the end.
FairSpec == Spec /\ WF_vars(Answers)

-----------------------------------------------------------------------------

\* When nothing is under way, an open page shows the marks, the status and the
\* favourite the server has for its card and the active profile; unless a request,
\* a change or a message was lost, a status changed while an answer or a message
\* with another one was on its way, something asked for or posted before the page
\* was given another card or profile finished after it, or the marks were wiped
\* while they were being asked for.
SettledPageIsTrue ==
    reqs = {} /\ posts = {} /\ feed = <<>> /\ missed = {} =>
        /\ shown = {card}
        /\ timecodes = [p \in Profile |-> marks[p][card]]
        /\ watchStatus = status[profile][card]
        /\ isFavorite = (card \in book[profile])

\* The page is drawn in the end, whatever fails but the card and the timecodes
\* themselves.  (Lost timecodes leave it on "loading"; so does a card that cannot be
\* had when the page was on another one.)
Opened == Revealed \/ missed \cap {"card failed", "timecodes failed"} # {}
PageOpens == <>[]Opened

=============================================================================
