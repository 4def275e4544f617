------------------------------ MODULE MC_Loads ------------------------------
(***************************************************************************)
(* What is fetched in several steps, each after an answer of MyShows, of   *)
(* TMDB or of the server: the list of shows of the MyShows plugin, the     *)
(* import of an account, the lists of its start page, its calendar, the    *)
(* opening of a card's page; and the marks that are counted up and down.   *)
(* The parts share no state; TLC runs them side by side, each in           *)
(* behaviours of its own.                                                  *)
(***************************************************************************)
EXTENDS Integers

CONSTANTS
    Show, Fetch, AtATime,                \* of the fetches of the list of shows
    Movie, Serial, Nobody,               \* of the import
    Id, Profile,                         \* of the lists, the profiles of all parts
    LastGroup, LastNumber,               \* of the marks, which count from 1
    Last, Retries,                       \* of the card's page
    Attempts,                            \* searches for one show or item
    s1, p1,                              \* the show and the profile the page opens with
    MaxFailures, MaxImports, MaxSwitches, MaxAsks, MaxOpens, MaxUpdates, MaxMoves,
    ListEvents, CalendarEvents, PageEvents   \* (bounds)

ASSUME LoadsAssumption ==
    /\ Nobody \notin Movie \cup Serial
    /\ {LastGroup, LastNumber} \subseteq Nat
    /\ s1 \in Show /\ p1 \in Profile
    /\ Attempts \in Nat \ {0} /\ Retries \in Nat
    /\ {MaxFailures, MaxImports, MaxSwitches, MaxAsks, MaxOpens, MaxUpdates, MaxMoves,
        ListEvents, CalendarEvents, PageEvents} \subseteq Nat

VARIABLES
    part, skip, saved, step, read, trust, task, card, failures, crossed, watched, info,
    profile, stage, todo, shows, cur, search, timecodes, cards, base, history, syncing,
    imports, switches, unsaved, npServer, account, shuffled, jobs, delivered, events, asks,
    had, missed, np, airing, lampa, unwatched, extra, upcoming, view, table, wrapped,
    watching, fills, hook, reqs, opens, kind, text, running, updates, targets, skipping,
    marks, status, book, shown, loading, timecodesLoaded, watchStatusLoaded, episodesLoaded,
    episodesFinal, watchStatus, isFavorite, posts, confirm, feed, moves

Details == INSTANCE ShowDetails

Import == INSTANCE AccountImport WITH None <- Nobody

Lists == INSTANCE MyShowsLists WITH
    List <- {"watchlist", "watched", "cancelled"}, MaxEvents <- ListEvents

Calendar == INSTANCE ShowCalendar WITH MaxEvents <- CalendarEvents

Marker == INSTANCE MarkerAnimations WITH Groups <- 1..LastGroup, Numbers <- 1..LastNumber

Page == INSTANCE CardPage WITH Card <- Show, MaxEvents <- PageEvents

Parts ==
    {"details", "import", "lists", "calendar", "marker", "page"}

Init ==
    /\ part \in Parts
    /\ part = "details" => Details!Init
    /\ part = "import" => Import!Init /\ profile = p1
    /\ part = "lists" => Lists!Init
    /\ part = "calendar" => Calendar!Init /\ airing = Show /\ shows = Show /\ s1 \notin lampa
    /\ part = "marker" => Marker!Init
    /\ part = "page" => Page!Init /\ card = s1 /\ profile = p1
    /\ part # "details" =>
          skip = 0 /\ step = 0 /\ read = 0 /\ trust = 0 /\ task = 0 /\ crossed = 0
    /\ part \notin {"details", "lists"} =>
          saved = 0 /\ failures = 0
    /\ part \notin {"details", "page"} =>
          card = 0
    /\ part # "import" =>
          watched = 0 /\ info = 0 /\ stage = 0 /\ todo = 0 /\ cur = 0 /\ search = 0 /\
          base = 0 /\ history = 0 /\ syncing = 0 /\ imports = 0 /\ switches = 0 /\
          unsaved = 0
    /\ part \notin {"import", "lists", "page"} =>
          profile = 0
    /\ part \notin {"import", "calendar"} =>
          shows = 0
    /\ part \notin {"import", "page"} =>
          timecodes = 0
    /\ part \notin {"import", "lists"} =>
          cards = 0
    /\ part # "lists" =>
          npServer = 0 /\ account = 0 /\ shuffled = 0 /\ jobs = 0 /\ delivered = 0 /\
          asks = 0 /\ had = 0
    /\ part \notin {"lists", "calendar", "page"} =>
          events = 0 /\ missed = 0
    /\ part # "calendar" =>
          np = 0 /\ airing = 0 /\ lampa = 0 /\ unwatched = 0 /\ extra = 0 /\
          upcoming = 0 /\ view = 0 /\ table = 0 /\ wrapped = 0 /\ watching = 0 /\
          fills = 0 /\ hook = 0 /\ opens = 0
    /\ part \notin {"calendar", "page"} =>
          reqs = 0
    /\ part # "marker" =>
          kind = 0 /\ text = 0 /\ running = 0 /\ updates = 0 /\ targets = 0 /\
          skipping = 0
    /\ part # "page" =>
          marks = 0 /\ status = 0 /\ book = 0 /\ shown = 0 /\ loading = 0 /\
          timecodesLoaded = 0 /\ watchStatusLoaded = 0 /\ episodesLoaded = 0 /\
          episodesFinal = 0 /\ watchStatus = 0 /\ isFavorite = 0 /\ posts = 0 /\
          confirm = 0 /\ feed = 0 /\ moves = 0

\* What belongs to other parts stays as it is.
Still ==
    /\ UNCHANGED part
    /\ part # "details" =>
          UNCHANGED <<skip, step, read, trust, task, crossed>>
    /\ part \notin {"details", "lists"} =>
          UNCHANGED <<saved, failures>>
    /\ part \notin {"details", "page"} =>
          UNCHANGED <<card>>
    /\ part # "import" =>
          UNCHANGED <<watched, info, stage, todo, cur, search, base, history, syncing,
          imports, switches, unsaved>>
    /\ part \notin {"import", "lists", "page"} =>
          UNCHANGED <<profile>>
    /\ part \notin {"import", "calendar"} =>
          UNCHANGED <<shows>>
    /\ part \notin {"import", "page"} =>
          UNCHANGED <<timecodes>>
    /\ part \notin {"import", "lists"} =>
          UNCHANGED <<cards>>
    /\ part # "lists" =>
          UNCHANGED <<npServer, account, shuffled, jobs, delivered, asks, had>>
    /\ part \notin {"lists", "calendar", "page"} =>
          UNCHANGED <<events, missed>>
    /\ part # "calendar" =>
          UNCHANGED <<np, airing, lampa, unwatched, extra, upcoming, view, table, wrapped,
          watching, fills, hook, opens>>
    /\ part \notin {"calendar", "page"} =>
          UNCHANGED <<reqs>>
    /\ part # "marker" =>
          UNCHANGED <<kind, text, running, updates, targets, skipping>>
    /\ part # "page" =>
          UNCHANGED <<marks, status, book, shown, loading, timecodesLoaded,
          watchStatusLoaded, episodesLoaded, episodesFinal, watchStatus, isFavorite, posts,
          confirm, feed, moves>>

Next ==
    \/ part = "details" /\ Details!Next /\ Still
    \/ part = "import" /\ Import!Next /\ Still
    \/ part = "lists" /\ Lists!Next /\ Still
    \/ part = "calendar" /\ Calendar!Next /\ Still
    \/ part = "marker" /\ Marker!Next /\ Still
    \/ part = "page" /\ Page!Next /\ posts' = {} /\ confirm' = {} /\ feed' = <<>> /\ Still

vars ==
    <<part, skip, saved, step, read, trust, task, card, failures, crossed, watched, info,
      profile, stage, todo, shows, cur, search, timecodes, cards, base, history, syncing,
      imports, switches, unsaved, npServer, account, shuffled, jobs, delivered, events,
      asks, had, missed, np, airing, lampa, unwatched, extra, upcoming, view, table,
      wrapped, watching, fills, hook, reqs, opens, kind, text, running, updates, targets,
      skipping, marks, status, book, shown, loading, timecodesLoaded, watchStatusLoaded,
      episodesLoaded, episodesFinal, watchStatus, isFavorite, posts, confirm, feed, moves>>

Spec == Init /\ [][Next]_vars

\* Requests are answered in the end, or fail; the timers of the animations go off.
Fairness ==
    /\ \A f \in Fetch : WF_vars(part = "details" /\ Details!FetchStep(f) /\ Still)
    /\ WF_vars(part = "import" /\ Import!Answer /\ Still)
    /\ WF_vars(part = "lists" /\ Lists!Answers /\ Still)
    /\ WF_vars(part = "calendar" /\ Calendar!Answers /\ Still)
    /\ WF_vars(part = "marker" /\ (\E a \in running : Marker!Tick(a)) /\ Still)
    /\ WF_vars(part = "page" /\ Page!Answers /\ Still)

FairSpec == Spec /\ Fairness

\* Each part stays within its types (the state of the modules it instantiates).
Types ==
    /\ part = "details" => Details!TypeOK
    /\ part = "import" => Import!TypeOK
    /\ part = "lists" => Lists!TypeOK
    /\ part = "calendar" => Calendar!TypeOK
    /\ part = "marker" => Marker!TypeOK
    /\ part = "page" => Page!TypeOK

\* A wrong card of the saved list does not come back once the list was saved without it,
\* however many fetches run side by side (myshows.js); with the exception of the module.
OldCardsStayOut == [][part = "details" => Details!KeepsRightCards]_vars

\* What is saved for a profile, its timecodes by an import and its lists by the plugin, is
\* what its own MyShows account has had, and the history holds no card whose timecodes, if it
\* has any, are not on the server, also after an import that failed and was repeated
\* (myshows.js); with the exceptions the modules name.
AccountsStayApart ==
    /\ part = "import" => Import!SavedIsWatched /\ Import!HistoryAfterSave
    /\ part = "lists" => Lists!SavedListsAreOwn

\* What is drawn in several goes ends as it should: once nothing is under way the open
\* calendar shows the shows kept for it and those of the server's calendar, in whatever
\* order the two plugins fill it, and a mark shows where one of its animations went, however
\* they overlapped (myshows.js, np_unwatched.js); with the exceptions the modules name.
DrawnIsWhole ==
    /\ part = "calendar" => Calendar!SettledCalendarIsFull
    /\ part = "marker" => Marker!StopsAtATarget

\* Whatever is asked for comes to its end, whichever requests fail: the fetches of the list,
\* an import, the lists, the calendar's loader, the counting, the loading of a card's page;
\* unless one of the ways to hang that the modules name was taken.
LoadsEnd ==
    <>[](/\ part = "details" => \A f \in Fetch : step[f] = "idle" \/ Details!Ended(f)
         /\ part = "import" => Import!Ended
         /\ part = "lists" => jobs = {}
         /\ part = "calendar" => Calendar!LoaderGone
         /\ part = "marker" => running = {}
         /\ part = "page" => Page!Opened)

=============================================================================
