---------------------------- MODULE ShowCalendar ----------------------------
(***************************************************************************)
(* The calendar of src/plugins/myshows.js, which takes the place of        *)
(* Lampa's: the shows of Lampa's own table and those of MyShows, in two    *)
(* passes.  The shows kept from the last time are shown at once; meanwhile *)
(* the list is made again from the unwatched shows, the shows of the       *)
(* profile and their cards, kept, and shown.  A third pass follows when    *)
(* the plugin next saves the unwatched shows (_onUnwatchedSaved, one       *)
(* closure at a time).  Where src/plugins/np_unwatched.js is loaded too,   *)
(* it asks its own calendar before each filling and adds what is missing.  *)
(***************************************************************************)
EXTENDS Naturals, Sequences, SequencesExt

CONSTANTS
    Show,
    MaxOpens,     \* (bound) calendars opened
    MaxEvents     \* (bound) changes of the data, failures

VARIABLES
    np,           \* the server of this repository keeps the lists; else Lampa's storage
    airing,       \* the shows that have episodes to come
    lampa,        \* the shows of Lampa's own table
    shows,        \* profile.Shows: watching and finished, at MyShows
    unwatched,    \* the saved list of unwatched shows
    extra,        \* timetable_extra: the shows kept for the calendar
    upcoming,     \* local mode: the shows whose episodes to come are kept
    view,         \* the open calendar, 0: none
    table,        \* the shows it has filled in besides Lampa's, a set of at most one; {}: loading
    wrapped,      \* np_unwatched.js wraps the calendar
    watching,     \* the shows of its calendar
    fills,        \* fillings that wait for that calendar, in their order
    hook,         \* _onUnwatchedSaved: the calendar it refreshes, a set of at most one
    reqs,         \* requests under way
    opens, events,
    missed        \* (history) the ways to show something else, named below, that were taken

world == <<np, airing, lampa, shows, wrapped, watching>>
screen == <<table, fills>>
vars == <<world, unwatched, extra, upcoming, view, screen, hook, reqs, opens, events, missed>>

Ways == {"failed", "crossed", "reopened", "hooked", "nothing", "waits"}

\* by: the calendar that asked.  map: the shows it asks about.  fresh: of the list
\* made again.
Requests == [what : {"extra", "unwatched", "shows", "read", "sync", "refresh"},
             by : 1..MaxOpens, map : SUBSET Show, fresh : BOOLEAN]

TypeOK ==
    /\ np \in BOOLEAN
    /\ {airing, lampa, shows, unwatched, extra, upcoming, watching} \subseteq SUBSET Show
    /\ wrapped \in BOOLEAN /\ fills \in Seq(SUBSET Show)
    /\ view \in 0..MaxOpens
    /\ table \subseteq SUBSET Show /\ \A s, t \in table : s = t
    /\ hook \subseteq 1..MaxOpens /\ \A v, w \in hook : v = w
    /\ reqs \subseteq Requests
    /\ opens \in 0..MaxOpens /\ events \in 0..MaxEvents /\ missed \subseteq Ways

Init ==
    /\ np \in BOOLEAN
    /\ airing \in SUBSET Show /\ lampa \in SUBSET Show /\ shows \in SUBSET Show
    /\ extra \in SUBSET shows /\ unwatched \in SUBSET shows /\ upcoming = {}
    /\ wrapped \in BOOLEAN /\ watching \in SUBSET (IF wrapped THEN Show ELSE {})
    /\ view = 0 /\ table = {} /\ fills = <<>> /\ hook = {} /\ reqs = {}
    /\ opens = 0 /\ events = 0 /\ missed = {}

Happens == events < MaxEvents /\ events' = events + 1
Missed(way, condition) == IF condition THEN {way} ELSE {}
Ask(what, by, map, fresh) == [what |-> what, by |-> by, map |-> map, fresh |-> fresh]

\* _fill; wrapped, once the other calendar has answered (wrapTimetableFactory).
Fill(items) ==
    IF wrapped THEN fills' = Append(fills, items) /\ UNCHANGED table
    ELSE table' = {items} /\ UNCHANGED fills

\* applyItems: what Lampa's table has is left to it.  A calendar that is closed
\* fills in what nobody sees.
ApplyItems(by, items) == IF view = by THEN Fill(items \ lampa) ELSE UNCHANGED screen

-----------------------------------------------------------------------------

\* With the calendar of MyShows off in the settings, Lampa's table is all.
Open(calendar) ==
    /\ opens < MaxOpens /\ opens' = opens + 1
    /\ view' = opens + 1
    /\ table' = IF calendar \/ wrapped THEN {} ELSE {{}}
    /\ fills' = IF calendar \/ ~wrapped THEN <<>> ELSE <<{}>>
    /\ reqs' = IF calendar THEN reqs \cup {Ask("extra", opens + 1, {}, FALSE)} ELSE reqs
    /\ missed' = missed \cup Missed("reopened", reqs # {} \/ ~calendar)
    /\ UNCHANGED <<world, unwatched, extra, upcoming, hook, events>>

Close ==
    /\ view # 0 /\ view' = 0 /\ table' = {} /\ fills' = <<>>
    /\ UNCHANGED <<world, unwatched, extra, upcoming, hook, reqs, opens, events, missed>>

\* fetchUpcoming: the server is asked about the shows; in local mode what is kept is
\* shown, by the first pass only, and the rest waits for the hook.
FetchUpcoming(by, map, fresh, rest) ==
    /\ hook' = {by}
    /\ reqs' = rest \cup (IF np /\ map # {} THEN {Ask("read", by, map, fresh)} ELSE {})
    /\ IF ~np /\ ~fresh /\ upcoming \cap map # {}
       THEN ApplyItems(by, upcoming \cap map) ELSE UNCHANGED screen
    /\ missed' = missed \cup Missed("nothing", np /\ map = {}) \cup Missed("waits", ~np)

\* Kept shows are shown and the list is made again behind them; else it is made first.
ExtraAnswers(r, kept) ==
    /\ r.what = "extra"
    /\ LET rest == (reqs \ {r}) \cup {Ask("unwatched", r.by, {}, TRUE)} IN
       IF kept # {} THEN FetchUpcoming(r.by, kept, FALSE, rest)
       ELSE reqs' = rest /\ UNCHANGED <<hook, screen, missed>>
    /\ UNCHANGED <<world, unwatched, extra, upcoming, view, opens>>

UnwatchedAnswers(r, base) ==
    /\ r.what = "unwatched"
    /\ reqs' = (reqs \ {r}) \cup {Ask("shows", r.by, base, TRUE)}
    /\ UNCHANGED <<world, unwatched, extra, upcoming, view, screen, hook, opens, missed>>

\* Mutant: the list that was made again is kept for the next time only.
ShowsAnswerKeeping(r, found) ==
    /\ r.what = "shows"
    /\ extra' = r.map \cup found
    /\ reqs' = reqs \ {r}
    /\ UNCHANGED <<world, unwatched, upcoming, view, screen, hook, opens, events, missed>>

\* refreshTimetableExtra: the shows of the profile that TMDB has cards for join the
\* unwatched ones; the result is kept and shown.
ShowsAnswer(r, found) ==
    /\ r.what = "shows"
    /\ extra' = r.map \cup found
    /\ FetchUpcoming(r.by, r.map \cup found, TRUE, reqs \ {r})
    /\ UNCHANGED <<world, unwatched, upcoming, view, opens, events>>

\* Without the shows of the profile the unwatched ones are all.
ShowsFail(r) ==
    /\ Happens /\ r.what = "shows"
    /\ hook' = {r.by}
    /\ reqs' = (reqs \ {r}) \cup (IF np /\ r.map # {} THEN {Ask("read", r.by, r.map, TRUE)} ELSE {})
    /\ missed' = missed \cup {"failed"} \cup Missed("nothing", np /\ r.map = {}) \cup Missed("waits", ~np)
    /\ UNCHANGED <<world, unwatched, extra, upcoming, view, screen, opens>>

\* The server's episodes, grouped by show; those of the first pass may come last.
TimetableAnswers(r) ==
    /\ r.what \in {"read", "sync"}
    /\ reqs' = reqs \ {r}
    /\ ApplyItems(r.by, r.map \cap airing)
    /\ missed' = missed \cup Missed("hooked", r.what = "sync")
         \cup Missed("crossed", ~r.fresh /\ ~\E q \in reqs : q.by = r.by /\ q.fresh)
    /\ UNCHANGED <<world, unwatched, extra, upcoming, view, hook, opens, events>>

\* Mutant: no answer, and the loader stays.
TimetableFailsSilently(r) ==
    /\ Happens /\ r.what \in {"read", "sync"}
    /\ reqs' = reqs \ {r}
    /\ missed' = missed \cup {"failed"}
    /\ UNCHANGED <<world, unwatched, extra, upcoming, view, screen, hook, opens>>

\* An error, a timeout and an answer that is no list read as no episodes.
TimetableFails(r) ==
    /\ Happens /\ r.what \in {"read", "sync"}
    /\ reqs' = reqs \ {r}
    /\ ApplyItems(r.by, {})
    /\ missed' = missed \cup {"failed"}
    /\ UNCHANGED <<world, unwatched, extra, upcoming, view, hook, opens>>

\* _fireUnwatchedSaved: the list of unwatched shows was fetched and saved; the
\* calendar that waits is refreshed with these alone, once.
UnwatchedSaved(fresh) ==
    /\ Happens
    /\ unwatched' = fresh /\ hook' = {}
    /\ IF np /\ fresh = {}
       THEN /\ \A by \in hook : ApplyItems(by, {})
            /\ hook = {} => UNCHANGED screen
            /\ missed' = missed \cup Missed("hooked", hook # {})
            /\ UNCHANGED reqs
       ELSE /\ reqs' = reqs \cup {Ask(IF np THEN "sync" ELSE "refresh", by, fresh, TRUE) : by \in hook}
            /\ UNCHANGED <<screen, missed>>
    /\ UNCHANGED <<world, extra, upcoming, view, opens>>

\* refreshUpcoming (local mode): the episodes to come of the saved unwatched shows,
\* one request per show, kept and shown.  A failure shows nothing at all.
RefreshAnswers(r) ==
    /\ r.what = "refresh"
    /\ reqs' = reqs \ {r}
    /\ LET map == IF unwatched # {} THEN unwatched ELSE r.map IN
       /\ upcoming' = map \cap airing
       /\ ApplyItems(r.by, map \cap airing)
    /\ UNCHANGED <<world, unwatched, extra, view, hook, opens, events, missed>>

RefreshFails(r) ==
    /\ Happens /\ r.what = "refresh"
    /\ reqs' = reqs \ {r}
    /\ missed' = missed \cup {"failed"}
    /\ UNCHANGED <<world, unwatched, extra, upcoming, view, screen, hook, opens>>

\* Mutant: what the MyShows plugin has filled in is lost.
CalendarAnswersAlone(i) ==
    /\ table' = {watching \ lampa}
    /\ fills' = RemoveAt(fills, i)
    /\ missed' = missed \cup Missed("crossed", i # 1)
    /\ UNCHANGED <<world, unwatched, extra, upcoming, view, hook, reqs, opens, events>>

\* mergeNpCalendarIntoTimetable: both months have come, and the shows that the table
\* has not yet are added; an earlier filling may come after a later one.
CalendarAnswers(i) ==
    /\ table' = {fills[i] \cup (watching \ lampa)}
    /\ fills' = RemoveAt(fills, i)
    /\ missed' = missed \cup Missed("crossed", i # 1)
    /\ UNCHANGED <<world, unwatched, extra, upcoming, view, hook, reqs, opens, events>>

\* Without them the table is filled as it is.
CalendarFails(i) ==
    /\ Happens
    /\ table' = {fills[i]}
    /\ fills' = RemoveAt(fills, i)
    /\ missed' = missed \cup {"failed"}
    /\ UNCHANGED <<world, unwatched, extra, upcoming, view, hook, reqs, opens>>

ShowsChange(s) ==
    /\ Happens
    /\ shows' = IF s \in shows THEN shows \ {s} ELSE shows \cup {s}
    /\ UNCHANGED <<np, airing, lampa, wrapped, watching, unwatched, extra, upcoming, view, screen,
                   hook, reqs, opens, missed>>

-----------------------------------------------------------------------------

Answers ==
    \/ \E i \in DOMAIN fills : CalendarAnswers(i)
    \/ \E r \in reqs :
        \/ ExtraAnswers(r, extra) /\ UNCHANGED events
        \/ UnwatchedAnswers(r, unwatched) /\ UNCHANGED events
        \/ \E found \in SUBSET (shows \ r.map) : ShowsAnswer(r, found)
        \/ TimetableAnswers(r)
        \/ RefreshAnswers(r)

Failures ==
    \/ \E i \in DOMAIN fills : CalendarFails(i)
    \/ \E r \in reqs :
        \/ Happens /\ ExtraAnswers(r, {})
        \/ Happens /\ UnwatchedAnswers(r, {})
        \/ ShowsFail(r) \/ TimetableFails(r) \/ RefreshFails(r)

Next ==
    \/ \E calendar \in BOOLEAN : Open(calendar)
    \/ Close
    \/ Answers \/ Failures
    \/ \E fresh \in SUBSET shows : UnwatchedSaved(fresh)
    \/ \E s \in Show : ShowsChange(s)

Spec == Init /\ [][Next]_vars

\* Every request is answered in the end.
FairSpec == Spec /\ WF_vars(Answers)

-----------------------------------------------------------------------------

\* When nothing is under way, the open calendar shows the shows kept for it that
\* have episodes to come and those of the server's calendar, if they are not in
\* Lampa's own table; unless an answer failed, one of the first pass came last,
\* another calendar was being made, there was nothing to ask the server about, or
\* the third pass replaced them by the unwatched shows alone.
SettledCalendarIsFull ==
    np /\ view # 0 /\ reqs = {} /\ fills = <<>> /\ missed = {} =>
        table = {((extra \cap airing) \cup watching) \ lampa}

\* The loader goes, even when requests fail, unless there was nothing to ask the
\* server about, or the calendar waits for the list of unwatched shows (local mode).
LoaderGone == view # 0 /\ table = {} => missed \cap {"nothing", "waits"} # {}
LoaderEnds == <>[]LoaderGone

=============================================================================
