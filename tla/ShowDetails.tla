----------------------------- MODULE ShowDetails -----------------------------
(***************************************************************************)
(* The MyShows plugin: a list of unwatched shows becomes cards of TMDB     *)
(* (src/plugins/myshows.js, getTMDBDetails).  For each show the card is    *)
(* taken from the saved list or searched for, two searches at a time, its  *)
(* details and the count of its episodes are fetched, and the list is      *)
(* complete when every show has reported.  Several such fetches run side   *)
(* by side: at a start, for the caches and for the line of the main page.  *)
(*                                                                         *)
(* The version of the cache has changed: the saved list has a wrong card   *)
(* for some shows, and _skipCachedShowsOnce is to keep them out of the     *)
(* lists that are made from now on.                                        *)
(***************************************************************************)
EXTENDS Naturals, FiniteSets

CONSTANTS
    Show, Fetch,      \* the shows of the account, the fetches of the list
    Attempts,         \* searches for one show: each title with its year and without
    AtATime,          \* searches side by side (partNext: 2)
    MaxFailures       \* (bound) requests that fail

VARIABLES
    skip,         \* _skipCachedShowsOnce
    saved,        \* saved[s]: the card of s in unwatched_serials
    step,         \* step[f]: where fetch f is
    read,         \* read[f]: the saved list as the storage answered it
    trust,        \* trust[f]: f uses it
    task,         \* task[f][s]: where show s is
    card,         \* card[f][s]: the card f has for s
    failures,
    crossed       \* (history) fetches whose read was under way when the flag was cleared

vars == <<skip, saved, step, read, trust, task, card, failures, crossed>>

Cards == {"wrong", "right", "none"}
Steps == {"idle", "reading", "answered", "working", "saving", "over"}
Task == [at : {"waiting", "search", "details", "count", "over", "lost"}, tries : 0..Attempts]

TypeOK ==
    /\ skip \in BOOLEAN
    /\ saved \in [Show -> Cards]
    /\ step \in [Fetch -> Steps]
    /\ read \in [Fetch -> [Show -> Cards]]
    /\ trust \in [Fetch -> BOOLEAN]
    /\ task \in [Fetch -> [Show -> Task]]
    /\ card \in [Fetch -> [Show -> Cards]]
    /\ failures \in 0..MaxFailures
    /\ crossed \subseteq Fetch

Moves(f, s, t) == task' = [task EXCEPT ![f][s] = t]
At(f, s, at) == step[f] = "working" /\ task[f][s].at = at
Fails == failures < MaxFailures /\ failures' = failures + 1

Init ==
    /\ skip = TRUE
    /\ saved \in [Show -> {"wrong", "right"}]
    /\ step = [f \in Fetch |-> "idle"]
    /\ read = [f \in Fetch |-> [s \in Show |-> "none"]]
    /\ trust = [f \in Fetch |-> FALSE]
    /\ task = [f \in Fetch |-> [s \in Show |-> [at |-> "waiting", tries |-> 0]]]
    /\ card = [f \in Fetch |-> [s \in Show |-> "none"]]
    /\ failures = 0 /\ crossed = {}

-----------------------------------------------------------------------------
(* The list and the saved one *)

\* lists.EpisodesUnwatched has arrived; the saved list is asked for.
Begin(f) ==
    /\ step[f] = "idle"
    /\ step' = [step EXCEPT ![f] = "reading"]
    /\ UNCHANGED <<skip, saved, read, trust, task, card, failures, crossed>>

\* The storage answers, or does not.
ReadAnswered(f) ==
    /\ step[f] = "reading"
    /\ step' = [step EXCEPT ![f] = "answered"]
    /\ \/ read' = [read EXCEPT ![f] = saved] /\ UNCHANGED failures
       \/ Fails /\ UNCHANGED read
    /\ UNCHANGED <<skip, saved, trust, task, card, crossed>>

\* Mutant: the first fetch that reads the flag clears it.
StartWorkClearing(f) ==
    /\ step[f] = "answered"
    /\ step' = [step EXCEPT ![f] = "working"]
    /\ trust' = [trust EXCEPT ![f] = ~skip]
    /\ skip' = FALSE
    /\ UNCHANGED <<saved, read, task, card, failures, crossed>>

\* The answer has come: it is used unless the flag is up at this moment.
StartWork(f) ==
    /\ step[f] = "answered"
    /\ step' = [step EXCEPT ![f] = "working"]
    /\ trust' = [trust EXCEPT ![f] = ~skip]
    /\ UNCHANGED <<skip, saved, read, task, card, failures, crossed>>

-----------------------------------------------------------------------------
(* One show *)

\* Mutant: a search that finds nothing keeps its place.
SearchingHeld(f) == {s \in Show : task[f][s].at \in {"search", "over"}}

\* The places that are taken (searchTMDBWithRetry calls finish when it is through).
Searching(f) == {s \in Show : task[f][s].at = "search"}

\* fetchTMDBShowDetails with a card in the saved list: no search, and no details.
FromCache(f, s) ==
    /\ At(f, s, "waiting") /\ trust[f] /\ read[f][s] # "none"
    /\ card' = [card EXCEPT ![f][s] = read[f][s]]
    /\ Moves(f, s, [at |-> "count", tries |-> 0])
    /\ UNCHANGED <<skip, saved, step, read, trust, failures, crossed>>

\* partNext begins the next search when one of the places is free.
StartSearch(f, s) ==
    /\ At(f, s, "waiting") /\ ~(trust[f] /\ read[f][s] # "none")
    /\ Cardinality(Searching(f)) < AtATime
    /\ Moves(f, s, [at |-> "search", tries |-> Attempts])
    /\ UNCHANGED <<skip, saved, step, read, trust, card, failures, crossed>>

\* A search finds a verified card; or the attempts are over and the best guess,
\* which may be another show's card, or nothing is left.  The place is given
\* back before the details are there.
Found(f, s) ==
    /\ At(f, s, "search")
    /\ \/ card' = [card EXCEPT ![f][s] = "right"] /\ Moves(f, s, [at |-> "details", tries |-> 0])
       \/ task[f][s].tries <= 1 /\ card' = card /\ Moves(f, s, [at |-> "over", tries |-> 0])
    /\ UNCHANGED <<skip, saved, step, read, trust, failures, crossed>>

\* Mutant: no title need be left.
NextAttemptPastTheLast(f, s) ==
    /\ At(f, s, "search")
    /\ Moves(f, s, [at |-> "search", tries |-> task[f][s].tries - 1])
    /\ UNCHANGED <<skip, saved, step, read, trust, card, failures, crossed>>

\* Nothing found, or an error: the next title or the same one without its year.
NextAttempt(f, s) ==
    /\ At(f, s, "search") /\ task[f][s].tries > 1
    /\ Moves(f, s, [at |-> "search", tries |-> task[f][s].tries - 1])
    /\ UNCHANGED <<skip, saved, step, read, trust, card, failures, crossed>>

\* The details come; or the request fails, and nobody is told.
Details(f, s) ==
    /\ At(f, s, "details")
    /\ \/ Moves(f, s, [at |-> "count", tries |-> 0]) /\ UNCHANGED failures
       \/ Moves(f, s, [at |-> "over", tries |-> 0]) /\ UNCHANGED failures  \* no seasons in them
       \/ Moves(f, s, [at |-> "lost", tries |-> 0]) /\ Fails
    /\ UNCHANGED <<skip, saved, step, read, trust, card, crossed>>

\* shows.GetById counts the episodes.  Without an answer a card just found is
\* reported bare; one from the saved list is not reported at all.
Count(f, s) ==
    /\ At(f, s, "count")
    /\ \/ Moves(f, s, [at |-> "over", tries |-> 0]) /\ UNCHANGED failures
       \/ /\ Fails
          /\ Moves(f, s, [at |-> IF trust[f] /\ read[f][s] # "none" THEN "lost" ELSE "over", tries |-> 0])
    /\ UNCHANGED <<skip, saved, step, read, trust, card, crossed>>

-----------------------------------------------------------------------------
(* The whole list *)

\* Lampa.Status has a report of every show: the list is saved.
Complete(f) ==
    /\ step[f] = "working"
    /\ \A s \in Show : task[f][s].at = "over"
    /\ step' = [step EXCEPT ![f] = "saving"]
    /\ UNCHANGED <<skip, saved, read, trust, task, card, failures, crossed>>

\* The list is saved; from now on saved lists are trusted again.
SaveDone(f) ==
    /\ step[f] = "saving"
    /\ step' = [step EXCEPT ![f] = "over"]
    /\ \/ /\ saved' = card[f] /\ skip' = FALSE
          /\ crossed' = IF skip THEN crossed \cup {g \in Fetch : step[g] = "answered"} ELSE crossed
          /\ UNCHANGED failures
       \/ Fails /\ UNCHANGED <<saved, skip, crossed>>
    /\ UNCHANGED <<read, trust, task, card>>

ShowStep(f, s) ==
    FromCache(f, s) \/ StartSearch(f, s) \/ Found(f, s) \/ NextAttempt(f, s) \/ Details(f, s) \/ Count(f, s)

FetchStep(f) ==
    \/ ReadAnswered(f) \/ StartWork(f) \/ Complete(f) \/ SaveDone(f)
    \/ \E s \in Show : ShowStep(f, s)

Next == \E f \in Fetch : Begin(f) \/ FetchStep(f)

Spec == Init /\ [][Next]_vars

\* Requests end, by an answer or by their timeout.
FairSpec == Spec /\ \A f \in Fetch : WF_vars(FetchStep(f))

-----------------------------------------------------------------------------

Lost(f) == \E s \in Show : task[f][s].at = "lost"

\* A wrong card of the old list does not come back once the list was saved
\* without it, however many fetches run side by side; unless the storage had
\* answered a fetch with the old list just before the flag was cleared, and
\* that fetch saves it, or has saved it for others to read.
KeepsRightCards ==
    \A s \in Show : saved[s] = "right" /\ saved'[s] = "wrong"
        => skip \/ \E f \in crossed : step[f] \in {"saving", "over"}

OldCardsStayOut == [][KeepsRightCards]_vars

\* A fetch comes to its end, whatever is not found, unless a show was lost: no
\* search waits for a place that is never given back.
Ended(f) == step[f] = "over" \/ Lost(f)
FetchEnds == \A f \in Fetch : step[f] = "reading" ~> Ended(f)

\* Violated by the code: the list is complete when every show has been handled
\* (3029), also when a request for one of them fails.
FetchAlwaysEnds == \A f \in Fetch : step[f] = "reading" ~> step[f] = "over"

\* Violated by the code: the old list is not trusted again before a list made
\* without it is saved (3046).
OldCardsNeverReturn ==
    [][\A s \in Show : saved[s] = "right" /\ saved'[s] = "wrong" => skip]_vars

=============================================================================
