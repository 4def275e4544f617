---------------------------- MODULE UnwatchedLine ----------------------------
(***************************************************************************)
(* The MyShows plugin of the player (src/plugins/myshows.js): the line     *)
(* "Unwatched" of the main page and the marks on the poster of an open     *)
(* card, kept up to date without a reload.  Watching an episode, a status  *)
(* button, a return to the page and a background refresh each start a      *)
(* chain of requests and timers of its own; all of them read and write the *)
(* saved list, and add, mark and remove the same cards.                    *)
(*                                                                         *)
(* A list is a function from shows to the number of episodes left, zero    *)
(* for a show that is not in it.                                           *)
(***************************************************************************)
EXTENDS Naturals, Sequences, Bags

CONSTANTS
    Show,         \* shows the account may follow
    RowShow,      \* those with a card in a line above "Unwatched" as well
    Most,         \* episodes of a show
    Depth,        \* full cards open on top of each other
    None,
    MaxTries,     \* times addUnwatchedTraces reads the list again (6 in the code)
    MaxJobs,      \* (bound) what is under way when the viewer does something
    MaxEvents     \* (bound) what the viewer does, and requests that fail

VARIABLES
    account,      \* account[s]: episodes of s left in the account (lists.EpisodesUnwatched)
    saved,        \* unwatched_serials in the storage
    results,      \* line.data.results: the shows the line was built with
    line,         \* line[s]: the card of s in the line, or None
    row,          \* row[s]: the card of s in a line above, or None
    stack,        \* full cards that are open, the one on screen last
    poster,       \* poster[i]: the marks on the poster of stack[i]
    misplaced,    \* (history) marks of a card are put on the poster of another
    last,         \* myshows_last_card while myshows_was_watching, else None
    dirty,        \* _myShowsDirty
    jobs,         \* requests, reads of the storage and timers under way
    events,
    gone,         \* (history) shows that were out of the account's list, or of the first one
    behind        \* (history) shows whose last episode was counted off while some were left

posters == <<poster, misplaced>>
dom == <<line, row, posters>>
vars == <<account, saved, results, dom, stack, last, dirty, jobs, events, gone, behind>>

List == [Show -> 0..Most]
Left == 0..Most \cup {None}
Card == [left : Left, leaving : BOOLEAN]
Mark == [of : Show \cup {None}, left : Left]

Unmarked == [of |-> None, left |-> None]
In(list) == {s \in Show : list[s] > 0}
OnTop(s) == stack # <<>> /\ stack[Len(stack)] = s

TypeOK ==
    /\ account \in List /\ saved \in List
    /\ results \subseteq Show
    /\ \A s \in Show : {line[s], row[s]} \subseteq Card \cup {None}
    /\ stack \in Seq(Show) /\ Len(stack) <= Depth
    /\ poster \in Seq(Mark) /\ Len(poster) = Len(stack)
    /\ misplaced \in BOOLEAN
    /\ last \in Show \cup {None}
    /\ dirty \in BOOLEAN
    /\ IsABag(jobs)
    /\ events \in 0..MaxEvents
    /\ gone \subseteq Show /\ behind \subseteq Show

-----------------------------------------------------------------------------
(* Jobs *)

NoList == [s \in Show |-> 0]

Job(k, why, s, list) ==
    [kind |-> k, why |-> why, show |-> s, list |-> list, old |-> NoList, try |-> 0]

\* fetchFromMyShowsAPI, and what its callback goes on with; a refresh compares
\* the answer with the list the page was built from.
Fetch(why, s) == Job("fetch", why, s, NoList)
Refresh(list) == [Fetch("diff", None) EXCEPT !.old = list]
Save(list) == Job("save", "list", None, list)

\* loadCacheFromServer, and what its callback does with the list.
Look(why, s) == Job("look", why, s, NoList)

Pending(j) == BagIn(j, jobs)
Start(js) == jobs' = jobs (+) SetToBag(js)
GoesOn(j, js) == jobs' = (jobs (-) SetToBag({j})) (+) SetToBag(js)

Event == events < MaxEvents /\ events' = events + 1
Room == BagCardinality(jobs) < MaxJobs

-----------------------------------------------------------------------------
(* Cards and marks *)

Put(n) == [left |-> n, leaving |-> FALSE]

Marked(card, n) == IF card = None THEN None ELSE [card EXCEPT !.left = n]
Leaving(card) == IF card = None THEN None ELSE [card EXCEPT !.leaving = TRUE]
HasMark(card) == card # None /\ card.left # None

\* updateAllMyShowsCards: the cards of s in every line.
UpdateAllCards(s, n) ==
    /\ line' = [line EXCEPT ![s] = Marked(@, n)]
    /\ row' = [row EXCEPT ![s] = Marked(@, n)]

\* updateCompletedShowCard: the first card of s in the whole document that has
\* a mark is counted to the end and begins to leave.
CompletedRow(s) == IF HasMark(row[s]) THEN Leaving(Marked(row[s], 0)) ELSE row[s]
CompletedLine(s) ==
    IF ~HasMark(row[s]) /\ HasMark(line[s]) THEN Leaving(Marked(line[s], 0)) ELSE line[s]

CompleteCard(s) ==
    /\ row' = [row EXCEPT ![s] = CompletedRow(s)]
    /\ line' = [line EXCEPT ![s] = CompletedLine(s)]

\* insertViaLine: not if the line has a card of the show or was built with it.
Inserted(s, n) == IF line[s] = None /\ s \notin results THEN Put(n) ELSE line[s]

\* updateFullCardMarkers without an element of its own takes the first poster
\* of the document: that of the card opened first, which need not be s.
UpdatePoster(s, n) ==
    /\ poster' = IF poster = <<>> THEN poster ELSE [poster EXCEPT ![1] = [of |-> s, left |-> n]]
    /\ misplaced' = (misplaced \/ stack[1] # s)

\* completeFullCardMarkers: counted to the end, and removed after 1.6 seconds.
HasMarks == poster # <<>> /\ poster[1].left # None
CompletePoster ==
    /\ poster' = IF HasMarks THEN [poster EXCEPT ![1].left = 0] ELSE poster
    /\ UNCHANGED misplaced
MarksEnd == Job("marks", "end", None, NoList)
CompleteMarks == IF HasMarks THEN {MarksEnd} ELSE {}

\* Mutant: an answer for any card is taken for one of the open card.
IsAnyFullCardOpen(s) == stack # <<>>

IsSameFullCardOpen(s) == OnTop(s)

-----------------------------------------------------------------------------
(* The viewer, and the account on the site *)

GoneNow(list) == gone \cup {s \in Show : list[s] = 0}

\* An episode of the open card is watched and marked: the account knows it, and
\* applyEpisodeMarkLocally reads the list.
Watch(s) ==
    /\ Event /\ Room /\ OnTop(s)
    /\ account[s] > 0
    /\ account' = [account EXCEPT ![s] = @ - 1]
    /\ gone' = GoneNow(account')
    /\ last' = s
    /\ Start({Look("mark", s)})
    /\ UNCHANGED <<saved, results, dom, stack, dirty, behind>>

\* Marks, episodes and shows come and go on the site.
SiteChange(s, n) ==
    /\ Event /\ account[s] # n
    /\ account' = [account EXCEPT ![s] = n]
    /\ gone' = GoneNow(account')
    /\ UNCHANGED <<saved, results, dom, stack, last, dirty, jobs, behind>>

\* A card is opened; when its activity is complete the saved list is looked at
\* for the marks of its own poster.
OpenCard(s) ==
    /\ Event /\ Room /\ Len(stack) < Depth /\ ~OnTop(s)
    /\ stack' = Append(stack, s)
    /\ poster' = Append(poster, Unmarked)
    /\ Start({Look("open", s)})
    /\ UNCHANGED <<account, saved, results, line, row, misplaced, last, dirty, gone, behind>>

\* From the torrents back to the card: three seconds later the list is fetched.
ReturnToCard(s) ==
    /\ Event /\ Room /\ OnTop(s) /\ last # None
    /\ Start({Fetch("full", s)})
    /\ UNCHANGED <<account, saved, results, dom, stack, last, dirty, gone, behind>>

\* What a return to the page starts: the reconciliation if the composition of
\* the list has changed, and a fetch after watching or else one look.
Returns(s) ==
    (IF dirty THEN {Look("reconcile", None)} ELSE {})
      \cup (IF last # None THEN {Fetch("section", last)} ELSE {Look("cards", s)})

Back ==
    /\ stack # <<>>
    /\ stack' = SubSeq(stack, 1, Len(stack) - 1)
    /\ poster' = SubSeq(poster, 1, Len(poster) - 1)
    /\ LET rest == [j \in BagToSet(jobs) \ {MarksEnd} |-> jobs[j]]
       IN  IF Len(stack) = 1
           THEN /\ jobs' = rest (+) SetToBag(Returns(stack[1]))
                /\ dirty' = FALSE /\ last' = None
           ELSE jobs' = jobs /\ UNCHANGED <<dirty, last>>
    /\ UNCHANGED <<account, saved, results, line, row, misplaced, events, gone, behind>>

\* A status button of the open card: from "watching" to another status, or to it.
PressButton(s) ==
    /\ Event /\ Room /\ OnTop(s)
    /\ Start({Job("status", IF account[s] > 0 THEN "leave" ELSE "watch", s, NoList)})
    /\ UNCHANGED <<account, saved, results, dom, stack, last, dirty, gone, behind>>

-----------------------------------------------------------------------------
(* The service and the storage answer *)

\* removeUnwatchedTraces: the marks of the first poster and of every card go,
\* and the card of the line leaves.
RemoveTraces(s) ==
    /\ poster' = IF poster = <<>> THEN poster ELSE [poster EXCEPT ![1] = Unmarked]
    /\ UNCHANGED misplaced
    /\ row' = [row EXCEPT ![s] = Marked(@, None)]
    /\ line' = [line EXCEPT ![s] = Leaving(Marked(@, None))]

\* manage.SetShowStatus succeeds: the list is fetched anew, and the traces of
\* the show are removed or looked for.
StatusSet(j, n) ==
    /\ Pending(j) /\ j.kind = "status"
    /\ account' = [account EXCEPT ![j.show] = IF j.why = "leave" THEN 0 ELSE n]
    /\ j.why = "watch" => n > 0
    /\ gone' = GoneNow(account')
    /\ dirty' = TRUE
    /\ IF j.why = "leave"
       THEN /\ GoesOn(j, {Fetch("none", None)})
            /\ RemoveTraces(j.show)
       ELSE /\ GoesOn(j, {Fetch("none", None), Look("traces", j.show)})
            /\ UNCHANGED dom
    /\ UNCHANGED <<saved, results, stack, last, events, behind>>

StatusFails(j) ==
    /\ Pending(j) /\ j.kind = "status"
    /\ Event
    /\ GoesOn(j, {})
    /\ UNCHANGED <<account, saved, results, dom, stack, last, dirty, gone, behind>>

\* The service makes the list; getTMDBDetails takes its time after it.
Answer(j) ==
    /\ Pending(j) /\ j.kind = "fetch"
    /\ GoesOn(j, {[j EXCEPT !.kind = "answer", !.list = account]})
    /\ UNCHANGED <<account, saved, results, dom, stack, last, dirty, events, gone, behind>>

\* What the callback of a fetch goes on with; it does not wait for the save.
Follow(j) ==
    CASE j.why = "section" -> {Look("section", j.show)}
      [] j.why = "full" -> {Look("full", j.show)}
      [] OTHER -> {}

\* updateUIIfNeeded: shows new in the list are not inserted, those that left it
\* are completed, the others are marked.
Diff(old, new) ==
    LET Ends(s) == old[s] > 0 /\ new[s] = 0
        Changes(s) == new[s] > 0 /\ old[s] # new[s]
    IN  /\ line' = [s \in Show |-> IF Ends(s) THEN CompletedLine(s)
                                    ELSE IF Changes(s) THEN Marked(line[s], new[s]) ELSE line[s]]
        /\ row' = [s \in Show |-> IF Ends(s) THEN CompletedRow(s)
                                   ELSE IF Changes(s) /\ old[s] > 0 THEN Marked(row[s], new[s]) ELSE row[s]]

Arrive(j) ==
    /\ Pending(j) /\ j.kind = "answer"
    /\ GoesOn(j, {Save(j.list)} \cup Follow(j))
    /\ IF j.why = "diff" THEN Diff(j.old, j.list) ELSE UNCHANGED <<line, row>>
    /\ UNCHANGED <<account, saved, results, posters, stack, last, dirty, events, gone, behind>>

\* Mutant: a failed fetch counts as an empty list.
FetchFailsAsEmpty(j) ==
    /\ Pending(j) /\ j.kind = "fetch"
    /\ Event
    /\ GoesOn(j, Follow(j))
    /\ IF j.why = "diff" THEN Diff(j.old, NoList) ELSE UNCHANGED <<line, row>>
    /\ UNCHANGED <<account, saved, results, posters, stack, last, dirty, gone, behind>>

\* A fetch fails: its callback goes on all the same, with the list there is.
FetchFails(j) ==
    /\ Pending(j) /\ j.kind = "fetch"
    /\ Event
    /\ GoesOn(j, Follow(j))
    /\ UNCHANGED <<account, saved, results, dom, stack, last, dirty, gone, behind>>

Saved(j) ==
    /\ Pending(j) /\ j.kind = "save"
    /\ GoesOn(j, {})
    /\ saved' = j.list
    /\ UNCHANGED <<account, results, dom, stack, last, dirty, events, gone, behind>>

SaveFails(j) ==
    /\ Pending(j) /\ j.kind = "save"
    /\ Event
    /\ GoesOn(j, {})
    /\ UNCHANGED <<account, saved, results, dom, stack, last, dirty, gone, behind>>

-----------------------------------------------------------------------------
(* The saved list has been read.  n is what is left of show s in it. *)

Looks(j, why) == Pending(j) /\ j.kind = "look" /\ j.why = why

\* applyEpisodeMarkLocally: one episode fewer, saved again; the last one takes
\* the show out of the list and its card out of the line.
MarkLocally(j) ==
    LET s == j.show
        n == saved[s] - 1
        open == IsSameFullCardOpen(s)
    IN  /\ Looks(j, "mark")
        /\ IF saved[s] = 0
           THEN GoesOn(j, {}) /\ UNCHANGED <<dom, behind>>
           ELSE IF n = 0
           THEN /\ GoesOn(j, {Save([saved EXCEPT ![s] = 0])} \cup (IF open THEN CompleteMarks ELSE {}))
                /\ IF open THEN CompletePoster ELSE UNCHANGED posters
                /\ CompleteCard(s)
                /\ behind' = IF account[s] > 0 THEN behind \cup {s} ELSE behind
           ELSE /\ GoesOn(j, {Save([saved EXCEPT ![s] = n])})
                /\ IF open THEN UpdatePoster(s, n) ELSE UNCHANGED posters
                /\ UpdateAllCards(s, n)
                /\ UNCHANGED behind
        /\ UNCHANGED <<account, saved, results, stack, last, dirty, events, gone>>

\* The full card is complete: its own poster.
ShowMarks(j) ==
    LET s == j.show IN
    /\ Looks(j, "open")
    /\ GoesOn(j, {})
    /\ poster' = IF IsSameFullCardOpen(s) /\ saved[s] > 0
                 THEN [poster EXCEPT ![Len(poster)] = [of |-> s, left |-> saved[s]]] ELSE poster
    /\ UNCHANGED <<account, saved, results, line, row, misplaced, stack, last, dirty, events, gone, behind>>

\* refreshFullCardStatus after watching.
RefreshCard(j) ==
    LET s == j.show
        open == IsSameFullCardOpen(s)
    IN  /\ Looks(j, "full")
        /\ GoesOn(j, IF open /\ saved[s] = 0 THEN CompleteMarks ELSE {})
        /\ IF ~open THEN UNCHANGED posters
           ELSE IF saved[s] > 0 THEN UpdatePoster(s, saved[s]) ELSE CompletePoster
        /\ UNCHANGED <<account, saved, results, line, row, stack, last, dirty, events, gone, behind>>

\* The page after watching: the card is marked, inserted or completed.
RefreshSection(j) ==
    LET s == j.show IN
    /\ Looks(j, "section")
    /\ GoesOn(j, {})
    /\ IF saved[s] = 0 THEN CompleteCard(s)
       ELSE IF line[s] # None THEN UpdateAllCards(s, saved[s])
       ELSE line' = [line EXCEPT ![s] = Inserted(s, saved[s])] /\ UNCHANGED row
    /\ UNCHANGED <<account, saved, results, posters, stack, last, dirty, events, gone, behind>>

\* The page after a card was only looked at.
RefreshCards(j) ==
    LET s == j.show IN
    /\ Looks(j, "cards")
    /\ GoesOn(j, {})
    /\ IF saved[s] > 0 THEN UpdateAllCards(s, saved[s]) ELSE UNCHANGED <<line, row>>
    /\ UNCHANGED <<account, saved, results, posters, stack, last, dirty, events, gone, behind>>

\* addUnwatchedTraces: until the show is in the list, every two seconds.
AddTraces(j) ==
    LET s == j.show IN
    /\ Looks(j, "traces")
    /\ dirty' = TRUE
    /\ IF saved[s] > 0
       THEN /\ GoesOn(j, {})
            /\ IF IsSameFullCardOpen(s) THEN UpdatePoster(s, saved[s]) ELSE UNCHANGED posters
            /\ line' = [line EXCEPT ![s] = Marked(Inserted(s, saved[s]), saved[s])]
            /\ row' = [row EXCEPT ![s] = Marked(@, saved[s])]
       ELSE /\ GoesOn(j, IF j.try < MaxTries THEN {[j EXCEPT !.try = @ + 1]} ELSE {})
            /\ UNCHANGED dom
    /\ UNCHANGED <<account, saved, results, stack, last, events, gone, behind>>

\* reconcileMyShowsLine: cards of shows that are not in the list leave the line.
Reconcile(j) ==
    /\ Looks(j, "reconcile")
    /\ GoesOn(j, {})
    /\ line' = [s \in Show |-> IF saved[s] = 0 THEN Leaving(line[s]) ELSE line[s]]
    /\ UNCHANGED <<account, saved, results, row, posters, stack, last, dirty, events, gone, behind>>

-----------------------------------------------------------------------------
(* Timers *)

\* removeCompletedCard has faded a card out.
CardGone(s) ==
    /\ \/ line[s] # None /\ line[s].leaving /\ line' = [line EXCEPT ![s] = None] /\ UNCHANGED row
       \/ row[s] # None /\ row[s].leaving /\ row' = [row EXCEPT ![s] = None] /\ UNCHANGED line
    /\ UNCHANGED <<account, saved, results, posters, stack, last, dirty, jobs, events, gone, behind>>

\* The marks of a completed show leave the poster.
MarksGone ==
    /\ Pending(MarksEnd)
    /\ GoesOn(MarksEnd, {})
    /\ poster' = IF poster = <<>> THEN poster ELSE [poster EXCEPT ![1] = Unmarked]
    /\ UNCHANGED <<account, saved, results, line, row, misplaced, stack, last, dirty, events, gone, behind>>

-----------------------------------------------------------------------------

\* The page is built from the saved list, and the list is fetched in the background.
Init ==
    /\ account \in List /\ saved \in List
    /\ results = In(saved)
    /\ line = [s \in Show |-> IF saved[s] > 0 THEN Put(saved[s]) ELSE None]
    /\ row = [s \in Show |-> IF s \in RowShow THEN Put(None) ELSE None]
    /\ stack = <<>> /\ poster = <<>> /\ misplaced = FALSE
    /\ last = None /\ dirty = FALSE
    /\ jobs = SetToBag({Refresh(saved)})
    /\ events = 0
    /\ gone = {s \in Show : account[s] = 0 \/ saved[s] = 0}
    /\ behind = {}

Viewer ==
    \/ Back
    \/ \E s \in Show : \/ Watch(s) \/ OpenCard(s) \/ ReturnToCard(s) \/ PressButton(s)
                       \/ \E n \in 0..Most : SiteChange(s, n)

Proceed(j) ==
    \/ \E n \in 0..Most : StatusSet(j, n)
    \/ Answer(j) \/ Arrive(j) \/ Saved(j)
    \/ MarkLocally(j) \/ ShowMarks(j) \/ RefreshCard(j) \/ RefreshSection(j)
    \/ RefreshCards(j) \/ AddTraces(j) \/ Reconcile(j)

Fail(j) == StatusFails(j) \/ FetchFails(j) \/ SaveFails(j)

Next ==
    \/ Viewer
    \/ \E j \in BagToSet(jobs) : Proceed(j) \/ Fail(j)
    \/ \E s \in Show : CardGone(s)
    \/ MarksGone

Spec == Init /\ [][Next]_vars

-----------------------------------------------------------------------------

\* A card leaves the line only when its show was out of the account's list at
\* some moment since the page was built, or its episodes were counted off one
\* by one: never because a request failed or a list came late or twice.
OnlyGoneShowsLeave ==
    \A s \in Show : line[s] # None /\ line[s].leaving => s \in gone \cup behind

\* The poster of an open card shows marks of that card only, however late the answer for a
\* card that was open before; except that the marks of a card opened upon another may be
\* put on the poster of the first.
MarksOfOpenCard ==
    \A i \in DOMAIN poster : poster[i].of \in {None, stack[i]} \/ (i = 1 /\ misplaced)

\* Violated by the code: back on the page after watching, the line is brought
\* in agreement with fresh data (3979).  The read of the saved list does not
\* wait for the fresh one to be saved.
Settled ==
    /\ jobs = EmptyBag /\ stack = <<>>
    /\ \A s \in Show : line[s] # None => ~line[s].leaving

SettledLineIsCurrent ==
    Settled => \A s \in Show : line[s] # None => saved[s] > 0

=============================================================================
