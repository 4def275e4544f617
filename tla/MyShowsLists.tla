---------------------------- MODULE MyShowsLists ----------------------------
(***************************************************************************)
(* The lists "want to watch", "history" and "dropped" of src/plugins/      *)
(* myshows.js: fetched from MyShows for the active profile (its shows,     *)
(* then its movies), put into the order of the session, completed by a     *)
(* card found on TMDB for each item, shown, and, in a profile that uses    *)
(* the server of this repository, saved there for the next time.           *)
(***************************************************************************)
EXTENDS Naturals

CONSTANTS
    Id,           \* MyShows numbers its shows and its movies apart
    Profile, List,
    Attempts,     \* searches for one item: its titles, with and without the year
    MaxEvents,    \* (bound) changes of the data and of the profile
    MaxAsks,      \* (bound) lists asked for
    MaxFailures   \* (bound) requests that fail

VARIABLES
    npServer,     \* useNpServer(): lists are kept on the server
    account,      \* account[p][i]: what MyShows says of item i for profile p
    profile,
    shuffled,     \* cachedShuffledItems: a set of at most one order of the items, per list
    cards,        \* _tmdbCardCache, by number alone: the kind of the item it was found for
    saved,        \* saved[p][l]: the list on the server
    jobs,         \* lists being fetched
    delivered,    \* what the component got last, per list, a set of at most one
    events, asks, failures,
    had,          \* (history) had[p][l]: the items that list of that profile ever had
    missed        \* (history) the ways to save something else that were taken

vars == <<npServer, account, profile, shuffled, cards, saved, jobs, delivered, events, asks,
          failures, had, missed>>

Item == {"show", "movie"} \X Id
Status == {"none", "later", "watching", "finished", "cancelled"}
Kinds == {"show", "movie", "guess", "none"}

\* What each list takes: shows by their status, movies wanted or seen.
WatchlistItems(p) == {i \in Item : account[p][i] = "later"}
WatchedItems(p) == {i \in Item : account[p][i] \in {"watching", "finished"}}
CancelledItems(p) == {i \in Item : i[1] = "show" /\ account[p][i] = "cancelled"}

ItemsOf(l, p) ==
    CASE l = "watchlist" -> WatchlistItems(p)
      [] l = "watched"   -> WatchedItems(p)
      [] l = "cancelled" -> CancelledItems(p)

Results == [of : Item, card : Kinds]

\* by: the profile when the list was asked for.  from: the account the request on
\* its way was sent for.
Jobs == [list : List, by : Profile, from : Profile, stage : {"cache", "shows", "movies", "details"},
         items : SUBSET Item, open : [Item -> 0..Attempts], guessed : SUBSET Item, results : SUBSET Results]

TypeOK ==
    /\ npServer \in BOOLEAN
    /\ account \in [Profile -> [Item -> Status]]
    /\ profile \in Profile
    /\ shuffled \in [List -> SUBSET SUBSET Item] /\ \A l \in List : \A o, q \in shuffled[l] : o = q
    /\ cards \in [Id -> Kinds]
    /\ saved \in [Profile -> [List -> SUBSET Results]]
    /\ \A j \in jobs : j \in Jobs
    /\ \A l \in List : delivered[l] \subseteq SUBSET Results
    /\ events \in 0..MaxEvents /\ asks \in 0..MaxAsks /\ failures \in 0..MaxFailures
    /\ missed \subseteq {"switched", "namesake"}

Ever(p, acc) == [l \in List |-> had[p][l] \cup
    {i \in Item : \/ l = "watchlist" /\ acc[i] = "later"
                  \/ l = "watched" /\ acc[i] \in {"watching", "finished"}
                  \/ l = "cancelled" /\ acc[i] = "cancelled"}]

Init ==
    /\ npServer \in BOOLEAN
    /\ account = [p \in Profile |-> [i \in Item |-> "none"]]
    /\ profile \in Profile
    /\ shuffled = [l \in List |-> {}]
    /\ cards = [n \in Id |-> "none"]
    /\ saved = [p \in Profile |-> [l \in List |-> {}]]
    /\ jobs = {} /\ delivered = [l \in List |-> {}]
    /\ events = 0 /\ asks = 0 /\ failures = 0
    /\ had = [p \in Profile |-> [l \in List |-> {}]] /\ missed = {}

Happens == events < MaxEvents /\ events' = events + 1
Fails == failures < MaxFailures /\ failures' = failures + 1

-----------------------------------------------------------------------------
(* Fetching a list *)

Job(l) == [list |-> l, by |-> profile, from |-> profile, stage |-> "shows", items |-> {},
           open |-> [i \in Item |-> 0], guessed |-> {}, results |-> {}]

\* A list that is kept on the server is read from there first, unless it is to be
\* brought up to date (the pass a few seconds after the start).
Ask(l, forceRefresh) ==
    /\ asks < MaxAsks /\ asks' = asks + 1
    /\ jobs' = jobs \cup {[Job(l) EXCEPT !.stage = IF npServer /\ ~forceRefresh THEN "cache" ELSE "shows"]}
    /\ UNCHANGED <<npServer, account, profile, shuffled, cards, saved, delivered, events, failures, had, missed>>

Replace(j, k) == jobs' = (jobs \ {j}) \cup {k}

\* What is saved is shown as it is; an empty list is fetched, for the profile that
\* is active by now.
CacheAnswers(j) ==
    /\ j.stage = "cache"
    /\ IF saved[j.by][j.list] # {}
       THEN /\ delivered' = [delivered EXCEPT ![j.list] = {saved[j.by][j.list]}]
            /\ jobs' = jobs \ {j}
       ELSE /\ UNCHANGED delivered
            /\ Replace(j, [j EXCEPT !.stage = "shows", !.from = profile])
    /\ UNCHANGED <<npServer, account, profile, shuffled, cards, saved, events, asks, failures, had, missed>>

CacheFails(j) ==
    /\ Fails /\ j.stage = "cache"
    /\ Replace(j, [j EXCEPT !.stage = "shows", !.from = profile])
    /\ UNCHANGED <<npServer, account, profile, shuffled, cards, saved, delivered, events, asks, had, missed>>

\* With nothing left to search for the list is complete, and saved as it is, also
\* when it is empty.
Continue(j, k) ==
    IF \A i \in Item : k.open[i] = 0
    THEN /\ jobs' = jobs \ {j}
         /\ delivered' = [delivered EXCEPT ![j.list] = {k.results}]
         /\ saved' = IF npServer THEN [saved EXCEPT ![j.by][j.list] = k.results] ELSE saved
    ELSE Replace(j, k) /\ UNCHANGED <<saved, delivered>>

\* The first fetch of the session sets the order, and the items, of the later ones.
\* Items whose number has a card need no search.
Enrich(j, items) ==
    LET ordered == IF shuffled[j.list] = {} THEN items ELSE CHOOSE s \in shuffled[j.list] : TRUE
        known == {i \in ordered : cards[i[2]] # "none"}
    IN /\ shuffled' = [shuffled EXCEPT ![j.list] = {ordered}]
       /\ missed' = missed \cup (IF \E i \in known : cards[i[2]] \notin {i[1], "guess"} THEN {"namesake"} ELSE {})
       /\ Continue(j, [j EXCEPT !.stage = "details", !.items = ordered,
                                !.open = [i \in Item |-> IF i \in ordered \ known THEN Attempts ELSE 0],
                                !.results = {[of |-> i, card |-> cards[i[2]]] : i \in known}])

\* A request that fails reads as an account without shows, or without movies.
ShowsAnswer(j, ok) ==
    /\ j.stage = "shows"
    /\ IF ok THEN UNCHANGED failures ELSE Fails
    /\ LET shows == IF ok THEN {i \in ItemsOf(j.list, j.from) : i[1] = "show"} ELSE {} IN
       IF j.list = "cancelled" THEN Enrich(j, shows)
       ELSE /\ Replace(j, [j EXCEPT !.stage = "movies", !.items = shows, !.from = profile])
            /\ UNCHANGED <<shuffled, saved, delivered, missed>>
    /\ UNCHANGED <<npServer, account, profile, cards, events, asks, had>>

MoviesAnswer(j, ok) ==
    /\ j.stage = "movies"
    /\ IF ok THEN UNCHANGED failures ELSE Fails
    /\ Enrich(j, j.items \cup (IF ok THEN {i \in ItemsOf(j.list, j.from) : i[1] = "movie"} ELSE {}))
    /\ UNCHANGED <<npServer, account, profile, cards, events, asks, had>>

\* acceptResult: the item has its card, and so has its number from now on.
Accept(j, i, card) ==
    /\ cards' = [cards EXCEPT ![i[2]] = card]
    /\ Continue(j, [j EXCEPT !.open[i] = 0, !.results = @ \cup {[of |-> i, card |-> card]}])

\* A result whose title and year fit.
SearchMatches(j, i) ==
    /\ j.stage = "details" /\ j.open[i] > 0
    /\ Accept(j, i, i[1])
    /\ UNCHANGED <<npServer, account, profile, shuffled, events, asks, failures, had, missed>>

\* Mutant: an item that was not found is forgotten, and not counted as done.
SearchMissesQuietly(j, i, other) ==
    /\ j.stage = "details" /\ j.open[i] > 0
    /\ LET k == [j EXCEPT !.guessed = IF other THEN @ \cup {i} ELSE @] IN
       IF j.open[i] > 1 THEN Replace(j, [k EXCEPT !.open[i] = @ - 1]) /\ UNCHANGED <<cards, saved, delivered>>
       ELSE IF i \in k.guessed THEN Accept(j, i, "guess")
       ELSE Replace(j, [j EXCEPT !.open[i] = 0]) /\ UNCHANGED <<cards, saved, delivered>>
    /\ UNCHANGED <<npServer, account, profile, shuffled, events, asks, failures, had, missed>>

\* Other results, none, or an error: the next attempt, and after the last one the
\* first result there was, or no card at all.
SearchMisses(j, i, other) ==
    /\ j.stage = "details" /\ j.open[i] > 0
    /\ LET k == [j EXCEPT !.guessed = IF other THEN @ \cup {i} ELSE @] IN
       IF j.open[i] > 1 THEN Replace(j, [k EXCEPT !.open[i] = @ - 1]) /\ UNCHANGED <<cards, saved, delivered>>
       ELSE IF i \in k.guessed THEN Accept(j, i, "guess")
       ELSE Continue(j, [j EXCEPT !.open[i] = 0]) /\ UNCHANGED cards
    /\ UNCHANGED <<npServer, account, profile, shuffled, events, asks, failures, had, missed>>

\* myshows_cache_days are over.
CardExpires(n) ==
    /\ Happens /\ cards[n] # "none"
    /\ cards' = [cards EXCEPT ![n] = "none"]
    /\ UNCHANGED <<npServer, account, profile, shuffled, saved, jobs, delivered, asks, failures, had, missed>>

-----------------------------------------------------------------------------
(* The account and the profile *)

Becomes(p, i, s) ==
    /\ s # account[p][i] /\ (i[1] = "movie" => s \in {"none", "later", "finished"})
    /\ account' = [account EXCEPT ![p][i] = s]
    /\ had' = [had EXCEPT ![p] = Ever(p, account'[p])]

\* A status set on the card forgets the order of the session; one set on the
\* website does not.
SetStatus(i, s) ==
    /\ Happens /\ Becomes(profile, i, s)
    /\ shuffled' = [l \in List |-> {}]
    /\ UNCHANGED <<npServer, profile, cards, saved, jobs, delivered, asks, failures, missed>>

StatusElsewhere(p, i, s) ==
    /\ Happens /\ Becomes(p, i, s)
    /\ UNCHANGED <<npServer, profile, shuffled, cards, saved, jobs, delivered, asks, failures, missed>>

\* Mutant: the order of the session outlives the profile.
SwitchProfileKeeping(p) ==
    /\ Happens /\ p # profile
    /\ profile' = p
    /\ missed' = missed \cup (IF jobs # {} THEN {"switched"} ELSE {})
    /\ UNCHANGED <<npServer, account, shuffled, cards, saved, jobs, delivered, asks, failures, had>>

\* handleProfileChange; a list on its way goes on, with the account of the new
\* profile, and sets the order of its session.
SwitchProfile(p) ==
    /\ Happens /\ p # profile
    /\ profile' = p
    /\ shuffled' = [l \in List |-> {}]
    /\ missed' = missed \cup (IF jobs # {} THEN {"switched"} ELSE {})
    /\ UNCHANGED <<npServer, account, cards, saved, jobs, delivered, asks, failures, had>>

-----------------------------------------------------------------------------

Answers ==
    \E j \in jobs :
        \/ CacheAnswers(j) \/ ShowsAnswer(j, TRUE) \/ MoviesAnswer(j, TRUE)
        \/ \E i \in Item : SearchMatches(j, i) \/ \E other \in BOOLEAN : SearchMisses(j, i, other)

Next ==
    \/ \E l \in List, force \in BOOLEAN : Ask(l, force)
    \/ Answers
    \/ \E j \in jobs : CacheFails(j) \/ ShowsAnswer(j, FALSE) \/ MoviesAnswer(j, FALSE)
    \/ \E n \in Id : CardExpires(n)
    \/ \E i \in Item, s \in Status : SetStatus(i, s) \/ \E p \in Profile : StatusElsewhere(p, i, s)
    \/ \E p \in Profile : SwitchProfile(p)

Spec == Init /\ [][Next]_vars

\* Every request is answered in the end.
FairSpec == Spec /\ WF_vars(Answers)

-----------------------------------------------------------------------------

\* A list that is saved for a profile holds nothing its account never had in that
\* list, unless the profile was switched while a list was being fetched.
SavedListsAreOwn ==
    "switched" \notin missed =>
        \A p \in Profile, l \in List : {r.of : r \in saved[p][l]} \subseteq had[p][l]

\* A list that was asked for comes in the end, however its searches go.
ListsCome == <>[](jobs = {})

\* Violated by the code: a list that is saved is not lost to a request that fails.
FailuresKeepLists ==
    [][\A p \in Profile, l \in List :
         saved[p][l] # {} /\ saved'[p][l] = {} => \E q \in Profile : account[q] # account'[q]]_vars

\* Violated by the code: the card of an item is of its kind, or a guess.
CardsAreOfTheirKind ==
    \A l \in List : \A rs \in delivered[l] : \A r \in rs : r.card \in {r.of[1], "guess"}

=============================================================================
