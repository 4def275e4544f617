---------------------------- MODULE AccountImport ----------------------------
(***************************************************************************)
(* The MyShows plugin imports what an account has watched into the profile *)
(* of the player (src/plugins/myshows.js, syncMyShows): the movies and the *)
(* shows of the account are listed, each is searched for in TMDB one after *)
(* the other, and at the end all the timecodes are saved in one request    *)
(* and the cards go to the history.                                        *)
(***************************************************************************)
EXTENDS Naturals

CONSTANTS
    Movie, Serial,    \* what an account may have watched
    Profile, None,
    MaxImports,       \* (bound) imports that are started
    MaxSwitches       \* (bound) changes of the profile

Item == Movie \cup Serial

VARIABLES
    watched,      \* watched[p]: the account of profile p, which does not change meanwhile
    info,         \* info[i]: what MyShows knows of i that steers its search
    profile,      \* the current profile
    stage,        \* where the import is
    todo,         \* items the stage has still to handle
    shows,        \* shows with watched episodes
    cur,          \* the item that is searched for, or None
    search,       \* the request of the search that is under way
    timecodes,    \* allTimecodes
    cards,        \* cardsToAdd, which outlives the import
    base,         \* base[p]: timecodes of profile p on the server
    history,      \* history[p]: cards in its history
    syncing,      \* syncInProgress
    imports, switches,
    unsaved       \* (history) cards of imports that ended before their timecodes were saved

account == <<watched, info, profile, switches>>
work == <<todo, shows, cur, search, timecodes, cards>>
results == <<base, history, unsaved>>
vars == <<account, stage, work, results, syncing, imports>>

\* Whether an IMDb number is known, how many titles there are, and whether shows.GetById
\* lists an episode that was watched.
Info == [imdb : BOOLEAN, titles : 1..2, listed : BOOLEAN]
Stages == {"idle", "movieList", "movies", "showList", "details", "shows", "save", "finish", "reload", "over"}
Requests == [at : {"imdb", "title", "card"}, title : 1..2, year : {"own", "none"}]
NoSearch == [at |-> "card", title |-> 1, year |-> "none"]

TypeOK ==
    /\ watched \in [Profile -> SUBSET Item]
    /\ info \in [Item -> Info]
    /\ profile \in Profile
    /\ stage \in Stages
    /\ todo \subseteq Item /\ shows \subseteq Serial
    /\ cur \in Item \cup {None}
    /\ search \in Requests
    /\ timecodes \subseteq Item /\ cards \subseteq Item
    /\ base \in [Profile -> SUBSET Item]
    /\ history \in [Profile -> SUBSET Item]
    /\ syncing \in BOOLEAN
    /\ imports \in 0..MaxImports /\ switches \in 0..MaxSwitches
    /\ unsaved \subseteq Item

\* A movie has no episodes that could be missing.
Init ==
    /\ watched \in [Profile -> SUBSET Item]
    /\ info \in {f \in [Item -> Info] : \A m \in Movie : f[m].listed}
    /\ profile \in Profile
    /\ stage = "idle" /\ todo = {} /\ shows = {}
    /\ cur = None /\ search = NoSearch
    /\ timecodes = {} /\ cards = {}
    /\ base = [p \in Profile |-> {}] /\ history = [p \in Profile |-> {}]
    /\ syncing = FALSE
    /\ imports = 0 /\ switches = 0 /\ unsaved = {}

Goto(s, items) == stage' = s /\ todo' = items

-----------------------------------------------------------------------------
(* The lists of the account *)

\* The button of the settings; nothing is forgotten but the timecodes.  (The code lets a
\* second import start next to one that runs; here one follows the other.)
syncMyShows ==
    /\ stage \in {"idle", "over"} /\ imports < MaxImports
    /\ imports' = imports + 1
    /\ Goto("movieList", {})
    /\ syncing' = TRUE
    /\ timecodes' = {} /\ shows' = {}
    /\ UNCHANGED <<account, cur, search, cards, results>>

\* profile.WatchedMovies of the profile that is current now; an error ends the import.
WatchedMovies ==
    /\ stage = "movieList"
    /\ \/ Goto("movies", watched[profile] \cap Movie)
       \/ Goto("over", {})
    /\ UNCHANGED <<account, shows, cur, search, timecodes, cards, results, syncing, imports>>

\* profile.Shows: every show the account follows, watched or not.
WatchedShows ==
    /\ stage = "showList"
    /\ \/ Goto("details", Serial) /\ UNCHANGED unsaved
       \/ Goto("shows", {}) /\ UNCHANGED unsaved
       \/ Goto("over", {}) /\ unsaved' = unsaved \cup cards
    /\ UNCHANGED <<account, shows, cur, search, timecodes, cards, base, history, syncing, imports>>

\* Mutant: a show is taken whether an episode of it was watched or not.
ShowDetailsAnyway(s) ==
    /\ stage = "details" /\ s \in todo
    /\ todo' = todo \ {s}
    /\ shows' = shows \cup {s}
    /\ UNCHANGED <<account, stage, cur, search, timecodes, cards, results, syncing, imports>>

\* shows.GetById and profile.Episodes; a show with an error or without a watched
\* episode is left out.
ShowDetails(s) ==
    /\ stage = "details" /\ s \in todo
    /\ todo' = todo \ {s}
    /\ shows' \in {shows, IF s \in watched[profile] THEN shows \cup {s} ELSE shows}
    /\ UNCHANGED <<account, stage, cur, search, timecodes, cards, results, syncing, imports>>

ListDone ==
    /\ cur = None /\ todo = {}
    /\ \/ stage = "movies" /\ Goto("showList", {})
       \/ stage = "details" /\ Goto("shows", shows)
       \/ stage = "shows" /\ timecodes # {} /\ Goto("save", {})
       \/ stage = "shows" /\ timecodes = {} /\ Goto("finish", {})
    /\ UNCHANGED <<account, shows, cur, search, timecodes, cards, results, syncing, imports>>

-----------------------------------------------------------------------------
(* One item: findTMDBId, getTMDBCard *)

Searches == stage \in {"movies", "shows"} /\ cur # None
Asks(r) == search' = r /\ UNCHANGED <<todo, cur, timecodes, cards>>
Title(t, y) == [at |-> "title", title |-> t, year |-> y]

\* The first request for a title: with the year, if there is one.
AsksFirst(t) == \E y \in {"own", "none"} : search' = Title(t, y)

StartItem(i) ==
    /\ stage \in {"movies", "shows"} /\ cur = None /\ i \in todo
    /\ cur' = i /\ todo' = todo \ {i}
    /\ IF info[i].imdb THEN search' = [NoSearch EXCEPT !.at = "imdb"] ELSE AsksFirst(1)
    /\ UNCHANGED <<account, stage, shows, timecodes, cards, results, syncing, imports>>

\* Results of any request but an empty one lead to a card: an exact title, the
\* only one, or the first of the list.
SearchFinds ==
    /\ Searches /\ search.at # "card"
    /\ Asks(NoSearch)
    /\ UNCHANGED <<account, stage, shows, results, syncing, imports>>

\* The next title, or no id: the hash in its place is not a number, and the
\* request for the card is refused.
NextQuery ==
    /\ IF search.title < info[cur].titles
       THEN AsksFirst(search.title + 1) /\ UNCHANGED cur
       ELSE search' = NoSearch /\ cur' = None
    /\ UNCHANGED <<todo, timecodes, cards>>

\* Mutant: an error repeats the request.
SearchFailsAgain ==
    /\ Searches /\ search.at # "card"
    /\ Asks(IF search.year = "own" THEN [search EXCEPT !.year = "none"] ELSE [search EXCEPT !.year = "own"])
    /\ UNCHANGED <<account, stage, shows, results, syncing, imports>>

\* An empty answer or an error: the title without its year, or the next title.  (The search
\* with the year of the first episode, 6498, needs an argument that the import does not pass.)
SearchFails ==
    /\ Searches /\ search.at # "card"
    /\ IF search.at = "imdb" THEN AsksFirst(1) /\ UNCHANGED <<todo, cur, timecodes, cards>>
       ELSE IF search.year = "own" THEN Asks(Title(search.title, "none"))
       ELSE NextQuery
    /\ UNCHANGED <<account, stage, shows, results, syncing, imports>>

\* The card, or none: it waits for its place in the history, and the timecodes of what was
\* watched for the save.  A show whose episodes are not listed has a card and no timecodes.
CardArrives ==
    /\ Searches /\ search.at = "card"
    /\ cur' = None
    /\ \/ /\ cards' = cards \cup {cur}
          /\ timecodes' = IF info[cur].listed THEN timecodes \cup {cur} ELSE timecodes
       \/ UNCHANGED <<timecodes, cards>>
    /\ UNCHANGED <<account, stage, todo, shows, search, results, syncing, imports>>

-----------------------------------------------------------------------------
(* The end *)

\* Mutant: the cards are added although the timecodes were refused.
SaveTimecodesAnyway ==
    /\ stage = "save"
    /\ \/ base' = [base EXCEPT ![profile] = @ \cup timecodes]
       \/ base' = base
    /\ Goto("finish", {})
    /\ UNCHANGED <<account, shows, cur, search, timecodes, cards, history, unsaved, syncing, imports>>

\* syncTimecodesToDatabase, under the profile that is current now.
SaveTimecodes ==
    /\ stage = "save"
    /\ \/ Goto("finish", {}) /\ base' = [base EXCEPT ![profile] = @ \cup timecodes] /\ UNCHANGED unsaved
       \/ Goto("over", {}) /\ unsaved' = unsaved \cup cards /\ UNCHANGED base
    /\ UNCHANGED <<account, shows, cur, search, timecodes, cards, history, syncing, imports>>

\* addAllCardsAtOnce, and the two lists are fetched for the caches; the player
\* is restarted if something was saved.
Finish ==
    /\ stage = "finish"
    /\ history' = [history EXCEPT ![profile] = @ \cup cards]
    /\ Goto(IF timecodes # {} THEN "reload" ELSE "over", {})
    /\ UNCHANGED <<account, shows, cur, search, timecodes, cards, base, unsaved, syncing, imports>>

Reload ==
    /\ stage = "reload"
    /\ Goto("idle", {})
    /\ syncing' = FALSE /\ cards' = {} /\ timecodes' = {}
    /\ UNCHANGED <<account, shows, cur, search, results, imports>>

\* The viewer changes the profile; the import goes on.
SwitchProfile(p) ==
    /\ p # profile /\ switches < MaxSwitches
    /\ profile' = p /\ switches' = switches + 1
    /\ UNCHANGED <<watched, info, stage, work, results, syncing, imports>>

Answer ==
    \/ WatchedMovies \/ WatchedShows \/ ListDone
    \/ \E s \in Serial : ShowDetails(s)
    \/ \E i \in Item : StartItem(i)
    \/ SearchFinds \/ SearchFails \/ CardArrives
    \/ SaveTimecodes \/ Finish \/ Reload

Next ==
    \/ syncMyShows
    \/ Answer
    \/ \E p \in Profile : SwitchProfile(p)

Spec == Init /\ [][Next]_vars

\* Requests end, by an answer, by an error or by their timeout.
FairSpec == Spec /\ WF_vars(Answer)

-----------------------------------------------------------------------------

\* Nothing enters the timecodes of a profile but what its account has watched,
\* if the profile was not changed on the way.
SavedIsWatched == switches = 0 => \A p \in Profile : base[p] \subseteq watched[p]

\* Shows whose watched episodes are not listed: there is nothing to save for them.
Bare == {i \in Item : ~info[i].listed}

\* A card is in the history only with its timecode on the server, also after an
\* import that failed and was repeated; unless there was no timecode to save, or an
\* earlier import left its cards behind when it ended with an error.
HistoryAfterSave ==
    switches = 0 => \A p \in Profile : history[p] \subseteq base[p] \cup unsaved \cup Bare

\* An import ends, whatever is not found and whichever requests fail.
Ended == stage \in {"idle", "over"}
ImportEnds == stage = "movieList" ~> Ended

=============================================================================
