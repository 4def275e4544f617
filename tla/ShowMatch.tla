------------------------------- MODULE ShowMatch -------------------------------
(***************************************************************************)
(* How the MyShows plugin finds the entry of the service that a card is    *)
(* (src/plugins/myshows.js), to set its status: a show by its IMDb number, *)
(* its Kinopoisk number, then by titles; a film by its title.  Several     *)
(* entries of one title are told apart by the date of the card that is     *)
(* open when the answer comes.  The entry of a show in the cached list is  *)
(* looked for by another rule.  A title is the set of its words, of which  *)
(* the comparison keeps the Latin ones.                                    *)
(***************************************************************************)
EXTENDS Naturals, Sequences, FiniteSets

CONSTANTS
    Card,         \* TMDB cards: id, kind, title, alts, english, year, date, imdb, kp
    Catalog,      \* the service: a sequence of id, kind, title, year, date, imdb, kp, of
    Lists,        \* lists that may be cached: sequences of entry and id (0: no TMDB card yet)
    Latin, Han,   \* words of letters a-z; words in Asian scripts
    None,         \* no entry
    MaxChains,    \* (bound) searches under way
    MaxMoves      \* (bound) cards opened and searches begun

VARIABLES
    open,         \* the card that is open
    chains,       \* searches under way: the card, the request it waits for, its choice so far
    checked,      \* checkedMovies and the cached status: films that need no mark any more
    pairs,        \* statuses set, at the service and by npSetStatus: of which card, in which entry
    list,         \* the cached list of unwatched shows
    counted,      \* what was counted down in it, of which card
    moves

vars == <<open, chains, checked, pairs, list, counted, moves>>

Entry == {Catalog[i] : i \in DOMAIN Catalog}
Pair == [card : Card, entry : Entry, blind : BOOLEAN]
Steps == {"imdb", "kp", "alt", "english", "title", "set"}

TypeOK ==
    /\ open \in Card
    /\ \A ch \in chains : /\ ch.card \in Card /\ ch.step \in Steps /\ ch.i \in Nat
                          /\ ch.found \in Entry \cup {None} /\ ch.blind \in BOOLEAN
    /\ checked \subseteq Card
    /\ pairs \subseteq Pair
    /\ list \in Lists
    /\ counted \subseteq [card : Card, entry : Entry]
    /\ moves \in 0..MaxMoves

Init ==
    /\ open \in Card /\ list \in Lists
    /\ chains = {} /\ checked = {} /\ pairs = {} /\ counted = {} /\ moves = 0

-----------------------------------------------------------------------------
(* The comparisons *)

\* normalizeForComparison: of another alphabet nothing is left.
Norm(title) == title \cap Latin

\* isAsianContent
Asian(title) == title \cap Han # {}

\* Years may differ by one, and what has no year may be any.
Near(a, b) == a = 0 \/ b = 0 \/ (a <= b + 1 /\ b <= a + 1)

\* The first of the places is of s.
First(s, is) == s[CHOOSE i \in is : \A j \in is : i <= j]

\* getMediaCandidates, of an answer of the catalogue: their places in it.
Candidates(kind, title, year) ==
    {i \in DOMAIN Catalog : /\ Catalog[i].kind = kind /\ Norm(Catalog[i].title) = Norm(title)
                            /\ Near(Catalog[i].year, year)}

OfTheDay(cands) == {i \in cands : Catalog[i].date # 0 /\ Catalog[i].date = open.date}

\* Mutant: several films of one title are not told apart.
FirstMovie(cands) == First(Catalog, cands)

\* getBestMovieCandidate: none, unless it came out on the day of the open card.
BestMovie(cands) ==
    IF open.kind # "movie" \/ OfTheDay(cands) = {} THEN None ELSE First(Catalog, OfTheDay(cands))

\* getBestShowCandidate: the first, unless one began on that day.
BestShow(cands) == First(Catalog, IF OfTheDay(cands) = {} THEN cands ELSE OfTheDay(cands))

Picked(kind, title, year) ==
    LET cands == Candidates(kind, title, year) IN
    CASE cands = {}                        -> None
      [] cands # {} /\ \A i, j \in cands : i = j -> First(Catalog, cands)
      [] OTHER -> IF kind = "movie" THEN BestMovie(cands) ELSE BestShow(cands)

\* getShowIdByImdbId: the entry of the number has to bear the name; of one in an
\* Asian script, one of the other names; the year counts only for the others.
ImdbFits(c, e) ==
    IF Asian(c.title) THEN \E i \in DOMAIN c.alts : Norm(c.alts[i]) = Norm(e.title)
    ELSE /\ Norm(c.title) \subseteq Norm(e.title) \/ Norm(e.title) \subseteq Norm(c.title)
         /\ Near(e.year, c.year)

ByNumber(number, of, fits) ==
    LET is == {i \in DOMAIN Catalog : /\ Catalog[i].kind = "tv" /\ Catalog[i] \in fits
                                      /\ number # 0 /\ of[Catalog[i]] = number}
    IN IF is = {} THEN None ELSE First(Catalog, is)

\* matchShowInArray: by the TMDB card, else by name and year.
matchShowInArray(items, c) ==
    LET byId == {i \in DOMAIN items : items[i].id = c.id}
        byName == {i \in DOMAIN items :
                     /\ items[i].entry.title = c.title
                     /\ c.year # 0 /\ items[i].entry.year # 0 /\ Near(items[i].entry.year, c.year)}
    IN CASE byId # {} -> First(items, byId).entry
         [] byId = {} /\ byName # {} -> First(items, byName).entry
         [] OTHER -> None

-----------------------------------------------------------------------------
(* The steps of a search *)

Chain(c, step) == [card |-> c, step |-> step, i |-> 1, found |-> None, blind |-> FALSE]

\* getShowIdByExternalIds, handleAsianContent, tryAlternativeTitles,
\* tryEnglishTitleFallback: what is asked when ch found nothing.
After(ch) ==
    CASE ch.step = "imdb" -> {[ch EXCEPT !.step = "kp"]}
      [] ch.step = "kp" /\ ~Asian(ch.card.title) -> {[ch EXCEPT !.step = "title"]}
      [] ch.step = "kp" /\ Asian(ch.card.title) ->
            {[ch EXCEPT !.step = IF ch.card.alts # <<>> THEN "alt" ELSE "english"]}
      [] ch.step = "alt" -> {IF ch.i < Len(ch.card.alts) THEN [ch EXCEPT !.i = @ + 1]
                             ELSE [ch EXCEPT !.step = "english"]}
      [] ch.step = "english" -> {[ch EXCEPT !.step = "title"]}
      [] ch.step = "title" -> {}

\* What the answer to the request of ch leads to.
Found(ch) ==
    LET c == ch.card IN
    CASE ch.step = "imdb"    -> ByNumber(c.imdb, [e \in Entry |-> e.imdb], {e \in Entry : ImdbFits(c, e)})
      [] ch.step = "kp"      -> ByNumber(c.kp, [e \in Entry |-> e.kp], Entry)
      [] ch.step = "alt"     -> Picked("tv", c.alts[ch.i], c.year)
      [] ch.step = "english" -> IF c.english = {} THEN None ELSE Picked("tv", c.english, c.year)
      [] ch.step = "title"   -> Picked(c.kind, c.title, c.year)

Search(ch) ==
    /\ ch.step # "set"
    /\ chains' = (chains \ {ch}) \cup
         (IF Found(ch) = None THEN After(ch)
          ELSE {[ch EXCEPT !.step = "set", !.found = Found(ch), !.blind = open # ch.card]})
    /\ UNCHANGED <<open, checked, pairs, list, counted, moves>>

\* A request that fails has found nothing.
SearchFails(ch) ==
    /\ ch.step # "set"
    /\ chains' = (chains \ {ch}) \cup After(ch)
    /\ UNCHANGED <<open, checked, pairs, list, counted, moves>>

\* manage.SetShowStatus, manage.SetMovieStatus; then npSetStatus.
StatusSet(ch) ==
    /\ ch.step = "set"
    /\ chains' = chains \ {ch}
    /\ pairs' = pairs \cup {[card |-> ch.card, entry |-> ch.found, blind |-> ch.blind]}
    /\ checked' = IF ch.card.kind = "movie" THEN checked \cup {ch.card} ELSE checked
    /\ UNCHANGED <<open, list, counted, moves>>

StatusFails(ch) ==
    /\ ch.step = "set"
    /\ chains' = chains \ {ch}
    /\ UNCHANGED <<open, checked, pairs, list, counted, moves>>

-----------------------------------------------------------------------------
(* The viewer *)

Move == moves < MaxMoves /\ moves' = moves + 1

Open(c) ==
    /\ Move /\ c # open /\ open' = c
    /\ UNCHANGED <<chains, checked, pairs, list, counted>>

Begins(step) ==
    /\ Move /\ Cardinality(chains) < MaxChains
    /\ chains' = chains \cup {Chain(open, step)}
    /\ UNCHANGED <<open, checked, pairs, list, counted>>

\* processTimelineUpdate: a film has been watched.
WatchMovie == open.kind = "movie" /\ open \notin checked /\ Begins("title")

\* setMyShowsStatus, by a button of the card or by a watched episode.
SetShow == open.kind = "tv" /\ Begins("imdb")

\* applyEpisodeMarkLocally: the count of the open show goes down.
CountDown ==
    LET e == matchShowInArray(list, open) IN
    /\ open.kind = "tv" /\ e # None
    /\ counted' = counted \cup {[card |-> open, entry |-> e]}
    /\ UNCHANGED <<open, chains, checked, pairs, list, moves>>

Next ==
    \/ \E c \in Card : Open(c)
    \/ WatchMovie \/ SetShow \/ CountDown
    \/ \E ch \in chains : Search(ch) \/ SearchFails(ch) \/ StatusSet(ch) \/ StatusFails(ch)

Spec == Init /\ [][Next]_vars

-----------------------------------------------------------------------------

Own(c, e) == e.of = c.id

\* A name of the card, as the searches compare it, is borne by e in its years.
Namesake(c, e) ==
    /\ e.kind = c.kind /\ Near(e.year, c.year)
    /\ \E t \in {c.title, c.english} \cup {c.alts[i] : i \in DOMAIN c.alts} : Norm(t) = Norm(e.title)

\* The service knows the card by its title and day, and no namesake has that day.
Known(c) ==
    /\ c.date # 0
    /\ \E e \in Entry : /\ Own(c, e) /\ e.kind = c.kind /\ Norm(e.title) = Norm(c.title)
                        /\ e.date = c.date /\ Near(e.year, c.year)
    /\ \A e \in Entry : Namesake(c, e) /\ ~Own(c, e) => e.date # c.date /\ ~Asian(c.title)

\* Of a card the service knows, the status is set in its own entry, whichever of the
\* searches fail, as long as it stays open; and an episode is counted down at its own
\* show if that one's card is known.
FoundIsOwn ==
    /\ \A p \in pairs : Known(p.card) /\ ~p.blind => Own(p.card, p.entry)
    /\ \A p \in counted : (\E i \in DOMAIN list : list[i].id = p.card.id) => Own(p.card, p.entry)

\* Violated by the code (myshows.js:2128): what is found by a title bears it.  Titles
\* in other alphabets are all compared as empty.
FoundBearsTheTitle ==
    \A p \in pairs : p.card.kind = "movie" => p.entry.title = p.card.title

=============================================================================
