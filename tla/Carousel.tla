------------------------------ MODULE Carousel ------------------------------
(***************************************************************************)
(* The catalogue of the web client in its "hero" layout (src/web/src/pages *)
(* /CatalogPage.tsx): one row is on screen, the arrows, the wheel and a    *)
(* swipe go to the next category, and a category known to have nothing to  *)
(* show is stepped over.  What is known comes from the rows that were      *)
(* loaded on screen or fetched ahead, whose answers arrive late and in any *)
(* order.  Of a list of cards only whether it is empty is kept; what is in *)
(* it, and the switch of the profile, are in CatalogRows.                  *)
(***************************************************************************)
EXTENDS Naturals, Sequences, FiniteSets, Functions

CONSTANTS
    Category,
    Lists,        \* the lists the menu's order and hidden categories can give, in sequences
    NoRow,        \* no row is on screen
    Live,         \* the categories whose cards change while the catalogue is open
    AHEAD,        \* how many rows are fetched ahead
    MaxEvents,    \* (bound) changes of the lists, failures
    MaxMoves      \* (bound) what the user does

VARIABLES
    has,          \* what the server would list: the categories with a card
    cats,         \* categories, in the order shown
    cached,       \* _cache.rows: "none", "full" or "empty" of each category
    stale,        \* the entries marked stale
    emptyIds,
    active,       \* activeCategoryIndex, from 1
    place,        \* the page is open ("here") or another one is ("away")
    row, items,   \* the row on screen; "none" while it loads, "full", "empty", "error"
    fetches, prefetching,
    events, moves,
    crossed       \* (history) a list changed, or was asked for in vain, in a way the page cannot know

vars == <<has, cats, cached, stale, emptyIds, active, place, row, items, fetches, prefetching,
          events, moves, crossed>>

Kinds == {"full", "empty"}
\* alive: the row that asked is still on screen.
Fetches == [why : {"load", "ahead"}, cat : Category, alive : BOOLEAN, got : {"none"} \cup Kinds]

TypeOK ==
    /\ has \subseteq Category
    /\ cats \in Seq(Category) /\ IsInjective(cats)
    /\ cached \in [Category -> {"none"} \cup Kinds]
    /\ stale \subseteq Category /\ emptyIds \subseteq Category
    /\ active \in 1..Cardinality(Category)
    /\ place \in {"here", "away"}
    /\ row \in Category \cup {NoRow} /\ items \in {"none", "error"} \cup Kinds
    /\ fetches \subseteq Fetches /\ prefetching \subseteq Category
    /\ events \in 0..MaxEvents /\ moves \in 0..MaxMoves
    /\ crossed \in BOOLEAN

Kind(c) == IF c \in has THEN "full" ELSE "empty"
Ask(why, c) == [why |-> why, cat |-> c, alive |-> why = "load", got |-> "none"]
Fresh(c) == cached[c] # "none" /\ c \notin stale

\* nextVisibleIndex, ahead and back: 0 if everything there is known to be empty.
First(js) == IF js = {} THEN 0 ELSE CHOOSE j \in js : TRUE
Next1(cs, i, known) ==
    First({j \in (i+1)..Len(cs) : cs[j] \notin known /\ \A k \in (i+1)..(j-1) : cs[k] \in known})
Prev1(cs, i, known) ==
    First({j \in 1..(i-1) : cs[j] \notin known /\ \A k \in (j+1)..(i-1) : cs[k] \in known})

\* The row drawn: none when the page is away or every category is known to be empty.
Drawn ==
    IF place' = "here" /\ active' <= Len(cats') /\ \E i \in DOMAIN cats' : cats'[i] \notin emptyIds'
    THEN cats'[active'] ELSE NoRow

\* The page after a change: the row stays, with the list given and with what it
\* has asked for, or another one comes on screen, which shows what is cached and
\* loads what is not or is stale.
Draw(list, asks) ==
    /\ row' = Drawn
    /\ items' = IF Drawn = row THEN list ELSE IF Drawn = NoRow THEN "none" ELSE cached'[Drawn]
    /\ fetches' =
         IF Drawn = row THEN asks
         ELSE {[f EXCEPT !.alive = FALSE] : f \in asks} \cup
              (IF Drawn # NoRow /\ (cached'[Drawn] = "none" \/ Drawn \in stale')
               THEN {Ask("load", Drawn)} ELSE {})

\* The rows behind and before the one on screen, fetched when the row changes.
Wanted == {cats'[j] : j \in {i \in DOMAIN cats' : i + 1 = active' \/ i \in (active'+1)..(active'+AHEAD)}}
ToFetch == {c \in Wanted : ~Fresh(c) /\ c \notin prefetching}
Prefetched(asks) == asks \cup {Ask("ahead", c) : c \in ToFetch}

Init ==
    /\ has \in SUBSET Category
    /\ cats \in Lists
    /\ cached = [c \in Category |-> "none"] /\ stale = {} /\ emptyIds = {}
    /\ active = 1 /\ place = "away" /\ row = NoRow /\ items = "none"
    /\ fetches = {} /\ prefetching = {}
    /\ events = 0 /\ moves = 0 /\ crossed = FALSE

Move == moves < MaxMoves /\ moves' = moves + 1
Happens == events < MaxEvents /\ events' = events + 1

-----------------------------------------------------------------------------
(* The user *)

\* The page is opened: it knows as empty what is cached as empty and not stale.
Open ==
    /\ Move /\ place = "away"
    /\ place' = "here"
    /\ emptyIds' = {c \in Category : cached[c] = "empty" /\ c \notin stale}
    /\ UNCHANGED <<has, cats, cached, stale, active, events, crossed>>
    /\ Draw(items, Prefetched(fetches))
    /\ prefetching' = prefetching \cup ToFetch

Leave ==
    /\ Move /\ place = "here"
    /\ place' = "away"
    /\ UNCHANGED <<has, cats, cached, stale, emptyIds, active, prefetching, events, crossed>>
    /\ Draw(items, fetches)

\* The row on screen becomes the i-th; the rows around it are fetched.
Go(i) ==
    /\ active' = i
    /\ UNCHANGED <<has, cats, cached, stale, place, events, crossed>>
    /\ Draw(items, IF i = active THEN fetches ELSE Prefetched(fetches))
    /\ prefetching' = prefetching \cup (IF i = active THEN {} ELSE ToFetch)

switchCategory(dir) ==
    LET next == IF dir = 1 THEN Next1(cats, active, emptyIds) ELSE Prev1(cats, active, emptyIds) IN
    /\ Move /\ row # NoRow
    /\ next # 0
    /\ emptyIds' = emptyIds
    /\ Go(next)

\* "Catalogue" in the menu: back to the first row, everything cached is stale.
BackToTop ==
    /\ Move /\ place = "here"
    /\ active' = 1 /\ stale' = {c \in Category : cached[c] # "none"}
    /\ UNCHANGED <<has, cats, cached, emptyIds, place, events, crossed>>
    /\ Draw(items, IF active = 1 THEN fetches ELSE Prefetched(fetches))
    /\ prefetching' = prefetching \cup (IF active = 1 THEN {} ELSE ToFetch)

\* Pulled down: everything cached is stale, the row on screen loads again.
Refresh ==
    /\ Move /\ row # NoRow
    /\ stale' = {c \in Category : cached[c] # "none"}
    /\ fetches' = fetches \cup {Ask("load", row)}
    /\ UNCHANGED <<has, cats, cached, emptyIds, active, place, row, items, prefetching, events, crossed>>

\* The order or the hidden categories change, here or elsewhere: the index is
\* brought back into the list.
Arrange(cs) ==
    /\ Move /\ cs # cats
    /\ cats' = cs
    /\ active' = IF cs # <<>> /\ active > Len(cs) THEN Len(cs) ELSE active
    /\ UNCHANGED <<has, cached, stale, emptyIds, place, events, crossed>>
    /\ IF place = "here"
       THEN /\ Draw(items, Prefetched(fetches)) /\ prefetching' = prefetching \cup ToFetch
       ELSE UNCHANGED <<row, items, fetches, prefetching>>

-----------------------------------------------------------------------------
(* Empty rows *)

\* The row on screen turned out to be empty: on to the next one that is not known
\* to be, or back to the one before.
handleEmptyCategory ==
    LET fwd == Next1(cats, active, emptyIds)
        back == Prev1(cats, active, emptyIds)
    IN
    /\ row # NoRow /\ items = "empty"
    /\ emptyIds' = emptyIds \cup {cats[active]}
    /\ moves' = moves
    /\ Go(IF fwd # 0 THEN fwd ELSE IF back # 0 THEN back ELSE active)

\* Mutant: a row once known to be empty stays so.
handleItemsLoadedAdding(c, kind) ==
    /\ cached' = [cached EXCEPT ![c] = kind]
    /\ stale' = stale \ {c}
    /\ emptyIds' = IF place = "here" /\ kind = "empty" THEN emptyIds \cup {c} ELSE emptyIds

\* The list of a row is known; a page that is closed only caches it.
handleItemsLoaded(c, kind) ==
    /\ cached' = [cached EXCEPT ![c] = kind]
    /\ stale' = stale \ {c}
    /\ emptyIds' = IF place = "away" THEN emptyIds
                   ELSE IF kind = "empty" THEN emptyIds \cup {c} ELSE emptyIds \ {c}

-----------------------------------------------------------------------------
(* Requests *)

Serve(f) ==
    /\ f.got = "none"
    /\ fetches' = (fetches \ {f}) \cup {[f EXCEPT !.got = Kind(f.cat)]}
    /\ UNCHANGED <<has, cats, cached, stale, emptyIds, active, place, row, items, prefetching,
                   events, moves, crossed>>

\* What was fetched ahead counts only if nothing fresh is cached by then.
Got(f) ==
    /\ f.got # "none"
    /\ IF f.why = "load" \/ ~Fresh(f.cat) THEN handleItemsLoaded(f.cat, f.got)
       ELSE UNCHANGED <<cached, stale, emptyIds>>
    /\ prefetching' = IF f.why = "ahead" THEN prefetching \ {f.cat} ELSE prefetching
    /\ UNCHANGED <<has, cats, active, place, events, moves, crossed>>
    /\ Draw(IF f.alive THEN f.got ELSE items, fetches \ {f})

\* A row that shows cards keeps them.
FetchFails(f) ==
    /\ Happens
    /\ fetches' = fetches \ {f}
    /\ items' = IF f.alive /\ items = "none" THEN "error" ELSE items
    /\ prefetching' = IF f.why = "ahead" THEN prefetching \ {f.cat} ELSE prefetching
    /\ crossed' = (crossed \/ cached[f.cat] # "none")
    /\ UNCHANGED <<has, cats, cached, stale, emptyIds, active, place, row, moves>>

-----------------------------------------------------------------------------
(* The lists change *)

Flipped(c) == IF c \in has THEN has \ {c} ELSE has \cup {c}

\* A message about a row on screen changes its list; another cached row is marked
\* stale.  One that is not cached has nothing to mark, and an answer under way
\* says what was before.
Message(c) ==
    /\ Happens /\ c \in Live
    /\ has' = Flipped(c)
    /\ IF row = c /\ items \in Kinds
       THEN handleItemsLoaded(c, IF c \in has THEN "empty" ELSE "full")
       ELSE /\ stale' = IF cached[c] # "none" THEN stale \cup {c} ELSE stale
            /\ UNCHANGED <<cached, emptyIds>>
    /\ crossed' = (crossed \/ \E f \in fetches : f.cat = c /\ f.got # "none")
    /\ UNCHANGED <<cats, active, place, prefetching, moves>>
    /\ Draw(IF row = c /\ items \in Kinds THEN cached'[c] ELSE items, fetches)

\* A change made on the page of a card: everything cached is marked stale.
ChangeThere(c) ==
    /\ Happens /\ place = "away"
    /\ has' = Flipped(c)
    /\ stale' = {d \in Category : cached[d] # "none"}
    /\ crossed' = (crossed \/ \E f \in fetches : f.cat = c /\ f.got # "none")
    /\ UNCHANGED <<cats, cached, emptyIds, active, place, row, items, fetches, prefetching, moves>>

-----------------------------------------------------------------------------

Next ==
    \/ Open \/ Leave \/ BackToTop \/ Refresh
    \/ \E dir \in {1, 2} : switchCategory(dir)
    \/ \E cs \in Lists : Arrange(cs)
    \/ handleEmptyCategory
    \/ \E f \in fetches : Serve(f) \/ Got(f) \/ FetchFails(f)
    \/ \E c \in Category : Message(c) \/ ChangeThere(c)

Spec == Init /\ [][Next]_vars

-----------------------------------------------------------------------------

\* When nothing is under way the page rests on a row with cards (or on one that
\* failed to load), and a category that is stepped over has none, unless its
\* cached row is marked stale; no answer from before a change arriving after its
\* message, and no reload having failed.
RestsOnCards ==
    place = "here" /\ fetches = {} /\ ~crossed =>
        /\ \A c \in emptyIds : c \in has => c \in stale
        /\ row # NoRow /\ items # "empty" => items = "error" \/ row \in has \cup stale

\* Violated by the code: "nothing to show" is said only when there is nothing.  A
\* row known to be empty is not asked for again until the user goes elsewhere.
NothingToShow ==
    place = "here" /\ fetches = {} /\ ~crossed /\ row = NoRow => \A i \in DOMAIN cats : cats[i] \notin has

=============================================================================
