------------------------------ MODULE PagedGrid ------------------------------
(***************************************************************************)
(* The lists of the web client that are loaded page by page: the grid of a *)
(* category and the search of CatalogPage, the grid and the search of      *)
(* MediaLibraryPage, HistoryPage, and the table of AllCardsPage.  Each has *)
(* a key (the filter, the query, the profile) that may change while a page *)
(* is on its way; they differ in what they do then, and in what becomes of *)
(* a page that failed.  All files are in src/web/src/pages.                *)
(***************************************************************************)
EXTENDS Naturals, Sequences, FiniteSets

CONSTANTS
    Key,          \* what a list may be a list of
    Last,         \* (bound) its pages
    MaxChanges    \* (bound) changes of the key

VARIABLES
    style,        \* which of the lists this is
    key,
    items,        \* the pages shown, each with the key it was asked for
    page, total,  \* pageRef (or page) and totalPages
    loading,      \* loadingRef (searchLoading of a search)
    asked,        \* requests under way
    changes,
    ways          \* (history) the ways to lose a page, named below, that were taken

vars == <<style, key, items, page, total, loading, asked, changes, ways>>

Styles == {"view", "library", "history", "search", "table"}
Page == [key : Key, page : 1..Last]
Request == [key : Key, page : 1..Last, reset : BOOLEAN]

TypeOK ==
    /\ style \in Styles /\ key \in Key
    /\ items \in Seq(Page)
    /\ page \in 0..Last /\ total \in 1..Last
    /\ loading \in BOOLEAN
    /\ asked \subseteq Request
    /\ changes \in 0..MaxChanges
    /\ ways \subseteq {"crossed", "failed"}

First(k) == [key |-> k, page |-> 1, reset |-> TRUE]
More(n) == [key |-> key, page |-> n, reset |-> style = "table"]

\* Before the first answer a list believes it has one page; the table begins on it.
Init ==
    /\ style \in Styles /\ key \in Key
    /\ items = <<>> /\ total = 1
    /\ page = IF style \in {"history", "search"} THEN 0 ELSE 1
    /\ asked = {First(key)} /\ loading = TRUE
    /\ changes = 0 /\ ways = {}

-----------------------------------------------------------------------------
(* The key changes *)

Changes(k) ==
    /\ changes < MaxChanges /\ changes' = changes + 1
    /\ k # key /\ key' = k

\* loadPage, load, doFetch: a page is asked for unless one is on its way.
AskFirst(k) ==
    /\ asked' = IF loading THEN asked ELSE {First(k)}
    /\ loading' = TRUE

Crossed == IF asked = {} THEN ways ELSE ways \cup {"crossed"}

\* Another search keeps the grid until the answer, another profile empties it.
ChangeView(k) ==
    /\ style = "view" /\ Changes(k) /\ AskFirst(k)
    /\ \E clear \in BOOLEAN : items' = IF clear THEN <<>> ELSE items
    /\ page' = 1
    /\ ways' = Crossed
    /\ UNCHANGED <<style, total>>

ChangeLibrary(k) ==
    /\ style = "library" /\ Changes(k) /\ AskFirst(k)
    /\ ways' = Crossed
    /\ UNCHANGED <<style, items, page, total>>

ChangeHistory(k) ==
    /\ style = "history" /\ Changes(k) /\ AskFirst(k)
    /\ items' = <<>> /\ page' = 0 /\ total' = 1
    /\ ways' = Crossed
    /\ UNCHANGED style

\* A search asks whatever is on its way, and shows the old results meanwhile.
ChangeSearch(k) ==
    /\ style = "search" /\ Changes(k)
    /\ asked' = asked \cup {First(k)} /\ loading' = TRUE
    /\ ways' = Crossed
    /\ UNCHANGED <<style, items, page, total>>

\* Mutant: the request for the former filter is left running.
ChangeTableKeeping(k) ==
    /\ style = "table" /\ Changes(k)
    /\ asked' = asked \cup {First(k)} /\ loading' = TRUE
    /\ page' = 1
    /\ UNCHANGED <<style, items, total, ways>>

\* The table aborts what is on its way.
ChangeTable(k) ==
    /\ style = "table" /\ Changes(k)
    /\ asked' = {First(k)} /\ loading' = TRUE
    /\ page' = 1
    /\ UNCHANGED <<style, items, total, ways>>

-----------------------------------------------------------------------------
(* Pages *)

\* Mutant: the end of the list is reached again while its next page is on its way.
ScrollTwice ==
    /\ style # "table" /\ page < total
    /\ asked' = asked \cup {More(page + 1)} /\ loading' = TRUE
    /\ page' = IF style = "view" THEN page + 1 ELSE page
    /\ UNCHANGED <<style, key, items, total, changes, ways>>

\* The end of the list comes into view: CategoryView counts the page as it asks,
\* the others when it has come.
Scroll ==
    /\ style # "table" /\ ~loading /\ page < total
    /\ asked' = asked \cup {More(page + 1)} /\ loading' = TRUE
    /\ page' = IF style = "view" THEN page + 1 ELSE page
    /\ UNCHANGED <<style, key, items, total, changes, ways>>

TurnPage ==
    /\ style = "table"
    /\ \E n \in 1..total : n # page /\ page' = n /\ asked' = {More(n)}
    /\ loading' = TRUE
    /\ UNCHANGED <<style, key, items, total, changes, ways>>

Shown(r) == [key |-> r.key, page |-> r.page]

\* An answer replaces the list or continues it; the page of the history drops one that
\* belongs to another filter.
Answer(r) ==
    /\ r \in asked
    /\ asked' = asked \ {r} /\ loading' = FALSE
    /\ IF style = "history" /\ r.key # key
       THEN UNCHANGED <<items, page, total>>
       ELSE /\ items' = IF r.reset THEN <<Shown(r)>> ELSE Append(items, Shown(r))
            /\ page' = IF style \in {"view", "table"} THEN page ELSE r.page
            /\ total' = Last
    /\ UNCHANGED <<style, key, changes, ways>>

\* A search that failed at its first page shows nothing; the others keep what they have.
Fail(r) ==
    /\ r \in asked
    /\ asked' = asked \ {r} /\ loading' = FALSE
    /\ items' = IF style = "search" /\ r.reset THEN <<>> ELSE items
    /\ ways' = IF r.reset \/ style = "view" THEN ways \cup {"failed"} ELSE ways
    /\ UNCHANGED <<style, key, page, total, changes>>

Next ==
    \/ \E k \in Key : ChangeView(k) \/ ChangeLibrary(k) \/ ChangeHistory(k) \/ ChangeSearch(k)
                         \/ ChangeTable(k)
    \/ Scroll \/ TurnPage
    \/ \E r \in asked : Answer(r) \/ Fail(r)

Spec == Init /\ [][Next]_vars

-----------------------------------------------------------------------------
(* Properties *)

FromTheFirst == \A i \in DOMAIN items : items[i].page = i
OfOneKey == \A i \in DOMAIN items : items[i].key = items[1].key

\* A list shows the pages of one key from the first on, none twice and none left out, also
\* after a page that failed and was asked for again (load, doFetch, loadSearchPage), unless
\* the key changed under a request or its first page failed; the history shows no page of
\* another filter, whatever happened (doFetch).
PagesFollow ==
    /\ style = "history" => \A i \in DOMAIN items : items[i].key = key
    /\ (style # "table" /\ ways = {}) => FromTheFirst /\ OfOneKey

\* When nothing is on its way and nothing failed, the list shown is that of the present
\* key; in the table also after changes under a request, which it aborts.
SettledListIsOfItsKey ==
    (asked = {} /\ ways = {}) => items # <<>> /\ \A i \in DOMAIN items : items[i].key = key

\* "When filters change -> reset + fetch page 1" (HistoryPage.tsx): when nothing is on its
\* way and nothing failed, the history shows what its filter finds.
HistoryShowsItsFilter ==
    (style = "history" /\ asked = {} /\ "failed" \notin ways) => items # <<>>
=============================================================================
