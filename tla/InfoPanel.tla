------------------------------ MODULE InfoPanel ------------------------------
(***************************************************************************)
(* The panel about the card in focus on the start page (InfoPanel of       *)
(* src/plugins/int.js): details, title or logo, and reactions, each from a *)
(* cache or by a request of its own, while the focus moves on and cards    *)
(* that come into view warm the same caches.                               *)
(***************************************************************************)
EXTENDS Naturals, FiniteSets

CONSTANTS
    Card,
    Foreign,      \* cards of a source whose details are not asked for
    MaxMoves      \* (bound) moves of the focus, resets, cards that come into view

VARIABLES
    focused,      \* the card of the last update
    render,       \* lastRenderId
    details,      \* the card whose details the panel shows
    current,      \* currentUrl
    timer,        \* the 300 ms before details are asked for
    asking,       \* the request for details under way; a new one clears it
    info,         \* globalInfoCache
    title,        \* the card, and whether its logo has taken the place of its text
    entry,        \* the cache of logo links
    logos,        \* requests for links and images of logos, with the render that asked
    reactions,    \* the card whose reactions are shown
    known,        \* globalReactionsCache
    counts,       \* requests for reactions
    moves,
    ways          \* (history) the ways to show another card's, named below, that were taken

vars == <<focused, render, details, current, timer, asking, info, title, entry, logos, reactions,
          known, counts, moves, ways>>

None == "none"
Renders == 0..MaxMoves
Asked == [card : Card, render : Renders]

TypeOK ==
    /\ {focused, details, current, reactions} \subseteq Card \cup {None}
    /\ render \in Renders /\ moves \in 0..MaxMoves
    /\ timer \subseteq Card /\ Cardinality(timer) <= 1
    /\ asking \subseteq Card /\ Cardinality(asking) <= 1
    /\ info \subseteq Card /\ known \subseteq Card
    /\ title \in [card : Card \cup {None}, logo : BOOLEAN]
    /\ entry \in [Card -> {"unknown", "absent", "link"}]
    /\ logos \subseteq [card : Card, render : Renders, stage : {"link", "image"}]
    /\ counts \subseteq Asked
    /\ ways \subseteq {"foreign", "reset", "failed"}

Init ==
    /\ focused = None /\ render = 0 /\ details = None /\ current = None
    /\ timer = {} /\ asking = {} /\ info = {}
    /\ title = [card |-> None, logo |-> FALSE]
    /\ entry = [c \in Card |-> "unknown"] /\ logos = {}
    /\ reactions = None /\ known = {} /\ counts = {}
    /\ moves = 0 /\ ways = {}

Move == moves < MaxMoves /\ moves' = moves + 1

-----------------------------------------------------------------------------
(* A card comes into focus *)

\* load: from the cache, or after a while; a card of another source asks for nothing and
\* leaves currentUrl as it was.
Load(c) ==
    /\ current' = IF c \in Foreign THEN current ELSE c
    /\ details' = IF c \in info \ Foreign THEN c ELSE None
    /\ timer' = IF c \in info \cup Foreign THEN timer ELSE {c}

\* showLogo: the link may be known, known to be absent, or has to be asked for.
ShowLogo(c) ==
    /\ title' = [card |-> c, logo |-> FALSE]
    /\ logos' = logos \cup
         (IF entry[c] = "absent" THEN {}
          ELSE {[card |-> c, render |-> render + 1,
                 stage |-> IF entry[c] = "link" THEN "image" ELSE "link"]})

LoadReactions(c) ==
    /\ reactions' = IF c \in known THEN c ELSE None
    /\ counts' = IF c \in known THEN counts ELSE counts \cup {[card |-> c, render |-> render + 1]}

\* update, by focus, hover, touch or the row that becomes active.
Update(c) ==
    /\ Move
    /\ focused' = c /\ render' = render + 1
    /\ Load(c) /\ ShowLogo(c) /\ LoadReactions(c)
    /\ UNCHANGED <<asking, info, entry, known, ways>>

\* The row is left by its "more", or destroyed: the details go, the rest stays.
Reset ==
    /\ Move /\ details' = None /\ focused' = None
    /\ UNCHANGED <<render, current, timer, asking, info, title, entry, logos, reactions, known,
                   counts, ways>>

-----------------------------------------------------------------------------
(* Details *)

AskDetails(c) ==
    /\ c \in timer /\ timer' = {}
    /\ asking' = {c}
    /\ UNCHANGED <<focused, render, details, current, info, title, entry, logos, reactions, known,
                   counts, moves, ways>>

\* Mutant: details are drawn whatever has been asked for since.
GotAnyDetails(c) ==
    /\ c \in asking /\ asking' = {}
    /\ info' = info \cup {c}
    /\ details' = c
    /\ ways' = ways
    /\ UNCHANGED <<focused, render, current, timer, title, entry, logos, reactions, known, counts, moves>>

\* Drawn when no other card's have been asked for since.
GotDetails(c) ==
    /\ c \in asking /\ asking' = {}
    /\ info' = info \cup {c}
    /\ details' = IF current = c THEN c ELSE details
    /\ ways' = IF current # c \/ focused = c THEN ways
               ELSE ways \cup {IF focused = None THEN "reset" ELSE "foreign"}
    /\ UNCHANGED <<focused, render, current, timer, title, entry, logos, reactions, known, counts, moves>>

DetailsFail ==
    /\ asking # {} /\ asking' = {}
    /\ ways' = ways \cup {"failed"}
    /\ UNCHANGED <<focused, render, details, current, timer, info, title, entry, logos, reactions,
                   known, counts, moves>>

-----------------------------------------------------------------------------
(* Title and reactions *)

Links == {"absent", "link"}

\* resolveLogoUrl: the link is remembered, and its image wanted if the render is the same.
GotLink(r, link) ==
    /\ r \in logos /\ r.stage = "link"
    /\ entry' = [entry EXCEPT ![r.card] = link]
    /\ logos' = (logos \ {r}) \cup
          (IF link = "link" /\ r.render = render THEN {[r EXCEPT !.stage = "image"]} ELSE {})
    /\ UNCHANGED <<focused, render, details, current, timer, asking, info, title, reactions, known,
                   counts, moves, ways>>

\* The image of a logo takes the place of the text of the render that wanted it.
GotLogo(r) ==
    /\ r \in logos /\ r.stage = "image" /\ logos' = logos \ {r}
    /\ title' = IF r.render = render THEN [card |-> r.card, logo |-> TRUE] ELSE title
    /\ UNCHANGED <<focused, render, details, current, timer, asking, info, entry, reactions, known,
                   counts, moves, ways>>

\* A link whose image does not load is forgotten for good, but only while it is wanted.
LogoFails(r) ==
    /\ r \in logos /\ r.stage = "image" /\ logos' = logos \ {r}
    /\ entry' = IF r.render = render THEN [entry EXCEPT ![r.card] = "absent"] ELSE entry
    /\ UNCHANGED <<focused, render, details, current, timer, asking, info, title, reactions, known,
                   counts, moves, ways>>

GotReactions(r) ==
    /\ r \in counts /\ counts' = counts \ {r}
    /\ reactions' = IF r.render = render THEN r.card ELSE reactions
    /\ UNCHANGED <<focused, render, details, current, timer, asking, info, title, entry, logos, known,
                   moves, ways>>

\* A card comes into view: preloadData, preloadLogo and preloadReactions fill the caches
\* that are not filled, each when its own answer comes.
Preload(c) ==
    /\ Move
    /\ \/ info' = info \cup {c} /\ UNCHANGED <<entry, known>>
       \/ \E link \in Links : entry[c] = "unknown" /\ entry' = [entry EXCEPT ![c] = link]
                              /\ UNCHANGED <<info, known>>
       \/ known' = known \cup {c} /\ UNCHANGED <<info, entry>>
    /\ UNCHANGED <<focused, render, details, current, timer, asking, title, logos, reactions, counts,
                   ways>>

Next ==
    \/ \E c \in Card : Update(c) \/ AskDetails(c) \/ GotDetails(c) \/ Preload(c)
    \/ Reset \/ DetailsFail
    \/ \E r \in logos : GotLogo(r) \/ LogoFails(r) \/ \E link \in Links : GotLink(r, link)
    \/ \E r \in counts : GotReactions(r)

Spec == Init /\ [][Next]_vars

-----------------------------------------------------------------------------
(* Properties *)

\* The panel never shows the details, the logo or the reactions of another card than the
\* one in focus, however late an answer comes (load, loadReactions, showLogo), unless that
\* card is of a source without details or the row was left while details were on their way;
\* and once nothing is on its way it does show the details.
PanelIsOfFocus ==
    /\ focused # None =>
          /\ title.card = focused
          /\ reactions \in {focused, None}
          /\ ways \cap {"foreign", "reset"} = {} => details \in {focused, None}
    /\ (focused \in Card \ Foreign /\ timer = {} /\ asking = {} /\ ways = {}) => details = focused
=============================================================================
