--------------------------- MODULE BackgroundPanel ---------------------------
(***************************************************************************)
(* The background of the start page (src/plugins/int.js): the backdrop of  *)
(* the card in focus, cross-faded between two layers.  A backdrop may be   *)
(* on its way from a preload, come late, fail, or be evicted from the      *)
(* bounded cache of images; the focus moves on at any time.                *)
(***************************************************************************)
EXTENDS Naturals, Sequences, FiniteSets, Functions

CONSTANTS
    Card, Url,
    NoUrl,        \* a card without a picture
    Limit,        \* (bound) BACKDROP_CACHE_LIMIT
    MaxMoves      \* (bound) moves of the focus and preloads

VARIABLES
    backdrop,     \* the picture of each card
    focused,      \* the card of the last update
    last,         \* backgroundLast
    timer,        \* backgroundTimer: the card it is for
    pending,      \* _pendingImg while its handlers are set
    image,        \* the images of the preload cache
    cache,        \* its keys, oldest first
    layer,        \* bg1, bg2
    fading,       \* timers that take the former layer away
    moves,
    ways          \* (history) the ways to lose a background, named below, that were taken

vars == <<backdrop, focused, last, timer, pending, image, cache, layer, fading, moves, ways>>

Layers == 1..2
None == "none"

\* awaiting: the layer's own image is not drawn yet.
Layer == [src : Url \cup {NoUrl}, active : BOOLEAN, awaiting : BOOLEAN]

\* A fade takes 100 ms, a timer of the focus 50: due, one was set since the fade began;
\* half, one has fired.
Fade == [url : Url, of : Layers, due : BOOLEAN, half : BOOLEAN]

TypeOK ==
    /\ backdrop \in [Card -> Url \cup {NoUrl}]
    /\ focused \in Card \cup {None}
    /\ last \in Url \cup {NoUrl}
    /\ timer \in SUBSET Card /\ Cardinality(timer) <= 1
    /\ pending \in SUBSET Url /\ Cardinality(pending) <= 1
    /\ image \in [Url -> {"absent", "loading", "loaded", "failed"}]
    /\ cache \in Seq(Url) /\ IsInjective(cache)
    /\ layer \in [Layers -> Layer]
    /\ fading \in Seq(Fade)
    /\ moves \in 0..MaxMoves /\ ways \subseteq {"cut", "evicted", "again"}

Blank == [src |-> NoUrl, active |-> FALSE, awaiting |-> FALSE]

Init ==
    /\ backdrop \in [Card -> Url \cup {NoUrl}]
    /\ focused = None /\ last = NoUrl /\ timer = {} /\ pending = {}
    /\ image = [u \in Url |-> "absent"] /\ cache = <<>>
    /\ layer = [i \in Layers |-> Blank] /\ fading = <<>>
    /\ moves = 0 /\ ways = {}

Move == moves < MaxMoves /\ moves' = moves + 1

-----------------------------------------------------------------------------
(* The cache of images *)

Room == IF Len(cache) >= Limit THEN SubSeq(cache, Len(cache) - Limit + 2, Len(cache)) ELSE cache
Evicted == Range(cache) \ Range(Room)

\* preloadBackdrop: the oldest images lose their source and their handlers.
Preload(c) ==
    /\ Move
    /\ backdrop[c] # NoUrl /\ backdrop[c] \notin Range(cache)
    /\ cache' = Append(Room, backdrop[c])
    /\ image' = [u \in Url |-> IF u = backdrop[c] THEN "loading"
                               ELSE IF u \in Evicted THEN "absent" ELSE image[u]]
    /\ pending' = pending \ Evicted
    /\ ways' = IF pending \cap Evicted = {} THEN ways ELSE ways \cup {"evicted"}
    /\ UNCHANGED <<backdrop, focused, last, timer, layer, fading>>

-----------------------------------------------------------------------------
(* Showing *)

Next1 == IF layer[1].active THEN 2 ELSE 1
Other(i) == 3 - i
Begin(url, i) == [url |-> url, of |-> i, due |-> FALSE, half |-> FALSE]
Revealed(layers, i) == [layers EXCEPT ![i].active = TRUE, ![i].awaiting = FALSE]

\* show: into the layer that is not active; at once when it has the picture already.
Show(url, fades) ==
    LET i == Next1
        has == layer[i].src = url /\ ~layer[i].awaiting
    IN  /\ layer' = IF has THEN Revealed(layer, i)
                    ELSE [layer EXCEPT ![i].src = url, ![i].awaiting = TRUE]
        /\ fading' = IF has THEN Append(fades, Begin(url, Other(i))) ELSE fades

\* neutral: no picture at all.
Neutral(fades) == layer' = [i \in Layers |-> Blank] /\ fading' = fades

-----------------------------------------------------------------------------
(* The focus *)

\* Mutant: the timer of the card before goes on.
FocusKeepingTimer(c) ==
    /\ Move
    /\ focused' = c
    /\ pending' = {}
    /\ timer' = IF backdrop[c] = last THEN timer ELSE timer \cup {c}
    /\ ways' = IF pending = {} THEN ways ELSE ways \cup {"cut"}
    /\ fading' = [i \in DOMAIN fading |-> [fading[i] EXCEPT !.due = TRUE]]
    /\ UNCHANGED <<backdrop, last, image, cache, layer>>

\* state.update: whatever was waited for is given up; a picture that is the last one
\* asked for already is taken for shown.
Focus(c) ==
    /\ Move
    /\ focused' = c
    /\ pending' = {}
    /\ timer' = IF backdrop[c] = last THEN {} ELSE {c}
    /\ ways' = IF pending = {} THEN ways ELSE ways \cup {"cut"}
    /\ fading' = [i \in DOMAIN fading |-> [fading[i] EXCEPT !.due = TRUE]]
    /\ UNCHANGED <<backdrop, last, image, cache, layer>>

\* A timer fires after the fades that ended before it.
Fire(c) ==
    /\ c \in timer /\ timer' = {}
    /\ \A i \in DOMAIN fading : ~(fading[i].due /\ fading[i].half)
    /\ UNCHANGED <<backdrop, focused, moves>>

Aged == [i \in DOMAIN fading |->
            IF fading[i].due THEN [fading[i] EXCEPT !.due = FALSE, !.half = TRUE] ELSE fading[i]]

\* (history) The picture is asked for again while its first showing is under way.
Again(url) ==
    IF \/ \E i \in DOMAIN fading : fading[i].url = url
       \/ \E i \in Layers : layer[i].awaiting /\ layer[i].src = url
    THEN {"again"} ELSE {}

\* Mutant: a card without a picture leaves the last one asked for as it was.
FireWithoutKeepingLast(c) ==
    /\ Fire(c) /\ backdrop[c] = NoUrl
    /\ Neutral(Aged)
    /\ ways' = ways \ {"cut"}
    /\ UNCHANGED <<last, pending, image, cache>>

\* 50 ms after the last move of the focus: a card without a picture,
FireWithout(c) ==
    /\ Fire(c) /\ backdrop[c] = NoUrl
    /\ Neutral(Aged) /\ last' = NoUrl
    /\ ways' = ways \ {"cut"}
    /\ UNCHANGED <<pending, image, cache>>

\* one whose picture was loaded before, or failed,
FireKnown(c) ==
    /\ Fire(c) /\ backdrop[c] # NoUrl
    /\ \/ image[backdrop[c]] = "loaded" /\ Show(backdrop[c], Aged) /\ last' = backdrop[c]
       \/ image[backdrop[c]] = "failed" /\ Neutral(Aged) /\ last' = NoUrl
    /\ ways' = (ways \ {"cut"}) \cup Again(backdrop[c])
    /\ UNCHANGED <<pending, image, cache>>

\* one that has to be waited for; it enters the cache whatever its size.
FireUnknown(c) ==
    /\ Fire(c) /\ backdrop[c] # NoUrl
    /\ image[backdrop[c]] \in {"absent", "loading"}
    /\ last' = backdrop[c] /\ pending' = {backdrop[c]}
    /\ image' = [image EXCEPT ![backdrop[c]] = "loading"]
    /\ cache' = IF backdrop[c] \in Range(cache) THEN cache ELSE Append(cache, backdrop[c])
    /\ fading' = Aged
    /\ ways' = (ways \ {"cut"}) \cup Again(backdrop[c])
    /\ UNCHANGED layer

-----------------------------------------------------------------------------
(* The browser *)

ImageLoads(url) ==
    /\ image[url] = "loading"
    /\ image' = [image EXCEPT ![url] = "loaded"]
    /\ IF url \in pending THEN Show(url, fading) ELSE UNCHANGED <<layer, fading>>
    /\ pending' = pending \ {url}
    /\ UNCHANGED <<backdrop, focused, last, timer, cache, moves, ways>>

ImageFails(url) ==
    /\ image[url] = "loading"
    /\ image' = [image EXCEPT ![url] = "failed"]
    /\ IF url \in pending THEN Neutral(fading) /\ last' = NoUrl ELSE UNCHANGED <<layer, fading, last>>
    /\ pending' = pending \ {url}
    /\ UNCHANGED <<backdrop, focused, timer, cache, moves, ways>>

\* The layer has drawn its picture, which may not be the one wanted any more.
LayerDraws(i) ==
    /\ layer[i].awaiting
    /\ IF layer[i].src = last
       THEN /\ layer' = Revealed(layer, i)
            /\ fading' = Append(fading, Begin(last, Other(i)))
       ELSE layer' = [layer EXCEPT ![i].awaiting = FALSE] /\ UNCHANGED fading
    /\ UNCHANGED <<backdrop, focused, last, timer, pending, image, cache, moves, ways>>

\* 100 ms after a picture was revealed the other layer goes, if it is still wanted.
FadeEnds ==
    /\ fading # <<>> /\ fading' = Tail(fading)
    /\ LET f == Head(fading)
       IN  layer' = IF f.url = last THEN [layer EXCEPT ![f.of].active = FALSE] ELSE layer
    /\ UNCHANGED <<backdrop, focused, last, timer, pending, image, cache, moves, ways>>

Next ==
    \/ \E c \in Card : Preload(c) \/ Focus(c) \/ FireWithout(c) \/ FireKnown(c) \/ FireUnknown(c)
    \/ \E url \in Url : ImageLoads(url) \/ ImageFails(url)
    \/ \E i \in Layers : LayerDraws(i)
    \/ FadeEnds

Spec == Init /\ [][Next]_vars

-----------------------------------------------------------------------------
(* Properties *)

Settled ==
    /\ timer = {} /\ pending = {} /\ fading = <<>>
    /\ \A i \in Layers : ~layer[i].awaiting

Seen == {layer[i].src : i \in {j \in Layers : layer[j].active}}

\* When everything has come to rest, what is seen is the backdrop of the card in focus,
\* or nothing when it has none or it could not be loaded, and backgroundLast tells which
\* of the two (updateBackground, show, neutral); unless a wait for it was given up and the
\* focus came back before it was asked for again, its image was evicted while it was
\* waited for, or it was shown again before its first showing was over.
SettledBackgroundIsOfFocus ==
    (Settled /\ focused # None /\ ways = {}) =>
        /\ last \in {backdrop[focused], NoUrl}
        /\ Seen = {last} \ {NoUrl}

\* "bg skip (already the current one)" (int.js): a request is skipped only when the
\* picture is shown, or will be once what is under way has come.
SkipsOnlyWhatIsShown ==
    (Settled /\ focused # None /\ "evicted" \notin ways) =>
        (backdrop[focused] = last /\ last # NoUrl => Seen = {last})
=============================================================================
