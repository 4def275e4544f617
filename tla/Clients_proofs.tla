--------------------------- MODULE Clients_proofs ---------------------------
(***************************************************************************)
(* Proofs about the parts of the player that MC_Clients runs side by side: *)
(* for each an inductive invariant, that it holds at the start, that every *)
(* step keeps it, and what follows once nothing is under way.              *)
(***************************************************************************)
EXTENDS MC_Clients, FiniteSetTheorems, TLAPS

-----------------------------------------------------------------------------
(* Queues *)

\* What is left of a queue when its first message is taken.
LEMMA QueueTail ==
    ASSUME NEW S, NEW s \in Seq(S), s # <<>>
    PROVE  /\ Head(s) = s[1] /\ Head(s) \in S /\ Tail(s) \in Seq(S)
           /\ Len(s) \in Nat \ {0} /\ DOMAIN s = 1..Len(s) /\ DOMAIN Tail(s) = 1..Len(s) - 1
           /\ Len(Tail(s)) = Len(s) - 1
           /\ \A i \in 1..Len(s) - 1 : Tail(s)[i] = s[i + 1]
OBVIOUS

\* A message put at the end of a queue.
LEMMA QueueAppend ==
    ASSUME NEW S, NEW s \in Seq(S), NEW e \in S
    PROVE  /\ Append(s, e) \in Seq(S) /\ Len(s) \in Nat
           /\ DOMAIN s = 1..Len(s) /\ DOMAIN Append(s, e) = 1..Len(s) + 1
           /\ Len(Append(s, e)) = Len(s) + 1
           /\ Append(s, e)[Len(s) + 1] = e
           /\ \A i \in 1..Len(s) : Append(s, e)[i] = s[i]
OBVIOUS
\* A set of naturals that is not empty has a least element: the sets 1..x of its elements
\* have one of which no other is a strict subset.
LEMMA LeastOf ==
    ASSUME NEW T, T \subseteq Nat, T # {}
    PROVE  \E x \in T : \A y \in T : x <= y
<1> DEFINE D == {1..x : x \in T}
<1>1. D \subseteq FiniteSubsetsOf(Nat) /\ D # {}
  <2>1. ASSUME NEW x \in T PROVE 1..x \in FiniteSubsetsOf(Nat)
    <3>1. IsFiniteSet(1..x)
      BY FS_Interval
    <3> QED BY <3>1 DEF FiniteSubsetsOf
  <2> QED BY <2>1
<1> HIDE DEF D
<1>2. \E d \in D : \A e \in D : ~(<<e, d>> \in StrictSubsetOrdering(Nat))
  BY <1>1, FS_StrictSubsetOrderingWellFounded, WFMin
<1>3. PICK d \in D : \A e \in D : ~(<<e, d>> \in StrictSubsetOrdering(Nat))
  BY <1>2
<1>4. PICK x \in T : d = 1..x
  BY <1>3 DEF D
<1>5. ASSUME NEW y \in T, y < x PROVE FALSE
  <2>1. 1..y \in D
    BY DEF D
  <2>2. 1..y \subseteq 1..x /\ x \notin 1..y /\ x \in 1..x /\ 1..x \subseteq Nat
    BY <1>5
  <2>3. <<1..y, 1..x>> \in StrictSubsetOrdering(Nat)
    BY <2>2 DEF StrictSubsetOrdering
  <2> QED BY <1>3, <1>4, <2>1, <2>3
<1> QED BY <1>5

-----------------------------------------------------------------------------
(* The background of the start page (BackgroundPanel) *)

BackgroundTypes ==
    /\ backdrop \in [Poster -> Url \cup {NoUrl}]
    /\ focused \in Poster \cup {Background!None}
    /\ last \in Url \cup {NoUrl}
    /\ pending \in SUBSET Url
    /\ layer \in [Background!Layers -> Background!Layer]
    /\ fading \in Seq(Background!Fade)

\* The timer is for the card in focus and nothing is waited for while it runs; after it
\* the picture asked for last is that card's, or none.
AskedOfFocus ==
    /\ timer = {} \/ (focused # Background!None /\ timer = {focused} /\ pending = {})
    /\ focused # Background!None /\ timer = {} => last \in {backdrop[focused], NoUrl}
    /\ pending \subseteq {last}
    /\ last = NoUrl => pending = {} /\ layer = [i \in Background!Layers |-> Background!Blank]

FadesOf(url) == {i \in DOMAIN fading : fading[i].url = url}
Drawing(url, i) == layer[i].awaiting /\ layer[i].src = url

\* The picture asked for last is waited for, or drawn by one layer, or shown by one whose
\* other is gone or about to go; and nothing is left of an earlier time it was asked for.
Coming == pending = {last} /\ FadesOf(last) = {} /\ \A i \in Background!Layers : ~Drawing(last, i)
DrawnBy(i) == pending = {} /\ FadesOf(last) = {} /\ Drawing(last, i) /\ ~Drawing(last, Background!Other(i))
ShownBy(i) ==
    /\ pending = {} /\ layer[i].src = last /\ layer[i].active /\ ~layer[i].awaiting
    /\ ~Drawing(last, Background!Other(i))
    /\ \A k \in FadesOf(last) : fading[k].of = Background!Other(i)
    /\ FadesOf(last) # {} \/ ~layer[Background!Other(i)].active
LastComes == last # NoUrl => Coming \/ \E i \in Background!Layers : DrawnBy(i) \/ ShownBy(i)

BackgroundInv == BackgroundTypes /\ AskedOfFocus /\ (ways = {} => LastComes)

LEMMA BackgroundStart == ASSUME Background!Init PROVE BackgroundInv
<1>1. Background!Blank \in Background!Layer /\ <<>> \in Seq(Background!Fade)
  BY DEF Background!Blank, Background!Layer
<1>2. BackgroundTypes
  BY <1>1 DEF Background!Init, BackgroundTypes
<1>3. AskedOfFocus
  BY DEF Background!Init, AskedOfFocus
<1>4. LastComes
  BY DEF Background!Init, LastComes
<1> QED BY <1>2, <1>3, <1>4 DEF BackgroundInv

\* The two layers.
LEMMA BackgroundLayers ==
    ASSUME NEW i \in Background!Layers
    PROVE  Background!Other(i) \in Background!Layers /\ Background!Other(i) # i /\ Background!Other(Background!Other(i)) = i /\ \A j \in Background!Layers : j = i \/ j = Background!Other(i)
BY DEF Background!Layers, Background!Other

LEMMA BackgroundNext1 == Background!Next1 \in Background!Layers
BY DEF Background!Next1, Background!Layers

\* A fade that begins is the last of the fades.
LEMMA BackgroundBegins ==
    ASSUME NEW s \in Seq(Background!Fade), NEW url \in Url, NEW i \in Background!Layers
    PROVE  /\ Append(s, Background!Begin(url, i)) \in Seq(Background!Fade)
           /\ DOMAIN Append(s, Background!Begin(url, i)) = 1..(Len(s) + 1) /\ DOMAIN s = 1..Len(s) /\ Len(s) \in Nat
           /\ \A k \in 1..Len(s) : Append(s, Background!Begin(url, i))[k] = s[k]
           /\ Append(s, Background!Begin(url, i))[Len(s) + 1].url = url
           /\ Append(s, Background!Begin(url, i))[Len(s) + 1].of = i
<1>1. Background!Begin(url, i) \in Background!Fade /\ Background!Begin(url, i).url = url /\ Background!Begin(url, i).of = i
  BY DEF Background!Begin, Background!Fade
<1> QED BY <1>1

\* The fades go on when the focus moves and when its timer fires.
LEMMA BackgroundAges ==
    ASSUME NEW s, s = [i \in DOMAIN fading |-> [fading[i] EXCEPT !.due = TRUE]] \/ s = Background!Aged,
           fading \in Seq(Background!Fade)
    PROVE  /\ s \in Seq(Background!Fade) /\ DOMAIN s = DOMAIN fading
           /\ \A k \in DOMAIN fading : s[k].url = fading[k].url /\ s[k].of = fading[k].of
<1>1. \A k \in DOMAIN fading : fading[k] \in Background!Fade
  OBVIOUS
<1>2. \A f \in Background!Fade : /\ [f EXCEPT !.due = TRUE] \in Background!Fade /\ [f EXCEPT !.due = FALSE, !.half = TRUE] \in Background!Fade
                      /\ [f EXCEPT !.due = TRUE].url = f.url /\ [f EXCEPT !.due = TRUE].of = f.of
                      /\ [f EXCEPT !.due = FALSE, !.half = TRUE].url = f.url
                      /\ [f EXCEPT !.due = FALSE, !.half = TRUE].of = f.of
  BY DEF Background!Fade
<1>3. DOMAIN s = DOMAIN fading /\ \A k \in DOMAIN fading :
          s[k] \in {[fading[k] EXCEPT !.due = TRUE], [fading[k] EXCEPT !.due = FALSE, !.half = TRUE], fading[k]}
  BY DEF Background!Aged
<1>4. \A k \in DOMAIN fading : s[k] \in Background!Fade /\ s[k].url = fading[k].url /\ s[k].of = fading[k].of
  BY <1>1, <1>2, <1>3
<1>5. PICK n \in Nat : DOMAIN fading = 1..n
  OBVIOUS
<1>6. s = [k \in 1..n |-> s[k]]
  BY <1>5 DEF Background!Aged
<1>7. s \in [1..n -> Background!Fade]
  BY <1>3, <1>4, <1>5, <1>6
<1>8. s \in Seq(Background!Fade)
  BY <1>7
<1> QED BY <1>3, <1>4, <1>8

\* A layer that reveals its picture, is given one, gives up waiting for it, or goes.
LEMMA BackgroundReveals ==
    ASSUME layer \in [Background!Layers -> Background!Layer], NEW i \in Background!Layers, NEW after, after = Background!Revealed(layer, i)
    PROVE  /\ after \in [Background!Layers -> Background!Layer] /\ \A j \in Background!Layers : j # i => after[j] = layer[j]
           /\ after[i].src = layer[i].src /\ after[i].active /\ ~after[i].awaiting
<1> DEFINE l == [layer[i] EXCEPT !.active = TRUE, !.awaiting = FALSE]
<1>1. l \in Background!Layer /\ l.src = layer[i].src /\ l.active /\ ~l.awaiting
  BY DEF Background!Layer
<1>2. after = [layer EXCEPT ![i] = l]
  BY DEF Background!Revealed
<1> HIDE DEF l
<1> QED BY <1>1, <1>2

LEMMA BackgroundGiven ==
    ASSUME layer \in [Background!Layers -> Background!Layer], NEW i \in Background!Layers, NEW url \in Url, NEW after,
           after = [layer EXCEPT ![i].src = url, ![i].awaiting = TRUE]
    PROVE  /\ after \in [Background!Layers -> Background!Layer] /\ \A j \in Background!Layers : j # i => after[j] = layer[j]
           /\ after[i].src = url /\ after[i].awaiting
<1> DEFINE l == [layer[i] EXCEPT !.src = url, !.awaiting = TRUE]
<1>1. l \in Background!Layer /\ l.src = url /\ l.awaiting
  BY DEF Background!Layer
<1>2. after = [layer EXCEPT ![i] = l]
  OBVIOUS
<1> HIDE DEF l
<1> QED BY <1>1, <1>2

LEMMA BackgroundGivesUp ==
    ASSUME layer \in [Background!Layers -> Background!Layer], NEW i \in Background!Layers, NEW after,
           after = [layer EXCEPT ![i].awaiting = FALSE]
    PROVE  /\ after \in [Background!Layers -> Background!Layer] /\ \A j \in Background!Layers : j # i => after[j] = layer[j]
           /\ ~after[i].awaiting
<1> DEFINE l == [layer[i] EXCEPT !.awaiting = FALSE]
<1>1. l \in Background!Layer /\ ~l.awaiting
  BY DEF Background!Layer
<1>2. after = [layer EXCEPT ![i] = l]
  OBVIOUS
<1> HIDE DEF l
<1> QED BY <1>1, <1>2

LEMMA BackgroundGoes ==
    ASSUME layer \in [Background!Layers -> Background!Layer], NEW i \in Background!Layers, NEW after,
           after = [layer EXCEPT ![i].active = FALSE]
    PROVE  /\ after \in [Background!Layers -> Background!Layer] /\ \A j \in Background!Layers : j # i => after[j] = layer[j]
           /\ after[i].src = layer[i].src /\ (after[i].awaiting <=> layer[i].awaiting) /\ ~after[i].active
<1> DEFINE l == [layer[i] EXCEPT !.active = FALSE]
<1>1. l \in Background!Layer /\ l.src = layer[i].src /\ (l.awaiting <=> layer[i].awaiting) /\ ~l.active
  BY DEF Background!Layer
<1>2. after = [layer EXCEPT ![i] = l]
  OBVIOUS
<1> HIDE DEF l
<1> QED BY <1>1, <1>2

\* What show does is about layers and fades.
LEMMA BackgroundShow ==
    ASSUME layer \in [Background!Layers -> Background!Layer], NEW url \in Url, NEW s \in Seq(Background!Fade), Background!Show(url, s)
    PROVE  layer' \in [Background!Layers -> Background!Layer] /\ fading' \in Seq(Background!Fade)
<1>1. PICK i \in Background!Layers : i = Background!Next1
  BY BackgroundNext1
<1>2. Background!Other(i) \in Background!Layers
  BY BackgroundLayers
<1>3. CASE layer[i].src = url /\ ~layer[i].awaiting
  <2>1. layer' = Background!Revealed(layer, i) /\ fading' = Append(s, Background!Begin(url, Background!Other(i)))
    BY <1>1, <1>3 DEF Background!Show
  <2> QED BY <1>2, <2>1, BackgroundReveals, BackgroundBegins
<1>4. CASE ~(layer[i].src = url /\ ~layer[i].awaiting)
  <2>1. layer' = [layer EXCEPT ![i].src = url, ![i].awaiting = TRUE] /\ fading' = s
    BY <1>1, <1>4 DEF Background!Show
  <2> QED BY <2>1, BackgroundGiven
<1> QED BY <1>3, <1>4

\* A picture of which nothing is left from an earlier time is drawn, or shown, by the layer
\* that is given it.
LEMMA BackgroundShown ==
    ASSUME layer \in [Background!Layers -> Background!Layer], NEW url \in Url, NEW s \in Seq(Background!Fade), Background!Show(url, s),
           last' = url, pending' = {},
           \A k \in DOMAIN s : s[k].url # url, \A i \in Background!Layers : ~Drawing(url, i)
    PROVE  \E i \in Background!Layers : DrawnBy(i)' \/ ShownBy(i)'
<1>0. PICK i \in Background!Layers : i = Background!Next1
  BY BackgroundNext1
<1>1. i \in Background!Layers /\ Background!Other(i) \in Background!Layers /\ Background!Other(i) # i
  BY BackgroundLayers
<1>2. CASE layer[i].src = url /\ ~layer[i].awaiting
  <2>1. layer' = Background!Revealed(layer, i) /\ fading' = Append(s, Background!Begin(url, Background!Other(i)))
    BY <1>0, <1>2 DEF Background!Show
  <2>2. /\ layer'[i].src = url /\ layer'[i].active /\ ~layer'[i].awaiting
        /\ layer'[Background!Other(i)] = layer[Background!Other(i)]
    BY <1>1, <1>2, <2>1, BackgroundReveals
  <2>3. FadesOf(last)' = {Len(s) + 1} /\ fading'[Len(s) + 1].of = Background!Other(i)
    BY <1>1, <2>1, BackgroundBegins DEF FadesOf
  <2>4. ShownBy(i)'
    BY <1>1, <2>2, <2>3 DEF ShownBy, Drawing
  <2> QED BY <1>1, <2>4
<1>3. CASE ~(layer[i].src = url /\ ~layer[i].awaiting)
  <2>1. layer' = [layer EXCEPT ![i].src = url, ![i].awaiting = TRUE] /\ fading' = s
    BY <1>0, <1>3 DEF Background!Show
  <2>2. layer'[i].src = url /\ layer'[i].awaiting /\ layer'[Background!Other(i)] = layer[Background!Other(i)]
    BY <1>1, <2>1, BackgroundGiven
  <2>3. FadesOf(last)' = {}
    BY <2>1 DEF FadesOf
  <2>4. DrawnBy(i)'
    BY <1>1, <2>2, <2>3 DEF DrawnBy, Drawing
  <2> QED BY <1>1, <2>4
<1> QED BY <1>2, <1>3

\* The focus moves, or an image is fetched ahead.
LEMMA BackgroundFocused ==
    ASSUME BackgroundInv, NEW c \in Poster, Background!Preload(c) \/ Background!Focus(c)
    PROVE  BackgroundInv'
<1> USE BackgroundAssumption
<1>1. CASE Background!Preload(c)
  <2>1. UNCHANGED <<backdrop, focused, last, timer, layer, fading>> /\ pending' \subseteq pending
        /\ (ways' = {} => ways = {} /\ pending' = pending)
    BY <1>1 DEF Background!Preload
  <2>2. BackgroundTypes' /\ AskedOfFocus'
    BY <2>1 DEF BackgroundInv, BackgroundTypes, AskedOfFocus
  <2> QED BY <2>1, <2>2 DEF BackgroundInv, LastComes, Coming, DrawnBy, ShownBy, FadesOf, Drawing
<1>2. CASE Background!Focus(c)
  <2>1. /\ UNCHANGED <<backdrop, last, layer>> /\ focused' = c /\ pending' = {}
        /\ timer' = (IF backdrop[c] = last THEN {} ELSE {c})
        /\ (ways' = {} => ways = {} /\ pending = {})
    BY <1>2 DEF Background!Focus
  <2>2. /\ fading' \in Seq(Background!Fade) /\ DOMAIN fading' = DOMAIN fading
        /\ \A k \in DOMAIN fading : fading'[k].url = fading[k].url /\ fading'[k].of = fading[k].of
    BY <1>2, BackgroundAges DEF Background!Focus, BackgroundInv, BackgroundTypes
  <2>3. BackgroundTypes' /\ AskedOfFocus'
    BY <2>1, <2>2 DEF BackgroundInv, BackgroundTypes, AskedOfFocus
  <2>4. \A url : FadesOf(url)' = FadesOf(url)
    BY <2>2 DEF FadesOf
  <2>5. ASSUME ways' = {} PROVE LastComes'
    <3>1. CASE last = NoUrl
      BY <2>1, <3>1 DEF LastComes
    <3>2. CASE last # NoUrl
      <4>1. PICK i \in Background!Layers : DrawnBy(i) \/ ShownBy(i)
        BY <2>1, <2>5, <3>2 DEF BackgroundInv, LastComes, Coming
      <4>2. DrawnBy(i) => DrawnBy(i)'
        BY <2>1, <2>4 DEF DrawnBy, Drawing
      <4>3. ShownBy(i) => ShownBy(i)'
        BY <2>1, <2>2, <2>4 DEF ShownBy, Drawing, FadesOf
      <4> QED BY <4>1, <4>2, <4>3 DEF LastComes
    <3> QED BY <3>1, <3>2
  <2> QED BY <2>3, <2>5 DEF BackgroundInv
<1> QED BY <1>1, <1>2

\* Without a picture there is nothing to see.
LEMMA BackgroundNeutral ==
    ASSUME layer' = [i \in Background!Layers |-> Background!Blank]
    PROVE  layer' \in [Background!Layers -> Background!Layer]
BY DEF Background!Blank, Background!Layer

\* The timer of the card in focus fires.
LEMMA BackgroundFires ==
    ASSUME BackgroundInv, NEW c \in Poster, Background!FireWithout(c) \/ Background!FireKnown(c) \/ Background!FireUnknown(c)
    PROVE  BackgroundInv'
<1> USE BackgroundAssumption
<1>1. /\ c = focused /\ focused \in Poster /\ pending = {} /\ timer' = {}
      /\ UNCHANGED <<backdrop, focused>> /\ backdrop[c] \in Url \cup {NoUrl}
      /\ layer \in [Background!Layers -> Background!Layer] /\ fading \in Seq(Background!Fade)
      /\ BackgroundTypes
  BY DEF Background!FireWithout, Background!FireKnown, Background!FireUnknown, Background!Fire,
     BackgroundInv, BackgroundTypes, AskedOfFocus
<1>2. /\ Background!Aged \in Seq(Background!Fade) /\ DOMAIN Background!Aged = DOMAIN fading
      /\ \A k \in DOMAIN fading : Background!Aged[k].url = fading[k].url /\ Background!Aged[k].of = fading[k].of
  BY <1>1, BackgroundAges
<1>3. ASSUME Background!Neutral(Background!Aged), last' = NoUrl, pending' = pending PROVE BackgroundInv'
  <2>1. layer' = [i \in Background!Layers |-> Background!Blank] /\ fading' = Background!Aged
    BY <1>3 DEF Background!Neutral
  <2>2. BackgroundTypes'
    BY <1>1, <1>2, <1>3, <2>1, BackgroundNeutral DEF BackgroundTypes
  <2> QED BY <1>1, <1>3, <2>1, <2>2 DEF BackgroundInv, AskedOfFocus, LastComes
<1>4. ASSUME Background!Again(backdrop[c]) = {}
      PROVE  /\ \A k \in DOMAIN Background!Aged : Background!Aged[k].url # backdrop[c]
             /\ \A i \in Background!Layers : ~Drawing(backdrop[c], i)
  BY <1>2, <1>4 DEF Background!Again, Drawing
<1>5. ASSUME backdrop[c] # NoUrl, Background!Show(backdrop[c], Background!Aged), last' = backdrop[c], pending' = pending,
             ways' = (ways \ {"cut"}) \cup Background!Again(backdrop[c])
      PROVE  BackgroundInv'
  <2>1. layer' \in [Background!Layers -> Background!Layer] /\ fading' \in Seq(Background!Fade)
    BY <1>1, <1>2, <1>5, BackgroundShow
  <2>2. BackgroundTypes' /\ AskedOfFocus'
    BY <1>1, <1>5, <2>1 DEF BackgroundTypes, AskedOfFocus
  <2>3. ASSUME ways' = {} PROVE LastComes'
    BY <1>1, <1>2, <1>4, <1>5, <2>3, BackgroundShown DEF LastComes
  <2> QED BY <2>2, <2>3 DEF BackgroundInv
<1>6. CASE Background!FireWithout(c)
  BY <1>3, <1>6 DEF Background!FireWithout
<1>7. CASE Background!FireKnown(c)
  BY <1>3, <1>5, <1>7 DEF Background!FireKnown
<1>8. CASE Background!FireUnknown(c)
  <2>1. /\ backdrop[c] # NoUrl /\ last' = backdrop[c] /\ pending' = {backdrop[c]} /\ fading' = Background!Aged
        /\ ways' = (ways \ {"cut"}) \cup Background!Again(backdrop[c]) /\ layer' = layer
    BY <1>8 DEF Background!FireUnknown
  <2>2. BackgroundTypes' /\ AskedOfFocus'
    BY <1>1, <1>2, <2>1 DEF BackgroundTypes, AskedOfFocus
  <2>3. ASSUME ways' = {} PROVE Coming'
    <3>1. /\ \A k \in DOMAIN Background!Aged : Background!Aged[k].url # backdrop[c]
          /\ \A i \in Background!Layers : ~Drawing(backdrop[c], i)
      BY <1>4, <2>1, <2>3
    <3> QED BY <2>1, <3>1 DEF Coming, FadesOf, Drawing
  <2> QED BY <2>2, <2>3 DEF BackgroundInv, LastComes
<1> QED BY <1>6, <1>7, <1>8

\* An image comes, or does not.
LEMMA BackgroundImages ==
    ASSUME BackgroundInv, NEW url \in Url, Background!ImageLoads(url) \/ Background!ImageFails(url)
    PROVE  BackgroundInv'
<1> USE BackgroundAssumption
<1>1. /\ UNCHANGED <<backdrop, focused, timer, ways>> /\ pending' = pending \ {url}
      /\ layer \in [Background!Layers -> Background!Layer] /\ fading \in Seq(Background!Fade) /\ BackgroundTypes
      /\ url \in pending => last = url /\ timer = {}
  BY DEF Background!ImageLoads, Background!ImageFails, BackgroundInv, BackgroundTypes, AskedOfFocus
<1>2. CASE url \notin pending
  <2>1. UNCHANGED <<last, layer, fading, pending>>
    BY <1>1, <1>2 DEF Background!ImageLoads, Background!ImageFails
  <2> QED BY <1>1, <2>1 DEF BackgroundInv, BackgroundTypes, AskedOfFocus, LastComes, Coming, DrawnBy,
             ShownBy, FadesOf, Drawing
<1>3. CASE url \in pending /\ Background!ImageLoads(url)
  <2>1. Background!Show(url, fading) /\ last' = last /\ pending' = {} /\ last = url /\ timer' = {}
    BY <1>1, <1>3 DEF Background!ImageLoads, BackgroundInv, AskedOfFocus
  <2>2. layer' \in [Background!Layers -> Background!Layer] /\ fading' \in Seq(Background!Fade)
    BY <1>1, <2>1, BackgroundShow
  <2>3. BackgroundTypes' /\ AskedOfFocus'
    BY <1>1, <2>1, <2>2 DEF BackgroundInv, BackgroundTypes, AskedOfFocus
  <2>4. ASSUME ways' = {} PROVE LastComes'
    <3>1. Coming
      BY <1>1, <1>3, <2>1, <2>4 DEF BackgroundInv, LastComes, DrawnBy, ShownBy
    <3>2. (\A k \in DOMAIN fading : fading[k].url # url) /\ \A i \in Background!Layers : ~Drawing(url, i)
      BY <2>1, <3>1 DEF Coming, FadesOf
    <3> QED BY <1>1, <2>1, <3>2, BackgroundShown DEF LastComes
  <2> QED BY <2>3, <2>4 DEF BackgroundInv
<1>4. CASE url \in pending /\ Background!ImageFails(url)
  <2>1. layer' = [i \in Background!Layers |-> Background!Blank] /\ fading' = fading /\ last' = NoUrl /\ pending' = {}
    BY <1>1, <1>4 DEF Background!ImageFails, Background!Neutral, BackgroundInv, AskedOfFocus
  <2>2. BackgroundTypes' /\ AskedOfFocus' /\ LastComes'
    BY <1>1, <2>1, BackgroundNeutral DEF BackgroundInv, BackgroundTypes, AskedOfFocus, LastComes
  <2> QED BY <2>2 DEF BackgroundInv
<1> QED BY <1>2, <1>3, <1>4

\* A layer has drawn its picture.
LEMMA BackgroundDraws == ASSUME BackgroundInv, NEW i \in Background!Layers, Background!LayerDraws(i) PROVE BackgroundInv'
<1> USE BackgroundAssumption
<1>1. /\ layer[i].awaiting /\ UNCHANGED <<backdrop, focused, last, timer, pending, ways>>
      /\ layer \in [Background!Layers -> Background!Layer] /\ fading \in Seq(Background!Fade) /\ BackgroundTypes
      /\ Background!Other(i) \in Background!Layers /\ Background!Other(i) # i
  BY BackgroundLayers DEF Background!LayerDraws, BackgroundInv, BackgroundTypes
<1>2. last # NoUrl
  BY <1>1 DEF BackgroundInv, AskedOfFocus, Background!Blank
<1>3. CASE layer[i].src = last
  <2>1. layer' = Background!Revealed(layer, i) /\ fading' = Append(fading, Background!Begin(last, Background!Other(i)))
    BY <1>3 DEF Background!LayerDraws
  <2>2. /\ layer' \in [Background!Layers -> Background!Layer] /\ layer'[Background!Other(i)] = layer[Background!Other(i)]
        /\ layer'[i].src = layer[i].src /\ layer'[i].active /\ ~layer'[i].awaiting
    BY <1>1, <2>1, BackgroundReveals
  <2>3. last \in Url
    BY <1>1, <1>2 DEF BackgroundTypes
  <2>4. /\ fading' \in Seq(Background!Fade) /\ DOMAIN fading' = 1..(Len(fading) + 1) /\ DOMAIN fading = 1..Len(fading)
        /\ \A k \in 1..Len(fading) : fading'[k] = fading[k]
        /\ fading'[Len(fading) + 1].url = last /\ fading'[Len(fading) + 1].of = Background!Other(i)
        /\ Len(fading) \in Nat
    BY <1>1, <2>1, <2>3, BackgroundBegins
  <2>5. BackgroundTypes' /\ AskedOfFocus'
    BY <1>1, <1>2, <2>2, <2>4 DEF BackgroundInv, BackgroundTypes, AskedOfFocus
  <2>6. ASSUME ways' = {} PROVE ShownBy(i)'
    <3>1. DrawnBy(i)
      <4>1. \A j \in Background!Layers : j = i \/ j = Background!Other(i)
        BY BackgroundLayers
      <4>2. LastComes /\ Drawing(last, i) /\ Background!Other(Background!Other(i)) = i
        BY <1>1, <1>3, <2>6, BackgroundLayers DEF BackgroundInv, Drawing
      <4> QED BY <1>1, <1>2, <4>1, <4>2 DEF LastComes, Coming, DrawnBy, ShownBy
    <3>2. FadesOf(last)' = {Len(fading) + 1}
      BY <1>1, <2>4, <3>1 DEF DrawnBy, FadesOf
    <3> QED BY <1>1, <1>3, <2>2, <2>4, <3>1, <3>2 DEF DrawnBy, ShownBy, Drawing
  <2> QED BY <2>5, <2>6 DEF BackgroundInv, LastComes
<1>4. CASE layer[i].src # last
  <2>1. layer' = [layer EXCEPT ![i].awaiting = FALSE] /\ fading' = fading
    BY <1>4 DEF Background!LayerDraws
  <2>2. /\ layer' \in [Background!Layers -> Background!Layer] /\ (\A j \in Background!Layers : j # i => layer'[j] = layer[j])
        /\ ~layer'[i].awaiting
    BY <1>1, <2>1, BackgroundGivesUp
  <2>3. BackgroundTypes' /\ AskedOfFocus'
    BY <1>1, <1>2, <2>1, <2>2 DEF BackgroundInv, BackgroundTypes, AskedOfFocus
  <2>4. FadesOf(last)' = FadesOf(last) /\ \A j \in Background!Layers : ~Drawing(last, j) => ~Drawing(last, j)'
    BY <1>1, <2>1, <2>2 DEF FadesOf, Drawing
  <2>5. Coming => Coming'
    BY <1>1, <2>4 DEF Coming
  <2>6. ASSUME NEW j \in Background!Layers PROVE (DrawnBy(j) => DrawnBy(j)') /\ (ShownBy(j) => ShownBy(j)')
    <3>1. Background!Other(j) \in Background!Layers
      BY BackgroundLayers
    <3>2. CASE j = i
      BY <1>1, <1>4, <3>2 DEF DrawnBy, ShownBy, Drawing
    <3>3. CASE j # i
      <4>1. layer'[j] = layer[j]
        BY <2>2, <3>3
      <4>2. DrawnBy(j) => DrawnBy(j)'
        BY <1>1, <2>4, <3>1, <4>1 DEF DrawnBy, Drawing
      <4>3. \A l \in Background!Layers : ~layer[l].active => ~layer'[l].active
        <5>1. [layer EXCEPT ![i].awaiting = FALSE] = [layer EXCEPT ![i] = [layer[i] EXCEPT !.awaiting = FALSE]]
          OBVIOUS
        <5>2. [layer[i] EXCEPT !.awaiting = FALSE].active = layer[i].active
          BY <1>1 DEF Background!Layer
        <5> QED BY <1>1, <2>1, <2>2, <5>1, <5>2
      <4>4. ShownBy(j) => ShownBy(j)'
        BY <1>1, <2>1, <2>4, <3>1, <4>1, <4>3 DEF ShownBy, Drawing, FadesOf
      <4> QED BY <4>2, <4>4
    <3> QED BY <3>2, <3>3
  <2>7. LastComes => LastComes'
    BY <1>1, <2>5, <2>6 DEF LastComes
  <2> QED BY <1>1, <2>3, <2>7 DEF BackgroundInv
<1> QED BY <1>3, <1>4

\* A fade is over.
LEMMA BackgroundFades == ASSUME BackgroundInv, Background!FadeEnds PROVE BackgroundInv'
<1> USE BackgroundAssumption
<1>1. /\ fading \in Seq(Background!Fade) /\ fading # <<>> /\ fading' = Tail(fading)
      /\ layer \in [Background!Layers -> Background!Layer] /\ BackgroundTypes
      /\ UNCHANGED <<backdrop, focused, last, timer, pending, ways>>
  BY DEF Background!FadeEnds, BackgroundInv, BackgroundTypes
<1> DEFINE f == Head(fading)
<1>2. /\ f \in Background!Fade /\ f.url \in Url /\ f.of \in Background!Layers /\ f = fading[1]
      /\ fading' \in Seq(Background!Fade) /\ DOMAIN fading = 1..Len(fading) /\ DOMAIN fading' = 1..(Len(fading) - 1)
      /\ Len(fading) \in Nat \ {0} /\ \A k \in 1..(Len(fading) - 1) : fading'[k] = fading[k + 1]
  <2>1. Len(fading) \in Nat \ {0} /\ DOMAIN fading = 1..Len(fading) /\ f = fading[1]
    BY <1>1
  <2>2. fading[1] \in Background!Fade
    BY <1>1, <2>1
  <2>3. /\ fading' \in Seq(Background!Fade) /\ DOMAIN fading' = 1..(Len(fading) - 1)
        /\ \A k \in 1..(Len(fading) - 1) : fading'[k] = fading[k + 1]
    BY <1>1
  <2>4. f \in Background!Fade /\ f.url \in Url /\ f.of \in Background!Layers
    BY <2>1, <2>2 DEF Background!Fade
  <2> QED BY <2>1, <2>3, <2>4
<1>3. layer' = IF f.url = last THEN [layer EXCEPT ![f.of].active = FALSE] ELSE layer
  BY DEF Background!FadeEnds
<1> HIDE DEF f
<1>4. \A k \in FadesOf(last)' : k + 1 \in FadesOf(last) /\ fading'[k] = fading[k + 1]
  BY <1>1, <1>2 DEF FadesOf
<1>5. CASE f.url # last
  <2>1. layer' = layer
    BY <1>3, <1>5
  <2>2. BackgroundTypes' /\ AskedOfFocus'
    BY <1>1, <1>2, <2>1 DEF BackgroundInv, BackgroundTypes, AskedOfFocus
  <2>3. FadesOf(last) # {} => FadesOf(last)' # {}
    <3> SUFFICES ASSUME NEW k \in FadesOf(last) PROVE FadesOf(last)' # {}
      OBVIOUS
    <3>1. k \in 1..Len(fading) /\ k # 1
      BY <1>2, <1>5 DEF FadesOf
    <3>2. k - 1 \in 1..(Len(fading) - 1) /\ fading'[k - 1] = fading[k]
      BY <1>2, <3>1
    <3> QED BY <1>1, <1>2, <3>2 DEF FadesOf
  <2>4. LastComes => LastComes'
    BY <1>1, <1>4, <2>1, <2>3 DEF LastComes, Coming, DrawnBy, ShownBy, Drawing
  <2> QED BY <1>1, <2>2, <2>4 DEF BackgroundInv
<1>6. CASE f.url = last
  <2>1. layer' = [layer EXCEPT ![f.of].active = FALSE] /\ last # NoUrl /\ 1 \in FadesOf(last)
    BY <1>2, <1>3, <1>6 DEF FadesOf
  <2>2. /\ layer' \in [Background!Layers -> Background!Layer] /\ (\A j \in Background!Layers : j # f.of => layer'[j] = layer[j])
        /\ layer'[f.of].src = layer[f.of].src /\ (layer'[f.of].awaiting <=> layer[f.of].awaiting)
        /\ ~layer'[f.of].active
    BY <1>1, <1>2, <2>1, BackgroundGoes
  <2>3. BackgroundTypes' /\ AskedOfFocus'
    BY <1>1, <1>2, <2>1, <2>2 DEF BackgroundInv, BackgroundTypes, AskedOfFocus
  <2>4. \A j \in Background!Layers : Drawing(last, j)' <=> Drawing(last, j)
    BY <1>1, <2>2 DEF Drawing
  <2>5. ASSUME ways' = {} PROVE \E i \in Background!Layers : ShownBy(i)'
    <3>1. PICK i \in Background!Layers : ShownBy(i)
      BY <1>1, <2>1, <2>5 DEF BackgroundInv, LastComes, Coming, DrawnBy
    <3>2. f.of = Background!Other(i) /\ Background!Other(i) # i /\ Background!Other(i) \in Background!Layers
      BY <1>2, <2>1, <3>1, BackgroundLayers DEF ShownBy
    <3>3. layer'[i] = layer[i] /\ ~layer'[Background!Other(i)].active /\ ~Drawing(last, Background!Other(i))'
      BY <2>2, <2>4, <3>1, <3>2 DEF ShownBy
    <3>4. \A k \in FadesOf(last)' : fading'[k].of = Background!Other(i)
      BY <1>4, <3>1 DEF ShownBy
    <3> QED BY <1>1, <3>1, <3>3, <3>4 DEF ShownBy
  <2> QED BY <2>3, <2>5 DEF BackgroundInv, LastComes
<1> QED BY <1>5, <1>6

\* Whatever happens, the background's invariant stays.
LEMMA BackgroundKept == ASSUME BackgroundInv, Background!Next \/ UNCHANGED Background!vars PROVE BackgroundInv'
<1>1. CASE UNCHANGED Background!vars
  BY <1>1 DEF Background!vars, BackgroundInv, BackgroundTypes, AskedOfFocus, LastComes, Coming,
     DrawnBy, ShownBy,
     FadesOf, Drawing
<1> QED BY <1>1, BackgroundFocused, BackgroundFires, BackgroundImages, BackgroundDraws, BackgroundFades
        DEF Background!Next

\* At rest what is seen is the backdrop of the card in focus.
LEMMA BackgroundFollows == ASSUME BackgroundInv PROVE Background!SettledBackgroundIsOfFocus
<1> USE BackgroundAssumption
<1> SUFFICES ASSUME Background!Settled, focused # Background!None, ways = {}
             PROVE  last \in {backdrop[focused], NoUrl} /\ Background!Seen = {last} \ {NoUrl}
  BY DEF Background!SettledBackgroundIsOfFocus
<1>1. last \in {backdrop[focused], NoUrl}
  BY DEF Background!Settled, BackgroundInv, AskedOfFocus
<1>2. CASE last = NoUrl
  <2>1. \A i \in Background!Layers : ~layer[i].active
    BY <1>2 DEF BackgroundInv, AskedOfFocus, Background!Blank
  <2> QED BY <1>1, <1>2, <2>1 DEF Background!Seen
<1>3. CASE last # NoUrl
  <2>1. PICK i \in Background!Layers : ShownBy(i)
    BY <1>3 DEF Background!Settled, BackgroundInv, LastComes, Coming, DrawnBy, Drawing
  <2>2. FadesOf(last) = {} /\ \A j \in Background!Layers : j = i \/ j = Background!Other(i)
    BY BackgroundLayers DEF FadesOf, Background!Settled
  <2>3. {j \in Background!Layers : layer[j].active} = {i}
    BY <2>1, <2>2 DEF ShownBy
  <2>4. layer[i].src = last
    BY <2>1 DEF ShownBy
  <2> QED BY <1>1, <1>3, <2>3, <2>4 DEF Background!Seen
<1> QED BY <1>2, <1>3

-----------------------------------------------------------------------------
(* The panel about the card in focus (InfoPanel) *)

\* The render under way is that of the card whose title is shown, which is the card in
\* focus if there is one; what older renders asked for does not touch the panel.
RendersInOrder ==
    /\ render \in Nat
    /\ logos \subseteq [card : Poster, render : Nat, stage : {"link", "image"}]
    /\ counts \subseteq [card : Poster, render : Nat]
    /\ \A r \in logos \cup counts : r.render <= render
    /\ \A r \in logos \cup counts : r.render = render => r.card = title.card
    /\ focused # Info!None => title.card = focused
    /\ reactions \in {title.card, Info!None}

\* The details of the card in focus are shown, or about to be asked for, or asked for last.
DetailsCome ==
    focused \in Poster \ Foreign /\ ways = {} =>
        /\ current = focused
        /\ details = focused \/ timer = {focused} \/ (timer = {} /\ asking = {focused})

InfoInv ==
    /\ RendersInOrder /\ DetailsCome
    /\ focused # Info!None /\ ways \cap {"foreign", "reset"} = {} => details \in {focused, Info!None}

LEMMA InfoStart == ASSUME Info!Init PROVE InfoInv
BY DEF Info!Init, InfoInv, RendersInOrder, DetailsCome

\* Another card comes into focus.
LEMMA InfoUpdate == ASSUME InfoInv, NEW c \in Poster, Info!Update(c) PROVE InfoInv'
<1>1. /\ focused' = c /\ render' = render + 1 /\ title'.card = c
      /\ render \in Nat /\ UNCHANGED <<asking, ways>>
  BY DEF Info!Update, Info!ShowLogo, InfoInv, RendersInOrder
<1>2. ASSUME NEW r \in logos' \cup counts'
      PROVE  \/ r \in logos \cup counts
             \/ r.render = render + 1 /\ r.card = c
  BY <1>1, <1>2 DEF Info!Update, Info!ShowLogo, Info!LoadReactions
<1>3. /\ logos' \subseteq [card : Poster, render : Nat, stage : {"link", "image"}]
      /\ counts' \subseteq [card : Poster, render : Nat]
  <2>1. \A stage \in {"link", "image"} :
            [card |-> c, render |-> render + 1, stage |-> stage]
                \in [card : Poster, render : Nat, stage : {"link", "image"}]
    BY <1>1
  <2>2. [card |-> c, render |-> render + 1] \in [card : Poster, render : Nat]
    BY <1>1
  <2> QED BY <2>1, <2>2 DEF Info!Update, Info!ShowLogo, Info!LoadReactions, InfoInv, RendersInOrder
<1>4. \A r \in logos \cup counts : r.render \in Nat /\ r.render <= render
  BY DEF InfoInv, RendersInOrder
<1>5. RendersInOrder'
  <2>1. reactions' \in {c, Info!None}
    BY DEF Info!Update, Info!LoadReactions
  <2> QED BY <1>1, <1>2, <1>3, <1>4, <2>1 DEF RendersInOrder
<1>6. DetailsCome'
  <2>1. CASE c \in Foreign
    BY <1>1, <2>1 DEF DetailsCome
  <2>2. CASE c \notin Foreign
    <3>1. current' = c
      BY <2>2, Zenon DEF Info!Update, Info!Load
    <3>2. details' = c \/ timer' = {c}
      BY <2>2, Zenon DEF Info!Update, Info!Load
    <3> QED BY <1>1, <3>1, <3>2 DEF DetailsCome
  <2> QED BY <2>1, <2>2
<1>7. details' \in {c, Info!None}
  BY DEF Info!Update, Info!Load
<1> QED BY <1>1, <1>5, <1>6, <1>7 DEF InfoInv

\* Details are asked for, come, or do not; the row is left.
LEMMA InfoDetails ==
    ASSUME InfoInv, \/ \E c \in Poster : Info!AskDetails(c) \/ Info!GotDetails(c)
                    \/ Info!DetailsFail \/ Info!Reset
    PROVE  InfoInv'
<1>1. UNCHANGED <<render, current, title, logos, reactions, counts>> /\ focused' \in {focused, Info!None}
  BY DEF Info!AskDetails, Info!GotDetails, Info!DetailsFail, Info!Reset
<1>2. RendersInOrder'
  BY <1>1 DEF InfoInv, RendersInOrder
<1>3. ASSUME NEW c \in Poster, Info!AskDetails(c) PROVE InfoInv'
  BY <1>2, <1>3 DEF Info!AskDetails, InfoInv, DetailsCome
<1>4. ASSUME NEW c \in Poster, Info!GotDetails(c) PROVE InfoInv'
  <2>1. UNCHANGED <<focused, timer, current>> /\ asking' = {} /\ c \in asking
        /\ details' = IF current = c THEN c ELSE details
    BY <1>4 DEF Info!GotDetails
  <2>2. CASE current # c \/ focused = c
    BY <1>2, <1>4, <2>1, <2>2 DEF Info!GotDetails, InfoInv, DetailsCome
  <2>3. CASE ~(current # c \/ focused = c)
    <3>1. ways' \cap {"foreign", "reset"} # {} /\ ways' # {}
      BY <1>4, <2>3 DEF Info!GotDetails
    <3> QED BY <1>2, <3>1 DEF InfoInv, DetailsCome
  <2> QED BY <2>2, <2>3
<1>5. CASE Info!DetailsFail
  BY <1>2, <1>5 DEF Info!DetailsFail, InfoInv, DetailsCome
<1>6. CASE Info!Reset
  <2>1. focused' = Info!None /\ details' = Info!None /\ UNCHANGED <<current, timer, asking, ways>>
    BY <1>6 DEF Info!Reset
  <2>2. DetailsCome'
    BY <2>1, PosterAssumption DEF DetailsCome
  <2> QED BY <1>2, <2>1, <2>2 DEF InfoInv
<1> QED BY <1>3, <1>4, <1>5, <1>6

\* Links, logos and reactions come; a card comes into view.
LEMMA InfoAnswers ==
    ASSUME InfoInv, \/ \E r \in logos : Info!GotLogo(r) \/ Info!LogoFails(r) \/ \E link \in Info!Links : Info!GotLink(r, link)
                    \/ \E r \in counts : Info!GotReactions(r)
                    \/ \E c \in Poster : Info!Preload(c)
    PROVE  InfoInv'
<1>1. UNCHANGED <<focused, render, details, current, timer, asking, ways>>
  BY DEF Info!GotLogo, Info!LogoFails, Info!GotLink, Info!GotReactions, Info!Preload
<1>2. DetailsCome' /\ (focused' # Info!None /\ ways' \cap {"foreign", "reset"} = {} => details' \in {focused', Info!None})
  BY <1>1 DEF InfoInv, DetailsCome
<1>3. RendersInOrder'
  <2>1. ASSUME NEW r \in logos, Info!GotLogo(r) PROVE RendersInOrder'
    <3>1. title'.card = title.card
      BY <2>1 DEF Info!GotLogo, InfoInv, RendersInOrder
    <3> QED BY <2>1, <3>1 DEF Info!GotLogo, InfoInv, RendersInOrder
  <2>2. ASSUME NEW r \in logos, Info!LogoFails(r) PROVE RendersInOrder'
    BY <2>2 DEF Info!LogoFails, InfoInv, RendersInOrder
  <2>3. ASSUME NEW r \in logos, NEW link \in Info!Links, Info!GotLink(r, link) PROVE RendersInOrder'
    <3> DEFINE b == [r EXCEPT !.stage = "image"]
    <3>1. /\ b \in [card : Poster, render : Nat, stage : {"link", "image"}]
          /\ b.card = r.card /\ b.render = r.render
      BY DEF InfoInv, RendersInOrder
    <3>2. logos' \subseteq logos \cup {b} /\ UNCHANGED <<render, title, focused, reactions, counts>>
      BY <2>3 DEF Info!GotLink
    <3> HIDE DEF b
    <3> QED BY <3>1, <3>2 DEF InfoInv, RendersInOrder
  <2>4. ASSUME NEW r \in counts, Info!GotReactions(r) PROVE RendersInOrder'
    BY <2>4 DEF Info!GotReactions, InfoInv, RendersInOrder
  <2>5. ASSUME NEW c \in Poster, Info!Preload(c) PROVE RendersInOrder'
    BY <2>5 DEF Info!Preload, InfoInv, RendersInOrder
  <2> QED BY <2>1, <2>2, <2>3, <2>4, <2>5
<1> QED BY <1>2, <1>3 DEF InfoInv

\* Whatever happens, the panel's invariant stays.
LEMMA InfoKept == ASSUME InfoInv, Info!Next \/ UNCHANGED Info!vars PROVE InfoInv'
<1>1. CASE UNCHANGED Info!vars
  BY <1>1 DEF Info!vars, InfoInv, RendersInOrder, DetailsCome
<1> QED BY <1>1, InfoUpdate, InfoDetails, InfoAnswers DEF Info!Next

\* The panel is about the card in focus.
LEMMA InfoFollows == ASSUME InfoInv PROVE Info!PanelIsOfFocus
BY DEF InfoInv, RendersInOrder, DetailsCome, Info!PanelIsOfFocus

-----------------------------------------------------------------------------
(* The search for a card's entry at MyShows (ShowMatch) *)

\* What a search can be at, by the kind and the title of its card.
StepFits(ch) ==
    /\ ch.step \in {"imdb", "kp"} => ch.card.kind = "tv" /\ ch.i = 1
    /\ ch.step = "alt" => ch.card.kind = "tv" /\ Match!Asian(ch.card.title) /\ ch.i \in DOMAIN ch.card.alts
    /\ ch.step = "english" => ch.card.kind = "tv" /\ Match!Asian(ch.card.title)

\* Searches that found an entry with their card open found its own.
MatchInv ==
    /\ open \in Work /\ list \in CachedLists
    /\ chains \subseteq [card : Work, step : Match!Steps, i : Nat, found : Match!Entry \cup {Nobody}, blind : BOOLEAN]
    /\ \A ch \in chains :
         /\ StepFits(ch)
         /\ ch.step = "set" /\ Match!Known(ch.card) /\ ch.blind = FALSE => Match!Own(ch.card, ch.found)
    /\ Match!FoundIsOwn

\* The first of some places is one of them.
LEMMA MatchFirst ==
    ASSUME NEW is, is \subseteq Nat, is # {}, NEW s
    PROVE  \E i \in is : Match!First(s, is) = s[i]
<1>1. \E i \in is : \A j \in is : i <= j
  BY LeastOf
<1> QED BY <1>1 DEF Match!First

\* What a title picks is among those that bear it.
LEMMA MatchPicks ==
    ASSUME NEW kind, NEW name, NEW year, Match!Picked(kind, name, year) # Nobody
    PROVE  \E i \in Match!Candidates(kind, name, year) :
             /\ Match!Picked(kind, name, year) = Catalog[i]
             /\ \/ \A j \in Match!Candidates(kind, name, year) : j = i
                \/ Catalog[i].date # 0 /\ Catalog[i].date = open.date
                \/ /\ kind # "movie"
                   /\ \A j \in Match!Candidates(kind, name, year) : Catalog[j].date = 0 \/ Catalog[j].date # open.date
<1> DEFINE cands == Match!Candidates(kind, name, year)
<1>1. cands \subseteq Nat /\ Match!OfTheDay(cands) \subseteq cands
  BY MatchAssumption DEF Match!Candidates, Match!OfTheDay
<1>2. CASE cands = {}
  BY <1>2 DEF Match!Picked
<1>3. CASE cands # {} /\ \A i, j \in cands : i = j
  <2>1. Match!Picked(kind, name, year) = Match!First(Catalog, cands)
    BY <1>3 DEF Match!Picked
  <2>2. PICK i \in cands : Match!First(Catalog, cands) = Catalog[i]
    BY <1>1, <1>3, MatchFirst
  <2> QED BY <1>3, <2>1, <2>2
<1>4. CASE cands # {} /\ ~\A i, j \in cands : i = j
  <2>1. Match!Picked(kind, name, year) = IF kind = "movie" THEN Match!BestMovie(cands) ELSE Match!BestShow(cands)
    BY <1>4 DEF Match!Picked
  <2>2. CASE Match!OfTheDay(cands) # {}
    <3>1. Match!Picked(kind, name, year) = Match!First(Catalog, Match!OfTheDay(cands))
      BY <2>1, <2>2 DEF Match!BestMovie, Match!BestShow
    <3>2. PICK i \in Match!OfTheDay(cands) : Match!First(Catalog, Match!OfTheDay(cands)) = Catalog[i]
      BY <1>1, <2>2, MatchFirst
    <3> QED BY <1>1, <3>1, <3>2 DEF Match!OfTheDay
  <2>3. CASE Match!OfTheDay(cands) = {}
    <3>1. kind # "movie" /\ Match!Picked(kind, name, year) = Match!First(Catalog, cands)
      BY <2>1, <2>3 DEF Match!BestMovie, Match!BestShow
    <3>2. PICK i \in cands : Match!First(Catalog, cands) = Catalog[i]
      BY <1>1, <1>4, MatchFirst
    <3>3. \A j \in cands : Catalog[j].date = 0 \/ Catalog[j].date # open.date
      BY <2>3 DEF Match!OfTheDay
    <3> QED BY <3>1, <3>2, <3>3
  <2> QED BY <2>2, <2>3
<1> QED BY <1>2, <1>3, <1>4

\* By a name of a card that is open and known, its own entry is found, if one is.
LEMMA MatchTitle ==
    ASSUME NEW c \in Work, open = c, Match!Known(c), NEW name, Match!Picked(c.kind, name, c.year) # Nobody,
           name = c.title \/ (Match!Asian(c.title) /\ name \in {c.english} \cup {c.alts[i] : i \in DOMAIN c.alts})
    PROVE  Match!Own(c, Match!Picked(c.kind, name, c.year))
<1> DEFINE cands == Match!Candidates(c.kind, name, c.year)
<1>1. ASSUME NEW i \in cands
      PROVE  /\ Match!Asian(c.title) \/ Catalog[i].date = c.date => Match!Own(c, Catalog[i])
  <2>1. Catalog[i] \in Match!Entry /\ Match!Namesake(c, Catalog[i])
    BY DEF Match!Candidates, Match!Entry, Match!Namesake
  <2> QED BY <2>1 DEF Match!Known
<1>2. name = c.title => \E i \in cands : Match!Own(c, Catalog[i]) /\ Catalog[i].date = c.date
  BY DEF Match!Known, Match!Entry, Match!Candidates
<1>3. c.date # 0
  BY DEF Match!Known
<1>4. PICK i \in cands :
        /\ Match!Picked(c.kind, name, c.year) = Catalog[i]
        /\ \/ \A j \in cands : j = i
           \/ Catalog[i].date # 0 /\ Catalog[i].date = open.date
           \/ /\ c.kind # "movie"
              /\ \A j \in cands : Catalog[j].date = 0 \/ Catalog[j].date # open.date
  BY MatchPicks
<1> HIDE DEF cands
<1> QED BY <1>1, <1>2, <1>3, <1>4

\* By a number an entry that has it and fits is found.
LEMMA MatchNumber ==
    ASSUME NEW number, NEW ids, NEW fits, Match!ByNumber(number, ids, fits) # Nobody
    PROVE  \E e \in Match!Entry : /\ Match!ByNumber(number, ids, fits) = e
                            /\ e.kind = "tv" /\ e \in fits /\ number # 0 /\ ids[e] = number
<1> DEFINE is == {i \in DOMAIN Catalog : /\ Catalog[i].kind = "tv" /\ Catalog[i] \in fits
                                         /\ number # 0 /\ ids[Catalog[i]] = number}
<1>1. is # {} /\ Match!ByNumber(number, ids, fits) = Match!First(Catalog, is)
  BY DEF Match!ByNumber
<1>2. is \subseteq Nat
  BY MatchAssumption
<1>3. PICK i \in is : Match!First(Catalog, is) = Catalog[i]
  <2> HIDE DEF is
  <2> QED BY <1>1, <1>2, MatchFirst
<1> QED BY <1>1, <1>3 DEF Match!Entry

\* What a search finds: an entry, or none; the card's own, if that is open and known.
LEMMA MatchFound ==
    ASSUME MatchInv, NEW ch \in chains, ch.step # "set", Match!Found(ch) # Nobody
    PROVE  Match!Found(ch) \in Match!Entry /\ (open = ch.card /\ Match!Known(ch.card) => Match!Own(ch.card, Match!Found(ch)))
<1> DEFINE c == ch.card
<1>1. c \in Work /\ StepFits(ch) /\ ch.step \in Match!Steps
  BY DEF MatchInv
<1>2. ASSUME NEW name, Match!Found(ch) = Match!Picked(c.kind, name, c.year),
             name = c.title \/ (Match!Asian(c.title) /\ name \in {c.english} \cup {c.alts[i] : i \in DOMAIN c.alts})
      PROVE  Match!Found(ch) \in Match!Entry /\ (open = c /\ Match!Known(c) => Match!Own(c, Match!Found(ch)))
  <2>1. Match!Found(ch) \in Match!Entry
    BY <1>2, MatchPicks DEF Match!Candidates, Match!Entry
  <2> QED BY <1>1, <1>2, <2>1, MatchTitle
<1>3. CASE ch.step = "imdb"
  <2> DEFINE ids == [e \in Match!Entry |-> e.imdb]
             fits == {e \in Match!Entry : Match!ImdbFits(c, e)}
  <2>1. Match!Found(ch) = Match!ByNumber(c.imdb, ids, fits)
    BY <1>3 DEF Match!Found
  <2>2. PICK e \in Match!Entry : Match!Found(ch) = e /\ e.kind = "tv" /\ e \in fits /\ c.imdb # 0 /\ ids[e] = c.imdb
    <3> HIDE DEF ids, fits
    <3> QED BY <2>1, MatchNumber
  <2> QED BY <1>1, <2>2, MatchAssumption
<1>4. CASE ch.step = "kp"
  <2> DEFINE ids == [e \in Match!Entry |-> e.kp]
  <2>1. Match!Found(ch) = Match!ByNumber(c.kp, ids, Match!Entry)
    BY <1>4 DEF Match!Found
  <2>2. PICK e \in Match!Entry : Match!Found(ch) = e /\ e.kind = "tv" /\ c.kp # 0 /\ ids[e] = c.kp
    <3> HIDE DEF ids
    <3> QED BY <2>1, MatchNumber
  <2> QED BY <1>1, <2>2, MatchAssumption
<1>5. CASE ch.step = "alt"
  BY <1>1, <1>2, <1>5 DEF Match!Found, StepFits
<1>6. CASE ch.step = "english"
  BY <1>1, <1>2, <1>6 DEF Match!Found, StepFits
<1>7. CASE ch.step = "title"
  BY <1>1, <1>2, <1>7 DEF Match!Found
<1> QED BY <1>1, <1>3, <1>4, <1>5, <1>6, <1>7 DEF Match!Steps

\* What is asked next fits the card as well.
LEMMA MatchAfter ==
    ASSUME MatchInv, NEW ch \in chains, ch.step # "set", NEW b \in Match!After(ch)
    PROVE  /\ b \in [card : Work, step : Match!Steps, i : Nat, found : Match!Entry \cup {Nobody}, blind : BOOLEAN]
           /\ StepFits(b) /\ b.step # "set"
<1> DEFINE R == [card : Work, step : Match!Steps, i : Nat, found : Match!Entry \cup {Nobody}, blind : BOOLEAN]
<1>1. ch \in R /\ StepFits(ch) /\ ch.step \in Match!Steps /\ ch.card \in Work /\ ch.i \in Nat
  BY DEF MatchInv
<1>2. /\ DOMAIN ch.card.alts = 1..Len(ch.card.alts) /\ Len(ch.card.alts) \in Nat
      /\ ch.card.alts # <<>> => Len(ch.card.alts) > 0
  BY <1>1, MatchAssumption
<1>3. CASE ch.step = "imdb"
  <2>1. b = [ch EXCEPT !.step = "kp"]
    BY <1>3 DEF Match!After
  <2> QED BY <1>1, <1>3, <2>1 DEF StepFits, Match!Steps
<1>4. CASE ch.step = "kp" /\ ~Match!Asian(ch.card.title)
  <2>1. b = [ch EXCEPT !.step = "title"]
    BY <1>4 DEF Match!After
  <2> QED BY <1>1, <2>1 DEF StepFits, Match!Steps
<1>5. CASE ch.step = "kp" /\ Match!Asian(ch.card.title) /\ ch.card.alts # <<>>
  <2>1. b = [ch EXCEPT !.step = "alt"]
    BY <1>5 DEF Match!After
  <2> QED BY <1>1, <1>2, <1>5, <2>1 DEF StepFits, Match!Steps
<1>6. CASE ch.step = "kp" /\ Match!Asian(ch.card.title) /\ ch.card.alts = <<>>
  <2>1. b = [ch EXCEPT !.step = "english"]
    BY <1>6 DEF Match!After
  <2> QED BY <1>1, <1>6, <2>1 DEF StepFits, Match!Steps
<1>7. CASE ch.step = "alt" /\ ch.i < Len(ch.card.alts)
  <2>1. b = [ch EXCEPT !.i = @ + 1]
    BY <1>7 DEF Match!After
  <2> QED BY <1>1, <1>2, <1>7, <2>1 DEF StepFits, Match!Steps
<1>8. CASE ch.step = "alt" /\ ~(ch.i < Len(ch.card.alts))
  <2>1. b = [ch EXCEPT !.step = "english"]
    BY <1>8 DEF Match!After
  <2> QED BY <1>1, <1>8, <2>1 DEF StepFits, Match!Steps
<1>9. CASE ch.step = "english"
  <2>1. b = [ch EXCEPT !.step = "title"]
    BY <1>9 DEF Match!After
  <2> QED BY <1>1, <1>9, <2>1 DEF StepFits, Match!Steps
<1>10. CASE ch.step = "title"
  BY <1>10 DEF Match!After
<1> QED BY <1>1, <1>3, <1>4, <1>5, <1>6, <1>7, <1>8, <1>9, <1>10 DEF Match!Steps

LEMMA MatchStart == ASSUME Match!Init PROVE MatchInv
BY DEF Match!Init, MatchInv, Match!FoundIsOwn

\* A search goes on, or has found an entry.
LEMMA MatchSearches ==
    ASSUME MatchInv, NEW ch \in chains, Match!Search(ch) \/ Match!SearchFails(ch)
    PROVE  MatchInv'
<1> DEFINE R == [card : Work, step : Match!Steps, i : Nat, found : Match!Entry \cup {Nobody}, blind : BOOLEAN]
<1>1. ch.step # "set" /\ UNCHANGED <<open, checked, pairs, list, counted, moves>> /\ ch \in R
  BY DEF Match!Search, Match!SearchFails, MatchInv
<1>2. Match!FoundIsOwn'
  BY <1>1 DEF MatchInv, Match!FoundIsOwn
<1>3. ASSUME chains' = (chains \ {ch}) \cup Match!After(ch) PROVE MatchInv'
  <2>1. \A b \in Match!After(ch) : b \in R /\ StepFits(b) /\ b.step # "set"
    BY <1>1, MatchAfter
  <2> QED BY <1>1, <1>2, <1>3, <2>1 DEF MatchInv
<1>4. CASE Match!Search(ch) /\ Match!Found(ch) # Nobody
  <2> DEFINE b == [ch EXCEPT !.step = "set", !.found = Match!Found(ch), !.blind = open # ch.card]
  <2>1. chains' = (chains \ {ch}) \cup {b}
    BY <1>4 DEF Match!Search
  <2>2. Match!Found(ch) \in Match!Entry /\ (open = ch.card /\ Match!Known(ch.card) => Match!Own(ch.card, Match!Found(ch)))
    BY <1>1, <1>4, MatchFound
  <2>3. PICK y \in BOOLEAN : y = (open # ch.card)
    OBVIOUS
  <2>4. b = [ch EXCEPT !.step = "set", !.found = Match!Found(ch), !.blind = y]
    BY <2>3
  <2>5. b \in R /\ b.card = ch.card /\ b.step = "set" /\ b.found = Match!Found(ch) /\ b.blind = y
    <3> HIDE DEF b
    <3> QED BY <1>1, <2>2, <2>4 DEF Match!Steps
  <2>6. y = FALSE => open = ch.card
    BY <2>3
  <2> HIDE DEF b
  <2>7. StepFits(b) /\ (Match!Known(b.card) /\ b.blind = FALSE => Match!Own(b.card, b.found))
    BY <2>2, <2>5, <2>6 DEF StepFits
  <2> QED BY <1>1, <1>2, <2>1, <2>5, <2>7 DEF MatchInv
<1>5. CASE Match!Search(ch) /\ Match!Found(ch) = Nobody
  BY <1>3, <1>5 DEF Match!Search
<1>6. CASE Match!SearchFails(ch)
  BY <1>3, <1>6 DEF Match!SearchFails
<1> QED BY <1>4, <1>5, <1>6

\* The status is set, or is not.
LEMMA MatchSets ==
    ASSUME MatchInv, NEW ch \in chains, Match!StatusSet(ch) \/ Match!StatusFails(ch)
    PROVE  MatchInv'
<1>1. chains' = chains \ {ch} /\ UNCHANGED <<open, list, counted>> /\ ch.step = "set" /\ ch.blind \in BOOLEAN
  BY DEF Match!StatusSet, Match!StatusFails, MatchInv
<1>2. ASSUME NEW p \in pairs', Match!Known(p.card), ~p.blind PROVE Match!Own(p.card, p.entry)
  <2>1. CASE p \in pairs
    BY <1>2, <2>1 DEF MatchInv, Match!FoundIsOwn
  <2>2. CASE p \notin pairs
    <3>1. p = [card |-> ch.card, entry |-> ch.found, blind |-> ch.blind]
      BY <2>2 DEF Match!StatusSet, Match!StatusFails
    <3>2. p.card = ch.card /\ p.entry = ch.found /\ p.blind = ch.blind
      BY <3>1
    <3>3. ch.blind = FALSE
      BY <1>1, <1>2, <3>2
    <3> QED BY <1>1, <1>2, <3>2, <3>3 DEF MatchInv
  <2> QED BY <2>1, <2>2
<1>3. Match!FoundIsOwn'
  BY <1>1, <1>2 DEF MatchInv, Match!FoundIsOwn
<1> QED BY <1>1, <1>3 DEF MatchInv

\* The viewer opens a card, or begins a search.
LEMMA MatchBegins ==
    ASSUME MatchInv, (\E c \in Work : Match!Open(c)) \/ Match!WatchMovie \/ Match!SetShow
    PROVE  MatchInv'
<1>1. CASE \E c \in Work : Match!Open(c)
  BY <1>1 DEF Match!Open, MatchInv, Match!FoundIsOwn
<1>2. ASSUME NEW step \in {"title", "imdb"}, Match!Begins(step), step = "imdb" => open.kind = "tv" PROVE MatchInv'
  <2> DEFINE b == Match!Chain(open, step)
  <2>1. /\ b \in [card : Work, step : Match!Steps, i : Nat, found : Match!Entry \cup {Nobody}, blind : BOOLEAN]
        /\ b.card = open /\ b.step = step /\ b.i = 1
    BY DEF Match!Chain, Match!Steps, MatchInv
  <2>2. chains' = chains \cup {b} /\ UNCHANGED <<open, checked, pairs, list, counted>>
    BY <1>2 DEF Match!Begins
  <2> HIDE DEF b
  <2>3. StepFits(b) /\ b.step # "set"
    BY <1>2, <2>1 DEF StepFits
  <2> QED BY <2>1, <2>2, <2>3 DEF MatchInv, Match!FoundIsOwn
<1> QED BY <1>1, <1>2 DEF Match!WatchMovie, Match!SetShow

\* An episode of the open show is counted down.
LEMMA MatchCounts == ASSUME MatchInv, Match!CountDown PROVE MatchInv'
<1> DEFINE e == Match!matchShowInArray(list, open)
           p == [card |-> open, entry |-> e]
<1>1. counted' = counted \cup {p} /\ UNCHANGED <<open, chains, checked, pairs, list, moves>>
  BY DEF Match!CountDown
<1>2. ASSUME \E i \in DOMAIN list : list[i].id = open.id PROVE Match!Own(open, e)
  <2> DEFINE is == {i \in DOMAIN list : list[i].id = open.id}
  <2>1. is # {} /\ is \subseteq Nat /\ open \in Work /\ list \in CachedLists
    BY <1>2, MatchAssumption DEF MatchInv
  <2>2. e = Match!First(list, is).entry
    BY <2>1 DEF Match!matchShowInArray
  <2>3. PICK i \in is : Match!First(list, is) = list[i]
    <3> HIDE DEF is
    <3> QED BY <2>1, MatchFirst
  <2> QED BY <2>1, <2>2, <2>3, MatchAssumption
<1>3. p.card = open /\ p.entry = e
  OBVIOUS
<1> HIDE DEF e, p
<1>4. Match!FoundIsOwn'
  BY <1>1, <1>2, <1>3 DEF MatchInv, Match!FoundIsOwn
<1> QED BY <1>1, <1>4 DEF MatchInv

\* Whatever happens, the invariant of the searches stays.
LEMMA MatchKept == ASSUME MatchInv, Match!Next \/ UNCHANGED Match!vars PROVE MatchInv'
<1>1. CASE UNCHANGED Match!vars
  BY <1>1 DEF Match!vars, MatchInv, Match!FoundIsOwn
<1> QED BY <1>1, MatchSearches, MatchSets, MatchBegins, MatchCounts DEF Match!Next

LEMMA MatchFinds == ASSUME MatchInv PROVE Match!FoundIsOwn
BY DEF MatchInv

-----------------------------------------------------------------------------
(* The badges and ticks of progress (ProgressBadges) *)

BadgeAnswers == [kind : Badges!Kinds, value : Badges!Badge \cup {Badges!Null}, late : BOOLEAN]
BadgeMessages == [mark : Badges!Mark, profile : Profile]

BadgeTypes ==
    /\ watched \in [Profile -> [Shows -> Badges!Badge]]
    /\ profile \in Profile
    /\ at \in {"main", "full", "files"} /\ of \in Shows
    /\ row \in [Shows -> Badges!Badge \cup {Badges!Gone}]
    /\ known \in [Shows -> Badges!Badge \cup {Badges!Null}] /\ cache \in [Shows -> Badges!Badge \cup {Badges!Null}]
    /\ asked \subseteq [kind : Badges!Kinds, show : Shows, profile : Profile, late : BOOLEAN]
    /\ \A a \in asked : a.late = FALSE => a.profile = profile
    /\ answers \in [Shows -> Seq(BadgeAnswers)]
    /\ posts \subseteq Badges!Post /\ messages \in Seq(BadgeMessages)

\* No request has failed.
BadgeWhole == \A s \in Shows : \A i \in DOMAIN answers[s] : answers[s][i].value # Badges!Null

\* An answer is as new as the server, or comes after a switch.
BadgeNew(s, i) == answers[s][i].value = Badges!Now(s) \/ answers[s][i].late = TRUE

BadgesNew(s, kinds) == \A i \in DOMAIN answers[s] : answers[s][i].kind \in kinds => BadgeNew(s, i)

\* What is shown of s will be told anew, asked for or answered by one of the sure kinds,
\* after which no old answer comes.
BadgeComes(s, sure, kinds) ==
    \/ Badges!Told(s)
    \/ \E a \in asked : a.show = s /\ a.kind \in sure
    \/ \E i \in DOMAIN answers[s] :
          /\ answers[s][i].kind \in sure
          /\ \A j \in DOMAIN answers[s] : i <= j /\ answers[s][j].kind \in kinds => BadgeNew(s, j)

\* ... or it is right, and no old answer comes.
BadgeKeeps(s, sure, kinds, right) ==
    BadgeComes(s, sure, kinds) \/ (right /\ BadgesNew(s, kinds))

BadgeLaid == {"poster", "all", "label"}
BadgeFull == {"poster", "all"}

\* What is known of a show, and laid onto its card when the page is returned to.
BadgeRight(s) ==
    /\ known[s] \in {Badges!Null, Badges!Now(s)}
    /\ row[s] \in {Badges!Now(s), Badges!Gone} \/ (at # "main" /\ known[s] = Badges!Now(s) /\ known[s] # Badges!Null)

BadgeRow == \A s \in Shows : BadgeKeeps(s, {"all"}, BadgeLaid, BadgeRight(s))
BadgePoster ==
    \A s \in Shows : at = "full" /\ of = s => BadgeKeeps(s, BadgeFull, BadgeFull, poster = Badges!Now(s))
BadgeLabel ==
    \A s \in Shows :
        at = "files" /\ of = s =>
            \/ BadgeKeeps(s, {"label"}, {"label"}, label = Badges!Now(s))
            \/ \E a \in asked : a.show = s /\ a.kind = "all"
            \/ \E i \in DOMAIN answers[s] : answers[s][i].kind = "all"

\* Ticks are right, but for marks made here that are on their way.
BadgeTicks ==
    \A s \in Shows :
        \/ cache[s] = Badges!Null \/ Badges!Told(s)
        \/ \A e \in Episode :
              \/ (e \in cache[s]) <=> (e \in Badges!Now(s))
              \/ e \in cache[s] /\ [mark |-> [show |-> s, episode |-> e, on |-> TRUE],
                                    profile |-> profile, stored |-> "no"] \in posts

BadgesInv ==
    /\ BadgeTypes
    /\ missed = {} => BadgeWhole /\ BadgeRow /\ BadgePoster /\ BadgeLabel /\ BadgeTicks

LEMMA BadgesStart == Badges!Init => BadgesInv
<1> SUFFICES ASSUME Badges!Init PROVE BadgesInv
  OBVIOUS
<1>1. /\ watched \in [Profile -> [Shows -> {{}}]] /\ profile \in Profile /\ at = "main" /\ of \in Shows
      /\ row = Badges!Listed(profile) /\ known = [s \in Shows |-> Badges!Null] /\ cache = [s \in Shows |-> Badges!Null]
      /\ asked = {} /\ answers = [s \in Shows |-> <<>>] /\ posts = {} /\ messages = <<>>
  BY DEF Badges!Init
<1>2. watched \in [Profile -> [Shows -> Badges!Badge]]
  BY <1>1 DEF Badges!Badge
<1>3. row \in [Shows -> Badges!Badge \cup {Badges!Gone}] /\ \A s \in Shows : row[s] \in {Badges!Now(s), Badges!Gone}
  BY <1>1, <1>2 DEF Badges!Listed, Badges!Now
<1>4. BadgeTypes
  BY <1>1, <1>2, <1>3 DEF BadgeTypes
<1>5. \A s \in Shows : answers[s] = <<>> /\ known[s] = Badges!Null /\ cache[s] = Badges!Null
  BY <1>1
<1>6. BadgeWhole /\ BadgePoster /\ BadgeLabel /\ BadgeTicks
  BY <1>1, <1>5 DEF BadgeWhole, BadgePoster, BadgeLabel, BadgeTicks
<1>7. BadgeRow
  <2> SUFFICES ASSUME NEW s \in Shows PROVE BadgeKeeps(s, {"all"}, BadgeLaid, BadgeRight(s))
    BY DEF BadgeRow
  <2>1. BadgeRight(s)
    BY <1>3, <1>5 DEF BadgeRight
  <2>2. BadgesNew(s, BadgeLaid)
    BY <1>5 DEF BadgesNew
  <2> QED BY <2>1, <2>2 DEF BadgeKeeps
<1> QED BY <1>4, <1>6, <1>7 DEF BadgesInv

LEMMA BadgeAsk ==
    ASSUME BadgeTypes, NEW k \in Badges!Kinds, NEW s \in Shows
    PROVE  /\ Badges!Ask(k, s) \in [kind : Badges!Kinds, show : Shows, profile : Profile, late : BOOLEAN]
           /\ (Badges!Ask(k, s)).kind = k /\ (Badges!Ask(k, s)).show = s /\ (Badges!Ask(k, s)).profile = profile
<1>1. PICK no \in BOOLEAN : no = FALSE
  OBVIOUS
<1>2. PICK a : a = [kind |-> k, show |-> s, profile |-> profile, late |-> no]
  OBVIOUS
<1>3. profile \in Profile
  BY DEF BadgeTypes
<1>4. a \in [kind : Badges!Kinds, show : Shows, profile : Profile, late : BOOLEAN]
  BY <1>2, <1>3
<1>5. a.kind = k /\ a.show = s /\ a.profile = profile
  BY <1>2
<1>6. Badges!Ask(k, s) = a
  BY <1>1, <1>2 DEF Badges!Ask
<1> QED BY <1>4, <1>5, <1>6

\* What is neither answered nor changed, or told anew, is as it was.
LEMMA BadgeStay ==
    ASSUME NEW s, answers'[s] = answers[s], \A a \in asked : a \in asked',
           Badges!Now(s)' = Badges!Now(s), Badges!Told(s) => Badges!Told(s)'
    PROVE  /\ \A sure, kinds : BadgeComes(s, sure, kinds) => BadgeComes(s, sure, kinds)'
           /\ \A kinds : BadgesNew(s, kinds) => BadgesNew(s, kinds)'
<1>1. \A i : BadgeNew(s, i) => BadgeNew(s, i)'
  BY DEF BadgeNew
<1>2. ASSUME NEW sure, NEW kinds, BadgeComes(s, sure, kinds) PROVE BadgeComes(s, sure, kinds)'
  <2>1. CASE Badges!Told(s)
    BY <2>1 DEF BadgeComes
  <2>2. CASE \E a \in asked : a.show = s /\ a.kind \in sure
    BY <2>2 DEF BadgeComes
  <2>3. CASE \E i \in DOMAIN answers[s] :
               /\ answers[s][i].kind \in sure
               /\ \A j \in DOMAIN answers[s] : i <= j /\ answers[s][j].kind \in kinds => BadgeNew(s, j)
    BY <1>1, <2>3 DEF BadgeComes
  <2> QED BY <1>2, <2>1, <2>2, <2>3 DEF BadgeComes
<1>3. \A kinds : BadgesNew(s, kinds) => BadgesNew(s, kinds)'
  BY <1>1 DEF BadgesNew
<1> QED BY <1>2, <1>3

\* A step that shows nothing, and after which whatever has changed is asked for or told.
LEMMA BadgeUnseen ==
    ASSUME BadgeTypes, BadgeRow, BadgePoster, BadgeLabel,
           UNCHANGED <<at, of, row, poster, label, known, answers>>,
           \A a \in asked : a \in asked',
           \A s \in Shows :
              \/ Badges!Told(s)'
              \/ \E a \in asked' : a.show = s /\ a.kind = "all"
              \/ Badges!Now(s)' = Badges!Now(s) /\ ~Badges!Told(s)
    PROVE  BadgeRow' /\ BadgePoster' /\ BadgeLabel'
<1>1. ASSUME NEW s \in Shows, Badges!Told(s)' \/ \E a \in asked' : a.show = s /\ a.kind = "all"
      PROVE  \A sure, kinds : "all" \in sure \/ Badges!Told(s)' => BadgeComes(s, sure, kinds)'
  BY <1>1 DEF BadgeComes
<1>2. BadgeRow'
  <2> SUFFICES ASSUME NEW s \in Shows PROVE BadgeKeeps(s, {"all"}, BadgeLaid, BadgeRight(s))'
    BY DEF BadgeRow
  <2>1. CASE Badges!Told(s)' \/ \E a \in asked' : a.show = s /\ a.kind = "all"
    BY <1>1, <2>1 DEF BadgeKeeps
  <2>2. CASE Badges!Now(s)' = Badges!Now(s) /\ ~Badges!Told(s)
    <3>1. BadgeKeeps(s, {"all"}, BadgeLaid, BadgeRight(s))
      BY DEF BadgeRow
    <3>2. BadgeRight(s) => BadgeRight(s)'
      BY <2>2 DEF BadgeRight
    <3> QED BY <2>2, <3>1, <3>2, BadgeStay DEF BadgeKeeps
  <2> QED BY <2>1, <2>2
<1>3. BadgePoster'
  <2> SUFFICES ASSUME NEW s \in Shows, at = "full", of = s
               PROVE  BadgeKeeps(s, BadgeFull, BadgeFull, poster = Badges!Now(s))'
    BY DEF BadgePoster
  <2>1. CASE Badges!Told(s)' \/ \E a \in asked' : a.show = s /\ a.kind = "all"
    BY <1>1, <2>1 DEF BadgeKeeps, BadgeFull
  <2>2. CASE Badges!Now(s)' = Badges!Now(s) /\ ~Badges!Told(s)
    <3>1. BadgeKeeps(s, BadgeFull, BadgeFull, poster = Badges!Now(s))
      BY DEF BadgePoster
    <3> QED BY <2>2, <3>1, BadgeStay DEF BadgeKeeps
  <2> QED BY <2>1, <2>2
<1>4. BadgeLabel'
  <2> SUFFICES ASSUME NEW s \in Shows, at = "files", of = s
               PROVE  \/ BadgeKeeps(s, {"label"}, {"label"}, label = Badges!Now(s))'
                      \/ \E a \in asked' : a.show = s /\ a.kind = "all"
                      \/ \E i \in DOMAIN answers'[s] : answers'[s][i].kind = "all"
    BY DEF BadgeLabel
  <2>1. CASE Badges!Told(s)'
    BY <2>1 DEF BadgeKeeps, BadgeComes
  <2>2. CASE Badges!Now(s)' = Badges!Now(s) /\ ~Badges!Told(s)
    <3>1. \/ BadgeKeeps(s, {"label"}, {"label"}, label = Badges!Now(s))
          \/ \E a \in asked : a.show = s /\ a.kind = "all"
          \/ \E i \in DOMAIN answers[s] : answers[s][i].kind = "all"
      BY DEF BadgeLabel
    <3> QED BY <2>2, <3>1, BadgeStay DEF BadgeKeeps
  <2> QED BY <2>1, <2>2
<1> QED BY <1>2, <1>3, <1>4

-----------------------------------------------------------------------------
(* Its screens *)

LEMMA BadgeSameTold ==
    ASSUME UNCHANGED <<profile, posts, messages>>
    PROVE  \A s : Badges!Told(s)' <=> Badges!Told(s)
BY DEF Badges!Told

LEMMA BadgeSameTicks ==
    ASSUME UNCHANGED <<watched, profile, cache, posts, messages>>, BadgeTicks
    PROVE  BadgeTicks'
<1>1. \A s : Badges!Now(s)' = Badges!Now(s)
  BY DEF Badges!Now
<1> QED BY <1>1, BadgeSameTold DEF BadgeTicks

\* A step to another screen.
LEMMA BadgeScreen ==
    ASSUME BadgeWhole, BadgeRow, BadgeTicks,
           UNCHANGED <<watched, profile, known, cache, answers, posts, messages>>,
           \A a \in asked : a \in asked',
           \A s \in Shows : BadgeRight(s) => BadgeRight(s)'
    PROVE  BadgeWhole' /\ BadgeRow' /\ BadgeTicks'
<1>1. \A s \in Shows : Badges!Now(s)' = Badges!Now(s)
  BY DEF Badges!Now
<1>2. BadgeWhole'
  BY DEF BadgeWhole
<1>3. BadgeRow'
  <2> SUFFICES ASSUME NEW s \in Shows PROVE BadgeKeeps(s, {"all"}, BadgeLaid, BadgeRight(s))'
    BY DEF BadgeRow
  <2>1. BadgeKeeps(s, {"all"}, BadgeLaid, BadgeRight(s))
    BY DEF BadgeRow
  <2>2. Badges!Told(s) => Badges!Told(s)'
    BY BadgeSameTold
  <2>3. /\ BadgeComes(s, {"all"}, BadgeLaid) => BadgeComes(s, {"all"}, BadgeLaid)'
        /\ BadgesNew(s, BadgeLaid) => BadgesNew(s, BadgeLaid)'
    BY <1>1, <2>2, BadgeStay
  <2> QED BY <2>1, <2>3 DEF BadgeKeeps
<1> QED BY <1>2, <1>3, BadgeSameTicks

BadgesGood == BadgeWhole /\ BadgeRow /\ BadgePoster /\ BadgeLabel /\ BadgeTicks

LEMMA BadgesOpenCard ==
    ASSUME BadgeTypes, BadgesGood, NEW s \in Shows, Badges!OpenCard(s)
    PROVE  BadgesGood'
<1>1. /\ UNCHANGED <<watched, profile, row, known, cache, answers, posts, messages>>
      /\ at' = "full" /\ of' = s /\ Badges!Ask("poster", s) \in asked' /\ asked \subseteq asked'
  BY DEF Badges!OpenCard
<1>2. \A t \in Shows : BadgeRight(t) => BadgeRight(t)'
  BY <1>1 DEF BadgeRight, Badges!Now
<1>3. BadgeWhole' /\ BadgeRow' /\ BadgeTicks'
  BY <1>1, <1>2, BadgeScreen DEF BadgesGood
<1>4. (Badges!Ask("poster", s)).kind = "poster" /\ (Badges!Ask("poster", s)).show = s
  BY BadgeAsk DEF Badges!Kinds
<1>5. BadgeComes(s, BadgeFull, BadgeFull)'
  BY <1>1, <1>4 DEF BadgeComes, BadgeFull
<1>6. BadgePoster'
  BY <1>1, <1>5 DEF BadgePoster, BadgeKeeps
<1>7. BadgeLabel'
  BY <1>1 DEF BadgeLabel
<1> QED BY <1>3, <1>6, <1>7 DEF BadgesGood

LEMMA BadgesOpenFiles ==
    ASSUME BadgeTypes, BadgesGood, Badges!OpenFiles
    PROVE  BadgesGood'
<1>1. /\ UNCHANGED <<watched, profile, of, row, known, cache, answers, posts, messages>>
      /\ at = "full" /\ at' = "files" /\ Badges!Ask("label", of) \in asked' /\ asked \subseteq asked'
  BY DEF Badges!OpenFiles
<1>2. \A t \in Shows : BadgeRight(t) => BadgeRight(t)'
  BY <1>1 DEF BadgeRight, Badges!Now
<1>3. BadgeWhole' /\ BadgeRow' /\ BadgeTicks'
  BY <1>1, <1>2, BadgeScreen DEF BadgesGood
<1>4. PICK s \in Shows : s = of
  BY DEF BadgeTypes
<1>5. (Badges!Ask("label", s)).kind = "label" /\ (Badges!Ask("label", s)).show = s
  BY BadgeAsk DEF Badges!Kinds
<1>6. BadgeComes(s, {"label"}, {"label"})'
  BY <1>1, <1>4, <1>5 DEF BadgeComes
<1>7. BadgeLabel'
  BY <1>1, <1>4, <1>6 DEF BadgeLabel, BadgeKeeps
<1>8. BadgePoster'
  BY <1>1 DEF BadgePoster
<1> QED BY <1>3, <1>7, <1>8 DEF BadgesGood

LEMMA BadgesBackToMain ==
    ASSUME BadgeTypes, BadgesGood, Badges!BackToMain
    PROVE  BadgesGood'
<1>1. /\ UNCHANGED <<watched, profile, known, cache, asked, answers, posts, messages>>
      /\ at' = "main"
      /\ row' = [s \in Shows |-> CASE row[s] = Badges!Gone \/ known[s] = Episode -> Badges!Gone
                                  [] known[s] = Badges!Null -> row[s]
                                  [] OTHER -> known[s]]
  BY DEF Badges!BackToMain
<1>2. ASSUME NEW t \in Shows, BadgeRight(t) PROVE BadgeRight(t)'
  <2>1. Badges!Now(t)' = Badges!Now(t) /\ known' = known
    BY <1>1 DEF Badges!Now
  <2>2. row'[t] = CASE row[t] = Badges!Gone \/ known[t] = Episode -> Badges!Gone
                    [] known[t] = Badges!Null -> row[t]
                    [] OTHER -> known[t]
    BY <1>1
  <2>3. /\ known[t] \in {Badges!Null, Badges!Now(t)}
        /\ row[t] \in {Badges!Now(t), Badges!Gone} \/ (known[t] = Badges!Now(t) /\ known[t] # Badges!Null)
    BY <1>2 DEF BadgeRight
  <2>4. CASE row[t] = Badges!Gone \/ known[t] = Episode
    BY <2>1, <2>2, <2>3, <2>4 DEF BadgeRight
  <2>5. CASE ~(row[t] = Badges!Gone \/ known[t] = Episode) /\ known[t] = Badges!Null
    <3>1. row'[t] = row[t]
      BY <2>2, <2>5
    <3> QED BY <2>1, <2>3, <2>5, <3>1 DEF BadgeRight
  <2>6. CASE ~(row[t] = Badges!Gone \/ known[t] = Episode) /\ known[t] # Badges!Null
    <3>1. row'[t] = known[t]
      BY <2>2, <2>6
    <3> QED BY <2>1, <2>3, <2>6, <3>1 DEF BadgeRight
  <2> QED BY <2>4, <2>5, <2>6
<1>3. BadgeWhole' /\ BadgeRow' /\ BadgeTicks'
  BY <1>1, <1>2, BadgeScreen DEF BadgesGood
<1>4. BadgePoster' /\ BadgeLabel'
  BY <1>1 DEF BadgePoster, BadgeLabel
<1> QED BY <1>3, <1>4 DEF BadgesGood

LEMMA BadgesSwitchProfile ==
    ASSUME BadgeTypes, BadgesGood, NEW p \in Profile, Badges!SwitchProfile(p)
    PROVE  BadgesGood'
<1>1. /\ at = "main" /\ at' = at /\ profile' = p /\ watched' = watched /\ row' = Badges!Listed(p)
      /\ known' = [s \in Shows |-> Badges!Null] /\ cache' = [s \in Shows |-> Badges!Null]
      /\ answers' = [s \in Shows |-> [i \in DOMAIN answers[s] |-> [answers[s][i] EXCEPT !.late = TRUE]]]
  BY DEF Badges!SwitchProfile
<1>2. \A s \in Shows : answers'[s] = [i \in DOMAIN answers[s] |-> [answers[s][i] EXCEPT !.late = TRUE]]
  BY <1>1
<1>3. ASSUME NEW s \in Shows, NEW i \in DOMAIN answers[s]
      PROVE  answers'[s][i].value = answers[s][i].value /\ answers'[s][i].late = TRUE
  <2>1. answers[s] \in Seq(BadgeAnswers)
    BY DEF BadgeTypes
  <2>2. answers[s][i] \in BadgeAnswers
    BY <2>1
  <2>3. PICK a \in BadgeAnswers : a = answers[s][i]
    BY <2>2
  <2>4. answers'[s][i] = [a EXCEPT !.late = TRUE]
    BY <1>2, <2>3
  <2>5. /\ [a EXCEPT !.late = TRUE].value = a.value
        /\ [a EXCEPT !.late = TRUE].late = TRUE
    BY DEF BadgeAnswers
  <2> QED BY <2>3, <2>4, <2>5
<1>4. \A s \in Shows : DOMAIN answers'[s] = DOMAIN answers[s]
  BY <1>2
<1>5. BadgeWhole'
  <2>1. \A s \in Shows : \A i \in DOMAIN answers[s] : answers[s][i].value # Badges!Null
    BY DEF BadgesGood, BadgeWhole
  <2>2. ASSUME NEW s \in Shows, NEW i \in DOMAIN answers'[s] PROVE answers'[s][i].value # Badges!Null
    <3>1. i \in DOMAIN answers[s]
      BY <1>4
    <3> QED BY <1>3, <2>1, <3>1
  <2> QED BY <2>2 DEF BadgeWhole
<1>6. BadgeRow'
  <2> SUFFICES ASSUME NEW s \in Shows PROVE BadgeKeeps(s, {"all"}, BadgeLaid, BadgeRight(s))'
    BY DEF BadgeRow
  <2>1. BadgesNew(s, BadgeLaid)'
    BY <1>3, <1>4 DEF BadgesNew, BadgeNew
  <2>2. row'[s] \in {Badges!Now(s)', Badges!Gone} /\ known'[s] = Badges!Null
    BY <1>1 DEF Badges!Listed, Badges!Now
  <2>3. BadgeRight(s)'
    BY <2>2 DEF BadgeRight
  <2> QED BY <2>1, <2>3 DEF BadgeKeeps
<1>7. BadgePoster' /\ BadgeLabel'
  BY <1>1 DEF BadgePoster, BadgeLabel
<1>8. BadgeTicks'
  BY <1>1 DEF BadgeTicks
<1> QED BY <1>5, <1>6, <1>7, <1>8 DEF BadgesGood

-----------------------------------------------------------------------------
(* Its changes *)

LEMMA BadgesMarkHere ==
    ASSUME BadgeTypes, BadgesGood, NEW e \in Episode, NEW on \in BOOLEAN, Badges!MarkHere(e, on)
    PROVE  BadgesGood'
<1> DEFINE m == [show |-> of, episode |-> e, on |-> on]
<1>1. /\ UNCHANGED <<watched, profile, at, of, row, poster, label, known, asked, answers, messages>>
      /\ posts' = posts \cup {[mark |-> m, profile |-> profile, stored |-> "no"]}
      /\ IF on /\ m \notin optimistic
         THEN /\ optimistic' = {m}
              /\ cache' = IF cache[of] = Badges!Null THEN cache ELSE [cache EXCEPT ![of] = @ \cup {e}]
         ELSE UNCHANGED <<optimistic, cache>>
  BY DEF Badges!MarkHere
<1>2. \A s \in Shows : Badges!Now(s)' = Badges!Now(s)
  BY <1>1 DEF Badges!Now
<1>3. ASSUME NEW s \in Shows, Badges!Told(s) PROVE Badges!Told(s)'
  BY <1>1, <1>3 DEF Badges!Told
<1>4. BadgeRow' /\ BadgePoster' /\ BadgeLabel'
  <2>1. ASSUME NEW s \in Shows
        PROVE  \/ Badges!Told(s)' \/ \E a \in asked' : a.show = s /\ a.kind = "all"
               \/ Badges!Now(s)' = Badges!Now(s) /\ ~Badges!Told(s)
    BY <1>2, <1>3
  <2>2. \A a \in asked : a \in asked'
    BY <1>1
  <2> QED BY <1>1, <2>1, <2>2, BadgeUnseen DEF BadgesGood
<1>5. BadgeWhole'
  BY <1>1 DEF BadgesGood, BadgeWhole
<1>6. BadgeTicks'
  <2> SUFFICES ASSUME NEW s \in Shows
               PROVE  \/ cache'[s] = Badges!Null \/ Badges!Told(s)'
                      \/ \A f \in Episode :
                            \/ (f \in cache'[s]) <=> (f \in Badges!Now(s)')
                            \/ f \in cache'[s] /\ [mark |-> [show |-> s, episode |-> f, on |-> TRUE],
                                                   profile |-> profile', stored |-> "no"] \in posts'
    BY DEF BadgeTicks
  <2>1. \/ cache[s] = Badges!Null \/ Badges!Told(s)
        \/ \A f \in Episode :
              \/ (f \in cache[s]) <=> (f \in Badges!Now(s))
              \/ f \in cache[s] /\ [mark |-> [show |-> s, episode |-> f, on |-> TRUE],
                                    profile |-> profile, stored |-> "no"] \in posts
    BY DEF BadgesGood, BadgeTicks
  <2>2. CASE cache'[s] = cache[s]
    BY <1>1, <1>2, <1>3, <2>1, <2>2
  <2>3. CASE cache'[s] # cache[s]
    <3>1. cache \in [Shows -> Badges!Badge \cup {Badges!Null}]
      BY DEF BadgeTypes
    <3>2. s = of /\ on = TRUE /\ cache[s] # Badges!Null /\ cache'[s] = cache[s] \cup {e}
      BY <1>1, <2>3, <3>1
    <3>3. [mark |-> [show |-> s, episode |-> e, on |-> TRUE], profile |-> profile, stored |-> "no"] \in posts'
      BY <1>1, <3>2
    <3> QED BY <1>1, <1>2, <1>3, <2>1, <3>2, <3>3
  <2> QED BY <2>2, <2>3
<1> QED BY <1>4, <1>5, <1>6 DEF BadgesGood

LEMMA BadgesMarkElsewhere ==
    ASSUME BadgeTypes, BadgesGood, NEW p \in Profile, NEW m \in Badges!Mark, Badges!MarkElsewhere(p, m)
    PROVE  BadgesGood'
<1> DEFINE new == [mark |-> m, profile |-> p]
<1>1. /\ UNCHANGED <<profile, at, of, row, poster, label, known, cache, asked, answers, posts>>
      /\ watched' = [watched EXCEPT ![p][m.show] = Badges!Apply(@, m)]
      /\ messages' = Append(messages, new)
  BY DEF Badges!MarkElsewhere
<1>2. /\ messages \in Seq(BadgeMessages) /\ new \in BadgeMessages
      /\ watched \in [Profile -> [Shows -> Badges!Badge]] /\ profile \in Profile
  BY DEF BadgeTypes, BadgeMessages
<1>3. /\ Len(messages') = Len(messages) + 1 /\ messages'[Len(messages) + 1] = new
      /\ \A i \in 1..Len(messages) : messages'[i] = messages[i]
      /\ DOMAIN messages = 1..Len(messages) /\ DOMAIN messages' = 1..(Len(messages) + 1)
      /\ Len(messages) \in Nat
  BY <1>1, <1>2
<1>4. ASSUME NEW s \in Shows, Badges!Told(s) PROVE Badges!Told(s)'
  <2>1. CASE \E i \in DOMAIN messages : messages[i].profile = profile /\ messages[i].mark.show = s
    BY <1>1, <1>3, <2>1 DEF Badges!Told
  <2>2. CASE \E q \in posts : q.stored = "new" /\ q.profile = profile /\ q.mark.show = s
    BY <1>1, <2>2 DEF Badges!Told
  <2> QED BY <1>4, <2>1, <2>2 DEF Badges!Told
<1>5. ASSUME NEW s \in Shows PROVE Badges!Told(s)' \/ Badges!Now(s)' = Badges!Now(s)
  <2>1. CASE p = profile /\ m.show = s
    <3>1. messages'[Len(messages) + 1].profile = profile' /\ messages'[Len(messages) + 1].mark.show = s
      BY <1>1, <1>3, <2>1
    <3>2. Len(messages) + 1 \in DOMAIN messages'
      BY <1>3
    <3> QED BY <3>1, <3>2 DEF Badges!Told
  <2>2. CASE p # profile \/ m.show # s
    BY <1>1, <1>2, <2>2 DEF Badges!Now
  <2> QED BY <2>1, <2>2
<1>6. BadgeRow' /\ BadgePoster' /\ BadgeLabel'
  <2>1. ASSUME NEW s \in Shows
        PROVE  \/ Badges!Told(s)' \/ \E a \in asked' : a.show = s /\ a.kind = "all"
               \/ Badges!Now(s)' = Badges!Now(s) /\ ~Badges!Told(s)
    BY <1>4, <1>5
  <2>2. \A a \in asked : a \in asked'
    BY <1>1
  <2> QED BY <1>1, <2>1, <2>2, BadgeUnseen DEF BadgesGood
<1>7. BadgeWhole'
  BY <1>1 DEF BadgesGood, BadgeWhole
<1>8. BadgeTicks'
  BY <1>1, <1>4, <1>5 DEF BadgesGood, BadgeTicks
<1> QED BY <1>6, <1>7, <1>8 DEF BadgesGood

LEMMA BadgesStored ==
    ASSUME BadgeTypes, BadgesGood, NEW p \in posts, Badges!Stored(p)
    PROVE  BadgesGood'
<1> DEFINE before == watched[p.profile][p.mark.show]
           after == Badges!Apply(before, p.mark)
           new == [p EXCEPT !.stored = IF after = before THEN "same" ELSE "new"]
<1>1. /\ UNCHANGED <<profile, at, of, row, poster, label, known, cache, asked, answers, messages>>
      /\ p.stored = "no"
      /\ watched' = [watched EXCEPT ![p.profile][p.mark.show] = after]
      /\ posts' = (posts \ {p}) \cup {new}
  BY DEF Badges!Stored
<1>2. /\ p \in Badges!Post /\ p.mark \in Badges!Mark /\ p.profile \in Profile /\ p.mark.show \in Shows
      /\ watched \in [Profile -> [Shows -> Badges!Badge]] /\ profile \in Profile
  BY DEF BadgeTypes, Badges!Post, Badges!Mark
<1>3. /\ new.mark = p.mark /\ new.profile = p.profile
      /\ new.stored = IF after = before THEN "same" ELSE "new"
  BY <1>2 DEF Badges!Post
<1>4. ASSUME NEW s \in Shows, Badges!Told(s) PROVE Badges!Told(s)'
  BY <1>1, <1>4 DEF Badges!Told
<1>5. ASSUME NEW s \in Shows, p.profile # profile \/ p.mark.show # s \/ after = before PROVE Badges!Now(s)' = Badges!Now(s)
  <2>1. CASE p.profile # profile
    BY <1>1, <1>2, <2>1 DEF Badges!Now
  <2>2. CASE p.profile = profile /\ p.mark.show # s
    BY <1>1, <1>2, <2>2 DEF Badges!Now
  <2>3. CASE p.profile = profile /\ p.mark.show = s /\ after = before
    BY <1>1, <1>2, <2>3 DEF Badges!Now
  <2> QED BY <1>5, <2>1, <2>2, <2>3
<1>6. ASSUME NEW s \in Shows, ~(p.profile # profile \/ p.mark.show # s \/ after = before) PROVE Badges!Told(s)'
  <2>1. new \in posts' /\ new.stored = "new" /\ new.profile = profile' /\ new.mark.show = s
    BY <1>1, <1>3, <1>6
  <2> QED BY <2>1 DEF Badges!Told
<1>7. BadgeRow' /\ BadgePoster' /\ BadgeLabel'
  <2>1. ASSUME NEW s \in Shows
        PROVE  \/ Badges!Told(s)' \/ \E a \in asked' : a.show = s /\ a.kind = "all"
               \/ Badges!Now(s)' = Badges!Now(s) /\ ~Badges!Told(s)
    BY <1>4, <1>5, <1>6
  <2>2. \A a \in asked : a \in asked'
    BY <1>1
  <2> QED BY <1>1, <2>1, <2>2, BadgeUnseen DEF BadgesGood
<1>8. BadgeWhole'
  BY <1>1 DEF BadgesGood, BadgeWhole
<1>9. BadgeTicks'
  <2> SUFFICES ASSUME NEW s \in Shows, cache[s] # Badges!Null, ~Badges!Told(s)', NEW f \in Episode
               PROVE  \/ (f \in cache[s]) <=> (f \in Badges!Now(s)')
                      \/ f \in cache[s] /\ [mark |-> [show |-> s, episode |-> f, on |-> TRUE],
                                            profile |-> profile, stored |-> "no"] \in posts'
    BY <1>1 DEF BadgeTicks
  <2>1. \/ (f \in cache[s]) <=> (f \in Badges!Now(s))
        \/ f \in cache[s] /\ [mark |-> [show |-> s, episode |-> f, on |-> TRUE],
                              profile |-> profile, stored |-> "no"] \in posts
    BY <1>4 DEF BadgesGood, BadgeTicks
  <2>2. p.profile # profile \/ p.mark.show # s \/ after = before
    BY <1>6
  <2>3. Badges!Now(s)' = Badges!Now(s)
    BY <1>5, <2>2
  <2>4. PICK r : r = [mark |-> [show |-> s, episode |-> f, on |-> TRUE], profile |-> profile, stored |-> "no"]
    OBVIOUS
  <2>5. CASE f \in cache[s] /\ r \in posts /\ r # p
    BY <1>1, <2>4, <2>5
  <2>6. CASE f \in cache[s] /\ r = p
    <3>1. p.profile = profile /\ p.mark.show = s /\ p.mark.episode = f /\ p.mark.on = TRUE
      BY <2>4, <2>6
    <3>2. after = before /\ before = Badges!Now(s)
      BY <2>2, <3>1 DEF Badges!Now
    <3>3. after = before \cup {f}
      BY <3>1 DEF Badges!Apply
    <3> QED BY <2>3, <2>6, <3>2, <3>3
  <2> QED BY <2>1, <2>3, <2>4, <2>5, <2>6
<1> QED BY <1>7, <1>8, <1>9 DEF BadgesGood

\* A change is heard of.
LEMMA BadgesHeard ==
    ASSUME BadgeTypes, BadgesGood, NEW m \in Badges!Mark, NEW new \in BOOLEAN, Badges!OnTimecodeSaved(m, new),
           missed' = {},
           UNCHANGED <<watched, profile, at, of, row, poster, label, known, answers>>,
           \A s \in Shows : Badges!Told(s) => Badges!Told(s)' \/ (s = m.show /\ new = TRUE),
           \A q \in posts : q.stored = "no" => q \in posts'
    PROVE  BadgesGood'
<1>1. \A s \in Shows : Badges!Now(s)' = Badges!Now(s)
  BY DEF Badges!Now
<1>2. BadgeWhole'
  BY DEF BadgesGood, BadgeWhole
<1>3. CASE m \in confirmed
  <2>1. new = FALSE /\ UNCHANGED <<cache, asked>>
    BY <1>3 DEF Badges!OnTimecodeSaved
  <2>2. BadgeRow' /\ BadgePoster' /\ BadgeLabel'
    <3>1. ASSUME NEW s \in Shows
          PROVE  \/ Badges!Told(s)' \/ \E a \in asked' : a.show = s /\ a.kind = "all"
                 \/ Badges!Now(s)' = Badges!Now(s) /\ ~Badges!Told(s)
      BY <1>1, <2>1
    <3>2. \A a \in asked : a \in asked'
      BY <2>1
    <3> QED BY <3>1, <3>2, BadgeUnseen DEF BadgesGood
  <2>3. BadgeTicks'
    BY <1>1, <2>1 DEF BadgesGood, BadgeTicks
  <2> QED BY <1>2, <2>2, <2>3 DEF BadgesGood
<1>4. CASE m \notin confirmed
  <2>1. /\ cache' = [cache EXCEPT ![m.show] = Badges!Null] /\ Badges!Ask("all", m.show) \in asked'
        /\ \A a \in asked : a \in asked'
    BY <1>4 DEF Badges!OnTimecodeSaved
  <2>2. m.show \in Shows
    BY DEF Badges!Mark
  <2>3. (Badges!Ask("all", m.show)).kind = "all" /\ (Badges!Ask("all", m.show)).show = m.show
    BY <2>2, BadgeAsk DEF Badges!Kinds
  <2>4. BadgeRow' /\ BadgePoster' /\ BadgeLabel'
    <3>1. ASSUME NEW s \in Shows
          PROVE  \/ Badges!Told(s)' \/ \E a \in asked' : a.show = s /\ a.kind = "all"
                 \/ Badges!Now(s)' = Badges!Now(s) /\ ~Badges!Told(s)
      BY <1>1, <2>1, <2>3
    <3> QED BY <2>1, <3>1, BadgeUnseen DEF BadgesGood
  <2>5. BadgeTicks'
    <3>1. \A s \in Shows : cache'[s] = IF s = m.show THEN Badges!Null ELSE cache[s]
      BY <2>1 DEF BadgeTypes
    <3> QED BY <1>1, <3>1 DEF BadgesGood, BadgeTicks
  <2> QED BY <1>2, <2>4, <2>5 DEF BadgesGood
<1> QED BY <1>3, <1>4

LEMMA BadgesSaved ==
    ASSUME BadgeTypes, BadgesGood, missed' = {}, NEW p \in posts, Badges!Saved(p)
    PROVE  BadgesGood'
<1>1. /\ p.stored # "no" /\ posts' = posts \ {p} /\ UNCHANGED <<profile, messages>>
      /\ UNCHANGED <<watched, at, of, row, poster, label, known, answers>>
      /\ Badges!OnTimecodeSaved(p.mark, p.stored = "new" /\ p.profile = profile)
  BY DEF Badges!Saved
<1>2. p.mark \in Badges!Mark
  BY DEF BadgeTypes, Badges!Post
<1>3. PICK new \in BOOLEAN : new = (p.stored = "new" /\ p.profile = profile)
  OBVIOUS
<1>4. \A s \in Shows : Badges!Told(s) => Badges!Told(s)' \/ (s = p.mark.show /\ new = TRUE)
  <2> SUFFICES ASSUME NEW s \in Shows, Badges!Told(s), ~Badges!Told(s)' PROVE s = p.mark.show /\ new = TRUE
    OBVIOUS
  <2>1. p.stored = "new" /\ p.profile = profile /\ p.mark.show = s
    BY <1>1 DEF Badges!Told
  <2> QED BY <1>3, <2>1
<1>5. \A q \in posts : q.stored = "no" => q \in posts'
  BY <1>1
<1> QED BY <1>1, <1>2, <1>3, <1>4, <1>5, BadgesHeard

LEMMA BadgesMessage ==
    ASSUME BadgeTypes, BadgesGood, missed' = {}, Badges!Message
    PROVE  BadgesGood'
<1>1. /\ messages # <<>> /\ messages' = Tail(messages) /\ UNCHANGED <<profile, posts>>
      /\ UNCHANGED <<watched, at, of, row, poster, label, known, answers>>
  BY DEF Badges!Message
<1>2. messages \in Seq(BadgeMessages)
  BY DEF BadgeTypes
<1>3. PICK h \in BadgeMessages : h = messages[1] /\ h = Head(messages)
  BY <1>1, <1>2
<1>4. ASSUME NEW i \in DOMAIN messages, i # 1
      PROVE  \E j \in DOMAIN messages' : messages'[j] = messages[i]
  <2>1. i - 1 \in DOMAIN messages' /\ messages'[i - 1] = messages[i]
    BY <1>1, <1>2, <1>4
  <2> QED BY <2>1
<1>5. ASSUME NEW s \in Shows, Badges!Told(s), ~Badges!Told(s)' PROVE s = h.mark.show /\ h.profile = profile
  <2>1. PICK i \in DOMAIN messages : messages[i].profile = profile /\ messages[i].mark.show = s
    BY <1>1, <1>5 DEF Badges!Told
  <2>2. CASE i = 1
    BY <1>3, <2>1, <2>2
  <2>3. CASE i # 1
    <3>1. PICK j \in DOMAIN messages' : messages'[j] = messages[i]
      BY <1>4, <2>3
    <3> QED BY <1>1, <1>5, <2>1, <3>1 DEF Badges!Told
  <2> QED BY <2>2, <2>3
<1>6. \A q \in posts : q.stored = "no" => q \in posts'
  BY <1>1
<1>7. CASE h.profile = profile
  <2>1. PICK new \in BOOLEAN : new = TRUE
    OBVIOUS
  <2>2. Badges!OnTimecodeSaved(h.mark, new) /\ h.mark \in Badges!Mark
    BY <1>3, <1>7, <2>1 DEF Badges!Message, BadgeMessages
  <2>3. \A s \in Shows : Badges!Told(s) => Badges!Told(s)' \/ (s = h.mark.show /\ new = TRUE)
    BY <1>5, <2>1
  <2> QED BY <1>1, <1>6, <2>2, <2>3, BadgesHeard
<1>8. CASE h.profile # profile
  <2>1. UNCHANGED <<cache, asked>>
    BY <1>3, <1>8 DEF Badges!Message
  <2>2. \A s \in Shows : Badges!Now(s)' = Badges!Now(s)
    BY <1>1 DEF Badges!Now
  <2>3. \A s \in Shows : Badges!Told(s) => Badges!Told(s)'
    BY <1>5, <1>8
  <2>4. BadgeRow' /\ BadgePoster' /\ BadgeLabel'
    <3>1. ASSUME NEW s \in Shows
          PROVE  \/ Badges!Told(s)' \/ \E a \in asked' : a.show = s /\ a.kind = "all"
                 \/ Badges!Now(s)' = Badges!Now(s) /\ ~Badges!Told(s)
      BY <2>2, <2>3
    <3>2. \A a \in asked : a \in asked'
      BY <2>1
    <3> QED BY <1>1, <3>1, <3>2, BadgeUnseen DEF BadgesGood
  <2>5. BadgeWhole'
    BY <1>1 DEF BadgesGood, BadgeWhole
  <2>6. BadgeTicks'
    BY <1>1, <2>1, <2>2, <2>3 DEF BadgesGood, BadgeTicks
  <2> QED BY <2>4, <2>5, <2>6 DEF BadgesGood
<1> QED BY <1>7, <1>8

-----------------------------------------------------------------------------
(* Its answers *)

LEMMA BadgesServe ==
    ASSUME BadgeTypes, BadgesGood, missed' = {}, NEW a \in asked, Badges!Serve(a)
    PROVE  BadgesGood'
<1>0. PICK n : n = Len(answers[a.show]) + 1
  OBVIOUS
<1>1. PICK v \in {watched[a.profile][a.show], Badges!Null} :
         /\ answers' = [answers EXCEPT ![a.show] = Append(@, [kind |-> a.kind, value |-> v, late |-> a.late])]
         /\ missed' = IF v = Badges!Null THEN missed \cup {"failed"} ELSE missed
  BY DEF Badges!Serve
<1>2. /\ asked' = asked \ {a} /\ UNCHANGED <<watched, profile, at, of, row, poster, label, known, cache>>
      /\ UNCHANGED <<posts, messages>>
  BY DEF Badges!Serve
<1>3. v # Badges!Null /\ v = watched[a.profile][a.show]
  BY <1>1
<1>l. PICK l : l = [kind |-> a.kind, value |-> v, late |-> a.late]
  OBVIOUS
<1>4. l \in BadgeAnswers /\ l.kind = a.kind /\ l.value = v /\ l.late = a.late
  <2>1. /\ a \in [kind : Badges!Kinds, show : Shows, profile : Profile, late : BOOLEAN]
        /\ watched \in [Profile -> [Shows -> Badges!Badge]]
    BY DEF BadgeTypes
  <2>2. v \in Badges!Badge /\ a.kind \in Badges!Kinds /\ a.late \in BOOLEAN
    BY <1>3, <2>1
  <2> QED BY <1>l, <2>2 DEF BadgeAnswers
<1>5. a.show \in Shows /\ answers[a.show] \in Seq(BadgeAnswers)
  BY DEF BadgeTypes
<1>6. \A s \in Shows : answers'[s] = IF s = a.show THEN Append(answers[a.show], l) ELSE answers[s]
  BY <1>1, <1>l DEF BadgeTypes
<1>7. /\ DOMAIN answers'[a.show] = 1..n /\ DOMAIN answers[a.show] = 1..(n - 1) /\ n \in Nat \ {0}
      /\ answers'[a.show][n] = l /\ \A i \in 1..(n - 1) : answers'[a.show][i] = answers[a.show][i]
  <2>1. answers'[a.show] = Append(answers[a.show], l)
    BY <1>5, <1>6
  <2> QED BY <1>0, <1>4, <1>5, <2>1
<1>8. (\A s : Badges!Now(s)' = Badges!Now(s)) /\ \A s : Badges!Told(s)' <=> Badges!Told(s)
  BY <1>2, BadgeSameTold DEF Badges!Now
<1>9. BadgeNew(a.show, n)'
  <2>1. a.late = FALSE => a.profile = profile
    BY DEF BadgeTypes
  <2>2. a.late \in BOOLEAN
    BY DEF BadgeTypes
  <2> QED BY <1>2, <1>3, <1>4, <1>7, <2>1, <2>2 DEF BadgeNew, Badges!Now
<1>10. ASSUME NEW s \in Shows, NEW i \in DOMAIN answers[s]
       PROVE  /\ i \in DOMAIN answers'[s] /\ answers'[s][i] = answers[s][i]
              /\ BadgeNew(s, i) => BadgeNew(s, i)'
  <2>1. i \in DOMAIN answers'[s] /\ answers'[s][i] = answers[s][i]
    BY <1>6, <1>7
  <2> QED BY <1>8, <2>1 DEF BadgeNew
<1>11. ASSUME NEW s \in Shows, NEW i \in DOMAIN answers'[s]
       PROVE  i \in DOMAIN answers[s] \/ (s = a.show /\ i = n)
  BY <1>6, <1>7
<1>12. ASSUME NEW s \in Shows, NEW kinds, BadgesNew(s, kinds) PROVE BadgesNew(s, kinds)'
  BY <1>9, <1>10, <1>11, <1>12 DEF BadgesNew
<1>13. ASSUME NEW s \in Shows, NEW sure, NEW kinds, BadgeComes(s, sure, kinds)
       PROVE  BadgeComes(s, sure, kinds)'
  <2>1. CASE Badges!Told(s)
    BY <1>8, <2>1 DEF BadgeComes
  <2>2. CASE \E b \in asked : b.show = s /\ b.kind \in sure /\ b # a
    BY <1>2, <2>2 DEF BadgeComes
  <2>3. CASE a.show = s /\ a.kind \in sure
    <3>1. n \in DOMAIN answers'[s] /\ answers'[s][n].kind \in sure
      BY <1>4, <1>7, <2>3
    <3>2. ASSUME NEW j \in DOMAIN answers'[s], n <= j PROVE BadgeNew(s, j)'
      <4>1. j = n
        BY <1>7, <2>3, <3>2
      <4> QED BY <1>9, <2>3, <4>1
    <3> QED BY <3>1, <3>2 DEF BadgeComes
  <2>4. CASE \E i \in DOMAIN answers[s] :
               /\ answers[s][i].kind \in sure
               /\ \A j \in DOMAIN answers[s] : i <= j /\ answers[s][j].kind \in kinds => BadgeNew(s, j)
    <3>1. PICK i \in DOMAIN answers[s] :
             /\ answers[s][i].kind \in sure
             /\ \A j \in DOMAIN answers[s] : i <= j /\ answers[s][j].kind \in kinds => BadgeNew(s, j)
      BY <2>4
    <3>2. i \in DOMAIN answers'[s] /\ answers'[s][i].kind \in sure
      BY <1>10, <3>1
    <3>3. ASSUME NEW j \in DOMAIN answers'[s], i <= j, answers'[s][j].kind \in kinds PROVE BadgeNew(s, j)'
      <4>1. CASE j \in DOMAIN answers[s]
        BY <1>10, <3>1, <3>3, <4>1
      <4>2. CASE s = a.show /\ j = n
        BY <1>9, <4>2
      <4> QED BY <1>11, <4>1, <4>2
    <3> QED BY <3>2, <3>3 DEF BadgeComes
  <2> QED BY <1>13, <2>1, <2>2, <2>3, <2>4 DEF BadgeComes
<1>14. BadgeWhole'
  <2> SUFFICES ASSUME NEW s \in Shows, NEW i \in DOMAIN answers'[s] PROVE answers'[s][i].value # Badges!Null
    BY DEF BadgeWhole
  <2>1. CASE i \in DOMAIN answers[s]
    BY <1>10, <2>1 DEF BadgesGood, BadgeWhole
  <2>2. CASE s = a.show /\ i = n
    BY <1>3, <1>4, <1>7, <2>2
  <2> QED BY <1>11, <2>1, <2>2
<1>15. BadgeRow'
  <2>1. \A s \in Shows : BadgeRight(s) => BadgeRight(s)'
    BY <1>2, <1>8 DEF BadgeRight
  <2> QED BY <1>12, <1>13, <2>1 DEF BadgesGood, BadgeRow, BadgeKeeps
<1>16. BadgePoster'
  BY <1>2, <1>8, <1>12, <1>13 DEF BadgesGood, BadgePoster, BadgeKeeps
<1>17. BadgeLabel'
  <2> SUFFICES ASSUME NEW s \in Shows, at = "files", of = s
               PROVE  \/ BadgeKeeps(s, {"label"}, {"label"}, label = Badges!Now(s))'
                      \/ \E b \in asked' : b.show = s /\ b.kind = "all"
                      \/ \E i \in DOMAIN answers'[s] : answers'[s][i].kind = "all"
    BY <1>2 DEF BadgeLabel
  <2>1. CASE BadgeKeeps(s, {"label"}, {"label"}, label = Badges!Now(s))
    BY <1>2, <1>8, <1>12, <1>13, <2>1 DEF BadgeKeeps
  <2>2. CASE \E b \in asked : b.show = s /\ b.kind = "all"
    <3>1. PICK b \in asked : b.show = s /\ b.kind = "all"
      BY <2>2
    <3>2. CASE b # a
      BY <1>2, <3>1, <3>2
    <3>3. CASE b = a
      BY <1>4, <1>7, <3>1, <3>3
    <3> QED BY <3>2, <3>3
  <2>3. CASE \E i \in DOMAIN answers[s] : answers[s][i].kind = "all"
    BY <1>10, <2>3
  <2> QED BY <2>1, <2>2, <2>3 DEF BadgesGood, BadgeLabel
<1>18. BadgeTicks'
  BY <1>2, BadgeSameTicks DEF BadgesGood
<1> QED BY <1>14, <1>15, <1>16, <1>17, <1>18 DEF BadgesGood

\* The first answer leaves the queue.
LEMMA BadgeFirst ==
    ASSUME NEW s \in Shows, NEW S, answers[s] \in Seq(S), answers[s] # <<>>,
           answers'[s] = Tail(answers[s]), Badges!Now(s)' = Badges!Now(s), Badges!Told(s)' <=> Badges!Told(s),
           \A a \in asked : a \in asked'
    PROVE  /\ \A kinds : BadgesNew(s, kinds) =>
                 BadgesNew(s, kinds)' /\ (answers[s][1].kind \in kinds => BadgeNew(s, 1))
           /\ \A sure, kinds : BadgeComes(s, sure, kinds) =>
                 \/ BadgeComes(s, sure, kinds)'
                 \/ /\ answers[s][1].kind \in sure /\ BadgesNew(s, kinds)'
                    /\ answers[s][1].kind \in kinds => BadgeNew(s, 1)
           /\ \A i \in DOMAIN answers[s] : i = 1 \/ i - 1 \in DOMAIN answers'[s]
           /\ \A i \in DOMAIN answers'[s] :
                 i \in Nat \ {0} /\ i + 1 \in DOMAIN answers[s] /\ answers'[s][i] = answers[s][i + 1]
<1>1. /\ 1 \in DOMAIN answers[s] /\ DOMAIN answers[s] = 1..Len(answers[s]) /\ Len(answers[s]) \in Nat \ {0}
      /\ DOMAIN answers'[s] = 1..(Len(answers[s]) - 1)
      /\ \A i \in 1..(Len(answers[s]) - 1) : answers'[s][i] = answers[s][i + 1]
  OBVIOUS
<1>2. \A i \in DOMAIN answers'[s] :
         i \in Nat \ {0} /\ i + 1 \in DOMAIN answers[s] /\ answers'[s][i] = answers[s][i + 1]
  BY <1>1
<1>3. \A i \in DOMAIN answers'[s] : BadgeNew(s, i + 1) => BadgeNew(s, i)'
  BY <1>2 DEF BadgeNew
<1>4. ASSUME NEW kinds, BadgesNew(s, kinds)
      PROVE  BadgesNew(s, kinds)' /\ (answers[s][1].kind \in kinds => BadgeNew(s, 1))
  BY <1>1, <1>2, <1>3, <1>4 DEF BadgesNew
<1>5. ASSUME NEW sure, NEW kinds, BadgeComes(s, sure, kinds), ~BadgeComes(s, sure, kinds)'
      PROVE  /\ answers[s][1].kind \in sure /\ BadgesNew(s, kinds)'
             /\ answers[s][1].kind \in kinds => BadgeNew(s, 1)
  <2>1. ~Badges!Told(s) /\ ~\E a \in asked : a.show = s /\ a.kind \in sure
    BY <1>5 DEF BadgeComes
  <2>2. PICK i \in DOMAIN answers[s] :
           /\ answers[s][i].kind \in sure
           /\ \A j \in DOMAIN answers[s] : i <= j /\ answers[s][j].kind \in kinds => BadgeNew(s, j)
    BY <1>5, <2>1 DEF BadgeComes
  <2>3. i = 1
    <3> SUFFICES ASSUME i # 1 PROVE FALSE
      OBVIOUS
    <3>1. i - 1 \in DOMAIN answers'[s] /\ answers'[s][i - 1].kind \in sure
      BY <1>1, <2>2
    <3>2. ASSUME NEW j \in DOMAIN answers'[s], i - 1 <= j, answers'[s][j].kind \in kinds PROVE BadgeNew(s, j)'
      <4>1. j + 1 \in DOMAIN answers[s] /\ answers[s][j + 1].kind \in kinds /\ i <= j + 1
        BY <1>1, <1>2, <3>2
      <4> QED BY <1>3, <2>2, <4>1
    <3> QED BY <1>5, <3>1, <3>2 DEF BadgeComes
  <2>4. \A j \in DOMAIN answers[s] : answers[s][j].kind \in kinds => BadgeNew(s, j)
    BY <1>1, <2>2, <2>3
  <2>5. BadgesNew(s, kinds)
    BY <2>4 DEF BadgesNew
  <2> QED BY <1>1, <1>4, <2>2, <2>3, <2>4, <2>5
<1> QED BY <1>1, <1>2, <1>4, <1>5

LEMMA BadgeTail ==
    ASSUME NEW S, NEW q \in Seq(S), q # <<>>
    PROVE  Badges!Without(q, 1) = Tail(q)
<1>1. SubSeq(q, 1, 0) = <<>>
  OBVIOUS
<1>2. SubSeq(q, 2, Len(q)) \in Seq(S) /\ SubSeq(q, 2, Len(q)) = Tail(q)
  OBVIOUS
<1>3. \A y \in Seq(S) : <<>> \o y = y
  OBVIOUS
<1> QED BY <1>1, <1>2, <1>3 DEF Badges!Without

LEMMA BadgesArrive ==
    ASSUME BadgeTypes, BadgesGood, missed' = {},
           NEW s \in Shows, NEW i \in DOMAIN answers[s], Badges!Arrive(s, i)
    PROVE  BadgesGood'
<1>1. PICK a, v : a = answers[s][1] /\ v = a.value
  OBVIOUS
<1>2. answers[s] \in Seq(BadgeAnswers) /\ answers[s] # <<>> /\ i \in Nat \ {0}
  BY DEF BadgeTypes
<1>3. i = 1 /\ a.late # TRUE /\ ~Badges!Outdated(s, a) /\ a.kind \in Badges!Kinds /\ a.late \in BOOLEAN
  <2>1. i = 1
    <3>1. i > 1 => "overtaken" \in missed'
      BY DEF Badges!Arrive
    <3> QED BY <1>2, <3>1
  <2>2. a \in BadgeAnswers
    BY <1>1, <1>2, <2>1
  <2> QED BY <1>1, <2>1, <2>2 DEF Badges!Arrive, BadgeAnswers
<1>4. v # Badges!Null
  BY <1>1, <1>3 DEF BadgesGood, BadgeWhole
<1>5. /\ UNCHANGED <<watched, profile, at, of, posts, messages>>
      /\ answers' = [answers EXCEPT ![s] = Badges!Without(@, 1)]
  BY <1>3 DEF Badges!Arrive
<1>6. /\ a.kind = "poster" => Badges!PosterAnswer(s, v) /\ UNCHANGED <<row, label, cache, asked>>
      /\ a.kind = "all" => Badges!AllAnswer(s, v) /\ UNCHANGED <<label, cache>>
      /\ a.kind = "label" => Badges!LabelAnswer(s, v) /\ UNCHANGED <<row, poster, cache, asked>>
      /\ a.kind = "ticks" => cache' = [cache EXCEPT ![s] = v]
      /\ a.kind = "ticks" => UNCHANGED <<row, poster, label, known, asked>>
  BY <1>1, <1>3, <1>4 DEF Badges!Arrive
<1>7. answers'[s] = Tail(answers[s]) /\ \A t \in Shows \ {s} : answers'[t] = answers[t]
  <2>1. Badges!Without(answers[s], 1) = Tail(answers[s])
    BY <1>2, BadgeTail
  <2> QED BY <1>5, <2>1 DEF BadgeTypes
<1>8. (\A t : Badges!Now(t)' = Badges!Now(t)) /\ \A t : Badges!Told(t)' <=> Badges!Told(t)
  BY <1>5, BadgeSameTold DEF Badges!Now
<1>9. a.kind \in {"poster", "all", "label", "ticks"}
  BY <1>3 DEF Badges!Kinds
<1>10. \A b \in asked : b \in asked'
  BY <1>6, <1>9 DEF Badges!AllAnswer
<1>11. BadgeNew(s, 1) => v = Badges!Now(s)
  BY <1>1, <1>3 DEF BadgeNew
<1>12. /\ \A kinds : BadgesNew(s, kinds) => BadgesNew(s, kinds)' /\ (a.kind \in kinds => v = Badges!Now(s))
       /\ \A sure, kinds : BadgeComes(s, sure, kinds) =>
             \/ BadgeComes(s, sure, kinds)'
             \/ a.kind \in sure /\ BadgesNew(s, kinds)' /\ (a.kind \in kinds => v = Badges!Now(s))
       /\ \A j \in DOMAIN answers[s] : j = 1 \/ j - 1 \in DOMAIN answers'[s]
       /\ \A j \in DOMAIN answers'[s] :
             j \in Nat \ {0} /\ j + 1 \in DOMAIN answers[s] /\ answers'[s][j] = answers[s][j + 1]
  BY <1>1, <1>2, <1>7, <1>8, <1>10, <1>11, BadgeFirst
<1>13. BadgeWhole'
  <2> SUFFICES ASSUME NEW t \in Shows, NEW j \in DOMAIN answers'[t] PROVE answers'[t][j].value # Badges!Null
    BY DEF BadgeWhole
  <2>1. CASE t = s
    BY <1>12, <2>1 DEF BadgesGood, BadgeWhole
  <2>2. CASE t # s
    BY <1>7, <2>2 DEF BadgesGood, BadgeWhole
  <2> QED BY <2>1, <2>2
<1>14. /\ row \in [Shows -> Badges!Badge \cup {Badges!Gone}] /\ known \in [Shows -> Badges!Badge \cup {Badges!Null}]
       /\ cache \in [Shows -> Badges!Badge \cup {Badges!Null}]
  BY DEF BadgeTypes
<1>15. ASSUME NEW t \in Shows, t # s
       PROVE  /\ known'[t] = known[t] /\ row'[t] = row[t] /\ cache'[t] = cache[t]
              /\ of = t => poster' = poster
              /\ at = "files" /\ of = t => label' = label
  <2>1. CASE a.kind = "poster"
    BY <1>6, <1>14, <1>15, <2>1 DEF Badges!PosterAnswer
  <2>2. CASE a.kind = "all"
    BY <1>4, <1>6, <1>14, <1>15, <2>2 DEF Badges!AllAnswer
  <2>3. CASE a.kind = "label"
    BY <1>4, <1>6, <1>14, <1>15, <2>3 DEF Badges!LabelAnswer
  <2>4. CASE a.kind = "ticks"
    BY <1>6, <1>14, <1>15, <2>4
  <2> QED BY <1>9, <2>1, <2>2, <2>3, <2>4
<1>16. BadgeRow'
  <2> SUFFICES ASSUME NEW t \in Shows PROVE BadgeKeeps(t, {"all"}, BadgeLaid, BadgeRight(t))'
    BY DEF BadgeRow
  <2>1. BadgeKeeps(t, {"all"}, BadgeLaid, BadgeRight(t))
    BY DEF BadgesGood, BadgeRow
  <2>2. CASE t # s
    <3>1. BadgeRight(t) => BadgeRight(t)'
      BY <1>5, <1>8, <1>15, <2>2 DEF BadgeRight
    <3>2. /\ BadgeComes(t, {"all"}, BadgeLaid) => BadgeComes(t, {"all"}, BadgeLaid)'
          /\ BadgesNew(t, BadgeLaid) => BadgesNew(t, BadgeLaid)'
      BY <1>7, <1>8, <1>10, <2>2, BadgeStay
    <3> QED BY <2>1, <3>1, <3>2 DEF BadgeKeeps
  <2>3. CASE t = s
    <3>1. \/ BadgeComes(s, {"all"}, BadgeLaid)'
          \/ /\ BadgesNew(s, BadgeLaid)' /\ (a.kind \in BadgeLaid => v = Badges!Now(s))
             /\ BadgeRight(s) \/ a.kind = "all"
      BY <1>12, <2>1, <2>3 DEF BadgeKeeps
    <3>2. ASSUME a.kind \in BadgeLaid => v = Badges!Now(s), BadgeRight(s) \/ a.kind = "all"
          PROVE  BadgeRight(s)'
      <4>1. CASE a.kind = "poster"
        <5>1. v = Badges!Now(s) /\ BadgeRight(s)
          BY <3>2, <4>1 DEF BadgeLaid
        <5>2. /\ row' = row
              /\ \/ known' = known
                 \/ at # "main" /\ known'[s] = v
          BY <1>4, <1>6, <1>14, <4>1 DEF Badges!PosterAnswer
        <5> QED BY <1>4, <1>5, <1>8, <5>1, <5>2 DEF BadgeRight
      <4>2. CASE a.kind = "all"
        <5>1. v = Badges!Now(s)
          BY <3>2, <4>2 DEF BadgeLaid
        <5>2. known'[s] = v
          BY <1>4, <1>6, <1>14, <4>2 DEF Badges!AllAnswer
        <5>3. at = "main" => row'[s] \in {v, Badges!Gone}
          BY <1>4, <1>6, <1>14, <4>2 DEF Badges!AllAnswer
        <5> QED BY <1>4, <1>5, <1>8, <5>1, <5>2, <5>3 DEF BadgeRight
      <4>3. CASE a.kind = "label"
        <5>1. v = Badges!Now(s) /\ BadgeRight(s)
          BY <3>2, <4>3 DEF BadgeLaid
        <5>2. row' = row /\ known'[s] = v
          BY <1>4, <1>6, <1>14, <4>3 DEF Badges!LabelAnswer
        <5> QED BY <1>4, <1>5, <1>8, <5>1, <5>2 DEF BadgeRight
      <4>4. CASE a.kind = "ticks"
        BY <1>5, <1>6, <1>8, <3>2, <4>4 DEF BadgeRight
      <4> QED BY <1>9, <4>1, <4>2, <4>3, <4>4
    <3> QED BY <2>3, <3>1, <3>2 DEF BadgeKeeps
  <2> QED BY <2>2, <2>3
<1>17. BadgePoster'
  <2> SUFFICES ASSUME NEW t \in Shows, at = "full", of = t
               PROVE  BadgeKeeps(t, BadgeFull, BadgeFull, poster = Badges!Now(t))'
    BY <1>5 DEF BadgePoster
  <2>1. BadgeKeeps(t, BadgeFull, BadgeFull, poster = Badges!Now(t))
    BY DEF BadgesGood, BadgePoster
  <2>2. CASE t # s
    <3>1. /\ BadgeComes(t, BadgeFull, BadgeFull) => BadgeComes(t, BadgeFull, BadgeFull)'
          /\ BadgesNew(t, BadgeFull) => BadgesNew(t, BadgeFull)'
      BY <1>7, <1>8, <1>10, <2>2, BadgeStay
    <3> QED BY <1>8, <1>15, <2>1, <2>2, <3>1 DEF BadgeKeeps
  <2>3. CASE t = s
    <3>1. \/ BadgeComes(s, BadgeFull, BadgeFull)'
          \/ /\ BadgesNew(s, BadgeFull)' /\ (a.kind \in BadgeFull => v = Badges!Now(s))
             /\ poster = Badges!Now(s) \/ a.kind \in BadgeFull
      BY <1>12, <2>1, <2>3 DEF BadgeKeeps
    <3>2. poster' = IF a.kind \in BadgeFull THEN v ELSE poster
      BY <1>4, <1>6, <1>9, <2>3 DEF BadgeFull, Badges!PosterAnswer, Badges!AllAnswer
    <3> QED BY <1>8, <2>3, <3>1, <3>2 DEF BadgeKeeps
  <2> QED BY <2>2, <2>3
<1>18. BadgeLabel'
  <2> SUFFICES ASSUME NEW t \in Shows, at = "files", of = t
               PROVE  \/ BadgeKeeps(t, {"label"}, {"label"}, label = Badges!Now(t))'
                      \/ \E b \in asked' : b.show = t /\ b.kind = "all"
                      \/ \E j \in DOMAIN answers'[t] : answers'[t][j].kind = "all"
    BY <1>5 DEF BadgeLabel
  <2>1. \/ BadgeKeeps(t, {"label"}, {"label"}, label = Badges!Now(t))
        \/ \E b \in asked : b.show = t /\ b.kind = "all"
        \/ \E j \in DOMAIN answers[t] : answers[t][j].kind = "all"
    BY DEF BadgesGood, BadgeLabel
  <2>2. CASE t # s
    <3>1. /\ BadgeComes(t, {"label"}, {"label"}) => BadgeComes(t, {"label"}, {"label"})'
          /\ BadgesNew(t, {"label"}) => BadgesNew(t, {"label"})'
      BY <1>7, <1>8, <1>10, <2>2, BadgeStay
    <3>2. label' = label
      BY <1>15, <2>2
    <3>3. BadgeKeeps(t, {"label"}, {"label"}, label = Badges!Now(t)) =>
             BadgeKeeps(t, {"label"}, {"label"}, label = Badges!Now(t))'
      BY <1>8, <3>1, <3>2 DEF BadgeKeeps
    <3> QED BY <1>7, <1>10, <2>1, <2>2, <3>3
  <2>3. CASE t = s /\ a.kind = "all"
    <3>1. Badges!Ask("label", s) \in asked'
      BY <1>4, <1>6, <2>3 DEF Badges!AllAnswer
    <3>2. (Badges!Ask("label", s)).kind = "label" /\ (Badges!Ask("label", s)).show = s
      BY BadgeAsk DEF Badges!Kinds
    <3>3. BadgeComes(s, {"label"}, {"label"})'
      BY <3>1, <3>2 DEF BadgeComes
    <3> QED BY <2>3, <3>3 DEF BadgeKeeps
  <2>4. CASE t = s /\ a.kind # "all"
    <3>1. CASE BadgeKeeps(t, {"label"}, {"label"}, label = Badges!Now(t))
      <4>1. \/ BadgeComes(s, {"label"}, {"label"})'
            \/ /\ BadgesNew(s, {"label"})' /\ (a.kind \in {"label"} => v = Badges!Now(s))
               /\ label = Badges!Now(s) \/ a.kind \in {"label"}
        BY <1>12, <2>4, <3>1 DEF BadgeKeeps
      <4>2. label' = IF a.kind = "label" THEN v ELSE label
        BY <1>6, <1>9, <2>4 DEF Badges!LabelAnswer
      <4>3. BadgeKeeps(s, {"label"}, {"label"}, label = Badges!Now(s))'
        BY <1>8, <4>1, <4>2 DEF BadgeKeeps
      <4> QED BY <2>4, <4>3
    <3>2. CASE \E b \in asked : b.show = t /\ b.kind = "all"
      BY <1>10, <3>2
    <3>3. CASE \E j \in DOMAIN answers[t] : answers[t][j].kind = "all"
      <4>1. PICK j \in DOMAIN answers[s] : answers[s][j].kind = "all"
        BY <2>4, <3>3
      <4>2. j # 1
        BY <1>1, <2>4, <4>1
      <4>3. j - 1 \in DOMAIN answers'[s] /\ j \in Nat
        BY <1>2, <1>12, <4>1, <4>2
      <4>4. answers'[s][j - 1] = answers[s][(j - 1) + 1] /\ (j - 1) + 1 = j
        BY <1>12, <4>3
      <4> QED BY <2>4, <4>1, <4>3, <4>4
    <3> QED BY <2>1, <3>1, <3>2, <3>3
  <2> QED BY <2>2, <2>3, <2>4
<1>19. BadgeTicks'
  <2> SUFFICES ASSUME NEW t \in Shows
               PROVE  \/ cache'[t] = Badges!Null \/ Badges!Told(t)
                      \/ \A e \in Episode :
                            \/ (e \in cache'[t]) <=> (e \in Badges!Now(t))
                            \/ e \in cache'[t] /\ [mark |-> [show |-> t, episode |-> e, on |-> TRUE],
                                                   profile |-> profile, stored |-> "no"] \in posts
    BY <1>5, <1>8 DEF BadgeTicks
  <2>1. CASE cache'[t] = cache[t]
    BY <2>1 DEF BadgesGood, BadgeTicks
  <2>2. CASE t = s /\ a.kind = "ticks"
    <3>1. cache'[s] = v
      BY <1>6, <1>14, <2>2
    <3>2. v = Badges!Now(s) \/ Badges!Told(s)
      BY <1>1, <1>3, <1>4, <2>2 DEF Badges!Outdated
    <3> QED BY <2>2, <3>1, <3>2
  <2>3. CASE t # s
    BY <1>15, <2>1, <2>3
  <2>4. CASE a.kind # "ticks"
    BY <1>6, <1>9, <2>1, <2>4
  <2> QED BY <2>2, <2>3, <2>4
<1> QED BY <1>13, <1>16, <1>17, <1>18, <1>19 DEF BadgesGood

-----------------------------------------------------------------------------
(* Its types *)

LEMMA BadgeQueue == ASSUME NEW S, NEW n \in Nat, NEW f \in [1..n -> S] PROVE f \in Seq(S)
OBVIOUS

LEMMA BadgeAsksTyped ==
    ASSUME BadgeTypes, profile' = profile,
           \A a \in asked' : a \in asked \/ \E k \in Badges!Kinds, s \in Shows : a = Badges!Ask(k, s)
    PROVE  /\ asked' \subseteq [kind : Badges!Kinds, show : Shows, profile : Profile, late : BOOLEAN]
           /\ \A a \in asked' : a.late = FALSE => a.profile = profile'
<1>1. \A k \in Badges!Kinds, s \in Shows :
         /\ Badges!Ask(k, s) \in [kind : Badges!Kinds, show : Shows, profile : Profile, late : BOOLEAN]
         /\ (Badges!Ask(k, s)).profile = profile
  BY BadgeAsk
<1>2. /\ asked \subseteq [kind : Badges!Kinds, show : Shows, profile : Profile, late : BOOLEAN]
      /\ \A a \in asked : a.late = FALSE => a.profile = profile
  BY DEF BadgeTypes
<1> QED BY <1>1, <1>2

LEMMA BadgeHeardTyped ==
    ASSUME BadgeTypes, NEW m \in Badges!Mark, NEW new, Badges!OnTimecodeSaved(m, new), UNCHANGED <<profile, at, of>>
    PROVE  /\ cache' \in [Shows -> Badges!Badge \cup {Badges!Null}]
           /\ asked' \subseteq [kind : Badges!Kinds, show : Shows, profile : Profile, late : BOOLEAN]
           /\ \A a \in asked' : a.late = FALSE => a.profile = profile'
<1>1. CASE m \in confirmed
  BY <1>1 DEF Badges!OnTimecodeSaved, BadgeTypes
<1>2. CASE m \notin confirmed
  <2>1. /\ cache' = [cache EXCEPT ![m.show] = Badges!Null]
        /\ asked' = asked \cup {Badges!Ask("all", m.show)} \cup Badges!Decorate(m.show, cache')
    BY <1>2 DEF Badges!OnTimecodeSaved
  <2>2. m.show \in Shows
    BY DEF Badges!Mark
  <2>3. cache' \in [Shows -> Badges!Badge \cup {Badges!Null}]
    BY <2>1 DEF BadgeTypes
  <2>4. "all" \in Badges!Kinds /\ "ticks" \in Badges!Kinds
    BY DEF Badges!Kinds
  <2>5. \A a \in asked' : a \in asked \/ \E k \in Badges!Kinds, s \in Shows : a = Badges!Ask(k, s)
    BY <2>1, <2>2, <2>4 DEF Badges!Decorate
  <2> QED BY <2>3, <2>5, BadgeAsksTyped
<1> QED BY <1>1, <1>2

LEMMA BadgeTypesKept ==
    ASSUME BadgeTypes, Badges!Next \/ UNCHANGED Badges!vars
    PROVE  BadgeTypes'
<1> USE DEF BadgeTypes
<1>1. ASSUME NEW s \in Shows, Badges!OpenCard(s) PROVE BadgeTypes'
  <2>1. \A a \in asked' : a \in asked \/ \E k \in Badges!Kinds, t \in Shows : a = Badges!Ask(k, t)
    BY <1>1 DEF Badges!OpenCard, Badges!Kinds
  <2>2. profile' = profile
    BY <1>1 DEF Badges!OpenCard
  <2>3. /\ asked' \subseteq [kind : Badges!Kinds, show : Shows, profile : Profile, late : BOOLEAN]
        /\ \A a \in asked' : a.late = FALSE => a.profile = profile'
    BY <2>1, <2>2, BadgeAsksTyped
  <2> QED BY <1>1, <2>3 DEF Badges!OpenCard
<1>2. CASE Badges!OpenFiles
  <2>1. \A a \in asked' : a \in asked \/ \E k \in Badges!Kinds, t \in Shows : a = Badges!Ask(k, t)
    BY <1>2 DEF Badges!OpenFiles, Badges!Kinds
  <2>2. profile' = profile
    BY <1>2 DEF Badges!OpenFiles
  <2>3. /\ asked' \subseteq [kind : Badges!Kinds, show : Shows, profile : Profile, late : BOOLEAN]
        /\ \A a \in asked' : a.late = FALSE => a.profile = profile'
    BY <2>1, <2>2, BadgeAsksTyped
  <2> QED BY <1>2, <2>3 DEF Badges!OpenFiles
<1>3. CASE Badges!BackToMain
  <2>1. row' \in [Shows -> Badges!Badge \cup {Badges!Gone}]
    <3>1. row' = [s \in Shows |-> CASE row[s] = Badges!Gone \/ known[s] = Episode -> Badges!Gone
                                    [] known[s] = Badges!Null -> row[s]
                                    [] OTHER -> known[s]]
      BY <1>3 DEF Badges!BackToMain
    <3>2. ASSUME NEW s \in Shows PROVE row'[s] \in Badges!Badge \cup {Badges!Gone}
      <4>1. row[s] \in Badges!Badge \cup {Badges!Gone} /\ known[s] \in Badges!Badge \cup {Badges!Null}
        OBVIOUS
      <4>2. CASE row[s] = Badges!Gone \/ known[s] = Episode
        BY <3>1, <4>2
      <4>3. CASE ~(row[s] = Badges!Gone \/ known[s] = Episode) /\ known[s] = Badges!Null
        BY <3>1, <4>1, <4>3
      <4>4. CASE ~(row[s] = Badges!Gone \/ known[s] = Episode) /\ known[s] # Badges!Null
        BY <3>1, <4>1, <4>4
      <4> QED BY <4>2, <4>3, <4>4
    <3> QED BY <3>1, <3>2
  <2> QED BY <1>3, <2>1 DEF Badges!BackToMain
<1>4. ASSUME NEW p \in Profile, Badges!SwitchProfile(p) PROVE BadgeTypes'
  <2>1. /\ UNCHANGED <<watched, at, of, posts, messages>> /\ profile' = p /\ row' = Badges!Listed(p)
        /\ known' = [s \in Shows |-> Badges!Null] /\ cache' = [s \in Shows |-> Badges!Null]
        /\ asked' = {[a EXCEPT !.late = TRUE] : a \in asked}
        /\ answers' = [s \in Shows |-> [i \in DOMAIN answers[s] |-> [answers[s][i] EXCEPT !.late = TRUE]]]
    BY <1>4 DEF Badges!SwitchProfile
  <2>2. row' \in [Shows -> Badges!Badge \cup {Badges!Gone}]
    BY <2>1 DEF Badges!Listed
  <2>3. known' \in [Shows -> Badges!Badge \cup {Badges!Null}] /\ cache' \in [Shows -> Badges!Badge \cup {Badges!Null}]
    BY <2>1
  <2>4. \A a \in asked' :
           a \in [kind : Badges!Kinds, show : Shows, profile : Profile, late : BOOLEAN] /\ a.late = TRUE
    <3>1. ASSUME NEW b \in asked
          PROVE  /\ [b EXCEPT !.late = TRUE] \in [kind : Badges!Kinds, show : Shows, profile : Profile, late : BOOLEAN]
                 /\ [b EXCEPT !.late = TRUE].late = TRUE
      <4>1. b \in [kind : Badges!Kinds, show : Shows, profile : Profile, late : BOOLEAN]
        OBVIOUS
      <4> QED BY <4>1
    <3> QED BY <2>1, <3>1
  <2>5. answers' \in [Shows -> Seq(BadgeAnswers)]
    <3>1. ASSUME NEW s \in Shows PROVE answers'[s] \in Seq(BadgeAnswers)
      <4>1. answers[s] \in Seq(BadgeAnswers)
        OBVIOUS
      <4>2. PICK n \in Nat : n = Len(answers[s])
        BY <4>1
      <4>3. DOMAIN answers[s] = 1..n /\ \A i \in 1..n : answers[s][i] \in BadgeAnswers
        BY <4>1, <4>2
      <4>4. answers'[s] = [i \in 1..n |-> [answers[s][i] EXCEPT !.late = TRUE]]
        BY <2>1, <4>3
      <4>5. \A x \in BadgeAnswers : [x EXCEPT !.late = TRUE] \in BadgeAnswers
        BY DEF BadgeAnswers
      <4>6. answers'[s] \in [1..n -> BadgeAnswers]
        BY <4>3, <4>4, <4>5
      <4>7. answers'[s] \in Seq(BadgeAnswers)
        BY <4>6, BadgeQueue
      <4> QED BY <4>7
    <3> QED BY <2>1, <3>1
  <2> QED BY <2>1, <2>2, <2>3, <2>4, <2>5
<1>5. ASSUME NEW e \in Episode, NEW on \in BOOLEAN, Badges!MarkHere(e, on) PROVE BadgeTypes'
  <2> DEFINE m == [show |-> of, episode |-> e, on |-> on]
  <2>1. /\ UNCHANGED <<watched, profile, at, of, row, known, asked, answers, messages>>
        /\ posts' = posts \cup {[mark |-> m, profile |-> profile, stored |-> "no"]}
        /\ cache' = cache \/ (cache[of] # Badges!Null /\ cache' = [cache EXCEPT ![of] = cache[of] \cup {e}])
    <3>1. /\ UNCHANGED <<watched, profile, at, of, row, known, asked, answers, messages>>
          /\ posts' = posts \cup {[mark |-> m, profile |-> profile, stored |-> "no"]}
      BY <1>5 DEF Badges!MarkHere
    <3>2. cache' = cache \/ cache' = IF cache[of] = Badges!Null THEN cache ELSE [cache EXCEPT ![of] = cache[of] \cup {e}]
      BY <1>5 DEF Badges!MarkHere
    <3> QED BY <3>1, <3>2
  <2>2. m \in Badges!Mark
    BY DEF Badges!Mark
  <2>3. [mark |-> m, profile |-> profile, stored |-> "no"] \in Badges!Post
    BY <2>2 DEF Badges!Post
  <2>4. cache' \in [Shows -> Badges!Badge \cup {Badges!Null}]
    <3>1. cache[of] # Badges!Null => cache[of] \cup {e} \in Badges!Badge
      BY DEF Badges!Badge
    <3> QED BY <2>1, <3>1
  <2> QED BY <2>1, <2>3, <2>4
<1>6. ASSUME NEW p \in posts, Badges!Stored(p) PROVE BadgeTypes'
  <2> DEFINE before == watched[p.profile][p.mark.show]
             after == Badges!Apply(before, p.mark)
             new == [p EXCEPT !.stored = IF after = before THEN "same" ELSE "new"]
  <2>1. /\ UNCHANGED <<profile, at, of, row, known, cache, asked, answers, messages>>
        /\ watched' = [watched EXCEPT ![p.profile][p.mark.show] = after]
        /\ posts' = (posts \ {p}) \cup {new}
    BY <1>6 DEF Badges!Stored
  <2>2. /\ p \in Badges!Post /\ p.mark.show \in Shows /\ p.mark.episode \in Episode /\ p.profile \in Profile
    BY DEF Badges!Post, Badges!Mark
  <2>3. before \in Badges!Badge /\ after \in Badges!Badge
    BY <2>2 DEF Badges!Badge, Badges!Apply
  <2>4. watched' \in [Profile -> [Shows -> Badges!Badge]]
    BY <2>1, <2>2, <2>3
  <2>5. new \in Badges!Post
    BY <2>2 DEF Badges!Post
  <2> QED BY <2>1, <2>4, <2>5
<1>7. ASSUME NEW p \in posts, Badges!Saved(p) PROVE BadgeTypes'
  <2>1. /\ UNCHANGED <<watched, profile, at, of, row, known, answers, messages>> /\ posts' = posts \ {p}
        /\ Badges!OnTimecodeSaved(p.mark, p.stored = "new" /\ p.profile = profile)
    BY <1>7 DEF Badges!Saved
  <2>2. p.mark \in Badges!Mark
    BY DEF Badges!Post
  <2>3. /\ cache' \in [Shows -> Badges!Badge \cup {Badges!Null}]
        /\ asked' \subseteq [kind : Badges!Kinds, show : Shows, profile : Profile, late : BOOLEAN]
        /\ \A a \in asked' : a.late = FALSE => a.profile = profile'
    BY <2>1, <2>2, BadgeHeardTyped
  <2> QED BY <2>1, <2>3
<1>8. ASSUME NEW p \in posts, Badges!SaveFails(p) PROVE BadgeTypes'
  BY <1>8 DEF Badges!SaveFails
<1>9. ASSUME NEW p \in Profile, NEW m \in Badges!Mark, Badges!MarkElsewhere(p, m) PROVE BadgeTypes'
  <2>1. /\ UNCHANGED <<profile, at, of, row, known, cache, asked, answers, posts>>
        /\ watched' = [watched EXCEPT ![p][m.show] = Badges!Apply(@, m)]
        /\ messages' = Append(messages, [mark |-> m, profile |-> p])
    BY <1>9 DEF Badges!MarkElsewhere
  <2>2. m.show \in Shows /\ m.episode \in Episode
    BY DEF Badges!Mark
  <2>3. Badges!Apply(watched[p][m.show], m) \in Badges!Badge
    BY <2>2 DEF Badges!Apply, Badges!Badge
  <2>4. watched' \in [Profile -> [Shows -> Badges!Badge]]
    BY <2>1, <2>2, <2>3
  <2>5. [mark |-> m, profile |-> p] \in BadgeMessages
    BY DEF BadgeMessages
  <2>6. messages' \in Seq(BadgeMessages)
    BY <2>1, <2>5
  <2> QED BY <2>1, <2>4, <2>6
<1>10. CASE Badges!Message
  <2>1. /\ UNCHANGED <<watched, profile, at, of, row, known, answers, posts>>
        /\ messages # <<>> /\ messages' = Tail(messages)
    BY <1>10 DEF Badges!Message
  <2>2. messages' \in Seq(BadgeMessages) /\ Head(messages) \in BadgeMessages
    BY <2>1
  <2>3. PICK h \in BadgeMessages : h = Head(messages)
    BY <2>2
  <2>4. /\ cache' \in [Shows -> Badges!Badge \cup {Badges!Null}]
        /\ asked' \subseteq [kind : Badges!Kinds, show : Shows, profile : Profile, late : BOOLEAN]
        /\ \A a \in asked' : a.late = FALSE => a.profile = profile'
    <3>1. CASE h.profile = profile
      <4>1. Badges!OnTimecodeSaved(h.mark, TRUE) /\ h.mark \in Badges!Mark
        BY <1>10, <2>3, <3>1 DEF Badges!Message, BadgeMessages
      <4> QED BY <2>1, <4>1, BadgeHeardTyped
    <3>2. CASE h.profile # profile
      <4>1. UNCHANGED <<cache, asked>>
        BY <1>10, <2>3, <3>2 DEF Badges!Message
      <4> QED BY <2>1, <4>1
    <3> QED BY <3>1, <3>2
  <2> QED BY <2>1, <2>2, <2>4
<1>11. CASE Badges!MessageLost
  <2>1. messages' \in Seq(BadgeMessages)
    BY <1>11 DEF Badges!MessageLost
  <2> QED BY <1>11, <2>1 DEF Badges!MessageLost
<1>12. ASSUME NEW a \in asked, Badges!Serve(a) PROVE BadgeTypes'
  <2>1. PICK v \in {watched[a.profile][a.show], Badges!Null} :
           answers' = [answers EXCEPT ![a.show] = Append(@, [kind |-> a.kind, value |-> v, late |-> a.late])]
    BY <1>12 DEF Badges!Serve
  <2>2. /\ UNCHANGED <<watched, profile, at, of, row, known, cache, posts, messages>> /\ asked' = asked \ {a}
    BY <1>12 DEF Badges!Serve
  <2>3. a.kind \in Badges!Kinds /\ a.show \in Shows /\ a.profile \in Profile /\ a.late \in BOOLEAN
    OBVIOUS
  <2>4. v \in Badges!Badge \cup {Badges!Null}
    BY <2>1, <2>3
  <2>5. [kind |-> a.kind, value |-> v, late |-> a.late] \in BadgeAnswers
    BY <2>3, <2>4 DEF BadgeAnswers
  <2>6. Append(answers[a.show], [kind |-> a.kind, value |-> v, late |-> a.late]) \in Seq(BadgeAnswers)
    BY <2>3, <2>5
  <2>7. answers' \in [Shows -> Seq(BadgeAnswers)]
    BY <2>1, <2>6
  <2> QED BY <2>2, <2>7
<1>13. ASSUME NEW s \in Shows, NEW i \in DOMAIN answers[s], Badges!Arrive(s, i) PROVE BadgeTypes'
  <2>1. answers[s] \in Seq(BadgeAnswers) /\ i \in 1..Len(answers[s])
    OBVIOUS
  <2>2. PICK a \in BadgeAnswers : a = answers[s][i]
    BY <2>1
  <2>3. PICK v \in Badges!Badge \cup {Badges!Null} : v = a.value
    BY DEF BadgeAnswers
  <2>4. /\ UNCHANGED <<watched, profile, at, of, posts, messages>>
        /\ answers' = [answers EXCEPT ![s] = Badges!Without(@, i)]
    BY <1>13 DEF Badges!Arrive
  <2>5. /\ a.kind = "poster" => Badges!PosterAnswer(s, v) /\ UNCHANGED <<row, label, cache, asked>>
        /\ a.kind = "all" => Badges!AllAnswer(s, v) /\ UNCHANGED <<label, cache>>
        /\ a.kind = "label" => Badges!LabelAnswer(s, v) /\ UNCHANGED <<row, poster, cache, asked>>
        /\ a.kind = "ticks" => cache' = IF v = Badges!Null THEN cache ELSE [cache EXCEPT ![s] = v]
        /\ a.kind = "ticks" => UNCHANGED <<row, poster, label, known, asked>>
    BY <1>13, <2>2, <2>3 DEF Badges!Arrive
  <2>6. Badges!Without(answers[s], i) \in Seq(BadgeAnswers)
    BY <2>1 DEF Badges!Without
  <2>7. answers' \in [Shows -> Seq(BadgeAnswers)]
    BY <2>4, <2>6
  <2>8. CASE a.kind = "poster"
    BY <2>4, <2>5, <2>7, <2>8 DEF Badges!PosterAnswer
  <2>9. CASE a.kind = "all"
    <3>1. row' \in [Shows -> Badges!Badge \cup {Badges!Gone}] /\ known' \in [Shows -> Badges!Badge \cup {Badges!Null}] /\ cache' = cache
      BY <2>5, <2>9 DEF Badges!AllAnswer
    <3>2. \A b \in asked' : b \in asked \/ \E k \in Badges!Kinds, t \in Shows : b = Badges!Ask(k, t)
      BY <2>5, <2>9 DEF Badges!AllAnswer, Badges!Kinds
    <3>3. /\ asked' \subseteq [kind : Badges!Kinds, show : Shows, profile : Profile, late : BOOLEAN]
          /\ \A b \in asked' : b.late = FALSE => b.profile = profile'
      BY <2>4, <3>2, BadgeAsksTyped
    <3> QED BY <2>4, <2>7, <3>1, <3>3
  <2>10. CASE a.kind = "label"
    BY <2>4, <2>5, <2>7, <2>10 DEF Badges!LabelAnswer
  <2>11. CASE a.kind = "ticks"
    BY <2>4, <2>5, <2>7, <2>11
  <2>12. a.kind \in {"poster", "all", "label", "ticks"}
    BY DEF BadgeAnswers, Badges!Kinds
  <2> QED BY <2>8, <2>9, <2>10, <2>11, <2>12
<1>14. CASE UNCHANGED Badges!vars
  BY <1>14 DEF Badges!vars
<1> QED BY <1>1, <1>2, <1>3, <1>4, <1>5, <1>6, <1>7, <1>8, <1>9, <1>10, <1>11, <1>12, <1>13,
   <1>14 DEF Badges!Next

-----------------------------------------------------------------------------
(* It is kept, and says what is shown in the end *)

LEMMA BadgesKept == ASSUME BadgesInv, Badges!Next \/ UNCHANGED Badges!vars PROVE BadgesInv'
<1>1. BadgeTypes /\ BadgeTypes'
  BY BadgeTypesKept DEF BadgesInv
<1> SUFFICES ASSUME missed' = {} PROVE BadgesGood'
  BY <1>1 DEF BadgesInv, BadgesGood
<1>2. ASSUME missed = {} PROVE BadgesGood
  BY <1>2 DEF BadgesInv, BadgesGood
<1>3. ASSUME NEW s \in Shows, Badges!OpenCard(s) PROVE BadgesGood'
  <2>1. missed' = missed
    BY <1>3 DEF Badges!OpenCard
  <2> QED BY <1>1, <1>2, <1>3, <2>1, BadgesOpenCard
<1>4. CASE Badges!OpenFiles
  <2>1. missed' = missed
    BY <1>4 DEF Badges!OpenFiles
  <2> QED BY <1>1, <1>2, <1>4, <2>1, BadgesOpenFiles
<1>5. CASE Badges!BackToMain
  <2>1. missed' = missed
    BY <1>5 DEF Badges!BackToMain
  <2> QED BY <1>1, <1>2, <1>5, <2>1, BadgesBackToMain
<1>6. ASSUME NEW p \in Profile, Badges!SwitchProfile(p) PROVE BadgesGood'
  <2>1. missed' = missed
    BY <1>6 DEF Badges!SwitchProfile
  <2> QED BY <1>1, <1>2, <1>6, <2>1, BadgesSwitchProfile
<1>7. ASSUME NEW e \in Episode, NEW on \in BOOLEAN, Badges!MarkHere(e, on) PROVE BadgesGood'
  <2>1. missed' = missed
    BY <1>7 DEF Badges!MarkHere
  <2> QED BY <1>1, <1>2, <1>7, <2>1, BadgesMarkHere
<1>8. ASSUME NEW p \in posts, Badges!Stored(p) PROVE BadgesGood'
  <2>1. missed' = missed
    BY <1>8 DEF Badges!Stored
  <2> QED BY <1>1, <1>2, <1>8, <2>1, BadgesStored
<1>9. ASSUME NEW p \in posts, Badges!Saved(p) PROVE BadgesGood'
  <2>1. missed = {}
    BY <1>9 DEF Badges!Saved, Badges!OnTimecodeSaved
  <2> QED BY <1>1, <1>2, <1>9, <2>1, BadgesSaved
<1>10. ASSUME NEW p \in posts, Badges!SaveFails(p) PROVE BadgesGood'
  BY <1>10 DEF Badges!SaveFails
<1>11. ASSUME NEW p \in Profile, NEW m \in Badges!Mark, Badges!MarkElsewhere(p, m) PROVE BadgesGood'
  <2>1. missed' = missed
    BY <1>11 DEF Badges!MarkElsewhere
  <2> QED BY <1>1, <1>2, <1>11, <2>1, BadgesMarkElsewhere
<1>12. CASE Badges!Message
  <2>1. missed = {}
    BY <1>12 DEF Badges!Message, Badges!OnTimecodeSaved
  <2> QED BY <1>1, <1>2, <1>12, <2>1, BadgesMessage
<1>13. CASE Badges!MessageLost
  BY <1>13 DEF Badges!MessageLost
<1>14. ASSUME NEW a \in asked, Badges!Serve(a) PROVE BadgesGood'
  <2>1. missed = {}
    BY <1>14 DEF Badges!Serve
  <2> QED BY <1>1, <1>2, <1>14, <2>1, BadgesServe
<1>15. ASSUME NEW s \in Shows, NEW i \in DOMAIN answers[s], Badges!Arrive(s, i) PROVE BadgesGood'
  <2>1. missed = {}
    BY <1>15 DEF Badges!Arrive
  <2> QED BY <1>1, <1>2, <1>15, <2>1, BadgesArrive
<1>16. CASE UNCHANGED Badges!vars
  <2>1. /\ UNCHANGED <<watched, profile, at, of, row, poster, label, known, cache>>
        /\ UNCHANGED <<asked, answers, posts, messages, missed>>
    BY <1>16 DEF Badges!vars
  <2>2. BadgesGood
    BY <1>2, <2>1
  <2>3. \A s \in Shows : BadgeRight(s) => BadgeRight(s)'
    BY <2>1 DEF BadgeRight, Badges!Now
  <2>4. (\A s : Badges!Now(s)' = Badges!Now(s)) /\ \A s : Badges!Told(s)' <=> Badges!Told(s)
    BY <2>1, BadgeSameTold DEF Badges!Now
  <2>5. BadgeWhole' /\ BadgeRow' /\ BadgeTicks'
    BY <2>1, <2>2, <2>3, BadgeScreen DEF BadgesGood
  <2>6. \A s \in Shows :
           /\ \A sure, kinds : BadgeComes(s, sure, kinds) => BadgeComes(s, sure, kinds)'
           /\ \A kinds : BadgesNew(s, kinds) => BadgesNew(s, kinds)'
    BY <2>1, <2>4, BadgeStay
  <2>7. BadgePoster' /\ BadgeLabel'
    BY <2>1, <2>2, <2>4, <2>6 DEF BadgesGood, BadgePoster, BadgeLabel, BadgeKeeps
  <2> QED BY <2>5, <2>7 DEF BadgesGood
<1> QED BY <1>3, <1>4, <1>5, <1>6, <1>7, <1>8, <1>9, <1>10, <1>11, <1>12, <1>13, <1>14, <1>15,
   <1>16 DEF Badges!Next

\* Nothing under way: the badges and ticks say what the server says.
LEMMA BadgesSettle == ASSUME BadgesInv PROVE Badges!SettledBadgesAreTrue
<1> SUFFICES ASSUME Badges!Quiet, missed = {}
             PROVE  /\ at = "full" => poster = Badges!Now(of)
                    /\ at = "files" => label = Badges!Now(of)
                    /\ at = "main" => \A s \in Shows : row[s] \in {Badges!Now(s), Badges!Gone}
                    /\ \A s \in Shows : cache[s] \in {Badges!Null, Badges!Now(s)}
  BY DEF Badges!SettledBadgesAreTrue
<1>1. BadgeTypes /\ BadgeRow /\ BadgePoster /\ BadgeLabel /\ BadgeTicks
  BY DEF BadgesInv
<1>2. asked = {} /\ posts = {} /\ messages = <<>> /\ \A s \in Shows : answers[s] = <<>>
  BY DEF Badges!Quiet
<1>3. ASSUME NEW s \in Shows PROVE ~Badges!Told(s) /\ \A sure, kinds : ~BadgeComes(s, sure, kinds)
  <2>1. ~Badges!Told(s)
    BY <1>2 DEF Badges!Told
  <2> QED BY <1>2, <2>1 DEF BadgeComes
<1>4. at = "full" => poster = Badges!Now(of)
  BY <1>1, <1>3 DEF BadgePoster, BadgeKeeps, BadgeTypes
<1>5. at = "files" => label = Badges!Now(of)
  BY <1>1, <1>2, <1>3 DEF BadgeLabel, BadgeKeeps, BadgeTypes
<1>6. at = "main" => \A s \in Shows : row[s] \in {Badges!Now(s), Badges!Gone}
  BY <1>1, <1>3 DEF BadgeRow, BadgeKeeps, BadgeRight
<1>7. ASSUME NEW s \in Shows, cache[s] # Badges!Null PROVE cache[s] = Badges!Now(s)
  <2>1. cache[s] \in SUBSET Episode /\ Badges!Now(s) \in SUBSET Episode
    BY <1>1, <1>7 DEF BadgeTypes, Badges!Badge, Badges!Now
  <2>2. \A e \in Episode : (e \in cache[s]) <=> (e \in Badges!Now(s))
    BY <1>1, <1>2, <1>3, <1>7 DEF BadgeTicks
  <2> QED BY <2>1, <2>2
<1> QED BY <1>4, <1>5, <1>6, <1>7

-----------------------------------------------------------------------------
(* The status of a card and the rows it is in (StatusRows) *)

StatusChanges == [status : Statuses!Status, n : Nat]
StatusNews == [show : Shows, change : StatusChanges]
StatusPuts == [show : Shows, status : Statuses!Status, stored : Nat]
StatusJoins == [show : Shows, change : StatusChanges, ready : BOOLEAN]

StatusTypes ==
    /\ server \in [Shows -> StatusChanges]
    /\ open \subseteq Shows /\ \A s, t \in open : s = t
    /\ known \subseteq [show : Shows, status : Statuses!Status]
    /\ puts \subseteq StatusPuts
    /\ gets \in [Shows -> Seq(StatusChanges)]
    /\ feed \in Seq(StatusNews) /\ finds \subseteq StatusNews
    /\ joins \subseteq StatusJoins
    /\ row \in [Statuses!Rows -> [Shows -> Statuses!Place]] /\ line \in [Shows -> Statuses!Place]
    /\ applied \in [Shows -> Nat] /\ seen \in [Shows -> Nat]

\* What is said of a show is its status, or an earlier one.
StatusSaid(s, c) == c.n <= server[s].n /\ (c.n = server[s].n => c = server[s])

\* Everything under way says so, and what is laid onto the rows is no newer.
StatusPast ==
    /\ \A s \in Shows : applied[s] <= server[s].n /\ seen[s] <= server[s].n
    /\ \A s \in Shows : \A i \in DOMAIN gets[s] : StatusSaid(s, gets[s][i])
    /\ \A i \in DOMAIN feed : StatusSaid(feed[i].show, feed[i].change)
    /\ \A f \in finds : StatusSaid(f.show, f.change)
    /\ \A p \in puts : p.stored > 0 => StatusSaid(p.show, [status |-> p.status, n |-> p.stored])
    /\ \A j \in joins : StatusSaid(j.show, j.change) /\ j.change.status = "watching"

\* The newest change is laid onto the rows, or is on its way to them.
StatusTold(s) ==
    \/ \E i \in DOMAIN feed : feed[i].show = s /\ feed[i].change = server[s]
    \/ \E f \in finds : f.show = s /\ f.change = server[s]
    \/ \E p \in puts : p.show = s /\ p.stored = server[s].n

StatusHeard == \A s \in Shows : applied[s] = server[s].n \/ StatusTold(s)

\* Once it is laid onto them they are right; the unwatched row may still wait for
\* what it needs to show the card.
StatusLaid ==
    page = "built" =>
        \A s \in Shows, r \in Statuses!Rows : applied[s] = server[s].n => ((row[r][s] = "in") <=> (server[s].status = r))

StatusJoining(s) == \E j \in joins : j.show = s /\ j.change = server[s]
StatusLined ==
    \A s \in Shows : applied[s] = server[s].n =>
        IF server[s].status = "watching" THEN line[s] = "in" \/ StatusJoining(s) ELSE line[s] # "in"

\* The button of the open card is the right one, or an answer is due that lights it.
StatusLit ==
    \A s \in open :
        \/ \E i \in DOMAIN gets[s] : gets[s][i] = server[s]
        \/ applied[s] # server[s].n
        \/ \E p \in puts : p.show = s
        \/ /\ seen[s] = server[s].n /\ marked = server[s].status
           /\ \A k \in known : k.show = s => k.status = server[s].status

StatusesInv ==
    /\ StatusTypes
    /\ missed = {} => StatusPast /\ StatusHeard /\ StatusLaid /\ StatusLined /\ StatusLit

LEMMA StatusesStart == Statuses!Init => StatusesInv
<1> SUFFICES ASSUME Statuses!Init PROVE StatusesInv
  OBVIOUS
<1>1. PICK c : c = [status |-> "none", n |-> 0]
  OBVIOUS
<1>2. c \in StatusChanges /\ c.status = "none" /\ c.n = 0
  BY <1>1 DEF StatusChanges, Statuses!Status, Statuses!Rows
<1>3. /\ server = [s \in Shows |-> c] /\ open = {} /\ known = {} /\ puts = {} /\ gets = [s \in Shows |-> <<>>]
      /\ feed = <<>> /\ finds = {} /\ joins = {} /\ page = "none" /\ row = Statuses!NoRows
      /\ line = [s \in Shows |-> "out"] /\ applied = [s \in Shows |-> 0] /\ seen = [s \in Shows |-> 0]
  BY <1>1 DEF Statuses!Init
<1>4. StatusTypes
  BY <1>2, <1>3 DEF StatusTypes, Statuses!NoRows, Statuses!Rows, Statuses!Place
<1>5. \A s \in Shows : server[s] = c /\ applied[s] = 0 /\ seen[s] = 0 /\ gets[s] = <<>> /\ line[s] = "out"
  BY <1>3
<1>6. StatusPast
  BY <1>2, <1>3, <1>5 DEF StatusPast
<1>7. StatusHeard /\ StatusLaid /\ StatusLined /\ StatusLit
  BY <1>2, <1>3, <1>5 DEF StatusHeard, StatusLaid, StatusLined, StatusLit
<1> QED BY <1>4, <1>6, <1>7 DEF StatusesInv

LEMMA StatusPlaces ==
    /\ \A x \in Statuses!Place : Statuses!Inserted(x) \in Statuses!Place /\ Statuses!Removed(x) \in Statuses!Place /\ Statuses!Removed(x) # "in"
    /\ \A x \in Statuses!Place : x # "fading" => Statuses!Inserted(x) = "in"
    /\ Statuses!Inserted("in") = "in"
BY DEF Statuses!Place, Statuses!Inserted, Statuses!Removed

\* A change that is laid onto the rows.
LEMMA StatusOn ==
    ASSUME StatusTypes, NEW s \in Shows, NEW c \in StatusChanges, NEW found \in BOOLEAN,
           Statuses!OnStatusChanged(s, c, found), server' = server
    PROVE  /\ row' \in [Statuses!Rows -> [Shows -> Statuses!Place]] /\ line' \in [Shows -> Statuses!Place]
           /\ applied' \in [Shows -> Nat] /\ gets' \in [Shows -> Seq(StatusChanges)]
           /\ joins' \subseteq StatusJoins /\ joins \subseteq joins'
           /\ \A j \in joins' : j \in joins \/ (j.show = s /\ j.change = c /\ c.status = "watching")
           /\ \A t \in Shows : t # s =>
                 /\ applied'[t] = applied[t] /\ line'[t] = line[t] /\ gets'[t] = gets[t]
                 /\ \A r \in Statuses!Rows : row'[r][t] = row[r][t]
           /\ gets'[s] = IF s \in open THEN Append(gets[s], server[s]) ELSE gets[s]
           /\ missed' = {} =>
                /\ missed = {} /\ applied[s] <= c.n /\ applied'[s] = c.n
                /\ page = "built" => \A r \in Statuses!Rows : (row'[r][s] = "in") <=> (r = c.status)
                /\ IF c.status = "watching" THEN \E j \in joins' : j.show = s /\ j.change = c
                   ELSE line'[s] # "in"
<1>1. /\ c.status \in Statuses!Status /\ c.n \in Nat /\ applied[s] \in Nat /\ server[s] \in StatusChanges
      /\ row \in [Statuses!Rows -> [Shows -> Statuses!Place]] /\ line \in [Shows -> Statuses!Place] /\ gets \in [Shows -> Seq(StatusChanges)]
      /\ applied \in [Shows -> Nat] /\ joins \subseteq StatusJoins
  BY DEF StatusTypes, StatusChanges
<1>2. /\ applied' = [applied EXCEPT ![s] = IF c.n > @ THEN c.n ELSE @]
      /\ gets' = IF s \in open THEN [gets EXCEPT ![s] = Append(@, server[s])] ELSE gets
      /\ Statuses!SyncMineRows(s, c.status, found)
  BY DEF Statuses!OnStatusChanged
<1>3. missed' = {} => /\ missed = {} /\ ~(c.n < applied[s]) /\ ~Statuses!Fades(s, c.status, found)
                      /\ found \/ c.status \notin Statuses!Rows
  BY DEF Statuses!OnStatusChanged
<1>4. applied' \in [Shows -> Nat] /\ \A t \in Shows : t # s => applied'[t] = applied[t]
  BY <1>1, <1>2
<1>5. ~(c.n < applied[s]) => applied[s] <= c.n /\ applied'[s] = c.n
  BY <1>1, <1>2
<1>6. /\ gets' \in [Shows -> Seq(StatusChanges)] /\ \A t \in Shows : t # s => gets'[t] = gets[t]
      /\ gets'[s] = IF s \in open THEN Append(gets[s], server[s]) ELSE gets[s]
  <2>1. Append(gets[s], server[s]) \in Seq(StatusChanges)
    BY <1>1
  <2> QED BY <1>1, <1>2, <2>1
<1>7. /\ row' \in [Statuses!Rows -> [Shows -> Statuses!Place]]
      /\ \A r \in Statuses!Rows, t \in Shows : t # s => row'[r][t] = row[r][t]
      /\ ~Statuses!Fades(s, c.status, found) /\ (found \/ c.status \notin Statuses!Rows) /\ page = "built" =>
            \A r \in Statuses!Rows : (row'[r][s] = "in") <=> (r = c.status)
  <2>1. CASE page # "built"
    BY <1>1, <1>2, <2>1 DEF Statuses!SyncMineRows
  <2>2. CASE page = "built"
    <3>1. row' = [r \in Statuses!Rows |-> [row[r] EXCEPT ![s] =
                    IF r # c.status THEN Statuses!Removed(@) ELSE IF found THEN Statuses!Inserted(@) ELSE @]]
      BY <1>2, <2>2 DEF Statuses!SyncMineRows
    <3>2. ASSUME NEW r \in Statuses!Rows
          PROVE  /\ row'[r] \in [Shows -> Statuses!Place] /\ \A t \in Shows : t # s => row'[r][t] = row[r][t]
                 /\ row'[r][s] = IF r # c.status THEN Statuses!Removed(row[r][s])
                                 ELSE IF found THEN Statuses!Inserted(row[r][s]) ELSE row[r][s]
      <4>1. row[r] \in [Shows -> Statuses!Place] /\ row[r][s] \in Statuses!Place
        BY <1>1
      <4>2. PICK x \in Statuses!Place : x = IF r # c.status THEN Statuses!Removed(row[r][s])
                                   ELSE IF found THEN Statuses!Inserted(row[r][s]) ELSE row[r][s]
        BY <4>1, StatusPlaces
      <4>3. row'[r] = [row[r] EXCEPT ![s] = x]
        BY <3>1, <4>2
      <4> QED BY <4>1, <4>2, <4>3
    <3>3. row' \in [Statuses!Rows -> [Shows -> Statuses!Place]]
      BY <3>1, <3>2
    <3>4. ASSUME ~Statuses!Fades(s, c.status, found), found \/ c.status \notin Statuses!Rows, NEW r \in Statuses!Rows
          PROVE  (row'[r][s] = "in") <=> (r = c.status)
      <4>1. row[r][s] \in Statuses!Place
        BY <1>1
      <4>2. CASE r # c.status
        BY <3>2, <4>1, <4>2, StatusPlaces
      <4>3. CASE r = c.status
        <5>1. found /\ row[r][s] # "fading"
          BY <2>2, <3>4, <4>3 DEF Statuses!Fades
        <5> QED BY <3>2, <4>1, <4>3, <5>1, StatusPlaces
      <4> QED BY <4>2, <4>3
    <3> QED BY <3>2, <3>3, <3>4
  <2> QED BY <2>1, <2>2
<1>8. CASE c.status = "watching"
  <2>1. /\ line' = line
        /\ joins' = IF found THEN joins \cup {[show |-> s, change |-> c, ready |-> FALSE]} ELSE joins
    BY <1>8 DEF Statuses!OnStatusChanged
  <2>2. PICK no \in BOOLEAN : no = FALSE
    OBVIOUS
  <2>3. PICK j : j = [show |-> s, change |-> c, ready |-> no]
    OBVIOUS
  <2>4. j \in StatusJoins /\ j.show = s /\ j.change = c
    BY <2>3 DEF StatusJoins
  <2>5. joins' = IF found THEN joins \cup {j} ELSE joins
    BY <2>1, <2>2, <2>3
  <2>6. c.status \in Statuses!Rows
    BY <1>8 DEF Statuses!Rows
  <2>7. /\ joins' \subseteq StatusJoins /\ joins \subseteq joins'
        /\ \A i \in joins' : i \in joins \/ (i.show = s /\ i.change = c /\ c.status = "watching")
        /\ found => \E i \in joins' : i.show = s /\ i.change = c
    BY <1>1, <1>8, <2>4, <2>5
  <2> QED BY <1>1, <1>3, <1>4, <1>5, <1>6, <1>7, <1>8, <2>1, <2>6, <2>7
<1>9. CASE c.status # "watching"
  <2>1. line' = [line EXCEPT ![s] = Statuses!Removed(@)] /\ joins' = joins
    BY <1>9 DEF Statuses!OnStatusChanged
  <2>2. line' \in [Shows -> Statuses!Place] /\ line'[s] # "in" /\ \A t \in Shows : t # s => line'[t] = line[t]
    BY <1>1, <2>1, StatusPlaces
  <2> QED BY <1>1, <1>3, <1>4, <1>5, <1>6, <1>7, <1>9, <2>1, <2>2
<1> QED BY <1>8, <1>9

\* ... when it arrives: by an answer, a message or the card it needed.
LEMMA StatusComes ==
    ASSUME StatusesInv, NEW s \in Shows, NEW c \in StatusChanges, NEW found \in BOOLEAN,
           Statuses!OnStatusChanged(s, c, found), UNCHANGED <<server, open, marked, page, seen>>,
           missed = {} => StatusSaid(s, c),
           feed' \in Seq(StatusNews), finds' \subseteq finds, puts' \subseteq puts,
           \A i \in DOMAIN feed' : \E k \in DOMAIN feed : feed'[i] = feed[k],
           \A k \in DOMAIN feed : (feed[k].show = s /\ feed[k].change = c) \/ \E i \in DOMAIN feed' : feed'[i] = feed[k],
           \A f \in finds : f \in finds' \/ (f.show = s /\ f.change = c),
           \A p \in puts : p \in puts' \/ (p.show = s /\ p.stored = c.n),
           known' \subseteq [show : Shows, status : Statuses!Status], \A k \in known' : k \in known \/ k.show = s
    PROVE  StatusesInv'
<1>1. StatusTypes
  BY DEF StatusesInv
<1>2. /\ row' \in [Statuses!Rows -> [Shows -> Statuses!Place]] /\ line' \in [Shows -> Statuses!Place]
      /\ applied' \in [Shows -> Nat] /\ gets' \in [Shows -> Seq(StatusChanges)]
      /\ joins' \subseteq StatusJoins /\ joins \subseteq joins'
      /\ \A j \in joins' : j \in joins \/ (j.show = s /\ j.change = c /\ c.status = "watching")
      /\ \A t \in Shows : t # s =>
            /\ applied'[t] = applied[t] /\ line'[t] = line[t] /\ gets'[t] = gets[t]
            /\ \A r \in Statuses!Rows : row'[r][t] = row[r][t]
      /\ gets'[s] = IF s \in open THEN Append(gets[s], server[s]) ELSE gets[s]
  BY <1>1, StatusOn
<1>3. ASSUME missed' = {}
      PROVE  /\ missed = {} /\ applied[s] <= c.n /\ applied'[s] = c.n
             /\ page = "built" => \A r \in Statuses!Rows : (row'[r][s] = "in") <=> (r = c.status)
             /\ IF c.status = "watching" THEN \E j \in joins' : j.show = s /\ j.change = c
                ELSE line'[s] # "in"
  BY <1>1, <1>3, StatusOn
<1>4. StatusTypes'
  BY <1>1, <1>2 DEF StatusTypes
<1>5. ASSUME missed' = {} PROVE (StatusPast /\ StatusHeard /\ StatusLaid /\ StatusLined /\ StatusLit)'
  <2>1. StatusPast /\ StatusHeard /\ StatusLaid /\ StatusLined /\ StatusLit /\ StatusSaid(s, c)
    BY <1>3, <1>5 DEF StatusesInv
  <2>2. \A t, x : StatusSaid(t, x)' <=> StatusSaid(t, x)
    BY DEF StatusSaid
  <2>3. server[s] \in StatusChanges /\ server[s].n \in Nat /\ c.n \in Nat
    BY <1>1 DEF StatusTypes, StatusChanges
  <2>4. StatusPast'
    <3>1. \A t \in Shows : applied'[t] <= server[t].n /\ seen[t] <= server[t].n
      BY <1>2, <1>3, <1>5, <2>1 DEF StatusPast, StatusSaid
    <3>2. \A t \in Shows : \A i \in DOMAIN gets'[t] : StatusSaid(t, gets'[t][i])
      <4>1. StatusSaid(s, server[s])
        BY <2>3 DEF StatusSaid
      <4>2. gets[s] \in Seq(StatusChanges)
        BY <1>1 DEF StatusTypes
      <4>3. \A i \in DOMAIN gets'[s] : StatusSaid(s, gets'[s][i])
        <5>1. CASE s \in open
          BY <1>2, <2>1, <2>3, <4>1, <4>2, <5>1, QueueAppend DEF StatusPast
        <5>2. CASE s \notin open
          BY <1>2, <2>1, <5>2 DEF StatusPast
        <5> QED BY <5>1, <5>2
      <4> QED BY <1>2, <2>1, <4>3 DEF StatusPast
    <3>3. \A i \in DOMAIN feed' : StatusSaid(feed'[i].show, feed'[i].change)
      BY <2>1 DEF StatusPast
    <3>4. \A j \in joins' : StatusSaid(j.show, j.change) /\ j.change.status = "watching"
      BY <1>2, <2>1 DEF StatusPast
    <3> QED BY <2>1, <2>2, <3>1, <3>2, <3>3, <3>4 DEF StatusPast
  <2>5. StatusHeard'
    <3> SUFFICES ASSUME NEW t \in Shows, applied'[t] # server[t].n PROVE StatusTold(t)'
      BY DEF StatusHeard
    <3>1. CASE t = s
      <4>1. c.n # server[s].n
        BY <1>3, <1>5, <3>1
      <4>2. StatusTold(s)
        BY <1>3, <1>5, <2>1, <2>3, <4>1 DEF StatusHeard, StatusSaid
      <4>3. CASE \E i \in DOMAIN feed : feed[i].show = s /\ feed[i].change = server[s]
        BY <3>1, <4>1, <4>3 DEF StatusTold
      <4>4. CASE \E f \in finds : f.show = s /\ f.change = server[s]
        BY <3>1, <4>1, <4>4 DEF StatusTold
      <4>5. CASE \E p \in puts : p.show = s /\ p.stored = server[s].n
        BY <3>1, <4>1, <4>5 DEF StatusTold
      <4> QED BY <4>2, <4>3, <4>4, <4>5 DEF StatusTold
    <3>2. CASE t # s
      <4>1. StatusTold(t)
        BY <1>2, <2>1, <3>2 DEF StatusHeard
      <4>3. CASE \E i \in DOMAIN feed : feed[i].show = t /\ feed[i].change = server[t]
        BY <3>2, <4>3 DEF StatusTold
      <4>4. CASE \E f \in finds : f.show = t /\ f.change = server[t]
        BY <3>2, <4>4 DEF StatusTold
      <4>5. CASE \E p \in puts : p.show = t /\ p.stored = server[t].n
        BY <3>2, <4>5 DEF StatusTold
      <4> QED BY <4>1, <4>3, <4>4, <4>5 DEF StatusTold
    <3> QED BY <3>1, <3>2
  <2>6. StatusLaid'
    <3> SUFFICES ASSUME page = "built", NEW t \in Shows, NEW r \in Statuses!Rows, applied'[t] = server[t].n
                 PROVE  (row'[r][t] = "in") <=> (server[t].status = r)
      BY DEF StatusLaid
    <3>1. CASE t = s
      BY <1>3, <1>5, <2>1, <3>1 DEF StatusSaid
    <3>2. CASE t # s
      <4>1. applied[t] = server[t].n /\ row'[r][t] = row[r][t]
        BY <1>2, <3>2
      <4>2. (row[r][t] = "in") <=> (server[t].status = r)
        BY <2>1, <4>1 DEF StatusLaid
      <4> QED BY <4>1, <4>2
    <3> QED BY <3>1, <3>2
  <2>7. StatusLined'
    <3> SUFFICES ASSUME NEW t \in Shows, applied'[t] = server[t].n
                 PROVE  IF server[t].status = "watching" THEN line'[t] = "in" \/ StatusJoining(t)' ELSE line'[t] # "in"
      BY DEF StatusLined
    <3>1. CASE t = s
      <4>1. c = server[s]
        BY <1>3, <1>5, <2>1, <3>1 DEF StatusSaid
      <4> QED BY <1>3, <1>5, <3>1, <4>1 DEF StatusJoining
    <3>2. CASE t # s
      <4>1. StatusJoining(t) => StatusJoining(t)'
        BY <1>2 DEF StatusJoining
      <4> QED BY <1>2, <2>1, <3>2, <4>1 DEF StatusLined
    <3> QED BY <3>1, <3>2
  <2>8. StatusLit'
    <3> SUFFICES ASSUME NEW t \in open
                 PROVE  \/ \E i \in DOMAIN gets'[t] : gets'[t][i] = server[t]
                        \/ applied'[t] # server[t].n
                        \/ \E p \in puts' : p.show = t
                        \/ /\ seen[t] = server[t].n /\ marked = server[t].status
                           /\ \A k \in known' : k.show = t => k.status = server[t].status
      BY DEF StatusLit
    <3>1. t \in Shows
      BY <1>1 DEF StatusTypes
    <3>2. CASE t = s
      <4>1. gets[s] \in Seq(StatusChanges)
        BY <1>1 DEF StatusTypes
      <4>2. gets'[s] = Append(gets[s], server[s])
        BY <1>2, <3>2
      <4> QED BY <2>3, <3>2, <4>1, <4>2, QueueAppend
    <3>3. CASE t # s
      <4>1. gets'[t] = gets[t] /\ applied'[t] = applied[t]
        BY <1>2, <3>1, <3>3
      <4>2. \A p \in puts : p.show = t => p \in puts'
        BY <3>3
      <4>3. \A k \in known' : k.show = t => k \in known
        BY <3>3
      <4>4. \/ \E i \in DOMAIN gets[t] : gets[t][i] = server[t]
            \/ applied[t] # server[t].n
            \/ \E p \in puts : p.show = t
            \/ /\ seen[t] = server[t].n /\ marked = server[t].status
               /\ \A k \in known : k.show = t => k.status = server[t].status
        BY <2>1 DEF StatusLit
      <4> QED BY <4>1, <4>2, <4>3, <4>4
    <3> QED BY <3>2, <3>3
  <2> QED BY <2>4, <2>5, <2>6, <2>7, <2>8
<1> QED BY <1>4, <1>5 DEF StatusesInv

LEMMA StatusPut ==
    ASSUME StatusesInv, NEW p \in puts, Statuses!PutDone(p)
    PROVE  StatusesInv'
<1>1. StatusTypes /\ p \in StatusPuts
  BY DEF StatusesInv, StatusTypes
<1>2. p.show \in Shows /\ p.status \in Statuses!Status /\ p.stored \in Nat /\ p.stored > 0
  BY <1>1 DEF StatusPuts, Statuses!PutDone
<1>3. PICK c : c = [status |-> p.status, n |-> p.stored]
  OBVIOUS
<1>4. c \in StatusChanges /\ c.n = p.stored
  BY <1>2, <1>3 DEF StatusChanges
<1>5. PICK yes \in BOOLEAN : yes = TRUE
  OBVIOUS
<1>6. /\ Statuses!OnStatusChanged(p.show, c, yes) /\ puts' = puts \ {p} /\ known' = {[show |-> p.show, status |-> p.status]}
      /\ UNCHANGED <<server, open, marked, page, seen, feed, finds>>
  BY <1>3, <1>5 DEF Statuses!PutDone
<1>7. missed = {} => StatusSaid(p.show, c)
  BY <1>2, <1>3 DEF StatusesInv, StatusPast
<1>8. known' \subseteq [show : Shows, status : Statuses!Status] /\ \A k \in known' : k \in known \/ k.show = p.show
  BY <1>2, <1>6
<1>9. feed' \in Seq(StatusNews)
  BY <1>1, <1>6 DEF StatusTypes
<1> QED BY <1>2, <1>4, <1>6, <1>7, <1>8, <1>9, StatusComes

LEMMA StatusFound ==
    ASSUME StatusesInv, NEW f \in finds, Statuses!Found(f)
    PROVE  StatusesInv'
<1>1. StatusTypes /\ f \in StatusNews
  BY DEF StatusesInv, StatusTypes
<1>2. f.show \in Shows /\ f.change \in StatusChanges
  BY <1>1 DEF StatusNews
<1>3. PICK found \in BOOLEAN : Statuses!OnStatusChanged(f.show, f.change, found)
  BY DEF Statuses!Found
<1>4. finds' = finds \ {f} /\ UNCHANGED <<server, open, marked, page, seen, feed, puts, known>>
  BY DEF Statuses!Found
<1>5. missed = {} => StatusSaid(f.show, f.change)
  BY DEF StatusesInv, StatusPast
<1>6. feed' \in Seq(StatusNews) /\ known' \subseteq [show : Shows, status : Statuses!Status]
  BY <1>1, <1>4 DEF StatusTypes
<1> QED BY <1>2, <1>3, <1>4, <1>5, <1>6, StatusComes

\* A message: applied at once, or once the card it needs has come.
LEMMA StatusMessage ==
    ASSUME StatusesInv, Statuses!Message
    PROVE  StatusesInv'
<1>1. StatusTypes /\ feed \in Seq(StatusNews) /\ feed # <<>>
  BY DEF StatusesInv, StatusTypes, Statuses!Message
<1>2. PICK h : h = Head(feed)
  OBVIOUS
<1>3. /\ h \in StatusNews /\ h = feed[1] /\ feed' = Tail(feed) /\ feed' \in Seq(StatusNews)
      /\ Len(feed) \in Nat \ {0} /\ DOMAIN feed = 1..Len(feed) /\ DOMAIN feed' = 1..Len(feed) - 1
      /\ \A i \in 1..Len(feed) - 1 : feed'[i] = feed[i + 1]
  BY <1>1, <1>2, QueueTail DEF Statuses!Message
<1>4. h.show \in Shows /\ h.change \in StatusChanges
  BY <1>3 DEF StatusNews
<1>5. \A i \in DOMAIN feed' : \E k \in DOMAIN feed : feed'[i] = feed[k]
  BY <1>3
<1>6. \A k \in DOMAIN feed : feed[k] = h \/ \E i \in DOMAIN feed' : feed'[i] = feed[k]
  <2> SUFFICES ASSUME NEW k \in DOMAIN feed, k # 1 PROVE \E i \in DOMAIN feed' : feed'[i] = feed[k]
    BY <1>3
  <2>1. k - 1 \in DOMAIN feed' /\ feed'[k - 1] = feed[k]
    BY <1>3
  <2> QED BY <2>1
<1>7. missed = {} => StatusSaid(h.show, h.change)
  <2>1. 1 \in DOMAIN feed
    BY <1>3
  <2> QED BY <1>3, <2>1 DEF StatusesInv, StatusPast
<1>8. CASE h.change.status = "none"
  <2>1. PICK no \in BOOLEAN : no = FALSE
    OBVIOUS
  <2>2. /\ Statuses!OnStatusChanged(h.show, h.change, no)
        /\ UNCHANGED <<server, open, marked, page, seen, puts, known, finds>>
    BY <1>2, <1>8, <2>1 DEF Statuses!Message
  <2>3. known' \subseteq [show : Shows, status : Statuses!Status]
    BY <1>1, <2>2 DEF StatusTypes
  <2> QED BY <1>3, <1>4, <1>5, <1>6, <1>7, <2>2, <2>3, StatusComes
<1>9. CASE h.change.status # "none"
  <2>1. /\ finds' = finds \cup {h}
        /\ UNCHANGED <<server, open, marked, page, seen, puts, known, row, gets, line, joins, applied, missed>>
    BY <1>2, <1>9 DEF Statuses!Message
  <2>2. StatusTypes'
    <3>1. finds' \subseteq StatusNews
      BY <1>1, <1>3, <2>1 DEF StatusTypes
    <3> QED BY <1>1, <1>3, <2>1, <3>1 DEF StatusTypes
  <2>3. ASSUME missed' = {} PROVE (StatusPast /\ StatusHeard /\ StatusLaid /\ StatusLined /\ StatusLit)'
    <3>1. StatusPast /\ StatusHeard /\ StatusLaid /\ StatusLined /\ StatusLit /\ StatusSaid(h.show, h.change)
      BY <1>7, <2>1, <2>3 DEF StatusesInv
    <3>2. \A t, x : StatusSaid(t, x)' <=> StatusSaid(t, x)
      BY <2>1 DEF StatusSaid
    <3>3. StatusPast'
      <4>1. \A i \in DOMAIN feed' : StatusSaid(feed'[i].show, feed'[i].change)
        BY <1>5, <3>1 DEF StatusPast
      <4>2. \A f \in finds' : StatusSaid(f.show, f.change)
        BY <2>1, <3>1 DEF StatusPast
      <4> QED BY <2>1, <3>1, <3>2, <4>1, <4>2 DEF StatusPast
    <3>4. ASSUME NEW t \in Shows, StatusTold(t) PROVE StatusTold(t)'
      <4>1. CASE \E i \in DOMAIN feed : feed[i].show = t /\ feed[i].change = server[t]
        <5>1. PICK i \in DOMAIN feed : feed[i].show = t /\ feed[i].change = server[t]
          BY <4>1
        <5>2. CASE feed[i] = h
          BY <2>1, <5>1, <5>2 DEF StatusTold
        <5>3. CASE \E k \in DOMAIN feed' : feed'[k] = feed[i]
          BY <2>1, <5>1, <5>3 DEF StatusTold
        <5> QED BY <1>6, <5>2, <5>3
      <4>2. CASE ~\E i \in DOMAIN feed : feed[i].show = t /\ feed[i].change = server[t]
        BY <2>1, <3>4, <4>2 DEF StatusTold
      <4> QED BY <4>1, <4>2
    <3>5. StatusHeard'
      BY <2>1, <3>1, <3>4 DEF StatusHeard
    <3>6. (StatusLaid /\ StatusLined /\ StatusLit)'
      BY <2>1, <3>1 DEF StatusLaid, StatusLined, StatusLit, StatusJoining
    <3> QED BY <3>1, <3>3, <3>5, <3>6
  <2> QED BY <2>2, <2>3 DEF StatusesInv
<1> QED BY <1>8, <1>9

\* A status that is new to the rows and to the open card.
LEMMA StatusNewer ==
    ASSUME StatusesInv, NEW s \in Shows, NEW st \in Statuses!Status,
           Statuses!SetElsewhere(s, st) \/ \E p \in puts : p.show = s /\ p.status = st /\ Statuses!PutStored(p)
    PROVE  StatusesInv'
<1>1. StatusTypes /\ server \in [Shows -> StatusChanges] /\ feed \in Seq(StatusNews)
  BY DEF StatusesInv, StatusTypes
<1>2. server[s].n \in Nat
  BY <1>1 DEF StatusChanges
<1>3. PICK c : c = [status |-> st, n |-> server[s].n + 1]
  OBVIOUS
<1>4. c \in StatusChanges /\ c.n = server[s].n + 1 /\ c.status = st
  BY <1>2, <1>3 DEF StatusChanges
<1>5. /\ server' = [server EXCEPT ![s] = c]
      /\ UNCHANGED <<open, marked, known, gets, finds, page, row, line, joins, applied, seen, missed>>
  BY <1>3 DEF Statuses!SetElsewhere, Statuses!PutStored
<1>6. server'[s] = c /\ server' \in [Shows -> StatusChanges] /\ \A t \in Shows : t # s => server'[t] = server[t]
  BY <1>1, <1>4, <1>5
<1>7. /\ feed' \in Seq(StatusNews) /\ puts' \subseteq StatusPuts
      /\ \A i \in DOMAIN feed' : (feed'[i].show = s /\ feed'[i].change = c) \/ \E k \in DOMAIN feed : feed'[i] = feed[k]
      /\ \A i \in DOMAIN feed : \E k \in DOMAIN feed' : feed'[k] = feed[i]
      /\ \A q \in puts' : q \in puts \/ (q.show = s /\ q.status = st /\ q.stored = c.n)
      /\ \A q \in puts : \/ q \in puts'
                         \/ q.show = s /\ \E r \in puts' : r.show = s
      /\ \/ \E i \in DOMAIN feed' : feed'[i].show = s /\ feed'[i].change = c
         \/ \E q \in puts' : q.show = s /\ q.stored = c.n
  <2>1. CASE Statuses!SetElsewhere(s, st)
    <3>1. PICK m : m = [show |-> s, change |-> c]
      OBVIOUS
    <3>2. m \in StatusNews /\ m.show = s /\ m.change = c
      BY <1>4, <3>1 DEF StatusNews
    <3>3. feed' = Append(feed, m) /\ puts' = puts
      BY <1>6, <2>1, <3>1 DEF Statuses!SetElsewhere
    <3>4. /\ feed' \in Seq(StatusNews) /\ Len(feed) \in Nat
          /\ DOMAIN feed = 1..Len(feed) /\ DOMAIN feed' = 1..Len(feed) + 1
          /\ feed'[Len(feed) + 1] = m /\ \A i \in 1..Len(feed) : feed'[i] = feed[i]
      BY <1>1, <3>2, <3>3, QueueAppend
    <3>5. \A i \in DOMAIN feed' : feed'[i] = m \/ \E k \in DOMAIN feed : feed'[i] = feed[k]
      BY <3>4
    <3>6. \A i \in DOMAIN feed : \E k \in DOMAIN feed' : feed'[k] = feed[i]
      BY <3>4
    <3>7. \E i \in DOMAIN feed' : feed'[i] = m
      BY <3>4
    <3>8. puts' \subseteq StatusPuts
      BY <1>1, <3>3 DEF StatusTypes
    <3> QED BY <3>2, <3>3, <3>4, <3>5, <3>6, <3>7, <3>8
  <2>2. CASE \E p \in puts : p.show = s /\ p.status = st /\ Statuses!PutStored(p)
    <3>1. PICK p \in puts : p.show = s /\ p.status = st /\ Statuses!PutStored(p)
      BY <2>2
    <3>2. PICK q : q = [p EXCEPT !.stored = server[s].n + 1]
      OBVIOUS
    <3>3. p \in StatusPuts
      BY <1>1 DEF StatusTypes
    <3>4. q \in StatusPuts /\ q.show = s /\ q.status = st /\ q.stored = c.n
      BY <1>2, <1>4, <3>1, <3>2, <3>3 DEF StatusPuts
    <3>5. puts' = (puts \ {p}) \cup {q} /\ feed' = feed
      BY <3>1, <3>2 DEF Statuses!PutStored
    <3>6. puts' \subseteq StatusPuts
      BY <1>1, <3>4, <3>5 DEF StatusTypes
    <3> QED BY <1>1, <3>1, <3>4, <3>5, <3>6
  <2> QED BY <2>1, <2>2
<1>8. StatusTypes'
  BY <1>1, <1>5, <1>6, <1>7 DEF StatusTypes
<1>9. ASSUME missed' = {} PROVE (StatusPast /\ StatusHeard /\ StatusLaid /\ StatusLined /\ StatusLit)'
  <2>1. StatusPast /\ StatusHeard /\ StatusLaid /\ StatusLined /\ StatusLit
    BY <1>5, <1>9 DEF StatusesInv
  <2> DEFINE Says(t, x) == x.n <= server'[t].n /\ (x.n = server'[t].n => x = server'[t])
  <2>2. ASSUME NEW x \in StatusChanges, StatusSaid(s, x) PROVE Says(s, x)
    <3>1. x.n \in Nat /\ x.n <= server[s].n
      BY <2>2 DEF StatusSaid, StatusChanges
    <3> QED BY <1>2, <1>4, <1>6, <3>1
  <2>3. \A t \in Shows : \A x : t # s /\ StatusSaid(t, x) => Says(t, x)
    BY <1>6 DEF StatusSaid
  <2>4. \A t \in Shows, x \in StatusChanges : StatusSaid(t, x) => Says(t, x)
    BY <2>2, <2>3
  <2>5. Says(s, c)
    BY <1>2, <1>4, <1>6
  <2> HIDE DEF Says
  <2>6. applied[s] # c.n
    BY <1>1, <1>2, <1>4, <2>1 DEF StatusPast, StatusTypes
  <2>7. StatusPast'
    <3>1. \A t \in Shows : applied'[t] <= server'[t].n /\ seen'[t] <= server'[t].n
      <4>1. /\ applied[s] \in Nat /\ seen[s] \in Nat
            /\ \A t \in Shows : applied[t] <= server[t].n /\ seen[t] <= server[t].n
        BY <1>1, <2>1 DEF StatusPast, StatusTypes
      <4> QED BY <1>2, <1>4, <1>5, <1>6, <4>1
    <3>2. ASSUME NEW t \in Shows, NEW i \in DOMAIN gets[t] PROVE Says(t, gets[t][i])
      <4>1. gets[t] \in Seq(StatusChanges)
        BY <1>1 DEF StatusTypes
      <4>2. PICK x \in StatusChanges : x = gets[t][i]
        BY <4>1
      <4>3. StatusSaid(t, x)
        BY <2>1, <4>2 DEF StatusPast
      <4>4. Says(t, x)
        BY <2>4, <4>3
      <4> QED BY <1>5, <4>2, <4>4
    <3>3. ASSUME NEW i \in DOMAIN feed' PROVE Says(feed'[i].show, feed'[i].change)
      <4>1. CASE feed'[i].show = s /\ feed'[i].change = c
        BY <2>5, <4>1
      <4>2. CASE \E k \in DOMAIN feed : feed'[i] = feed[k]
        <5>1. PICK k \in DOMAIN feed : feed'[i] = feed[k]
          BY <4>2
        <5>2. PICK m \in StatusNews : m = feed[k]
          BY <1>1
        <5>3. m.show \in Shows /\ m.change \in StatusChanges /\ StatusSaid(m.show, m.change)
          BY <2>1, <5>2 DEF StatusNews, StatusPast
        <5>4. PICK t, x : t = m.show /\ x = m.change
          OBVIOUS
        <5>5. Says(t, x)
          BY <2>4, <5>3, <5>4
        <5> QED BY <5>1, <5>2, <5>4, <5>5
      <4> QED BY <1>7, <4>1, <4>2
    <3>4. ASSUME NEW f \in finds PROVE Says(f.show, f.change)
      <4>1. f.show \in Shows /\ f.change \in StatusChanges /\ StatusSaid(f.show, f.change)
        BY <1>1, <2>1 DEF StatusTypes, StatusNews, StatusPast
      <4> QED BY <2>4, <4>1
    <3>5. ASSUME NEW j \in joins PROVE Says(j.show, j.change) /\ j.change.status = "watching"
      <4>1. j.show \in Shows /\ j.change \in StatusChanges /\ StatusSaid(j.show, j.change) /\ j.change.status = "watching"
        BY <1>1, <2>1 DEF StatusTypes, StatusJoins, StatusPast
      <4> QED BY <2>4, <4>1
    <3>6. ASSUME NEW q \in puts', q.stored > 0 PROVE Says(q.show, [status |-> q.status, n |-> q.stored])
      <4>1. q \in StatusPuts
        BY <1>7
      <4>2. PICK t, x : t = q.show /\ x = [status |-> q.status, n |-> q.stored]
        OBVIOUS
      <4>3. t \in Shows /\ x \in StatusChanges
        BY <4>1, <4>2 DEF StatusPuts, StatusChanges
      <4>4. CASE q \in puts
        <5>1. StatusSaid(t, x)
          BY <2>1, <3>6, <4>2, <4>4 DEF StatusPast
        <5>2. Says(t, x)
          BY <2>4, <4>3, <5>1
        <5> QED BY <4>2, <5>2
      <4>5. CASE q.show = s /\ q.status = st /\ q.stored = c.n
        <5>1. t = s /\ x = c
          BY <1>3, <1>4, <4>2, <4>5
        <5> QED BY <2>5, <4>2, <5>1
      <4> QED BY <1>7, <4>4, <4>5
    <3>7. \A i \in DOMAIN feed' : Says(feed'[i].show, feed'[i].change)
      BY <3>3
    <3>8. \A q \in puts' : q.stored > 0 => Says(q.show, [status |-> q.status, n |-> q.stored])
      BY <3>6
    <3>9. \A t \in Shows : \A i \in DOMAIN gets'[t] : Says(t, gets'[t][i])
      BY <1>5, <3>2
    <3>10. (\A f \in finds' : Says(f.show, f.change))
           /\ \A j \in joins' : Says(j.show, j.change) /\ j.change.status = "watching"
      BY <1>5, <3>4, <3>5
    <3> QED BY <3>1, <3>7, <3>8, <3>9, <3>10 DEF StatusPast, StatusSaid, Says
  <2>8. StatusHeard'
    <3> SUFFICES ASSUME NEW t \in Shows, applied[t] # server'[t].n PROVE StatusTold(t)'
      BY <1>5 DEF StatusHeard
    <3>1. CASE t = s
      BY <1>6, <1>7, <3>1 DEF StatusTold
    <3>2. CASE t # s
      <4>1. StatusTold(t)
        BY <1>6, <2>1, <3>2 DEF StatusHeard
      <4>2. CASE \E i \in DOMAIN feed : feed[i].show = t /\ feed[i].change = server[t]
        BY <1>6, <1>7, <3>2, <4>2 DEF StatusTold
      <4>3. CASE \E f \in finds : f.show = t /\ f.change = server[t]
        BY <1>5, <1>6, <3>2, <4>3 DEF StatusTold
      <4>4. CASE \E p \in puts : p.show = t /\ p.stored = server[t].n
        BY <1>6, <1>7, <3>2, <4>4 DEF StatusTold
      <4> QED BY <4>1, <4>2, <4>3, <4>4 DEF StatusTold
    <3> QED BY <3>1, <3>2
  <2>9. StatusLaid'
    BY <1>4, <1>5, <1>6, <2>1, <2>6 DEF StatusLaid
  <2>10. StatusLined'
    BY <1>4, <1>5, <1>6, <2>1, <2>6 DEF StatusLined, StatusJoining
  <2>11. StatusLit'
    <3> SUFFICES ASSUME NEW t \in open
                 PROVE  \/ \E i \in DOMAIN gets[t] : gets[t][i] = server'[t]
                        \/ applied[t] # server'[t].n
                        \/ \E p \in puts' : p.show = t
                        \/ /\ seen[t] = server'[t].n /\ marked = server'[t].status
                           /\ \A k \in known : k.show = t => k.status = server'[t].status
      BY <1>5 DEF StatusLit
    <3>1. t \in Shows
      BY <1>1 DEF StatusTypes
    <3>2. CASE t = s
      BY <1>6, <2>6, <3>2
    <3>3. CASE t # s
      <4>1. \A p \in puts : p.show = t => \E q \in puts' : q.show = t
        BY <1>7
      <4> QED BY <1>6, <2>1, <3>1, <3>3, <4>1 DEF StatusLit
    <3> QED BY <3>2, <3>3
  <2> QED BY <2>7, <2>8, <2>9, <2>10, <2>11
<1> QED BY <1>8, <1>9 DEF StatusesInv

\* A card joins the unwatched row, or will not.
LEMMA StatusJoined ==
    ASSUME StatusesInv, NEW j \in joins, Statuses!Progress(j) \/ Statuses!Join(j)
    PROVE  StatusesInv'
<1>1. StatusTypes /\ j \in StatusJoins /\ line \in [Shows -> Statuses!Place] /\ joins \subseteq StatusJoins
  BY DEF StatusesInv, StatusTypes
<1>2. j.show \in Shows /\ j.change \in StatusChanges
  BY <1>1 DEF StatusJoins
<1>3. UNCHANGED <<server, open, marked, known, puts, gets, feed, finds, page, row, applied, seen>>
  BY DEF Statuses!Progress, Statuses!Join
<1>4. \A t, x : StatusSaid(t, x)' <=> StatusSaid(t, x)
  BY <1>3 DEF StatusSaid
<1>5. ASSUME missed = {}
      PROVE  /\ StatusPast /\ StatusHeard /\ StatusLaid /\ StatusLined /\ StatusLit
             /\ StatusSaid(j.show, j.change) /\ j.change.status = "watching"
  BY <1>5 DEF StatusesInv, StatusPast
<1>6. CASE Statuses!Progress(j)
  <2>1. UNCHANGED <<line, missed>>
    BY <1>6 DEF Statuses!Progress
  <2>2. PICK yes \in BOOLEAN : yes = TRUE
    OBVIOUS
  <2>3. PICK k : k = [j EXCEPT !.ready = TRUE]
    OBVIOUS
  <2>4. k = [j EXCEPT !.ready = yes]
    BY <2>2, <2>3
  <2>5. k \in StatusJoins /\ k.show = j.show /\ k.change = j.change
    BY <1>1, <2>4 DEF StatusJoins
  <2>6. joins' = (joins \ {j}) \cup (IF Statuses!Is(j.show, "watching") THEN {k} ELSE {})
    BY <1>6, <2>3 DEF Statuses!Progress
  <2>7. joins' \subseteq StatusJoins /\ \A i \in joins' : i \in joins \/ (i.show = j.show /\ i.change = j.change)
    BY <1>1, <2>5, <2>6
  <2>8. StatusTypes'
    BY <1>1, <1>3, <2>1, <2>7 DEF StatusTypes
  <2>9. ASSUME missed' = {} PROVE (StatusPast /\ StatusHeard /\ StatusLaid /\ StatusLined /\ StatusLit)'
    <3>1. missed = {}
      BY <2>1, <2>9
    <3>2. StatusPast'
      <4>1. \A i \in joins' : StatusSaid(i.show, i.change) /\ i.change.status = "watching"
        BY <1>5, <2>7, <3>1 DEF StatusPast
      <4> QED BY <1>3, <1>4, <1>5, <3>1, <4>1 DEF StatusPast
    <3>3. StatusHeard' /\ StatusLaid' /\ StatusLit'
      BY <1>3, <1>5, <3>1 DEF StatusHeard, StatusTold, StatusLaid, StatusLit
    <3>4. ASSUME NEW t \in Shows, StatusJoining(t) PROVE StatusJoining(t)' \/ server[t].status # "watching"
      <4>1. PICK i \in joins : i.show = t /\ i.change = server[t]
        BY <3>4 DEF StatusJoining
      <4>2. CASE i = j
        BY <1>3, <2>5, <2>6, <4>1, <4>2 DEF StatusJoining, Statuses!Is
      <4>3. CASE i # j
        BY <1>3, <2>6, <4>1, <4>3 DEF StatusJoining
      <4> QED BY <4>2, <4>3
    <3>5. StatusLined'
      BY <1>3, <1>5, <2>1, <3>1, <3>4 DEF StatusLined
    <3> QED BY <3>2, <3>3, <3>5
  <2> QED BY <2>8, <2>9 DEF StatusesInv
<1>7. CASE Statuses!Join(j)
  <2>1. PICK x \in Statuses!Place : x = Statuses!Inserted(line[j.show])
    BY <1>1, <1>2, StatusPlaces
  <2>2. joins' = joins \ {j} /\ line' = [line EXCEPT ![j.show] = x]
    BY <1>7, <2>1 DEF Statuses!Join
  <2>3. line' \in [Shows -> Statuses!Place] /\ line'[j.show] = x /\ \A t \in Shows : t # j.show => line'[t] = line[t]
    BY <1>1, <1>2, <2>1, <2>2
  <2>4. StatusTypes'
    BY <1>1, <1>3, <2>2, <2>3 DEF StatusTypes
  <2>5. ASSUME missed' = {} PROVE (StatusPast /\ StatusHeard /\ StatusLaid /\ StatusLined /\ StatusLit)'
    <3>1. missed = {} /\ ~(j.change.n < applied[j.show]) /\ line[j.show] # "fading"
      BY <1>7, <2>5 DEF Statuses!Join
    <3>2. x = "in"
      BY <1>1, <1>2, <2>1, <3>1, StatusPlaces
    <3>3. StatusPast'
      BY <1>3, <1>4, <1>5, <2>2, <3>1 DEF StatusPast
    <3>4. StatusHeard' /\ StatusLaid' /\ StatusLit'
      BY <1>3, <1>5, <3>1 DEF StatusHeard, StatusTold, StatusLaid, StatusLit
    <3>5. ASSUME NEW t \in Shows, applied[t] = server[t].n
          PROVE  IF server[t].status = "watching" THEN line'[t] = "in" \/ StatusJoining(t)' ELSE line'[t] # "in"
      <4>1. CASE t = j.show
        <5>1. j.change.n \in Nat /\ server[t].n \in Nat
          BY <1>1, <1>2 DEF StatusTypes, StatusChanges
        <5>2. j.change.n = server[t].n
          BY <1>5, <3>1, <3>5, <4>1, <5>1 DEF StatusSaid
        <5>3. server[t].status = "watching"
          BY <1>5, <3>1, <4>1, <5>2 DEF StatusSaid
        <5> QED BY <2>3, <3>2, <4>1, <5>3
      <4>2. CASE t # j.show
        <5>1. StatusJoining(t) => StatusJoining(t)'
          BY <1>3, <2>2, <4>2 DEF StatusJoining
        <5> QED BY <1>5, <2>3, <3>1, <3>5, <4>2, <5>1 DEF StatusLined
      <4> QED BY <4>1, <4>2
    <3>6. StatusLined'
      BY <1>3, <3>5 DEF StatusLined
    <3> QED BY <3>3, <3>4, <3>6
  <2> QED BY <2>4, <2>5 DEF StatusesInv
<1> QED BY <1>6, <1>7

\* A card has faded out.
LEMMA StatusFaded ==
    ASSUME StatusesInv, NEW s \in Shows, Statuses!Fade(s)
    PROVE  StatusesInv'
<1>1. StatusTypes /\ line \in [Shows -> Statuses!Place] /\ row \in [Statuses!Rows -> [Shows -> Statuses!Place]]
  BY DEF StatusesInv, StatusTypes
<1>2. /\ line' = [line EXCEPT ![s] = IF @ = "fading" THEN "out" ELSE @]
      /\ row' = [r \in Statuses!Rows |-> [row[r] EXCEPT ![s] = IF @ = "fading" THEN "out" ELSE @]]
      /\ UNCHANGED <<server, open, marked, known, puts, gets, feed, finds, page, joins, applied, seen, missed>>
  BY DEF Statuses!Fade
<1>3. "out" \in Statuses!Place
  BY DEF Statuses!Place
<1>4. line' \in [Shows -> Statuses!Place] /\ \A t \in Shows : (line'[t] = "in") <=> (line[t] = "in")
  BY <1>1, <1>2, <1>3
<1>5. ASSUME NEW r \in Statuses!Rows
      PROVE  row'[r] \in [Shows -> Statuses!Place] /\ \A t \in Shows : (row'[r][t] = "in") <=> (row[r][t] = "in")
  <2>1. row[r] \in [Shows -> Statuses!Place]
    BY <1>1
  <2>2. row'[r] = [row[r] EXCEPT ![s] = IF @ = "fading" THEN "out" ELSE @]
    BY <1>2
  <2> QED BY <1>3, <2>1, <2>2
<1>6. row' \in [Statuses!Rows -> [Shows -> Statuses!Place]]
  BY <1>2, <1>5
<1>7. StatusTypes'
  BY <1>1, <1>2, <1>4, <1>6 DEF StatusTypes
<1>8. ASSUME missed' = {} PROVE (StatusPast /\ StatusHeard /\ StatusLaid /\ StatusLined /\ StatusLit)'
  <2>1. StatusPast /\ StatusHeard /\ StatusLaid /\ StatusLined /\ StatusLit
    BY <1>2, <1>8 DEF StatusesInv
  <2>2. StatusPast' /\ StatusHeard' /\ StatusLit'
    BY <1>2, <2>1 DEF StatusPast, StatusSaid, StatusHeard, StatusTold, StatusLit
  <2>3. StatusLaid'
    BY <1>2, <1>5, <2>1 DEF StatusLaid
  <2>4. StatusLined'
    BY <1>2, <1>4, <2>1 DEF StatusLined, StatusJoining
  <2> QED BY <2>2, <2>3, <2>4
<1> QED BY <1>7, <1>8 DEF StatusesInv

\* The page Mine is opened, its rows come one by one, and it is built.
LEMMA StatusPage ==
    ASSUME StatusesInv, Statuses!OpenPage \/ Statuses!PageBuilt \/ \E r \in Statuses!Rows : Statuses!RowServed(r)
    PROVE  StatusesInv'
<1>1. StatusTypes
  BY DEF StatusesInv
<1>2. UNCHANGED <<server, open, marked, known, puts, gets, feed, finds, line, joins, applied, seen>>
  BY DEF Statuses!OpenPage, Statuses!PageBuilt, Statuses!RowServed
<1>3. /\ row' \in [Statuses!Rows -> [Shows -> Statuses!Place]]
      /\ missed' = {} =>
            /\ missed = {}
            /\ page' = "built" => \A s \in Shows, r \in Statuses!Rows : (row'[r][s] = "in") <=> (server[s].status = r)
  <2>1. CASE Statuses!OpenPage
    BY <2>1 DEF Statuses!OpenPage, Statuses!NoRows, Statuses!Place
  <2>2. CASE Statuses!PageBuilt
    <3> DEFINE In(r, s) == \E shows \in loaded[r] : s \in shows
    <3>1. row' = [r \in Statuses!Rows |-> [s \in Shows |-> IF In(r, s) THEN "in" ELSE "out"]]
      BY <2>2 DEF Statuses!PageBuilt
    <3>2. missed' = IF \E s \in Shows, r \in Statuses!Rows : In(r, s) # Statuses!Is(s, r) THEN missed \cup {"torn"} ELSE missed
      BY <2>2 DEF Statuses!PageBuilt
    <3>3. \A r \in Statuses!Rows, s \in Shows : row'[r][s] = IF In(r, s) THEN "in" ELSE "out"
      BY <3>1
    <3>4. row' \in [Statuses!Rows -> [Shows -> Statuses!Place]]
      BY <3>1 DEF Statuses!Place
    <3>5. ASSUME missed' = {} PROVE \A s \in Shows, r \in Statuses!Rows : In(r, s) <=> Statuses!Is(s, r)
      BY <3>2, <3>5 DEF Statuses!Is
    <3>6. missed' = {} => missed = {}
      BY <3>2
    <3> HIDE DEF In
    <3> QED BY <3>3, <3>4, <3>5, <3>6 DEF Statuses!Is
  <2>3. CASE \E r \in Statuses!Rows : Statuses!RowServed(r)
    BY <1>1, <2>3 DEF Statuses!RowServed, StatusTypes
  <2> QED BY <2>1, <2>2, <2>3
<1>4. StatusTypes'
  BY <1>1, <1>2, <1>3 DEF StatusTypes
<1>5. ASSUME missed' = {} PROVE (StatusPast /\ StatusHeard /\ StatusLaid /\ StatusLined /\ StatusLit)'
  <2>1. StatusPast /\ StatusHeard /\ StatusLined /\ StatusLit
    BY <1>3, <1>5 DEF StatusesInv
  <2>2. StatusPast' /\ StatusHeard' /\ StatusLit' /\ StatusLined'
    BY <1>2, <2>1 DEF StatusPast, StatusSaid, StatusHeard, StatusTold, StatusLit, StatusLined,
       StatusJoining
  <2>3. StatusLaid'
    BY <1>2, <1>3, <1>5 DEF StatusLaid
  <2> QED BY <2>2, <2>3
<1> QED BY <1>4, <1>5 DEF StatusesInv

\* The viewer: a card is opened, closed, a button clicked.
LEMMA StatusViewer ==
    ASSUME StatusesInv, Statuses!CloseCard \/ \E s \in Shows : Statuses!OpenCard(s) \/ \E st \in Statuses!Status : Statuses!Click(s, st)
    PROVE  StatusesInv'
<1>1. StatusTypes /\ gets \in [Shows -> Seq(StatusChanges)] /\ server \in [Shows -> StatusChanges]
  BY DEF StatusesInv, StatusTypes
<1>2. UNCHANGED <<server, known, feed, finds, page, row, line, joins, applied, seen, missed>>
  BY DEF Statuses!CloseCard, Statuses!OpenCard, Statuses!Click
<1>3. \A t, x : StatusSaid(t, x)' <=> StatusSaid(t, x)
  BY <1>2 DEF StatusSaid
<1>4. ASSUME missed = {}
      PROVE  StatusPast /\ StatusHeard /\ StatusLaid /\ StatusLined /\ StatusLit
  BY <1>4 DEF StatusesInv
<1>5. ASSUME missed = {}, \A t \in Shows : StatusTold(t) => StatusTold(t)'
      PROVE  StatusHeard' /\ StatusLaid' /\ StatusLined'
  BY <1>2, <1>4, <1>5 DEF StatusHeard, StatusLaid, StatusLined, StatusJoining
<1>6. CASE Statuses!CloseCard
  <2>1. open' = {} /\ UNCHANGED <<puts, gets>>
    BY <1>6 DEF Statuses!CloseCard
  <2>2. StatusTypes'
    BY <1>1, <1>2, <2>1 DEF StatusTypes
  <2>3. \A t \in Shows : StatusTold(t) => StatusTold(t)'
    BY <1>2, <2>1 DEF StatusTold
  <2>4. missed = {} => StatusPast' /\ StatusLit'
    BY <1>2, <1>3, <1>4, <2>1 DEF StatusPast, StatusLit
  <2> QED BY <1>2, <1>5, <2>2, <2>3, <2>4 DEF StatusesInv
<1>7. ASSUME NEW s \in Shows, Statuses!OpenCard(s) PROVE StatusesInv'
  <2>1. open' = {s} /\ puts' = puts /\ gets' = [gets EXCEPT ![s] = Append(@, server[s])]
    BY <1>7 DEF Statuses!OpenCard
  <2>2. gets[s] \in Seq(StatusChanges) /\ server[s] \in StatusChanges
    BY <1>1
  <2>a. Append(gets[s], server[s]) \in Seq(StatusChanges)
    BY <2>2
  <2>3. PICK g \in Seq(StatusChanges) : g = Append(gets[s], server[s])
    BY <2>a
  <2>4. /\ \A i \in DOMAIN g : g[i] = server[s] \/ \E k \in DOMAIN gets[s] : g[i] = gets[s][k]
        /\ \E i \in DOMAIN g : g[i] = server[s]
    BY <2>2, <2>3, QueueAppend
  <2>5. gets' = [gets EXCEPT ![s] = g]
    BY <2>1, <2>3
  <2>6. gets' \in [Shows -> Seq(StatusChanges)] /\ gets'[s] = g /\ \A t \in Shows : t # s => gets'[t] = gets[t]
    BY <1>1, <2>5
  <2>7. StatusTypes'
    BY <1>1, <1>2, <2>1, <2>6 DEF StatusTypes
  <2>8. \A t \in Shows : StatusTold(t) => StatusTold(t)'
    BY <1>2, <2>1 DEF StatusTold
  <2>9. ASSUME missed = {} PROVE StatusPast' /\ StatusLit'
    <3>1. StatusSaid(s, server[s])
      BY <2>2 DEF StatusSaid, StatusChanges
    <3>2. \A t \in Shows : \A i \in DOMAIN gets'[t] : StatusSaid(t, gets'[t][i])
      <4>1. \A i \in DOMAIN g : StatusSaid(s, g[i])
        BY <1>4, <2>4, <2>9, <3>1 DEF StatusPast
      <4> QED BY <1>4, <2>6, <2>9, <4>1 DEF StatusPast
    <3>3. StatusPast'
      BY <1>2, <1>3, <1>4, <2>1, <2>9, <3>2 DEF StatusPast
    <3>4. StatusLit'
      BY <1>2, <2>1, <2>4, <2>6 DEF StatusLit
    <3> QED BY <3>3, <3>4
  <2> QED BY <1>2, <1>5, <2>7, <2>8, <2>9 DEF StatusesInv
<1>8. ASSUME NEW s \in Shows, NEW st \in Statuses!Status, Statuses!Click(s, st) PROVE StatusesInv'
  <2>1. s \in open /\ marked' = st /\ UNCHANGED <<open, gets>>
    BY <1>8 DEF Statuses!Click
  <2>2. PICK p : p = [show |-> s, status |-> st, stored |-> 0]
    OBVIOUS
  <2>3. p \in StatusPuts /\ p.show = s /\ p.stored = 0
    BY <2>2 DEF StatusPuts
  <2>4. \/ [show |-> s, status |-> st] \in known /\ puts' = puts
        \/ puts' = puts \cup {p}
    BY <1>8, <2>2 DEF Statuses!Click
  <2>5. puts \subseteq puts' /\ puts' \subseteq StatusPuts /\ \A q \in puts' : q \in puts \/ q.stored = 0
    BY <1>1, <2>3, <2>4 DEF StatusTypes
  <2>6. StatusTypes'
    BY <1>1, <1>2, <2>1, <2>5 DEF StatusTypes
  <2>7. \A t \in Shows : StatusTold(t) => StatusTold(t)'
    BY <1>2, <2>5 DEF StatusTold
  <2>8. ASSUME missed = {} PROVE StatusPast' /\ StatusLit'
    <3>1. StatusPast'
      <4>1. \A q \in puts' : q.stored > 0 => StatusSaid(q.show, [status |-> q.status, n |-> q.stored])
        <5>1. \A q \in puts' : q.stored > 0 => q \in puts
          BY <2>5
        <5> QED BY <1>4, <2>8, <5>1 DEF StatusPast
      <4> QED BY <1>2, <1>3, <1>4, <2>1, <2>8, <4>1 DEF StatusPast
    <3>2. \A t \in open : t = s
      BY <1>1, <2>1 DEF StatusTypes
    <3>3. CASE puts' = puts \cup {p}
      <4>1. p \in puts' /\ \A u \in open' : p.show = u
        BY <2>1, <2>3, <3>2, <3>3
      <4>2. \A u \in open' : \E q \in puts' : q.show = u
        BY <4>1
      <4> QED BY <3>1, <4>2 DEF StatusLit
    <3>4. CASE [show |-> s, status |-> st] \in known /\ puts' = puts
      <4>1. (\A k \in known : k.show = s => k.status = server[s].status) => st = server[s].status
        BY <3>4
      <4>2. \/ \E i \in DOMAIN gets[s] : gets[s][i] = server[s]
            \/ applied[s] # server[s].n
            \/ \E q \in puts : q.show = s
            \/ /\ seen[s] = server[s].n /\ marked = server[s].status
               /\ \A k \in known : k.show = s => k.status = server[s].status
        BY <1>4, <2>1, <2>8 DEF StatusLit
      <4>3. \/ \E i \in DOMAIN gets'[s] : gets'[s][i] = server'[s]
            \/ applied'[s] # server'[s].n
            \/ \E q \in puts' : q.show = s
            \/ /\ seen'[s] = server'[s].n /\ marked' = server'[s].status
               /\ \A k \in known' : k.show = s => k.status = server'[s].status
        BY <1>2, <2>1, <3>4, <4>1, <4>2
      <4>4. \A u \in open' : u = s
        BY <2>1, <3>2
      <4> QED BY <3>1, <4>3, <4>4 DEF StatusLit
    <3> QED BY <2>4, <3>1, <3>3, <3>4
  <2> QED BY <1>2, <1>5, <2>6, <2>7, <2>8 DEF StatusesInv
<1> QED BY <1>6, <1>7, <1>8

\* An answer leaves its queue.
LEMMA StatusWithout ==
    ASSUME NEW S, NEW g \in Seq(S), NEW i \in DOMAIN g
    PROVE  /\ Statuses!Without(g, i) \in Seq(S)
           /\ \A k \in DOMAIN Statuses!Without(g, i) : \E m \in DOMAIN g : Statuses!Without(g, i)[k] = g[m]
           /\ \A m \in DOMAIN g : m = i \/ \E k \in DOMAIN Statuses!Without(g, i) : Statuses!Without(g, i)[k] = g[m]
<1>1. i \in 1..Len(g) /\ Len(g) \in Nat /\ DOMAIN g = 1..Len(g)
  OBVIOUS
<1> DEFINE a == SubSeq(g, 1, i - 1)
           b == SubSeq(g, i + 1, Len(g))
           w == Statuses!Without(g, i)
<1>2. a \in Seq(S) /\ Len(a) = i - 1 /\ \A k \in 1..i - 1 : a[k] = g[k]
  BY <1>1
<1>3. b \in Seq(S) /\ Len(b) = Len(g) - i /\ \A k \in 1..Len(g) - i : b[k] = g[i + k]
  BY <1>1
<1>4. w = a \o b
  BY DEF Statuses!Without
<1> HIDE DEF a, b, w
<1>a. \A x, y \in Seq(S) : x \o y \in Seq(S) /\ Len(x \o y) = Len(x) + Len(y)
  OBVIOUS
<1>b. w \in Seq(S) /\ Len(w) = (i - 1) + (Len(g) - i)
  BY <1>2, <1>3, <1>4, <1>a
<1>5. w \in Seq(S) /\ Len(w) = Len(g) - 1 /\ DOMAIN w = 1..Len(g) - 1
  BY <1>1, <1>b
<1>c. \A x, y \in Seq(S) : \A k \in 1..Len(x) + Len(y) : (x \o y)[k] = IF k <= Len(x) THEN x[k] ELSE y[k - Len(x)]
  OBVIOUS
<1>d. \A k \in 1..Len(g) - 1 : w[k] = IF k <= i - 1 THEN a[k] ELSE b[k - (i - 1)]
  BY <1>1, <1>2, <1>3, <1>4, <1>c
<1>6. \A k \in 1..i - 1 : w[k] = g[k]
  BY <1>1, <1>2, <1>d
<1>7. ASSUME NEW k \in i..Len(g) - 1 PROVE w[k] = g[k + 1]
  <2>1. k \in 1..Len(g) - 1 /\ ~(k <= i - 1) /\ k - (i - 1) \in 1..Len(g) - i /\ i + (k - (i - 1)) = k + 1
    BY <1>1
  <2>2. PICK m \in 1..Len(g) - i : m = k - (i - 1)
    BY <2>1
  <2>3. w[k] = b[m] /\ b[m] = g[i + m]
    BY <1>3, <1>d, <2>1, <2>2
  <2> QED BY <2>1, <2>2, <2>3
<1>8. \A k \in DOMAIN w : \E m \in DOMAIN g : w[k] = g[m]
  <2> SUFFICES ASSUME NEW k \in DOMAIN w PROVE \E m \in DOMAIN g : w[k] = g[m]
    OBVIOUS
  <2>1. CASE k < i
    BY <1>1, <1>5, <1>6, <2>1
  <2>2. CASE k >= i
    <3>1. k + 1 \in DOMAIN g /\ w[k] = g[k + 1]
      BY <1>1, <1>5, <1>7, <2>2
    <3> QED BY <3>1
  <2> QED BY <1>1, <1>5, <2>1, <2>2
<1>9. \A m \in DOMAIN g : m = i \/ \E k \in DOMAIN w : w[k] = g[m]
  <2> SUFFICES ASSUME NEW m \in DOMAIN g, m # i PROVE \E k \in DOMAIN w : w[k] = g[m]
    OBVIOUS
  <2>1. CASE m < i
    BY <1>1, <1>5, <1>6, <2>1
  <2>2. CASE m > i
    <3>1. m - 1 \in DOMAIN w /\ w[m - 1] = g[m]
      BY <1>1, <1>5, <1>7, <2>2
    <3> QED BY <3>1
  <2> QED BY <1>1, <2>1, <2>2
<1> QED BY <1>5, <1>8, <1>9 DEF w

\* An answer about a status lights the button.
LEMMA StatusArrived ==
    ASSUME StatusesInv, NEW s \in Shows, NEW i \in DOMAIN gets[s], Statuses!StatusArrives(s, i)
    PROVE  StatusesInv'
<1>1. StatusTypes /\ gets \in [Shows -> Seq(StatusChanges)] /\ seen \in [Shows -> Nat]
  BY DEF StatusesInv, StatusTypes
<1>2. gets[s] \in Seq(StatusChanges)
  BY <1>1
<1>3. PICK c \in StatusChanges : c = gets[s][i]
  BY <1>2
<1>4. c.status \in Statuses!Status /\ c.n \in Nat /\ seen[s] \in Nat
  BY <1>1 DEF StatusChanges
<1>5. PICK w : w = Statuses!Without(gets[s], i)
  OBVIOUS
<1>6. /\ w \in Seq(StatusChanges)
      /\ \A k \in DOMAIN w : \E m \in DOMAIN gets[s] : w[k] = gets[s][m]
      /\ \A m \in DOMAIN gets[s] : m = i \/ \E k \in DOMAIN w : w[k] = gets[s][m]
  BY <1>2, <1>5, StatusWithout
<1>7. gets' = [gets EXCEPT ![s] = w]
      /\ UNCHANGED <<server, open, puts, feed, finds, page, row, line, joins, applied>>
  BY <1>5 DEF Statuses!StatusArrives
<1>8. gets' \in [Shows -> Seq(StatusChanges)] /\ gets'[s] = w /\ \A t \in Shows : t # s => gets'[t] = gets[t]
  BY <1>1, <1>6, <1>7
<1>9. s \in open =>
        /\ marked' = c.status /\ known' = {[show |-> s, status |-> c.status]}
        /\ seen' = [seen EXCEPT ![s] = IF c.n > @ THEN c.n ELSE @]
        /\ missed' = {} => missed = {} /\ ~(c.n < seen[s])
  BY <1>3 DEF Statuses!StatusArrives
<1>10. s \notin open => UNCHANGED <<marked, known, seen, missed>>
  BY DEF Statuses!StatusArrives
<1>11. seen' \in [Shows -> Nat] /\ known' \subseteq [show : Shows, status : Statuses!Status]
  <2>1. CASE s \in open
    BY <1>1, <1>4, <1>9, <2>1
  <2>2. CASE s \notin open
    BY <1>1, <1>10, <2>2 DEF StatusTypes
  <2> QED BY <2>1, <2>2
<1>12. StatusTypes'
  BY <1>1, <1>7, <1>8, <1>11 DEF StatusTypes
<1>13. ASSUME missed' = {} PROVE (StatusPast /\ StatusHeard /\ StatusLaid /\ StatusLined /\ StatusLit)'
  <2>1. missed = {}
    BY <1>9, <1>10, <1>13
  <2>2. StatusPast /\ StatusHeard /\ StatusLaid /\ StatusLined /\ StatusLit
    BY <2>1 DEF StatusesInv
  <2>3. StatusSaid(s, c) /\ server[s].n \in Nat
    BY <1>1, <1>3, <2>2 DEF StatusPast, StatusTypes, StatusChanges
  <2>4. \A t, x : StatusSaid(t, x)' <=> StatusSaid(t, x)
    BY <1>7 DEF StatusSaid
  <2>5. \A t \in Shows : seen'[t] <= server[t].n
    <3>1. CASE s \in open
      <4>1. \A t \in Shows : seen[t] <= server[t].n
        BY <2>2 DEF StatusPast
      <4>2. c.n <= server[s].n
        BY <2>3 DEF StatusSaid
      <4> QED BY <1>1, <1>9, <3>1, <4>1, <4>2
    <3>2. CASE s \notin open
      BY <1>10, <2>2, <3>2 DEF StatusPast
    <3> QED BY <3>1, <3>2
  <2>6. StatusPast'
    <3>1. \A t \in Shows : \A k \in DOMAIN gets'[t] : StatusSaid(t, gets'[t][k])
      <4>1. \A k \in DOMAIN w : StatusSaid(s, w[k])
        BY <1>6, <2>2 DEF StatusPast
      <4> QED BY <1>8, <2>2, <4>1 DEF StatusPast
    <3> QED BY <1>7, <2>2, <2>4, <2>5, <3>1 DEF StatusPast
  <2>7. StatusHeard' /\ StatusLaid' /\ StatusLined'
    BY <1>7, <2>2 DEF StatusHeard, StatusTold, StatusLaid, StatusLined, StatusJoining
  <2>8. StatusLit'
    <3> SUFFICES ASSUME NEW t \in open
                 PROVE  \/ \E k \in DOMAIN gets'[t] : gets'[t][k] = server[t]
                        \/ applied[t] # server[t].n
                        \/ \E p \in puts : p.show = t
                        \/ /\ seen'[t] = server[t].n /\ marked' = server[t].status
                           /\ \A k \in known' : k.show = t => k.status = server[t].status
      BY <1>7 DEF StatusLit
    <3>1. t \in Shows /\ (s \in open => t = s)
      BY <1>1 DEF StatusTypes
    <3>2. \/ \E k \in DOMAIN gets[t] : gets[t][k] = server[t]
          \/ applied[t] # server[t].n
          \/ \E p \in puts : p.show = t
          \/ /\ seen[t] = server[t].n /\ marked = server[t].status
             /\ \A k \in known : k.show = t => k.status = server[t].status
      BY <2>2 DEF StatusLit
    <3>3. CASE s \notin open
      BY <1>8, <1>10, <3>1, <3>2, <3>3
    <3>4. CASE s \in open
      <4>1. t = s
        BY <3>1, <3>4
      <4>2. CASE c = server[s]
        <5>1. seen[s] <= server[s].n /\ seen'[s] = IF c.n > seen[s] THEN c.n ELSE seen[s]
          BY <1>1, <1>9, <2>2, <3>4 DEF StatusPast
        <5>2. seen'[s] = server[s].n
          BY <1>4, <4>2, <5>1
        <5>3. marked' = server[s].status /\ \A k \in known' : k.status = server[s].status
          BY <1>9, <3>4, <4>2
        <5> QED BY <4>1, <5>2, <5>3
      <4>3. CASE c # server[s]
        <5>1. c.n < server[s].n
          BY <1>4, <2>3, <4>3 DEF StatusSaid
        <5>2. seen[s] # server[s].n
          BY <1>4, <1>9, <1>13, <3>4, <5>1
        <5>3. (\E k \in DOMAIN gets[s] : gets[s][k] = server[s]) => \E k \in DOMAIN w : w[k] = server[s]
          BY <1>3, <1>6, <4>3
        <5> QED BY <1>8, <3>2, <4>1, <5>2, <5>3
      <4> QED BY <4>2, <4>3
    <3> QED BY <3>3, <3>4
  <2> QED BY <2>6, <2>7, <2>8
<1> QED BY <1>12, <1>13 DEF StatusesInv

\* A request or a message that is lost is one of the named ways.
LEMMA StatusFails ==
    ASSUME StatusesInv, Statuses!MessageLost \/ \E p \in puts : Statuses!PutFails(p)
    PROVE  StatusesInv'
<1>1. StatusTypes /\ feed \in Seq(StatusNews)
  BY DEF StatusesInv, StatusTypes
<1>2. /\ feed' \in Seq(StatusNews) /\ puts' \subseteq puts /\ "failed" \in missed'
      /\ UNCHANGED <<server, open, marked, known, gets, finds, page, row, line, joins, applied, seen>>
  <2>1. CASE Statuses!MessageLost
    BY <1>1, <2>1, QueueTail DEF Statuses!MessageLost
  <2>2. CASE \E p \in puts : Statuses!PutFails(p)
    BY <1>1, <2>2 DEF Statuses!PutFails
  <2> QED BY <2>1, <2>2
<1>3. StatusTypes'
  BY <1>1, <1>2 DEF StatusTypes
<1> QED BY <1>2, <1>3 DEF StatusesInv

LEMMA StatusesKept == ASSUME StatusesInv, Statuses!Next \/ UNCHANGED Statuses!vars PROVE StatusesInv'
<1>1. CASE UNCHANGED Statuses!vars
  <2>1. UNCHANGED <<server, open, marked, known, puts, gets, feed, finds, page, row, line, joins, applied, seen, missed>>
    BY <1>1 DEF Statuses!vars
  <2>2. StatusTypes'
    BY <2>1 DEF StatusesInv, StatusTypes
  <2>3. ASSUME missed = {} PROVE (StatusPast /\ StatusHeard /\ StatusLaid /\ StatusLined /\ StatusLit)'
    BY <2>1, <2>3 DEF StatusesInv, StatusPast, StatusSaid, StatusHeard, StatusTold, StatusLaid,
       StatusLined,
                      StatusJoining, StatusLit
  <2> QED BY <2>1, <2>2, <2>3 DEF StatusesInv
<1>2. ASSUME NEW p \in puts, Statuses!PutStored(p) PROVE StatusesInv'
  <2>1. p.show \in Shows /\ p.status \in Statuses!Status
    BY DEF StatusesInv, StatusTypes, StatusPuts
  <2> QED BY <1>2, <2>1, StatusNewer
<1> QED BY <1>1, <1>2, StatusPage, StatusViewer, StatusMessage, StatusFails, StatusFaded, StatusNewer,
   StatusPut,
           StatusArrived, StatusFound, StatusJoined DEF Statuses!Next

\* Nothing under way: the rows and the buttons say what the server says.
LEMMA StatusesSettle == ASSUME StatusesInv PROVE Statuses!SettledRowsAreTrue
<1> SUFFICES ASSUME Statuses!Quiet, missed = {}
             PROVE  /\ page = "built" => \A s \in Shows, r \in Statuses!Rows : (row[r][s] = "in") <=> Statuses!Is(s, r)
                    /\ \A s \in Shows : (line[s] = "in") <=> Statuses!Is(s, "watching")
                    /\ \A s \in open : Statuses!Is(s, marked) /\ \A k \in known : k.show = s => Statuses!Is(s, k.status)
  BY DEF Statuses!SettledRowsAreTrue
<1>1. StatusTypes /\ StatusHeard /\ StatusLaid /\ StatusLined /\ StatusLit
  BY DEF StatusesInv
<1>2. puts = {} /\ feed = <<>> /\ finds = {} /\ joins = {} /\ \A s \in Shows : gets[s] = <<>>
  BY DEF Statuses!Quiet
<1>3. \A s \in Shows : applied[s] = server[s].n
  <2>1. DOMAIN feed = {} /\ finds = {} /\ puts = {}
    BY <1>2
  <2>2. \A s : ~StatusTold(s)
    BY <2>1 DEF StatusTold
  <2> QED BY <1>1, <2>2 DEF StatusHeard
<1>4. \A s \in open : s \in Shows
  BY <1>1 DEF StatusTypes
<1>5. ASSUME NEW s \in open
      PROVE  server[s].status = marked /\ \A k \in known : k.show = s => server[s].status = k.status
  <2>1. DOMAIN gets[s] = {} /\ applied[s] = server[s].n /\ ~\E p \in puts : p.show = s
    BY <1>2, <1>3, <1>4
  <2>2. \/ \E i \in DOMAIN gets[s] : gets[s][i] = server[s]
        \/ applied[s] # server[s].n
        \/ \E p \in puts : p.show = s
        \/ /\ seen[s] = server[s].n /\ marked = server[s].status
           /\ \A k \in known : k.show = s => k.status = server[s].status
    BY <1>1 DEF StatusLit
  <2> QED BY <2>1, <2>2
<1> QED BY <1>1, <1>2, <1>3, <1>5 DEF StatusLaid, StatusLined, StatusJoining, Statuses!Is

-----------------------------------------------------------------------------
(* The profiles of the player (PlayerProfiles) *)

\* What belongs to a profile is its own, wherever it is: on the server, set aside, being
\* loaded, on its way to the server or in a message.  What is on screen is the active
\* profile's unless a switch is about to replace it, and then no save is due.
OwnWrite(w) == IF w.fav # Nobody THEN w.fav \subseteq made[w.of] ELSE w.hash \in seen[w.of]
OwnLoad(l) == l.of = active /\ l.view \subseteq seen[l.of] /\ l.fav \subseteq made[l.of]
Switching == \E l \in Profiles!BagToSet(loads) : l.why = "switch"

OwnLoads == \A l \in Profiles!BagToSet(loads) : OwnLoad(l)
OwnWrites == \A w \in Profiles!BagToSet(writes) : OwnWrite(w)
OwnNews == \A i \in DOMAIN news : OwnWrite(news[i])

OwnData ==
    /\ \A p \in Profile : favs[p] \subseteq made[p] /\ marks[p] \subseteq seen[p]
    /\ \A p \in Profile : (favBackup[p] = Nobody \/ favBackup[p] \subseteq made[p]) /\ viewBackup[p] \subseteq seen[p]
    /\ OwnLoads /\ OwnWrites /\ OwnNews
    /\ ~Switching => fav \subseteq made[active] /\ view \subseteq seen[active]
    /\ timer => ~Switching

ProfilesInv == Profiles!TypeOK /\ (~crossed => OwnData)

\* Bags: what is in one after something was put in or taken out.
LEMMA BagGains ==
    ASSUME NEW b, NEW x, NEW c, c = Profiles!(+)(b, Profiles!One(x))
    PROVE  Profiles!BagToSet(c) = Profiles!BagToSet(b) \cup {x} /\ (Profiles!IsABag(b) => Profiles!IsABag(c))
BY DEF Profiles!BagToSet, Profiles!(+), Profiles!One, Profiles!SetToBag, Profiles!IsABag

LEMMA BagLoses ==
    ASSUME NEW b, NEW x, NEW c, c = Profiles!(-)(b, Profiles!One(x))
    PROVE  /\ Profiles!BagToSet(c) \subseteq Profiles!BagToSet(b)
           /\ Profiles!IsABag(b) => Profiles!IsABag(c) /\ Profiles!BagToSet(b) \ {x} \subseteq Profiles!BagToSet(c)
BY DEF Profiles!BagToSet, Profiles!(-), Profiles!One, Profiles!SetToBag, Profiles!IsABag

LEMMA BagOfNone == Profiles!BagToSet(Profiles!EmptyBag) = {} /\ Profiles!IsABag(Profiles!EmptyBag)
BY DEF Profiles!BagToSet, Profiles!EmptyBag, Profiles!SetToBag, Profiles!IsABag

LEMMA BagOfOne == ASSUME NEW x PROVE Profiles!BagToSet(Profiles!One(x)) = {x} /\ Profiles!IsABag(Profiles!One(x))
BY DEF Profiles!BagToSet, Profiles!One, Profiles!SetToBag, Profiles!IsABag

LEMMA RequestsAreTyped ==
    /\ \A p \in Profile : \A why \in {"switch", "start", "full"} :
         /\ Profiles!Fetch(why, p) \in Profiles!Load /\ Profiles!Fetch(why, p).of = p /\ Profiles!Fetch(why, p).why = why
         /\ Profiles!Fetch(why, p).view = {} /\ Profiles!Fetch(why, p).fav = {}
    /\ \A p \in Profile, kept \in SUBSET Cards :
         Profiles!OfList(p, kept) \in Profiles!Write /\ Profiles!OfList(p, kept).of = p /\ Profiles!OfList(p, kept).fav = kept
    /\ \A p \in Profile, h \in Hash :
         /\ Profiles!OfHash(p, h) \in Profiles!Write /\ Profiles!OfHash(p, h).of = p
         /\ Profiles!OfHash(p, h).fav = Nobody /\ Profiles!OfHash(p, h).hash = h
<1>1. ASSUME NEW p \in Profile, NEW why \in {"switch", "start", "full"} PROVE Profiles!Fetch(why, p) \in Profiles!Load
  BY DEF Profiles!Fetch, Profiles!Load
<1>2. ASSUME NEW p \in Profile, NEW kept \in SUBSET Cards PROVE Profiles!OfList(p, kept) \in Profiles!Write
  BY DEF Profiles!OfList, Profiles!Write
<1>3. ASSUME NEW p \in Profile, NEW h \in Hash PROVE Profiles!OfHash(p, h) \in Profiles!Write
  BY DEF Profiles!OfHash, Profiles!Write
<1> QED BY <1>1, <1>2, <1>3 DEF Profiles!Fetch, Profiles!OfList, Profiles!OfHash

LEMMA ProfilesStart == ASSUME Profiles!Init PROVE ProfilesInv
<1>0. news \in Seq(Profiles!Write)
  BY DEF Profiles!Init
<1>1. Profiles!TypeOK
  <2>1. /\ favs \in [Profile -> SUBSET Cards] /\ marks \in [Profile -> SUBSET Hash]
        /\ favBackup \in [Profile -> (SUBSET Cards) \cup {Nobody}]
        /\ viewBackup \in [Profile -> SUBSET Hash]
    BY DEF Profiles!Init
  <2>2. /\ active \in Profile /\ fav \subseteq Cards /\ view \subseteq Hash
        /\ made \in [Profile -> SUBSET Cards] /\ seen \in [Profile -> SUBSET Hash]
    BY <2>1 DEF Profiles!Init
  <2>3. events \in 0..ProfileEvents
    BY ProfilesAssumption DEF Profiles!Init
  <2> QED BY <1>0, <2>1, <2>2, <2>3, BagOfNone DEF Profiles!Init, Profiles!TypeOK
<1>2. OwnData
  BY BagOfNone DEF Profiles!Init, OwnData, OwnLoads, OwnWrites, OwnNews, Switching
<1> QED BY <1>1, <1>2 DEF ProfilesInv

\* The viewer switches: nothing is under way then, else the switch is crossed.
LEMMA SwitchKeepsOwn ==
    ASSUME ProfilesInv, NEW p \in Profile, Profiles!switchToProfile(p)
    PROVE  ProfilesInv'
<1>0. PICK l : l = Profiles!Fetch("switch", p)
  OBVIOUS
<1>1. l \in Profiles!Load /\ l.of = p /\ l.why = "switch" /\ l.view = {} /\ l.fav = {}
  BY <1>0, RequestsAreTyped
<1>2. loads' = Profiles!(+)(loads, Profiles!One(l))
  BY <1>0 DEF Profiles!switchToProfile
<1>3. Profiles!BagToSet(loads') = Profiles!BagToSet(loads) \cup {l} /\ (Profiles!IsABag(loads) => Profiles!IsABag(loads'))
  BY <1>2, BagGains
<1>4. Profiles!TypeOK'
  <2>1. Profiles!TypeOK
    BY DEF ProfilesInv
  <2>2. /\ favBackup' \in [Profile -> (SUBSET Cards) \cup {Nobody}]
        /\ viewBackup' \in [Profile -> SUBSET Hash]
    BY <2>1 DEF Profiles!TypeOK, Profiles!switchToProfile
  <2>3. events' \in 0..ProfileEvents /\ crossed' \in BOOLEAN
    BY <2>1, ProfilesAssumption DEF Profiles!TypeOK, Profiles!switchToProfile, Profiles!Event
  <2>4. Profiles!IsABag(loads') /\ Profiles!BagToSet(loads') \subseteq Profiles!Load
    BY <1>1, <1>3, <2>1 DEF Profiles!TypeOK
  <2> QED BY <2>1, <2>2, <2>3, <2>4 DEF Profiles!TypeOK, Profiles!switchToProfile, Profiles!server
<1>5. ASSUME ~crossed' PROVE OwnData'
  <2>1. ~crossed /\ ~timer /\ loads = Profiles!EmptyBag
    BY <1>5 DEF Profiles!switchToProfile
  <2>2. Profiles!BagToSet(loads) = {} /\ OwnData
    BY <2>1, BagOfNone DEF ProfilesInv
  <2>3. fav \subseteq made[active] /\ view \subseteq seen[active]
    BY <2>2 DEF OwnData, Switching
  <2>4. \A q \in Profile : (favBackup'[q] = Nobody \/ favBackup'[q] \subseteq made[q]) /\ viewBackup'[q] \subseteq seen[q]
    BY <2>2, <2>3 DEF Profiles!switchToProfile, OwnData, ProfilesInv, Profiles!TypeOK
  <2>5. \A w : OwnWrite(w)' <=> OwnWrite(w)
    BY DEF Profiles!switchToProfile, OwnWrite
  <2> QED BY <1>1, <1>3, <2>1, <2>2, <2>4 DEF Profiles!switchToProfile, OwnData, OwnLoad, OwnLoads,
     OwnWrites, OwnNews, OwnWrite, Switching, Profiles!server
<1> QED BY <1>4, <1>5 DEF ProfilesInv

\* A favourite, and a timecode: while nothing replaces what is on screen.
LEMMA FavouriteKeepsOwn ==
    ASSUME ProfilesInv, NEW c \in Cards, Profiles!Favourite(c)
    PROVE  ProfilesInv'
<1>1. Profiles!TypeOK
  BY DEF ProfilesInv
<1>2. Profiles!TypeOK'
  <2>1. fav' \subseteq Cards /\ made' \in [Profile -> SUBSET Cards]
    BY <1>1 DEF Profiles!TypeOK, Profiles!Favourite
  <2>2. events' \in 0..ProfileEvents /\ crossed' \in BOOLEAN /\ timer' \in BOOLEAN
    BY <1>1, ProfilesAssumption DEF Profiles!TypeOK, Profiles!Favourite, Profiles!Event
  <2> QED BY <1>1, <2>1, <2>2 DEF Profiles!TypeOK, Profiles!Favourite, Profiles!server
<1>3. ASSUME ~crossed' PROVE OwnData'
  <2>1. ~crossed /\ ~Switching /\ OwnData
    BY <1>3 DEF Profiles!Favourite, Profiles!Loading, Switching, ProfilesInv
  <2>2. fav \subseteq made[active] /\ view \subseteq seen[active]
    BY <2>1 DEF OwnData
  <2>3. \A p \in Profile : made[p] \subseteq made'[p]
    BY <1>1 DEF Profiles!Favourite, Profiles!TypeOK
  <2>4. fav' \subseteq made'[active]
    BY <1>1, <2>2 DEF Profiles!Favourite, Profiles!TypeOK
  <2>5. \A w \in Profiles!Write : OwnWrite(w) => OwnWrite(w)'
    BY <2>3 DEF Profiles!Favourite, OwnWrite, Profiles!Write
  <2>6. \A l \in Profiles!Load : OwnLoad(l) => OwnLoad(l)'
    BY <2>3 DEF Profiles!Favourite, OwnLoad, Profiles!Load
  <2>7. Profiles!BagToSet(loads') = Profiles!BagToSet(loads) /\ Profiles!BagToSet(writes') = Profiles!BagToSet(writes) /\ news' = news
    BY DEF Profiles!Favourite
  <2>8. \A i \in DOMAIN news : news[i] \in Profiles!Write
    BY <1>1 DEF Profiles!TypeOK
  <2>9. OwnNews'
    BY <2>1, <2>5, <2>7, <2>8 DEF OwnData, OwnNews
  <2>10. /\ OwnLoads'
         /\ OwnWrites'
    BY <1>1, <2>1, <2>5, <2>6, <2>7 DEF OwnData, OwnLoads, OwnWrites, Profiles!TypeOK
  <2>11. ~Switching'
    BY <2>1, <2>7 DEF Switching
  <2>12. \A p \in Profile : favs'[p] \subseteq made'[p] /\ marks'[p] \subseteq seen'[p]
    BY <2>1, <2>3 DEF OwnData, Profiles!Favourite, Profiles!server
  <2>13. \A p \in Profile : (favBackup'[p] = Nobody \/ favBackup'[p] \subseteq made'[p]) /\ viewBackup'[p] \subseteq seen'[p]
    BY <2>1, <2>3 DEF OwnData, Profiles!Favourite
  <2> QED BY <2>2, <2>4, <2>9, <2>10, <2>11, <2>12, <2>13 DEF Profiles!Favourite, OwnData
<1> QED BY <1>2, <1>3 DEF ProfilesInv

LEMMA WatchKeepsOwn ==
    ASSUME ProfilesInv, NEW h \in Hash, Profiles!Watch(h)
    PROVE  ProfilesInv'
<1>0. PICK new : new = Profiles!OfHash(active, h)
  OBVIOUS
<1>1. Profiles!TypeOK
  BY DEF ProfilesInv
<1>2. new \in Profiles!Write /\ new.of = active /\ new.fav = Nobody /\ new.hash = h
  BY <1>0, <1>1, RequestsAreTyped DEF Profiles!TypeOK
<1>3. writes' = Profiles!(+)(writes, Profiles!One(new))
  BY <1>0 DEF Profiles!Watch
<1>4. Profiles!BagToSet(writes') = Profiles!BagToSet(writes) \cup {new} /\ (Profiles!IsABag(writes) => Profiles!IsABag(writes'))
  BY <1>3, BagGains
<1>5. Profiles!TypeOK'
  <2>1. view' \subseteq Hash /\ seen' \in [Profile -> SUBSET Hash]
    BY <1>1 DEF Profiles!TypeOK, Profiles!Watch
  <2>2. events' \in 0..ProfileEvents /\ crossed' \in BOOLEAN
    BY <1>1, ProfilesAssumption DEF Profiles!TypeOK, Profiles!Watch, Profiles!Event
  <2>3. Profiles!IsABag(writes') /\ Profiles!BagToSet(writes') \subseteq Profiles!Write
    BY <1>1, <1>2, <1>4 DEF Profiles!TypeOK
  <2> QED BY <1>1, <2>1, <2>2, <2>3 DEF Profiles!TypeOK, Profiles!Watch, Profiles!server
<1>6. ASSUME ~crossed' PROVE OwnData'
  <2>1. ~crossed /\ ~Switching /\ OwnData
    BY <1>6 DEF Profiles!Watch, Profiles!Loading, Switching, ProfilesInv
  <2>2. fav \subseteq made[active] /\ view \subseteq seen[active]
    BY <2>1 DEF OwnData
  <2>3. \A p \in Profile : seen[p] \subseteq seen'[p]
    BY <1>1 DEF Profiles!Watch, Profiles!TypeOK
  <2>4. view' \subseteq seen'[active] /\ h \in seen'[active]
    BY <1>1, <2>2 DEF Profiles!Watch, Profiles!TypeOK
  <2>5. \A w \in Profiles!Write : OwnWrite(w) => OwnWrite(w)'
    BY <2>3 DEF Profiles!Watch, OwnWrite, Profiles!Write
  <2>6. \A l \in Profiles!Load : OwnLoad(l) => OwnLoad(l)'
    BY <2>3 DEF Profiles!Watch, OwnLoad, Profiles!Load
  <2>7. Profiles!BagToSet(loads') = Profiles!BagToSet(loads) /\ news' = news
    BY DEF Profiles!Watch
  <2>8. \A i \in DOMAIN news : news[i] \in Profiles!Write
    BY <1>1 DEF Profiles!TypeOK
  <2>9. OwnNews'
    BY <2>1, <2>5, <2>7, <2>8 DEF OwnData, OwnNews
  <2>10. OwnLoads'
    BY <1>1, <2>1, <2>6, <2>7 DEF OwnData, OwnLoads, Profiles!TypeOK
  <2>11. OwnWrite(new)'
    BY <1>2, <2>4 DEF OwnWrite, Profiles!Watch
  <2>12. OwnWrites'
    BY <1>1, <1>4, <2>1, <2>5, <2>11 DEF OwnData, OwnLoads, OwnWrites, Profiles!TypeOK
  <2>13. ~Switching'
    BY <2>1, <2>7 DEF Switching
  <2>14. \A p \in Profile : favs'[p] \subseteq made'[p] /\ marks'[p] \subseteq seen'[p]
    BY <2>1, <2>3 DEF OwnData, Profiles!Watch, Profiles!server
  <2>15. \A p \in Profile : (favBackup'[p] = Nobody \/ favBackup'[p] \subseteq made'[p]) /\ viewBackup'[p] \subseteq seen'[p]
    BY <2>1, <2>3 DEF OwnData, Profiles!Watch
  <2> QED BY <2>2, <2>4, <2>9, <2>10, <2>12, <2>13, <2>14, <2>15 DEF Profiles!Watch, OwnData
<1> QED BY <1>5, <1>6 DEF ProfilesInv

LEMMA OpeningKeepsOwn ==
    ASSUME ProfilesInv, Profiles!OpenCard
    PROVE  ProfilesInv'
<1>0. PICK l : l = Profiles!Fetch("full", active)
  OBVIOUS
<1>1. Profiles!TypeOK
  BY DEF ProfilesInv
<1>2. l \in Profiles!Load /\ l.of = active /\ l.why = "full" /\ l.view = {} /\ l.fav = {}
  BY <1>0, <1>1, RequestsAreTyped DEF Profiles!TypeOK
<1>3. loads' = Profiles!(+)(loads, Profiles!One(l))
  BY <1>0 DEF Profiles!OpenCard
<1>4. Profiles!BagToSet(loads') = Profiles!BagToSet(loads) \cup {l} /\ (Profiles!IsABag(loads) => Profiles!IsABag(loads'))
  BY <1>3, BagGains
<1>5. Profiles!TypeOK'
  <2>1. events' \in 0..ProfileEvents
    BY <1>1, ProfilesAssumption DEF Profiles!TypeOK, Profiles!OpenCard, Profiles!Event
  <2>2. Profiles!IsABag(loads') /\ Profiles!BagToSet(loads') \subseteq Profiles!Load
    BY <1>1, <1>2, <1>4 DEF Profiles!TypeOK
  <2> QED BY <1>1, <2>1, <2>2 DEF Profiles!TypeOK, Profiles!OpenCard, Profiles!server,
     Profiles!storage, Profiles!history
<1>6. ASSUME ~crossed' PROVE OwnData'
  <2>1. OwnData
    BY <1>6 DEF Profiles!OpenCard, Profiles!history, ProfilesInv
  <2>2. \A w : OwnWrite(w)' <=> OwnWrite(w)
    BY DEF OwnWrite, Profiles!OpenCard, Profiles!history
  <2>3. \A k : OwnLoad(k)' <=> OwnLoad(k)
    BY DEF OwnLoad, Profiles!OpenCard, Profiles!history, Profiles!storage
  <2>4. OwnLoad(l)
    BY <1>2 DEF OwnLoad
  <2>5. Switching' <=> Switching
    BY <1>2, <1>4 DEF Switching
  <2>6. OwnNews'
    BY <2>1, <2>2 DEF OwnData, OwnNews, Profiles!OpenCard
  <2>7. /\ OwnLoads'
        /\ OwnWrites'
    BY <1>4, <2>1, <2>2, <2>3, <2>4 DEF OwnData, OwnLoads, OwnWrites, Profiles!OpenCard
  <2> QED BY <2>1, <2>5, <2>6, <2>7 DEF OwnData, Profiles!OpenCard, Profiles!server, Profiles!storage,
     Profiles!history
<1> QED BY <1>5, <1>6 DEF ProfilesInv

\* A start takes the favourites set aside and asks for the active profile's.
LEMMA RestartKeepsOwn ==
    ASSUME ProfilesInv, NEW ok \in BOOLEAN, Profiles!Restart(ok)
    PROVE  ProfilesInv'
<1>0. PICK l : l = Profiles!Fetch("start", active)
  OBVIOUS
<1>1. Profiles!TypeOK
  BY DEF ProfilesInv
<1>2. l \in Profiles!Load /\ l.of = active /\ l.why = "start" /\ l.view = {} /\ l.fav = {}
  BY <1>0, <1>1, RequestsAreTyped DEF Profiles!TypeOK
<1>3. loads' = (IF ok THEN Profiles!One(l) ELSE Profiles!EmptyBag)
  BY <1>0 DEF Profiles!Restart
<1>4. Profiles!BagToSet(loads') \subseteq {l} /\ Profiles!IsABag(loads')
  BY <1>3, BagOfOne, BagOfNone
<1>8. /\ UNCHANGED Profiles!server /\ UNCHANGED <<active, view, favBackup, viewBackup, writes, made, seen>>
      /\ ~timer'
  BY Zenon DEF Profiles!Restart
<1>5. fav' = fav \/ (favBackup[active] # Nobody /\ fav' = favBackup[active])
  BY DEF Profiles!Restart
<1>6. Profiles!TypeOK'
  <2>1. fav' \subseteq Cards
    BY <1>1, <1>5 DEF Profiles!TypeOK
  <2>2. events' \in 0..ProfileEvents
    <3>1. Profiles!Event
      BY DEF Profiles!Restart
    <3> QED BY <1>1, <3>1, ProfilesAssumption DEF Profiles!TypeOK, Profiles!Event
  <2>6. up' \in BOOLEAN /\ timer' \in BOOLEAN
    BY Zenon DEF Profiles!Restart
  <2>5. crossed' \in BOOLEAN
    BY <1>1 DEF Profiles!TypeOK, Profiles!Restart
  <2>3. Profiles!BagToSet(loads') \subseteq Profiles!Load
    BY <1>2, <1>4
  <2>4. news' \in Seq(Profiles!Write)
    BY DEF Profiles!Restart
  <2> QED BY <1>1, <1>4, <2>1, <2>2, <2>3, <2>4, <2>5, <2>6, <1>8 DEF Profiles!TypeOK, Profiles!server
<1>7. ASSUME ~crossed' PROVE OwnData'
  <2>1. ~crossed /\ ~Switching /\ OwnData
    BY <1>7 DEF Profiles!Restart, Profiles!Loading, Switching, ProfilesInv
  <2>2. fav \subseteq made[active] /\ view \subseteq seen[active]
    BY <2>1 DEF OwnData
  <2>3. fav' \subseteq made[active]
    BY <1>1, <1>5, <2>1, <2>2 DEF OwnData, Profiles!TypeOK
  <2>4. \A w : OwnWrite(w)' <=> OwnWrite(w)
    BY DEF OwnWrite, Profiles!Restart
  <2>5. OwnLoad(l)'
    BY <1>2 DEF OwnLoad, Profiles!Restart
  <2>6. ~Switching'
    BY <1>2, <1>4 DEF Switching
  <2>7. DOMAIN news' = {}
    BY DEF Profiles!Restart
  <2>8. /\ OwnLoads'
        /\ OwnWrites'
    BY <1>4, <2>1, <2>4, <2>5 DEF OwnData, OwnLoads, OwnWrites, Profiles!Restart
  <2>9. OwnNews'
    BY <2>7 DEF OwnNews
  <2> QED BY <1>8, <2>1, <2>2, <2>3, <2>6, <2>8, <2>9 DEF OwnData, Profiles!server
<1> QED BY <1>6, <1>7 DEF ProfilesInv

\* A load goes on, or ends with what it brings, or with what was set aside.
LEMMA LoadMoves ==
    ASSUME ProfilesInv, NEW l \in Profiles!BagToSet(loads), NEW m \in Profiles!Load, m.why = l.why,
           Profiles!Ends(l) \/ (Profiles!GoesOn(l, m) /\ (~crossed' => OwnLoad(m))),
           UNCHANGED <<Profiles!server, active, favBackup, viewBackup, up, timer, writes, news, made, seen>>,
           events' \in 0..ProfileEvents, crossed' \in BOOLEAN, crossed => crossed',
           fav' \subseteq Cards, view' \subseteq Hash,
           ~crossed' => \/ fav' \subseteq made[active]
                        \/ fav' = fav /\ (l.why # "switch" \/ Profiles!GoesOn(l, m)),
           ~crossed' => \/ view' \subseteq seen[active]
                        \/ view' = view /\ (l.why # "switch" \/ Profiles!GoesOn(l, m))
    PROVE  ProfilesInv'
<1>1. Profiles!TypeOK
  BY DEF ProfilesInv
<1>2. /\ Profiles!IsABag(loads')
      /\ Profiles!BagToSet(loads') \subseteq Profiles!BagToSet(loads) \cup {m}
      /\ Profiles!BagToSet(loads) \ {l} \subseteq Profiles!BagToSet(loads')
      /\ Profiles!GoesOn(l, m) => m \in Profiles!BagToSet(loads')
      /\ ~Profiles!GoesOn(l, m) => Profiles!BagToSet(loads') \subseteq Profiles!BagToSet(loads)
  <2>1. PICK less : less = Profiles!(-)(loads, Profiles!One(l))
    OBVIOUS
  <2>2. /\ Profiles!IsABag(less) /\ Profiles!BagToSet(less) \subseteq Profiles!BagToSet(loads)
        /\ Profiles!BagToSet(loads) \ {l} \subseteq Profiles!BagToSet(less)
    BY <1>1, <2>1, BagLoses DEF Profiles!TypeOK
  <2>3. CASE Profiles!Ends(l) /\ ~Profiles!GoesOn(l, m)
    BY <2>1, <2>2, <2>3 DEF Profiles!Ends
  <2>4. CASE Profiles!GoesOn(l, m)
    <3>1. loads' = Profiles!(+)(less, Profiles!One(m))
      BY <2>1, <2>4 DEF Profiles!GoesOn
    <3>2. Profiles!BagToSet(loads') = Profiles!BagToSet(less) \cup {m} /\ Profiles!IsABag(loads')
      BY <2>2, <3>1, BagGains
    <3> QED BY <2>2, <2>4, <3>2
  <2> QED BY <2>3, <2>4
<1>3. Profiles!TypeOK'
  BY <1>1, <1>2 DEF Profiles!TypeOK, Profiles!server
<1>4. ASSUME ~crossed' PROVE OwnData'
  <2>1. OwnData /\ ~crossed
    BY <1>4 DEF ProfilesInv
  <2>2. \A w : OwnWrite(w)' <=> OwnWrite(w)
    BY DEF OwnWrite
  <2>3. \A k : OwnLoad(k)' <=> OwnLoad(k)
    BY DEF OwnLoad
  <2>4. OwnLoads'
    <3>1. \A k \in Profiles!BagToSet(loads) : OwnLoad(k)
      BY <2>1 DEF OwnData, OwnLoads
    <3>2. Profiles!GoesOn(l, m) => OwnLoad(m) \/ Profiles!Ends(l)
      BY <1>4
    <3>3. Profiles!Ends(l) => Profiles!BagToSet(loads') \subseteq Profiles!BagToSet(loads)
      BY BagLoses DEF Profiles!Ends
    <3>4. \A k \in Profiles!BagToSet(loads') : OwnLoad(k)
      BY <1>2, <3>1, <3>2, <3>3
    <3> QED BY <2>3, <3>4 DEF OwnLoads
  <2>5. OwnWrites'
    BY <2>1, <2>2 DEF OwnData, OwnWrites
  <2>6. OwnNews'
    <3>1. news' = news
      OBVIOUS
    <3> QED BY <2>1, <2>2, <3>1 DEF OwnData, OwnNews
  <2>7. Switching' => Switching
    BY <1>2 DEF Switching
  <2>8. ~Switching' => ~Switching \/ (l.why = "switch" /\ ~Profiles!GoesOn(l, m))
    BY <1>2 DEF Switching
  <2>9. ~Switching' => fav' \subseteq made'[active'] /\ view' \subseteq seen'[active']
    <3>1. ASSUME ~Switching PROVE fav \subseteq made[active] /\ view \subseteq seen[active]
      BY <2>1, <3>1 DEF OwnData
    <3> QED BY <1>4, <2>8, <3>1
  <2> QED BY <2>1, <2>4, <2>5, <2>6, <2>7, <2>9 DEF OwnData, Profiles!server
<1> QED BY <1>3, <1>4 DEF ProfilesInv

LEMMA ViewKeepsOwn ==
    ASSUME ProfilesInv, NEW l \in Profiles!BagToSet(loads), Profiles!GotView(l) \/ Profiles!LostView(l)
    PROVE  ProfilesInv'
<1>1. Profiles!TypeOK /\ l \in Profiles!Load /\ l.of \in Profile /\ l.view \subseteq Hash /\ l.fav \subseteq Cards
  BY DEF ProfilesInv, Profiles!TypeOK, Profiles!Load
<1>2. ASSUME ~crossed PROVE OwnData /\ l.of = active /\ l.view \subseteq seen[l.of] /\ l.fav \subseteq made[l.of]
  BY <1>2 DEF ProfilesInv, OwnData, OwnLoads, OwnLoad
<1>3. events \in 0..ProfileEvents /\ crossed \in BOOLEAN /\ fav \subseteq Cards /\ view \subseteq Hash
  BY <1>1 DEF Profiles!TypeOK
<1>4. CASE Profiles!GotView(l)
  <2>1. PICK m : m = [l EXCEPT !.step = "fav", !.view = marks[l.of]]
    OBVIOUS
  <2>2. PICK n : n = [l EXCEPT !.step = "fav"]
    OBVIOUS
  <2>3. marks[l.of] \subseteq Hash /\ (~crossed => marks[l.of] \subseteq seen[l.of])
    BY <1>1, <1>2 DEF Profiles!TypeOK, OwnData
  <2>4. m \in Profiles!Load /\ m.why = l.why /\ m.of = l.of /\ m.view = marks[l.of] /\ m.fav = l.fav
    BY <1>1, <2>1, <2>3 DEF Profiles!Load
  <2>5. n \in Profiles!Load /\ n.why = l.why /\ n.of = l.of /\ n.view = l.view /\ n.fav = l.fav
    BY <1>1, <2>2 DEF Profiles!Load
  <2>6. ~crossed => OwnLoad(m) /\ OwnLoad(n)
    BY <1>2, <2>3, <2>4, <2>5 DEF OwnLoad
  <2>7. UNCHANGED <<Profiles!server, active, fav, favBackup, viewBackup, up, timer, writes, news, events, made, seen, crossed>>
    BY <1>4 DEF Profiles!GotView, Profiles!history
  <2>8. CASE l.why = "switch"
    <3>1. Profiles!GoesOn(l, m) /\ view' = view
      BY <1>4, <2>1, <2>8 DEF Profiles!GotView
    <3> QED BY <1>3, <2>4, <2>6, <2>7, <3>1, LoadMoves
  <2>9. CASE l.why # "switch"
    <3>1. view' = marks[l.of] /\ (Profiles!GoesOn(l, n) \/ Profiles!Ends(l))
      BY <1>4, <2>2, <2>9 DEF Profiles!GotView
    <3>2. ~crossed => view' \subseteq seen[active]
      BY <1>2, <2>3, <3>1
    <3> QED BY <1>3, <2>3, <2>5, <2>6, <2>7, <2>9, <3>1, <3>2, LoadMoves
  <2> QED BY <2>8, <2>9
<1>5. CASE Profiles!LostView(l)
  <2>1. /\ Profiles!Ends(l)
        /\ UNCHANGED <<Profiles!server, active, favBackup, viewBackup, up, timer, writes, news, made, seen>>
    BY <1>5 DEF Profiles!LostView
  <2>2. events' \in 0..ProfileEvents
    <3>1. Profiles!Event
      BY <1>5 DEF Profiles!LostView
    <3> QED BY <1>3, <3>1, ProfilesAssumption DEF Profiles!Event
  <2>3. favBackup[l.of] \in (SUBSET Cards) \cup {Nobody} /\ viewBackup[l.of] \subseteq Hash
    BY <1>1 DEF Profiles!TypeOK
  <2>4. CASE l.why = "switch"
    <3>1. /\ view' = viewBackup[l.of] /\ crossed' = (crossed \/ favBackup[l.of] = Nobody)
          /\ fav' = (IF favBackup[l.of] = Nobody THEN fav ELSE favBackup[l.of])
      BY <1>5, <2>4 DEF Profiles!LostView, Profiles!Fallback
    <3>2. ~crossed' => fav' \subseteq made[active] /\ view' \subseteq seen[active]
      BY <1>1, <1>2, <3>1 DEF OwnData
    <3> QED BY <1>1, <1>3, <2>1, <2>2, <2>3, <3>1, <3>2, LoadMoves
  <2>5. CASE l.why # "switch"
    <3>1. UNCHANGED <<fav, view, crossed>>
      BY <1>5, <2>5 DEF Profiles!LostView
    <3> QED BY <1>1, <1>3, <2>1, <2>2, <2>5, <3>1, LoadMoves
  <2> QED BY <2>4, <2>5
<1> QED BY <1>4, <1>5

LEMMA FavKeepsOwn ==
    ASSUME ProfilesInv, NEW l \in Profiles!BagToSet(loads), Profiles!AnswerFav(l) \/ Profiles!GotFav(l) \/ Profiles!LostFav(l)
    PROVE  ProfilesInv'
<1>1. Profiles!TypeOK /\ l \in Profiles!Load /\ l.of \in Profile /\ l.view \subseteq Hash /\ l.fav \subseteq Cards
  BY DEF ProfilesInv, Profiles!TypeOK, Profiles!Load
<1>2. ASSUME ~crossed PROVE OwnData /\ l.of = active /\ l.view \subseteq seen[l.of] /\ l.fav \subseteq made[l.of]
  BY <1>2 DEF ProfilesInv, OwnData, OwnLoads, OwnLoad
<1>3. events \in 0..ProfileEvents /\ crossed \in BOOLEAN /\ fav \subseteq Cards /\ view \subseteq Hash
  BY <1>1 DEF Profiles!TypeOK
<1>4. CASE Profiles!AnswerFav(l)
  <2>1. PICK m : m = [l EXCEPT !.step = "got", !.fav = favs[l.of]]
    OBVIOUS
  <2>2. favs[l.of] \subseteq Cards /\ (~crossed => favs[l.of] \subseteq made[l.of])
    BY <1>1, <1>2 DEF Profiles!TypeOK, OwnData
  <2>3. m \in Profiles!Load /\ m.why = l.why /\ m.of = l.of /\ m.view = l.view /\ m.fav = favs[l.of]
    BY <1>1, <2>1, <2>2 DEF Profiles!Load
  <2>4. ~crossed => OwnLoad(m)
    BY <1>2, <2>2, <2>3 DEF OwnLoad
  <2>5. UNCHANGED <<Profiles!server, active, fav, view, favBackup, viewBackup, up, timer, writes, news, events, made, seen, crossed>>
    BY <1>4 DEF Profiles!AnswerFav, Profiles!storage, Profiles!history
  <2>6. Profiles!GoesOn(l, m)
    BY <1>4, <2>1 DEF Profiles!AnswerFav
  <2> QED BY <1>3, <2>3, <2>4, <2>5, <2>6, LoadMoves
<1>5. CASE Profiles!GotFav(l)
  <2>1. /\ Profiles!Ends(l) /\ fav' = l.fav /\ view' = (IF l.why = "switch" THEN l.view ELSE view)
        /\ UNCHANGED <<Profiles!server, active, favBackup, viewBackup, up, timer, writes, news, events, made, seen, crossed>>
    BY <1>5 DEF Profiles!GotFav, Profiles!history
  <2>2. ~crossed => fav' \subseteq made[active] /\ (l.why = "switch" => view' \subseteq seen[active])
    BY <1>2, <2>1
  <2> QED BY <1>1, <1>3, <2>1, <2>2, LoadMoves
<1>6. CASE Profiles!LostFav(l)
  <2>1. /\ Profiles!Ends(l)
        /\ UNCHANGED <<Profiles!server, active, favBackup, viewBackup, up, timer, writes, news, made, seen>>
    BY <1>6 DEF Profiles!LostFav
  <2>2. events' \in 0..ProfileEvents
    <3>1. Profiles!Event
      BY <1>6 DEF Profiles!LostFav
    <3> QED BY <1>3, <3>1, ProfilesAssumption DEF Profiles!Event
  <2>3. favBackup[l.of] \in (SUBSET Cards) \cup {Nobody}
    BY <1>1 DEF Profiles!TypeOK
  <2>4. CASE l.why = "switch"
    <3>1. /\ view' = l.view /\ crossed' = (crossed \/ favBackup[l.of] = Nobody)
          /\ fav' = (IF favBackup[l.of] = Nobody THEN fav ELSE favBackup[l.of])
      BY <1>6, <2>4 DEF Profiles!LostFav, Profiles!Fallback
    <3>2. ~crossed' => fav' \subseteq made[active] /\ view' \subseteq seen[active]
      BY <1>1, <1>2, <3>1 DEF OwnData
    <3> QED BY <1>1, <1>3, <2>1, <2>2, <2>3, <3>1, <3>2, LoadMoves
  <2>5. CASE l.why # "switch"
    <3>1. UNCHANGED <<fav, view, crossed>>
      BY <1>6, <2>5 DEF Profiles!LostFav
    <3> QED BY <1>1, <1>3, <2>1, <2>2, <2>5, <3>1, LoadMoves
  <2> QED BY <2>4, <2>5
<1> QED BY <1>4, <1>5, <1>6

\* Sent and received: the active profile's list, and what the server passes on.
LEMMA SendKeepsOwn ==
    ASSUME ProfilesInv, Profiles!SendFavourites
    PROVE  ProfilesInv'
<1>0. PICK w : w = Profiles!OfList(active, fav)
  OBVIOUS
<1>1. Profiles!TypeOK
  BY DEF ProfilesInv
<1>2. w \in Profiles!Write /\ w.of = active /\ w.fav = fav /\ w.fav # Nobody
  BY <1>0, <1>1, RequestsAreTyped, ProfilesAssumption DEF Profiles!TypeOK
<1>3. writes' = Profiles!(+)(writes, Profiles!One(w)) /\ timer /\ timer' = FALSE
  BY <1>0 DEF Profiles!SendFavourites
<1>4. Profiles!BagToSet(writes') = Profiles!BagToSet(writes) \cup {w} /\ Profiles!IsABag(writes')
  BY <1>1, <1>3, BagGains DEF Profiles!TypeOK
<1>5. Profiles!TypeOK'
  BY <1>1, <1>2, <1>3, <1>4 DEF Profiles!TypeOK, Profiles!SendFavourites, Profiles!server,
     Profiles!storage, Profiles!history
<1>6. ASSUME ~crossed' PROVE OwnData'
  <2>1. OwnData /\ ~Switching
    BY <1>3, <1>6 DEF ProfilesInv, Profiles!SendFavourites, Profiles!history, OwnData
  <2>2. OwnWrite(w)
    BY <1>2, <2>1 DEF OwnData, OwnWrite
  <2>3. \A v : OwnWrite(v)' <=> OwnWrite(v)
    BY DEF OwnWrite, Profiles!SendFavourites, Profiles!history
  <2>4. OwnWrites'
    BY <1>4, <2>1, <2>2, <2>3 DEF OwnData, OwnWrites
  <2>5. OwnNews' /\ OwnLoads' /\ (Switching' <=> Switching)
    BY <2>1 DEF OwnData, OwnNews, OwnLoads, OwnLoad, OwnWrite, Switching, Profiles!SendFavourites,
       Profiles!history, Profiles!storage
  <2> QED BY <2>1, <2>4, <2>5 DEF OwnData, Profiles!SendFavourites, Profiles!server, Profiles!storage,
     Profiles!history
<1> QED BY <1>5, <1>6 DEF ProfilesInv

LEMMA WriteKeepsOwn ==
    ASSUME ProfilesInv, NEW w \in Profiles!BagToSet(writes), Profiles!WriteDone(w) \/ Profiles!WriteFails(w)
    PROVE  ProfilesInv'
<1>1. Profiles!TypeOK /\ w \in Profiles!Write /\ w.of \in Profile
  BY DEF ProfilesInv, Profiles!TypeOK, Profiles!Write
<1>2. /\ writes' = Profiles!(-)(writes, Profiles!One(w))
      /\ UNCHANGED <<Profiles!storage, up, timer, loads, news, Profiles!history>>
  BY DEF Profiles!WriteDone, Profiles!WriteFails
<1>3. Profiles!BagToSet(writes') \subseteq Profiles!BagToSet(writes) /\ Profiles!IsABag(writes')
  BY <1>1, <1>2, BagLoses DEF Profiles!TypeOK
<1>4. events' \in 0..ProfileEvents
  BY <1>1, ProfilesAssumption DEF Profiles!TypeOK, Profiles!WriteDone, Profiles!WriteFails,
     Profiles!Event
<1>5. \/ UNCHANGED Profiles!server
      \/ w.fav # Nobody /\ favs' = [favs EXCEPT ![w.of] = w.fav] /\ marks' = marks
      \/ w.fav = Nobody /\ favs' = favs /\ marks' = [marks EXCEPT ![w.of] = @ \cup {w.hash}]
  BY DEF Profiles!WriteDone, Profiles!WriteFails, Profiles!server
<1>6. IF w.fav # Nobody THEN w.fav \subseteq Cards ELSE w.hash \in Hash
  <2>1. (w.fav = Nobody /\ w.hash \in Hash) \/ w.fav \in SUBSET Cards
    BY <1>1 DEF Profiles!Write
  <2>2. w.fav \in SUBSET Cards => w.fav # Nobody
    BY ProfilesAssumption
  <2> QED BY <2>1, <2>2
<1>7. Profiles!TypeOK'
  <2>1. favs' \in [Profile -> SUBSET Cards] /\ marks' \in [Profile -> SUBSET Hash]
    <3>1. favs \in [Profile -> SUBSET Cards] /\ marks \in [Profile -> SUBSET Hash] /\ w.of \in Profile
      BY <1>1 DEF Profiles!TypeOK
    <3>2. CASE UNCHANGED Profiles!server
      BY <3>1, <3>2 DEF Profiles!server
    <3>3. CASE w.fav # Nobody /\ favs' = [favs EXCEPT ![w.of] = w.fav] /\ marks' = marks
      <4>1. w.fav \in SUBSET Cards
        BY <1>6, <3>3
      <4> QED BY <3>1, <3>3, <4>1
    <3>4. CASE w.fav = Nobody /\ favs' = favs /\ marks' = [marks EXCEPT ![w.of] = @ \cup {w.hash}]
      <4>1. w.hash \in Hash
        BY <1>6, <3>4
      <4>2. marks[w.of] \cup {w.hash} \in SUBSET Hash
        BY <3>1, <4>1
      <4> QED BY <3>1, <3>4, <4>2
    <3> QED BY <1>5, <3>2, <3>3, <3>4
  <2>2. Profiles!BagToSet(writes') \subseteq Profiles!Write
    BY <1>1, <1>3 DEF Profiles!TypeOK
  <2> QED BY <1>1, <1>2, <1>3, <1>4, <2>1, <2>2 DEF Profiles!TypeOK, Profiles!storage, Profiles!history
<1>8. ASSUME ~crossed' PROVE OwnData'
  <2>1. OwnData /\ OwnWrite(w)
    BY <1>2, <1>8 DEF ProfilesInv, OwnData, OwnWrites, Profiles!history
  <2>2. \A p \in Profile : favs'[p] \subseteq made[p] /\ marks'[p] \subseteq seen[p]
    <3>1. CASE UNCHANGED Profiles!server
      BY <2>1, <3>1 DEF OwnData, Profiles!server
    <3>2. CASE w.fav # Nobody /\ favs' = [favs EXCEPT ![w.of] = w.fav] /\ marks' = marks
      BY <1>1, <2>1, <3>2 DEF OwnData, OwnWrite, Profiles!TypeOK
    <3>3. CASE w.fav = Nobody /\ favs' = favs /\ marks' = [marks EXCEPT ![w.of] = @ \cup {w.hash}]
      BY <1>1, <2>1, <3>3 DEF OwnData, OwnWrite, Profiles!TypeOK
    <3> QED BY <1>5, <3>1, <3>2, <3>3
  <2>3. OwnWrites' /\ OwnNews' /\ OwnLoads' /\ (Switching' <=> Switching)
    BY <1>2, <1>3, <2>1 DEF OwnData, OwnNews, OwnLoads, OwnWrites, OwnLoad, OwnWrite, Switching,
       Profiles!history, Profiles!storage
  <2> QED BY <1>2, <2>1, <2>2, <2>3 DEF OwnData, Profiles!storage, Profiles!history
<1> QED BY <1>7, <1>8 DEF ProfilesInv

LEMMA MessageKeepsOwn ==
    ASSUME ProfilesInv, Profiles!onWsMessage
    PROVE  ProfilesInv'
<1>1. Profiles!TypeOK /\ news \in Seq(Profiles!Write) /\ news # <<>>
  BY DEF ProfilesInv, Profiles!TypeOK, Profiles!onWsMessage
<1>2. PICK m \in Profiles!Write : m = Head(news) /\ m = news[1] /\ 1 \in DOMAIN news
  BY <1>1
<1>3. /\ news' = Tail(news)
      /\ UNCHANGED <<Profiles!server, active, favBackup, viewBackup, up, timer, loads, writes, events, Profiles!history>>
  BY DEF Profiles!onWsMessage
<1>4. \/ fav' = fav /\ view' = view
      \/ m.of = active /\ m.fav # Nobody /\ fav' = m.fav /\ view' = view
      \/ m.of = active /\ m.fav = Nobody /\ fav' = fav /\ view' = view \cup {m.hash}
  BY <1>2 DEF Profiles!onWsMessage
<1>5. IF m.fav # Nobody THEN m.fav \subseteq Cards ELSE m.hash \in Hash
  BY <1>2, ProfilesAssumption DEF Profiles!Write
<1>6. news' \in Seq(Profiles!Write) /\ \A i \in DOMAIN news' : i + 1 \in DOMAIN news /\ news'[i] = news[i + 1]
  BY <1>1, <1>3
<1>7. Profiles!TypeOK'
  <2>1. fav' \subseteq Cards /\ view' \subseteq Hash
    BY <1>1, <1>4, <1>5 DEF Profiles!TypeOK
  <2> QED BY <1>1, <1>3, <1>6, <2>1 DEF Profiles!TypeOK, Profiles!server, Profiles!history
<1>8. ASSUME ~crossed' PROVE OwnData'
  <2>1. OwnData /\ OwnWrite(m)
    BY <1>2, <1>3, <1>8 DEF ProfilesInv, OwnData, OwnNews, Profiles!history
  <2>2. \A w : OwnWrite(w)' <=> OwnWrite(w)
    BY <1>3 DEF OwnWrite, Profiles!history
  <2>3. \A i \in DOMAIN news : OwnWrite(news[i])
    BY <2>1 DEF OwnData, OwnNews
  <2>4. PICK rest : rest = news'
    OBVIOUS
  <2>5. \A i \in DOMAIN rest : OwnWrite(rest[i])
    BY <1>6, <2>3, <2>4
  <2>6. \A i \in DOMAIN rest : OwnWrite(rest[i])'
    BY <1>3, <2>5 DEF OwnWrite, Profiles!history
  <2>7. OwnNews'
    BY <2>4, <2>6 DEF OwnNews
  <2>8. OwnWrites' /\ OwnLoads' /\ (Switching' <=> Switching)
    BY <1>3, <2>1 DEF OwnData, OwnLoads, OwnWrites, OwnLoad, OwnWrite, Switching, Profiles!history
  <2>9. ~Switching => fav' \subseteq made[active] /\ view' \subseteq seen[active]
    BY <1>4, <2>1 DEF OwnData, OwnWrite
  <2> QED BY <1>3, <2>1, <2>7, <2>8, <2>9 DEF OwnData, Profiles!server, Profiles!history
<1> QED BY <1>7, <1>8 DEF ProfilesInv

LEMMA ElsewhereKeepsOwn ==
    ASSUME ProfilesInv, NEW p \in Profile, Profiles!Elsewhere(p)
    PROVE  ProfilesInv'
<1>1. Profiles!TypeOK
  BY DEF ProfilesInv
<1>2. PICK m \in Profiles!Write :
        /\ m.of = p
        /\ news' \in {news, Append(news, m)}
        /\ \/ /\ m.fav # Nobody
              /\ \E c \in Cards :
                    /\ favs' = [favs EXCEPT ![p] = @ \cup {c}]
                    /\ made' = [made EXCEPT ![p] = @ \cup {c}]
              /\ m.fav = favs'[p] /\ UNCHANGED <<marks, seen>>
           \/ /\ m.fav = Nobody
              /\ \E h \in Hash : /\ marks' = [marks EXCEPT ![p] = @ \cup {h}]
                                 /\ seen' = [seen EXCEPT ![p] = @ \cup {h}]
                                 /\ m.hash = h
              /\ UNCHANGED <<favs, made>>
  <2>1. CASE \E c \in Cards \ favs[p] :
             /\ favs' = [favs EXCEPT ![p] = @ \cup {c}]
             /\ made' = [made EXCEPT ![p] = @ \cup {c}]
             /\ news' = IF up THEN Append(news, Profiles!OfList(p, favs'[p])) ELSE news
             /\ UNCHANGED <<marks, seen>>
    <3>1. PICK c \in Cards \ favs[p] :
             /\ favs' = [favs EXCEPT ![p] = @ \cup {c}]
             /\ made' = [made EXCEPT ![p] = @ \cup {c}]
             /\ news' = IF up THEN Append(news, Profiles!OfList(p, favs'[p])) ELSE news
             /\ UNCHANGED <<marks, seen>>
      BY <2>1
    <3>2. PICK kept : kept = favs'[p]
      OBVIOUS
    <3>3. kept \in SUBSET Cards
      BY <1>1, <3>1, <3>2 DEF Profiles!TypeOK
    <3>4. PICK m : m = Profiles!OfList(p, kept)
      OBVIOUS
    <3>5. m \in Profiles!Write /\ m.of = p /\ m.fav = kept /\ m.fav # Nobody
      BY <3>3, <3>4, RequestsAreTyped, ProfilesAssumption
    <3>6. news' \in {news, Append(news, m)}
      BY <3>1, <3>2, <3>4
    <3>7. m.fav = favs'[p]
      BY <3>2, <3>5
    <3> QED BY <3>1, <3>5, <3>6, <3>7
  <2>2. CASE \E h \in Hash \ marks[p] :
             /\ marks' = [marks EXCEPT ![p] = @ \cup {h}]
             /\ seen' = [seen EXCEPT ![p] = @ \cup {h}]
             /\ news' = IF up THEN Append(news, Profiles!OfHash(p, h)) ELSE news
             /\ UNCHANGED <<favs, made>>
    <3>1. PICK h \in Hash \ marks[p] :
             /\ marks' = [marks EXCEPT ![p] = @ \cup {h}]
             /\ seen' = [seen EXCEPT ![p] = @ \cup {h}]
             /\ news' = IF up THEN Append(news, Profiles!OfHash(p, h)) ELSE news
             /\ UNCHANGED <<favs, made>>
      BY <2>2
    <3>2. PICK m : m = Profiles!OfHash(p, h)
      OBVIOUS
    <3>3. m \in Profiles!Write /\ m.of = p /\ m.fav = Nobody /\ m.hash = h
      BY <3>2, RequestsAreTyped
    <3> QED BY <3>1, <3>2, <3>3
  <2> QED BY <2>1, <2>2 DEF Profiles!Elsewhere
<1>3. UNCHANGED <<Profiles!storage, up, timer, loads, writes, crossed>>
  BY DEF Profiles!Elsewhere
<1>4. events' \in 0..ProfileEvents
  <2>1. Profiles!Event
    BY DEF Profiles!Elsewhere
  <2> QED BY <1>1, <2>1, ProfilesAssumption DEF Profiles!TypeOK, Profiles!Event
<1>5. /\ favs' \in [Profile -> SUBSET Cards] /\ made' \in [Profile -> SUBSET Cards]
      /\ marks' \in [Profile -> SUBSET Hash] /\ seen' \in [Profile -> SUBSET Hash]
  <2>1. /\ favs \in [Profile -> SUBSET Cards] /\ made \in [Profile -> SUBSET Cards]
        /\ marks \in [Profile -> SUBSET Hash] /\ seen \in [Profile -> SUBSET Hash]
    BY <1>1 DEF Profiles!TypeOK
  <2>2. CASE m.fav # Nobody
    BY <1>2, <2>1, <2>2
  <2>3. CASE m.fav = Nobody
    BY <1>2, <2>1, <2>3
  <2> QED BY <2>2, <2>3
<1>6. news' \in Seq(Profiles!Write)
  <2>1. news \in Seq(Profiles!Write) /\ m \in Profiles!Write /\ news' \in {news, Append(news, m)}
    BY <1>1, <1>2 DEF Profiles!TypeOK
  <2> QED BY <2>1
<1>7. Profiles!TypeOK'
  BY <1>1, <1>3, <1>4, <1>5, <1>6 DEF Profiles!TypeOK, Profiles!storage
<1>8. ASSUME ~crossed' PROVE OwnData'
  <2>1. OwnData
    BY <1>3, <1>8 DEF ProfilesInv
  <2>2. \A q \in Profile : made[q] \subseteq made'[q] /\ seen[q] \subseteq seen'[q]
    BY <1>1, <1>2 DEF Profiles!TypeOK
  <2>3. \A q \in Profile : favs'[q] \subseteq made'[q] /\ marks'[q] \subseteq seen'[q]
    BY <1>1, <1>2, <2>1 DEF Profiles!TypeOK, OwnData
  <2>4. OwnWrite(m)'
    <3>1. m.fav # Nobody => m.fav \subseteq made'[p]
      BY <1>2, <2>3
    <3>2. m.fav = Nobody => m.hash \in seen'[p]
      BY <1>1, <1>2 DEF Profiles!TypeOK
    <3> QED BY <1>2, <3>1, <3>2 DEF OwnWrite
  <2>5. \A w \in Profiles!Write : OwnWrite(w) => OwnWrite(w)'
    BY <2>2 DEF OwnWrite, Profiles!Write
  <2>6. \A l \in Profiles!Load : OwnLoad(l) => OwnLoad(l)'
    BY <1>3, <2>2 DEF OwnLoad, Profiles!Load, Profiles!storage
  <2>7. OwnWrites'
    BY <1>1, <1>3, <2>1, <2>5 DEF Profiles!TypeOK, OwnData, OwnWrites
  <2>8. OwnLoads'
    BY <1>1, <1>3, <2>1, <2>6 DEF Profiles!TypeOK, OwnData, OwnLoads
  <2>9. OwnNews'
    <3>1. \A i \in DOMAIN news : news[i] \in Profiles!Write /\ OwnWrite(news[i])
      BY <1>1, <2>1 DEF Profiles!TypeOK, OwnData, OwnNews
    <3>2. PICK rest : rest = news'
      OBVIOUS
    <3>3. \A i \in DOMAIN rest : (i \in DOMAIN news /\ rest[i] = news[i]) \/ rest[i] = m
      BY <1>1, <1>2, <3>2 DEF Profiles!TypeOK
    <3>4. \A i \in DOMAIN rest : OwnWrite(rest[i])'
      BY <2>4, <2>5, <3>1, <3>3
    <3> QED BY <3>2, <3>4 DEF OwnNews
  <2>10. Switching' <=> Switching
    BY <1>3 DEF Switching
  <2>11. active \in Profile
    BY <1>1 DEF Profiles!TypeOK
  <2>12. \A q \in Profile : (favBackup'[q] = Nobody \/ favBackup'[q] \subseteq made'[q]) /\ viewBackup'[q] \subseteq seen'[q]
    BY <1>3, <2>1, <2>2 DEF OwnData, Profiles!storage
  <2> QED BY <1>3, <2>1, <2>2, <2>3, <2>7, <2>8, <2>9, <2>10, <2>11, <2>12 DEF OwnData, Profiles!storage
<1> QED BY <1>7, <1>8 DEF ProfilesInv

LEMMA ProfilesKept == ASSUME ProfilesInv, Profiles!Next \/ UNCHANGED Profiles!vars PROVE ProfilesInv'
<1>1. CASE UNCHANGED Profiles!vars
  BY <1>1 DEF ProfilesInv, Profiles!TypeOK, OwnData, OwnLoads, OwnWrites, OwnNews, OwnLoad, OwnWrite,
     Switching,
       Profiles!vars, Profiles!server, Profiles!storage, Profiles!history
<1>2. CASE Profiles!Viewer
  <2>1. ASSUME NEW p \in Profile, Profiles!switchToProfile(p) \/ Profiles!Elsewhere(p) PROVE ProfilesInv'
    BY <2>1, SwitchKeepsOwn, ElsewhereKeepsOwn
  <2>2. ASSUME NEW c \in Cards, Profiles!Favourite(c) PROVE ProfilesInv'
    BY <2>2, FavouriteKeepsOwn
  <2>3. ASSUME NEW h \in Hash, Profiles!Watch(h) PROVE ProfilesInv'
    BY <2>3, WatchKeepsOwn
  <2>4. ASSUME Profiles!OpenCard PROVE ProfilesInv'
    BY <2>4, OpeningKeepsOwn
  <2>5. ASSUME NEW ok \in BOOLEAN, Profiles!Restart(ok) PROVE ProfilesInv'
    BY <2>5, RestartKeepsOwn
  <2> QED BY <1>2, <2>1, <2>2, <2>3, <2>4, <2>5 DEF Profiles!Viewer
<1>3. ASSUME NEW l \in Profiles!BagToSet(loads), Profiles!GotView(l) \/ Profiles!LostView(l) PROVE ProfilesInv'
  BY <1>3, ViewKeepsOwn
<1>4. ASSUME NEW l \in Profiles!BagToSet(loads), Profiles!AnswerFav(l) \/ Profiles!GotFav(l) \/ Profiles!LostFav(l) PROVE ProfilesInv'
  BY <1>4, FavKeepsOwn
<1>5. CASE Profiles!SendFavourites \/ Profiles!onWsMessage
  BY <1>5, SendKeepsOwn, MessageKeepsOwn
<1>6. ASSUME NEW w \in Profiles!BagToSet(writes), Profiles!WriteDone(w) \/ Profiles!WriteFails(w) PROVE ProfilesInv'
  BY <1>6, WriteKeepsOwn
<1>7. CASE Profiles!Next
  BY <1>2, <1>3, <1>4, <1>5, <1>6, <1>7 DEF Profiles!Next
<1> QED BY <1>1, <1>7

LEMMA ProfilesSettle == ASSUME ProfilesInv PROVE Profiles!FavouritesStayApart /\ Profiles!ProgressIsOfActive
BY BagOfNone DEF ProfilesInv, OwnData, Switching, Profiles!FavouritesStayApart,
   Profiles!ProgressIsOfActive

-----------------------------------------------------------------------------
(* The menu of the profiles (ProfileMenu) *)

\* Ids are given once: none in use is as new as the next one.
Old(p) == p < next

FreshIds ==
    /\ \A p \in DOMAIN rows : Old(p)
    /\ \A p \in DOMAIN list : Old(p)
    /\ Old(menu.obj.id) /\ (active # Nobody => Old(active))
    /\ \A a \in asks : Old(a.obj.id) /\ \A p \in DOMAIN a.got : Old(p)

\* Requests that change a profile: one at a time for each, but for a deletion of a profile
\* whose icon is being sent unheard.
Alters(a) == a.what \in Roster!Edits \cup {"patch"}

OneEditEach ==
    \A a, b \in asks :
        Alters(a) /\ Alters(b) /\ a.obj.id = b.obj.id /\ a # b => {a.what, b.what} = {"delete", "patch"}

\* Requests that made a profile, and what is known of it when the answer is due.
Names(a) == a.what = "rename" /\ a.obj.id = Roster!Default
Made(a) == a.done /\ (a.what = "create" \/ Names(a))
New == [name |-> 1, icon |-> 0]

MakersAreTrue ==
    /\ \A a \in asks : a.what = "create" => a.obj.look.name = 1
    /\ \A a \in asks : Made(a) => \E p \in Roster!Id : a.got = Roster!One(p, New)
    /\ \A a, b \in asks : Made(a) /\ Made(b) /\ DOMAIN a.got = DOMAIN b.got => a = b
    /\ \A a \in asks : Made(a) /\ Names(a) => \A p \in DOMAIN a.got :
         p \in DOMAIN rows /\ rows[p] = New /\ \A b \in asks : Alters(b) => b.obj.id # p

\* An edit that was served is what the server has.
EditsAreTrue ==
    \A a \in asks : a.done =>
        /\ a.what = "icon" => a.got[a.obj.id].icon = Roster!LookOf(a.obj.id).icon
        /\ a.what = "rename" /\ a.obj.id # Roster!Default =>
             Roster!LookOf(a.obj.id).name = 1 /\ DOMAIN a.got = {a.obj.id}

\* Answers that will name another profile as the active one.
Renews(a) ==
    \/ a.what = "rest"
    \/ a.done /\ a.what = "create"
    \/ a.done /\ a.what = "delete" /\ a.obj.id = active
    \/ a.done /\ Names(a) /\ active = Roster!Default

Renewed == \E a \in asks : Renews(a)

IconFollows ==
    /\ \A a \in asks : a.what = "patch" /\ ~a.done /\ a.obj.id = active => face.icon = 1 - a.obj.look.icon
    /\ \/ face.icon = Roster!LookOf(active).icon
       \/ \E a \in asks : a.done /\ a.what = "icon" /\ a.obj.id = active
       \/ \E a \in asks : ~a.done /\ a.what = "patch" /\ a.obj.id = active

\* An icon that was changed comes with the answer.
IconsCome == \A a \in asks : a.done /\ a.what = "icon" => a.obj.id \in DOMAIN a.got

NameFollows ==
    \/ face.name = Roster!LookOf(active).name
    \/ \E a \in asks : a.done /\ a.what = "rename" /\ a.obj.id = active

\* The active profile is the server's, as it is shown, or an answer is due that makes it so.
ActiveFollows ==
    ~Renewed => IF active = Nobody THEN Roster!Listed = {}
                ELSE active \in Roster!Listed /\ IconFollows /\ NameFollows

RosterInv ==
    /\ Roster!TypeOK /\ menu \in [at : {"closed", "list", "profile"}, obj : Roster!Objects]
    /\ FreshIds /\ IconsCome
    /\ ~crossed => OneEditEach /\ MakersAreTrue /\ EditsAreTrue /\ ActiveFollows

LEMMA ListsAre ==
    \A f : f \in Roster!Lists <=> DOMAIN f \in SUBSET Roster!Id /\ f \in [DOMAIN f -> Roster!Look]
<1>1. ASSUME NEW f \in Roster!Lists PROVE DOMAIN f \in SUBSET Roster!Id /\ f \in [DOMAIN f -> Roster!Look]
  <2>1. PICK S \in SUBSET Roster!Id : f \in [S -> Roster!Look]
    BY DEF Roster!Lists
  <2> QED BY <2>1
<1>2. ASSUME NEW f, DOMAIN f \in SUBSET Roster!Id, f \in [DOMAIN f -> Roster!Look] PROVE f \in Roster!Lists
  BY <1>2 DEF Roster!Lists
<1> QED BY <1>1, <1>2

\* What the operators on lists of profiles give.
LEMMA PutIs ==
    ASSUME NEW f \in Roster!Lists, NEW p \in Roster!Id, NEW look \in Roster!Look, NEW g, g = Roster!Put(f, p, look)
    PROVE  /\ g \in Roster!Lists /\ DOMAIN g = DOMAIN f \cup {p} /\ g[p] = look
           /\ \A q \in DOMAIN f : q # p => g[q] = f[q]
<1>1. DOMAIN f \in SUBSET Roster!Id /\ \A q \in DOMAIN f : f[q] \in Roster!Look
  BY ListsAre
<1>2. DOMAIN g = DOMAIN f \cup {p} /\ g[p] = look /\ (\A q \in DOMAIN f : q # p => g[q] = f[q])
      /\ g \in [DOMAIN g -> Roster!Look]
  BY <1>1 DEF Roster!Put
<1>3. g \in Roster!Lists
  BY <1>1, <1>2, ListsAre
<1> QED BY <1>2, <1>3

LEMMA OneIs ==
    ASSUME NEW p \in Roster!Id, NEW look \in Roster!Look, NEW g, g = Roster!One(p, look)
    PROVE  g \in Roster!Lists /\ DOMAIN g = {p} /\ g[p] = look
<1>1. DOMAIN g = {p} /\ g[p] = look /\ g \in [DOMAIN g -> Roster!Look]
  BY DEF Roster!One
<1> QED BY <1>1, ListsAre

LEMMA RestrictIs ==
    ASSUME NEW f \in Roster!Lists, NEW p \in Roster!Id, NEW g, g = Roster!Restrict(f, DOMAIN f \ {p})
    PROVE  /\ g \in Roster!Lists /\ DOMAIN g = DOMAIN f \ {p}
           /\ \A q \in DOMAIN f : q # p => g[q] = f[q]
<1>1. DOMAIN f \in SUBSET Roster!Id /\ \A q \in DOMAIN f : f[q] \in Roster!Look
  BY ListsAre
<1>2. DOMAIN g = DOMAIN f \ {p} /\ (\A q \in DOMAIN f : q # p => g[q] = f[q]) /\ g \in [DOMAIN g -> Roster!Look]
  BY <1>1 DEF Roster!Restrict
<1>3. g \in Roster!Lists
  BY <1>1, <1>2, ListsAre
<1> QED BY <1>2, <1>3

LEMMA NoneListed == << >> \in Roster!Lists /\ DOMAIN << >> = {}
<1>1. DOMAIN << >> = {} /\ << >> \in [{} -> Roster!Look]
  OBVIOUS
<1> QED BY <1>1, ListsAre

LEMMA ListedIsList ==
    ASSUME rows \in Roster!Lists
    PROVE  /\ Roster!AsListed \in Roster!Lists /\ DOMAIN Roster!AsListed = Roster!Listed /\ Roster!Listed \subseteq Roster!Id
           /\ \A p \in Roster!Id : Roster!LookOf(p) \in Roster!Look
<1>1. DOMAIN rows \in SUBSET Roster!Id /\ \A q \in DOMAIN rows : rows[q] \in Roster!Look
  BY ListsAre
<1>2. Roster!Plain \in Roster!Look /\ Roster!Default \in Roster!Id
  BY RosterAssumption DEF Roster!Plain, Roster!Look, Roster!Default, Roster!Id
<1>3. (\A p \in Roster!Id : Roster!LookOf(p) \in Roster!Look) /\ Roster!Listed \subseteq Roster!Id
  BY <1>1, <1>2, RosterAssumption DEF Roster!LookOf, Roster!Listed
<1>4. PICK f : f = Roster!AsListed
  OBVIOUS
<1>5. DOMAIN f = Roster!Listed /\ f \in [DOMAIN f -> Roster!Look]
  BY <1>3, <1>4 DEF Roster!AsListed
<1> QED BY <1>3, <1>4, <1>5, ListsAre

\* A request as it is sent.
LEMMA AskIs ==
    ASSUME NEW what \in Roster!Kinds, NEW obj \in Roster!Objects
    PROVE  /\ Roster!Ask(what, obj) \in Roster!Asks /\ Roster!Ask(what, obj).what = what /\ Roster!Ask(what, obj).obj = obj
           /\ ~Roster!Ask(what, obj).done /\ Roster!Ask(what, obj).got = << >>
BY NoneListed DEF Roster!Ask, Roster!Asks

LEMMA RosterStart == ASSUME Roster!Init PROVE RosterInv
<1>1. Roster!Object(Roster!Default, Roster!Plain) \in Roster!Objects /\ Roster!Plain \in Roster!Look /\ Roster!Default \in Roster!Id
      /\ Roster!Object(Roster!Default, Roster!Plain).id = Roster!Default /\ Roster!Default = 0
  BY RosterAssumption DEF Roster!Object, Roster!Objects, Roster!Plain, Roster!Look, Roster!Default,
     Roster!Id
<1>2. rows \in Roster!Lists /\ DOMAIN rows \subseteq {0, 1} /\ next = 2 /\ asks = {} /\ face = Roster!Plain /\ list = << >>
      /\ \A p \in DOMAIN rows : rows[p] = Roster!Plain
  BY <1>1 DEF Roster!Init
<1>3. Roster!Listed \subseteq Roster!Id /\ Roster!Listed \subseteq {0, 1}
  BY <1>1, <1>2, ListedIsList DEF Roster!Listed
<1>4. active \in Roster!Id \cup {Nobody} /\ (active # Nobody => active \in Roster!Listed)
      /\ (active = Nobody => Roster!Listed = {} \/ Nobody \in Roster!Listed)
  BY <1>3 DEF Roster!Init
<1>5. menu = Roster!Closed /\ menu.at = "closed" /\ menu.obj = Roster!Object(Roster!Default, Roster!Plain)
      /\ menu \in [at : {"closed", "list", "profile"}, obj : Roster!Objects]
  BY <1>1 DEF Roster!Init, Roster!Closed
<1>6. history = Nobody /\ orphans \in BOOLEAN /\ loading = FALSE /\ moves = 0 /\ crossed = FALSE
  BY DEF Roster!Init
<1>7. Roster!TypeOK
  <2>1. rows \in Roster!Lists /\ list \in Roster!Lists /\ next \in 1..(LastId + 1)
    BY <1>2, NoneListed, RosterAssumption
  <2>2. menu.at \in {"closed", "list", "profile"} /\ menu.obj \in Roster!Objects /\ moves \in 0..RosterMoves
    BY <1>1, <1>5, <1>6, RosterAssumption
  <2> QED BY <1>1, <1>2, <1>4, <1>6, <2>1, <2>2 DEF Roster!TypeOK
<1>8. FreshIds
  <2>1. \A p \in DOMAIN rows : Old(p)
    BY <1>2 DEF Old
  <2>2. DOMAIN list = {} /\ Old(menu.obj.id) /\ (active # Nobody => Old(active))
    BY <1>1, <1>2, <1>3, <1>4, <1>5, NoneListed DEF Old
  <2> QED BY <1>2, <2>1, <2>2 DEF FreshIds
<1>9. ActiveFollows
  <2>1. active = Nobody => Roster!Listed = {}
    BY <1>3, <1>4, RosterAssumption DEF Roster!Id
  <2>2. Roster!LookOf(active) = Roster!Plain
    BY <1>2 DEF Roster!LookOf
  <2> QED BY <1>2, <1>4, <2>1, <2>2 DEF ActiveFollows, IconFollows, NameFollows
<1> QED BY <1>2, <1>5, <1>7, <1>8, <1>9 DEF RosterInv, IconsCome, OneEditEach, MakersAreTrue,
   EditsAreTrue

\* The types of what is kept here, and the requests that may be sent.
ClientTyped ==
    /\ active \in Roster!Id \cup {Nobody} /\ (active # Nobody => Old(active))
    /\ face \in Roster!Look
    /\ menu \in [at : {"closed", "list", "profile"}, obj : Roster!Objects] /\ Old(menu.obj.id)
    /\ list \in Roster!Lists /\ \A p \in DOMAIN list : Old(p)
    /\ loading \in BOOLEAN /\ history \in Roster!Id \cup {Nobody}
    /\ moves \in 0..RosterMoves /\ crossed \in BOOLEAN

Sends(n) ==
    /\ n \in Roster!Asks /\ ~n.done /\ n.got = << >> /\ Old(n.obj.id)
    /\ n.what = "create" => n.obj.look.name = 1

Sendable(N) == \A n \in N : Sends(n)

EditsFit(N) ==
    \A n \in N : Alters(n) =>
        /\ \A a \in (asks \cup N) \ {n} : Alters(a) /\ a.obj.id = n.obj.id =>
              {a.what, n.what} = {"delete", "patch"}
        /\ \A b \in asks : Made(b) /\ Names(b) => n.obj.id \notin DOMAIN b.got

\* What is shown here changes, requests are sent and answers taken: what is known of the
\* requests remains so.
LEMMA ClientSteps ==
    ASSUME RosterInv, UNCHANGED Roster!server, ClientTyped',
           NEW N, Sendable(N), asks' \subseteq asks \cup N,
           crossed => crossed', ~crossed' => EditsFit(N) /\ ActiveFollows'
    PROVE  RosterInv'
<1>0. \A n \in N : n \in Roster!Asks /\ ~n.done /\ n.got = << >> /\ Old(n.obj.id)
                  /\ (n.what = "create" => n.obj.look.name = 1)
  BY DEF Sendable, Sends
<1>1. Roster!TypeOK'
  <2>1. asks' \subseteq Roster!Asks
    BY <1>0 DEF RosterInv, Roster!TypeOK
  <2>2. menu'.at \in {"closed", "list", "profile"} /\ menu'.obj \in Roster!Objects
    BY DEF ClientTyped
  <2> QED BY <2>1, <2>2 DEF RosterInv, Roster!TypeOK, Roster!server, ClientTyped
<1>2. FreshIds'
  <2>1. \A p : Old(p)' <=> Old(p)
    BY DEF Old, Roster!server
  <2>2. \A a \in asks \cup N : Old(a.obj.id) /\ \A p \in DOMAIN a.got : Old(p)
    BY <1>0, NoneListed DEF RosterInv, FreshIds
  <2>3. \A a \in asks' : Old(a.obj.id)' /\ \A p \in DOMAIN a.got : Old(p)'
    BY <2>1, <2>2
  <2>4. (Old(menu.obj.id))' /\ (active' # Nobody => (Old(active))')
    BY DEF Old, Roster!server, ClientTyped
  <2>5. \A p \in DOMAIN list' : Old(p)'
    BY <2>1 DEF ClientTyped
  <2>6. \A p \in DOMAIN rows' : Old(p)'
    BY <2>1 DEF Roster!server, RosterInv, FreshIds
  <2> QED BY <2>3, <2>4, <2>5, <2>6 DEF FreshIds
<1>3. ASSUME ~crossed' PROVE OneEditEach' /\ MakersAreTrue' /\ EditsAreTrue' /\ ActiveFollows'
  <2>1. OneEditEach /\ MakersAreTrue /\ EditsAreTrue
    BY <1>3 DEF RosterInv
  <2>2. \A a : (Alters(a)' <=> Alters(a)) /\ (Made(a)' <=> Made(a)) /\ (Names(a)' <=> Names(a))
    BY DEF Alters, Made, Names
  <2>3. OneEditEach'
    <3>1. ASSUME NEW a \in asks \cup N, NEW b \in asks \cup N, Alters(a), Alters(b), a.obj.id = b.obj.id, a # b
          PROVE  {a.what, b.what} = {"delete", "patch"}
      <4>1. CASE a \in N
        <5>1. {b.what, a.what} = {"delete", "patch"}
          BY <1>3, <3>1, <4>1 DEF EditsFit
        <5> QED BY <5>1
      <4>2. CASE b \in N
        BY <1>3, <3>1, <4>2 DEF EditsFit
      <4>3. CASE a \in asks /\ b \in asks
        BY <2>1, <3>1, <4>3 DEF OneEditEach
      <4> QED BY <4>1, <4>2, <4>3
    <3> QED BY <2>2, <3>1 DEF OneEditEach
  <2>4. \A a \in asks' : a.done => a \in asks
    BY <1>0
  <2>5. MakersAreTrue'
    <3>1. \A a \in asks' : a.what = "create" => a.obj.look.name = 1
      BY <1>0, <2>1 DEF MakersAreTrue
    <3>2. \A a \in asks' : Made(a) => \E p \in Roster!Id : a.got = Roster!One(p, New)
      BY <2>1, <2>4 DEF MakersAreTrue, Made
    <3>3. \A a, b \in asks' : Made(a) /\ Made(b) /\ DOMAIN a.got = DOMAIN b.got => a = b
      BY <2>1, <2>4 DEF MakersAreTrue, Made
    <3>4. \A a \in asks' : Made(a) /\ Names(a) => \A p \in DOMAIN a.got :
            p \in DOMAIN rows /\ rows[p] = New /\ \A b \in asks' : Alters(b) => b.obj.id # p
      <4>1. \A a \in asks' : Made(a) => a \in asks
        BY <2>4 DEF Made
      <4> QED BY <1>3, <2>1, <4>1 DEF MakersAreTrue, EditsFit
    <3> QED BY <2>2, <3>1, <3>2, <3>3, <3>4 DEF MakersAreTrue, Roster!server
  <2>6. EditsAreTrue'
    BY <2>1, <2>4 DEF EditsAreTrue, Roster!LookOf, Roster!server
  <2> QED BY <1>3, <2>3, <2>5, <2>6
<1>4. menu' \in [at : {"closed", "list", "profile"}, obj : Roster!Objects]
  BY DEF ClientTyped
<1>5. IconsCome'
  BY <1>0 DEF RosterInv, IconsCome
<1> QED BY <1>1, <1>2, <1>3, <1>4, <1>5 DEF RosterInv

LEMMA ObjectIs ==
    ASSUME NEW p \in Roster!Id, NEW look \in Roster!Look
    PROVE  Roster!Object(p, look) \in Roster!Objects /\ Roster!Object(p, look).id = p /\ Roster!Object(p, look).look = look
BY DEF Roster!Object, Roster!Objects

\* Requests that neither edit nor renew, with the server and what is shown of the active
\* profile as they were.
Reads == {"list", "history", "pull", "data"}

Quiet(a) == a.what \in Reads \/ (a.what = "patch" /\ a.done)

LEMMA FollowsStill ==
    ASSUME UNCHANGED <<rows, orphans, active, face>>, \A a \in asks : a \in asks' \/ Quiet(a),
           NEW N, \A n \in N : n.what # "patch", asks' \subseteq asks \cup N,
           ActiveFollows
    PROVE  ActiveFollows'
<1>2. Renewed => Renewed'
  BY DEF Renewed, Renews, Names, Reads, Quiet
<1>3. Roster!Listed' = Roster!Listed /\ Roster!LookOf(active)' = Roster!LookOf(active)
  BY DEF Roster!Listed, Roster!LookOf
<1>4. IconFollows => IconFollows'
  BY <1>3 DEF IconFollows, Reads, Quiet
<1>5. NameFollows => NameFollows'
  BY <1>3 DEF NameFollows, Reads, Quiet
<1> QED BY <1>2, <1>3, <1>4, <1>5 DEF ActiveFollows

LEMMA QuietRequests ==
    ASSUME NEW N, \A n \in N : n.what \in Reads \cup {"create"} /\ ~n.done,
           UNCHANGED <<rows, orphans, active, face>>,
           \A a \in asks : a \in asks' \/ Quiet(a), asks' \subseteq asks \cup N,
           ActiveFollows
    PROVE  EditsFit(N) /\ ActiveFollows'
<1>1. EditsFit(N) /\ \A n \in N : n.what # "patch"
  BY DEF EditsFit, Alters, Roster!Edits, Reads
<1>2. ActiveFollows'
  BY <1>1, FollowsStill
<1> QED BY <1>1, <1>2

LEMMA TypedNow == ASSUME RosterInv PROVE ClientTyped
BY DEF RosterInv, Roster!TypeOK, FreshIds, ClientTyped

LEMMA OldDefault == ASSUME RosterInv PROVE Old(Roster!Default) /\ Roster!Default \in Roster!Id /\ Roster!Plain \in Roster!Look
BY RosterAssumption DEF RosterInv, Roster!TypeOK, Old, Roster!Default, Roster!Id, Roster!Plain,
   Roster!Look

\* The viewer, but for edits and switches: one request at most.
LEMMA ViewerKeeps ==
    ASSUME RosterInv,
           \/ Roster!openSelector \/ Roster!Close \/ Roster!OpenHistory
           \/ \E p \in DOMAIN list : Roster!openProfileMenu(p)
           \/ \E icon \in 0..1 : Roster!CreateProfile(icon)
    PROVE  RosterInv'
<1>1. ClientTyped /\ Old(Roster!Default) /\ Roster!Default \in Roster!Id /\ Roster!Plain \in Roster!Look
  BY TypedNow, OldDefault
<1>2. \A N : (\A n \in N : n.what \in Reads \cup {"create"} /\ ~n.done)
              /\ UNCHANGED <<rows, orphans, active, face, crossed>> /\ asks' = asks \cup N
              => (~crossed' => EditsFit(N) /\ ActiveFollows')
  <2> SUFFICES ASSUME NEW N, \A n \in N : n.what \in Reads \cup {"create"} /\ ~n.done,
                      UNCHANGED <<rows, orphans, active, face, crossed>>, asks' = asks \cup N, ~crossed'
               PROVE  EditsFit(N) /\ ActiveFollows'
    OBVIOUS
  <2>1. ActiveFollows
    BY DEF RosterInv
  <2>2. (\A a \in asks : a \in asks' \/ Quiet(a)) /\ asks' \subseteq asks \cup N
    OBVIOUS
  <2>3. UNCHANGED <<rows, orphans, active, face>>
    OBVIOUS
  <2> QED BY <2>1, <2>2, <2>3, QuietRequests
<1>3. CASE Roster!openSelector
  <2>1. PICK n : n = Roster!Ask("list", menu.obj)
    OBVIOUS
  <2>2. n \in Roster!Asks /\ ~n.done /\ n.got = << >> /\ n.what = "list" /\ n.obj = menu.obj
    BY <1>1, <2>1, AskIs DEF ClientTyped, Roster!Kinds
  <2>3. asks' = asks \cup {n} /\ UNCHANGED <<rows, orphans, active, face, crossed>> /\ UNCHANGED Roster!server
    BY <1>3, <2>1 DEF Roster!openSelector, Roster!server
  <2>4. ClientTyped'
    BY <1>1, <1>3, RosterAssumption DEF ClientTyped, Roster!openSelector, Roster!Move, Old,
       Roster!server
  <2>5. Sendable({n})
    BY <1>1, <2>2 DEF Sendable, Sends, ClientTyped
  <2>6. ~crossed' => EditsFit({n}) /\ ActiveFollows'
    BY <1>2, <2>2, <2>3 DEF Reads
  <2> QED BY <2>3, <2>4, <2>5, <2>6, ClientSteps
<1>4. CASE Roster!Close
  <2>1. asks' = asks \cup {} /\ UNCHANGED <<rows, orphans, active, face, crossed>> /\ UNCHANGED Roster!server
    BY <1>4 DEF Roster!Close, Roster!server
  <2>2. PICK c : c = Roster!Closed
    OBVIOUS
  <2>6. c \in [at : {"closed", "list", "profile"}, obj : Roster!Objects] /\ c.obj.id = Roster!Default
    BY <1>1, <2>2, ObjectIs DEF Roster!Closed
  <2>7. menu' = c /\ loading' = FALSE /\ moves' \in 0..RosterMoves
        /\ UNCHANGED <<next, active, face, list, history, crossed>>
    BY <1>1, <1>4, <2>2, RosterAssumption DEF ClientTyped, Roster!Close, Roster!Move, Roster!server
  <2>3. ClientTyped'
    BY <1>1, <2>6, <2>7 DEF ClientTyped, Old
  <2>4. Sendable({})
    BY DEF Sendable, Sends
  <2>5. ~crossed' => EditsFit({}) /\ ActiveFollows'
    BY <1>2, <2>1
  <2> QED BY <2>1, <2>3, <2>4, <2>5, ClientSteps
<1>5. CASE Roster!OpenHistory
  <2>1. PICK n : n = Roster!Ask("history", Roster!Object(active, face))
    OBVIOUS
  <2>2. active \in Roster!Id /\ Old(active) /\ face \in Roster!Look
    BY <1>1, <1>5 DEF ClientTyped, Roster!OpenHistory
  <2>3. n \in Roster!Asks /\ ~n.done /\ n.got = << >> /\ n.what = "history" /\ n.obj.id = active
    BY <2>1, <2>2, AskIs, ObjectIs DEF Roster!Kinds
  <2>4. asks' = asks \cup {n} /\ UNCHANGED <<rows, orphans, active, face, crossed>> /\ UNCHANGED Roster!server
    BY <1>5, <2>1 DEF Roster!OpenHistory, Roster!server
  <2>5. ClientTyped'
    BY <1>1, <1>5, <2>2, RosterAssumption DEF ClientTyped, Roster!OpenHistory, Roster!Move, Old,
       Roster!server
  <2>6. Sendable({n})
    BY <2>2, <2>3 DEF Sendable, Sends
  <2>7. ~crossed' => EditsFit({n}) /\ ActiveFollows'
    <3>1. \A m \in {n} : m.what \in Reads \cup {"create"} /\ ~m.done
      BY <2>3 DEF Reads
    <3> QED BY <1>2, <2>4, <3>1
  <2> QED BY <2>4, <2>5, <2>6, <2>7, ClientSteps
<1>6. ASSUME NEW p \in DOMAIN list, Roster!openProfileMenu(p) PROVE RosterInv'
  <2>1. asks' = asks \cup {} /\ UNCHANGED <<rows, orphans, active, face, crossed>> /\ UNCHANGED Roster!server
    BY <1>6 DEF Roster!openProfileMenu, Roster!server
  <2>2. p \in Roster!Id /\ list[p] \in Roster!Look /\ Old(p)
    BY <1>1, ListsAre DEF ClientTyped
  <2>3. PICK o : o = Roster!Object(p, list[p])
    OBVIOUS
  <2>4. o \in Roster!Objects /\ o.id = p
    BY <2>2, <2>3, ObjectIs
  <2>5. menu' = [at |-> "profile", obj |-> o]
    BY <1>6, <2>3 DEF Roster!openProfileMenu
  <2>6. ClientTyped'
    BY <1>1, <1>6, <2>2, <2>4, <2>5 DEF ClientTyped, Roster!openProfileMenu, Old, Roster!server
  <2>7. Sendable({})
    BY DEF Sendable, Sends
  <2>8. ~crossed' => EditsFit({}) /\ ActiveFollows'
    BY <1>2, <2>1
  <2> QED BY <2>1, <2>6, <2>7, <2>8, ClientSteps
<1>7. ASSUME NEW icon \in 0..1, Roster!CreateProfile(icon) PROVE RosterInv'
  <2>1. PICK look : look = [name |-> 1, icon |-> icon]
    OBVIOUS
  <2>2. look \in Roster!Look /\ look.name = 1
    BY <2>1 DEF Roster!Look
  <2>3. PICK n : n = Roster!Ask("create", Roster!Object(Roster!Default, look))
    OBVIOUS
  <2>4. /\ n \in Roster!Asks /\ ~n.done /\ n.got = << >> /\ n.what = "create"
        /\ n.obj.id = Roster!Default /\ n.obj.look = look
    BY <1>1, <2>2, <2>3, AskIs, ObjectIs DEF Roster!Kinds
  <2>5. asks' = asks \cup {n} /\ UNCHANGED <<rows, orphans, active, face, crossed>> /\ UNCHANGED Roster!server
    BY <1>7, <2>1, <2>3 DEF Roster!CreateProfile, Roster!server
  <2>6. Roster!Closed \in [at : {"closed", "list", "profile"}, obj : Roster!Objects] /\ Roster!Closed.obj.id = Roster!Default
    BY <1>1, ObjectIs DEF Roster!Closed
  <2>7. ClientTyped'
    BY <1>1, <1>7, <2>6, RosterAssumption DEF ClientTyped, Roster!CreateProfile, Roster!Move, Old,
       Roster!server
  <2>8. Sendable({n})
    BY <1>1, <2>2, <2>4 DEF Sendable, Sends
  <2>9. ~crossed' => EditsFit({n}) /\ ActiveFollows'
    BY <1>2, <2>4, <2>5
  <2> QED BY <2>5, <2>7, <2>8, <2>9, ClientSteps
<1> QED BY <1>3, <1>4, <1>5, <1>6, <1>7

\* The viewer's edits: one for a profile at a time.
LEMMA EditKeeps == ASSUME RosterInv, NEW what \in Roster!Edits, Roster!Edit(what) PROVE RosterInv'
<1>1. ClientTyped /\ Old(Roster!Default) /\ Roster!Default \in Roster!Id /\ Roster!Plain \in Roster!Look
  BY TypedNow, OldDefault
<1>2. PICK n : n = Roster!Ask(what, menu.obj)
  OBVIOUS
<1>3. n \in Roster!Asks /\ ~n.done /\ n.got = << >> /\ n.what = what /\ n.obj = menu.obj /\ what # "create" /\ what # "patch"
  BY <1>1, <1>2, AskIs DEF ClientTyped, Roster!Kinds, Roster!Edits
<1>4. /\ asks' = asks \cup {n} /\ UNCHANGED <<rows, orphans, active, face>> /\ UNCHANGED Roster!server
      /\ menu.obj.id \notin Roster!Edited
      /\ (crossed => crossed')
      /\ (~crossed' => ~crossed /\ \A a \in asks : ~(a.what = "rename" /\ a.obj.id = Roster!Default))
  BY <1>2 DEF Roster!Edit, Roster!server
<1>5. ClientTyped'
  <2>1. PICK c : c = Roster!Closed
    OBVIOUS
  <2>2. c \in [at : {"closed", "list", "profile"}, obj : Roster!Objects] /\ c.obj.id = Roster!Default
    BY <1>1, <2>1, ObjectIs DEF Roster!Closed
  <2>3. menu' = c /\ moves' \in 0..RosterMoves /\ UNCHANGED <<next, active, face, list, loading, history>>
    BY <1>1, <2>1, RosterAssumption DEF ClientTyped, Roster!Edit, Roster!Move, Roster!server
  <2>4. crossed' \in BOOLEAN
    BY DEF Roster!Edit
  <2> QED BY <1>1, <2>2, <2>3, <2>4 DEF ClientTyped, Old
<1>6. Sendable({n})
  BY <1>1, <1>3 DEF Sendable, Sends, ClientTyped
<1>7. ASSUME ~crossed' PROVE EditsFit({n}) /\ ActiveFollows'
  <2>1. ~crossed /\ ActiveFollows /\ \A a \in asks : ~Names(a)
    BY <1>4, <1>7 DEF RosterInv, Names
  <2>2. \A a \in asks : ~(Alters(a) /\ a.obj.id = n.obj.id)
    BY <1>3, <1>4 DEF Roster!Edited, Alters
  <2>3. EditsFit({n})
    BY <2>1, <2>2 DEF EditsFit
  <2>4. \A m \in {n} : m.what # "patch"
    BY <1>3
  <2>5. (\A a \in asks : a \in asks' \/ Quiet(a)) /\ asks' \subseteq asks \cup {n}
    BY <1>4
  <2> QED BY <1>4, <2>1, <2>3, <2>4, <2>5, FollowsStill
<1> QED BY <1>4, <1>5, <1>6, <1>7, ClientSteps

\* A switch to a profile whose answer is not outdated: nothing follows it but, for a new
\* profile, its icon, which is sent after it.
LEMMA SwitchKeeps ==
    ASSUME RosterInv, NEW obj \in Roster!Objects, NEW heard \in Roster!Objects, heard.id = obj.id, Old(obj.id),
           NEW others, NEW P, P \subseteq Roster!Asks, others \subseteq asks \cup P,
           \A n \in P : n.what = "patch" /\ n.obj = heard /\ ~n.done /\ n.got = << >>,
           \A m, n \in P : m = n,
           Roster!Switch(obj, heard, others), UNCHANGED Roster!server,
           menu' \in [at : {"closed", "list", "profile"}, obj : Roster!Objects], Old(menu'.obj.id),
           UNCHANGED <<list, loading, history>>, moves' \in 0..RosterMoves,
           ~crossed => /\ obj.look.name = heard.look.name
                       /\ IF P = {} THEN obj.look = heard.look
                          ELSE obj.look.icon = 1 - heard.look.icon /\ P \subseteq others,
           ~crossed /\ P # {} => \A b \in asks : Made(b) /\ Names(b) => obj.id \notin DOMAIN b.got
    PROVE  RosterInv'
<1>1. PICK p : p = Roster!Ask("pull", obj)
  OBVIOUS
<1>2. PICK d : d = Roster!Ask("data", obj)
  OBVIOUS
<1>3. /\ p \in Roster!Asks /\ ~p.done /\ p.got = << >> /\ p.what = "pull" /\ p.obj = obj
      /\ d \in Roster!Asks /\ ~d.done /\ d.got = << >> /\ d.what = "data" /\ d.obj = obj
  BY <1>1, <1>2, AskIs DEF Roster!Kinds
<1>4. PICK N : N = P \cup {p, d}
  OBVIOUS
<1>5. /\ asks' = others \cup {p, d} /\ asks' \subseteq asks \cup N
      /\ active' = obj.id /\ face' = obj.look
      /\ (crossed => crossed') /\ (~crossed' => ~crossed /\ ~Roster!Outdated(heard))
  BY <1>1, <1>2, <1>4 DEF Roster!Switch
<1>6. obj.id \in Roster!Id /\ obj.look \in Roster!Look /\ heard.look \in Roster!Look /\ obj.id # Nobody
  BY RosterAssumption DEF Roster!Objects, Roster!Id, Roster!Default
<1>7. ClientTyped'
  <2>1. ClientTyped
    BY TypedNow
  <2>2. Old(active)' /\ Old(menu.obj.id)' /\ \A q \in DOMAIN list' : Old(q)'
    BY <1>5, <2>1 DEF Old, Roster!server, ClientTyped
  <2>3. crossed' \in BOOLEAN
    BY DEF Roster!Switch
  <2> QED BY <1>5, <1>6, <2>1, <2>2, <2>3 DEF ClientTyped
<1>8. Sendable(N)
  <2>1. ASSUME NEW n \in N PROVE Sends(n)
    BY <1>3, <1>4 DEF Sends
  <2> QED BY <2>1 DEF Sendable
<1>9. ASSUME ~crossed' PROVE EditsFit(N) /\ ActiveFollows'
  <2>1. /\ ~crossed /\ obj.id \in Roster!Listed /\ heard.look = Roster!LookOf(obj.id)
        /\ \A a \in asks : ~(a.what \in {"icon", "rename", "patch"} /\ a.obj.id = obj.id)
    BY <1>5, <1>9 DEF Roster!Outdated
  <2>2. \A n \in N : Alters(n) => n \in P /\ n.obj.id = obj.id /\ n.what = "patch"
    BY <1>3, <1>4 DEF Alters, Roster!Edits
  <2>3. EditsFit(N)
    <3> SUFFICES ASSUME NEW n \in N, Alters(n)
                 PROVE  /\ \A a \in (asks \cup N) \ {n} : Alters(a) /\ a.obj.id = n.obj.id =>
                              {a.what, n.what} = {"delete", "patch"}
                        /\ \A b \in asks : Made(b) /\ Names(b) => n.obj.id \notin DOMAIN b.got
      BY DEF EditsFit
    <3>1. n \in P /\ n.obj.id = obj.id /\ n.what = "patch" /\ P # {}
      BY <2>2
    <3>2. ASSUME NEW a \in (asks \cup N) \ {n}, Alters(a), a.obj.id = n.obj.id PROVE a.what = "delete"
      <4>1. a \notin N
        BY <2>2, <3>1, <3>2
      <4> QED BY <2>1, <3>1, <3>2, <4>1 DEF Alters, Roster!Edits
    <3>3. \A b \in asks : Made(b) /\ Names(b) => n.obj.id \notin DOMAIN b.got
      BY <2>1, <3>1
    <3> QED BY <3>1, <3>2, <3>3
  <2>4. Roster!Listed' = Roster!Listed /\ Roster!LookOf(obj.id)' = Roster!LookOf(obj.id)
    BY DEF Roster!Listed, Roster!LookOf, Roster!server
  <2>5. (Roster!LookOf(active))' = heard.look
    BY <1>5, <2>1, <2>4 DEF Roster!LookOf
  <2>6. NameFollows'
    BY <1>5, <2>1, <2>5 DEF NameFollows
  <2>7. \A a \in asks' : a.what = "patch" /\ ~a.done /\ a.obj.id = obj.id => a \in P
    BY <1>4, <1>5, <2>1, <1>3
  <2>8. IconFollows'
    <3>1. CASE P = {}
      BY <1>5, <2>1, <2>5, <2>7, <3>1 DEF IconFollows
    <3>2. CASE P # {}
      <4>1. PICK n : n \in P
        BY <3>2
      <4>2. n \in asks' /\ n.what = "patch" /\ ~n.done /\ n.obj.id = obj.id /\ face'.icon = 1 - n.obj.look.icon
        BY <1>5, <2>1, <3>2, <4>1
      <4>3. \A a \in asks' : a.what = "patch" /\ ~a.done /\ a.obj.id = obj.id => a = n
        BY <2>7, <4>1
      <4> QED BY <1>5, <4>2, <4>3 DEF IconFollows
    <3> QED BY <3>1, <3>2
  <2>9. ActiveFollows'
    BY <1>5, <1>6, <2>1, <2>4, <2>6, <2>8 DEF ActiveFollows
  <2> QED BY <2>3, <2>9
<1> QED BY <1>5, <1>7, <1>8, <1>9, ClientSteps

LEMMA ChooseKeeps == ASSUME RosterInv, Roster!ChooseProfile PROVE RosterInv'
<1>1. ClientTyped /\ Old(Roster!Default) /\ Roster!Default \in Roster!Id /\ Roster!Plain \in Roster!Look
  BY TypedNow, OldDefault
<1>2. PICK c : c = Roster!Closed
  OBVIOUS
<1>3. c \in [at : {"closed", "list", "profile"}, obj : Roster!Objects] /\ c.obj.id = Roster!Default
  BY <1>1, <1>2, ObjectIs DEF Roster!Closed
<1>4. PICK o \in Roster!Objects : o = menu.obj
  BY <1>1 DEF ClientTyped
<1>5. /\ menu' = c /\ Roster!Switch(o, o, asks) /\ UNCHANGED Roster!server /\ UNCHANGED <<list, loading, history>>
      /\ moves' \in 0..RosterMoves
  BY <1>1, <1>2, <1>4, RosterAssumption DEF ClientTyped, Roster!ChooseProfile, Roster!Move
<1>6. Old(o.id) /\ Old(menu'.obj.id)
  BY <1>1, <1>3, <1>4, <1>5 DEF ClientTyped
<1>7. {} \subseteq Roster!Asks /\ asks \subseteq asks \cup {}
      /\ \A n \in {} : n.what = "patch" /\ n.obj = o /\ ~n.done /\ n.got = << >>
  OBVIOUS
<1>8. \A m, n \in {} : m = n
  OBVIOUS
<1> QED BY <1>3, <1>5, <1>6, <1>7, <1>8, SwitchKeeps

\* A request that failed, or that was refused.
LEMMA FailKeeps == ASSUME RosterInv, NEW a \in asks, Roster!Fail(a) \/ Roster!Refuse(a) PROVE RosterInv'
<1>1. ClientTyped
  BY TypedNow
<1>2. asks' = asks \ {a} /\ asks' \subseteq asks \cup {} /\ UNCHANGED Roster!server /\ UNCHANGED <<rows, orphans, active, face>>
  BY DEF Roster!Fail, Roster!Refuse, Roster!server
<1>3. UNCHANGED <<menu, list, history>> /\ moves' \in 0..RosterMoves /\ loading' \in BOOLEAN /\ crossed' \in BOOLEAN
  <2>1. CASE Roster!Fail(a)
    BY <1>1, <2>1, RosterAssumption DEF ClientTyped, Roster!Fail, Roster!Move
  <2>2. CASE Roster!Refuse(a)
    BY <1>1, <2>2 DEF ClientTyped, Roster!Refuse
  <2> QED BY <2>1, <2>2
<1>4. ClientTyped'
  BY <1>1, <1>2, <1>3 DEF ClientTyped, Old, Roster!server
<1>5. Sendable({})
  BY DEF Sendable
<1>6. (crossed => crossed') /\ (~crossed' => ~crossed /\ Roster!Refuse(a))
  BY DEF Roster!Fail, Roster!Refuse
<1>7. ASSUME ~crossed' PROVE EditsFit({}) /\ ActiveFollows'
  <2>1. ActiveFollows /\ ~a.done /\ (a.what = "create" \/ a.what = "rename")
    BY <1>6, <1>7 DEF RosterInv, Roster!Refuse
  <2>2. Renewed => Renewed'
    BY <1>2, <2>1 DEF Renewed, Renews, Names
  <2>3. Roster!Listed' = Roster!Listed /\ Roster!LookOf(active)' = Roster!LookOf(active)
    BY <1>2 DEF Roster!Listed, Roster!LookOf
  <2>4. IconFollows => IconFollows'
    BY <1>2, <2>1, <2>3 DEF IconFollows
  <2>5. NameFollows => NameFollows'
    BY <1>2, <2>1, <2>3 DEF NameFollows
  <2>6. EditsFit({})
    BY DEF EditsFit
  <2> QED BY <1>2, <2>1, <2>2, <2>3, <2>4, <2>5, <2>6 DEF ActiveFollows
<1> QED BY <1>2, <1>4, <1>5, <1>6, <1>7, ClientSteps

-----------------------------------------------------------------------------
(* The server: a request is served *)

Shown == <<active, face, menu, list, loading, history, moves>>

\* What holds of a request that is served, whatever its kind.
LEMMA ServeKeeps ==
    ASSUME RosterInv, NEW a \in asks, ~a.done, NEW got \in Roster!Lists, NEW b,
           b = [a EXCEPT !.done = TRUE, !.got = got], asks' = (asks \ {a}) \cup {b},
           rows' \in Roster!Lists, orphans' \in BOOLEAN, next' \in 1..(LastId + 1), next <= next',
           \A p \in DOMAIN rows' : p < next', \A p \in DOMAIN got : p < next',
           a.what = "icon" => a.obj.id \in DOMAIN got,
           UNCHANGED Shown, crossed' \in BOOLEAN, crossed => crossed',
           ~crossed' => MakersAreTrue' /\ EditsAreTrue' /\ ActiveFollows'
    PROVE  RosterInv'
<1>1. a \in Roster!Asks /\ b \in Roster!Asks /\ b.what = a.what /\ b.obj = a.obj /\ b.done /\ b.got = got
  BY DEF RosterInv, Roster!TypeOK, Roster!Asks
<1>2. Roster!TypeOK' /\ menu' \in [at : {"closed", "list", "profile"}, obj : Roster!Objects]
  BY <1>1 DEF RosterInv, Roster!TypeOK, Shown
<1>3. FreshIds'
  <2>1. \A p \in Roster!Id : Old(p) => Old(p)'
    BY RosterAssumption DEF Old, RosterInv, Roster!TypeOK, Roster!Id, Roster!Default
  <2>2. \A x \in asks : x.obj.id \in Roster!Id /\ DOMAIN x.got \subseteq Roster!Id
    BY ListsAre DEF RosterInv, Roster!TypeOK, Roster!Asks, Roster!Objects
  <2>3. menu.obj.id \in Roster!Id /\ DOMAIN list \subseteq Roster!Id /\ (active # Nobody => active \in Roster!Id)
    BY ListsAre DEF RosterInv, Roster!TypeOK, Roster!Objects
  <2>4. \A p \in DOMAIN rows' : Old(p)'
    BY DEF Old
  <2>5. \A p \in DOMAIN list' : Old(p)'
    BY <2>1, <2>3 DEF Shown, RosterInv, FreshIds
  <2>6. Old(menu.obj.id)' /\ (active' # Nobody => Old(active)')
    <3>1. menu.obj.id < next' /\ (active # Nobody => active < next')
      BY <2>1, <2>3 DEF RosterInv, FreshIds, Old
    <3> QED BY <3>1 DEF Shown, Old
  <2>7. ASSUME NEW x \in asks' PROVE x.obj.id < next' /\ \A p \in DOMAIN x.got : p < next'
    <3>1. CASE x = b
      BY <1>1, <2>1, <2>2, <3>1 DEF RosterInv, FreshIds, Old
    <3>2. CASE x \in asks
      BY <2>1, <2>2, <3>2 DEF RosterInv, FreshIds, Old
    <3> QED BY <2>7, <3>1, <3>2
  <2> QED BY <2>4, <2>5, <2>6, <2>7 DEF FreshIds, Old
<1>4. IconsCome'
  BY <1>1 DEF RosterInv, IconsCome
<1>5. ASSUME ~crossed' PROVE OneEditEach'
  <2>1. OneEditEach
    BY <1>5 DEF RosterInv
  <2>2. \A x \in asks' : \E y \in asks : y.what = x.what /\ y.obj = x.obj /\ (x # b => y = x) /\ (x = b => y = a)
    BY <1>1
  <2>3. ASSUME NEW x \in asks', NEW y \in asks', Alters(x), Alters(y), x.obj.id = y.obj.id, x # y
        PROVE  {x.what, y.what} = {"delete", "patch"}
    <3>1. PICK u \in asks : u.what = x.what /\ u.obj = x.obj /\ (x # b => u = x) /\ (x = b => u = a)
      BY <2>2
    <3>2. PICK v \in asks : v.what = y.what /\ v.obj = y.obj /\ (y # b => v = y) /\ (y = b => v = a)
      BY <2>2
    <3>3. CASE u = v
      <4>1. (x = b /\ y = a) \/ (x = a /\ y = b)
        BY <2>3, <3>1, <3>2, <3>3
      <4> QED BY <1>1, <4>1
    <3>4. CASE u # v
      BY <2>1, <2>3, <3>1, <3>2, <3>4 DEF OneEditEach, Alters
    <3> QED BY <3>3, <3>4
  <2> QED BY <2>3 DEF OneEditEach, Alters
<1> QED BY <1>2, <1>3, <1>4, <1>5 DEF RosterInv

\* Served without a change: an answer, and what is known stays known.
LEMMA ReadServed ==
    ASSUME RosterInv, NEW a \in asks, Roster!Serve(a), a.what \in Reads \cup {"rest"}
    PROVE  RosterInv'
<1>1. PICK got : got = (IF a.what \in {"list", "rest"} THEN Roster!AsListed ELSE << >>)
  OBVIOUS
<1>2. PICK b : b = [a EXCEPT !.done = TRUE, !.got = got]
  OBVIOUS
<1>3. /\ ~a.done /\ asks' = (asks \ {a}) \cup {b} /\ UNCHANGED Roster!server /\ UNCHANGED Shown
      /\ (crossed' <=> crossed) /\ crossed' \in BOOLEAN
  BY <1>1, <1>2 DEF Roster!Serve, Roster!Serves, Reads, Shown, Roster!server, RosterInv, Roster!TypeOK
<1>4. a \in Roster!Asks /\ b.what = a.what /\ b.obj = a.obj /\ b.done /\ b.got = got
  BY <1>2 DEF RosterInv, Roster!TypeOK, Roster!Asks
<1>5. got \in Roster!Lists /\ DOMAIN got \subseteq Roster!Listed /\ Roster!Listed \subseteq Roster!Id
  BY <1>1, ListedIsList, NoneListed DEF RosterInv, Roster!TypeOK
<1>6. \A p \in Roster!Listed : Old(p)
  BY OldDefault DEF Roster!Listed, RosterInv, FreshIds
<1>7. /\ rows' \in Roster!Lists /\ orphans' \in BOOLEAN /\ next' \in 1..(LastId + 1) /\ next <= next'
      /\ \A p \in DOMAIN rows' : p < next'
      /\ \A p \in DOMAIN got : p < next'
  BY <1>3, <1>5, <1>6, RosterAssumption DEF Roster!server, RosterInv, Roster!TypeOK, FreshIds, Old
<1>8. ASSUME ~crossed' PROVE MakersAreTrue' /\ EditsAreTrue' /\ ActiveFollows'
  <2>1. MakersAreTrue /\ EditsAreTrue /\ ActiveFollows
    BY <1>3, <1>8 DEF RosterInv
  <2>2. a.what \notin {"create", "icon", "rename", "delete", "patch"}
    BY DEF Reads
  <2>3. \A x \in asks' : x \in asks \/ x = b
    BY <1>3
  <2>4. MakersAreTrue'
    <3>1. \A x \in asks' : x.what = "create" => x.obj.look.name = 1
      BY <1>4, <2>1, <2>2, <2>3 DEF MakersAreTrue
    <3>2. \A x \in asks' : Made(x) => x \in asks
      BY <1>4, <2>2, <2>3 DEF Made, Names
    <3>3. \A x \in asks' : Made(x) => \E p \in Roster!Id : x.got = Roster!One(p, New)
      BY <2>1, <3>2 DEF MakersAreTrue
    <3>4. \A x, y \in asks' : Made(x) /\ Made(y) /\ DOMAIN x.got = DOMAIN y.got => x = y
      BY <2>1, <3>2 DEF MakersAreTrue
    <3>5. \A x \in asks' : Alters(x) => x \in asks
      BY <1>4, <2>2, <2>3 DEF Alters, Roster!Edits
    <3>6. \A x \in asks' : Made(x) /\ Names(x) => \A p \in DOMAIN x.got :
            p \in DOMAIN rows /\ rows[p] = New /\ \A y \in asks' : Alters(y) => y.obj.id # p
      BY <2>1, <3>2, <3>5 DEF MakersAreTrue
    <3> QED BY <1>3, <3>1, <3>3, <3>4, <3>6 DEF MakersAreTrue, Roster!server, Made, Names, Alters
  <2>5. EditsAreTrue'
    BY <1>3, <1>4, <2>1, <2>2, <2>3 DEF EditsAreTrue, Roster!LookOf, Roster!server
  <2>6. Renewed => Renewed'
    BY <1>3, <1>4, <2>2 DEF Renewed, Renews, Names, Shown
  <2>7. Roster!Listed' = Roster!Listed /\ Roster!LookOf(active)' = Roster!LookOf(active)
    BY <1>3 DEF Roster!Listed, Roster!LookOf, Roster!server, Shown
  <2>8. IconFollows => IconFollows'
    BY <1>3, <1>4, <2>2, <2>7 DEF IconFollows, Shown
  <2>9. NameFollows => NameFollows'
    BY <1>3, <1>4, <2>2, <2>7 DEF NameFollows, Shown
  <2> QED BY <1>3, <2>1, <2>4, <2>5, <2>6, <2>7, <2>8, <2>9 DEF ActiveFollows, Shown
<1>9. a.what # "icon"
  BY DEF Reads
<1> QED BY <1>2, <1>3, <1>5, <1>7, <1>8, <1>9, ServeKeeps

\* A profile is made, for a request or of the nameless one.
LEMMA MakingServed ==
    ASSUME RosterInv, NEW a \in asks, Roster!Serve(a), a.what = "create" \/ Names(a)
    PROVE  RosterInv'
<1>1. PICK n : n = next
  OBVIOUS
<1>2. n \in Roster!Id /\ n \in 1..LastId /\ New \in Roster!Look /\ a \in Roster!Asks /\ next \in 1..(LastId + 1) /\ n # Roster!Default
  BY <1>1, RosterAssumption DEF Roster!Serve, Roster!Create, Names, Roster!Id, Roster!Default, New,
     Roster!Look, RosterInv, Roster!TypeOK
<1>3. PICK got : got = Roster!One(n, New)
  OBVIOUS
<1>4. PICK b : b = [a EXCEPT !.done = TRUE, !.got = got]
  OBVIOUS
<1>5. /\ ~a.done /\ asks' = (asks \ {a}) \cup {b} /\ UNCHANGED Shown /\ rows' = Roster!Put(rows, n, New)
      /\ orphans' = FALSE /\ next' = n + 1
  BY <1>1, <1>3, <1>4 DEF Roster!Serve, Roster!Serves, Roster!Create, Names, New, Roster!Edits, Shown
<1>6. crossed' \in BOOLEAN /\ (crossed => crossed')
      /\ (~crossed' => ~crossed /\ (a.what = "rename" => Roster!Default \in Roster!Listed))
  BY DEF Roster!Serve, Names, RosterInv, Roster!TypeOK
<1>7. b.what = a.what /\ b.obj = a.obj /\ b.done /\ b.got = got
  BY <1>2, <1>4 DEF Roster!Asks
<1>8. /\ rows' \in Roster!Lists /\ DOMAIN rows' = DOMAIN rows \cup {n} /\ rows'[n] = New
      /\ \A q \in DOMAIN rows : q # n => rows'[q] = rows[q]
      /\ got \in Roster!Lists /\ DOMAIN got = {n}
  <2>1. rows \in Roster!Lists
    BY DEF RosterInv, Roster!TypeOK
  <2>2. PICK g : g = rows'
    OBVIOUS
  <2>3. /\ g \in Roster!Lists /\ DOMAIN g = DOMAIN rows \cup {n} /\ g[n] = New
        /\ \A q \in DOMAIN rows : q # n => g[q] = rows[q]
    <3>1. PICK look \in Roster!Look : look = New
      BY <1>2
    <3>2. g = Roster!Put(rows, n, look)
      BY <1>5, <2>2, <3>1
    <3>3. /\ g \in Roster!Lists /\ DOMAIN g = DOMAIN rows \cup {n} /\ g[n] = look
          /\ \A q \in DOMAIN rows : q # n => g[q] = rows[q]
      BY <1>2, <2>1, <3>2, PutIs
    <3> QED BY <3>1, <3>3
  <2>4. got \in Roster!Lists /\ DOMAIN got = {n}
    BY <1>2, <1>3, OneIs
  <2> QED BY <2>2, <2>3, <2>4
<1>9. n \notin DOMAIN rows /\ (\A q \in DOMAIN rows : q < n) /\ (\A x \in asks : x.obj.id # n /\ n \notin DOMAIN x.got)
      /\ active # n
  BY <1>1, <1>2, RosterAssumption DEF RosterInv, FreshIds, Old, Roster!Id
<1>10. /\ next' \in 1..(LastId + 1) /\ next <= next'
       /\ \A p \in DOMAIN rows' : p < next'
       /\ \A p \in DOMAIN got : p < next'
  <2>1. \A q \in DOMAIN rows : q \in Roster!Id
    BY ListsAre DEF RosterInv, Roster!TypeOK
  <2> QED BY <1>1, <1>2, <1>5, <1>8, <1>9, <2>1, RosterAssumption DEF Roster!Id, Roster!Default
<1>11. a.what # "icon" /\ a.what # "patch" /\ a.what # "delete" /\ a.what # "rest"
  BY DEF Names
<1>12. ASSUME ~crossed' PROVE MakersAreTrue' /\ EditsAreTrue' /\ ActiveFollows'
  <2>1. MakersAreTrue /\ EditsAreTrue /\ ActiveFollows
    BY <1>6, <1>12 DEF RosterInv
  <2>3. \A x \in asks' : x \in asks \/ x = b
    BY <1>5
  <2>4. MakersAreTrue'
    <3>1. \A x \in asks' : x.what = "create" => x.obj.look.name = 1
      BY <1>7, <2>1, <2>3 DEF MakersAreTrue
    <3>3. \A x \in asks' : Made(x) => \E p \in Roster!Id : x.got = Roster!One(p, New)
      BY <1>2, <1>3, <1>7, <2>1, <2>3 DEF MakersAreTrue
    <3>4. \A x, y \in asks' : Made(x) /\ Made(y) /\ DOMAIN x.got = DOMAIN y.got => x = y
      BY <1>7, <1>8, <1>9, <2>1, <2>3 DEF MakersAreTrue
    <3>5. \A y \in asks' : y.obj.id # n
      BY <1>7, <1>9, <2>3
    <3>6. ASSUME NEW x \in asks', Made(x), Names(x), NEW p \in DOMAIN x.got
          PROVE  p \in DOMAIN rows' /\ rows'[p] = New /\ \A y \in asks' : Alters(y) => y.obj.id # p
      <4>1. CASE x = b
        <5>1. p = n
          BY <1>7, <1>8, <3>6, <4>1
        <5> QED BY <1>8, <3>5, <5>1
      <4>2. CASE x \in asks
        <5>1. p \in DOMAIN rows /\ rows[p] = New /\ \A y \in asks : Alters(y) => y.obj.id # p
          BY <2>1, <3>6, <4>2 DEF MakersAreTrue
        <5>2. p # n
          BY <1>9, <4>2, <3>6
        <5>3. \A y \in asks' : Alters(y) => y.obj.id # p
          BY <1>7, <2>3, <5>1 DEF Alters
        <5> QED BY <1>8, <5>1, <5>2, <5>3
      <4> QED BY <2>3, <4>1, <4>2
    <3> QED BY <3>1, <3>3, <3>4, <3>6 DEF MakersAreTrue, Made, Names, Alters
  <2>5. \A p \in Roster!Id : p # n => Roster!LookOf(p)' = Roster!LookOf(p)
    BY <1>8 DEF Roster!LookOf
  <2>6. EditsAreTrue'
    <3>1. ASSUME NEW x \in asks', x.done
          PROVE  /\ x.what = "icon" => x.got[x.obj.id].icon = Roster!LookOf(x.obj.id)'.icon
                 /\ x.what = "rename" /\ x.obj.id # Roster!Default =>
                      Roster!LookOf(x.obj.id)'.name = 1 /\ DOMAIN x.got = {x.obj.id}
      <4>1. CASE x = b
        BY <1>7, <1>11, <4>1 DEF Names
      <4>2. CASE x \in asks
        <5>1. x.obj.id \in Roster!Id /\ x.obj.id # n
          BY <1>9, <4>2 DEF RosterInv, Roster!TypeOK, Roster!Asks, Roster!Objects
        <5>2. Roster!LookOf(x.obj.id)' = Roster!LookOf(x.obj.id)
          BY <2>5, <5>1
        <5> QED BY <2>1, <3>1, <4>2, <5>2 DEF EditsAreTrue
      <4> QED BY <2>3, <4>1, <4>2
    <3> QED BY <3>1 DEF EditsAreTrue, Roster!LookOf
  <2>7. ActiveFollows'
    <3>1. CASE a.what = "create"
      BY <1>5, <1>7, <3>1 DEF ActiveFollows, Renewed, Renews
    <3>2. CASE active = Roster!Default /\ Names(a)
      <4>1. Renewed'
        BY <1>5, <1>7, <3>2 DEF Renewed, Renews, Names, Shown
      <4> QED BY <4>1 DEF ActiveFollows
    <3>3. CASE active # Roster!Default /\ Names(a)
      <4>1. Renewed => Renewed'
        BY <1>5, <1>7, <1>11, <3>3 DEF Renewed, Renews, Names, Shown
      <4>2. CASE active = Nobody
        <5>1. Roster!Default \in Roster!Listed
          BY <1>6, <1>12, <3>3 DEF Names
        <5> QED BY <2>1, <4>1, <4>2, <5>1 DEF ActiveFollows
      <4>3. CASE active # Nobody
        <5>1. active \in Roster!Id
          BY <4>3 DEF RosterInv, Roster!TypeOK
        <5>2. (Roster!LookOf(active))' = Roster!LookOf(active)
          BY <1>5, <1>8, <1>9 DEF Roster!LookOf, Shown
        <5>3. active \in Roster!Listed => active \in Roster!Listed'
          BY <1>8, <3>3 DEF Roster!Listed
        <5>4. IconFollows => IconFollows'
          BY <1>5, <1>7, <1>11, <5>2 DEF IconFollows, Shown
        <5>5. NameFollows => NameFollows'
          BY <1>5, <1>7, <5>2 DEF NameFollows, Shown
        <5> QED BY <1>5, <2>1, <4>1, <4>3, <5>3, <5>4, <5>5 DEF ActiveFollows, Shown
      <4> QED BY <4>2, <4>3
    <3> QED BY <3>1, <3>2, <3>3
  <2> QED BY <2>4, <2>6, <2>7
<1> QED BY <1>4, <1>5, <1>6, <1>8, <1>10, <1>11, <1>12, ServeKeeps

\* A profile's icon or name is changed.
LEMMA ChangeServed ==
    ASSUME RosterInv, NEW a \in asks, Roster!Serve(a), a.what \in {"icon", "rename", "patch"}, ~Names(a)
    PROVE  RosterInv'
<1>1. PICK p : p = a.obj.id
  OBVIOUS
<1>2. PICK look : look = Roster!Changed(a)
  OBVIOUS
<1>3. rows \in Roster!Lists /\ a \in Roster!Asks /\ p \in Roster!Id /\ a.obj.look.icon \in 0..1 /\ Roster!LookOf(p) \in Roster!Look
  BY <1>1, ListedIsList DEF RosterInv, Roster!TypeOK, Roster!Asks, Roster!Objects, Roster!Look
<1>4. /\ look \in Roster!Look
      /\ a.what = "rename" => look.name = 1 /\ look.icon = Roster!LookOf(p).icon
      /\ a.what # "rename" => look.icon = 1 - a.obj.look.icon /\ look.name = Roster!LookOf(p).name
  <2>1. CASE a.what = "rename"
    BY <1>1, <1>2, <1>3, <2>1 DEF Roster!Changed, Roster!Look
  <2>2. CASE a.what # "rename"
    <3>1. 1 - a.obj.look.icon \in 0..1
      BY <1>3
    <3> QED BY <1>1, <1>2, <1>3, <2>2, <3>1 DEF Roster!Changed, Roster!Look
  <2> QED BY <2>1, <2>2
<1>5. PICK got : got = Roster!One(p, look)
  OBVIOUS
<1>6. PICK b : b = [a EXCEPT !.done = TRUE, !.got = got]
  OBVIOUS
<1>7. /\ ~a.done /\ asks' = (asks \ {a}) \cup {b} /\ UNCHANGED Shown /\ rows' = Roster!Put(rows, p, look)
      /\ UNCHANGED <<orphans, next>>
  BY <1>1, <1>2, <1>5, <1>6 DEF Roster!Serve, Roster!Serves, Names, Shown
<1>8. crossed' \in BOOLEAN /\ (crossed => crossed') /\ (~crossed' => ~crossed /\ p \in Roster!Listed)
  BY <1>1 DEF Roster!Serve, RosterInv, Roster!TypeOK
<1>9. b.what = a.what /\ b.obj = a.obj /\ b.done /\ b.got = got
  BY <1>3, <1>6 DEF Roster!Asks
<1>10. /\ rows' \in Roster!Lists /\ DOMAIN rows' = DOMAIN rows \cup {p} /\ rows'[p] = look
       /\ \A q \in DOMAIN rows : q # p => rows'[q] = rows[q]
       /\ got \in Roster!Lists /\ DOMAIN got = {p} /\ got[p] = look
  <2>2. PICK g : g = rows'
    OBVIOUS
  <2>3. /\ g \in Roster!Lists /\ DOMAIN g = DOMAIN rows \cup {p} /\ g[p] = look
        /\ \A q \in DOMAIN rows : q # p => g[q] = rows[q]
    <3>1. g = Roster!Put(rows, p, look)
      BY <1>7, <2>2
    <3>2. PICK f \in Roster!Lists : f = rows
      BY <1>3
    <3>3. look \in Roster!Look
      BY <1>4
    <3>4. p \in Roster!Id
      BY <1>3
    <3>5. g = Roster!Put(f, p, look)
      BY <3>1, <3>2
    <3>6. DOMAIN f \in SUBSET Roster!Id /\ \A q \in DOMAIN f : f[q] \in Roster!Look
      BY ListsAre
    <3>7. DOMAIN g = DOMAIN f \cup {p} /\ g[p] = look /\ (\A q \in DOMAIN f : q # p => g[q] = f[q])
          /\ g \in [DOMAIN g -> Roster!Look]
      BY <3>3, <3>5, <3>6 DEF Roster!Put
    <3>8. g \in Roster!Lists
      BY <3>4, <3>6, <3>7, ListsAre
    <3> QED BY <3>2, <3>7, <3>8
  <2>4. got \in Roster!Lists /\ DOMAIN got = {p} /\ got[p] = look
    BY <1>3, <1>4, <1>5, OneIs
  <2> QED BY <2>2, <2>3, <2>4
<1>11. /\ orphans' \in BOOLEAN /\ next' \in 1..(LastId + 1) /\ next <= next'
       /\ \A q \in DOMAIN rows' : q < next'
       /\ \A q \in DOMAIN got : q < next'
  BY <1>1, <1>7, <1>10, RosterAssumption DEF RosterInv, Roster!TypeOK, FreshIds, Old
<1>12. ASSUME ~crossed' PROVE MakersAreTrue' /\ EditsAreTrue' /\ ActiveFollows'
  <2>1. MakersAreTrue /\ EditsAreTrue /\ ActiveFollows /\ OneEditEach /\ p \in Roster!Listed
    BY <1>8, <1>12 DEF RosterInv
  <2>2. \A x \in asks' : x \in asks \/ x = b
    BY <1>7
  <2>3. Alters(a) /\ Alters(b) /\ ~Made(b) /\ ~Names(b) /\ \A x : Renews(x) => x # b /\ x # a
    BY <1>7, <1>9 DEF Alters, Roster!Edits, Made, Names, Renews
  <2>4. MakersAreTrue'
    <3>1. \A x \in asks' : x.what = "create" => x.obj.look.name = 1
      BY <1>9, <2>1, <2>2 DEF MakersAreTrue
    <3>2. \A x \in asks' : Made(x) => x \in asks
      BY <2>2, <2>3
    <3>3. \A x \in asks' : Made(x) => \E q \in Roster!Id : x.got = Roster!One(q, New)
      BY <2>1, <3>2 DEF MakersAreTrue
    <3>4. \A x, y \in asks' : Made(x) /\ Made(y) /\ DOMAIN x.got = DOMAIN y.got => x = y
      BY <2>1, <3>2 DEF MakersAreTrue
    <3>5. ASSUME NEW x \in asks', Made(x), Names(x), NEW q \in DOMAIN x.got
          PROVE  q \in DOMAIN rows' /\ rows'[q] = New /\ \A y \in asks' : Alters(y) => y.obj.id # q
      <4>1. q \in DOMAIN rows /\ rows[q] = New /\ \A y \in asks : Alters(y) => y.obj.id # q
        BY <2>1, <3>2, <3>5 DEF MakersAreTrue
      <4>2. p # q
        BY <1>1, <2>3, <4>1
      <4>3. \A y \in asks' : Alters(y) => y.obj.id # q
        BY <1>1, <1>9, <2>2, <4>1, <4>2
      <4> QED BY <1>10, <4>1, <4>2, <4>3
    <3> QED BY <3>1, <3>3, <3>4, <3>5 DEF MakersAreTrue, Made, Names, Alters
  <2>5. (\A q \in Roster!Id : q # p => Roster!LookOf(q)' = Roster!LookOf(q)) /\ Roster!LookOf(p)' = look
    BY <1>10 DEF Roster!LookOf
  <2>6. EditsAreTrue'
    <3>1. ASSUME NEW x \in asks', x.done
          PROVE  /\ x.what = "icon" => x.got[x.obj.id].icon = Roster!LookOf(x.obj.id)'.icon
                 /\ x.what = "rename" /\ x.obj.id # Roster!Default =>
                      Roster!LookOf(x.obj.id)'.name = 1 /\ DOMAIN x.got = {x.obj.id}
      <4>1. CASE x = b
        BY <1>1, <1>4, <1>9, <1>10, <2>5, <4>1
      <4>2. CASE x \in asks
        <5>1. x.obj.id \in Roster!Id /\ x # a
          BY <1>7, <3>1, <4>2 DEF RosterInv, Roster!TypeOK, Roster!Asks, Roster!Objects
        <5>2. x.what \in {"icon", "rename"} => x.obj.id # p
          BY <1>1, <2>1, <2>3, <4>2, <5>1 DEF OneEditEach, Alters, Roster!Edits
        <5> QED BY <2>1, <2>5, <3>1, <4>2, <5>1, <5>2 DEF EditsAreTrue
      <4> QED BY <2>2, <4>1, <4>2
    <3> QED BY <3>1 DEF EditsAreTrue, Roster!LookOf
  <2>7. ActiveFollows'
    <3> SUFFICES ASSUME ~Renewed' PROVE IF active = Nobody THEN Roster!Listed' = {} ELSE active \in Roster!Listed' /\ IconFollows' /\ NameFollows'
      BY <1>7 DEF ActiveFollows, Shown
    <3>1. ~Renewed
      BY <1>7, <2>3 DEF Renewed, Renews, Names, Shown
    <3>2. active # Nobody /\ active \in Roster!Listed /\ IconFollows /\ NameFollows /\ active \in Roster!Id
      BY <2>1, <3>1 DEF ActiveFollows, RosterInv, Roster!TypeOK
    <3>3. active \in Roster!Listed'
      BY <1>7, <1>10, <3>2 DEF Roster!Listed
    <3>4. active' = active /\ face' = face
      BY <1>7 DEF Shown
    <3>5. \A x \in asks' : ~x.done => x \in asks
      BY <1>9, <2>2
    <3>6. \A x \in asks : x.done => x \in asks'
      BY <1>7
    <3>7. CASE active # p
      <4>1. PICK c \in Roster!Id : c = active
        BY <3>2
      <4>2. (Roster!LookOf(active))' = Roster!LookOf(active)
        <5>1. Roster!LookOf(c)' = Roster!LookOf(c)
          BY <2>5, <3>7, <4>1
        <5> QED BY <3>4, <4>1, <5>1 DEF Roster!LookOf
      <4>3. IconFollows'
        BY <1>1, <1>7, <3>2, <3>4, <3>5, <3>7, <4>2 DEF IconFollows
      <4>4. NameFollows'
        BY <1>1, <1>7, <3>2, <3>4, <3>6, <3>7, <4>2 DEF NameFollows
      <4> QED BY <3>2, <3>3, <4>3, <4>4
    <3>8. CASE active = p
      <4>1. (Roster!LookOf(active))' = look
        BY <2>5, <3>4, <3>8 DEF Roster!LookOf
      <4>2. b \in asks' /\ b.done /\ b.obj.id = active
        BY <1>1, <1>7, <1>9, <3>8
      <4>3. \A x \in asks' : x.what = "patch" /\ ~x.done /\ x.obj.id = active => face.icon = 1 - x.obj.look.icon
        BY <3>2, <3>5 DEF IconFollows
      <4>4. IconFollows'
        <5>1. CASE a.what = "icon"
          BY <1>9, <3>4, <4>2, <4>3, <5>1 DEF IconFollows
        <5>2. CASE a.what = "patch"
          <6>1. face.icon = 1 - a.obj.look.icon
            BY <1>1, <1>7, <3>2, <3>8, <5>2 DEF IconFollows
          <6> QED BY <1>4, <3>4, <4>1, <4>3, <5>2, <6>1 DEF IconFollows
        <5>3. CASE a.what = "rename"
          <6>1. look.icon = Roster!LookOf(active).icon
            BY <1>4, <3>8, <5>3
          <6>2. \A x \in asks : x.what = "patch" => x \in asks'
            BY <1>7, <5>3
          <6> QED BY <3>2, <3>4, <3>6, <4>1, <4>3, <6>1, <6>2 DEF IconFollows
        <5> QED BY <5>1, <5>2, <5>3
      <4>5. NameFollows'
        <5>1. CASE a.what = "rename"
          BY <1>9, <3>4, <4>2, <5>1 DEF NameFollows
        <5>2. CASE a.what # "rename"
          <6>1. look.name = Roster!LookOf(active).name
            BY <1>4, <3>8, <5>2
          <6> QED BY <3>2, <3>4, <3>6, <4>1, <6>1 DEF NameFollows
        <5> QED BY <5>1, <5>2
      <4> QED BY <3>2, <3>3, <4>4, <4>5
    <3> QED BY <3>7, <3>8
  <2> QED BY <2>4, <2>6, <2>7
<1>13. a.what = "icon" => a.obj.id \in DOMAIN got
  BY <1>1, <1>10
<1> QED BY <1>6, <1>7, <1>8, <1>10, <1>11, <1>12, <1>13, ServeKeeps

\* A profile is deleted.
LEMMA DeletionServed == ASSUME RosterInv, NEW a \in asks, Roster!Serve(a), a.what = "delete" PROVE RosterInv'
<1>1. PICK p : p = a.obj.id
  OBVIOUS
<1>2. rows \in Roster!Lists /\ a \in Roster!Asks /\ p \in Roster!Id
  BY <1>1 DEF RosterInv, Roster!TypeOK, Roster!Asks, Roster!Objects
<1>3. PICK got : got = << >>
  OBVIOUS
<1>4. got \in Roster!Lists /\ DOMAIN got = {}
  BY <1>3, NoneListed
<1>5. PICK b : b = [a EXCEPT !.done = TRUE, !.got = got]
  OBVIOUS
<1>6. /\ ~a.done /\ asks' = (asks \ {a}) \cup {b} /\ UNCHANGED Shown
      /\ rows' = Roster!Restrict(rows, DOMAIN rows \ {p}) /\ orphans' = (orphans /\ p # Roster!Default)
      /\ UNCHANGED next
  BY <1>1, <1>3, <1>5 DEF Roster!Serve, Roster!Serves, Names, Shown
<1>7. crossed' \in BOOLEAN /\ (crossed <=> crossed')
  BY DEF Roster!Serve, RosterInv, Roster!TypeOK
<1>8. b.what = a.what /\ b.obj = a.obj /\ b.done /\ b.got = got
  BY <1>2, <1>5 DEF Roster!Asks
<1>9. /\ rows' \in Roster!Lists /\ DOMAIN rows' = DOMAIN rows \ {p}
      /\ \A q \in DOMAIN rows : q # p => rows'[q] = rows[q]
  <2>1. PICK g : g = rows'
    OBVIOUS
  <2>2. g = Roster!Restrict(rows, DOMAIN rows \ {p})
    BY <1>6, <2>1
  <2>3. /\ g \in Roster!Lists /\ DOMAIN g = DOMAIN rows \ {p}
        /\ \A q \in DOMAIN rows : q # p => g[q] = rows[q]
    BY <1>2, <2>2, RestrictIs
  <2> QED BY <2>1, <2>3
<1>10. /\ orphans' \in BOOLEAN /\ next' \in 1..(LastId + 1) /\ next <= next'
       /\ \A q \in DOMAIN rows' : q < next'
       /\ \A q \in DOMAIN got : q < next'
  BY <1>4, <1>6, <1>9, RosterAssumption DEF RosterInv, Roster!TypeOK, FreshIds, Old
<1>11. ASSUME ~crossed' PROVE MakersAreTrue' /\ EditsAreTrue' /\ ActiveFollows'
  <2>1. MakersAreTrue /\ EditsAreTrue /\ ActiveFollows /\ OneEditEach
    BY <1>7, <1>11 DEF RosterInv
  <2>2. \A x \in asks' : x \in asks \/ x = b
    BY <1>6
  <2>3. Alters(a) /\ Alters(b) /\ ~Made(b) /\ ~Names(b)
    BY <1>8 DEF Alters, Roster!Edits, Made, Names
  <2>4. MakersAreTrue'
    <3>1. \A x \in asks' : x.what = "create" => x.obj.look.name = 1
      BY <1>8, <2>1, <2>2 DEF MakersAreTrue
    <3>2. \A x \in asks' : Made(x) => x \in asks
      BY <2>2, <2>3
    <3>3. \A x \in asks' : Made(x) => \E q \in Roster!Id : x.got = Roster!One(q, New)
      BY <2>1, <3>2 DEF MakersAreTrue
    <3>4. \A x, y \in asks' : Made(x) /\ Made(y) /\ DOMAIN x.got = DOMAIN y.got => x = y
      BY <2>1, <3>2 DEF MakersAreTrue
    <3>5. ASSUME NEW x \in asks', Made(x), Names(x), NEW q \in DOMAIN x.got
          PROVE  q \in DOMAIN rows' /\ rows'[q] = New /\ \A y \in asks' : Alters(y) => y.obj.id # q
      <4>1. q \in DOMAIN rows /\ rows[q] = New /\ \A y \in asks : Alters(y) => y.obj.id # q
        BY <2>1, <3>2, <3>5 DEF MakersAreTrue
      <4>2. p # q
        BY <1>1, <2>3, <4>1
      <4>3. \A y \in asks' : Alters(y) => y.obj.id # q
        BY <1>1, <1>8, <2>2, <4>1, <4>2
      <4> QED BY <1>9, <4>1, <4>2, <4>3
    <3> QED BY <3>1, <3>3, <3>4, <3>5 DEF MakersAreTrue, Made, Names, Alters
  <2>5. \A q \in Roster!Id : q # p => Roster!LookOf(q)' = Roster!LookOf(q)
    BY <1>9 DEF Roster!LookOf
  <2>6. EditsAreTrue'
    <3>1. ASSUME NEW x \in asks', x.done
          PROVE  /\ x.what = "icon" => x.got[x.obj.id].icon = Roster!LookOf(x.obj.id)'.icon
                 /\ x.what = "rename" /\ x.obj.id # Roster!Default =>
                      Roster!LookOf(x.obj.id)'.name = 1 /\ DOMAIN x.got = {x.obj.id}
      <4>1. CASE x = b
        BY <1>8, <4>1
      <4>2. CASE x \in asks
        <5>1. x.obj.id \in Roster!Id /\ x # a
          BY <1>6, <3>1, <4>2 DEF RosterInv, Roster!TypeOK, Roster!Asks, Roster!Objects
        <5>2. x.what \in {"icon", "rename"} => x.obj.id # p
          BY <1>1, <2>1, <2>3, <4>2, <5>1 DEF OneEditEach, Alters, Roster!Edits
        <5> QED BY <2>1, <2>5, <3>1, <4>2, <5>1, <5>2 DEF EditsAreTrue
      <4> QED BY <2>2, <4>1, <4>2
    <3> QED BY <3>1 DEF EditsAreTrue, Roster!LookOf
  <2>7. ActiveFollows'
    <3>1. CASE active = p
      <4>1. Renewed'
        BY <1>1, <1>6, <1>8, <3>1 DEF Renewed, Renews, Shown
      <4> QED BY <4>1 DEF ActiveFollows
    <3>2. CASE active # p
      <4>1. Renewed => Renewed'
        BY <1>6, <1>8 DEF Renewed, Renews, Names, Shown
      <4>2. active = Nobody => (Roster!Listed = {} => Roster!Listed' = {})
        BY <1>6, <1>9 DEF Roster!Listed
      <4>3. active # Nobody => active \in Roster!Id /\ (active \in Roster!Listed => active \in Roster!Listed')
        BY <1>6, <1>9, <3>2 DEF Roster!Listed, RosterInv, Roster!TypeOK
      <4>4. active # Nobody => (Roster!LookOf(active))' = Roster!LookOf(active)
        BY <1>6, <2>5, <3>2, <4>3 DEF Roster!LookOf, Shown
      <4>5. active # Nobody /\ IconFollows => IconFollows'
        BY <1>6, <1>8, <4>4 DEF IconFollows, Shown
      <4>6. active # Nobody /\ NameFollows => NameFollows'
        BY <1>6, <1>8, <4>4 DEF NameFollows, Shown
      <4> QED BY <1>6, <2>1, <4>1, <4>2, <4>3, <4>5, <4>6 DEF ActiveFollows, Shown
    <3> QED BY <3>1, <3>2
  <2> QED BY <2>4, <2>6, <2>7
<1> QED BY <1>4, <1>5, <1>6, <1>7, <1>9, <1>10, <1>11, ServeKeeps

LEMMA ServedKeeps == ASSUME RosterInv, NEW a \in asks, Roster!Serve(a) PROVE RosterInv'
<1>1. a.what \in Roster!Kinds
  BY DEF RosterInv, Roster!TypeOK, Roster!Asks
<1>2. CASE a.what \in Reads \cup {"rest"}
  BY <1>2, ReadServed
<1>3. CASE a.what = "create" \/ Names(a)
  BY <1>3, MakingServed
<1>4. CASE a.what \in {"icon", "rename", "patch"} /\ ~Names(a)
  BY <1>4, ChangeServed
<1>5. CASE a.what = "delete"
  BY <1>5, DeletionServed
<1> QED BY <1>1, <1>2, <1>3, <1>4, <1>5 DEF Roster!Kinds, Reads

-----------------------------------------------------------------------------
(* Answers *)

AnswerTo(a) == a.done /\ UNCHANGED Roster!server /\ UNCHANGED moves

\* What an answer brings fits, whatever it answers.
LEMMA AnswerIs ==
    ASSUME RosterInv, NEW a \in asks
    PROVE  /\ a \in Roster!Asks /\ a.obj \in Roster!Objects /\ a.got \in Roster!Lists /\ Old(a.obj.id)
           /\ \A p \in DOMAIN a.got : p \in Roster!Id /\ a.got[p] \in Roster!Look /\ Old(p)
BY ListsAre DEF RosterInv, Roster!TypeOK, FreshIds, Roster!Asks

\* Answers that change nothing of the active profile.
LEMMA QuietAnswers ==
    ASSUME RosterInv, NEW a \in asks, AnswerTo(a),
           Roster!GotList(a) \/ Roster!ProfileChanged(a) \/ Roster!GotHistory(a) \/ Roster!PatchDone(a)
    PROVE  RosterInv'
<1>1. ClientTyped /\ Old(Roster!Default) /\ Roster!Default \in Roster!Id /\ Roster!Plain \in Roster!Look
  BY TypedNow, OldDefault
<1>2. /\ a.obj \in Roster!Objects /\ a.got \in Roster!Lists /\ a.obj.id \in Roster!Id
      /\ \A p \in DOMAIN a.got : Old(p)
  BY AnswerIs DEF Roster!Objects
<1>3. Quiet(a) /\ UNCHANGED <<rows, orphans, active, face, crossed, next, moves>> /\ UNCHANGED Roster!server
  BY DEF AnswerTo, Quiet, Reads, Roster!GotList, Roster!ProfileChanged, Roster!GotHistory,
     Roster!PatchDone, Roster!server
<1>4. PICK o : o = (IF active = Nobody THEN Roster!Object(Roster!Default, Roster!Plain) ELSE Roster!Object(active, face))
  OBVIOUS
<1>5. o \in Roster!Objects /\ Old(o.id)
  <2>1. CASE active = Nobody
    BY <1>1, <1>4, <2>1, ObjectIs
  <2>2. CASE active # Nobody
    BY <1>1, <1>4, <2>2, ObjectIs DEF ClientTyped
  <2> QED BY <2>1, <2>2
<1>6. PICK n : n = Roster!Ask("history", o)
  OBVIOUS
<1>7. n \in Roster!Asks /\ ~n.done /\ n.got = << >> /\ n.what = "history" /\ n.obj = o
  BY <1>5, <1>6, AskIs DEF Roster!Kinds
<1>8. asks' \subseteq asks \cup {n} /\ \A x \in asks : x \in asks' \/ x = a
  <2>1. CASE Roster!ProfileChanged(a)
    BY <1>4, <1>6, <2>1 DEF Roster!ProfileChanged
  <2>2. CASE ~Roster!ProfileChanged(a)
    BY <2>2 DEF Roster!GotList, Roster!GotHistory, Roster!PatchDone
  <2> QED BY <2>1, <2>2
<1>9. ClientTyped'
  <2>1. CASE Roster!GotList(a)
    <3>1. PICK m : m = [at |-> "list", obj |-> menu.obj]
      OBVIOUS
    <3>2. m \in [at : {"closed", "list", "profile"}, obj : Roster!Objects] /\ m.obj.id = menu.obj.id
      BY <1>1, <3>1 DEF ClientTyped
    <3>3. menu' = m /\ list' = a.got /\ loading' = FALSE /\ UNCHANGED history
      BY <2>1, <3>1 DEF Roster!GotList
    <3> QED BY <1>1, <1>2, <1>3, <3>2, <3>3 DEF ClientTyped, Old
  <2>2. CASE Roster!GotHistory(a)
    BY <1>1, <1>2, <1>3, <2>2 DEF ClientTyped, Old, Roster!GotHistory
  <2>3. CASE Roster!ProfileChanged(a) \/ Roster!PatchDone(a)
    BY <1>1, <1>3, <2>3 DEF ClientTyped, Old, Roster!ProfileChanged, Roster!PatchDone
  <2> QED BY <2>1, <2>2, <2>3
<1>10. Sendable({n})
  BY <1>5, <1>7 DEF Sendable, Sends
<1>11. ASSUME ~crossed' PROVE EditsFit({n}) /\ ActiveFollows'
  <2>1. ActiveFollows
    BY <1>3, <1>11 DEF RosterInv
  <2>2. \A m \in {n} : m.what \in Reads \cup {"create"} /\ ~m.done
    BY <1>7 DEF Reads
  <2>3. \A x \in asks : x \in asks' \/ Quiet(x)
    BY <1>3, <1>8
  <2>4. UNCHANGED <<rows, orphans, active, face>>
    BY <1>3
  <2> QED BY <1>8, <2>1, <2>2, <2>3, <2>4, QuietRequests
<1> QED BY <1>3, <1>8, <1>9, <1>10, <1>11, ClientSteps

LEMMA CreatedKeeps == ASSUME RosterInv, NEW a \in asks, AnswerTo(a), Roster!Created(a) PROVE RosterInv'
<1>1. ClientTyped
  BY TypedNow
<1>2. a.what = "create" /\ a.done /\ a \in Roster!Asks /\ a.obj.look \in Roster!Look /\ UNCHANGED Roster!server
      /\ UNCHANGED <<menu, list, loading, history>> /\ UNCHANGED moves
  BY DEF Roster!Created, AnswerTo, RosterInv, Roster!TypeOK, Roster!Asks, Roster!Objects
<1>3. PICK p \in DOMAIN a.got :
        Roster!Switch(Roster!Object(p, a.obj.look), Roster!Object(p, a.got[p]),
               (asks \ {a}) \cup
               (IF a.obj.look.icon = 1 THEN {Roster!Ask("patch", Roster!Object(p, a.got[p]))} ELSE {}))
  BY DEF Roster!Created
<1>4. p \in Roster!Id /\ a.got[p] \in Roster!Look /\ Old(p)
  BY AnswerIs
<1>5. PICK obj \in Roster!Objects : obj = Roster!Object(p, a.obj.look)
  BY <1>2, <1>4, ObjectIs
<1>6. PICK heard \in Roster!Objects : heard = Roster!Object(p, a.got[p])
  BY <1>4, ObjectIs
<1>7. obj.id = p /\ obj.look = a.obj.look /\ heard.id = p /\ heard.look = a.got[p]
  BY <1>2, <1>4, <1>5, <1>6, ObjectIs
<1>8. PICK n : n = Roster!Ask("patch", heard)
  OBVIOUS
<1>9. n \in Roster!Asks /\ ~n.done /\ n.got = << >> /\ n.what = "patch" /\ n.obj = heard
  BY <1>6, <1>8, AskIs DEF Roster!Kinds
<1>10. PICK P : P = (IF a.obj.look.icon = 1 THEN {n} ELSE {})
  OBVIOUS
<1>11. PICK others : others = (asks \ {a}) \cup P
  OBVIOUS
<1>12. Roster!Switch(obj, heard, others)
  BY <1>3, <1>5, <1>6, <1>8, <1>10, <1>11
<1>13. /\ P \subseteq Roster!Asks /\ others \subseteq asks \cup P /\ P \subseteq others
       /\ \A m \in P : m.what = "patch" /\ m.obj = heard /\ ~m.done /\ m.got = << >>
  BY <1>9, <1>10, <1>11
<1>14. \A m, k \in P : m = k
  BY <1>10
<1>15. ASSUME ~crossed
       PROVE  /\ heard.look = New /\ obj.look.name = 1 /\ DOMAIN a.got = {p}
              /\ \A b \in asks : Made(b) /\ Names(b) => obj.id \notin DOMAIN b.got
  <2>1. MakersAreTrue /\ Made(a)
    BY <1>2, <1>15 DEF RosterInv, Made
  <2>2. PICK q \in Roster!Id : a.got = Roster!One(q, New)
    BY <2>1 DEF MakersAreTrue
  <2>3. PICK look \in Roster!Look : look = New
    <3>1. New \in Roster!Look
      BY DEF Roster!Look, New
    <3> QED BY <3>1
  <2>4. a.got = Roster!One(q, look)
    BY <2>2, <2>3
  <2>5. DOMAIN a.got = {q} /\ a.got[q] = look
    BY <2>4, OneIs
  <2>6. p = q /\ heard.look = New
    BY <1>7, <2>3, <2>5
  <2>7. a.obj.look.name = 1
    BY <1>2, <2>1 DEF MakersAreTrue
  <2>8. ASSUME NEW b \in asks, Made(b), Names(b) PROVE obj.id \notin DOMAIN b.got
    <3>1. PICK r \in Roster!Id : b.got = Roster!One(r, New)
      BY <2>1, <2>8 DEF MakersAreTrue
    <3>2. b.got = Roster!One(r, look)
      BY <2>3, <3>1
    <3>3. DOMAIN b.got = {r}
      BY <3>2, OneIs
    <3>4. b # a
      BY <1>2, <2>8 DEF Names
    <3>5. r # q
      BY <2>1, <2>5, <2>8, <3>3, <3>4 DEF MakersAreTrue
    <3> QED BY <1>7, <2>6, <3>3, <3>5
  <2> QED BY <1>7, <2>5, <2>6, <2>7, <2>8
<1>17. ~crossed => /\ obj.look.name = heard.look.name
                   /\ IF P = {} THEN obj.look = heard.look
                      ELSE obj.look.icon = 1 - heard.look.icon /\ P \subseteq others
  <2> SUFFICES ASSUME ~crossed PROVE /\ obj.look.name = heard.look.name
                                     /\ IF P = {} THEN obj.look = heard.look
                                        ELSE obj.look.icon = 1 - heard.look.icon /\ P \subseteq others
    OBVIOUS
  <2>1. heard.look.name = 1 /\ heard.look.icon = 0 /\ heard.look \in Roster!Look
    BY <1>15 DEF New, Roster!Look
  <2>2. obj.look.name = 1 /\ obj.look \in Roster!Look
    BY <1>2, <1>7, <1>15
  <2>3. CASE a.obj.look.icon = 1
    BY <1>7, <1>10, <1>13, <2>1, <2>2, <2>3
  <2>4. CASE a.obj.look.icon # 1
    <3>1. obj.look.icon = 0
      BY <1>7, <2>2, <2>4 DEF Roster!Look
    <3>2. obj.look = heard.look
      BY <2>1, <2>2, <3>1 DEF Roster!Look
    <3> QED BY <1>10, <2>1, <2>2, <2>4, <3>2
  <2> QED BY <2>3, <2>4
<1>16. menu' \in [at : {"closed", "list", "profile"}, obj : Roster!Objects] /\ Old(menu'.obj.id) /\ moves' \in 0..RosterMoves
  BY <1>1, <1>2 DEF ClientTyped
<1> QED BY <1>2, <1>4, <1>7, <1>12, <1>13, <1>14, <1>15, <1>16, <1>17, SwitchKeeps

LEMMA IconChangedKeeps == ASSUME RosterInv, NEW a \in asks, AnswerTo(a), Roster!IconChanged(a) PROVE RosterInv'
<1>1. ClientTyped
  BY TypedNow
<1>2. PICK p \in Roster!Id : p = a.obj.id
  BY AnswerIs DEF Roster!Objects
<1>3. PICK icon : icon = a.got[p].icon
  OBVIOUS
<1>4. a.what = "icon" /\ a.done /\ a.obj \in Roster!Objects /\ Old(p) /\ a.got[p] \in Roster!Look /\ icon \in 0..1
  <2>1. a.what = "icon" /\ a.done /\ p \in DOMAIN a.got
    BY <1>2 DEF Roster!IconChanged, AnswerTo, RosterInv, IconsCome
  <2>2. a.got[p] \in Roster!Look /\ a.obj \in Roster!Objects /\ Old(p)
    BY <1>2, <2>1, AnswerIs
  <2> QED BY <1>3, <2>1, <2>2 DEF Roster!Look
<1>5. PICK o : o = [a.obj EXCEPT !.look.icon = icon]
  OBVIOUS
<1>6. o \in Roster!Objects /\ o.id = p
  <2>1. a.obj.look \in Roster!Look /\ a.obj \in [id : Roster!Id, look : Roster!Look]
    BY <1>4 DEF Roster!Objects
  <2>2. PICK l : l = [a.obj.look EXCEPT !.icon = icon]
    OBVIOUS
  <2>3. l \in Roster!Look
    BY <1>4, <2>1, <2>2 DEF Roster!Look
  <2>4. o = [a.obj EXCEPT !.look = l]
    BY <1>5, <2>2
  <2> QED BY <1>2, <2>1, <2>3, <2>4 DEF Roster!Objects
<1>7. PICK f : f = face'
  OBVIOUS
<1>8. /\ UNCHANGED Roster!server /\ UNCHANGED <<rows, orphans, next, active, list, loading, history, crossed, moves>>
      /\ asks' = asks \ {a} /\ menu' = [at |-> "profile", obj |-> o]
      /\ f = IF active = p THEN [face EXCEPT !.icon = icon] ELSE face
  BY <1>2, <1>3, <1>5, <1>7 DEF Roster!IconChanged, AnswerTo, Roster!server
<1>9. f \in Roster!Look /\ f.name = face.name /\ (active = p => f.icon = icon) /\ (active # p => f = face)
  BY <1>1, <1>4, <1>8 DEF ClientTyped, Roster!Look
<1>10. ClientTyped'
  BY <1>1, <1>4, <1>6, <1>7, <1>8, <1>9 DEF ClientTyped, Old
<1>11. Sendable({}) /\ asks' \subseteq asks \cup {}
  BY <1>8 DEF Sendable
<1>12. ASSUME ~crossed' PROVE EditsFit({}) /\ ActiveFollows'
  <2>1. ActiveFollows /\ EditsAreTrue /\ OneEditEach
    BY <1>8, <1>12 DEF RosterInv
  <2>2. Renewed => Renewed'
    BY <1>4, <1>8 DEF Renewed, Renews, Names
  <2>3. Roster!Listed' = Roster!Listed /\ (Roster!LookOf(active))' = Roster!LookOf(active) /\ icon = Roster!LookOf(p).icon
    BY <1>2, <1>3, <1>4, <1>8, <2>1 DEF Roster!Listed, Roster!LookOf, EditsAreTrue
  <2>4. NameFollows => NameFollows'
    BY <1>4, <1>7, <1>8, <1>9, <2>3 DEF NameFollows
  <2>5. IconFollows => IconFollows'
    <3>1. CASE active = p
      <4>1. face'.icon = (Roster!LookOf(active))'.icon
        BY <1>7, <1>9, <2>3, <3>1
      <4>2. \A x \in asks : x.what = "patch" => x.obj.id # p
        BY <1>2, <1>4, <2>1 DEF OneEditEach, Alters, Roster!Edits
      <4> QED BY <1>8, <3>1, <4>1, <4>2 DEF IconFollows
    <3>2. CASE active # p
      BY <1>2, <1>4, <1>7, <1>8, <1>9, <2>3, <3>2 DEF IconFollows
    <3> QED BY <3>1, <3>2
  <2>6. EditsFit({})
    BY DEF EditsFit
  <2> QED BY <1>8, <2>1, <2>2, <2>3, <2>4, <2>5, <2>6 DEF ActiveFollows
<1> QED BY <1>8, <1>10, <1>11, <1>12, ClientSteps

LEMMA RenamedKeeps == ASSUME RosterInv, NEW a \in asks, AnswerTo(a), Roster!Renamed(a) PROVE RosterInv'
<1>1. ClientTyped
  BY TypedNow
<1>2. PICK p \in DOMAIN a.got :
         /\ active' = IF active = a.obj.id THEN p ELSE active
         /\ history' = IF history = a.obj.id THEN p ELSE history
  BY DEF Roster!Renamed
<1>3. PICK q \in Roster!Id : q = a.obj.id
  BY AnswerIs DEF Roster!Objects
<1>4. p \in Roster!Id /\ Old(p) /\ p # Nobody /\ a.what = "rename" /\ a.done
  BY AnswerIs, RosterAssumption DEF Roster!Renamed, AnswerTo, Roster!Id, Roster!Default
<1>5. PICK f : f = face'
  OBVIOUS
<1>6. /\ UNCHANGED Roster!server /\ UNCHANGED <<rows, orphans, next, menu, list, loading, moves>>
      /\ asks' = asks \ {a} /\ f = (IF active = q THEN [face EXCEPT !.name = 1] ELSE face)
      /\ active' = (IF active = q THEN p ELSE active) /\ history' = (IF history = q THEN p ELSE history)
      /\ crossed' \in BOOLEAN /\ (crossed => crossed')
      /\ (~crossed' => ~crossed /\ (q = Roster!Default => face.icon # 1))
  BY <1>2, <1>3, <1>5 DEF Roster!Renamed, AnswerTo, Roster!server, RosterInv, Roster!TypeOK
<1>7. f \in Roster!Look /\ f.icon = face.icon /\ (active = q => f.name = 1) /\ (active # q => f = face)
  BY <1>1, <1>6 DEF ClientTyped, Roster!Look
<1>8. ClientTyped'
  BY <1>1, <1>4, <1>5, <1>6, <1>7 DEF ClientTyped, Old
<1>9. Sendable({}) /\ asks' \subseteq asks \cup {}
  BY <1>6 DEF Sendable
<1>10. ASSUME ~crossed' PROVE EditsFit({}) /\ ActiveFollows'
  <2>1. ActiveFollows /\ EditsAreTrue /\ MakersAreTrue /\ ~crossed
    BY <1>6, <1>10 DEF RosterInv
  <2>2. Roster!Listed' = Roster!Listed /\ \A r : Roster!LookOf(r)' = Roster!LookOf(r)
    BY <1>6 DEF Roster!Listed, Roster!LookOf
  <2>3. EditsFit({})
    BY DEF EditsFit
  <2>4. CASE active = q /\ q = Roster!Default
    <3>1. Made(a) /\ Names(a)
      BY <1>3, <1>4, <2>4 DEF Made, Names
    <3>2. p \in DOMAIN rows /\ rows[p] = New /\ \A b \in asks : Alters(b) => b.obj.id # p
      BY <2>1, <3>1 DEF MakersAreTrue
    <3>3. p \in Roster!Listed' /\ active' = p
      BY <1>6, <2>2, <2>4, <3>2 DEF Roster!Listed
    <3>4. (Roster!LookOf(active))'.name = 1 /\ (Roster!LookOf(active))'.icon = 0
      BY <1>6, <3>2, <3>3 DEF Roster!LookOf, New
    <3>5. face'.name = 1 /\ face'.icon = 0
      BY <1>1, <1>5, <1>6, <1>7, <1>10, <2>4 DEF ClientTyped, Roster!Look
    <3>6. \A x \in asks' : x.what = "patch" => x.obj.id # p
      BY <1>6, <3>2 DEF Alters
    <3> QED BY <1>4, <2>3, <3>3, <3>4, <3>5, <3>6 DEF ActiveFollows, IconFollows, NameFollows
  <2>5. CASE active # q \/ q # Roster!Default
    <3>1. active' = active
      <4>1. q # Roster!Default => DOMAIN a.got = {q}
        BY <1>3, <1>4, <2>1 DEF EditsAreTrue
      <4> QED BY <1>6, <2>5, <4>1
    <3>2. Renewed => Renewed'
      BY <1>3, <1>4, <1>6, <2>5, <3>1 DEF Renewed, Renews, Names
    <3>3. (Roster!LookOf(active))' = Roster!LookOf(active)
      BY <1>6, <3>1 DEF Roster!LookOf
    <3>4. IconFollows => IconFollows'
      BY <1>4, <1>5, <1>6, <1>7, <3>1, <3>3 DEF IconFollows
    <3>5. NameFollows => NameFollows'
      <4>1. CASE active = q
        <5>1. Roster!LookOf(active).name = 1
          BY <1>3, <1>4, <2>1, <2>5, <4>1 DEF EditsAreTrue
        <5> QED BY <1>5, <1>7, <3>3, <4>1, <5>1 DEF NameFollows
      <4>2. CASE active # q
        BY <1>3, <1>4, <1>5, <1>6, <1>7, <3>1, <3>3, <4>2 DEF NameFollows
      <4> QED BY <4>1, <4>2
    <3> QED BY <2>1, <2>2, <2>3, <3>1, <3>2, <3>4, <3>5 DEF ActiveFollows
  <2> QED BY <2>4, <2>5
<1> QED BY <1>6, <1>8, <1>9, <1>10, ClientSteps

LEMMA DeletedKeeps == ASSUME RosterInv, NEW a \in asks, AnswerTo(a), Roster!Deleted(a) PROVE RosterInv'
<1>1. ClientTyped
  BY TypedNow
<1>2. PICK why : why = (IF active = a.obj.id THEN "rest" ELSE "list")
  OBVIOUS
<1>3. PICK n : n = Roster!Ask(why, menu.obj)
  OBVIOUS
<1>4. n \in Roster!Asks /\ ~n.done /\ n.got = << >> /\ n.what = why /\ n.obj = menu.obj
  <2>1. why \in Roster!Kinds
    BY <1>2 DEF Roster!Kinds
  <2> QED BY <1>1, <1>3, <2>1, AskIs DEF ClientTyped
<1>5. /\ a.what = "delete" /\ a.done /\ UNCHANGED Roster!server /\ loading' \in BOOLEAN
      /\ UNCHANGED <<rows, orphans, next, active, face, menu, list, history, crossed, moves>>
      /\ asks' \subseteq asks \cup {n} /\ (\A x \in asks : x \in asks' \/ x = a)
      /\ (why = "rest" => n \in asks')
  BY <1>1, <1>2, <1>3 DEF Roster!Deleted, AnswerTo, Roster!server, ClientTyped
<1>6. ClientTyped'
  BY <1>1, <1>5 DEF ClientTyped, Old
<1>7. Sendable({n})
  BY <1>1, <1>2, <1>4 DEF Sendable, Sends, ClientTyped
<1>8. ASSUME ~crossed' PROVE EditsFit({n}) /\ ActiveFollows'
  <2>1. ActiveFollows
    BY <1>5, <1>8 DEF RosterInv
  <2>2. EditsFit({n})
    BY <1>2, <1>4 DEF EditsFit, Alters, Roster!Edits
  <2>3. CASE active = a.obj.id
    <3>1. Renewed'
      BY <1>2, <1>4, <1>5, <2>3 DEF Renewed, Renews
    <3> QED BY <2>2, <3>1 DEF ActiveFollows
  <2>4. CASE active # a.obj.id
    <3>1. Renewed => Renewed'
      BY <1>5, <2>4 DEF Renewed, Renews, Names
    <3>2. Roster!Listed' = Roster!Listed /\ (Roster!LookOf(active))' = Roster!LookOf(active)
      BY <1>5 DEF Roster!Listed, Roster!LookOf
    <3>3. \A x \in asks' : x.what = "patch" => x \in asks
      BY <1>2, <1>4, <1>5
    <3>4. IconFollows => IconFollows'
      BY <1>5, <3>2, <3>3 DEF IconFollows
    <3>5. NameFollows => NameFollows'
      BY <1>5, <3>2 DEF NameFollows
    <3> QED BY <1>5, <2>1, <2>2, <3>1, <3>2, <3>4, <3>5 DEF ActiveFollows
  <2> QED BY <2>3, <2>4
<1> QED BY <1>5, <1>6, <1>7, <1>8, ClientSteps

LEMMA RestKeeps == ASSUME RosterInv, NEW a \in asks, AnswerTo(a), Roster!GotRest(a) PROVE RosterInv'
<1>1. ClientTyped /\ Old(Roster!Default) /\ Roster!Default \in Roster!Id /\ Roster!Plain \in Roster!Look
  BY TypedNow, OldDefault
<1>2. UNCHANGED <<menu, list, loading, history>> /\ UNCHANGED Roster!server /\ UNCHANGED moves
  BY DEF Roster!GotRest, AnswerTo
<1>3. CASE a.got = << >>
  <2>1. /\ active' = Nobody /\ face' = Roster!Plain /\ asks' \subseteq asks \cup {} /\ UNCHANGED <<rows, orphans, next>>
        /\ crossed' \in BOOLEAN /\ (crossed => crossed') /\ (~crossed' => Roster!Listed = {})
    BY <1>2, <1>3 DEF Roster!GotRest, Roster!server, RosterInv, Roster!TypeOK
  <2>2. ClientTyped'
    BY <1>1, <1>2, <2>1 DEF ClientTyped, Old
  <2>3. Sendable({})
    BY DEF Sendable
  <2>4. ~crossed' => EditsFit({}) /\ ActiveFollows'
    BY <2>1 DEF EditsFit, ActiveFollows, Roster!Listed
  <2> QED BY <1>2, <2>1, <2>2, <2>3, <2>4, ClientSteps
<1>4. CASE a.got # << >>
  <2>1. PICK p \in DOMAIN a.got : Roster!Switch(Roster!Object(p, a.got[p]), Roster!Object(p, a.got[p]), asks \ {a})
    BY <1>4 DEF Roster!GotRest
  <2>2. p \in Roster!Id /\ a.got[p] \in Roster!Look /\ Old(p)
    BY AnswerIs
  <2>3. PICK o \in Roster!Objects : o = Roster!Object(p, a.got[p])
    BY <2>2, ObjectIs
  <2>4. PICK others : others = asks \ {a}
    OBVIOUS
  <2>5. Roster!Switch(o, o, others) /\ Old(o.id) /\ others \subseteq asks \cup {}
    BY <2>1, <2>2, <2>3, <2>4, ObjectIs
  <2>6. {} \subseteq Roster!Asks /\ \A n \in {} : n.what = "patch" /\ n.obj = o /\ ~n.done /\ n.got = << >>
    OBVIOUS
  <2>7. \A m, n \in {} : m = n
    OBVIOUS
  <2>8. menu' \in [at : {"closed", "list", "profile"}, obj : Roster!Objects] /\ Old(menu'.obj.id) /\ moves' \in 0..RosterMoves
    BY <1>1, <1>2 DEF ClientTyped
  <2> QED BY <1>2, <2>5, <2>6, <2>7, <2>8, SwitchKeeps
<1> QED BY <1>3, <1>4

\* Every step keeps it, and at rest it is what is asked for.
LEMMA RosterKept == ASSUME RosterInv, Roster!Next \/ UNCHANGED Roster!vars PROVE RosterInv'
<1>1. CASE UNCHANGED Roster!vars
  <2>1. UNCHANGED Roster!server /\ UNCHANGED <<rows, orphans, next, active, face, menu, list, loading, history, asks, moves, crossed>>
    BY <1>1 DEF Roster!vars, Roster!server
  <2>2. ClientTyped /\ Sendable({}) /\ asks' \subseteq asks \cup {} /\ EditsFit({})
    BY <2>1, TypedNow DEF Sendable, EditsFit
  <2>3. ClientTyped'
    BY <2>1, <2>2 DEF ClientTyped, Old
  <2>4. \A x \in asks : x \in asks' \/ Quiet(x)
    BY <2>1
  <2>5. ~crossed' => ActiveFollows'
    <3>1. \A n \in {} : n.what # "patch"
      OBVIOUS
    <3>2. UNCHANGED <<rows, orphans, active, face>>
      BY <2>1
    <3> QED BY <2>1, <2>2, <2>4, <3>1, <3>2, FollowsStill DEF RosterInv
  <2> QED BY <2>1, <2>2, <2>3, <2>5, ClientSteps
<1>2. CASE Roster!openSelector \/ Roster!Close \/ Roster!OpenHistory \/ (\E p \in DOMAIN list : Roster!openProfileMenu(p))
           \/ (\E icon \in 0..1 : Roster!CreateProfile(icon))
  BY <1>2, ViewerKeeps
<1>3. CASE Roster!ChooseProfile
  BY <1>3, ChooseKeeps
<1>4. CASE \E what \in Roster!Edits : Roster!Edit(what)
  BY <1>4, EditKeeps
<1>5. ASSUME NEW a \in asks, Roster!Serve(a) \/ Roster!Refuse(a) \/ Roster!Fail(a) \/ Roster!Answer(a) PROVE RosterInv'
  <2>1. CASE Roster!Serve(a)
    BY <2>1, ServedKeeps
  <2>2. CASE Roster!Refuse(a) \/ Roster!Fail(a)
    BY <2>2, FailKeeps
  <2>3. CASE Roster!Answer(a)
    <3>1. /\ AnswerTo(a)
          /\ \/ Roster!GotList(a) \/ Roster!Created(a) \/ Roster!IconChanged(a) \/ Roster!Renamed(a) \/ Roster!Deleted(a)
             \/ Roster!GotRest(a) \/ Roster!ProfileChanged(a) \/ Roster!GotHistory(a) \/ Roster!PatchDone(a)
      BY <2>3 DEF Roster!Answer, AnswerTo
    <3> QED BY <3>1, QuietAnswers, CreatedKeeps, IconChangedKeeps, RenamedKeeps, DeletedKeeps, RestKeeps
  <2> QED BY <1>5, <2>1, <2>2, <2>3
<1> QED BY <1>1, <1>2, <1>3, <1>4, <1>5 DEF Roster!Next

LEMMA RosterSettle == ASSUME RosterInv PROVE Roster!SettledProfileExists
<1> SUFFICES ASSUME asks = {}, ~crossed
             PROVE  IF active = Nobody THEN Roster!Listed = {} ELSE active \in Roster!Listed /\ face = Roster!LookOf(active)
  BY DEF Roster!SettledProfileExists
<1>1. ~Renewed /\ ActiveFollows
  BY DEF Renewed, RosterInv
<1>2. CASE active = Nobody
  BY <1>1, <1>2 DEF ActiveFollows
<1>3. CASE active # Nobody
  <2>1. active \in Roster!Listed /\ face.icon = Roster!LookOf(active).icon /\ face.name = Roster!LookOf(active).name
    BY <1>1, <1>3 DEF ActiveFollows, IconFollows, NameFollows
  <2>2. face \in Roster!Look /\ Roster!LookOf(active) \in Roster!Look
    BY <1>3, ListedIsList DEF RosterInv, Roster!TypeOK
  <2>3. face = Roster!LookOf(active)
    BY <2>1, <2>2 DEF Roster!Look
  <2> QED BY <1>3, <2>1, <2>3
<1> QED BY <1>2, <1>3

-----------------------------------------------------------------------------
(* The line of unwatched shows of the player (UnwatchedLine) *)

\* A job under way is of a show where it needs one; a list that is being answered or saved
\* lacks only shows that were out of the account's list, or counted off.
LineWhy ==
    {"diff", "none", "section", "full", "list", "mark", "open", "cards", "traces", "reconcile",
     "leave", "watch", "end"}

LineJob ==
    [kind : {"fetch", "answer", "save", "look", "status", "marks"}, why : LineWhy,
     show : Shows \cup {Nobody}, list : Line!List, old : Line!List, try : Nat]

OfShow(j) ==
    \/ j.kind = "look" /\ j.why # "reconcile"
    \/ j.kind = "status"
    \/ j.kind \in {"fetch", "answer"} /\ j.why \in {"section", "full"}

LineWell(j) == j \in LineJob /\ (OfShow(j) => j.show \in Shows)
LineTold(j) == j.kind \in {"answer", "save"} => \A s \in Shows : j.list[s] = 0 => s \in gone \cup behind

LineJobsOK == Line!IsABag(jobs) /\ \A j \in Line!BagToSet(jobs) : LineWell(j) /\ LineTold(j)

LineData ==
    /\ account \in Line!List /\ saved \in Line!List /\ results \subseteq Shows
    /\ last \in Shows \cup {Nobody} /\ dirty \in BOOLEAN /\ events \in 0..LineEvents
    /\ gone \subseteq Shows /\ behind \subseteq Shows
    /\ \A s \in Shows : account[s] = 0 => s \in gone
    /\ \A s \in Shows : saved[s] = 0 => s \in gone \cup behind

LineCards ==
    /\ line \in [Shows -> Line!Card \cup {Nobody}] /\ row \in [Shows -> Line!Card \cup {Nobody}]
    /\ Line!OnlyGoneShowsLeave

LinePosters ==
    /\ stack \in Seq(Shows) /\ Len(stack) <= Depth
    /\ poster \in Seq(Line!Mark) /\ Len(poster) = Len(stack)
    /\ misplaced \in BOOLEAN
    /\ Line!MarksOfOpenCard

LineInv == LineJobsOK /\ LineData /\ LineCards /\ LinePosters

LEMMA LineTyped == LineInv => Line!TypeOK
BY DEF LineInv, LineJobsOK, LineData, LineCards, LinePosters, Line!TypeOK

-----------------------------------------------------------------------------
(* Jobs *)

LEMMA JobsGain ==
    ASSUME NEW b, NEW S, NEW c, c = Line!(+)(b, Line!SetToBag(S)), Line!IsABag(b)
    PROVE  Line!IsABag(c) /\ Line!BagToSet(c) = Line!BagToSet(b) \cup S
BY DEF Line!BagToSet, Line!(+), Line!SetToBag, Line!IsABag

LEMMA JobsEnd ==
    ASSUME NEW b, NEW S, NEW d, d = Line!(-)(b, Line!SetToBag(S)), Line!IsABag(b)
    PROVE  Line!IsABag(d) /\ Line!BagToSet(d) \subseteq Line!BagToSet(b)
BY DEF Line!BagToSet, Line!(-), Line!SetToBag, Line!IsABag

\* What is told of a list stays true: the history grows.
LEMMA LineToldStays ==
    ASSUME NEW j, LineTold(j), gone \subseteq gone', behind \subseteq behind'
    PROVE  LineTold(j)'
BY DEF LineTold

\* Jobs are ended, and new ones started.
LEMMA JobsGoOn ==
    ASSUME LineJobsOK, gone \subseteq gone', behind \subseteq behind',
           NEW x, NEW S, Line!GoesOn(x, S) \/ Line!Start(S) \/ (jobs' = jobs /\ S = {}),
           \A j \in S : LineWell(j) /\ LineTold(j)'
    PROVE  LineJobsOK'
<1>1. Line!IsABag(jobs') /\ Line!BagToSet(jobs') \subseteq Line!BagToSet(jobs) \cup S
  <2>1. CASE Line!GoesOn(x, S)
    <3>1. jobs' = Line!(+)(Line!(-)(jobs, Line!SetToBag({x})), Line!SetToBag(S)) /\ Line!IsABag(jobs)
      BY <2>1 DEF LineJobsOK, Line!GoesOn
    <3>2. PICK d : d = Line!(-)(jobs, Line!SetToBag({x}))
      OBVIOUS
    <3>3. Line!IsABag(d) /\ Line!BagToSet(d) \subseteq Line!BagToSet(jobs)
      BY <3>1, <3>2, JobsEnd
    <3>4. jobs' = Line!(+)(d, Line!SetToBag(S))
      BY <3>1, <3>2
    <3>5. Line!IsABag(jobs') /\ Line!BagToSet(jobs') = Line!BagToSet(d) \cup S
      BY <3>3, <3>4, JobsGain
    <3> QED BY <3>3, <3>5
  <2>2. CASE Line!Start(S)
    BY <2>2, JobsGain DEF LineJobsOK, Line!Start
  <2>3. CASE jobs' = jobs
    BY <2>3 DEF LineJobsOK
  <2> QED BY <2>1, <2>2, <2>3
<1>2. \A j \in Line!BagToSet(jobs) : LineWell(j) /\ LineTold(j)'
  BY LineToldStays DEF LineJobsOK
<1> QED BY <1>1, <1>2 DEF LineJobsOK, LineWell

LEMMA JobsAreWell ==
    /\ \A why \in {"diff", "none"} : LineWell(Line!Fetch(why, Nobody))
    /\ \A why \in LineWhy, s \in Shows : LineWell(Line!Fetch(why, s)) /\ LineWell(Line!Look(why, s))
    /\ LineWell(Line!Look("reconcile", Nobody)) /\ LineWell(Line!MarksEnd)
    /\ \A l \in Line!List : LineWell(Line!Save(l)) /\ LineWell(Line!Refresh(l)) /\ Line!Save(l).list = l /\ Line!Save(l).kind = "save"
    /\ \A why \in LineWhy, s \in Shows : LineWell(Line!Job("status", why, s, Line!NoList))
    /\ \A why \in LineWhy, s \in Shows \cup {Nobody} : Line!Fetch(why, s).kind = "fetch" /\ Line!Look(why, s).kind = "look"
    /\ \A l \in Line!List : Line!Refresh(l).kind = "fetch"
    /\ Line!MarksEnd.kind = "marks"
    /\ \A why \in LineWhy, s \in Shows : Line!Job("status", why, s, Line!NoList).kind = "status"
<1>1. Line!NoList \in Line!List
  BY LineAssumption DEF Line!NoList, Line!List
<1>2. Nobody \in Shows \cup {Nobody}
  OBVIOUS
<1>3. \A why \in LineWhy, s \in Shows \cup {Nobody} :
         /\ Line!Fetch(why, s) \in LineJob /\ Line!Fetch(why, s).kind = "fetch"
         /\ Line!Fetch(why, s).why = why /\ Line!Fetch(why, s).show = s
  BY <1>1 DEF Line!Fetch, Line!Job, LineJob
<1>4. \A why \in LineWhy, s \in Shows \cup {Nobody} :
         /\ Line!Look(why, s) \in LineJob /\ Line!Look(why, s).kind = "look"
         /\ Line!Look(why, s).why = why /\ Line!Look(why, s).show = s
  BY <1>1 DEF Line!Look, Line!Job, LineJob
<1>5. ASSUME NEW l \in Line!List
      PROVE  LineWell(Line!Refresh(l)) /\ Line!Refresh(l).kind = "fetch"
  <2>1. PICK j : j = Line!Fetch("diff", Nobody)
    OBVIOUS
  <2>2. j \in LineJob /\ j.kind = "fetch" /\ j.why = "diff" /\ j.show = Nobody
    BY <1>1, <1>2, <2>1 DEF Line!Fetch, Line!Job, LineJob, LineWhy
  <2>3. Line!Refresh(l) = [j EXCEPT !.old = l]
    BY <2>1 DEF Line!Refresh
  <2>4. Line!Refresh(l) \in LineJob /\ Line!Refresh(l).kind = "fetch" /\ Line!Refresh(l).why = "diff"
    BY <2>2, <2>3 DEF LineJob
  <2> QED BY <2>4 DEF LineWell, OfShow
<1>6. \A l \in Line!List : LineWell(Line!Save(l)) /\ Line!Save(l).list = l /\ Line!Save(l).kind = "save"
  <2>1. ASSUME NEW l \in Line!List
        PROVE  Line!Save(l) \in LineJob /\ Line!Save(l).list = l /\ Line!Save(l).kind = "save"
    BY <1>1 DEF Line!Save, Line!Job, LineJob, LineWhy
  <2> QED BY <2>1 DEF LineWell, OfShow
<1>7. LineWell(Line!Fetch("diff", Nobody)) /\ LineWell(Line!Fetch("none", Nobody))
  <2>1. /\ Line!Fetch("diff", Nobody) \in LineJob /\ Line!Fetch("diff", Nobody).kind = "fetch"
        /\ Line!Fetch("diff", Nobody).why = "diff"
    BY <1>1 DEF Line!Fetch, Line!Job, LineJob, LineWhy
  <2>2. /\ Line!Fetch("none", Nobody) \in LineJob /\ Line!Fetch("none", Nobody).kind = "fetch"
        /\ Line!Fetch("none", Nobody).why = "none"
    BY <1>1 DEF Line!Fetch, Line!Job, LineJob, LineWhy
  <2> QED BY <2>1, <2>2 DEF LineWell, OfShow
<1>8. \A why \in LineWhy, s \in Shows : LineWell(Line!Fetch(why, s)) /\ LineWell(Line!Look(why, s))
  <2> SUFFICES ASSUME NEW why \in LineWhy, NEW s \in Shows
               PROVE  LineWell(Line!Fetch(why, s)) /\ LineWell(Line!Look(why, s))
    OBVIOUS
  <2>1. Line!Fetch(why, s) \in LineJob /\ Line!Fetch(why, s).show = s
    BY <1>3
  <2>2. Line!Look(why, s) \in LineJob /\ Line!Look(why, s).show = s
    BY <1>4
  <2> QED BY <2>1, <2>2 DEF LineWell
<1>9. LineWell(Line!Look("reconcile", Nobody))
  <2>1. /\ Line!Look("reconcile", Nobody) \in LineJob /\ Line!Look("reconcile", Nobody).kind = "look"
        /\ Line!Look("reconcile", Nobody).why = "reconcile"
    BY <1>1 DEF Line!Look, Line!Job, LineJob, LineWhy
  <2> QED BY <2>1 DEF LineWell, OfShow
<1>10. LineWell(Line!MarksEnd) /\ Line!MarksEnd.kind = "marks"
  <2>1. Line!MarksEnd \in LineJob /\ Line!MarksEnd.kind = "marks"
    BY <1>1 DEF Line!MarksEnd, Line!Job, LineJob, LineWhy
  <2> QED BY <2>1 DEF LineWell, OfShow
<1>11. \A why \in LineWhy, s \in Shows :
         LineWell(Line!Job("status", why, s, Line!NoList)) /\ Line!Job("status", why, s, Line!NoList).kind = "status"
  <2> SUFFICES ASSUME NEW why \in LineWhy, NEW s \in Shows
               PROVE  LineWell(Line!Job("status", why, s, Line!NoList)) /\ Line!Job("status", why, s, Line!NoList).kind = "status"
    OBVIOUS
  <2>1. /\ Line!Job("status", why, s, Line!NoList) \in LineJob /\ Line!Job("status", why, s, Line!NoList).kind = "status"
        /\ Line!Job("status", why, s, Line!NoList).show = s
    BY <1>1 DEF Line!Job, LineJob
  <2> QED BY <2>1 DEF LineWell
<1> QED BY <1>3, <1>4, <1>5, <1>6, <1>7, <1>8, <1>9, <1>10, <1>11

\* A new job that carries no list has nothing to tell.
LEMMA NothingTold ==
    ASSUME NEW j, j.kind \notin {"answer", "save"}
    PROVE  LineTold(j) /\ LineTold(j)'
BY DEF LineTold

-----------------------------------------------------------------------------
(* Cards of the line, and the posters *)

\* Of the cards of the line only those of S begin to leave.
LeavesOnly(S) ==
    /\ line' \in [Shows -> Line!Card \cup {Nobody}] /\ row' \in [Shows -> Line!Card \cup {Nobody}]
    /\ \A s \in Shows : line'[s] # Nobody /\ line'[s].leaving => (line[s] # Nobody /\ line[s].leaving) \/ s \in S

LEMMA CardsChange ==
    ASSUME NEW card \in Line!Card \cup {Nobody}, NEW n \in Line!Left
    PROVE  /\ Line!Marked(card, n) \in Line!Card \cup {Nobody} /\ Line!Leaving(card) \in Line!Card \cup {Nobody}
           /\ Line!Marked(card, n) # Nobody /\ Line!Marked(card, n).leaving => card # Nobody /\ card.leaving
           /\ n # Nobody => Line!Put(n) \in Line!Card /\ ~Line!Put(n).leaving
BY DEF Line!Marked, Line!Leaving, Line!Put, Line!Card

LEMMA CardsUpdated ==
    ASSUME LineCards, NEW s \in Shows, NEW n \in Line!Left, Line!UpdateAllCards(s, n)
    PROVE  LeavesOnly({})
BY CardsChange DEF LineCards, Line!UpdateAllCards, LeavesOnly

LEMMA CardCompleted ==
    ASSUME LineCards, NEW s \in Shows
    PROVE  /\ Line!CompletedRow(s) \in Line!Card \cup {Nobody} /\ Line!CompletedLine(s) \in Line!Card \cup {Nobody}
<1>1. 0 \in Line!Left
  BY LineAssumption DEF Line!Left
<1>2. line[s] \in Line!Card \cup {Nobody} /\ row[s] \in Line!Card \cup {Nobody}
  BY DEF LineCards
<1>3. Line!Marked(line[s], 0) \in Line!Card \cup {Nobody} /\ Line!Marked(row[s], 0) \in Line!Card \cup {Nobody}
  BY <1>1, <1>2, CardsChange
<1> QED BY <1>1, <1>2, <1>3, CardsChange DEF Line!CompletedRow, Line!CompletedLine

LEMMA CardCompletes ==
    ASSUME LineCards, NEW s \in Shows, Line!CompleteCard(s)
    PROVE  LeavesOnly({s})
BY CardCompleted DEF LineCards, Line!CompleteCard, LeavesOnly

LEMMA CardsStay ==
    ASSUME LineCards, UNCHANGED <<line, row>>
    PROVE  LeavesOnly({})
BY DEF LineCards, LeavesOnly

LEMMA CardsKept ==
    ASSUME LineCards, NEW S, LeavesOnly(S), gone \subseteq gone', behind \subseteq behind',
           S \cap Shows \subseteq gone' \cup behind'
    PROVE  LineCards'
BY DEF LineCards, LeavesOnly, Line!OnlyGoneShowsLeave

\* The poster of an open card is marked, completed or cleared.
LEMMA PosterMarked ==
    ASSUME LinePosters, NEW s \in Shows, NEW n \in Line!Left, Line!OnTop(s), Line!UpdatePoster(s, n), UNCHANGED stack
    PROVE  LinePosters'
<1>1. [of |-> s, left |-> n] \in Line!Mark
  BY DEF Line!Mark
<1>2. stack # <<>> /\ Len(poster) = Len(stack) /\ poster # <<>> /\ 1 \in DOMAIN poster
  BY DEF LinePosters, Line!OnTop
<1>3. poster' = [poster EXCEPT ![1] = [of |-> s, left |-> n]]
  BY <1>2 DEF Line!UpdatePoster
<1>4. poster' \in Seq(Line!Mark) /\ Len(poster') = Len(poster) /\ DOMAIN poster' = DOMAIN poster
  BY <1>1, <1>2, <1>3 DEF LinePosters
<1>5. Line!MarksOfOpenCard'
  <2> SUFFICES ASSUME NEW i \in DOMAIN poster
               PROVE  poster'[i].of \in {Nobody, stack[i]} \/ (i = 1 /\ misplaced')
    BY <1>4 DEF Line!MarksOfOpenCard
  <2>1. CASE i = 1
    <3>1. poster'[1].of = s
      BY <1>2, <1>3
    <3>2. misplaced' = (misplaced \/ stack[1] # s)
      BY DEF Line!UpdatePoster
    <3>3. stack[1] = s \/ misplaced'
      BY <3>2, Zenon
    <3> QED BY <2>1, <3>1, <3>3
  <2>2. CASE i # 1
    BY <1>3, <2>2 DEF LinePosters, Line!MarksOfOpenCard
  <2> QED BY <2>1, <2>2
<1> QED BY <1>4, <1>5 DEF LinePosters, Line!UpdatePoster

LEMMA PosterCleared ==
    ASSUME LinePosters, NEW m \in Line!Mark, m.of = Nobody \/ (poster # <<>> /\ m.of = poster[1].of),
           poster' = (IF poster = <<>> THEN poster ELSE [poster EXCEPT ![1] = m]),
           UNCHANGED <<stack, misplaced>>
    PROVE  LinePosters'
<1>1. CASE poster = <<>>
  BY <1>1 DEF LinePosters, Line!MarksOfOpenCard
<1>2. CASE poster # <<>>
  <2>1. poster' = [poster EXCEPT ![1] = m] /\ 1 \in DOMAIN poster
    BY <1>2 DEF LinePosters
  <2>2. poster' \in Seq(Line!Mark) /\ Len(poster') = Len(poster) /\ DOMAIN poster' = DOMAIN poster
    BY <2>1 DEF LinePosters
  <2>3. Line!MarksOfOpenCard'
    BY <2>1, <2>2 DEF LinePosters, Line!MarksOfOpenCard
  <2> QED BY <2>2, <2>3 DEF LinePosters
<1> QED BY <1>1, <1>2

LEMMA PosterCompletes ==
    ASSUME LinePosters, Line!CompletePoster, UNCHANGED stack
    PROVE  LinePosters'
<1>1. CASE ~Line!HasMarks
  BY <1>1 DEF LinePosters, Line!MarksOfOpenCard, Line!CompletePoster
<1>2. CASE Line!HasMarks
  <2>1. poster # <<>> /\ 1 \in DOMAIN poster /\ poster[1] \in Line!Mark
    BY <1>2 DEF Line!HasMarks, LinePosters
  <2>2. PICK m : m = [poster[1] EXCEPT !.left = 0]
    OBVIOUS
  <2>3. m \in Line!Mark /\ m.of = poster[1].of
    BY <2>1, <2>2, LineAssumption DEF Line!Mark, Line!Left
  <2>4. poster' = [poster EXCEPT ![1] = m] /\ misplaced' = misplaced
    BY <1>2, <2>2 DEF Line!CompletePoster
  <2> QED BY <2>1, <2>3, <2>4, PosterCleared
<1> QED BY <1>1, <1>2

LEMMA PostersStay ==
    ASSUME LinePosters, UNCHANGED <<stack, Line!posters>>
    PROVE  LinePosters'
BY DEF LinePosters, Line!posters, Line!MarksOfOpenCard

LEMMA UnmarkedIsMark == Line!Unmarked \in Line!Mark /\ Line!Unmarked.of = Nobody
BY DEF Line!Unmarked, Line!Mark, Line!Left

LEMMA EventCounted ==
    ASSUME LineData, Line!Event \/ UNCHANGED events
    PROVE  events' \in 0..LineEvents
BY LineAssumption DEF LineData, Line!Event

LEMMA DataStays ==
    ASSUME LineData, events' \in 0..LineEvents, UNCHANGED <<account, saved, results, gone, behind>>,
           last' \in Shows \cup {Nobody}, dirty' \in BOOLEAN
    PROVE  LineData'
BY DEF LineData

\* The account's list changes: a show out of it is noted.
LEMMA AccountChanges ==
    ASSUME LineData, account' \in Line!List, gone' = Line!GoneNow(account'), events' \in 0..LineEvents,
           UNCHANGED <<saved, results, behind>>, last' \in Shows \cup {Nobody}, dirty' \in BOOLEAN
    PROVE  LineData' /\ gone \subseteq gone'
<1>1. gone \subseteq gone' /\ gone' \subseteq Shows
  BY DEF Line!GoneNow, LineData
<1>2. \A s \in Shows : account'[s] = 0 => s \in gone'
  BY DEF Line!GoneNow
<1> QED BY <1>1, <1>2 DEF LineData

\* What a step has to keep.
LEMMA LineGoesOn ==
    ASSUME LineInv, gone \subseteq gone', behind \subseteq behind',
           NEW S, LeavesOnly(S), S \cap Shows \subseteq gone' \cup behind',
           NEW x, NEW T, Line!GoesOn(x, T) \/ Line!Start(T) \/ (jobs' = jobs /\ T = {}),
           \A j \in T : LineWell(j) /\ LineTold(j)',
           LineData', LinePosters'
    PROVE  LineInv'
<1>1. LineJobsOK'
  BY JobsGoOn DEF LineInv
<1>2. LineCards'
  BY CardsKept DEF LineInv
<1> QED BY <1>1, <1>2 DEF LineInv

\* A step of the jobs alone.
LEMMA LineJobsOnly ==
    ASSUME LineInv, NEW x, NEW T, Line!GoesOn(x, T) \/ Line!Start(T),
           \A j \in T : LineWell(j) /\ LineTold(j)',
           Line!Event \/ UNCHANGED events,
           UNCHANGED <<account, saved, results, Line!dom, stack, last, dirty, gone, behind>>
    PROVE  LineInv'
<1>1. UNCHANGED <<line, row>> /\ UNCHANGED Line!posters
  BY DEF Line!dom
<1>2. LeavesOnly({})
  BY <1>1, CardsStay DEF LineInv
<1>3. LinePosters'
  BY <1>1, PostersStay DEF LineInv
<1>4. LineData'
  BY EventCounted, DataStays DEF LineInv, LineData
<1> QED BY <1>2, <1>3, <1>4, LineGoesOn

LEMMA JobIsWell ==
    ASSUME LineInv, NEW j \in Line!BagToSet(jobs)
    PROVE  LineWell(j) /\ LineTold(j) /\ j \in LineJob
BY DEF LineInv, LineJobsOK, LineWell

LEMMA LookIsOfShow ==
    ASSUME LineInv, NEW j \in Line!BagToSet(jobs), NEW why, Line!Looks(j, why), why # "reconcile"
    PROVE  j.show \in Shows
BY JobIsWell DEF Line!Looks, LineWell, OfShow

-----------------------------------------------------------------------------
(* The viewer, and the account on the site *)

LEMMA LineStart == Line!Init => LineInv
<1> SUFFICES ASSUME Line!Init PROVE LineInv
  OBVIOUS
<1>1. LineJobsOK
  <2>1. jobs = Line!SetToBag({Line!Refresh(saved)}) /\ saved \in Line!List
    BY DEF Line!Init
  <2>2. Line!IsABag(jobs) /\ Line!BagToSet(jobs) = {Line!Refresh(saved)}
    BY <2>1 DEF Line!BagToSet, Line!SetToBag, Line!IsABag
  <2>3. LineWell(Line!Refresh(saved)) /\ LineTold(Line!Refresh(saved))
    BY <2>1, JobsAreWell, NothingTold
  <2> QED BY <2>2, <2>3 DEF LineJobsOK
<1>2. LineData
  <2>1. account \in Line!List /\ saved \in Line!List /\ results \subseteq Shows
    BY DEF Line!Init, Line!In
  <2>2. last = Nobody /\ dirty = FALSE /\ events = 0 /\ 0 \in 0..LineEvents
    BY LineAssumption DEF Line!Init
  <2>3. gone = {s \in Shows : account[s] = 0 \/ saved[s] = 0} /\ behind = {}
    BY DEF Line!Init
  <2> QED BY <2>1, <2>2, <2>3 DEF LineData
<1>3. LineCards
  <2>1. saved \in Line!List
    BY DEF Line!Init
  <2>2. ASSUME NEW s \in Shows
        PROVE  /\ line[s] \in Line!Card \cup {Nobody} /\ row[s] \in Line!Card \cup {Nobody}
               /\ ~(line[s] # Nobody /\ line[s].leaving)
    <3>1. saved[s] \in Line!Left
      BY <2>1 DEF Line!List, Line!Left
    <3>2. Line!Put(saved[s]) \in Line!Card /\ ~Line!Put(saved[s]).leaving /\ Line!Put(Nobody) \in Line!Card
      BY <3>1 DEF Line!Put, Line!Card, Line!Left
    <3> QED BY <3>2 DEF Line!Init
  <2> QED BY <2>2 DEF LineCards, Line!OnlyGoneShowsLeave, Line!Init
<1>4. LinePosters
  <2>1. stack = <<>> /\ poster = <<>> /\ misplaced = FALSE
    BY DEF Line!Init
  <2>2. Len(stack) = 0 /\ Len(poster) = 0 /\ stack \in Seq(Shows) /\ poster \in Seq(Line!Mark) /\ Depth \in Nat
    BY <2>1, LineAssumption
  <2>3. DOMAIN poster = {}
    BY <2>2
  <2>4. Line!MarksOfOpenCard
    BY <2>3 DEF Line!MarksOfOpenCard
  <2>5. misplaced \in BOOLEAN
    BY <2>1
  <2>6. Len(poster) = Len(stack) /\ Len(stack) <= Depth
    BY <2>2
  <2> QED BY <2>2, <2>4, <2>5, <2>6 DEF LinePosters
<1> QED BY <1>1, <1>2, <1>3, <1>4 DEF LineInv

LEMMA LineWatch ==
    ASSUME LineInv, NEW s \in Shows, Line!Watch(s)
    PROVE  LineInv'
<1>1. account' \in Line!List
  <2>1. account \in Line!List /\ account[s] > 0 /\ account' = [account EXCEPT ![s] = @ - 1]
    BY DEF LineInv, LineData, Line!Watch
  <2>2. account[s] - 1 \in 0..Most
    BY <2>1, LineAssumption DEF Line!List
  <2> QED BY <2>1, <2>2 DEF Line!List
<1>2. LineData' /\ gone \subseteq gone'
  BY <1>1, AccountChanges, EventCounted DEF LineInv, LineData, Line!Watch
<1>3. LineWell(Line!Look("mark", s)) /\ LineTold(Line!Look("mark", s))'
  <2>1. "mark" \in LineWhy
    BY DEF LineWhy
  <2> QED BY <2>1, JobsAreWell, NothingTold
<1>4. UNCHANGED <<line, row>> /\ UNCHANGED Line!posters /\ UNCHANGED stack
  BY DEF Line!Watch, Line!dom
<1>5. LeavesOnly({}) /\ LinePosters'
  BY <1>4, CardsStay, PostersStay DEF LineInv
<1>6. Line!Start({Line!Look("mark", s)}) /\ behind' = behind
  BY DEF Line!Watch
<1> QED BY <1>2, <1>3, <1>5, <1>6, LineGoesOn

LEMMA LineSiteChange ==
    ASSUME LineInv, NEW s \in Shows, NEW n \in 0..Most, Line!SiteChange(s, n)
    PROVE  LineInv'
<1>1. account' \in Line!List
  BY DEF LineInv, LineData, Line!SiteChange, Line!List
<1>2. LineData' /\ gone \subseteq gone'
  BY <1>1, AccountChanges, EventCounted DEF LineInv, LineData, Line!SiteChange
<1>3. UNCHANGED <<line, row>> /\ UNCHANGED Line!posters /\ UNCHANGED stack
  BY DEF Line!SiteChange, Line!dom
<1>4. LeavesOnly({}) /\ LinePosters'
  BY <1>3, CardsStay, PostersStay DEF LineInv
<1>5. jobs' = jobs /\ behind' = behind
  BY DEF Line!SiteChange
<1> QED BY <1>2, <1>4, <1>5, LineGoesOn

LEMMA LineOpenCard ==
    ASSUME LineInv, NEW s \in Shows, Line!OpenCard(s)
    PROVE  LineInv'
<1>1. LinePosters'
  <2>1. stack' = Append(stack, s) /\ poster' = Append(poster, Line!Unmarked) /\ misplaced' = misplaced
    BY DEF Line!OpenCard
  <2>2. /\ stack \in Seq(Shows) /\ poster \in Seq(Line!Mark) /\ Len(poster) = Len(stack)
        /\ Len(stack) <= Depth /\ Len(stack) < Depth /\ Depth \in Nat
    BY LineAssumption DEF LineInv, LinePosters, Line!OpenCard
  <2>3. stack' \in Seq(Shows) /\ poster' \in Seq(Line!Mark) /\ Len(poster') = Len(stack') /\ Len(stack') <= Depth
    BY <2>1, <2>2, UnmarkedIsMark
  <2>4. Line!MarksOfOpenCard'
    <3> SUFFICES ASSUME NEW i \in DOMAIN poster'
                 PROVE  poster'[i].of \in {Nobody, stack'[i]} \/ (i = 1 /\ misplaced')
      BY DEF Line!MarksOfOpenCard
    <3>1. CASE i \in DOMAIN poster
      <4>1. poster'[i] = poster[i] /\ stack'[i] = stack[i]
        BY <2>1, <2>2, <3>1
      <4>2. poster[i].of \in {Nobody, stack[i]} \/ (i = 1 /\ misplaced)
        BY <3>1 DEF LineInv, LinePosters, Line!MarksOfOpenCard
      <4> QED BY <2>1, <4>1, <4>2
    <3>2. CASE i \notin DOMAIN poster
      <4>1. poster'[i] = Line!Unmarked
        BY <2>1, <2>2, <3>2
      <4> QED BY <4>1, UnmarkedIsMark
    <3> QED BY <3>1, <3>2
  <2>5. misplaced' \in BOOLEAN
    BY <2>1 DEF LineInv, LinePosters
  <2> QED BY <2>3, <2>4, <2>5 DEF LinePosters
<1>2. LineData'
  BY EventCounted, DataStays DEF LineInv, LineData, Line!OpenCard
<1>3. LineWell(Line!Look("open", s)) /\ LineTold(Line!Look("open", s))'
  <2>1. "open" \in LineWhy
    BY DEF LineWhy
  <2> QED BY <2>1, JobsAreWell, NothingTold
<1>4. LeavesOnly({})
  BY CardsStay DEF LineInv, Line!OpenCard
<1>5. Line!Start({Line!Look("open", s)}) /\ gone' = gone /\ behind' = behind
  BY DEF Line!OpenCard
<1> QED BY <1>1, <1>2, <1>3, <1>4, <1>5, LineGoesOn

LEMMA LineReturnToCard ==
    ASSUME LineInv, NEW s \in Shows, Line!ReturnToCard(s)
    PROVE  LineInv'
<1>1. LineWell(Line!Fetch("full", s)) /\ LineTold(Line!Fetch("full", s))'
  <2>1. "full" \in LineWhy
    BY DEF LineWhy
  <2> QED BY <2>1, JobsAreWell, NothingTold
<1>2. Line!Start({Line!Fetch("full", s)})
  BY DEF Line!ReturnToCard
<1>3. Line!Event /\ UNCHANGED <<account, saved, results, Line!dom, stack, last, dirty, gone, behind>>
  BY DEF Line!ReturnToCard
<1> QED BY <1>1, <1>2, <1>3, LineJobsOnly

LEMMA LinePressButton ==
    ASSUME LineInv, NEW s \in Shows, Line!PressButton(s)
    PROVE  LineInv'
<1>1. PICK why : why = (IF account[s] > 0 THEN "leave" ELSE "watch")
  OBVIOUS
<1>2. why \in LineWhy
  BY <1>1 DEF LineWhy
<1>3. LineWell(Line!Job("status", why, s, Line!NoList)) /\ LineTold(Line!Job("status", why, s, Line!NoList))'
  BY <1>2, JobsAreWell, NothingTold
<1>4. Line!Start({Line!Job("status", why, s, Line!NoList)})
  BY <1>1 DEF Line!PressButton
<1>5. Line!Event /\ UNCHANGED <<account, saved, results, Line!dom, stack, last, dirty, gone, behind>>
  BY DEF Line!PressButton
<1> QED BY <1>3, <1>4, <1>5, LineJobsOnly

LEMMA LineBack ==
    ASSUME LineInv, Line!Back
    PROVE  LineInv'
<1>1. /\ stack \in Seq(Shows) /\ poster \in Seq(Line!Mark) /\ Len(poster) = Len(stack)
      /\ Len(stack) <= Depth /\ stack # <<>> /\ Len(stack) \in Nat /\ Len(stack) >= 1 /\ Depth \in Nat
  BY LineAssumption DEF LineInv, LinePosters, Line!Back
<1>2. /\ stack' = SubSeq(stack, 1, Len(stack) - 1)
      /\ poster' = SubSeq(poster, 1, Len(poster) - 1)
      /\ misplaced' = misplaced
  BY DEF Line!Back
<1>3. LinePosters'
  <2>1. stack' \in Seq(Shows) /\ Len(stack') = Len(stack) - 1
    BY <1>1, <1>2
  <2>2. poster' \in Seq(Line!Mark) /\ Len(poster') = Len(poster) - 1
    BY <1>1, <1>2
  <2>3. Line!MarksOfOpenCard'
    <3> SUFFICES ASSUME NEW i \in DOMAIN poster'
                 PROVE  poster'[i].of \in {Nobody, stack'[i]} \/ (i = 1 /\ misplaced')
      BY DEF Line!MarksOfOpenCard
    <3>1. i \in DOMAIN poster /\ poster'[i] = poster[i] /\ stack'[i] = stack[i]
      BY <1>1, <1>2, <2>2
    <3>2. poster[i].of \in {Nobody, stack[i]} \/ (i = 1 /\ misplaced)
      BY <3>1 DEF LineInv, LinePosters, Line!MarksOfOpenCard
    <3> QED BY <1>2, <3>1, <3>2
  <2> QED BY <1>1, <1>2, <2>1, <2>2, <2>3 DEF LineInv, LinePosters
<1>4. LineData'
  <2>1. last' \in Shows \cup {Nobody} /\ dirty' \in BOOLEAN /\ events' \in 0..LineEvents
    BY DEF Line!Back, LineInv, LineData
  <2> QED BY <2>1, DataStays DEF LineInv, Line!Back
<1>5. LineCards'
  <2>1. LeavesOnly({}) /\ gone' = gone /\ behind' = behind
    BY CardsStay DEF LineInv, Line!Back
  <2> QED BY <2>1, CardsKept DEF LineInv
<1>6. LineJobsOK'
  <2>1. CASE Len(stack) # 1
    <3>1. jobs' = jobs /\ gone' = gone /\ behind' = behind
      BY <2>1 DEF Line!Back
    <3> QED BY <3>1, JobsGoOn DEF LineInv
  <2>2. CASE Len(stack) = 1
    <3>1. PICK rest : rest = [j \in Line!BagToSet(jobs) \ {Line!MarksEnd} |-> jobs[j]]
      OBVIOUS
    <3>2. Line!IsABag(rest) /\ Line!BagToSet(rest) \subseteq Line!BagToSet(jobs)
      BY <3>1 DEF LineInv, LineJobsOK, Line!IsABag, Line!BagToSet
    <3>3. jobs' = Line!(+)(rest, Line!SetToBag(Line!Returns(stack[1])))
      BY <2>2, <3>1 DEF Line!Back
    <3>4. Line!IsABag(jobs') /\ Line!BagToSet(jobs') = Line!BagToSet(rest) \cup Line!Returns(stack[1])
      BY <3>2, <3>3, JobsGain
    <3>5. \A j \in Line!Returns(stack[1]) : LineWell(j) /\ LineTold(j)'
      <4>1. PICK s : s = stack[1]
        OBVIOUS
      <4>2. s \in Shows /\ last \in Shows \cup {Nobody}
        BY <1>1, <4>1 DEF LineInv, LineData
      <4>3. "section" \in LineWhy /\ "cards" \in LineWhy
        BY DEF LineWhy
      <4>4. LineWell(Line!Look("reconcile", Nobody)) /\ LineTold(Line!Look("reconcile", Nobody))'
        <5>1. Line!Look("reconcile", Nobody).kind = "look"
          BY DEF Line!Look, Line!Job
        <5> QED BY <5>1, JobsAreWell, NothingTold
      <4>5. LineWell(Line!Look("cards", s)) /\ LineTold(Line!Look("cards", s))'
        BY <4>2, <4>3, JobsAreWell, NothingTold
      <4>6. ASSUME NEW j \in Line!Returns(s)
            PROVE  LineWell(j) /\ LineTold(j)'
        <5>1. CASE j = Line!Look("reconcile", Nobody) \/ j = Line!Look("cards", s)
          BY <4>4, <4>5, <5>1
        <5>2. CASE last # Nobody /\ j = Line!Fetch("section", last)
          <6>1. PICK t \in Shows : t = last
            BY <4>2, <5>2
          <6>2. LineWell(Line!Fetch("section", t)) /\ Line!Fetch("section", t).kind = "fetch"
            BY <4>3, JobsAreWell
          <6>3. LineWell(j) /\ j.kind = "fetch"
            BY <5>2, <6>1, <6>2
          <6> QED BY <6>3, NothingTold
        <5> QED BY <5>1, <5>2 DEF Line!Returns
      <4> QED BY <4>1, <4>6
    <3>6. \A j \in Line!BagToSet(jobs) : LineWell(j) /\ LineTold(j)'
      BY LineToldStays DEF LineInv, LineJobsOK, Line!Back
    <3>7. \A j \in Line!BagToSet(jobs') : LineWell(j) /\ LineTold(j)'
      BY <3>2, <3>4, <3>5, <3>6
    <3> QED BY <3>4, <3>7 DEF LineJobsOK, LineWell
  <2> QED BY <2>1, <2>2
<1> QED BY <1>3, <1>4, <1>5, <1>6 DEF LineInv
-----------------------------------------------------------------------------
(* The service and the storage answer *)

LEMMA TracesRemoved ==
    ASSUME LineCards, LinePosters, NEW s \in Shows, Line!RemoveTraces(s), UNCHANGED stack
    PROVE  LeavesOnly({s}) /\ LinePosters'
<1>1. LinePosters'
  <2>1. PICK m : m = Line!Unmarked
    OBVIOUS
  <2>2. m \in Line!Mark /\ m.of = Nobody
    BY <2>1, UnmarkedIsMark
  <2>3. /\ poster' = (IF poster = <<>> THEN poster ELSE [poster EXCEPT ![1] = m])
        /\ UNCHANGED <<stack, misplaced>>
    BY <2>1 DEF Line!RemoveTraces
  <2> QED BY <2>2, <2>3, PosterCleared
<1>2. LeavesOnly({s})
  <2>1. Nobody \in Line!Left /\ row[s] \in Line!Card \cup {Nobody} /\ line[s] \in Line!Card \cup {Nobody}
    BY DEF Line!Left, LineCards
  <2>2. Line!Marked(row[s], Nobody) \in Line!Card \cup {Nobody} /\ Line!Marked(line[s], Nobody) \in Line!Card \cup {Nobody}
    BY <2>1, CardsChange
  <2>3. PICK m \in Line!Card \cup {Nobody} : m = Line!Marked(line[s], Nobody)
    BY <2>2
  <2>4. Line!Leaving(m) \in Line!Card \cup {Nobody}
    BY <2>1, CardsChange
  <2>5. row' = [row EXCEPT ![s] = Line!Marked(row[s], Nobody)] /\ line' = [line EXCEPT ![s] = Line!Leaving(m)]
    BY <2>3 DEF Line!RemoveTraces
  <2> QED BY <2>2, <2>4, <2>5 DEF LeavesOnly, LineCards
<1> QED BY <1>1, <1>2

LEMMA LineStatusSet ==
    ASSUME LineInv, NEW j \in Line!BagToSet(jobs), NEW n \in 0..Most, Line!StatusSet(j, n)
    PROVE  LineInv'
<1>1. PICK s \in Shows : s = j.show
  BY JobIsWell DEF LineWell, OfShow, Line!StatusSet
<1>2. account' = [account EXCEPT ![s] = IF j.why = "leave" THEN 0 ELSE n] /\ account' \in Line!List
  BY <1>1, LineAssumption DEF Line!StatusSet, LineInv, LineData, Line!List
<1>3. LineData' /\ gone \subseteq gone'
  <2>1. gone' = Line!GoneNow(account') /\ dirty' = TRUE /\ UNCHANGED <<saved, results, stack, last, events, behind>>
    BY DEF Line!StatusSet
  <2>2. last' \in Shows \cup {Nobody} /\ events' \in 0..LineEvents /\ dirty' \in BOOLEAN
    BY <2>1 DEF LineInv, LineData
  <2> QED BY <1>2, <2>1, <2>2, AccountChanges DEF LineInv
<1>4. behind' = behind /\ UNCHANGED stack
  BY DEF Line!StatusSet
<1>5. LineWell(Line!Fetch("none", Nobody)) /\ LineTold(Line!Fetch("none", Nobody))'
  <2>1. Line!Fetch("none", Nobody).kind = "fetch"
    BY DEF Line!Fetch, Line!Job
  <2> QED BY <2>1, JobsAreWell, NothingTold
<1>6. CASE j.why = "leave"
  <2>1. Line!GoesOn(j, {Line!Fetch("none", Nobody)}) /\ Line!RemoveTraces(s)
    BY <1>1, <1>6 DEF Line!StatusSet
  <2>2. LeavesOnly({s}) /\ LinePosters'
    BY <1>4, <2>1, TracesRemoved DEF LineInv
  <2>3. s \in gone'
    BY <1>2, <1>6 DEF Line!StatusSet, Line!GoneNow, LineInv, LineData, Line!List
  <2> QED BY <1>3, <1>4, <1>5, <2>1, <2>2, <2>3, LineGoesOn
<1>7. CASE j.why # "leave"
  <2>1. Line!GoesOn(j, {Line!Fetch("none", Nobody), Line!Look("traces", s)}) /\ UNCHANGED Line!dom
    BY <1>1, <1>7 DEF Line!StatusSet
  <2>2. UNCHANGED <<line, row>> /\ UNCHANGED Line!posters
    BY <2>1 DEF Line!dom
  <2>3. LeavesOnly({}) /\ LinePosters'
    BY <1>4, <2>2, CardsStay, PostersStay DEF LineInv
  <2>4. LineWell(Line!Look("traces", s)) /\ LineTold(Line!Look("traces", s))'
    <3>1. "traces" \in LineWhy
      BY DEF LineWhy
    <3> QED BY <3>1, JobsAreWell, NothingTold
  <2>5. PICK T : T = {Line!Fetch("none", Nobody), Line!Look("traces", s)}
    OBVIOUS
  <2>6. \A i \in T : LineWell(i) /\ LineTold(i)'
    BY <1>5, <2>4, <2>5
  <2> QED BY <1>3, <1>4, <2>1, <2>3, <2>5, <2>6, LineGoesOn
<1> QED BY <1>6, <1>7

LEMMA LineAnswer ==
    ASSUME LineInv, NEW j \in Line!BagToSet(jobs), Line!Answer(j)
    PROVE  LineInv'
<1>1. PICK i : i = [j EXCEPT !.kind = "answer", !.list = account]
  OBVIOUS
<1>2. j \in LineJob /\ LineWell(j) /\ j.kind = "fetch" /\ account \in Line!List
  BY JobIsWell DEF Line!Answer, LineInv, LineData
<1>3. /\ i \in LineJob /\ i.kind = "answer" /\ i.why = j.why /\ i.show = j.show
      /\ i.list = account
  BY <1>1, <1>2 DEF LineJob
<1>4. LineWell(i)
  BY <1>2, <1>3 DEF LineWell, OfShow
<1>5. LineTold(i)'
  <2>1. \A s \in Shows : account[s] = 0 => s \in gone
    BY DEF LineInv, LineData
  <2>2. gone' = gone
    BY DEF Line!Answer
  <2> QED BY <1>3, <2>1, <2>2 DEF LineTold
<1>6. Line!GoesOn(j, {i})
  BY <1>1 DEF Line!Answer
<1>7. /\ UNCHANGED events
      /\ UNCHANGED <<account, saved, results, Line!dom, stack, last, dirty, gone, behind>>
  BY DEF Line!Answer
<1> QED BY <1>4, <1>5, <1>6, <1>7, LineJobsOnly

LEMMA FollowIsWell ==
    ASSUME LineInv, NEW j \in Line!BagToSet(jobs), j.kind \in {"fetch", "answer"}
    PROVE  \A i \in Line!Follow(j) : LineWell(i) /\ LineTold(i)'
<1>1. LineWell(j)
  BY JobIsWell
<1>2. "section" \in LineWhy /\ "full" \in LineWhy
  BY DEF LineWhy
<1>3. CASE j.why = "section"
  <2>1. PICK s \in Shows : s = j.show
    BY <1>1, <1>3 DEF LineWell, OfShow
  <2>2. LineWell(Line!Look("section", s)) /\ Line!Look("section", s).kind = "look"
    BY <1>2, JobsAreWell
  <2>3. Line!Follow(j) = {Line!Look("section", s)}
    BY <1>3, <2>1 DEF Line!Follow
  <2> QED BY <2>2, <2>3, NothingTold
<1>4. CASE j.why = "full"
  <2>1. PICK s \in Shows : s = j.show
    BY <1>1, <1>4 DEF LineWell, OfShow
  <2>2. LineWell(Line!Look("full", s)) /\ Line!Look("full", s).kind = "look"
    BY <1>2, JobsAreWell
  <2>3. Line!Follow(j) = {Line!Look("full", s)}
    BY <1>4, <2>1 DEF Line!Follow
  <2> QED BY <2>2, <2>3, NothingTold
<1>5. CASE j.why \notin {"section", "full"}
  BY <1>5 DEF Line!Follow
<1> QED BY <1>3, <1>4, <1>5

LEMMA DiffLeaves ==
    ASSUME LineInv, NEW old \in Line!List, NEW new \in Line!List, Line!Diff(old, new)
    PROVE  LeavesOnly({s \in Shows : new[s] = 0})
<1>1. LineCards
  BY DEF LineInv
<1>2. ASSUME NEW s \in Shows
      PROVE  /\ line[s] \in Line!Card \cup {Nobody} /\ row[s] \in Line!Card \cup {Nobody} /\ new[s] \in Line!Left
             /\ Line!Marked(line[s], new[s]) \in Line!Card \cup {Nobody} /\ Line!Marked(row[s], new[s]) \in Line!Card \cup {Nobody}
             /\ Line!CompletedLine(s) \in Line!Card \cup {Nobody} /\ Line!CompletedRow(s) \in Line!Card \cup {Nobody}
             /\ Line!Marked(line[s], new[s]) # Nobody /\ Line!Marked(line[s], new[s]).leaving
                  => line[s] # Nobody /\ line[s].leaving
  <2>1. line[s] \in Line!Card \cup {Nobody} /\ row[s] \in Line!Card \cup {Nobody}
    BY <1>1 DEF LineCards
  <2>2. new[s] \in Line!Left
    BY DEF Line!List, Line!Left
  <2> QED BY <1>1, <2>1, <2>2, CardsChange, CardCompleted
<1>3. line' = [s \in Shows |-> IF old[s] > 0 /\ new[s] = 0 THEN Line!CompletedLine(s)
                               ELSE IF new[s] > 0 /\ old[s] # new[s] THEN Line!Marked(line[s], new[s]) ELSE line[s]]
  BY DEF Line!Diff
<1>4. row' = [s \in Shows |-> IF old[s] > 0 /\ new[s] = 0 THEN Line!CompletedRow(s)
                              ELSE IF new[s] > 0 /\ old[s] # new[s] /\ old[s] > 0
                              THEN Line!Marked(row[s], new[s]) ELSE row[s]]
  BY DEF Line!Diff
<1>5. row' \in [Shows -> Line!Card \cup {Nobody}]
  BY <1>2, <1>4
<1>6. line' \in [Shows -> Line!Card \cup {Nobody}]
  BY <1>2, <1>3
<1>7. ASSUME NEW s \in Shows, new[s] # 0
      PROVE  line'[s] # Nobody /\ line'[s].leaving => line[s] # Nobody /\ line[s].leaving
  BY <1>2, <1>3, <1>7
<1> QED BY <1>5, <1>6, <1>7 DEF LeavesOnly

LEMMA LineArrive ==
    ASSUME LineInv, NEW j \in Line!BagToSet(jobs), Line!Arrive(j)
    PROVE  LineInv'
<1>1. j \in LineJob /\ LineTold(j) /\ j.kind = "answer"
  BY JobIsWell DEF Line!Arrive
<1>2. PICK l \in Line!List : l = j.list
  BY <1>1 DEF LineJob
<1>3. \A s \in Shows : l[s] = 0 => s \in gone \cup behind
  BY <1>1, <1>2 DEF LineTold
<1>4. gone' = gone /\ behind' = behind
  BY DEF Line!Arrive
<1>5. LineWell(Line!Save(l)) /\ LineTold(Line!Save(l))'
  <2>1. PICK k : k = Line!Save(l)
    OBVIOUS
  <2>2. LineWell(k) /\ k.list = l
    BY <2>1, JobsAreWell
  <2>3. LineTold(k)'
    BY <1>3, <1>4, <2>2 DEF LineTold
  <2> QED BY <2>1, <2>2, <2>3
<1>6. \A i \in {Line!Save(l)} \cup Line!Follow(j) : LineWell(i) /\ LineTold(i)'
  BY <1>1, <1>5, FollowIsWell
<1>7. Line!GoesOn(j, {Line!Save(l)} \cup Line!Follow(j))
  BY <1>2 DEF Line!Arrive
<1>8. PICK S : LeavesOnly(S) /\ S \cap Shows \subseteq gone' \cup behind'
  <2>1. CASE j.why = "diff"
    <3>1. Line!Diff(j.old, l) /\ j.old \in Line!List
      BY <1>1, <1>2, <2>1 DEF Line!Arrive, LineJob
    <3> QED BY <1>3, <1>4, <3>1, DiffLeaves
  <2>2. CASE j.why # "diff"
    BY <2>2, CardsStay DEF LineInv, Line!Arrive
  <2> QED BY <2>1, <2>2
<1>9. LinePosters'
  BY PostersStay DEF LineInv, Line!Arrive
<1>10. LineData'
  BY DataStays DEF LineInv, LineData, Line!Arrive
<1>11. PICK T : T = {Line!Save(l)} \cup Line!Follow(j)
  OBVIOUS
<1>12. Line!GoesOn(j, T) /\ \A i \in T : LineWell(i) /\ LineTold(i)'
  BY <1>6, <1>7, <1>11
<1> QED BY <1>4, <1>8, <1>9, <1>10, <1>12, LineGoesOn

LEMMA LineFails ==
    ASSUME LineInv, NEW j \in Line!BagToSet(jobs), Line!FetchFails(j) \/ Line!SaveFails(j) \/ Line!StatusFails(j)
    PROVE  LineInv'
<1>1. PICK T : Line!GoesOn(j, T) /\ \A i \in T : LineWell(i) /\ LineTold(i)'
  <2>1. CASE Line!FetchFails(j)
    BY <2>1, FollowIsWell DEF Line!FetchFails
  <2>2. CASE Line!SaveFails(j) \/ Line!StatusFails(j)
    BY <2>2 DEF Line!SaveFails, Line!StatusFails
  <2> QED BY <2>1, <2>2
<1>2. Line!Event /\ UNCHANGED <<account, saved, results, Line!dom, stack, last, dirty, gone, behind>>
  BY DEF Line!FetchFails, Line!SaveFails, Line!StatusFails
<1> QED BY <1>1, <1>2, LineJobsOnly

LEMMA LineSaved ==
    ASSUME LineInv, NEW j \in Line!BagToSet(jobs), Line!Saved(j)
    PROVE  LineInv'
<1>1. j \in LineJob /\ LineTold(j) /\ j.kind = "save"
  BY JobIsWell DEF Line!Saved
<1>2. saved' = j.list /\ j.list \in Line!List /\ \A s \in Shows : j.list[s] = 0 => s \in gone \cup behind
  BY <1>1 DEF LineJob, LineTold, Line!Saved
<1>3. LineData'
  BY <1>2 DEF Line!Saved, LineInv, LineData
<1>4. LeavesOnly({}) /\ LinePosters'
  BY CardsStay, PostersStay DEF LineInv, Line!Saved, Line!dom
<1>5. Line!GoesOn(j, {}) /\ gone' = gone /\ behind' = behind
  BY DEF Line!Saved
<1> QED BY <1>3, <1>4, <1>5, LineGoesOn
-----------------------------------------------------------------------------
(* The saved list has been read *)

LEMMA MarksComplete ==
    \A j \in Line!CompleteMarks : LineWell(j) /\ LineTold(j)'
<1>1. Line!MarksEnd.kind = "marks"
  BY DEF Line!MarksEnd, Line!Job
<1> QED BY <1>1, JobsAreWell, NothingTold DEF Line!CompleteMarks

\* The saved list with another number of a show is told of, if zero is not told of too early.
LEMMA SavesWell ==
    ASSUME LineInv, gone \subseteq gone', behind \subseteq behind',
           NEW s \in Shows, NEW n \in 0..Most, n = 0 => s \in gone' \cup behind',
           NEW l, l = [saved EXCEPT ![s] = n]
    PROVE  LineWell(Line!Save(l)) /\ LineTold(Line!Save(l))'
<1>1. saved \in Line!List /\ \A t \in Shows : saved[t] = 0 => t \in gone \cup behind
  BY DEF LineInv, LineData
<1>2. l \in Line!List
  BY <1>1, LineAssumption DEF Line!List
<1>3. \A t \in Shows : l[t] = 0 => t \in gone' \cup behind'
  BY <1>1 DEF Line!List
<1>4. PICK k : k = Line!Save(l)
  OBVIOUS
<1>5. LineWell(k) /\ k.list = l
  BY <1>2, <1>4, JobsAreWell
<1>6. LineTold(k)'
  BY <1>3, <1>5 DEF LineTold
<1> QED BY <1>4, <1>5, <1>6

LEMMA LineMarkLocally ==
    ASSUME LineInv, NEW j \in Line!BagToSet(jobs), Line!MarkLocally(j)
    PROVE  LineInv'
<1>1. PICK s \in Shows : s = j.show
  <2>1. Line!Looks(j, "mark")
    BY DEF Line!MarkLocally
  <2> QED BY <2>1, LookIsOfShow
<1>2. PICK n : n = saved[s] - 1
  OBVIOUS
<1>3. saved[s] \in 0..Most /\ Most \in Nat
  BY LineAssumption DEF LineInv, LineData, Line!List
<1>4. UNCHANGED <<account, saved, results, stack, last, dirty, events, gone>>
  BY DEF Line!MarkLocally
<1>5. CASE saved[s] = 0
  <2>1. Line!GoesOn(j, {}) /\ UNCHANGED <<Line!dom, behind>>
    BY <1>1, <1>5 DEF Line!MarkLocally
  <2> QED BY <1>4, <2>1, LineJobsOnly
<1>6. CASE n = 0
  <2>1. saved[s] # 0 /\ saved[s] = 1
    BY <1>2, <1>3, <1>6
  <2>2. PICK l : l = [saved EXCEPT ![s] = 0]
    OBVIOUS
  <2>3. PICK T : T = {Line!Save(l)} \cup (IF Line!OnTop(s) THEN Line!CompleteMarks ELSE {})
    OBVIOUS
  <2>4. /\ Line!GoesOn(j, T)
        /\ IF Line!OnTop(s) THEN Line!CompletePoster ELSE UNCHANGED Line!posters
        /\ Line!CompleteCard(s)
        /\ behind' = IF account[s] > 0 THEN behind \cup {s} ELSE behind
    BY <1>1, <1>2, <1>6, <2>1, <2>2, <2>3 DEF Line!MarkLocally, Line!IsSameFullCardOpen
  <2>5. s \in gone' \cup behind' /\ behind \subseteq behind' /\ behind' \subseteq Shows /\ gone' = gone
    <3>1. account[s] \in 0..Most /\ (account[s] = 0 => s \in gone) /\ behind \subseteq Shows
      BY DEF LineInv, LineData, Line!List
    <3> QED BY <1>3, <1>4, <2>4, <3>1
  <2>6. LineWell(Line!Save(l)) /\ LineTold(Line!Save(l))'
    <3>1. 0 \in 0..Most
      BY <1>3
    <3> QED BY <2>2, <2>5, <3>1, SavesWell
  <2>7. \A i \in T : LineWell(i) /\ LineTold(i)'
    BY <2>3, <2>6, MarksComplete
  <2>8. LeavesOnly({s})
    BY <2>4, CardCompletes DEF LineInv
  <2>9. LinePosters'
    BY <1>4, <2>4, PosterCompletes, PostersStay DEF LineInv
  <2>10. LineData'
    BY <1>4, <2>5 DEF LineInv, LineData
  <2> QED BY <2>4, <2>5, <2>7, <2>8, <2>9, <2>10, LineGoesOn
<1>7. CASE saved[s] # 0 /\ n # 0
  <2>1. n \in 0..Most /\ n \in Line!Left
    BY <1>2, <1>3, <1>7 DEF Line!Left
  <2>2. PICK l : l = [saved EXCEPT ![s] = n]
    OBVIOUS
  <2>3. /\ Line!GoesOn(j, {Line!Save(l)})
        /\ IF Line!OnTop(s) THEN Line!UpdatePoster(s, n) ELSE UNCHANGED Line!posters
        /\ Line!UpdateAllCards(s, n)
        /\ UNCHANGED behind
    BY <1>1, <1>2, <1>7, <2>2 DEF Line!MarkLocally, Line!IsSameFullCardOpen
  <2>4. LineWell(Line!Save(l)) /\ LineTold(Line!Save(l))'
    BY <1>4, <1>7, <2>1, <2>2, <2>3, SavesWell
  <2>5. LeavesOnly({})
    BY <2>1, <2>3, CardsUpdated DEF LineInv
  <2>6. LinePosters'
    BY <1>4, <2>1, <2>3, PosterMarked, PostersStay DEF LineInv
  <2>7. LineData'
    BY <1>4, <2>3 DEF LineInv, LineData
  <2> QED BY <1>4, <2>3, <2>4, <2>5, <2>6, <2>7, LineGoesOn
<1> QED BY <1>5, <1>6, <1>7

\* A look at the list that marks posters and cards only.
LEMMA LineLooks ==
    ASSUME LineInv, NEW j \in Line!BagToSet(jobs), NEW T, Line!GoesOn(j, T),
           \A i \in T : LineWell(i) /\ LineTold(i)',
           NEW S, LeavesOnly(S), S \cap Shows \subseteq gone \cup behind, LinePosters',
           UNCHANGED <<account, saved, results, last, events, gone, behind>>, dirty' \in BOOLEAN
    PROVE  LineInv'
<1>1. LineData'
  BY DataStays DEF LineInv, LineData
<1> QED BY <1>1, LineGoesOn

LEMMA LineShowMarks ==
    ASSUME LineInv, NEW j \in Line!BagToSet(jobs), Line!ShowMarks(j)
    PROVE  LineInv'
<1>1. PICK s \in Shows : s = j.show
  <2>1. Line!Looks(j, "open")
    BY DEF Line!ShowMarks
  <2> QED BY <2>1, LookIsOfShow
<1>2. Line!GoesOn(j, {}) /\ UNCHANGED <<account, saved, results, line, row, misplaced, stack, last, dirty, events, gone, behind>>
  BY DEF Line!ShowMarks
<1>3. LinePosters'
  <2>1. CASE Line!OnTop(s) /\ saved[s] > 0
    <3>1. poster' = [poster EXCEPT ![Len(poster)] = [of |-> s, left |-> saved[s]]]
      BY <1>1, <2>1 DEF Line!ShowMarks, Line!IsSameFullCardOpen
    <3>2. [of |-> s, left |-> saved[s]] \in Line!Mark
      BY DEF LineInv, LineData, Line!List, Line!Left, Line!Mark
    <3>3. /\ stack \in Seq(Shows) /\ poster \in Seq(Line!Mark) /\ Len(poster) = Len(stack)
          /\ stack # <<>> /\ stack[Len(stack)] = s
      BY <2>1 DEF Line!OnTop, LineInv, LinePosters
    <3>4. poster' \in Seq(Line!Mark) /\ Len(poster') = Len(poster) /\ DOMAIN poster' = DOMAIN poster
      BY <3>1, <3>2, <3>3
    <3>5. Line!MarksOfOpenCard'
      BY <1>2, <3>1, <3>3, <3>4 DEF LineInv, LinePosters, Line!MarksOfOpenCard
    <3> QED BY <1>2, <3>4, <3>5 DEF LineInv, LinePosters
  <2>2. CASE ~(Line!OnTop(s) /\ saved[s] > 0)
    <3>1. UNCHANGED <<stack, Line!posters>>
      BY <1>1, <1>2, <2>2 DEF Line!ShowMarks, Line!IsSameFullCardOpen, Line!posters
    <3> QED BY <3>1, PostersStay DEF LineInv
  <2> QED BY <2>1, <2>2
<1>4. LeavesOnly({}) /\ dirty' \in BOOLEAN
  BY <1>2, CardsStay DEF LineInv, LineData
<1> QED BY <1>2, <1>3, <1>4, LineLooks

LEMMA LineRefreshCard ==
    ASSUME LineInv, NEW j \in Line!BagToSet(jobs), Line!RefreshCard(j)
    PROVE  LineInv'
<1>1. PICK s \in Shows : s = j.show
  <2>1. Line!Looks(j, "full")
    BY DEF Line!RefreshCard
  <2> QED BY <2>1, LookIsOfShow
<1>2. UNCHANGED <<account, saved, results, line, row, stack, last, dirty, events, gone, behind>>
  BY DEF Line!RefreshCard
<1>3. PICK T : Line!GoesOn(j, T) /\ \A i \in T : LineWell(i) /\ LineTold(i)'
  <2>1. Line!GoesOn(j, IF Line!OnTop(s) /\ saved[s] = 0 THEN Line!CompleteMarks ELSE {})
    BY <1>1 DEF Line!RefreshCard, Line!IsSameFullCardOpen
  <2> QED BY <2>1, MarksComplete
<1>4. LinePosters'
  <2>1. saved[s] \in Line!Left
    BY DEF LineInv, LineData, Line!List, Line!Left
  <2>2. IF ~Line!OnTop(s) THEN UNCHANGED Line!posters
        ELSE IF saved[s] > 0 THEN Line!UpdatePoster(s, saved[s]) ELSE Line!CompletePoster
    BY <1>1 DEF Line!RefreshCard, Line!IsSameFullCardOpen
  <2> QED BY <1>2, <2>1, <2>2, PosterMarked, PosterCompletes, PostersStay DEF LineInv
<1>5. LeavesOnly({}) /\ dirty' \in BOOLEAN
  BY <1>2, CardsStay DEF LineInv, LineData
<1> QED BY <1>2, <1>3, <1>4, <1>5, LineLooks

\* A show of the saved list is inserted.
LEMMA CardInserted ==
    ASSUME LineInv, NEW s \in Shows, saved[s] > 0
    PROVE  /\ saved[s] \in Line!Left /\ Line!Inserted(s, saved[s]) \in Line!Card \cup {Nobody}
           /\ Line!Inserted(s, saved[s]) # Nobody /\ Line!Inserted(s, saved[s]).leaving
                 => line[s] # Nobody /\ line[s].leaving
<1>1. PICK n : n = saved[s]
  OBVIOUS
<1>2. n \in Line!Left /\ line[s] \in Line!Card \cup {Nobody}
  BY <1>1 DEF LineInv, LineData, LineCards, Line!List, Line!Left
<1>3. Line!Put(n) \in Line!Card /\ ~Line!Put(n).leaving
  BY <1>2 DEF Line!Put, Line!Card
<1> QED BY <1>1, <1>2, <1>3 DEF Line!Inserted

LEMMA LineRefreshSection ==
    ASSUME LineInv, NEW j \in Line!BagToSet(jobs), Line!RefreshSection(j)
    PROVE  LineInv'
<1>1. PICK s \in Shows : s = j.show
  <2>1. Line!Looks(j, "section")
    BY DEF Line!RefreshSection
  <2> QED BY <2>1, LookIsOfShow
<1>2. UNCHANGED <<account, saved, results, Line!posters, stack, last, dirty, events, gone, behind>> /\ Line!GoesOn(j, {})
  BY DEF Line!RefreshSection
<1>3. saved[s] \in 0..Most
  BY DEF LineInv, LineData, Line!List
<1>4. PICK S : LeavesOnly(S) /\ S \cap Shows \subseteq gone \cup behind
  <2>1. CASE saved[s] = 0
    <3>1. LeavesOnly({s})
      BY <1>1, <2>1, CardCompletes DEF Line!RefreshSection, LineInv
    <3>2. s \in gone \cup behind
      BY <2>1 DEF LineInv, LineData
    <3> QED BY <3>1, <3>2
  <2>2. CASE saved[s] # 0 /\ line[s] # Nobody
    <3>1. Line!UpdateAllCards(s, saved[s]) /\ saved[s] \in Line!Left
      BY <1>1, <1>3, <2>2 DEF Line!RefreshSection, Line!Left
    <3> QED BY <3>1, CardsUpdated DEF LineInv
  <2>3. CASE saved[s] # 0 /\ line[s] = Nobody
    <3>1. line' = [line EXCEPT ![s] = Line!Inserted(s, saved[s])] /\ row' = row
      BY <1>1, <2>3 DEF Line!RefreshSection
    <3>2. saved[s] > 0
      BY <1>3, <2>3, LineAssumption
    <3>3. LeavesOnly({})
      BY <3>1, <3>2, CardInserted DEF LeavesOnly, LineInv, LineCards
    <3> QED BY <3>3
  <2> QED BY <2>1, <2>2, <2>3
<1>5. LinePosters' /\ dirty' \in BOOLEAN
  BY <1>2, PostersStay DEF LineInv, LineData
<1> QED BY <1>2, <1>4, <1>5, LineLooks

LEMMA LineRefreshCards ==
    ASSUME LineInv, NEW j \in Line!BagToSet(jobs), Line!RefreshCards(j)
    PROVE  LineInv'
<1>1. PICK s \in Shows : s = j.show
  <2>1. Line!Looks(j, "cards")
    BY DEF Line!RefreshCards
  <2> QED BY <2>1, LookIsOfShow
<1>2. UNCHANGED <<account, saved, results, Line!posters, stack, last, dirty, events, gone, behind>> /\ Line!GoesOn(j, {})
  BY DEF Line!RefreshCards
<1>3. LeavesOnly({})
  <2>1. saved[s] \in Line!Left
    BY DEF LineInv, LineData, Line!List, Line!Left
  <2>2. IF saved[s] > 0 THEN Line!UpdateAllCards(s, saved[s]) ELSE UNCHANGED <<line, row>>
    BY <1>1 DEF Line!RefreshCards
  <2> QED BY <2>1, <2>2, CardsUpdated, CardsStay DEF LineInv
<1>4. LinePosters' /\ dirty' \in BOOLEAN
  BY <1>2, PostersStay DEF LineInv, LineData
<1> QED BY <1>2, <1>3, <1>4, LineLooks

LEMMA LineAddTraces ==
    ASSUME LineInv, NEW j \in Line!BagToSet(jobs), Line!AddTraces(j)
    PROVE  LineInv'
<1>1. PICK s \in Shows : s = j.show
  <2>1. Line!Looks(j, "traces")
    BY DEF Line!AddTraces
  <2> QED BY <2>1, LookIsOfShow
<1>2. UNCHANGED <<account, saved, results, stack, last, events, gone, behind>> /\ dirty' \in BOOLEAN
  BY DEF Line!AddTraces
<1>3. CASE saved[s] > 0
  <2>1. /\ Line!GoesOn(j, {})
        /\ IF Line!OnTop(s) THEN Line!UpdatePoster(s, saved[s]) ELSE UNCHANGED Line!posters
        /\ line' = [line EXCEPT ![s] = Line!Marked(Line!Inserted(s, saved[s]), saved[s])]
        /\ row' = [row EXCEPT ![s] = Line!Marked(row[s], saved[s])]
    BY <1>1, <1>3 DEF Line!AddTraces, Line!IsSameFullCardOpen
  <2>2. PICK c \in Line!Card \cup {Nobody} : c = Line!Inserted(s, saved[s])
    BY <1>3, CardInserted
  <2>3. saved[s] \in Line!Left /\ (c # Nobody /\ c.leaving => line[s] # Nobody /\ line[s].leaving)
    BY <1>3, <2>2, CardInserted
  <2>4. row[s] \in Line!Card \cup {Nobody}
    BY DEF LineInv, LineCards
  <2>5. /\ Line!Marked(c, saved[s]) \in Line!Card \cup {Nobody} /\ Line!Marked(row[s], saved[s]) \in Line!Card \cup {Nobody}
        /\ Line!Marked(c, saved[s]) # Nobody /\ Line!Marked(c, saved[s]).leaving => c # Nobody /\ c.leaving
    BY <2>3, <2>4, CardsChange
  <2>6. LeavesOnly({})
    BY <2>1, <2>2, <2>3, <2>5 DEF LeavesOnly, LineInv, LineCards
  <2>7. LinePosters'
    BY <1>2, <2>1, <2>3, PosterMarked, PostersStay DEF LineInv
  <2> QED BY <1>2, <2>1, <2>6, <2>7, LineLooks
<1>4. CASE ~(saved[s] > 0)
  <2>1. Line!GoesOn(j, IF j.try < Tries THEN {[j EXCEPT !.try = @ + 1]} ELSE {}) /\ UNCHANGED Line!dom
    BY <1>1, <1>4 DEF Line!AddTraces
  <2>2. PICK i : i = [j EXCEPT !.try = @ + 1]
    OBVIOUS
  <2>3. LineWell(i) /\ i.kind = "look"
    <3>1. j \in LineJob /\ j.kind = "look" /\ LineWell(j)
      BY JobIsWell DEF Line!AddTraces, Line!Looks
    <3>2. i \in LineJob /\ i.kind = j.kind /\ i.why = j.why /\ i.show = j.show
      BY <2>2, <3>1 DEF LineJob
    <3> QED BY <3>1, <3>2 DEF LineWell, OfShow
  <2>4. LineTold(i)'
    BY <2>3, NothingTold
  <2>5. PICK T : Line!GoesOn(j, T) /\ \A k \in T : LineWell(k) /\ LineTold(k)'
    BY <2>1, <2>2, <2>3, <2>4
  <2>6. LeavesOnly({}) /\ LinePosters'
    BY <1>2, <2>1, CardsStay, PostersStay DEF Line!dom, LineInv
  <2> QED BY <1>2, <2>5, <2>6, LineLooks
<1> QED BY <1>3, <1>4

LEMMA LineReconcile ==
    ASSUME LineInv, NEW j \in Line!BagToSet(jobs), Line!Reconcile(j)
    PROVE  LineInv'
<1>1. UNCHANGED <<account, saved, results, row, Line!posters, stack, last, dirty, events, gone, behind>> /\ Line!GoesOn(j, {})
  BY DEF Line!Reconcile
<1>2. line' = [s \in Shows |-> IF saved[s] = 0 THEN Line!Leaving(line[s]) ELSE line[s]]
  BY DEF Line!Reconcile
<1>3. \A s \in Shows : line[s] \in Line!Card \cup {Nobody} /\ Line!Leaving(line[s]) \in Line!Card \cup {Nobody}
  <2>1. \A s \in Shows : line[s] \in Line!Card \cup {Nobody}
    BY DEF LineInv, LineCards
  <2>2. \A c \in Line!Card \cup {Nobody} : Line!Leaving(c) \in Line!Card \cup {Nobody}
    BY DEF Line!Leaving, Line!Card
  <2> QED BY <2>1, <2>2
<1>4. LeavesOnly({s \in Shows : saved[s] = 0})
  BY <1>1, <1>2, <1>3 DEF LeavesOnly, LineInv, LineCards
<1>5. {s \in Shows : saved[s] = 0} \cap Shows \subseteq gone \cup behind
  BY DEF LineInv, LineData
<1>6. LinePosters' /\ dirty' \in BOOLEAN
  BY <1>1, PostersStay DEF LineInv, LineData
<1> QED BY <1>1, <1>4, <1>5, <1>6, LineLooks

-----------------------------------------------------------------------------
(* Timers *)

LEMMA LineCardGone ==
    ASSUME LineInv, NEW s \in Shows, Line!CardGone(s)
    PROVE  LineInv'
<1>1. UNCHANGED <<account, saved, results, Line!posters, stack, last, dirty, jobs, events, gone, behind>>
  BY DEF Line!CardGone
<1>2. LeavesOnly({})
  BY DEF Line!CardGone, LeavesOnly, LineInv, LineCards
<1>3. LinePosters'
  BY <1>1, PostersStay DEF LineInv
<1>4. LineData'
  BY <1>1, DataStays DEF LineInv, LineData
<1> QED BY <1>1, <1>2, <1>3, <1>4, LineGoesOn

LEMMA LineMarksGone ==
    ASSUME LineInv, Line!MarksGone
    PROVE  LineInv'
<1>1. Line!GoesOn(Line!MarksEnd, {}) /\ UNCHANGED <<account, saved, results, line, row, misplaced, stack, last, dirty, events, gone, behind>>
  BY DEF Line!MarksGone
<1>2. PICK m : m = Line!Unmarked
  OBVIOUS
<1>3. m \in Line!Mark /\ m.of = Nobody
  BY <1>2, UnmarkedIsMark
<1>4. poster' = IF poster = <<>> THEN poster ELSE [poster EXCEPT ![1] = m]
  BY <1>2 DEF Line!MarksGone
<1>5. LinePosters'
  BY <1>1, <1>3, <1>4, PosterCleared DEF LineInv
<1>6. LeavesOnly({})
  BY <1>1, CardsStay DEF LineInv
<1>7. LineData'
  BY <1>1, DataStays DEF LineInv, LineData
<1> QED BY <1>1, <1>5, <1>6, <1>7, LineGoesOn

-----------------------------------------------------------------------------

LEMMA LineStays ==
    ASSUME LineInv, UNCHANGED Line!vars
    PROVE  LineInv'
<1>1. /\ UNCHANGED <<account, saved, results, stack, last, dirty, jobs, events, gone, behind>>
      /\ UNCHANGED <<line, row>> /\ UNCHANGED Line!posters
  BY DEF Line!vars, Line!dom, Line!posters
<1>2. LeavesOnly({}) /\ LinePosters'
  BY <1>1, CardsStay, PostersStay DEF LineInv
<1>3. LineData'
  BY <1>1, DataStays DEF LineInv, LineData
<1> QED BY <1>1, <1>2, <1>3, LineGoesOn

LEMMA LineKept ==
    ASSUME LineInv, Line!Next \/ UNCHANGED Line!vars
    PROVE  LineInv'
<1>1. CASE Line!Viewer
  BY <1>1, LineBack, LineWatch, LineOpenCard, LineReturnToCard, LinePressButton,
     LineSiteChange DEF Line!Viewer
<1>2. ASSUME NEW j \in Line!BagToSet(jobs), Line!Proceed(j)
      PROVE  LineInv'
  BY <1>2, LineStatusSet, LineAnswer, LineArrive, LineSaved, LineMarkLocally, LineShowMarks,
     LineRefreshCard, LineRefreshSection, LineRefreshCards, LineAddTraces,
        LineReconcile DEF Line!Proceed
<1>3. ASSUME NEW j \in Line!BagToSet(jobs), Line!Fail(j)
      PROVE  LineInv'
  BY <1>3, LineFails DEF Line!Fail
<1>4. ASSUME NEW s \in Shows, Line!CardGone(s)
      PROVE  LineInv'
  BY <1>4, LineCardGone
<1>5. CASE Line!MarksGone
  BY <1>5, LineMarksGone
<1>6. CASE UNCHANGED Line!vars
  BY <1>6, LineStays
<1> QED BY <1>1, <1>2, <1>3, <1>4, <1>5, <1>6 DEF Line!Next

LEMMA LineShows == LineInv => Line!OnlyGoneShowsLeave /\ Line!MarksOfOpenCard
BY DEF LineInv, LineCards, LinePosters

-----------------------------------------------------------------------------
(* The parts together *)

\* A card leaves the line of unwatched shows only if its show was out of the account's list
\* or counted off, and the poster of an open card shows marks of that card, unless they were
\* put on the poster of the card below it (myshows.js).
THEOREM LineAlwaysShowsItsOwn == Spec => []LineShowsItsOwn
<1> DEFINE I == part = "line" => LineInv
<1>1. Init => I
  BY LineStart DEF Init
<1>2. I /\ [Next]_vars => I'
  <2> SUFFICES ASSUME I, [Next]_vars PROVE I'
    OBVIOUS
  <2>1. part' = part
    BY DEF Next, Still, vars
  <2>2. CASE part = "line"
    <3>1. CASE Next
      <4>1. Line!Next
        BY <2>2, <3>1 DEF Next
      <4> QED BY <2>1, <2>2, <4>1, LineKept
    <3>2. CASE UNCHANGED vars
      <4>1. UNCHANGED Line!vars
        BY <3>2 DEF vars, Line!vars, Line!dom, Line!posters
      <4> QED BY <2>1, <2>2, <4>1, LineKept
    <3> QED BY <3>1, <3>2
  <2> QED BY <2>1, <2>2
<1>3. I => LineShowsItsOwn
  BY LineShows DEF LineShowsItsOwn
<1> QED BY <1>1, <1>2, <1>3, PTL DEF Spec

\* The favourites kept for a profile are its own and the timecodes on screen are those of the
\* active profile, through switches, messages and failures; and at rest the active profile is
\* one of the device's, as the server has it (np_profiles.js).
THEOREM ProfilesAlwaysStayApart == Spec => []ProfilesStayApart
<1> DEFINE I ==
         /\ part = "profiles" => ProfilesInv
         /\ part = "roster" => RosterInv
<1>1. Init => I
  BY ProfilesStart, RosterStart DEF Init
<1>2. I /\ [Next]_vars => I'
  <2> SUFFICES ASSUME I, [Next]_vars PROVE I'
    OBVIOUS
  <2>1. part' = part
    BY DEF Next, Still, vars
  <2>2. CASE part = "profiles"
    <3>1. CASE Next
      <4>1. Profiles!Next
        BY <2>2, <3>1 DEF Next
      <4> QED BY <2>1, <2>2, <4>1, ProfilesKept
    <3>2. CASE UNCHANGED vars
      <4>1. UNCHANGED Profiles!vars
        BY <3>2 DEF vars, Profiles!vars, Profiles!server, Profiles!storage, Profiles!history
      <4> QED BY <2>1, <2>2, <4>1, ProfilesKept
    <3> QED BY <3>1, <3>2
  <2>3. CASE part = "roster"
    <3>1. CASE Next
      <4>1. Roster!Next
        BY <2>3, <3>1 DEF Next
      <4> QED BY <2>1, <2>3, <4>1, RosterKept
    <3>2. CASE UNCHANGED vars
      <4>1. UNCHANGED Roster!vars
        BY <3>2 DEF vars, Roster!vars, Roster!server
      <4> QED BY <2>1, <2>3, <4>1, RosterKept
    <3> QED BY <3>1, <3>2
  <2> QED BY <2>1, <2>2, <2>3
<1>3. I => ProfilesStayApart
  BY ProfilesSettle, RosterSettle DEF ProfilesStayApart
<1> QED BY <1>1, <1>2, <1>3, PTL DEF Spec

\* When nothing is under way the badges, ticks, rows and lit buttons in the player say what
\* the server says, in whatever order marks, messages and answers crossed, unless one of the
\* named ways was taken (np_unwatched.js).
THEOREM PlayerAlwaysComesTrue == Spec => []PlayerComesTrue
<1> DEFINE I ==
         /\ part = "badges" => BadgesInv
         /\ part = "statuses" => StatusesInv
<1>1. Init => I
  BY BadgesStart, StatusesStart DEF Init
<1>2. I /\ [Next]_vars => I'
  <2> SUFFICES ASSUME I, [Next]_vars PROVE I'
    OBVIOUS
  <2>1. part' = part
    BY DEF Next, Still, vars
  <2>2. CASE part = "badges"
    <3>1. CASE Next
      <4>1. Badges!Next
        BY <2>2, <3>1 DEF Next
      <4> QED BY <2>1, <2>2, <4>1, BadgesKept
    <3>2. CASE UNCHANGED vars
      <4>1. UNCHANGED Badges!vars
        BY <3>2 DEF vars, Badges!vars
      <4> QED BY <2>1, <2>2, <4>1, BadgesKept
    <3> QED BY <3>1, <3>2
  <2>3. CASE part = "statuses"
    <3>1. CASE Next
      <4>1. Statuses!Next
        BY <2>3, <3>1 DEF Next
      <4> QED BY <2>1, <2>3, <4>1, StatusesKept
    <3>2. CASE UNCHANGED vars
      <4>1. UNCHANGED Statuses!vars
        BY <3>2 DEF vars, Statuses!vars
      <4> QED BY <2>1, <2>3, <4>1, StatusesKept
    <3> QED BY <3>1, <3>2
  <2> QED BY <2>1, <2>2, <2>3
<1>3. I => PlayerComesTrue
  BY BadgesSettle, StatusesSettle DEF PlayerComesTrue
<1> QED BY <1>1, <1>2, <1>3, PTL DEF Spec

\* The backdrop and the panel of the start page are those of the card in focus (int.js).
THEOREM StartPageAlwaysFollows == Spec => []StartPageFollows
<1> DEFINE I ==
         /\ part = "background" => BackgroundInv
         /\ part = "info" => InfoInv
<1>1. Init => I
  BY BackgroundStart, InfoStart DEF Init
<1>2. I /\ [Next]_vars => I'
  <2> SUFFICES ASSUME I, [Next]_vars PROVE I'
    OBVIOUS
  <2>1. part' = part
    BY DEF Next, Still, vars
  <2>2. CASE part = "background"
    <3>1. CASE Next
      <4>1. Background!Next
        BY <2>2, <3>1 DEF Next
      <4> QED BY <2>1, <2>2, <4>1, BackgroundKept
    <3>2. CASE UNCHANGED vars
      <4>1. UNCHANGED Background!vars
        BY <3>2 DEF vars, Background!vars
      <4> QED BY <2>1, <2>2, <4>1, BackgroundKept
    <3> QED BY <3>1, <3>2
  <2>3. CASE part = "info"
    <3>1. CASE Next
      <4>1. Info!Next
        BY <2>3, <3>1 DEF Next
      <4> QED BY <2>1, <2>3, <4>1, InfoKept
    <3>2. CASE UNCHANGED vars
      <4>1. UNCHANGED Info!vars
        BY <3>2 DEF vars, Info!vars
      <4> QED BY <2>1, <2>3, <4>1, InfoKept
    <3> QED BY <3>1, <3>2
  <2> QED BY <2>1, <2>2, <2>3
<1>3. I => StartPageFollows
  BY BackgroundFollows, InfoFollows DEF StartPageFollows
<1> QED BY <1>1, <1>2, <1>3, PTL DEF Spec

\* What a search for a card's entry at MyShows finds is the entry of that card itself,
\* with the exceptions of Known (myshows.js).
THEOREM MatchesAlwaysOwn == Spec => []MatchesAreOwn
<1> DEFINE I == part = "match" => MatchInv
<1>1. Init => I
  BY MatchStart DEF Init
<1>2. I /\ [Next]_vars => I'
  <2> SUFFICES ASSUME I, [Next]_vars PROVE I'
    OBVIOUS
  <2>1. part' = part
    BY DEF Next, Still, vars
  <2>2. CASE part = "match"
    <3>1. CASE Next
      <4>1. Match!Next
        BY <2>2, <3>1 DEF Next
      <4> QED BY <2>1, <2>2, <4>1, MatchKept
    <3>2. CASE UNCHANGED vars
      <4>1. UNCHANGED Match!vars
        BY <3>2 DEF vars, Match!vars
      <4> QED BY <2>1, <2>2, <4>1, MatchKept
    <3> QED BY <3>1, <3>2
  <2> QED BY <2>1, <2>2
<1>3. I => MatchesAreOwn
  BY MatchFinds DEF MatchesAreOwn
<1> QED BY <1>1, <1>2, <1>3, PTL DEF Spec
=============================================================================
