----------------------------- MODULE Loads_proofs -----------------------------
(***************************************************************************)
(* Proofs about what is fetched in several steps (MC_Loads), for every     *)
(* number of shows, of fetches side by side, of profiles, imports, lists   *)
(* and calendars.  The parts share no state, so each has an invariant of   *)
(* its own, and the invariant of the whole is their conjunction.           *)
(***************************************************************************)
EXTENDS MC_Loads, Sequences, TLAPS

-----------------------------------------------------------------------------
(* The list of unwatched shows: wrong cards of the saved list *)

DetailsTypes ==
    /\ skip \in BOOLEAN
    /\ saved \in [Show -> Details!Cards]
    /\ step \in [Fetch -> Details!Steps]
    /\ read \in [Fetch -> [Show -> Details!Cards]]
    /\ trust \in [Fetch -> BOOLEAN]
    /\ card \in [Fetch -> [Show -> Details!Cards]]
    /\ crossed \subseteq Fetch

\* A fetch whose read had crossed the clearing of the flag has saved its list.
CrossedSaved == \E f \in crossed : step[f] = "over"

\* What fetch f has read, or will read, of the saved list has no wrong card in it.
ReadsRight(f) == \A s \in Show : read[f][s] # "wrong"

\* Until the list was saved without them nobody uses the wrong cards; from then on they
\* are where the reads that crossed that moment have put them, and nowhere else.
DetailsInv ==
    /\ DetailsTypes
    /\ skip => crossed = {} /\ \A f \in Fetch : ~trust[f]
    /\ \A f \in Fetch : step[f] \in {"idle", "reading", "answered"} => ~trust[f]
    /\ \A f \in Fetch : step[f] \in {"idle", "reading"} => ReadsRight(f)
    /\ \A f \in Fetch, s \in Show :
          card[f][s] = "wrong" => trust[f] /\ read[f][s] = "wrong"
    /\ ~skip /\ ~CrossedSaved =>
          /\ \A s \in Show : saved[s] # "wrong"
          /\ \A f \in Fetch \ crossed : step[f] = "answered" \/ trust[f] => ReadsRight(f)

LEMMA DetailsStart == Details!Init => DetailsInv
  BY DEF Details!Init, DetailsInv, DetailsTypes, Details!Cards, Details!Steps,
         CrossedSaved, ReadsRight

\* The steps that only move a show on, or a fetch between two steps of its work.
LEMMA DetailsQuiet ==
  ASSUME DetailsInv, UNCHANGED <<skip, saved, read, trust, crossed>>,
         card' = card,
         NEW f \in Fetch,
         \/ step' = step
         \/ step[f] = "idle" /\ step' = [step EXCEPT ![f] = "reading"]
         \/ step[f] = "working" /\ step' = [step EXCEPT ![f] = "saving"]
  PROVE  DetailsInv'
<1>1. /\ DetailsTypes'
      /\ CrossedSaved' <=> CrossedSaved
      /\ \A g \in Fetch : ReadsRight(g)' <=> ReadsRight(g)
  <2>1. DetailsTypes'
    BY DEF DetailsInv, DetailsTypes, Details!Steps
  <2>2. \A g \in crossed : step'[g] = "over" <=> step[g] = "over"
    BY DEF DetailsInv, DetailsTypes
  <2>3. QED
    BY <2>1, <2>2 DEF CrossedSaved, ReadsRight
<1>2. \A g \in Fetch :
        /\ step'[g] = "answered" <=> step[g] = "answered"
        /\ step'[g] \in {"idle", "reading"} => step[g] \in {"idle", "reading"}
  BY DEF DetailsInv, DetailsTypes
<1>3. QED
  BY <1>1, <1>2 DEF DetailsInv

LEMMA DetailsKept ==
  ASSUME DetailsInv, Details!Next
  PROVE  DetailsInv' /\ Details!KeepsRightCards
<1>1. PICK f \in Fetch : Details!Begin(f) \/ Details!FetchStep(f)
  BY DEF Details!Next
<1>2. CASE Details!Begin(f)
  BY <1>2, DetailsQuiet DEF Details!Begin, Details!KeepsRightCards
<1>3. CASE Details!ReadAnswered(f)
  <2>1. /\ step[f] = "reading" /\ step' = [step EXCEPT ![f] = "answered"]
        /\ read' = [read EXCEPT ![f] = saved] \/ read' = read
        /\ UNCHANGED <<skip, saved, trust, card, crossed>>
    BY <1>3 DEF Details!ReadAnswered
  <2>2. DetailsTypes' /\ saved \in [Show -> Details!Cards]
    <3>1. read' \in [Fetch -> [Show -> Details!Cards]]
      BY <2>1 DEF DetailsInv, DetailsTypes
    <3>2. step' \in [Fetch -> Details!Steps]
      BY <2>1 DEF DetailsInv, DetailsTypes, Details!Steps
    <3>3. QED
      BY <2>1, <3>1, <3>2 DEF DetailsInv, DetailsTypes
  <2>3. ~trust[f] /\ ReadsRight(f) /\ \A s \in Show : card[f][s] # "wrong"
    BY <2>1 DEF DetailsInv
  <2>4. \A g \in Fetch \ {f} : step'[g] = step[g] /\ read'[g] = read[g]
    BY <2>1 DEF DetailsInv, DetailsTypes
  <2>5. step'[f] = "answered" /\ (read'[f] = saved \/ read'[f] = read[f])
    BY <2>1 DEF DetailsInv, DetailsTypes
  <2>6. CrossedSaved' <=> CrossedSaved
    BY <2>1, <2>4, <2>5 DEF DetailsInv, DetailsTypes, CrossedSaved
  <2>7. ~skip /\ ~CrossedSaved => ReadsRight(f)'
    BY <2>3, <2>5 DEF DetailsInv, ReadsRight
  <2>8. QED
    BY <2>1, <2>2, <2>3, <2>4, <2>5, <2>6, <2>7
    DEF DetailsInv, ReadsRight, Details!KeepsRightCards
<1>4. CASE Details!StartWork(f)
  <2>1. /\ step[f] = "answered" /\ step' = [step EXCEPT ![f] = "working"]
        /\ trust' = [trust EXCEPT ![f] = ~skip]
        /\ UNCHANGED <<skip, saved, read, card, crossed>>
    BY <1>4 DEF Details!StartWork
  <2>2. DetailsTypes'
    BY <2>1 DEF DetailsInv, DetailsTypes, Details!Steps
  <2>3. QED
    BY <2>1, <2>2 DEF DetailsInv, DetailsTypes, CrossedSaved, ReadsRight,
                      Details!KeepsRightCards
<1>5. CASE Details!Complete(f)
  BY <1>5, DetailsQuiet DEF Details!Complete, Details!KeepsRightCards
<1>6. CASE Details!SaveDone(f)
  <2>1. /\ step[f] = "saving" /\ step' = [step EXCEPT ![f] = "over"]
        /\ UNCHANGED <<read, trust, card>>
    BY <1>6 DEF Details!SaveDone
  <2>2. CASE UNCHANGED <<saved, skip, crossed>>
    <3>1. DetailsTypes'
      BY <2>1, <2>2 DEF DetailsInv, DetailsTypes, Details!Steps
    <3>2. QED
      BY <2>1, <2>2, <3>1 DEF DetailsInv, DetailsTypes, CrossedSaved, ReadsRight,
                              Details!KeepsRightCards
  <2>3. CASE /\ saved' = card[f] /\ skip' = FALSE
             /\ crossed' = IF skip THEN crossed \cup {g \in Fetch : step[g] = "answered"}
                           ELSE crossed
    <3>1. DetailsTypes'
      BY <2>1, <2>3 DEF DetailsInv, DetailsTypes, Details!Steps
    <3>2. CASE skip
      <4>1. \A s \in Show : card[f][s] # "wrong"
        BY <3>2 DEF DetailsInv
      <4>2. \A g \in crossed' : step'[g] # "over"
        BY <2>1, <2>3, <3>2 DEF DetailsInv, DetailsTypes
      <4>3. \A g \in Fetch \ crossed' : step'[g] # "answered" /\ ~trust[g]
        BY <2>1, <2>3, <3>2 DEF DetailsInv, DetailsTypes
      <4>4. QED
        BY <2>1, <2>3, <3>1, <3>2, <4>1, <4>2, <4>3
        DEF DetailsInv, DetailsTypes, CrossedSaved, ReadsRight, Details!KeepsRightCards
    <3>3. CASE ~skip
      <4>1. crossed' = crossed
        BY <2>3, <3>3
      <4>2. CASE f \in crossed
        <5>1. CrossedSaved'
          BY <2>1, <4>1, <4>2 DEF DetailsInv, DetailsTypes, CrossedSaved
        <5>2. QED
          BY <2>1, <2>3, <3>1, <3>3, <4>1, <4>2, <5>1
          DEF DetailsInv, DetailsTypes, CrossedSaved, ReadsRight, Details!KeepsRightCards
      <4>3. CASE f \notin crossed
        <5>1. CrossedSaved' <=> CrossedSaved
          BY <2>1, <4>1, <4>3 DEF DetailsInv, DetailsTypes, CrossedSaved
        <5>2. ~CrossedSaved => \A s \in Show : card[f][s] # "wrong"
          BY <3>3, <4>3 DEF DetailsInv, ReadsRight
        <5>3. QED
          BY <2>1, <2>3, <3>1, <3>3, <4>1, <4>3, <5>1, <5>2
          DEF DetailsInv, DetailsTypes, CrossedSaved, ReadsRight, Details!KeepsRightCards
      <4>4. QED
        BY <4>2, <4>3
    <3>4. QED
      BY <3>2, <3>3
  <2>4. QED
    BY <1>6, <2>2, <2>3 DEF Details!SaveDone
<1>7. CASE \E s \in Show : Details!ShowStep(f, s)
  <2>1. PICK s \in Show : Details!ShowStep(f, s)
    BY <1>7
  <2>2. UNCHANGED <<skip, saved, step, read, trust, crossed>>
    BY <2>1 DEF Details!ShowStep, Details!FromCache, Details!StartSearch, Details!Found,
                Details!NextAttempt, Details!Details, Details!Count
  <2>3. CASE card' = card
    BY <2>2, <2>3, DetailsQuiet DEF Details!KeepsRightCards
  <2>4. CASE trust[f] /\ card' = [card EXCEPT ![f][s] = read[f][s]]
    <3>1. DetailsTypes'
      BY <2>2, <2>4 DEF DetailsInv, DetailsTypes
    <3>2. QED
      BY <2>2, <2>4, <3>1 DEF DetailsInv, DetailsTypes, CrossedSaved, ReadsRight,
                              Details!KeepsRightCards
  <2>5. CASE card' = [card EXCEPT ![f][s] = "right"]
    <3>1. DetailsTypes'
      BY <2>2, <2>5 DEF DetailsInv, DetailsTypes, Details!Cards
    <3>2. QED
      BY <2>2, <2>5, <3>1 DEF DetailsInv, DetailsTypes, CrossedSaved, ReadsRight,
                              Details!KeepsRightCards
  <2>6. QED
    BY <2>1, <2>3, <2>4, <2>5
    DEF Details!ShowStep, Details!FromCache, Details!StartSearch, Details!Found,
        Details!NextAttempt, Details!Details, Details!Count
<1>8. QED
  BY <1>1, <1>2, <1>3, <1>4, <1>5, <1>6, <1>7 DEF Details!FetchStep

-----------------------------------------------------------------------------
(* The import of an account *)

\* While the profile stays the same, what the import has in hand the account has watched:
\* of the list that is being handled, save where it is still every show there is.
HandlesWatched ==
    /\ timecodes \subseteq watched[profile]
    /\ shows \subseteq watched[profile]
    /\ stage # "details" => todo \subseteq watched[profile]
    /\ cur \in watched[profile] \cup {Nobody}

\* A card that waits for the history waits with its timecode, or has it on the server, or has
\* none, or was left behind by an import that ended before it was saved.  Where the timecodes are
\* about to be forgotten, or the history to be written, they have been saved.
CardsAreCovered ==
    /\ cards \subseteq timecodes \cup base[profile] \cup unsaved \cup Import!Bare
    /\ stage \in {"idle", "over", "movieList"} => cards \subseteq base[profile] \cup unsaved \cup Import!Bare
    /\ stage \in {"finish", "reload"} => timecodes \subseteq base[profile]
    /\ stage = "movieList" => timecodes = {}

ImportInv ==
    /\ Import!TypeOK
    /\ switches = 0 =>
          /\ HandlesWatched
          /\ CardsAreCovered
          /\ \A p \in Profile :
                /\ base[p] \subseteq watched[p]
                /\ history[p] \subseteq base[p] \cup unsaved \cup Import!Bare

LEMMA ImportTyped ==
  ASSUME Import!TypeOK, [Import!Next]_(Import!vars)
  PROVE  Import!TypeOK'
<1> USE LoadsAssumption
        DEF Import!TypeOK, Import!account, Import!results, Import!work, Import!Goto,
            Import!Item, Import!Stages
<1>1. CASE Import!syncMyShows
  BY <1>1 DEF Import!syncMyShows
<1>2. CASE Import!WatchedMovies
  BY <1>2 DEF Import!WatchedMovies
<1>3. CASE Import!WatchedShows
  BY <1>3 DEF Import!WatchedShows
<1>4. CASE Import!ListDone
  BY <1>4 DEF Import!ListDone
<1>5. CASE \E s \in Serial : Import!ShowDetails(s)
  BY <1>5 DEF Import!ShowDetails
<1>6. CASE \E i \in Import!Item : Import!StartItem(i)
  BY <1>6 DEF Import!StartItem, Import!NoSearch, Import!AsksFirst, Import!Title,
              Import!Requests
<1>7. CASE Import!SearchFinds
  BY <1>7 DEF Import!SearchFinds, Import!Asks, Import!NoSearch, Import!Requests
<1>8. CASE Import!SearchFails
  <2>1. /\ cur \in Import!Item
        /\ UNCHANGED <<watched, info, profile, switches, stage, shows, base, history,
                       unsaved, syncing, imports, todo, timecodes, cards>>
        /\ cur' = cur \/ cur' = Nobody
    BY <1>8 DEF Import!SearchFails, Import!Searches, Import!Asks, Import!NextQuery
  <2>2. \A t \in 1..2, y \in {"own", "none"} : Import!Title(t, y) \in Import!Requests
    BY DEF Import!Title, Import!Requests
  <2>3. /\ search.title \in 1..2 /\ info[cur].titles \in 1..2
        /\ search.title < info[cur].titles => search.title + 1 \in 1..2
    BY <2>1 DEF Import!Requests, Import!Info
  <2>4. Import!NoSearch \in Import!Requests
    BY DEF Import!NoSearch, Import!Requests
  <2>5. search' \in Import!Requests
    <3>1. CASE search.at = "imdb"
      BY <1>8, <2>2, <3>1 DEF Import!SearchFails, Import!AsksFirst
    <3>2. CASE search.at # "imdb" /\ search.year = "own"
      BY <1>8, <2>2, <2>3, <3>2 DEF Import!SearchFails, Import!Asks
    <3>3. CASE search.at # "imdb" /\ search.year # "own" /\ search.title < info[cur].titles
      <4>1. PICK y \in {"own", "none"} : search' = Import!Title(search.title + 1, y)
        BY <1>8, <3>3 DEF Import!SearchFails, Import!NextQuery, Import!AsksFirst
      <4>2. QED
        BY <2>2, <2>3, <3>3, <4>1
    <3>4. CASE search.at # "imdb" /\ search.year # "own" /\ ~(search.title < info[cur].titles)
      BY <1>8, <2>4, <3>4 DEF Import!SearchFails, Import!NextQuery
    <3>5. QED
      BY <3>1, <3>2, <3>3, <3>4
  <2>6. QED
    BY <2>1, <2>5
<1>9. CASE Import!CardArrives
  BY <1>9 DEF Import!CardArrives, Import!Searches
<1>10. CASE Import!SaveTimecodes
  BY <1>10 DEF Import!SaveTimecodes
<1>11. CASE Import!Finish
  BY <1>11 DEF Import!Finish
<1>12. CASE Import!Reload
  BY <1>12 DEF Import!Reload
<1>13. CASE \E p \in Profile : Import!SwitchProfile(p)
  BY <1>13 DEF Import!SwitchProfile
<1>14. CASE UNCHANGED Import!vars
  BY <1>14 DEF Import!vars
<1>15. QED
  BY <1>1, <1>2, <1>3, <1>4, <1>5, <1>6, <1>7, <1>8, <1>9, <1>10, <1>11, <1>12, <1>13, <1>14
  DEF Import!Next, Import!Answer

LEMMA ImportStart == Import!Init => ImportInv
<1>1. ASSUME Import!Init PROVE Import!TypeOK
  <2>1. Import!NoSearch \in Import!Requests
    BY DEF Import!NoSearch, Import!Requests
  <2>2. /\ 0 \in 0..MaxImports /\ 0 \in 0..MaxSwitches
    BY LoadsAssumption
  <2>3. QED
    BY <1>1, <2>1, <2>2 DEF Import!Init, Import!TypeOK, Import!Stages
<1>2. QED
  BY <1>1 DEF Import!Init, ImportInv, HandlesWatched, CardsAreCovered,
      Import!Bare

\* The steps of one search: nothing but the request and, at its end, the item.
LEMMA ImportSearches ==
  ASSUME ImportInv, Import!TypeOK',
         UNCHANGED <<watched, info, profile, stage, todo, shows, timecodes, cards, base, history,
                     unsaved, switches>>,
         cur' = cur \/ cur' = Nobody
  PROVE  ImportInv'
  BY DEF ImportInv, HandlesWatched, CardsAreCovered,
      Import!Bare

LEMMA ImportKept ==
  ASSUME ImportInv, Import!Next
  PROVE  ImportInv'
<1>0. Import!TypeOK'
  BY ImportTyped DEF ImportInv
<1> USE <1>0 DEF Import!account, Import!results, Import!work, Import!Goto
<1>1. CASE Import!syncMyShows
  BY <1>1 DEF Import!syncMyShows, ImportInv, HandlesWatched, CardsAreCovered,
      Import!Bare
<1>2. CASE Import!WatchedMovies
  BY <1>2 DEF Import!WatchedMovies, ImportInv, HandlesWatched, CardsAreCovered,
      Import!Bare
<1>3. CASE Import!WatchedShows
  BY <1>3 DEF Import!WatchedShows, ImportInv, HandlesWatched, CardsAreCovered,
      Import!Bare
<1>4. CASE Import!ListDone
  BY <1>4 DEF Import!ListDone, ImportInv, HandlesWatched, CardsAreCovered,
      Import!Bare
<1>5. CASE \E s \in Serial : Import!ShowDetails(s)
  BY <1>5 DEF Import!ShowDetails, ImportInv, HandlesWatched, CardsAreCovered,
      Import!Bare
<1>6. CASE \E i \in Import!Item : Import!StartItem(i)
  BY <1>6 DEF Import!StartItem, ImportInv, HandlesWatched, CardsAreCovered,
      Import!Bare
<1>7. CASE Import!SearchFinds \/ Import!SearchFails
  BY <1>7, ImportSearches
  DEF Import!SearchFinds, Import!SearchFails, Import!NextQuery, Import!Asks
<1>8. CASE Import!CardArrives
  <2>1. cur \in Import!Item /\ cur' = Nobody
    BY <1>8 DEF Import!CardArrives, Import!Searches, ImportInv, Import!TypeOK
  <2>2. /\ cards' = cards \/ cards' = cards \cup {cur}
        /\ timecodes' = timecodes \/ timecodes' = timecodes \cup {cur}
        /\ cards' = cards \/ cur \in timecodes' \/ cur \in Import!Bare
    BY <1>8, <2>1 DEF Import!CardArrives, Import!Bare
  <2>3. stage \in {"movies", "shows"} /\ UNCHANGED <<watched, info, profile, switches, stage, todo, shows,
                                                      base, history, unsaved>>
    BY <1>8 DEF Import!CardArrives, Import!Searches
  <2>4. Import!Bare' = Import!Bare
    BY <2>3 DEF Import!Bare
  <2>5. cur # Nobody
    BY <1>8 DEF Import!CardArrives, Import!Searches
  <2>6. CASE switches = 0
    <3>1. HandlesWatched'
      <4>1. /\ timecodes \subseteq watched[profile] /\ shows \subseteq watched[profile]
            /\ todo \subseteq watched[profile] /\ cur \in watched[profile]
        BY <2>1, <2>3, <2>5, <2>6 DEF ImportInv, HandlesWatched
      <4>2. timecodes' \subseteq watched[profile]
        BY <2>2, <4>1
      <4>3. QED
        BY <2>1, <2>3, <4>1, <4>2 DEF HandlesWatched
    <3>2. CardsAreCovered'
      <4>1. cards \subseteq timecodes \cup base[profile] \cup unsaved \cup Import!Bare
        BY <2>6 DEF ImportInv, CardsAreCovered
      <4>2. ASSUME NEW c \in cards'
            PROVE  c \in timecodes' \cup base[profile] \cup unsaved \cup Import!Bare
        <5>1. CASE c \in cards
          BY <2>2, <4>1, <5>1
        <5>2. CASE c \notin cards
          BY <2>2, <5>2
        <5>3. QED
          BY <5>1, <5>2
      <4>3. QED
        BY <2>3, <2>4, <4>2 DEF CardsAreCovered
    <3>3. QED
      BY <2>3, <2>4, <2>6, <3>1, <3>2 DEF ImportInv
  <2>7. QED
    BY <2>3, <2>6 DEF ImportInv
<1>9. CASE Import!SaveTimecodes
  BY <1>9
  DEF Import!SaveTimecodes, ImportInv, Import!TypeOK, HandlesWatched, CardsAreCovered,
      Import!Bare
<1>10. CASE Import!Finish
  BY <1>10 DEF Import!Finish, ImportInv, Import!TypeOK, HandlesWatched, CardsAreCovered,
      Import!Bare
<1>11. CASE Import!Reload
  BY <1>11 DEF Import!Reload, ImportInv, HandlesWatched, CardsAreCovered,
      Import!Bare
<1>12. CASE \E p \in Profile : Import!SwitchProfile(p)
  BY <1>12, LoadsAssumption DEF Import!SwitchProfile, ImportInv, Import!TypeOK
<1>13. QED
  BY <1>1, <1>2, <1>3, <1>4, <1>5, <1>6, <1>7, <1>8, <1>9, <1>10, <1>11, <1>12
  DEF Import!Next, Import!Answer

-----------------------------------------------------------------------------
(* The marks that are counted up and down *)

\* Where an animation may be on its way to its goal.
OnItsWay(a) ==
    /\ a.way = "same" => Marker!Season(a.at) = Marker!Season(a.to)
    /\ a.way = "season" =>
          \/ Marker!Season(a.at) < Marker!Season(a.to)
          \/ /\ Marker!Season(a.at) = Marker!Season(a.to)
             /\ Marker!Ep(a.at) <= Marker!Ep(a.to)
    /\ a.way = "countdown" =>
          /\ Marker!Season(a.to) < Marker!Season(a.from)
          /\ Marker!Season(a.at) \in {Marker!Season(a.from), Marker!Season(a.from) - 1}
          /\ ~skipping => Marker!Season(a.from) = Marker!Season(a.to) + 1

\* The text was written by an animation that is there still, or it is a goal: an animation
\* that ends is where it goes to.
MarkerInv ==
    /\ Marker!TypeOK
    /\ \A a \in running : a.to \in targets /\ OnItsWay(a)
    /\ ~skipping => text \in targets \/ \E a \in running : a.at = text

LEMMA MarkerStart == Marker!Init => MarkerInv
<1>1. 0 \in 0..MaxUpdates
  BY LoadsAssumption
<1>2. QED
  BY <1>1 DEF Marker!Init, MarkerInv, Marker!TypeOK

\* One tick takes an animation on, within the texts; it ends nowhere but at its goal.
LEMMA TickGoesOn ==
  ASSUME NEW a \in Marker!Animation, OnItsWay(a)
  PROVE  /\ \A t \in Marker!Step(a) :
              t \in Marker!Text /\ OnItsWay([a EXCEPT !.at = t])
         /\ Marker!Step(a) = {} /\ ~skipping => a.at = a.to
<1>1. PICK g \in Nat, n \in Nat : LastGroup = g /\ LastNumber = n
  BY LoadsAssumption
<1>2. /\ a.at \in Marker!Text /\ a.from \in Marker!Text /\ a.to \in Marker!Text
      /\ a.way \in {"same", "season", "countdown"}
      /\ \A t : [a EXCEPT !.at = t].at = t /\ [a EXCEPT !.at = t].way = a.way
      /\ \A t : [a EXCEPT !.at = t].from = a.from /\ [a EXCEPT !.at = t].to = a.to
  BY DEF Marker!Animation
<1>3. /\ a.at[1] \in 1..g /\ a.at[2] \in 1..n /\ a.from[1] \in 1..g /\ a.from[2] \in 1..n
      /\ a.to[1] \in 1..g /\ a.to[2] \in 1..n
      /\ a.at = <<a.at[1], a.at[2]>> /\ a.to = <<a.to[1], a.to[2]>>
  BY <1>1, <1>2 DEF Marker!Text
<1>4. \A x \in 1..g, y \in 1..n : <<x, y>> \in Marker!Text
  BY <1>1 DEF Marker!Text
<1> USE DEF Marker!Season, Marker!Ep
<1>5. ASSUME NEW x \in 1..g, NEW y \in 1..n,
             a.way = "same" => x = a.to[1],
             a.way = "season" => x < a.to[1] \/ (x = a.to[1] /\ y <= a.to[2]),
             a.way = "countdown" => x \in {a.from[1], a.from[1] - 1}
      PROVE  <<x, y>> \in Marker!Text /\ OnItsWay([a EXCEPT !.at = <<x, y>>])
  BY <1>2, <1>3, <1>4, <1>5 DEF OnItsWay
<1>6. CASE a.way = "same"
  <2>1. a.at[1] = a.to[1] /\ Marker!Step(a) = Marker!SameSeasonStep(a)
    BY <1>6 DEF OnItsWay, Marker!Step
  <2>2. Marker!Toward(a.at[2], a.to[2]) \in 1..n \/ a.at[2] = a.to[2]
    BY <1>3 DEF Marker!Toward
  <2>3. QED
    BY <1>3, <1>5, <1>6, <2>1, <2>2 DEF Marker!SameSeasonStep
<1>7. CASE a.way = "season"
  <2>1. /\ a.at[1] < a.to[1] \/ (a.at[1] = a.to[1] /\ a.at[2] <= a.to[2])
        /\ Marker!Step(a) = Marker!SeasonTransitionStep(a)
    BY <1>7 DEF OnItsWay, Marker!Step
  <2>2. CASE a.at[1] < a.to[1]
    <3>1. Marker!Step(a) = {<<a.at[1] + 1, 1>>}
      BY <2>1, <2>2 DEF Marker!SeasonTransitionStep
    <3>2. /\ a.at[1] + 1 \in 1..g /\ 1 \in 1..n
          /\ a.at[1] + 1 < a.to[1] \/ (a.at[1] + 1 = a.to[1] /\ 1 <= a.to[2])
      BY <1>3, <2>2
    <3>3. QED
      BY <1>5, <1>7, <3>1, <3>2
  <2>3. CASE a.at[1] = a.to[1] /\ a.at[2] <= a.to[2]
    <3>1. ~(a.at[1] < a.to[1])
      BY <1>3, <2>3
    <3>2. CASE a.at[2] < a.to[2]
      <4>1. Marker!Step(a) = {<<a.at[1], a.at[2] + 1>>}
        BY <2>1, <3>1, <3>2 DEF Marker!SeasonTransitionStep
      <4>2. a.at[2] + 1 \in 1..n /\ a.at[2] + 1 <= a.to[2]
        BY <1>3, <3>2
      <4>3. QED
        BY <1>3, <1>5, <1>7, <2>3, <4>1, <4>2
    <3>3. CASE ~(a.at[2] < a.to[2])
      <4>1. Marker!Step(a) = {} /\ a.at[2] = a.to[2]
        BY <1>3, <2>1, <2>3, <3>1, <3>3 DEF Marker!SeasonTransitionStep
      <4>2. QED
        BY <1>3, <2>3, <4>1
    <3>4. QED
      BY <3>2, <3>3
  <2>4. QED
    BY <2>1, <2>2, <2>3
<1>8. CASE a.way = "countdown"
  <2>1. /\ a.to[1] < a.from[1] /\ a.at[1] \in {a.from[1], a.from[1] - 1}
        /\ ~skipping => a.from[1] = a.to[1] + 1
        /\ Marker!Step(a) = Marker!CountDownStep(a)
    BY <1>8 DEF OnItsWay, Marker!Step
  <2>2. CASE a.at[1] = a.from[1]
    <3>1. CASE a.at[2] > 1
      <4>1. Marker!Step(a) = {<<a.at[1], a.at[2] - 1>>} /\ a.at[2] - 1 \in 1..n
        BY <1>3, <2>1, <2>2, <3>1 DEF Marker!CountDownStep
      <4>2. QED
        BY <1>3, <1>5, <1>8, <2>2, <4>1
    <3>2. CASE ~(a.at[2] > 1)
      <4>1. /\ Marker!Step(a) = {<<a.at[1] - 1, 1>>}
            /\ a.at[1] - 1 \in 1..g /\ a.at[1] - 1 = a.from[1] - 1 /\ 1 \in 1..n
        BY <1>3, <2>1, <2>2, <3>2 DEF Marker!CountDownStep
      <4>2. QED
        BY <1>5, <1>8, <4>1
    <3>3. QED
      BY <3>1, <3>2
  <2>3. CASE a.at[1] # a.from[1]
    <3>1. CASE a.at[1] = a.to[1] /\ a.at[2] # a.to[2]
      <4>1. /\ Marker!Step(a) = {<<a.at[1], Marker!Toward(a.at[2], a.to[2])>>}
            /\ Marker!Toward(a.at[2], a.to[2]) \in 1..n
        BY <1>3, <2>1, <2>3, <3>1 DEF Marker!CountDownStep, Marker!Toward
      <4>2. QED
        BY <1>3, <1>5, <1>8, <2>1, <4>1
    <3>2. CASE ~(a.at[1] = a.to[1] /\ a.at[2] # a.to[2])
      <4>1. Marker!Step(a) = {}
        BY <2>1, <2>3, <3>2 DEF Marker!CountDownStep
      <4>2. ~skipping => a.at[1] = a.to[1]
        BY <1>3, <2>1, <2>3
      <4>3. QED
        BY <1>3, <3>2, <4>1, <4>2
    <3>3. QED
      BY <3>1, <3>2
  <2>4. QED
    BY <2>2, <2>3
<1>9. QED
  BY <1>2, <1>6, <1>7, <1>8

LEMMA MarkerKept ==
  ASSUME MarkerInv, Marker!Next
  PROVE  MarkerInv'
<1>1. CASE \E new \in Marker!Text : Marker!Update(new)
  <2>1. PICK new \in Marker!Text : Marker!Update(new)
    BY <1>1
  <2>2. /\ new # text /\ text \in Marker!Text /\ kind' = kind
        /\ updates' \in 1..MaxUpdates
        /\ targets' = (IF running = {} THEN {} ELSE targets) \cup {new}
        /\ skipping' = ((running # {} /\ skipping)
                          \/ (kind = "next" /\ Marker!Season(new) + 1 < Marker!Season(text)))
    BY <2>1, LoadsAssumption DEF Marker!Update, MarkerInv, Marker!TypeOK
  <2>3. /\ targets' \subseteq Marker!Text /\ skipping' \in BOOLEAN
        /\ new \in targets'
        /\ running # {} => targets \subseteq targets' /\ (~skipping' => ~skipping)
    BY <2>2 DEF MarkerInv, Marker!TypeOK
  <2>4. \A a \in running : a.to \in targets' /\ OnItsWay(a)'
    BY <2>3 DEF MarkerInv, OnItsWay
  <2>5. CASE Marker!Counts(text, new)
    <3>0. PICK a \in Marker!Animation :
             a = [way |-> Marker!Way(text, new), at |-> text, from |-> text,
                  to |-> new, id |-> updates']
      BY <2>2 DEF Marker!Animation, Marker!Way
    <3>1. running' = running \cup {a} /\ text' = text
      BY <2>1, <2>5, <3>0 DEF Marker!Update
    <3>2. /\ a.way = Marker!Way(text, new) /\ a.at = text /\ a.from = text /\ a.to = new
      BY <3>0
    <3>3. /\ text[1] \in Int /\ new[1] \in Int
      BY <2>2, LoadsAssumption DEF Marker!Text
    <3>4. OnItsWay(a)'
      <4>1. a.way = "same" => text[1] = new[1]
        BY <3>2, <3>3 DEF Marker!Way, Marker!Season
      <4>2. a.way = "season" => text[1] < new[1]
        BY <3>2, <3>3 DEF Marker!Way, Marker!Season
      <4>3. a.way = "countdown" => new[1] < text[1] /\ (~skipping' => text[1] = new[1] + 1)
        <5>1. CASE a.way = "countdown"
          <6>1. new[1] < text[1]
            BY <3>2, <3>3, <5>1 DEF Marker!Way, Marker!Season
          <6>2. kind = "next"
            BY <2>5, <3>3, <6>1 DEF Marker!Season, Marker!Counts
          <6>3. ~skipping' => ~(new[1] + 1 < text[1])
            BY <2>2, <6>2 DEF Marker!Season
          <6>4. QED
            BY <3>3, <6>1, <6>3
        <5>2. QED
          BY <5>1
      <4>4. QED
        BY <3>2, <4>1, <4>2, <4>3 DEF OnItsWay, Marker!Season
    <3>5. Marker!TypeOK'
      BY <2>2, <2>3, <3>1 DEF MarkerInv, Marker!TypeOK
    <3>6. QED
      BY <2>3, <2>4, <3>1, <3>2, <3>4, <3>5 DEF MarkerInv
  <2>6. CASE ~Marker!Counts(text, new)
    <3>1. text' = new /\ running' = running
      BY <2>1, <2>6 DEF Marker!Update
    <3>2. Marker!TypeOK'
      BY <2>2, <2>3, <3>1 DEF MarkerInv, Marker!TypeOK
    <3>3. QED
      BY <2>3, <2>4, <3>1, <3>2 DEF MarkerInv
  <2>7. QED
    BY <2>5, <2>6
<1>2. CASE \E a \in running : Marker!Tick(a)
  <2>1. PICK a \in running : Marker!Tick(a)
    BY <1>2
  <2>2. /\ a \in Marker!Animation /\ OnItsWay(a) /\ a.to \in targets
        /\ UNCHANGED <<kind, updates, targets, skipping>>
    BY <2>1 DEF MarkerInv, Marker!TypeOK, Marker!Tick
  <2>3. \A b : OnItsWay(b)' <=> OnItsWay(b)
    BY <2>2 DEF OnItsWay
  <2>4. CASE Marker!Step(a) = {}
    <3>1. running' = running \ {a} /\ text' = text
      BY <2>1, <2>4 DEF Marker!Tick
    <3>2. ~skipping => a.at \in targets
      BY <2>2, <2>4, TickGoesOn
    <3>3. Marker!TypeOK'
      BY <2>2, <3>1 DEF MarkerInv, Marker!TypeOK
    <3>4. QED
      BY <2>2, <2>3, <3>1, <3>2, <3>3 DEF MarkerInv
  <2>5. CASE Marker!Step(a) # {}
    <3>1. PICK t \in Marker!Step(a) :
            text' = t /\ running' = (running \ {a}) \cup {[a EXCEPT !.at = t]}
      BY <2>1, <2>5 DEF Marker!Tick
    <3>2. t \in Marker!Text /\ OnItsWay([a EXCEPT !.at = t])
      BY <2>2, TickGoesOn
    <3>3. /\ [a EXCEPT !.at = t] \in Marker!Animation
          /\ [a EXCEPT !.at = t].at = t /\ [a EXCEPT !.at = t].to = a.to
      BY <2>2, <3>2 DEF Marker!Animation
    <3>4. Marker!TypeOK'
      BY <2>2, <3>1, <3>2, <3>3 DEF MarkerInv, Marker!TypeOK
    <3>5. QED
      BY <2>2, <2>3, <3>1, <3>2, <3>3, <3>4 DEF MarkerInv
  <2>6. QED
    BY <2>4, <2>5
<1>3. QED
  BY <1>1, <1>2 DEF Marker!Next

-----------------------------------------------------------------------------
(* The lists of the start page *)

ListNames == {"watchlist", "watched", "cancelled"}

ListsTypes ==
    /\ Lists!TypeOK
    /\ delivered \in [ListNames -> SUBSET SUBSET Lists!Results]
    /\ had \in [Profile -> [ListNames -> SUBSET Lists!Item]]

\* A job that holds nothing but what the account of the current profile has had in its list.
Own(j) ==
    /\ j.by = profile /\ j.from = profile
    /\ j.items \subseteq had[profile][j.list]
    /\ \A i \in Lists!Item : j.open[i] > 0 => i \in had[profile][j.list]
    /\ \A r \in j.results : r.of \in had[profile][j.list]

OrdersAreOwn ==
    \A l \in ListNames : \A s \in shuffled[l] : s \subseteq had[profile][l]

ListsInv ==
    /\ ListsTypes
    /\ \A p \in Profile, l \in ListNames : Lists!ItemsOf(l, p) \subseteq had[p][l]
    /\ "switched" \notin missed =>
          /\ \A j \in jobs : Own(j)
          /\ OrdersAreOwn
          /\ Lists!SavedListsAreOwn

LEMMA ListsStart == Lists!Init => ListsInv
<1> SUFFICES ASSUME Lists!Init PROVE ListsInv
  OBVIOUS
<1>1. Lists!TypeOK
  <2>1. 0 \in 0..ListEvents /\ 0 \in 0..MaxAsks /\ 0 \in 0..MaxFailures
    BY LoadsAssumption
  <2>2. QED
    BY <2>1 DEF Lists!Init, Lists!TypeOK, Lists!Status, Lists!Kinds, ListNames
<1>2. ListsTypes
  BY <1>1 DEF Lists!Init, ListsTypes, ListNames
<1>3. \A p \in Profile, l \in ListNames : Lists!ItemsOf(l, p) = {}
  BY DEF Lists!Init, ListNames, Lists!ItemsOf, Lists!WatchlistItems, Lists!WatchedItems,
         Lists!CancelledItems
<1>4. QED
  BY <1>2, <1>3 DEF Lists!Init, ListsInv, OrdersAreOwn, Lists!SavedListsAreOwn, ListNames

\* What a step of a job leaves as it was, and what it may change.
LEMMA JobSteps ==
  ASSUME ListsInv, NEW j \in jobs, NEW k \in Lists!Jobs,
         k.by = j.by, k.list = j.list, "switched" \notin missed => Own(k),
         jobs' \subseteq (jobs \ {j}) \cup {k},
         delivered' \in {delivered, [delivered EXCEPT ![j.list] = {k.results}]},
         saved' \in {saved, [saved EXCEPT ![j.by][j.list] = k.results]},
         UNCHANGED <<npServer, account, profile, had, events, asks>>,
         missed' \in {missed, missed \cup {"namesake"}, missed \cup {}},
         failures' \in 0..MaxFailures,
         cards' \in [Id -> Lists!Kinds],
         shuffled' \in [ListNames -> SUBSET SUBSET Lists!Item],
         \A l \in ListNames : \A o, q \in shuffled'[l] : o = q,
         "switched" \notin missed => OrdersAreOwn'
  PROVE  ListsInv'
<1>1. /\ j \in Lists!Jobs /\ j.by \in Profile /\ j.list \in ListNames
      /\ k.results \subseteq Lists!Results
      /\ missed' \subseteq {"switched", "namesake"}
      /\ "switched" \notin missed' => "switched" \notin missed
  BY DEF ListsInv, ListsTypes, Lists!TypeOK, Lists!Jobs, ListNames
<1>2. /\ delivered' \in [ListNames -> SUBSET SUBSET Lists!Results]
      /\ saved' \in [Profile -> [ListNames -> SUBSET Lists!Results]]
  <2>1. /\ delivered \in [ListNames -> SUBSET SUBSET Lists!Results]
        /\ saved \in [Profile -> [ListNames -> SUBSET Lists!Results]]
    BY DEF ListsInv, ListsTypes, Lists!TypeOK, ListNames
  <2>2. [delivered EXCEPT ![j.list] = {k.results}] \in [ListNames -> SUBSET SUBSET Lists!Results]
    BY <1>1, <2>1
  <2>3. [saved EXCEPT ![j.by][j.list] = k.results]
          \in [Profile -> [ListNames -> SUBSET Lists!Results]]
    BY <1>1, <2>1
  <2>4. QED
    BY <2>1, <2>2, <2>3
<1>3. \A m \in jobs' : m \in Lists!Jobs
  BY DEF ListsInv, ListsTypes, Lists!TypeOK
<1>4. Lists!TypeOK'
  <2>1. \A l \in ListNames : delivered'[l] \subseteq SUBSET Lists!Results
    BY <1>2
  <2>2. QED
    BY <1>1, <1>2, <1>3, <2>1 DEF ListsInv, ListsTypes, Lists!TypeOK, ListNames
<1>5. ListsTypes'
  BY <1>2, <1>4 DEF ListsInv, ListsTypes
<1>6. \A p \in Profile, l \in ListNames : Lists!ItemsOf(l, p)' = Lists!ItemsOf(l, p)
  BY DEF Lists!ItemsOf, Lists!WatchlistItems, Lists!WatchedItems, Lists!CancelledItems
<1>7. ASSUME "switched" \notin missed'
      PROVE  (\A m \in jobs' : Own(m)') /\ Lists!SavedListsAreOwn'
  <2>1. /\ \A m \in jobs \cup {k} : Own(m)
        /\ \A m : Own(m)' <=> Own(m)
    BY <1>1, <1>7 DEF ListsInv, Own
  <2>2. ASSUME NEW p \in Profile, NEW l \in ListNames, NEW r \in saved'[p][l]
        PROVE  r.of \in had[p][l]
    <3>1. CASE r \in saved[p][l]
      BY <1>1, <1>7, <3>1 DEF ListsInv, Lists!SavedListsAreOwn, ListNames
    <3>2. CASE p = j.by /\ l = j.list /\ r \in k.results
      BY <1>1, <1>7, <3>2 DEF Own
    <3>3. QED
      BY <1>1, <2>2, <3>1, <3>2 DEF ListsInv, ListsTypes, Lists!TypeOK, ListNames
  <2>3. QED
    BY <2>1, <2>2 DEF Lists!SavedListsAreOwn, ListNames
<1>8. QED
  BY <1>1, <1>5, <1>6, <1>7 DEF ListsInv

\* A list that has nothing left to search for is shown and saved.
LEMMA ContinueSteps ==
  ASSUME ListsInv, NEW j \in jobs, NEW k \in Lists!Jobs, Lists!Continue(j, k)
  PROVE  /\ jobs' \subseteq (jobs \ {j}) \cup {k}
         /\ delivered' \in {delivered, [delivered EXCEPT ![j.list] = {k.results}]}
         /\ saved' \in {saved, [saved EXCEPT ![j.by][j.list] = k.results]}
  BY DEF Lists!Continue, Lists!Replace

\* A job whose answer has come in is completed by what its list holds.
LEMMA EnrichKept ==
  ASSUME ListsInv, NEW j \in jobs, NEW items \in SUBSET Lists!Item,
         "switched" \notin missed => items \subseteq had[profile][j.list],
         Lists!Enrich(j, items), failures' \in 0..MaxFailures,
         UNCHANGED <<npServer, account, profile, cards, events, asks, had>>
  PROVE  ListsInv'
<1>1. /\ j \in Lists!Jobs /\ j.by \in Profile /\ j.from \in Profile /\ j.list \in ListNames
      /\ j.guessed \subseteq Lists!Item
  BY DEF ListsInv, ListsTypes, Lists!TypeOK, Lists!Jobs, ListNames
<1> DEFINE ordered == IF shuffled[j.list] = {} THEN items ELSE CHOOSE s \in shuffled[j.list] : TRUE
           known == {i \in ordered : cards[i[2]] # "none"}
           found == {[of |-> i, card |-> cards[i[2]]] : i \in known}
           k == [j EXCEPT !.stage = "details", !.items = ordered,
                          !.open = [i \in Lists!Item |->
                                      IF i \in ordered \ known THEN Attempts ELSE 0],
                          !.results = found]
<1>2. /\ shuffled' = [shuffled EXCEPT ![j.list] = {ordered}]
      /\ missed' \in {missed, missed \cup {"namesake"}, missed \cup {}}
      /\ Lists!Continue(j, k)
  BY DEF Lists!Enrich
<1>3. /\ ordered \in SUBSET Lists!Item
      /\ "switched" \notin missed => ordered \subseteq had[profile][j.list]
  <2>1. shuffled[j.list] \subseteq SUBSET Lists!Item
    BY <1>1 DEF ListsInv, ListsTypes, Lists!TypeOK, ListNames
  <2>2. shuffled[j.list] # {} => ordered \in shuffled[j.list]
    OBVIOUS
  <2>3. QED
    BY <1>1, <2>1, <2>2 DEF ListsInv, OrdersAreOwn
<1>4. found \subseteq Lists!Results /\ \A r \in found : r.of \in ordered
  <2>1. \A i \in known : i[2] \in Id /\ cards[i[2]] \in Lists!Kinds
    BY <1>3 DEF ListsInv, ListsTypes, Lists!TypeOK, Lists!Item
  <2>2. QED
    BY <1>3, <2>1 DEF Lists!Results
<1>5. k \in Lists!Jobs
  <2>1. [i \in Lists!Item |-> IF i \in ordered \ known THEN Attempts ELSE 0]
          \in [Lists!Item -> 0..Attempts]
    BY LoadsAssumption
  <2>2. QED
    BY <1>1, <1>3, <1>4, <2>1 DEF Lists!Jobs
<1>6. /\ k.by = j.by /\ k.list = j.list /\ k.from = j.from /\ k.items = ordered
      /\ k.results = found
      /\ k.open = [i \in Lists!Item |-> IF i \in ordered \ known THEN Attempts ELSE 0]
  BY <1>1 DEF Lists!Jobs
<1>7. "switched" \notin missed => Own(k)
  <2>1. \A i \in Lists!Item : k.open[i] > 0 => i \in ordered
    BY <1>6
  <2>2. QED
    BY <1>3, <1>4, <1>6, <2>1 DEF ListsInv, Own
<1> HIDE DEF ordered, known, found, k
<1>8. /\ shuffled' \in [ListNames -> SUBSET SUBSET Lists!Item]
      /\ \A l \in ListNames : \A o, q \in shuffled'[l] : o = q
      /\ \A l \in ListNames : shuffled'[l] = shuffled[l] \/ (l = j.list /\ shuffled'[l] = {ordered})
  BY <1>1, <1>2, <1>3 DEF ListsInv, ListsTypes, Lists!TypeOK, ListNames
<1>9. "switched" \notin missed => OrdersAreOwn'
  BY <1>3, <1>8 DEF ListsInv, OrdersAreOwn
<1>10. cards' \in [Id -> Lists!Kinds]
  BY DEF ListsInv, ListsTypes, Lists!TypeOK
<1>11. QED
  BY <1>2, <1>5, <1>6, <1>7, <1>8, <1>9, <1>10, ContinueSteps, JobSteps

\* A job goes on to another stage, or its search to another attempt.
LEMMA JobMoves ==
  ASSUME ListsInv, NEW j \in jobs, NEW k \in Lists!Jobs,
         k.by = j.by, k.list = j.list, "switched" \notin missed => Own(k),
         \/ Lists!Replace(j, k) /\ UNCHANGED <<delivered, saved>>
         \/ Lists!Continue(j, k),
         UNCHANGED <<npServer, account, profile, shuffled, had, events, asks, missed>>,
         failures' \in 0..MaxFailures, cards' \in [Id -> Lists!Kinds]
  PROVE  ListsInv'
<1>1. /\ jobs' \subseteq (jobs \ {j}) \cup {k}
      /\ delivered' \in {delivered, [delivered EXCEPT ![j.list] = {k.results}]}
      /\ saved' \in {saved, [saved EXCEPT ![j.by][j.list] = k.results]}
  BY ContinueSteps DEF Lists!Replace
<1>2. /\ shuffled' \in [ListNames -> SUBSET SUBSET Lists!Item]
      /\ \A l \in ListNames : \A o, q \in shuffled'[l] : o = q
  BY DEF ListsInv, ListsTypes, Lists!TypeOK, ListNames
<1>3. "switched" \notin missed => OrdersAreOwn'
  BY DEF ListsInv, OrdersAreOwn
<1>4. missed' \in {missed, missed \cup {"namesake"}, missed \cup {}}
  OBVIOUS
<1>5. UNCHANGED <<npServer, account, profile, had, events, asks>>
  OBVIOUS
<1>6. QED
  BY <1>1, <1>2, <1>3, <1>4, <1>5, JobSteps

\* The types of what jobs hold and of the counters.
LEMMA ListsFacts ==
  ASSUME ListsInv
  PROVE  /\ profile \in Profile /\ npServer \in BOOLEAN
         /\ cards \in [Id -> Lists!Kinds] /\ failures \in 0..MaxFailures
         /\ Lists!Fails => failures' \in 0..MaxFailures
         /\ \A j \in jobs :
              /\ j \in Lists!Jobs /\ j.by \in Profile /\ j.from \in Profile
              /\ j.list \in ListNames /\ j.items \subseteq Lists!Item
              /\ j.open \in [Lists!Item -> 0..Attempts]
              /\ j.guessed \subseteq Lists!Item /\ j.results \subseteq Lists!Results
  BY LoadsAssumption
  DEF ListsInv, ListsTypes, Lists!TypeOK, Lists!Jobs, ListNames, Lists!Fails

LEMMA SearchKept ==
  ASSUME ListsInv, NEW j \in jobs, NEW i \in Lists!Item,
         Lists!SearchMatches(j, i) \/ \E other \in BOOLEAN : Lists!SearchMisses(j, i, other)
  PROVE  ListsInv'
<1> USE ListsFacts
<1>1. /\ j.open[i] > 0 /\ i[1] \in {"show", "movie"} /\ i[2] \in Id
      /\ UNCHANGED <<npServer, account, profile, shuffled, had, events, asks, missed, failures>>
  BY DEF Lists!SearchMatches, Lists!SearchMisses, Lists!Item
<1>2. "switched" \notin missed => Own(j) /\ i \in had[profile][j.list]
  BY <1>1 DEF ListsInv, Own
<1> DEFINE Become(n, g, rs) == [j EXCEPT !.open[i] = n, !.guessed = g, !.results = rs]
<1>3. ASSUME NEW n \in 0..Attempts, NEW g \in SUBSET Lists!Item,
             NEW rs \in SUBSET Lists!Results,
             \A r \in rs : r \in j.results \/ r.of = i
      PROVE  /\ Become(n, g, rs) \in Lists!Jobs
             /\ Become(n, g, rs).by = j.by /\ Become(n, g, rs).list = j.list
             /\ "switched" \notin missed => Own(Become(n, g, rs))
  <2> DEFINE k == Become(n, g, rs)
  <2>1. /\ k \in Lists!Jobs /\ k.by = j.by /\ k.list = j.list /\ k.from = j.from
        /\ k.items = j.items /\ k.results = rs /\ k.open = [j.open EXCEPT ![i] = n]
    BY DEF Lists!Jobs
  <2> HIDE DEF k
  <2>2. \A h \in Lists!Item : k.open[h] > 0 => j.open[h] > 0 \/ h = i
    BY <2>1
  <2>3. QED
    BY <1>2, <1>3, <2>1, <2>2 DEF Own, k
<1>4. ASSUME NEW c \in Lists!Kinds, Lists!Accept(j, i, c)
      PROVE  ListsInv'
  <2> DEFINE rs == j.results \cup {[of |-> i, card |-> c]}
             k == [j EXCEPT !.open[i] = 0, !.results = @ \cup {[of |-> i, card |-> c]}]
  <2>1. /\ rs \in SUBSET Lists!Results /\ 0 \in 0..Attempts
        /\ \A r \in rs : r \in j.results \/ r.of = i
    BY LoadsAssumption DEF Lists!Results
  <2>2. k = Become(0, j.guessed, rs)
    BY DEF Lists!Jobs
  <2> HIDE DEF Become
  <2>3. /\ cards' = [cards EXCEPT ![i[2]] = c] /\ Lists!Continue(j, k)
    BY <1>4 DEF Lists!Accept
  <2>4. /\ k \in Lists!Jobs /\ k.by = j.by /\ k.list = j.list
        /\ "switched" \notin missed => Own(k)
    BY <1>3, <2>1, <2>2
  <2>5. cards' \in [Id -> Lists!Kinds]
    BY <1>1, <2>3
  <2> HIDE DEF rs, k
  <2>6. QED
    BY <1>1, <2>3, <2>4, <2>5, JobMoves
<1>5. CASE Lists!SearchMatches(j, i)
  BY <1>1, <1>4, <1>5 DEF Lists!SearchMatches, Lists!Kinds
<1>6. CASE \E other \in BOOLEAN : Lists!SearchMisses(j, i, other)
  <2>1. PICK other \in BOOLEAN : Lists!SearchMisses(j, i, other)
    BY <1>6
  <2> DEFINE g == IF other THEN j.guessed \cup {i} ELSE j.guessed
             h == [j EXCEPT !.guessed = IF other THEN @ \cup {i} ELSE @]
  <2>2. g \in SUBSET Lists!Item /\ h = [j EXCEPT !.guessed = g]
    BY DEF Lists!Jobs
  <2>3. \/ /\ j.open[i] > 1 /\ Lists!Replace(j, [h EXCEPT !.open[i] = @ - 1])
           /\ UNCHANGED <<cards, saved, delivered>>
        \/ Lists!Accept(j, i, "guess")
        \/ Lists!Continue(j, [j EXCEPT !.open[i] = 0]) /\ UNCHANGED cards
    BY <2>1 DEF Lists!SearchMisses
  <2>4. ASSUME j.open[i] > 1, Lists!Replace(j, [h EXCEPT !.open[i] = @ - 1]),
               UNCHANGED <<cards, saved, delivered>>
        PROVE  ListsInv'
    <3>1. j.open[i] - 1 \in 0..Attempts
      BY <2>4, LoadsAssumption
    <3>2. [h EXCEPT !.open[i] = @ - 1]
            = Become(j.open[i] - 1, g, j.results)
      <4>1. j = [list |-> j.list, by |-> j.by, from |-> j.from, stage |-> j.stage,
                 items |-> j.items, open |-> j.open, guessed |-> j.guessed,
                 results |-> j.results]
        BY DEF Lists!Jobs
      <4> HIDE DEF g
      <4>2. QED
        BY <2>2, <4>1
    <3> DEFINE k == [h EXCEPT !.open[i] = @ - 1]
    <3>0. /\ j.results \in SUBSET Lists!Results /\ j.guessed \in SUBSET Lists!Item
          /\ \A r \in j.results : r \in j.results \/ r.of = i
      OBVIOUS
    <3> HIDE DEF k, g, h, Become
    <3>3. /\ k \in Lists!Jobs /\ k.by = j.by /\ k.list = j.list
          /\ "switched" \notin missed => Own(k)
      <4>1. k = Become(j.open[i] - 1, g, j.results)
        BY <3>2 DEF k
      <4>2. QED
        BY <1>3, <2>2, <3>0, <3>1, <4>1
    <3>4. Lists!Replace(j, k)
      BY <2>4 DEF k
    <3>5. QED
      BY <1>1, <2>4, <3>3, <3>4, JobMoves
  <2>5. ASSUME Lists!Continue(j, [j EXCEPT !.open[i] = 0]), UNCHANGED cards
        PROVE  ListsInv'
    <3> DEFINE k == [j EXCEPT !.open[i] = 0]
    <3>1. 0 \in 0..Attempts
      BY LoadsAssumption
    <3>2. k = Become(0, j.guessed, j.results)
      <4>1. j = [list |-> j.list, by |-> j.by, from |-> j.from, stage |-> j.stage,
                 items |-> j.items, open |-> j.open, guessed |-> j.guessed,
                 results |-> j.results]
        BY DEF Lists!Jobs
      <4>2. QED
        BY <4>1
    <3>0. /\ j.results \in SUBSET Lists!Results /\ j.guessed \in SUBSET Lists!Item
          /\ \A r \in j.results : r \in j.results \/ r.of = i
      OBVIOUS
    <3> HIDE DEF k, Become
    <3>3. /\ k \in Lists!Jobs /\ k.by = j.by /\ k.list = j.list
          /\ "switched" \notin missed => Own(k)
      BY <1>3, <3>0, <3>1, <3>2
    <3>4. Lists!Continue(j, k)
      BY <2>5 DEF k
    <3>5. QED
      BY <1>1, <2>5, <3>3, <3>4, JobMoves
  <2>6. QED
    BY <1>4, <2>3, <2>4, <2>5 DEF Lists!Kinds
<1>7. QED
  BY <1>5, <1>6

\* A job starts over for the profile of the present moment, its own unless there was a switch.
LEMMA FetchKept ==
  ASSUME ListsInv, NEW j \in jobs, Lists!CacheAnswers(j) \/ Lists!CacheFails(j)
  PROVE  ListsInv'
<1> USE ListsFacts
<1> DEFINE k == [j EXCEPT !.stage = "shows", !.from = profile]
<1>1. /\ k \in Lists!Jobs /\ k.by = j.by /\ k.list = j.list
      /\ k.from = profile /\ k.items = j.items /\ k.open = j.open /\ k.results = j.results
  BY DEF Lists!Jobs
<1>2. "switched" \notin missed => Own(k)
  BY <1>1 DEF ListsInv, Own
<1> HIDE DEF k
<1>3. /\ UNCHANGED <<npServer, account, profile, shuffled, cards, saved, had, events, asks, missed>>
      /\ failures' \in 0..MaxFailures
  BY DEF Lists!CacheAnswers, Lists!CacheFails
<1>4. CASE Lists!Replace(j, k) /\ UNCHANGED delivered
  BY <1>1, <1>2, <1>3, <1>4, JobMoves
<1>5. CASE /\ delivered' = [delivered EXCEPT ![j.list] = {saved[j.by][j.list]}]
           /\ jobs' = jobs \ {j}
  <2>1. /\ delivered' \in [ListNames -> SUBSET SUBSET Lists!Results]
    BY <1>5 DEF ListsInv, ListsTypes, Lists!TypeOK, ListNames
  <2>2. ListsTypes'
    BY <1>3, <1>5, <2>1 DEF ListsInv, ListsTypes, Lists!TypeOK, ListNames
  <2>3. QED
    BY <1>3, <1>5, <2>2
    DEF ListsInv, Own, OrdersAreOwn, Lists!SavedListsAreOwn, Lists!ItemsOf,
        Lists!WatchlistItems, Lists!WatchedItems, Lists!CancelledItems
<1>6. QED
  BY <1>4, <1>5 DEF Lists!CacheAnswers, Lists!CacheFails, k

LEMMA AnswerKept ==
  ASSUME ListsInv, NEW j \in jobs, NEW ok \in BOOLEAN,
         Lists!ShowsAnswer(j, ok) \/ Lists!MoviesAnswer(j, ok)
  PROVE  ListsInv'
<1> USE ListsFacts
<1>1. /\ UNCHANGED <<npServer, account, profile, cards, events, asks, had>>
      /\ failures' \in 0..MaxFailures
  BY DEF Lists!ShowsAnswer, Lists!MoviesAnswer
<1>2. /\ Lists!ItemsOf(j.list, j.from) \subseteq Lists!Item
      /\ "switched" \notin missed =>
            /\ Lists!ItemsOf(j.list, j.from) \subseteq had[profile][j.list]
            /\ Own(j)
  BY DEF ListsInv, Own, ListNames, Lists!ItemsOf, Lists!WatchlistItems, Lists!WatchedItems,
         Lists!CancelledItems
<1>3. CASE Lists!ShowsAnswer(j, ok)
  <2> DEFINE shows_ == IF ok THEN {i \in Lists!ItemsOf(j.list, j.from) : i[1] = "show"} ELSE {}
             k == [j EXCEPT !.stage = "movies", !.items = shows_, !.from = profile]
  <2>1. /\ shows_ \in SUBSET Lists!Item
        /\ "switched" \notin missed => shows_ \subseteq had[profile][j.list]
    BY <1>2
  <2>2. \/ Lists!Enrich(j, shows_)
        \/ Lists!Replace(j, k) /\ UNCHANGED <<shuffled, saved, delivered, missed>>
    BY <1>3 DEF Lists!ShowsAnswer
  <2>3. /\ k \in Lists!Jobs /\ k.by = j.by /\ k.list = j.list
        /\ k.from = profile /\ k.items = shows_ /\ k.open = j.open /\ k.results = j.results
    BY <2>1 DEF Lists!Jobs
  <2> HIDE DEF shows_, k
  <2>4. "switched" \notin missed => Own(k)
    BY <1>2, <2>1, <2>3 DEF Own
  <2>5. CASE Lists!Enrich(j, shows_)
    BY <1>1, <2>1, <2>5, EnrichKept
  <2>6. CASE Lists!Replace(j, k) /\ UNCHANGED <<shuffled, saved, delivered, missed>>
    BY <1>1, <2>3, <2>4, <2>6, JobMoves
  <2>7. QED
    BY <2>2, <2>5, <2>6
<1>4. CASE Lists!MoviesAnswer(j, ok)
  <2> DEFINE items == j.items \cup
                (IF ok THEN {i \in Lists!ItemsOf(j.list, j.from) : i[1] = "movie"} ELSE {})
  <2>1. /\ items \in SUBSET Lists!Item
        /\ "switched" \notin missed => items \subseteq had[profile][j.list]
    BY <1>2 DEF Own
  <2>2. Lists!Enrich(j, items)
    BY <1>4 DEF Lists!MoviesAnswer
  <2> HIDE DEF items
  <2>3. QED
    BY <1>1, <2>1, <2>2, EnrichKept
<1>5. QED
  BY <1>3, <1>4

\* What an account has in a list from now on, it has had.
LEMMA BecomesKept ==
  ASSUME ListsInv, NEW p \in Profile, NEW i \in Lists!Item, NEW s \in Lists!Status,
         Lists!Becomes(p, i, s), Lists!Happens,
         UNCHANGED <<npServer, profile, cards, saved, jobs, delivered, asks, failures, missed>>,
         shuffled' \in {shuffled, [l \in ListNames |-> {}]}
  PROVE  ListsInv'
<1>1. /\ account' \in [Profile -> [Lists!Item -> Lists!Status]]
      /\ events' \in 0..ListEvents
  BY LoadsAssumption DEF Lists!Becomes, Lists!Happens, ListsInv, ListsTypes, Lists!TypeOK
<1>2. had' = [had EXCEPT ![p] = Lists!Ever(p, account'[p])]
  BY DEF Lists!Becomes
<1>3. \A l \in ListNames :
        /\ Lists!Ever(p, account'[p])[l] \subseteq Lists!Item
        /\ had[p][l] \subseteq Lists!Ever(p, account'[p])[l]
        /\ Lists!ItemsOf(l, p)' \subseteq Lists!Ever(p, account'[p])[l]
  BY DEF Lists!Ever, ListNames, Lists!ItemsOf, Lists!WatchlistItems, Lists!WatchedItems,
         Lists!CancelledItems, ListsInv, ListsTypes
<1>4. Lists!Ever(p, account'[p]) \in [ListNames -> SUBSET Lists!Item]
  BY <1>3 DEF Lists!Ever, ListNames
<1>5. /\ had' \in [Profile -> [ListNames -> SUBSET Lists!Item]]
      /\ \A q \in Profile, l \in ListNames : had[q][l] \subseteq had'[q][l]
      /\ \A q \in Profile \ {p} : had'[q] = had[q] /\ account'[q] = account[q]
      /\ had'[p] = Lists!Ever(p, account'[p])
  <2>1. had \in [Profile -> [ListNames -> SUBSET Lists!Item]]
    BY DEF ListsInv, ListsTypes
  <2>2. had'[p] = Lists!Ever(p, account'[p]) /\ \A q \in Profile \ {p} : had'[q] = had[q]
    BY <1>2, <2>1
  <2>3. \A q \in Profile \ {p} : account'[q] = account[q]
    BY DEF Lists!Becomes, ListsInv, ListsTypes, Lists!TypeOK
  <2>4. had' \in [Profile -> [ListNames -> SUBSET Lists!Item]]
    BY <1>2, <1>4, <2>1
  <2>5. \A q \in Profile, l \in ListNames : had[q][l] \subseteq had'[q][l]
    BY <1>3, <2>2
  <2>6. QED
    BY <2>2, <2>3, <2>4, <2>5
<1>6. \A q \in Profile, l \in ListNames : Lists!ItemsOf(l, q)' \subseteq had'[q][l]
  <2>1. \A q \in Profile \ {p}, l \in ListNames : Lists!ItemsOf(l, q)' = Lists!ItemsOf(l, q)
    <3>1. SUFFICES ASSUME NEW q \in Profile \ {p}
                   PROVE  /\ Lists!WatchlistItems(q)' = Lists!WatchlistItems(q)
                          /\ Lists!WatchedItems(q)' = Lists!WatchedItems(q)
                          /\ Lists!CancelledItems(q)' = Lists!CancelledItems(q)
      BY DEF Lists!ItemsOf, ListNames
    <3>2. account'[q] = account[q]
      BY <1>5
    <3>3. QED
      BY <3>2 DEF Lists!WatchlistItems, Lists!WatchedItems, Lists!CancelledItems
  <2>2. QED
    BY <1>3, <1>5, <2>1 DEF ListsInv
<1>7. /\ shuffled' \in [ListNames -> SUBSET SUBSET Lists!Item]
      /\ \A l \in ListNames : \A o, q \in shuffled'[l] : o = q
      /\ \A l \in ListNames : shuffled'[l] \subseteq shuffled[l]
  BY DEF ListsInv, ListsTypes, Lists!TypeOK, ListNames
<1>8. ListsTypes'
  BY <1>1, <1>5, <1>7 DEF ListsInv, ListsTypes, Lists!TypeOK, ListNames
<1>9. ASSUME "switched" \notin missed
      PROVE  /\ \A j \in jobs' : Own(j)'
             /\ OrdersAreOwn' /\ Lists!SavedListsAreOwn'
  <2>1. \A j \in jobs : Own(j)'
    BY <1>5, <1>9, ListsFacts DEF ListsInv, Own
  <2>2. OrdersAreOwn'
    BY <1>5, <1>7, <1>9, ListsFacts DEF ListsInv, OrdersAreOwn
  <2>3. Lists!SavedListsAreOwn'
    BY <1>5, <1>9 DEF ListsInv, Lists!SavedListsAreOwn, ListNames
  <2>4. QED
    BY <2>1, <2>2, <2>3
<1>10. QED
  BY <1>6, <1>8, <1>9 DEF ListsInv

LEMMA ListsKept ==
  ASSUME ListsInv, Lists!Next
  PROVE  ListsInv'
<1> USE ListsFacts
<1>1. CASE \E l \in ListNames, force \in BOOLEAN : Lists!Ask(l, force)
  <2>1. PICK l \in ListNames, force \in BOOLEAN : Lists!Ask(l, force)
    BY <1>1
  <2> DEFINE k == [Lists!Job(l) EXCEPT !.stage = IF npServer /\ ~force THEN "cache" ELSE "shows"]
  <2>2. /\ k \in Lists!Jobs /\ k.by = profile /\ k.from = profile /\ k.list = l /\ k.items = {}
        /\ k.open = [i \in Lists!Item |-> 0] /\ k.results = {}
    <3>1. PICK none \in [Lists!Item -> 0..Attempts] : none = [i \in Lists!Item |-> 0]
      <4>1. [i \in Lists!Item |-> 0] \in [Lists!Item -> 0..Attempts]
        BY LoadsAssumption
      <4>2. QED
        BY <4>1, Zenon
    <3>2. PICK job \in Lists!Jobs :
            /\ job = Lists!Job(l)
            /\ job.by = profile /\ job.from = profile /\ job.list = l /\ job.items = {}
            /\ job.open = [i \in Lists!Item |-> 0] /\ job.results = {}
      <4>1. PICK job \in Lists!Jobs :
              job = [list |-> l, by |-> profile, from |-> profile, stage |-> "shows",
                     items |-> {}, open |-> none, guessed |-> {}, results |-> {}]
        BY DEF Lists!Jobs, ListNames
      <4>2. job = Lists!Job(l)
        BY <3>1, <4>1, Zenon DEF Lists!Job
      <4>3. /\ job.by = profile /\ job.from = profile /\ job.list = l /\ job.items = {}
            /\ job.open = none /\ job.results = {}
        BY <4>1
      <4>4. QED
        BY <3>1, <4>2, <4>3, Zenon
    <3>3. PICK where \in {"cache", "shows"} :
            where = IF npServer /\ ~force THEN "cache" ELSE "shows"
      OBVIOUS
    <3>4. k = [job EXCEPT !.stage = where]
      BY <3>2, <3>3, Zenon
    <3> HIDE DEF k
    <3>5. QED
      BY <3>2, <3>4 DEF Lists!Jobs
  <2>3. /\ jobs' = jobs \cup {k} /\ asks' \in 0..MaxAsks
        /\ UNCHANGED <<npServer, account, profile, shuffled, cards, saved, delivered, events,
                       failures, had, missed>>
    <3>1. asks \in 0..MaxAsks
      BY DEF ListsInv, ListsTypes, Lists!TypeOK
    <3>2. Lists!Ask(l, force)
      BY <2>1
    <3>3. QED
      <4>1. /\ asks < MaxAsks /\ asks' = asks + 1
            /\ jobs' = jobs \cup {k}
            /\ UNCHANGED <<npServer, account, profile, shuffled, cards, saved, delivered,
                           events, failures, had, missed>>
        BY <3>2, Zenon DEF Lists!Ask
      <4>2. asks' \in 0..MaxAsks
        BY <3>1, <4>1, LoadsAssumption
      <4>3. QED
        BY <4>1, <4>2
  <2> HIDE DEF k
  <2>4. Own(k)
    BY <2>2 DEF Own
  <2>5. ListsTypes'
    BY <2>2, <2>3 DEF ListsInv, ListsTypes, Lists!TypeOK
  <2>6. QED
    BY <2>3, <2>4, <2>5
    DEF ListsInv, Own, OrdersAreOwn, Lists!SavedListsAreOwn, Lists!ItemsOf,
        Lists!WatchlistItems, Lists!WatchedItems, Lists!CancelledItems
<1>2. CASE Lists!Answers
  BY <1>2, FetchKept, AnswerKept, SearchKept DEF Lists!Answers
<1>3. CASE \E j \in jobs : Lists!CacheFails(j) \/ Lists!ShowsAnswer(j, FALSE)
                             \/ Lists!MoviesAnswer(j, FALSE)
  BY <1>3, FetchKept, AnswerKept
<1>4. CASE \E n \in Id : Lists!CardExpires(n)
  <2>1. /\ cards' \in [Id -> Lists!Kinds] /\ events' \in 0..ListEvents
        /\ UNCHANGED <<npServer, account, profile, shuffled, saved, jobs, delivered, asks,
                       failures, had, missed>>
    BY <1>4, LoadsAssumption
    DEF Lists!CardExpires, Lists!Happens, Lists!Kinds, ListsInv, ListsTypes, Lists!TypeOK
  <2>2. ListsTypes'
    BY <2>1 DEF ListsInv, ListsTypes, Lists!TypeOK
  <2>3. QED
    BY <2>1, <2>2
    DEF ListsInv, Own, OrdersAreOwn, Lists!SavedListsAreOwn, Lists!ItemsOf,
        Lists!WatchlistItems, Lists!WatchedItems, Lists!CancelledItems
<1>5. CASE \E i \in Lists!Item, s \in Lists!Status :
              Lists!SetStatus(i, s) \/ \E p \in Profile : Lists!StatusElsewhere(p, i, s)
  BY <1>5, BecomesKept DEF Lists!SetStatus, Lists!StatusElsewhere, ListNames
<1>6. CASE \E p \in Profile : Lists!SwitchProfile(p)
  <2>1. PICK p \in Profile : Lists!SwitchProfile(p)
    BY <1>6
  <2>2. /\ profile' = p /\ shuffled' = [l \in ListNames |-> {}] /\ events' \in 0..ListEvents
        /\ missed' = missed \cup (IF jobs # {} THEN {"switched"} ELSE {})
        /\ UNCHANGED <<npServer, account, cards, saved, jobs, delivered, asks, failures, had>>
    BY <2>1, LoadsAssumption
    DEF Lists!SwitchProfile, Lists!Happens, ListNames, ListsInv, ListsTypes, Lists!TypeOK
  <2>3. ListsTypes'
    BY <2>2 DEF ListsInv, ListsTypes, Lists!TypeOK, ListNames
  <2>4. "switched" \notin missed' => jobs = {} /\ "switched" \notin missed
    BY <2>2
  <2>5. OrdersAreOwn'
    BY <2>2 DEF OrdersAreOwn
  <2>6. QED
    BY <2>2, <2>3, <2>4, <2>5
    DEF ListsInv, Lists!SavedListsAreOwn, Lists!ItemsOf,
        Lists!WatchlistItems, Lists!WatchedItems, Lists!CancelledItems
<1>7. QED
  BY <1>1, <1>2, <1>3, <1>4, <1>5, <1>6 DEF Lists!Next, ListNames

-----------------------------------------------------------------------------
(* The calendar *)

\* Fillings leave the waiting line one at a time.
LEMMA RemoveAtIs ==
  ASSUME NEW S, NEW s \in Seq(S), NEW i \in DOMAIN s
  PROVE  /\ Calendar!RemoveAt(s, i) \in Seq(S)
         /\ i = 1 => Calendar!RemoveAt(s, i) = Tail(s)
  BY DEF Calendar!RemoveAt

\* What a filling does to the screen.
LEMMA ApplyTyped ==
  ASSUME Calendar!TypeOK, NEW by, NEW items \in SUBSET Show, Calendar!ApplyItems(by, items)
  PROVE  /\ table' \in SUBSET SUBSET Show /\ \A s, t \in table' : s = t
         /\ fills' \in Seq(SUBSET Show)
         /\ ~wrapped => fills' = fills
<1>1. /\ table \in SUBSET SUBSET Show /\ \A s, t \in table : s = t
      /\ fills \in Seq(SUBSET Show)
  BY DEF Calendar!TypeOK
<1>2. CASE view = by /\ wrapped
  <2>1. fills' = Append(fills, items \ lampa) /\ table' = table
    BY <1>2 DEF Calendar!ApplyItems, Calendar!Fill
  <2>2. items \ lampa \in SUBSET Show
    OBVIOUS
  <2>3. Append(fills, items \ lampa) \in Seq(SUBSET Show)
    BY <1>1, <2>2
  <2>4. QED
    BY <1>1, <1>2, <2>1, <2>3
<1>3. CASE view = by /\ ~wrapped
  <2>1. fills' = fills /\ table' = {items \ lampa}
    BY <1>3 DEF Calendar!ApplyItems, Calendar!Fill
  <2>2. QED
    BY <1>1, <2>1
<1>4. CASE view # by
  BY <1>1, <1>4 DEF Calendar!ApplyItems, Calendar!screen
<1>5. QED
  BY <1>2, <1>3, <1>4 DEF Calendar!TypeOK

CalendarTypes ==
    /\ Calendar!TypeOK
    /\ ~wrapped => fills = <<>> /\ watching = {}
    /\ np => \A r \in reqs : r.what # "refresh"

\* Steps after which the world is as it was; what they changed is of its type.
LEMMA CalendarFrame ==
  ASSUME CalendarTypes, UNCHANGED <<np, airing, lampa, wrapped, watching>>,
         shows' \in SUBSET Show, unwatched' \in SUBSET Show, extra' \in SUBSET Show,
         upcoming' \in SUBSET Show, view' \in 0..MaxOpens, opens' \in 0..MaxOpens,
         events' \in 0..CalendarEvents,
         table' \in SUBSET SUBSET Show, \A s, t \in table' : s = t,
         fills' \in Seq(SUBSET Show), ~wrapped => fills' = <<>>,
         hook' \in SUBSET (1..MaxOpens), \A v, w \in hook' : v = w,
         reqs' \in SUBSET Calendar!Requests,
         np => \A r \in reqs' : r.what # "refresh",
         missed' \in SUBSET Calendar!Ways
  PROVE  CalendarTypes'
  BY DEF CalendarTypes, Calendar!TypeOK

LEMMA CalendarFacts ==
  ASSUME CalendarTypes
  PROVE  /\ np \in BOOLEAN /\ wrapped \in BOOLEAN
         /\ airing \in SUBSET Show /\ lampa \in SUBSET Show /\ watching \in SUBSET Show
         /\ shows \in SUBSET Show /\ unwatched \in SUBSET Show /\ extra \in SUBSET Show
         /\ upcoming \in SUBSET Show /\ view \in 0..MaxOpens /\ opens \in 0..MaxOpens
         /\ events \in 0..CalendarEvents
         /\ table \in SUBSET SUBSET Show /\ \A s, t \in table : s = t
         /\ fills \in Seq(SUBSET Show) /\ (~wrapped => fills = <<>>)
         /\ hook \in SUBSET (1..MaxOpens) /\ \A v, w \in hook : v = w
         /\ reqs \in SUBSET Calendar!Requests
         /\ np => \A r \in reqs : r.what # "refresh"
         /\ missed \in SUBSET Calendar!Ways
         /\ Calendar!Happens => events' \in 0..CalendarEvents
         /\ \A r \in reqs : r.map \in SUBSET Show /\ r.by \in 1..MaxOpens
  BY LoadsAssumption
  DEF CalendarTypes, Calendar!TypeOK, Calendar!Happens, Calendar!Requests

\* Requests are of their types.
LEMMA CalendarAsks ==
  ASSUME NEW what \in {"extra", "unwatched", "shows", "read", "sync", "refresh"},
         NEW by \in 1..MaxOpens, NEW map \in SUBSET Show, NEW fresh \in BOOLEAN
  PROVE  /\ Calendar!Ask(what, by, map, fresh) \in Calendar!Requests
         /\ Calendar!Ask(what, by, map, fresh).what = what
         /\ Calendar!Ask(what, by, map, fresh).by = by
         /\ Calendar!Ask(what, by, map, fresh).map = map
         /\ Calendar!Ask(what, by, map, fresh).fresh = fresh
  BY DEF Calendar!Ask, Calendar!Requests

LEMMA CalendarStart == Calendar!Init => CalendarTypes
<1>1. 0 \in 0..MaxOpens /\ 0 \in 0..CalendarEvents
  BY LoadsAssumption
<1>2. <<>> \in Seq(SUBSET Show)
  OBVIOUS
<1>3. QED
  BY <1>1, <1>2 DEF Calendar!Init, CalendarTypes, Calendar!TypeOK

\* A calendar that is opened.
LEMMA OpenTyped ==
  ASSUME CalendarTypes, NEW calendar \in BOOLEAN, Calendar!Open(calendar)
  PROVE  CalendarTypes'
<1>1. /\ opens' \in 0..MaxOpens /\ view' \in 0..MaxOpens /\ opens + 1 \in 1..MaxOpens
      /\ UNCHANGED <<np, airing, lampa, shows, wrapped, watching, unwatched, extra, upcoming,
                     hook, events>>
  BY CalendarFacts, LoadsAssumption DEF Calendar!Open, Calendar!world
<1>2. /\ table' = IF calendar \/ wrapped THEN {} ELSE {{}}
      /\ fills' = IF calendar \/ ~wrapped THEN <<>> ELSE <<{}>>
  BY DEF Calendar!Open
<1>3. table' \in SUBSET SUBSET Show /\ \A s, t \in table' : s = t
  <2>1. table' = {} \/ table' = {{}}
    BY <1>2
  <2>2. QED
    BY <2>1
<1>4. fills' \in Seq(SUBSET Show) /\ (~wrapped => fills' = <<>>)
  <2>1. <<>> \in Seq(SUBSET Show) /\ <<{}>> \in Seq(SUBSET Show)
    OBVIOUS
  <2>2. fills' = <<>> \/ (wrapped /\ fills' = <<{}>>)
    BY <1>2
  <2>3. QED
    BY <2>1, <2>2
<1>5. reqs' \in SUBSET Calendar!Requests /\ (np => \A r \in reqs' : r.what # "refresh")
  <2> DEFINE q == Calendar!Ask("extra", opens + 1, {}, FALSE)
  <2>1. reqs' \subseteq reqs \cup {q}
    BY DEF Calendar!Open
  <2>2. q \in Calendar!Requests /\ q.what = "extra"
    BY <1>1 DEF Calendar!Ask, Calendar!Requests
  <2> HIDE DEF q
  <2>3. QED
    BY <2>1, <2>2, CalendarFacts
<1>6. missed' \in SUBSET Calendar!Ways
  BY CalendarFacts DEF Calendar!Open, Calendar!Ways, Calendar!Missed
<1>7. CalendarTypes /\ UNCHANGED <<np, airing, lampa, wrapped, watching>>
  BY <1>1
<1>8. QED
  BY <1>1, <1>3, <1>4, <1>5, <1>6, <1>7, CalendarFacts, CalendarFrame

\* The calendar of the server answers, or does not.
LEMMA FillingTyped ==
  ASSUME CalendarTypes, NEW i \in DOMAIN fills,
         Calendar!CalendarAnswers(i) \/ Calendar!CalendarFails(i)
  PROVE  CalendarTypes'
<1>1. /\ UNCHANGED <<np, airing, lampa, shows, wrapped, watching, unwatched, extra, upcoming,
                     view, hook, reqs, opens>>
      /\ fills' = Calendar!RemoveAt(fills, i)
      /\ table' = {fills[i] \cup (watching \ lampa)} \/ table' = {fills[i]}
  BY DEF Calendar!CalendarAnswers, Calendar!CalendarFails, Calendar!world
<1>2. events' \in 0..CalendarEvents
  BY CalendarFacts DEF Calendar!CalendarAnswers, Calendar!CalendarFails
<1>3. missed' \in SUBSET Calendar!Ways
  BY CalendarFacts
  DEF Calendar!CalendarAnswers, Calendar!CalendarFails, Calendar!Missed, Calendar!Ways
<1>4. fills \in Seq(SUBSET Show) /\ watching \in SUBSET Show /\ wrapped
  BY CalendarFacts
<1>5. fills[i] \in SUBSET Show /\ fills' \in Seq(SUBSET Show)
  BY <1>1, <1>4, RemoveAtIs
<1>6. table' \in SUBSET SUBSET Show /\ \A s, t \in table' : s = t
  BY <1>1, <1>4, <1>5
<1>7. QED
  BY <1>1, <1>2, <1>3, <1>4, <1>5, <1>6, CalendarFacts, CalendarFrame

\* What asking about a list of shows changes.
LEMMA FetchTyped ==
  ASSUME CalendarTypes, NEW by \in 1..MaxOpens, NEW map \in SUBSET Show,
         NEW fresh \in BOOLEAN, NEW rest \in SUBSET Calendar!Requests,
         np => \A r \in rest : r.what # "refresh",
         Calendar!FetchUpcoming(by, map, fresh, rest)
  PROVE  /\ hook' \in SUBSET (1..MaxOpens) /\ \A v, w \in hook' : v = w
         /\ reqs' \in SUBSET Calendar!Requests
         /\ np => \A r \in reqs' : r.what # "refresh"
         /\ table' \in SUBSET SUBSET Show /\ \A s, t \in table' : s = t
         /\ fills' \in Seq(SUBSET Show) /\ (~wrapped => fills' = <<>>)
         /\ missed' \in SUBSET Calendar!Ways
<1>1. hook' = {by}
  BY DEF Calendar!FetchUpcoming
<1>2. reqs' \in SUBSET Calendar!Requests /\ (np => \A r \in reqs' : r.what # "refresh")
  <2> DEFINE q == Calendar!Ask("read", by, map, fresh)
  <2>1. reqs' \subseteq rest \cup {q}
    BY DEF Calendar!FetchUpcoming
  <2>2. q \in Calendar!Requests /\ q.what = "read"
    BY CalendarAsks
  <2> HIDE DEF q
  <2>3. QED
    BY <2>1, <2>2
<1>3. /\ table' \in SUBSET SUBSET Show /\ \A s, t \in table' : s = t
      /\ fills' \in Seq(SUBSET Show) /\ (~wrapped => fills' = <<>>)
  <2>1. CASE UNCHANGED Calendar!screen
    BY <2>1, CalendarFacts DEF Calendar!screen
  <2>2. CASE Calendar!ApplyItems(by, upcoming \cap map)
    <3>1. upcoming \cap map \in SUBSET Show /\ Calendar!TypeOK
      BY DEF CalendarTypes
    <3>2. QED
      BY <2>2, <3>1, ApplyTyped, CalendarFacts
  <2>3. QED
    BY <2>1, <2>2 DEF Calendar!FetchUpcoming
<1>4. missed' \in SUBSET Calendar!Ways
  BY CalendarFacts DEF Calendar!FetchUpcoming, Calendar!Missed, Calendar!Ways
<1>5. QED
  BY <1>1, <1>2, <1>3, <1>4

\* A request is answered, or fails.
LEMMA RequestTyped ==
  ASSUME CalendarTypes, NEW r \in reqs, NEW kept \in {extra, {}}, NEW base_ \in {unwatched, {}},
         NEW found \in SUBSET shows,
         \/ Calendar!ExtraAnswers(r, kept) /\ (Calendar!Happens \/ UNCHANGED events)
         \/ Calendar!UnwatchedAnswers(r, base_) /\ (Calendar!Happens \/ UNCHANGED events)
         \/ Calendar!ShowsAnswer(r, found) \/ Calendar!ShowsFail(r)
         \/ Calendar!TimetableAnswers(r) \/ Calendar!TimetableFails(r)
         \/ Calendar!RefreshAnswers(r) \/ Calendar!RefreshFails(r)
  PROVE  CalendarTypes'
<1>1. /\ r.map \in SUBSET Show /\ r.by \in 1..MaxOpens
      /\ kept \in SUBSET Show /\ base_ \in SUBSET Show /\ found \in SUBSET Show
      /\ {} \in SUBSET Show /\ TRUE \in BOOLEAN /\ FALSE \in BOOLEAN
  BY CalendarFacts
<1> DEFINE Left == reqs \ {r}
<1>2. Left \in SUBSET Calendar!Requests /\ (np => \A q \in Left : q.what # "refresh")
  BY CalendarFacts
<1>3. events' \in 0..CalendarEvents
  BY CalendarFacts
  DEF Calendar!ExtraAnswers, Calendar!UnwatchedAnswers, Calendar!ShowsAnswer,
      Calendar!ShowsFail, Calendar!TimetableAnswers, Calendar!TimetableFails,
      Calendar!RefreshAnswers, Calendar!RefreshFails
<1>4. UNCHANGED <<np, airing, lampa, shows, wrapped, watching, unwatched, view, opens>>
  BY DEF Calendar!ExtraAnswers, Calendar!UnwatchedAnswers, Calendar!ShowsAnswer,
      Calendar!ShowsFail, Calendar!TimetableAnswers, Calendar!TimetableFails,
      Calendar!RefreshAnswers, Calendar!RefreshFails, Calendar!world
<1>5. CASE Calendar!ExtraAnswers(r, kept)
  <2> DEFINE q == Calendar!Ask("unwatched", r.by, {}, TRUE)
             rest == Left \cup {q}
  <2>1. rest \in SUBSET Calendar!Requests /\ (np => \A z \in rest : z.what # "refresh")
    <3>1. q \in Calendar!Requests /\ q.what = "unwatched"
      BY <1>1 DEF Calendar!Ask, Calendar!Requests
    <3> HIDE DEF q
    <3>2. QED
      BY <1>2, <3>1
  <2>2. UNCHANGED <<extra, upcoming>>
    BY <1>5 DEF Calendar!ExtraAnswers
  <2>3. CASE kept # {}
    <3>1. Calendar!FetchUpcoming(r.by, kept, FALSE, rest)
      BY <1>5, <2>3 DEF Calendar!ExtraAnswers
    <3> HIDE DEF rest
    <3>2. QED
      BY <1>1, <1>3, <1>4, <2>1, <2>2, <3>1, FetchTyped, CalendarFrame, CalendarFacts
  <2>4. CASE kept = {}
    <3>1. reqs' = rest /\ UNCHANGED <<hook, table, fills, missed>>
      BY <1>5, <2>4 DEF Calendar!ExtraAnswers, Calendar!screen
    <3> HIDE DEF rest
    <3>2. QED
      BY <1>3, <1>4, <2>1, <2>2, <3>1, CalendarFrame, CalendarFacts
  <2>5. QED
    BY <2>3, <2>4
<1>6. CASE Calendar!UnwatchedAnswers(r, base_)
  <2> DEFINE q == Calendar!Ask("shows", r.by, base_, TRUE)
  <2>1. /\ reqs' = Left \cup {q}
        /\ UNCHANGED <<extra, upcoming, hook, table, fills, missed>>
    BY <1>6 DEF Calendar!UnwatchedAnswers, Calendar!screen
  <2>2. reqs' \in SUBSET Calendar!Requests /\ (np => \A z \in reqs' : z.what # "refresh")
    <3>1. q \in Calendar!Requests /\ q.what = "shows"
      BY <1>1 DEF Calendar!Ask, Calendar!Requests
    <3> HIDE DEF q, Left
    <3>2. QED
      BY <1>2, <2>1, <3>1
  <2>3. QED
    BY <1>3, <1>4, <2>1, <2>2, CalendarFrame, CalendarFacts
<1>7. CASE Calendar!ShowsAnswer(r, found)
  <2>1. extra' = r.map \cup found /\ UNCHANGED upcoming
    BY <1>7 DEF Calendar!ShowsAnswer
  <2>2. Calendar!FetchUpcoming(r.by, r.map \cup found, TRUE, Left)
    BY <1>7 DEF Calendar!ShowsAnswer
  <2>3. r.map \cup found \in SUBSET Show
    BY <1>1
  <2> HIDE DEF Left
  <2>4. QED
    BY <1>1, <1>2, <1>3, <1>4, <2>1, <2>2, <2>3, FetchTyped, CalendarFrame, CalendarFacts
<1>8. CASE Calendar!ShowsFail(r)
  <2> DEFINE q == Calendar!Ask("read", r.by, r.map, TRUE)
  <2>1. /\ hook' = {r.by} /\ reqs' \subseteq Left \cup {q}
        /\ UNCHANGED <<extra, upcoming, table, fills>>
    BY <1>8 DEF Calendar!ShowsFail, Calendar!screen
  <2>2. q \in Calendar!Requests /\ q.what = "read"
    BY <1>1 DEF Calendar!Ask, Calendar!Requests
  <2>3. missed' \in SUBSET Calendar!Ways
    BY <1>8, CalendarFacts DEF Calendar!ShowsFail, Calendar!Missed, Calendar!Ways
  <2> HIDE DEF q, Left
  <2>4. reqs' \in SUBSET Calendar!Requests /\ (np => \A z \in reqs' : z.what # "refresh")
    BY <1>2, <2>1, <2>2
  <2>5. hook' \in SUBSET (1..MaxOpens) /\ \A v, w \in hook' : v = w
    BY <1>1, <2>1
  <2>6. QED
    BY <1>3, <1>4, <2>1, <2>3, <2>4, <2>5, CalendarFrame, CalendarFacts
<1>9. CASE Calendar!TimetableAnswers(r) \/ Calendar!TimetableFails(r) \/ Calendar!RefreshAnswers(r)
  <2>1. /\ reqs' = Left /\ UNCHANGED <<extra, hook>>
        /\ upcoming' \in SUBSET Show
    BY <1>9, CalendarFacts
    DEF Calendar!TimetableAnswers, Calendar!TimetableFails, Calendar!RefreshAnswers
  <2>2. missed' \in SUBSET Calendar!Ways
    BY <1>9, CalendarFacts
    DEF Calendar!TimetableAnswers, Calendar!TimetableFails, Calendar!RefreshAnswers,
        Calendar!Missed, Calendar!Ways
  <2>3. PICK items \in SUBSET Show : Calendar!ApplyItems(r.by, items)
    <3>1. /\ r.map \cap airing \in SUBSET Show
          /\ (IF unwatched # {} THEN unwatched ELSE r.map) \cap airing \in SUBSET Show
      BY CalendarFacts
    <3>2. QED
      BY <1>1, <1>9, <3>1
      DEF Calendar!TimetableAnswers, Calendar!TimetableFails, Calendar!RefreshAnswers
  <2>4. /\ table' \in SUBSET SUBSET Show /\ \A s, t \in table' : s = t
        /\ fills' \in Seq(SUBSET Show) /\ (~wrapped => fills' = <<>>)
    <3>1. Calendar!TypeOK
      BY DEF CalendarTypes
    <3>2. QED
      BY <2>3, <3>1, ApplyTyped, CalendarFacts
  <2> HIDE DEF Left
  <2>5. QED
    BY <1>2, <1>3, <1>4, <2>1, <2>2, <2>4, CalendarFrame, CalendarFacts
<1>10. CASE Calendar!RefreshFails(r)
  <2>1. /\ reqs' = Left /\ UNCHANGED <<extra, upcoming, hook, table, fills>>
        /\ missed' \in SUBSET Calendar!Ways
    BY <1>10, CalendarFacts DEF Calendar!RefreshFails, Calendar!screen, Calendar!Ways
  <2> HIDE DEF Left
  <2>2. QED
    BY <1>2, <1>3, <1>4, <2>1, CalendarFrame, CalendarFacts
<1>11. QED
  BY <1>5, <1>6, <1>7, <1>8, <1>9, <1>10

\* The unwatched shows were saved, and the calendar that waits is refreshed.
LEMMA SavedTyped ==
  ASSUME CalendarTypes, NEW fresh \in SUBSET shows, Calendar!UnwatchedSaved(fresh)
  PROVE  CalendarTypes'
<1>1. /\ fresh \in SUBSET Show /\ events' \in 0..CalendarEvents /\ unwatched' = fresh
      /\ hook' = {} /\ {} \in SUBSET Show /\ TRUE \in BOOLEAN
      /\ UNCHANGED <<np, airing, lampa, shows, wrapped, watching, extra, upcoming, view, opens>>
  BY CalendarFacts DEF Calendar!UnwatchedSaved, Calendar!world
<1>2. CASE np /\ fresh = {}
  <2>1. reqs' = reqs /\ missed' \in SUBSET Calendar!Ways
    BY <1>2, CalendarFacts DEF Calendar!UnwatchedSaved, Calendar!Missed, Calendar!Ways
  <2>2. /\ table' \in SUBSET SUBSET Show /\ \A s, t \in table' : s = t
        /\ fills' \in Seq(SUBSET Show) /\ (~wrapped => fills' = <<>>)
    <3>1. CASE hook = {}
      BY <1>2, <3>1, CalendarFacts DEF Calendar!UnwatchedSaved, Calendar!screen
    <3>2. CASE hook # {}
      <4>1. PICK by \in hook : Calendar!ApplyItems(by, {})
        BY <1>2, <3>2 DEF Calendar!UnwatchedSaved
      <4>2. Calendar!TypeOK
        BY DEF CalendarTypes
      <4>3. QED
        BY <1>1, <4>1, <4>2, ApplyTyped, CalendarFacts
    <3>3. QED
      BY <3>1, <3>2
  <2>3. QED
    BY <1>1, <2>1, <2>2, CalendarFrame, CalendarFacts
<1>3. CASE ~(np /\ fresh = {})
  <2> DEFINE what == IF np THEN "sync" ELSE "refresh"
  <2>1. /\ reqs' = reqs \cup {Calendar!Ask(what, by, fresh, TRUE) : by \in hook}
        /\ UNCHANGED <<table, fills, missed>>
    BY <1>3 DEF Calendar!UnwatchedSaved, Calendar!screen
  <2>2. what \in {"sync", "refresh"} /\ (np => what = "sync")
    OBVIOUS
  <2> HIDE DEF what
  <2>3. \A by \in hook : /\ Calendar!Ask(what, by, fresh, TRUE) \in Calendar!Requests
                         /\ Calendar!Ask(what, by, fresh, TRUE).what = what
    <3>1. \A by \in hook : by \in 1..MaxOpens
      BY CalendarFacts
    <3>2. QED
      BY <1>1, <2>2, <3>1 DEF Calendar!Ask, Calendar!Requests
  <2>4. reqs' \in SUBSET Calendar!Requests /\ (np => \A q \in reqs' : q.what # "refresh")
    BY <2>1, <2>2, <2>3, CalendarFacts
  <2>5. QED
    BY <1>1, <2>1, <2>4, CalendarFrame, CalendarFacts
<1>4. QED
  BY <1>2, <1>3

LEMMA CalendarTyped ==
  ASSUME CalendarTypes, [Calendar!Next]_(Calendar!vars)
  PROVE  CalendarTypes'
<1>1. CASE Calendar!Close
  <2>1. <<>> \in Seq(SUBSET Show) /\ 0 \in 0..MaxOpens
    BY LoadsAssumption
  <2>2. QED
    BY <1>1, <2>1, CalendarFacts, CalendarFrame DEF Calendar!Close, Calendar!world
<1>2. CASE \E s \in Show : Calendar!ShowsChange(s)
  BY <1>2, CalendarFacts, CalendarFrame DEF Calendar!ShowsChange, Calendar!screen
<1>3. CASE UNCHANGED Calendar!vars
  BY <1>3
  DEF Calendar!vars, Calendar!world, Calendar!screen, CalendarTypes, Calendar!TypeOK,
      Calendar!Ways
<1>4. QED
  BY <1>1, <1>2, <1>3, OpenTyped, FillingTyped, RequestTyped, SavedTyped
  DEF Calendar!Next, Calendar!Answers, Calendar!Failures

\* The requests of the pass that makes the list again.
Main ==
    {r \in reqs : r.what \in {"extra", "unwatched", "shows"} \/ (r.what = "read" /\ r.fresh)}

Kept == (extra \cap airing) \ lampa

\* The last filling is that of the list made again.
Shown ==
    IF fills = <<>> THEN table = {Kept \cup (watching \ lampa)} ELSE fills[Len(fills)] = Kept

\* That pass is a chain of single requests for the open calendar; the last one asks about
\* the list that is kept, and once it was answered the calendar shows that list, until it
\* is refreshed.
Settling ==
    /\ \A r \in reqs : r.what = "sync" \/ r.by = view
    /\ \A q, r \in Main : q = r
    /\ \A r \in Main : r.what = "read" => r.map = extra
    /\ Main = {} /\ (\A r \in reqs : r.what # "sync") => Shown

CalendarInv ==
    /\ CalendarTypes
    /\ np /\ view # 0 /\ missed = {} => Settling

\* The request of the chain is followed by the next one; another may join it.
LEMMA ChainGoesOn ==
  ASSUME Settling, NEW r \in Main, NEW q, q.by = r.by, view' = view,
         q.what \in {"unwatched", "shows"} \/ (q.what = "read" /\ q.fresh),
         q.what = "read" => q.map = extra',
         q \in reqs',
         \A z \in reqs' : \/ z \in reqs /\ z # r
                          \/ z = q
                          \/ z.what = "read" /\ ~z.fresh /\ z.by = r.by
  PROVE  Settling'
<1>1. r.by = view
  BY DEF Settling, Main
<1>2. \A z \in Main' : z = q
  BY DEF Settling, Main
<1>3. q \in Main'
  BY DEF Main
<1>4. \A z \in reqs' : z.what = "sync" \/ z.by = view'
  BY <1>1 DEF Settling
<1>5. QED
  BY <1>2, <1>3, <1>4 DEF Settling

\* Steps that leave the chain and the screen alone.
LEMMA ChainStays ==
  ASSUME Settling, UNCHANGED <<view, airing, lampa, watching, extra, table, fills>>,
         \A z \in reqs' : z \in reqs \/ z.what = "sync",
         \A z \in reqs : z.what = "sync" \/ z \in Main => z \in reqs'
  PROVE  Settling'
<1>1. Main' = Main
  BY DEF Main
<1>2. Shown' = Shown
  BY DEF Shown, Kept
<1>3. QED
  BY <1>1, <1>2 DEF Settling

\* What the list made again fills in is shown.
LEMMA FillShows ==
  ASSUME CalendarTypes, view # 0, Calendar!ApplyItems(view, extra \cap airing),
         UNCHANGED <<airing, lampa, watching, extra>>
  PROVE  Shown'
<1>1. Kept' = Kept /\ Kept \in SUBSET Show /\ fills \in Seq(SUBSET Show)
  BY CalendarFacts DEF Kept
<1>2. CASE wrapped
  <2>1. fills' = Append(fills, Kept)
    BY <1>2 DEF Calendar!ApplyItems, Calendar!Fill, Kept
  <2>2. fills' # <<>> /\ fills'[Len(fills')] = Kept
    BY <1>1, <2>1
  <2>3. QED
    BY <1>1, <2>2 DEF Shown
<1>3. CASE ~wrapped
  <2>1. table' = {Kept} /\ fills' = <<>> /\ watching' = {}
    BY <1>3 DEF Calendar!ApplyItems, Calendar!Fill, Kept, CalendarTypes
  <2>2. QED
    BY <1>1, <2>1 DEF Shown
<1>4. QED
  BY <1>2, <1>3

\* An answer, with the failures that nothing records: an empty list is read.
LEMMA RequestSettles ==
  ASSUME CalendarInv, NEW r \in reqs, NEW kept, NEW base_, NEW found,
         \/ Calendar!ExtraAnswers(r, kept)
         \/ Calendar!UnwatchedAnswers(r, base_)
         \/ Calendar!ShowsAnswer(r, found) \/ Calendar!ShowsFail(r)
         \/ Calendar!TimetableAnswers(r) \/ Calendar!TimetableFails(r)
         \/ Calendar!RefreshAnswers(r) \/ Calendar!RefreshFails(r),
         np, view # 0, missed' = {}
  PROVE  Settling'
<1>1. /\ UNCHANGED <<np, airing, lampa, watching, view>> /\ missed \subseteq missed'
  BY DEF Calendar!ExtraAnswers, Calendar!UnwatchedAnswers, Calendar!ShowsAnswer,
      Calendar!ShowsFail, Calendar!TimetableAnswers, Calendar!TimetableFails,
      Calendar!RefreshAnswers, Calendar!RefreshFails, Calendar!world, Calendar!FetchUpcoming
<1>2. Settling /\ CalendarTypes /\ r.what # "refresh"
  BY <1>1 DEF CalendarInv, CalendarTypes
<1>3. CASE Calendar!ExtraAnswers(r, kept)
  <2> DEFINE q == Calendar!Ask("unwatched", r.by, {}, TRUE)
             early == Calendar!Ask("read", r.by, kept, FALSE)
  <2>1. r \in Main
    BY <1>3 DEF Main, Calendar!ExtraAnswers
  <2>2. /\ q.what = "unwatched" /\ q.by = r.by
        /\ early.what = "read" /\ early.by = r.by /\ ~early.fresh
    BY DEF Calendar!Ask
  <2>3. q \in reqs' /\ reqs' \subseteq (reqs \ {r}) \cup {q, early}
    BY <1>3 DEF Calendar!ExtraAnswers, Calendar!FetchUpcoming
  <2> HIDE DEF q, early
  <2>4. QED
    BY <1>1, <1>2, <2>1, <2>2, <2>3, ChainGoesOn
<1>4. CASE Calendar!UnwatchedAnswers(r, base_)
  <2> DEFINE q == Calendar!Ask("shows", r.by, base_, TRUE)
  <2>1. r \in Main
    BY <1>4 DEF Main, Calendar!UnwatchedAnswers
  <2>2. q.what = "shows" /\ q.by = r.by
    BY DEF Calendar!Ask
  <2>3. reqs' = (reqs \ {r}) \cup {q}
    BY <1>4 DEF Calendar!UnwatchedAnswers
  <2> HIDE DEF q
  <2>4. QED
    BY <1>1, <1>2, <2>1, <2>2, <2>3, ChainGoesOn
<1>5. CASE Calendar!ShowsAnswer(r, found)
  <2> DEFINE q == Calendar!Ask("read", r.by, extra', TRUE)
  <2>1. r \in Main
    BY <1>5 DEF Main, Calendar!ShowsAnswer
  <2>2. q.what = "read" /\ q.fresh /\ q.by = r.by /\ q.map = extra'
    BY DEF Calendar!Ask
  <2>3. Calendar!FetchUpcoming(r.by, extra', TRUE, reqs \ {r})
    BY <1>5 DEF Calendar!ShowsAnswer
  <2>4. extra' # {}
    BY <2>3 DEF Calendar!FetchUpcoming, Calendar!Missed
  <2>5. reqs' = (reqs \ {r}) \cup {q}
    BY <2>3, <2>4 DEF Calendar!FetchUpcoming
  <2> HIDE DEF q
  <2>6. QED
    BY <1>1, <1>2, <2>1, <2>2, <2>5, ChainGoesOn
<1>6. CASE Calendar!TimetableAnswers(r)
  <2>1. /\ reqs' = reqs \ {r} /\ UNCHANGED extra
        /\ Calendar!ApplyItems(r.by, r.map \cap airing)
        /\ r.what = "read"
    BY <1>6 DEF Calendar!TimetableAnswers, Calendar!Missed
  <2>2. r.by = view
    BY <1>2, <2>1 DEF Settling
  <2>3. CASE r.fresh
    <3>1. r \in Main
      BY <2>1, <2>3 DEF Main
    <3>2. Shown'
      BY <1>1, <1>2, <2>1, <2>2, <3>1, FillShows DEF Settling
    <3>3. Main' = {}
      BY <1>2, <2>1, <3>1 DEF Settling, Main
    <3>4. QED
      BY <1>1, <1>2, <2>1, <3>2, <3>3 DEF Settling
  <2>4. CASE ~r.fresh
    <3>1. PICK q \in reqs : q.by = r.by /\ q.fresh
      BY <1>6, <2>4 DEF Calendar!TimetableAnswers, Calendar!Missed
    <3>2. q \in reqs' /\ (q \in Main \/ q.what = "sync")
      <4>1. q.what \in {"extra", "unwatched", "shows", "read", "sync", "refresh"}
        BY CalendarFacts, <1>2 DEF Calendar!Requests
      <4>2. q.what # "refresh"
        BY <1>2 DEF CalendarTypes
      <4>3. QED
        BY <2>1, <2>4, <3>1, <4>1, <4>2 DEF Main
    <3>3. Main' = Main
      BY <2>1, <2>4 DEF Main
    <3>4. QED
      BY <1>1, <1>2, <2>1, <3>2, <3>3 DEF Settling
  <2>5. QED
    BY <2>3, <2>4
<1>7. ~ \/ Calendar!ShowsFail(r) \/ Calendar!TimetableFails(r)
        \/ Calendar!RefreshAnswers(r) \/ Calendar!RefreshFails(r)
  BY <1>2
  DEF Calendar!ShowsFail, Calendar!TimetableFails, Calendar!RefreshAnswers,
      Calendar!RefreshFails
<1>8. QED
  BY <1>3, <1>4, <1>5, <1>6, <1>7

LEMMA CalendarBegins == Calendar!Init => CalendarInv
  BY CalendarStart DEF Calendar!Init, CalendarInv

LEMMA CalendarKept ==
  ASSUME CalendarInv, [Calendar!Next]_(Calendar!vars)
  PROVE  CalendarInv'
<1>1. CalendarTypes /\ CalendarTypes'
  BY CalendarTyped DEF CalendarInv
<1> SUFFICES ASSUME np', view' # 0, missed' = {}
             PROVE  Settling'
  BY <1>1 DEF CalendarInv
<1>2. CASE \E calendar \in BOOLEAN : Calendar!Open(calendar)
  <2>1. PICK calendar \in BOOLEAN : Calendar!Open(calendar)
    BY <1>2
  <2> DEFINE q == Calendar!Ask("extra", opens + 1, {}, FALSE)
  <2>2. reqs = {} /\ calendar
    BY <2>1 DEF Calendar!Open, Calendar!Missed
  <2>3. reqs' = {q} /\ view' = opens + 1
    BY <2>1, <2>2 DEF Calendar!Open
  <2>4. q.what = "extra" /\ q.by = opens + 1
    BY DEF Calendar!Ask
  <2> HIDE DEF q
  <2>5. Main' = {q}
    BY <2>3, <2>4 DEF Main
  <2>6. QED
    BY <2>3, <2>4, <2>5 DEF Settling
<1>3. CASE \E i \in DOMAIN fills : Calendar!CalendarAnswers(i) \/ Calendar!CalendarFails(i)
  <2>1. PICK i \in DOMAIN fills : Calendar!CalendarAnswers(i) \/ Calendar!CalendarFails(i)
    BY <1>3
  <2>2. /\ UNCHANGED <<np, airing, lampa, watching, extra, view, reqs>>
        /\ i = 1 /\ missed = {}
        /\ fills' = Calendar!RemoveAt(fills, i)
        /\ table' = {fills[1] \cup (watching \ lampa)}
    BY <2>1
    DEF Calendar!CalendarAnswers, Calendar!CalendarFails, Calendar!Missed, Calendar!world
  <2>3. Settling /\ Main' = Main /\ Kept' = Kept
    BY <2>2 DEF CalendarInv, Main, Kept
  <2>4. ASSUME Shown PROVE Shown'
    <3>1. fills \in Seq(SUBSET Show) /\ fills # <<>> /\ fills' = Tail(fills)
      BY <1>1, <2>1, <2>2, CalendarFacts, RemoveAtIs
    <3>2. fills[Len(fills)] = Kept
      BY <2>4, <3>1 DEF Shown
    <3>3. CASE Len(fills) = 1
      <4>1. fills' = <<>> /\ fills[1] = Kept
        BY <3>1, <3>2, <3>3
      <4>2. QED
        BY <2>2, <2>3, <4>1 DEF Shown
    <3>4. CASE Len(fills) # 1
      <4>1. PICK n \in Nat : n = Len(fills) /\ n > 1
        <5>1. Len(fills) \in Nat /\ 1 \in 1..Len(fills)
          BY <2>1, <2>2, <3>1
        <5>2. Len(fills) > 1
          BY <3>4, <5>1
        <5>3. QED
          BY <5>1, <5>2
      <4>2. Len(fills') = n - 1 /\ fills'[n - 1] = fills[n]
        BY <3>1, <4>1
      <4>3. fills' # <<>> /\ fills'[Len(fills')] = Kept
        <5>1. Len(fills') > 0 /\ Len(<<>>) = 0
          BY <4>1, <4>2
        <5>2. fills'[Len(fills')] = fills[Len(fills)]
          BY <4>1, <4>2
        <5>3. QED
          BY <3>2, <5>1, <5>2
      <4>4. QED
        BY <2>3, <4>3 DEF Shown
    <3>5. QED
      BY <3>3, <3>4
  <2>5. QED
    BY <2>2, <2>3, <2>4 DEF Settling
<1>4. CASE \E fresh \in SUBSET shows : Calendar!UnwatchedSaved(fresh)
  <2>1. PICK fresh \in SUBSET shows : Calendar!UnwatchedSaved(fresh)
    BY <1>4
  <2>2. /\ UNCHANGED <<np, airing, lampa, watching, extra, view>> /\ missed = {}
    BY <2>1 DEF Calendar!UnwatchedSaved, Calendar!world
  <2>3. UNCHANGED <<table, fills>>
    BY <2>1 DEF Calendar!UnwatchedSaved, Calendar!Missed, Calendar!screen
  <2>4. /\ reqs \subseteq reqs' /\ \A z \in reqs' : z \in reqs \/ z.what = "sync"
    BY <2>1, <2>2 DEF Calendar!UnwatchedSaved, Calendar!Ask
  <2>5. QED
    BY <2>2, <2>3, <2>4, ChainStays DEF CalendarInv
<1>5. CASE UNCHANGED Calendar!vars \/ \E s \in Show : Calendar!ShowsChange(s)
  <2>1. /\ UNCHANGED <<np, airing, lampa, watching, extra, view, reqs, missed, table, fills>>
    BY <1>5 DEF Calendar!vars, Calendar!world, Calendar!screen, Calendar!ShowsChange
  <2>2. QED
    BY <2>1, ChainStays DEF CalendarInv
<1>6. CASE \E r \in reqs :
              \/ Calendar!ExtraAnswers(r, extra) \/ Calendar!ExtraAnswers(r, {})
              \/ Calendar!UnwatchedAnswers(r, unwatched) \/ Calendar!UnwatchedAnswers(r, {})
              \/ \E found \in SUBSET (shows \ r.map) : Calendar!ShowsAnswer(r, found)
              \/ Calendar!ShowsFail(r)
              \/ Calendar!TimetableAnswers(r) \/ Calendar!TimetableFails(r)
              \/ Calendar!RefreshAnswers(r) \/ Calendar!RefreshFails(r)
  <2>1. np /\ view # 0
    BY <1>6
    DEF Calendar!ExtraAnswers, Calendar!UnwatchedAnswers, Calendar!ShowsAnswer,
        Calendar!ShowsFail, Calendar!TimetableAnswers, Calendar!TimetableFails,
        Calendar!RefreshAnswers, Calendar!RefreshFails, Calendar!world
  <2>2. QED
    BY <1>6, <2>1, RequestSettles
<1>7. ~Calendar!Close
  BY DEF Calendar!Close
<1>8. QED
  BY <1>2, <1>3, <1>4, <1>5, <1>6, <1>7 DEF Calendar!Next, Calendar!Answers, Calendar!Failures

-----------------------------------------------------------------------------
(* The types of the two parts whose properties need them in part only *)

DetailsTasks ==
    task \in [Fetch -> [Show -> Details!Task]] /\ failures \in 0..MaxFailures

LEMMA TasksStart == Details!Init => DetailsTasks
<1> SUFFICES ASSUME Details!Init PROVE DetailsTasks
  OBVIOUS
<1>1. PICK t \in Details!Task : t = [at |-> "waiting", tries |-> 0]
  <2>1. [at |-> "waiting", tries |-> 0] \in Details!Task
    BY LoadsAssumption DEF Details!Task
  <2>2. QED
    BY <2>1, Zenon
<1>2. task = [f \in Fetch |-> [s \in Show |-> t]]
  BY <1>1, Zenon DEF Details!Init
<1>3. failures = 0 /\ 0 \in 0..MaxFailures
  BY LoadsAssumption DEF Details!Init
<1>4. QED
  BY <1>1, <1>2, <1>3 DEF DetailsTasks

\* A show goes from one state to another, or none does.
LEMMA TasksKept ==
  ASSUME DetailsTasks, Details!Next
  PROVE  DetailsTasks'
<1>1. PICK f \in Fetch : Details!Begin(f) \/ Details!FetchStep(f)
  BY DEF Details!Next
<1>2. failures' \in 0..MaxFailures
  <2>1. ASSUME NEW s \in Show, Details!ShowStep(f, s)
        PROVE  failures' = failures \/ Details!Fails
    BY <2>1
    DEF Details!ShowStep, Details!FromCache, Details!StartSearch, Details!Found,
        Details!NextAttempt, Details!Details, Details!Count
  <2>2. failures' = failures \/ Details!Fails
    BY <1>1, <2>1
    DEF Details!Begin, Details!FetchStep, Details!ReadAnswered, Details!StartWork,
        Details!Complete, Details!SaveDone
  <2>3. QED
    BY <2>2, LoadsAssumption DEF DetailsTasks, Details!Fails
<1>3. ASSUME NEW s \in Show, NEW t \in Details!Task, Details!Moves(f, s, t)
      PROVE  task' \in [Fetch -> [Show -> Details!Task]]
  BY <1>3 DEF Details!Moves, DetailsTasks
<1>4. \A at \in {"waiting", "search", "details", "count", "over", "lost"}, n \in 0..Attempts :
        [at |-> at, tries |-> n] \in Details!Task
  BY DEF Details!Task
<1>5. 0 \in 0..Attempts /\ Attempts \in 0..Attempts
  BY LoadsAssumption
<1>6. ASSUME NEW s \in Show, Details!ShowStep(f, s)
      PROVE  task' \in [Fetch -> [Show -> Details!Task]]
  <2>1. CASE Details!FromCache(f, s)
    BY <1>3, <1>4, <1>5, <2>1 DEF Details!FromCache
  <2>2. CASE Details!StartSearch(f, s)
    BY <1>3, <1>4, <1>5, <2>2 DEF Details!StartSearch
  <2>3. CASE Details!Found(f, s)
    <3>1. \/ Details!Moves(f, s, [at |-> "details", tries |-> 0])
          \/ Details!Moves(f, s, [at |-> "over", tries |-> 0])
      BY <2>3 DEF Details!Found
    <3>2. QED
      BY <1>3, <1>4, <1>5, <3>1
  <2>4. CASE Details!NextAttempt(f, s)
    <3>1. task[f][s].tries - 1 \in 0..Attempts
      BY <2>4, LoadsAssumption DEF Details!NextAttempt, DetailsTasks, Details!Task
    <3>2. QED
      BY <1>3, <1>4, <2>4, <3>1 DEF Details!NextAttempt
  <2>5. CASE Details!Details(f, s)
    <3>1. PICK at \in {"count", "over", "lost"} : Details!Moves(f, s, [at |-> at, tries |-> 0])
      BY <2>5 DEF Details!Details
    <3>2. QED
      BY <1>3, <1>4, <1>5, <3>1
  <2>6. CASE Details!Count(f, s)
    <3>1. PICK at \in {"over", "lost"} : Details!Moves(f, s, [at |-> at, tries |-> 0])
      <4>1. (IF trust[f] /\ read[f][s] # "none" THEN "lost" ELSE "over") \in {"over", "lost"}
        OBVIOUS
      <4>2. QED
        BY <2>6, <4>1, Zenon DEF Details!Count
    <3>2. QED
      BY <1>3, <1>4, <1>5, <3>1
  <2>7. QED
    BY <1>6, <2>1, <2>2, <2>3, <2>4, <2>5, <2>6 DEF Details!ShowStep
<1>7. task' \in [Fetch -> [Show -> Details!Task]]
  BY <1>1, <1>6
  DEF DetailsTasks, Details!Begin, Details!FetchStep, Details!ReadAnswered,
      Details!StartWork, Details!Complete, Details!SaveDone
<1>8. QED
  BY <1>2, <1>7 DEF DetailsTasks

\* The page of a card while nobody clicks and no message arrives.
PageInv ==
    Page!TypeOK /\ posts = {} /\ confirm = {} /\ feed = <<>>

\* What a step may change, if all of it keeps its type.
LEMMA PageFrame ==
  ASSUME PageInv, UNCHANGED <<marks, status>>,
         book' \in [Profile -> SUBSET Show], card' \in Show, profile' \in Profile,
         shown' \in SUBSET Show, \A c, d \in shown' : c = d,
         loading' \in BOOLEAN, timecodesLoaded' \in BOOLEAN, watchStatusLoaded' \in BOOLEAN,
         episodesLoaded' \in BOOLEAN, episodesFinal' \in BOOLEAN, isFavorite' \in BOOLEAN,
         timecodes' \in [Profile -> SUBSET Page!Episode], watchStatus' \in Page!Status,
         reqs' \in SUBSET Page!Requests, events' \in 0..PageEvents, moves' \in 0..MaxMoves,
         missed' \in SUBSET Page!Ways,
         posts' = {}, confirm' = {}, feed' = <<>>
  PROVE  PageInv'
  BY DEF PageInv, Page!TypeOK

LEMMA PageFacts ==
  ASSUME PageInv
  PROVE  /\ marks \in [Profile -> [Show -> SUBSET Page!Episode]]
         /\ status \in [Profile -> [Show -> Page!Status]]
         /\ book \in [Profile -> SUBSET Show] /\ card \in Show /\ profile \in Profile
         /\ shown \in SUBSET Show /\ \A c, d \in shown : c = d
         /\ loading \in BOOLEAN /\ timecodesLoaded \in BOOLEAN /\ watchStatusLoaded \in BOOLEAN
         /\ episodesLoaded \in BOOLEAN /\ episodesFinal \in BOOLEAN /\ isFavorite \in BOOLEAN
         /\ timecodes \in [Profile -> SUBSET Page!Episode] /\ watchStatus \in Page!Status
         /\ reqs \in SUBSET Page!Requests /\ events \in 0..PageEvents /\ moves \in 0..MaxMoves
         /\ missed \in SUBSET Page!Ways
         /\ Page!Happens => events' \in 0..PageEvents
         /\ Page!Move => moves' \in 0..MaxMoves
  BY LoadsAssumption DEF PageInv, Page!TypeOK, Page!Happens, Page!Move

LEMMA PageAsks ==
  ASSUME NEW what \in {"card", "timecodes", "status", "favorite", "episodes"},
         NEW c \in Show, NEW p \in Profile, NEW first \in BOOLEAN
  PROVE  Page!Ask(what, c, p, first) \in Page!Requests
<1>1. Page!NoMarks \in [Profile -> SUBSET Page!Episode]
  BY DEF Page!NoMarks
<1>2. 0 \in 0..Retries
  BY LoadsAssumption
<1>3. QED
  BY <1>1, <1>2 DEF Page!Ask, Page!Requests, Page!Status

\* Asking for the timecodes again takes the newest place from the earlier request.
LEMMA PageOpening ==
  ASSUME PageInv, NEW asked \in SUBSET Page!Requests, NEW c \in Show, NEW p \in Profile
  PROVE  Page!Opening(asked, c, p) \in SUBSET Page!Requests
<1>1. ASSUME NEW r \in asked
      PROVE  (IF r.what = "timecodes" THEN [r EXCEPT !.newest = FALSE] ELSE r) \in Page!Requests
  BY DEF Page!Requests
<1>2. /\ Page!Ask("timecodes", c, profile, FALSE) \in Page!Requests
      /\ Page!Ask("card", c, p, TRUE) \in Page!Requests
      /\ Page!Ask("status", c, p, TRUE) \in Page!Requests
  BY PageAsks, PageFacts
<1>3. QED
  BY <1>1, <1>2 DEF Page!Opening, Page!LoadTimecodes

\* Another card, another profile.
LEMMA PageMoves ==
  ASSUME PageInv, posts' = {}, confirm' = {}, feed' = <<>>,
         \/ \E c \in Show : Page!Open(c)
         \/ \E p \in Profile : Page!SwitchProfile(p)
  PROVE  PageInv'
<1>1. CASE \E c \in Show : Page!Open(c)
  <2>1. PICK c \in Show : Page!Open(c)
    BY <1>1
  <2>2. /\ UNCHANGED <<marks, status, book, profile, shown, watchStatus, isFavorite, events,
                       missed>>
        /\ card' = c /\ moves' \in 0..MaxMoves
        /\ loading' = TRUE /\ timecodesLoaded' = FALSE /\ watchStatusLoaded' = FALSE
        /\ episodesLoaded' = FALSE /\ episodesFinal' = FALSE
    BY <2>1, PageFacts DEF Page!Open, Page!server
  <2>3. timecodes' \in [Profile -> SUBSET Page!Episode]
    BY <2>1 DEF Page!Open, Page!NoMarks
  <2>4. reqs' \in SUBSET Page!Requests
    BY <2>1, PageFacts, PageOpening DEF Page!Open
  <2>5. QED
    BY <2>2, <2>3, <2>4, PageFacts, PageFrame
<1>2. CASE \E p \in Profile : Page!SwitchProfile(p)
  <2>1. PICK p \in Profile : Page!SwitchProfile(p)
    BY <1>2
  <2>2. /\ UNCHANGED <<marks, status, book, card, shown, loading, timecodesLoaded,
                       watchStatusLoaded, episodesLoaded, episodesFinal, timecodes,
                       watchStatus, isFavorite, events>>
        /\ profile' = p /\ moves' \in 0..MaxMoves
    BY <2>1, PageFacts DEF Page!SwitchProfile, Page!server, Page!screen
  <2>3. missed' \in SUBSET Page!Ways
    BY <2>1, PageFacts DEF Page!SwitchProfile, Page!Missed, Page!Ways
  <2>4. reqs' \in SUBSET Page!Requests
    <3>1. /\ Page!Ask("status", card, p, TRUE) \in Page!Requests
          /\ \A c \in shown : Page!Ask("favorite", c, p, FALSE) \in Page!Requests
      BY PageFacts, PageAsks
    <3>2. QED
      BY <2>1, <3>1, PageFacts DEF Page!SwitchProfile
  <2>5. QED
    BY <2>2, <2>3, <2>4, PageFacts, PageFrame
<1>3. QED
  BY <1>1, <1>2

\* The server's part of an answer.
LEMMA PageServes ==
  ASSUME PageInv, NEW r \in reqs, Page!Serve(r), posts' = {}, confirm' = {}, feed' = <<>>
  PROVE  PageInv'
<1>1. r \in Page!Requests /\ r.of \in Show /\ r.by \in Profile
  BY PageFacts DEF Page!Requests
<1>2. PICK m \in [Profile -> SUBSET Page!Episode] :
        m = IF r.what = "timecodes" THEN [p \in Profile |-> marks[p][r.of]] ELSE r.marks
  <2>1. [p \in Profile |-> marks[p][r.of]] \in [Profile -> SUBSET Page!Episode]
    BY <1>1, PageFacts
  <2>2. r.marks \in [Profile -> SUBSET Page!Episode]
    BY <1>1 DEF Page!Requests
  <2>3. QED
    BY <2>1, <2>2, Zenon
<1>3. PICK s \in Page!Status : s = IF r.what = "status" THEN status[r.by][r.of] ELSE r.status
  <2>1. status[r.by][r.of] \in Page!Status /\ r.status \in Page!Status
    BY <1>1, PageFacts DEF Page!Requests
  <2>2. QED
    BY <2>1, Zenon
<1>4. PICK l \in BOOLEAN : l = (r.what = "favorite" /\ r.of \in book[r.by])
  OBVIOUS
<1>5. reqs' = (reqs \ {r}) \cup {[r EXCEPT !.got = TRUE, !.marks = m, !.status = s, !.liked = l]}
  BY <1>2, <1>3, <1>4, Zenon DEF Page!Serve
<1>6. [r EXCEPT !.got = TRUE, !.marks = m, !.status = s, !.liked = l] \in Page!Requests
  BY <1>1 DEF Page!Requests
<1>7. reqs' \in SUBSET Page!Requests
  BY <1>5, <1>6, PageFacts
<1>8. UNCHANGED <<marks, status, book, card, profile, shown, loading, timecodesLoaded,
                  watchStatusLoaded, episodesLoaded, episodesFinal, timecodes, watchStatus,
                  isFavorite, events, moves, missed>>
  BY DEF Page!Serve, Page!server, Page!screen
<1>9. QED
  BY <1>7, <1>8, PageFacts, PageFrame

\* Answers, and requests that fail.
LEMMA PageAnswers ==
  ASSUME PageInv, NEW r \in reqs, posts' = {}, confirm' = {}, feed' = <<>>,
         \/ Page!GotCard(r) \/ Page!CardFails(r) \/ Page!GotTimecodes(r)
         \/ Page!TimecodesFail(r) \/ Page!GotStatus(r) \/ Page!StatusFails(r)
         \/ Page!GotFavorite(r) \/ Page!GotEpisodes(r) \/ Page!EpisodesFail(r)
  PROVE  PageInv'
<1>1. /\ r \in Page!Requests /\ r.of \in Show /\ r.by \in Profile
      /\ r.marks \in [Profile -> SUBSET Page!Episode] /\ r.status \in Page!Status
      /\ r.liked \in BOOLEAN /\ r.first \in BOOLEAN /\ r.tries \in 0..Retries
      /\ Page!NoMarks \in [Profile -> SUBSET Page!Episode]
      /\ reqs \ {r} \in SUBSET Page!Requests /\ "none" \in Page!Status
  BY PageFacts DEF Page!Requests, Page!NoMarks, Page!Status
<1>2. UNCHANGED <<marks, status, book, card, profile, moves>>
  BY DEF Page!GotCard, Page!CardFails, Page!GotTimecodes, Page!TimecodesFail,
         Page!GotStatus, Page!StatusFails, Page!GotFavorite, Page!GotEpisodes,
         Page!EpisodesFail, Page!server
<1>3. events' \in 0..PageEvents
  BY PageFacts
  DEF Page!GotCard, Page!CardFails, Page!GotTimecodes, Page!TimecodesFail,
      Page!GotStatus, Page!StatusFails, Page!GotFavorite, Page!GotEpisodes,
      Page!EpisodesFail
<1>4. missed' \in SUBSET Page!Ways
  BY PageFacts
  DEF Page!GotCard, Page!CardFails, Page!GotTimecodes, Page!TimecodesFail,
      Page!GotStatus, Page!StatusFails, Page!GotFavorite, Page!GotEpisodes,
      Page!EpisodesFail, Page!Missed, Page!Ways
<1>5. CASE Page!GotCard(r)
  <2>1. /\ Page!Ask("episodes", r.of, profile, TRUE) \in Page!Requests
        /\ Page!Ask("favorite", r.of, profile, FALSE) \in Page!Requests
    BY <1>1, PageFacts, PageAsks
  <2>2. reqs' \in SUBSET Page!Requests
    BY <1>1, <1>5, <2>1 DEF Page!GotCard
  <2>3. shown' = {r.of} /\ loading' = FALSE
        /\ UNCHANGED <<timecodesLoaded, watchStatusLoaded, episodesLoaded, episodesFinal,
                       timecodes, watchStatus, isFavorite>>
    BY <1>5 DEF Page!GotCard
  <2>4. QED
    BY <1>1, <1>2, <1>3, <1>4, <2>2, <2>3, PageFacts, PageFrame
<1>6. CASE Page!CardFails(r)
  <2>1. /\ reqs' \in SUBSET Page!Requests /\ (shown' = {} \/ shown' = shown) /\ loading' = FALSE
        /\ UNCHANGED <<timecodesLoaded, watchStatusLoaded, episodesLoaded, episodesFinal,
                       timecodes, watchStatus, isFavorite>>
    BY <1>1, <1>6 DEF Page!CardFails
  <2>2. shown' \in SUBSET Show /\ \A c, d \in shown' : c = d
    BY <2>1, PageFacts
  <2>3. QED
    BY <1>1, <1>2, <1>3, <1>4, <2>1, <2>2, PageFacts, PageFrame
<1>7. CASE Page!GotTimecodes(r) \/ Page!TimecodesFail(r)
  <2>1. /\ reqs' = reqs \ {r}
        /\ \/ timecodes' = r.marks /\ timecodesLoaded' = TRUE
           \/ timecodes' = Page!NoMarks /\ timecodesLoaded' = TRUE
           \/ UNCHANGED <<timecodes, timecodesLoaded>>
        /\ UNCHANGED <<shown, loading, watchStatusLoaded, episodesLoaded, episodesFinal,
                       watchStatus, isFavorite>>
    BY <1>7 DEF Page!GotTimecodes, Page!TimecodesFail
  <2>2. timecodes' \in [Profile -> SUBSET Page!Episode] /\ timecodesLoaded' \in BOOLEAN
    BY <1>1, <2>1, PageFacts
  <2>3. QED
    BY <1>1, <1>2, <1>3, <1>4, <2>1, <2>2, PageFacts, PageFrame
<1>8. CASE Page!GotStatus(r) \/ Page!StatusFails(r)
  <2>1. /\ reqs' = reqs \ {r}
        /\ watchStatus' \in Page!Status
        /\ watchStatusLoaded' = (watchStatusLoaded \/ r.first)
        /\ UNCHANGED <<shown, loading, timecodesLoaded, episodesLoaded, episodesFinal,
                       timecodes, isFavorite>>
    BY <1>1, <1>8, PageFacts DEF Page!GotStatus, Page!StatusFails
  <2>2. watchStatusLoaded' \in BOOLEAN
    BY <2>1, Zenon
  <2>3. QED
    BY <1>1, <1>2, <1>3, <1>4, <2>1, <2>2, PageFacts, PageFrame
<1>9. CASE Page!GotFavorite(r)
  <2>1. /\ reqs' = reqs \ {r}
        /\ UNCHANGED <<shown, loading, timecodesLoaded, watchStatusLoaded, episodesLoaded,
                       episodesFinal, timecodes, watchStatus>>
    BY <1>9 DEF Page!GotFavorite
  <2>2. isFavorite' = r.liked \/ isFavorite' = isFavorite \/ isFavorite' = FALSE
    BY <1>9 DEF Page!GotFavorite
  <2>3. isFavorite' \in BOOLEAN
    BY <1>1, <2>2, PageFacts
  <2>4. QED
    BY <1>1, <1>2, <1>3, <1>4, <2>1, <2>3, PageFacts, PageFrame
<1>10. CASE Page!GotEpisodes(r) \/ Page!EpisodesFail(r)
  <2>1. /\ episodesLoaded' = TRUE
        /\ UNCHANGED <<shown, loading, timecodesLoaded, watchStatusLoaded, timecodes,
                       watchStatus, isFavorite>>
    BY <1>10 DEF Page!GotEpisodes, Page!EpisodesFail
  <2>2. episodesFinal' \in BOOLEAN
    BY <1>10 DEF Page!GotEpisodes, Page!EpisodesFail
  <2>3. reqs' \in SUBSET Page!Requests
    <3>1. ASSUME r.tries < Retries
          PROVE  [r EXCEPT !.tries = @ + 1] \in Page!Requests
      <4>1. PICK n \in 0..Retries : n = r.tries + 1
        BY <1>1, <3>1, LoadsAssumption
      <4>2. [r EXCEPT !.tries = n] \in Page!Requests
        BY <1>1 DEF Page!Requests
      <4>3. QED
        BY <4>1, <4>2, Zenon
    <3>2. QED
      BY <1>1, <1>10, <3>1 DEF Page!GotEpisodes, Page!EpisodesFail
  <2>4. QED
    BY <1>2, <1>3, <1>4, <2>1, <2>2, <2>3, PageFacts, PageFrame
<1>11. QED
  BY <1>5, <1>6, <1>7, <1>8, <1>9, <1>10

\* A favourite that is set elsewhere.
LEMMA PageBook ==
  ASSUME PageInv, NEW c \in Show, Page!BookElsewhere(c), posts' = {}, confirm' = {},
         feed' = <<>>
  PROVE  PageInv'
<1>1. book' \in [Profile -> SUBSET Show]
  BY PageFacts DEF Page!BookElsewhere
<1>2. /\ UNCHANGED <<marks, status, card, profile, shown, loading, timecodesLoaded,
                     watchStatusLoaded, episodesLoaded, episodesFinal, timecodes,
                     watchStatus, isFavorite, reqs, moves>>
      /\ events' \in 0..PageEvents
  BY PageFacts DEF Page!BookElsewhere, Page!screen
<1>3. missed' \in SUBSET Page!Ways
  BY PageFacts DEF Page!BookElsewhere, Page!Missed, Page!Ways
<1>4. QED
  BY <1>1, <1>2, <1>3, PageFacts, PageFrame

LEMMA PageStart == Page!Init /\ card = s1 /\ profile = p1 => PageInv
<1> SUFFICES ASSUME Page!Init, card = s1, profile = p1
             PROVE  PageInv
  OBVIOUS
<1>1. card \in Show /\ profile \in Profile
  BY LoadsAssumption
<1>2. /\ marks \in [Profile -> [Show -> SUBSET Page!Episode]]
      /\ status \in [Profile -> [Show -> Page!Status]] /\ book \in [Profile -> SUBSET Show]
      /\ timecodes \in [Profile -> SUBSET Page!Episode] /\ watchStatus \in Page!Status
  BY DEF Page!Init, Page!NoMarks, Page!Status
<1>3. reqs \in SUBSET Page!Requests
  <2>1. /\ Page!Ask("timecodes", card, profile, FALSE) \in Page!Requests
        /\ Page!Ask("card", card, profile, TRUE) \in Page!Requests
        /\ Page!Ask("status", card, profile, TRUE) \in Page!Requests
    BY <1>1, PageAsks
  <2>2. QED
    BY <2>1 DEF Page!Init, Page!Opening, Page!LoadTimecodes
<1>4. 0 \in 0..PageEvents /\ 0 \in 0..MaxMoves
  BY LoadsAssumption
<1>5. /\ shown = {} /\ confirm = {} /\ posts = {} /\ feed = <<>> /\ missed = {}
      /\ events = 0 /\ moves = 0
      /\ {loading, timecodesLoaded, watchStatusLoaded, episodesLoaded, episodesFinal,
          isFavorite} \subseteq BOOLEAN
  BY DEF Page!Init
<1>6. \A i \in DOMAIN feed : FALSE
  BY <1>5
<1>7. QED
  BY <1>1, <1>2, <1>3, <1>4, <1>5, <1>6 DEF PageInv, Page!TypeOK

\* A click posts something or opens a dialog.
LEMMA NoClicks ==
  ASSUME confirm = {}, posts' = {}, confirm' = {}
  PROVE  ~Page!Clicks
  BY DEF Page!Clicks, Page!MarkEpisode, Page!UnmarkEpisode, Page!AskReset, Page!MarkSeason,
      Page!AskWipe, Page!ToggleFavorite, Page!ToggleWatchStatus, Page!Dismissed, Page!Dialog

LEMMA PageKept ==
  ASSUME PageInv, Page!Next, posts' = {}, confirm' = {}, feed' = <<>>
  PROVE  PageInv'
<1>1. posts = {} /\ confirm = {} /\ feed = <<>>
  BY DEF PageInv
<1>2. ~Page!Clicks
  BY <1>1, NoClicks
<1>3. ~Page!Stored /\ ~Page!Message /\ ~Page!MessageLost
  BY <1>1 DEF Page!Stored, Page!Message, Page!MessageLost
<1>4. ASSUME NEW c, NEW e
      PROVE  ~Page!MarkedElsewhere(c, e) /\ ~Page!StatusElsewhere(c, e)
  <2>1. ASSUME NEW m PROVE feed' # Append(feed, m)
    BY <1>1
  <2>2. QED
    BY <2>1 DEF Page!MarkedElsewhere, Page!StatusElsewhere
<1>5. \/ (\E c \in Show : Page!Open(c)) \/ (\E p \in Profile : Page!SwitchProfile(p))
      \/ \E r \in reqs : \/ Page!Serve(r)
                         \/ Page!GotCard(r) \/ Page!CardFails(r) \/ Page!GotTimecodes(r)
                         \/ Page!TimecodesFail(r) \/ Page!GotStatus(r) \/ Page!StatusFails(r)
                         \/ Page!GotFavorite(r) \/ Page!GotEpisodes(r) \/ Page!EpisodesFail(r)
      \/ \E c \in Show : Page!BookElsewhere(c)
  BY <1>1, <1>2, <1>3, <1>4 DEF Page!Next, Page!Answers, Page!Failures, Page!Elsewhere
<1>6. QED
  BY <1>5, PageMoves, PageServes, PageAnswers, PageBook

-----------------------------------------------------------------------------
(* The parts together *)

LoadsInv ==
    /\ part \in Parts
    /\ part = "details" => DetailsInv /\ DetailsTasks
    /\ part = "import" => ImportInv
    /\ part = "lists" => ListsInv
    /\ part = "calendar" => CalendarInv
    /\ part = "marker" => MarkerInv
    /\ part = "page" => PageInv

LEMMA LoadsStart == Init => LoadsInv
  BY DetailsStart, TasksStart, ImportStart, ListsStart, CalendarBegins, MarkerStart, PageStart
  DEF Init, LoadsInv

LEMMA LoadsKept ==
  ASSUME LoadsInv, [Next]_vars
  PROVE  LoadsInv'
<1>1. CASE Next
  <2>1. part' = part
    BY <1>1 DEF Next, Still
  <2>2. CASE part = "details"
    BY <1>1, <2>1, <2>2, DetailsKept, TasksKept DEF Next, LoadsInv
  <2>3. CASE part = "import"
    BY <1>1, <2>1, <2>3, ImportKept DEF Next, LoadsInv
  <2>4. CASE part = "lists"
    BY <1>1, <2>1, <2>4, ListsKept DEF Next, LoadsInv
  <2>5. CASE part = "calendar"
    BY <1>1, <2>1, <2>5, CalendarKept DEF Next, LoadsInv
  <2>6. CASE part = "marker"
    BY <1>1, <2>1, <2>6, MarkerKept DEF Next, LoadsInv
  <2>7. CASE part = "page"
    BY <1>1, <2>1, <2>7, PageKept DEF Next, LoadsInv
  <2>8. QED
    BY <2>2, <2>3, <2>4, <2>5, <2>6, <2>7 DEF LoadsInv, Parts
<1>2. CASE UNCHANGED vars
  <2>1. DetailsInv /\ DetailsTasks => DetailsInv' /\ DetailsTasks'
    BY <1>2 DEF vars, DetailsInv, DetailsTypes, CrossedSaved, ReadsRight, DetailsTasks
  <2>2. ImportInv => ImportInv'
    BY <1>2
    DEF vars, ImportInv, Import!TypeOK, HandlesWatched, CardsAreCovered,
      Import!Bare
  <2>3. ListsInv => ListsInv'
    BY <1>2
    DEF vars, ListsInv, ListsTypes, Lists!TypeOK, Own, OrdersAreOwn, Lists!SavedListsAreOwn,
        Lists!ItemsOf, Lists!WatchlistItems, Lists!WatchedItems, Lists!CancelledItems
  <2>4. CalendarInv => CalendarInv'
    <3>1. UNCHANGED Calendar!vars
      BY <1>2 DEF vars, Calendar!vars, Calendar!world, Calendar!screen
    <3>2. QED
      BY <3>1, CalendarKept
  <2>5. MarkerInv => MarkerInv'
    BY <1>2 DEF vars, MarkerInv, Marker!TypeOK, OnItsWay
  <2>6. PageInv => PageInv'
    BY <1>2 DEF vars, PageInv, Page!TypeOK
  <2>7. QED
    BY <1>2, <2>1, <2>2, <2>3, <2>4, <2>5, <2>6 DEF vars, LoadsInv
<1>3. QED
  BY <1>1, <1>2

\* Every part stays within its types, for any shows, profiles, retries and bounds.
THEOREM AlwaysTyped == Spec => []Types
<1>1. DetailsInv /\ DetailsTasks => Details!TypeOK
  BY DEF DetailsInv, DetailsTypes, DetailsTasks, Details!TypeOK
<1>2. LoadsInv => Types
  BY <1>1 DEF LoadsInv, Types, ImportInv, ListsInv, ListsTypes, CalendarInv, CalendarTypes,
              MarkerInv, PageInv
<1>3. QED
  BY <1>2, LoadsStart, LoadsKept, PTL DEF Spec

\* What the import and the lists keep for a profile comes from its own MyShows account, and
\* the history holds no card whose timecodes are not on the server, but for shows that have
\* none and cards an earlier import left behind; for every number of profiles, cards, imports,
\* switches and failures.
THEOREM AccountsAlwaysStayApart == Spec => []AccountsStayApart
<1>1. LoadsInv => AccountsStayApart
  BY DEF LoadsInv, AccountsStayApart, ImportInv, Import!SavedIsWatched,
      Import!HistoryAfterSave, ListsInv, Lists!SavedListsAreOwn, ListNames
<1>2. QED
  BY <1>1, LoadsStart, LoadsKept, PTL DEF Spec

\* Once nothing is under way the calendar and the marks show what they should, however
\* many calendars were opened, however many animations overlapped.
THEOREM AlwaysDrawnWhole == Spec => []DrawnIsWhole
<1>1. CalendarInv => Calendar!SettledCalendarIsFull
  <2> SUFFICES ASSUME CalendarInv, np, view # 0, reqs = {}, fills = <<>>, missed = {}
               PROVE  table = {((extra \cap airing) \cup watching) \ lampa}
    BY DEF Calendar!SettledCalendarIsFull
  <2>1. Shown
    BY DEF CalendarInv, Settling, Main
  <2>2. QED
    BY <2>1 DEF Shown, Kept
<1>2. MarkerInv => Marker!StopsAtATarget
  BY DEF MarkerInv, Marker!StopsAtATarget
<1>3. LoadsInv => DrawnIsWhole
  BY <1>1, <1>2 DEF LoadsInv, DrawnIsWhole
<1>4. QED
  BY <1>3, LoadsStart, LoadsKept, PTL DEF Spec

\* The wrong cards stay out of the saved list, for every number of fetches side by side.
THEOREM OldCardsAlwaysStayOut == Spec => OldCardsStayOut
<1>1. LoadsInv /\ Next /\ part = "details" => Details!KeepsRightCards
  BY DetailsKept DEF LoadsInv, Next
<1>2. QED
  BY <1>1, LoadsStart, LoadsKept, PTL DEF Spec, OldCardsStayOut

=============================================================================
