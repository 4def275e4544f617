--------------------------- MODULE MarkerAnimations ---------------------------
(***************************************************************************)
(* The counting animations of the marks on a card (src/plugins/myshows.js, *)
(* animate...): a mark does not jump to its new text, it counts there, one *)
(* step every 330 ms.  Each animation is a chain of timers with variables  *)
(* of its own that writes the text of the element; nothing stops it when   *)
(* the next one begins, so several may count on one mark at a time.        *)
(*                                                                         *)
(* A text is a pair: <<season, episode>> for the next episode, <<number of *)
(* episodes, watched>> for the progress, and the count of those left has   *)
(* one first component only.                                               *)
(***************************************************************************)
EXTENDS Integers, FiniteSets

CONSTANTS Groups, Numbers,   \* seasons or totals, and what is counted in each
          MaxUpdates         \* (bound) updates of one mark

VARIABLES
    kind,         \* "count" (progress, remaining) or "next"
    text,         \* what the element shows
    running,      \* animations under way
    updates,      \* how many there have been
    targets,      \* (history) where those that counted since the mark last stood still go
    skipping      \* (history) one of them went back two seasons or more

vars == <<kind, text, running, updates, targets, skipping>>

Text == Groups \X Numbers
Animation == [way : {"same", "season", "countdown"}, at : Text, from : Text, to : Text, id : 1..MaxUpdates]

TypeOK ==
    /\ kind \in {"count", "next"}
    /\ text \in Text
    /\ running \subseteq Animation
    /\ updates \in 0..MaxUpdates
    /\ targets \subseteq Text /\ skipping \in BOOLEAN

Season(t) == t[1]
Ep(t) == t[2]

\* A count in another total is replaced at once; an episode counts through the seasons.
Way(old, new) ==
    CASE Season(new) = Season(old) -> "same"
      [] Season(new) > Season(old) -> "season"
      [] OTHER -> "countdown"

Counts(old, new) == kind = "next" \/ Season(old) = Season(new)

Toward(n, goal) == IF n < goal THEN n + 1 ELSE n - 1

\* The next text of an animation, one of several steps or none.
SameSeasonStep(a) ==
    IF Ep(a.at) = Ep(a.to) THEN {} ELSE {<<Season(a.at), Toward(Ep(a.at), Ep(a.to))>>}

SeasonTransitionStep(a) ==
    IF Season(a.at) < Season(a.to) THEN {<<Season(a.at) + 1, 1>>}
    ELSE IF Ep(a.at) < Ep(a.to) THEN {<<Season(a.at), Ep(a.at) + 1>>} ELSE {}

\* Mutant: one episode short of the goal.
CountDownStepShort(a) ==
    IF Season(a.at) = Season(a.from)
    THEN IF Ep(a.at) > 1 THEN {<<Season(a.at), Ep(a.at) - 1>>} ELSE {<<Season(a.at) - 1, 1>>}
    ELSE IF Season(a.at) = Season(a.to) /\ Ep(a.at) + 1 < Ep(a.to)
         THEN {<<Season(a.at), Ep(a.at) + 1>>} ELSE {}

\* Down to the first episode, one season down, and up to the goal if it is there.
CountDownStep(a) ==
    IF Season(a.at) = Season(a.from)
    THEN IF Ep(a.at) > 1 THEN {<<Season(a.at), Ep(a.at) - 1>>} ELSE {<<Season(a.at) - 1, 1>>}
    ELSE IF Season(a.at) = Season(a.to) /\ Ep(a.at) # Ep(a.to)
         THEN {<<Season(a.at), Toward(Ep(a.at), Ep(a.to))>>} ELSE {}

\* Mutant: the season turns back and forth at its first episode.
StepAround(a) ==
    CASE a.way = "same" -> SameSeasonStep(a)
      [] a.way = "season" -> SeasonTransitionStep(a)
      [] OTHER -> IF Ep(a.at) = 1 /\ Season(a.at) # Season(a.from)
                  THEN {<<Season(a.from), 1>>} ELSE CountDownStep(a)

Step(a) ==
    CASE a.way = "same" -> SameSeasonStep(a)
      [] a.way = "season" -> SeasonTransitionStep(a)
      [] OTHER -> CountDownStep(a)

-----------------------------------------------------------------------------

Init ==
    /\ kind \in {"count", "next"}
    /\ text \in Text
    /\ running = {} /\ updates = 0 /\ targets = {text} /\ skipping = FALSE

\* animateFullCardMarker and updateCardWithAnimation: the new text is compared
\* with the one on screen, which another animation may be counting.
Update(new) ==
    /\ updates < MaxUpdates
    /\ new # text
    /\ updates' = updates + 1
    /\ targets' = (IF running = {} THEN {} ELSE targets) \cup {new}
    /\ skipping' = ((running # {} /\ skipping) \/ (kind = "next" /\ Season(new) + 1 < Season(text)))
    /\ IF Counts(text, new)
       THEN /\ running' = running \cup {[way |-> Way(text, new), at |-> text, from |-> text,
                                         to |-> new, id |-> updates']}
            /\ UNCHANGED text
       ELSE text' = new /\ UNCHANGED running
    /\ UNCHANGED kind

\* One tick of an animation: the next text, or its end.
Tick(a) ==
    /\ a \in running
    /\ IF Step(a) = {}
       THEN running' = running \ {a} /\ UNCHANGED text
       ELSE \E t \in Step(a) : /\ text' = t
                               /\ running' = (running \ {a}) \cup {[a EXCEPT !.at = t]}
    /\ UNCHANGED <<kind, updates, targets, skipping>>

Next ==
    \/ \E new \in Text : Update(new)
    \/ \E a \in running : Tick(a)

Spec == Init /\ [][Next]_vars

\* The timers of every animation go off.
Fairness == WF_vars(\E a \in running : Tick(a))
FairSpec == Spec /\ Fairness

-----------------------------------------------------------------------------

\* When all counting is over, the mark shows where one of the animations went,
\* however they overlapped; unless one went back two seasons or more, which
\* stops on the way.
StopsAtATarget == running = {} /\ ~skipping => text \in targets

\* Every animation comes to an end, also those that write over one another.
CountingEnds == []<>(running = {})

\* Violated by the code: an animation that is alone reaches its goal (4710).
LoneCountReachesGoal == running = {} /\ Cardinality(targets) = 1 => text \in targets

=============================================================================
