---------------------------- MODULE Announcements ----------------------------
(***************************************************************************)
(* What browsers are promised about new episodes, whatever checks, records *)
(* and seeds are behind it.  EpisodePush implements it.                    *)
(***************************************************************************)
EXTENDS Integers

CONSTANTS Browser, Profile, Episode

VARIABLES
  wanted,   \* wanted[b]: the pairs of profile and episode that b may be told of
  owed,     \* owed[b]: those of them that b is to be told of
  shown     \* shown[b][p][e]: how often b has shown e for p

promise == <<wanted, owed, shown>>

Init ==
  /\ wanted = [b \in Browser |-> {}]
  /\ owed = [b \in Browser |-> {}]
  /\ shown = [b \in Browser |-> [p \in Profile |-> [e \in Episode |-> 0]]]

Told(b) == {pe \in Profile \X Episode : shown[b][pe[1]][pe[2]] > 0}

\* Episodes are aired, dated and watched, shows are taken up, browsers come and go.
WorldTurns == shown' = shown

\* One message, with nothing in it that was shown before.  It may be about what is no
\* longer wanted: it was on its way.
Announce(b, p, es) ==
  /\ \A e \in es : shown[b][p][e] = 0
  /\ shown' = [shown EXCEPT ![b][p] = [e \in Episode |-> IF e \in es THEN 1 ELSE @[e]]]
  /\ UNCHANGED wanted

\* What is owed stays so while it is wanted, until it is shown.
KeepsOwing == \A b \in Browser :
  /\ owed[b] \intersect wanted'[b] \subseteq owed'[b] \union Told(b)'
  /\ owed'[b] \subseteq wanted'[b] \ Told(b)'

Next ==
  /\ WorldTurns \/ \E b \in Browser, p \in Profile, es \in SUBSET Episode : Announce(b, p, es)
  /\ KeepsOwing

Spec == Init /\ [][Next]_promise
==============================================================================
