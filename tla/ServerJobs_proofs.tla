------------------------- MODULE ServerJobs_proofs -------------------------
(***************************************************************************)
(* Proofs about what the server does by itself.                            *)
(*                                                                         *)
(* Episode notifications: the type invariant, that no episode is shown     *)
(* twice, that no backlog is shown, and that nothing owed is swallowed.    *)
(*                                                                         *)
(* Tracker scans: that they leave no row behind, for any number of         *)
(* categories and rows, any page size and any overlap, as long as no page  *)
(* is given up, no scan is stopped or outlasts the overlap, and no row is  *)
(* withdrawn.  The tracker may be down for whole scans, the process may    *)
(* crash, and the cutoff may be reset.  And that, whatever else goes       *)
(* wrong, a scan that ends within the overlap puts no new row out of reach *)
(* of the next.                                                            *)
(*                                                                         *)
(* The cache of categories: for any number of keys, computations and       *)
(* writers and any capacity, what is taken for fresh and which setting is  *)
(* in use.                                                                 *)
(***************************************************************************)
EXTENDS MC_ServerJobs, Sequences, TLAPS

-----------------------------------------------------------------------------
(* Episode notifications (EpisodePush) *)

\* A day passes, a date is set, a status or a timecode changes.
Outside == Settled /\ UNCHANGED <<subs, revoked, notified, seeds, check, faults, history>>

\* What a check has to send is a set of messages to subscribed browsers.
LEMMA ListIsTyped ==
  ASSUME TypeOK
  PROVE  FindNewEpisodeNotifications \subseteq Messages
BY DEF TypeOK, FindNewEpisodeNotifications, Message, Messages, Subscribed, Unsent, DueFor, AiredFor

\* What a delivered message changes in the history.
LEMMA ToldIs ==
  ASSUME TypeOK, NEW j \in Messages
  PROVE  /\ Told(j) \in [Browser -> [Profile -> [Episode -> Nat]]]
         /\ \A b \in Browser, p \in Profile, e \in Episode :
              Told(j)[b][p][e] = IF b = j.browser /\ p = j.profile /\ e \in j.episodes
                                 THEN shown[b][p][e] + 1 ELSE shown[b][p][e]
BY DEF TypeOK, Told, Messages

\* The type invariant is inductive.
LEMMA TypeStep ==
  ASSUME TypeOK, [Next]_vars
  PROVE  TypeOK'
<1> USE ConstantsAssumption
<1>1. CASE NextDay
  BY <1>1 DEF TypeOK, NextDay, check, history, Messages
<1>2. CASE SeedNotifiedEpisodes
  BY <1>2 DEF TypeOK, SeedNotifiedEpisodes, world, check, history, Messages, AiredFor
<1>3. CASE StartCheck
  BY <1>3, ListIsTyped DEF TypeOK, StartCheck, world, history, Messages
<1>4. ASSUME NEW j \in jobs, Deliver(j) PROVE TypeOK'
  <2>1. j \in Messages BY DEF TypeOK
  <2>2. QED BY <1>4, <2>1, ToldIs DEF TypeOK, Deliver, world, Messages
<1>5. ASSUME NEW j \in jobs, SendFails(j) PROVE TypeOK'
  <2>1. j \in Messages BY DEF TypeOK
  <2>2. shown' \in [Browser -> [Profile -> [Episode -> Nat]]]
    BY <1>5, <2>1, ToldIs DEF TypeOK, SendFails
  <2>3. QED BY <1>5, <2>2 DEF TypeOK, SendFails, world, Messages
<1>6. ASSUME NEW j \in jobs, SubscriptionGone(j) PROVE TypeOK'
  BY <1>6 DEF TypeOK, SubscriptionGone, DeletePushSubscription, world, history, Messages
<1>7. ASSUME NEW p \in Profile, NEW e \in Episode, MarkEpisodeNotified(p, e) PROVE TypeOK'
  BY <1>7 DEF TypeOK, MarkEpisodeNotified, world, history, Messages
<1>8. CASE Restart
  <2>1. /\ jobs' = {} /\ marking' = {} /\ seeds' = 0 /\ faults' = faults + 1 /\ faults < MaxFaults
        /\ UNCHANGED <<day, air, watching, watched, subs, revoked, notified, shown, backlog>>
    BY <1>8 DEF Restart, world, history
  <2>2. faults' \in 0 .. MaxFaults /\ seeds' \in 0 .. MaxSeeds
    BY <2>1 DEF TypeOK
  <2> QED BY <2>1, <2>2 DEF TypeOK
<1>9. ASSUME NEW e \in Episode, NEW d \in 0 .. MaxDay, SetAirDate(e, d) PROVE TypeOK'
  BY <1>9 DEF TypeOK, SetAirDate, check, history, Messages
<1>10. ASSUME NEW p \in Profile, NEW show \in Show, SetStatus(p, show) PROVE TypeOK'
  BY <1>10 DEF TypeOK, SetStatus, check, history, Messages
<1>11. ASSUME NEW p \in Profile, NEW e \in Episode, SetTimecode(p, e) PROVE TypeOK'
  BY <1>11 DEF TypeOK, SetTimecode, check, history, Messages
<1>12. ASSUME NEW b \in Browser, Revoke(b) PROVE TypeOK'
  BY <1>12 DEF TypeOK, Revoke, world, check, history, Messages
<1>13. ASSUME NEW b \in Browser, Unsubscribe(b) PROVE TypeOK'
  BY <1>13 DEF TypeOK, Unsubscribe, DeletePushSubscription, world, check, history, Messages
<1>14. ASSUME NEW b \in Browser, NEW p \in Profile, Subscribe(b, p) PROVE TypeOK'
  BY <1>14 DEF TypeOK, Subscribe, world, check, Messages, AiredFor
<1>15. CASE UNCHANGED vars
  BY <1>15 DEF TypeOK, vars, Messages
<1>16. QED
  BY <1>1, <1>2, <1>3, <1>4, <1>5, <1>6, <1>7, <1>8, <1>9, <1>10, <1>11, <1>12, <1>13, <1>14, <1>15
  DEF Next, RunPushNotifyCheck

\* Every variable has its type, whatever goes wrong.
THEOREM TypeCorrect == Spec => []TypeOK
<1>1. Init => TypeOK
  BY ConstantsAssumption DEF Init, TypeOK, Messages
<1> QED BY <1>1, TypeStep, PTL DEF Spec

\* The steps, sorted by what they leave alone.
LEMMA Steps ==
  ASSUME [Next]_vars
  PROVE  \/ Outside \/ UNCHANGED vars \/ SeedNotifiedEpisodes \/ StartCheck \/ Restart
         \/ \E j \in jobs : Deliver(j) \/ SendFails(j) \/ SubscriptionGone(j)
         \/ \E p \in Profile, e \in Episode : MarkEpisodeNotified(p, e)
         \/ \E b \in Browser : Revoke(b) \/ Unsubscribe(b) \/ \E p \in Profile : Subscribe(b, p)
<1>1. NextDay => Outside BY DEF NextDay, Outside
<1>2. \A e \in Episode, d \in 0 .. MaxDay : SetAirDate(e, d) => Outside BY DEF SetAirDate, Outside
<1>3. \A p \in Profile, show \in Show : SetStatus(p, show) => Outside BY DEF SetStatus, Outside
<1>4. \A p \in Profile, e \in Episode : SetTimecode(p, e) => Outside BY DEF SetTimecode, Outside
<1> QED BY <1>1, <1>2, <1>3, <1>4 DEF Next, RunPushNotifyCheck

-----------------------------------------------------------------------------
(***************************************************************************)
(* Nothing is shown twice                                                  *)
(***************************************************************************)
\* What was shown is recorded or about to be, and is in no message still to send.
ShownRecorded == \A b \in Browser, p \in Profile, e \in Episode :
                   shown[b][p][e] > 0 => e \in notified[p] \/ <<p, e>> \in marking
JobsFresh == \A j \in jobs : \A e \in j.episodes : shown[j.browser][j.profile][e] = 0
OneJobEach == \A i, j \in jobs : i.browser = j.browser => i = j

OnceInv == TypeOK /\ ShownRecorded /\ JobsFresh /\ OneJobEach /\ AtMostOnce

\* No message lists what is recorded for its profile, and none is listed twice.
LEMMA ListIsFresh ==
  ASSUME TypeOK
  PROVE  \A j \in FindNewEpisodeNotifications :
           /\ j \in Messages /\ subs[j.browser] = j.profile /\ j.episodes = Unsent(j.profile)
           /\ j.episodes \intersect notified[j.profile] = {}
           /\ \A i \in FindNewEpisodeNotifications : i.browser = j.browser => i = j
<1> SUFFICES ASSUME NEW j \in FindNewEpisodeNotifications
             PROVE  /\ j \in Messages /\ subs[j.browser] = j.profile /\ j.episodes = Unsent(j.profile)
                    /\ j.episodes \intersect notified[j.profile] = {}
                    /\ \A i \in FindNewEpisodeNotifications : i.browser = j.browser => i = j
  OBVIOUS
<1>1. j \in Messages
  BY ListIsTyped
<1>2. \A i \in FindNewEpisodeNotifications : i = Message(i.browser)
  BY DEF FindNewEpisodeNotifications, Message
<1>3. subs[j.browser] = j.profile /\ j.episodes = Unsent(j.profile)
  BY <1>2 DEF Message
<1>4. j.episodes \intersect notified[j.profile] = {}
  BY <1>3 DEF Unsent
<1> QED BY <1>1, <1>2, <1>3, <1>4

\* The invariant is inductive where what is shown gets recorded.
LEMMA OnceStep ==
  ASSUME "unrecorded" \notin Hazards, OnceInv, [Next]_vars
  PROVE  OnceInv'
<1> USE DEF OnceInv
<1>1. TypeOK'
  BY TypeStep
<1>2. CASE Outside \/ UNCHANGED vars
  <2>1. UNCHANGED <<notified, jobs, marking, shown>>
    BY <1>2 DEF Outside, vars, check, history
  <2> QED BY <1>1, <2>1 DEF ShownRecorded, JobsFresh, OneJobEach, AtMostOnce
<1>3. CASE SeedNotifiedEpisodes
  <2>1. /\ UNCHANGED <<jobs, marking, shown>>
        /\ \A p \in Profile : notified[p] \subseteq notified'[p]
    BY <1>3 DEF SeedNotifiedEpisodes, check, history, TypeOK
  <2> QED BY <1>1, <2>1 DEF ShownRecorded, JobsFresh, OneJobEach, AtMostOnce
<1>4. CASE StartCheck
  <2>1. /\ jobs' = FindNewEpisodeNotifications /\ marking = {}
        /\ UNCHANGED <<notified, marking, shown>>
    BY <1>4 DEF StartCheck, history
  <2>2. ShownRecorded' /\ OneJobEach' /\ AtMostOnce'
    BY <2>1, ListIsFresh DEF ShownRecorded, OneJobEach, AtMostOnce
  <2>3. ASSUME NEW j \in jobs', NEW e \in j.episodes PROVE shown[j.browser][j.profile][e] = 0
    <3>1. /\ j.browser \in Browser /\ j.profile \in Profile /\ e \in Episode
          /\ e \notin notified[j.profile]
      BY <2>1, ListIsFresh DEF Messages
    <3>2. shown[j.browser][j.profile][e] \in Nat
      BY <3>1 DEF TypeOK
    <3> QED BY <2>1, <3>1, <3>2 DEF ShownRecorded
  <2> QED BY <1>1, <2>1, <2>2, <2>3 DEF JobsFresh
<1>5. ASSUME NEW j \in jobs, Deliver(j) PROVE OnceInv'
  <2>1. j \in Messages
    BY DEF TypeOK
  <2>2. /\ shown' = Told(j) /\ jobs' = jobs \ {j} /\ marking' = {j.profile} \X j.episodes
        /\ marking = {} /\ UNCHANGED notified
    BY <1>5 DEF Deliver, Sends
  <2>3. ShownRecorded'
    <3> SUFFICES ASSUME NEW b \in Browser, NEW p \in Profile, NEW e \in Episode, Told(j)[b][p][e] > 0
                 PROVE  e \in notified[p] \/ <<p, e>> \in {j.profile} \X j.episodes
      BY <2>2 DEF ShownRecorded
    <3>1. CASE b = j.browser /\ p = j.profile /\ e \in j.episodes
      BY <3>1
    <3>2. CASE ~(b = j.browser /\ p = j.profile /\ e \in j.episodes)
      <4>1. Told(j)[b][p][e] = shown[b][p][e]
        BY <3>2, <2>1, ToldIs
      <4> QED BY <4>1, <2>2 DEF ShownRecorded
    <3> QED BY <3>1, <3>2
  <2>4. JobsFresh'
    <3> SUFFICES ASSUME NEW i \in jobs \ {j}, NEW e \in i.episodes
                 PROVE  Told(j)[i.browser][i.profile][e] = 0
      BY <2>2 DEF JobsFresh
    <3>1. i \in Messages /\ i.browser # j.browser
      BY DEF TypeOK, OneJobEach
    <3> QED BY <2>1, <3>1, ToldIs DEF JobsFresh, Messages
  <2>5. AtMostOnce'
    <3> SUFFICES ASSUME NEW b \in Browser, NEW p \in Profile, NEW e \in Episode
                 PROVE  Told(j)[b][p][e] <= 1
      BY <2>2 DEF AtMostOnce
    <3> QED BY <2>1, ToldIs DEF JobsFresh, AtMostOnce
  <2>6. OneJobEach'
    BY <2>2 DEF OneJobEach
  <2> QED BY <1>1, <2>3, <2>4, <2>5, <2>6
<1>6. ASSUME NEW j \in jobs, SendFails(j) \/ SubscriptionGone(j) PROVE OnceInv'
  <2>1. jobs' \subseteq jobs /\ UNCHANGED <<notified, marking, shown>>
    BY <1>6 DEF SendFails, SubscriptionGone, history
  <2> QED BY <1>1, <2>1 DEF ShownRecorded, JobsFresh, OneJobEach, AtMostOnce
<1>7. ASSUME NEW p \in Profile, NEW e \in Episode, MarkEpisodeNotified(p, e) PROVE OnceInv'
  <2>1. /\ marking' = marking \ {<<p, e>>} /\ notified' = [notified EXCEPT ![p] = @ \union {e}]
        /\ UNCHANGED <<jobs, shown>>
    BY <1>7 DEF MarkEpisodeNotified, history
  <2>2. ShownRecorded'
    BY <2>1 DEF ShownRecorded, TypeOK
  <2> QED BY <1>1, <2>1, <2>2 DEF JobsFresh, OneJobEach, AtMostOnce
<1>8. CASE Restart
  <2>1. jobs' = {} /\ marking' = marking /\ UNCHANGED <<notified, shown>>
    BY <1>8 DEF Restart, history
  <2> QED BY <1>1, <2>1 DEF ShownRecorded, JobsFresh, OneJobEach, AtMostOnce
<1>9. ASSUME NEW b \in Browser,
             Revoke(b) \/ Unsubscribe(b) \/ \E p \in Profile : Subscribe(b, p)
      PROVE  OnceInv'
  <2>1. UNCHANGED <<notified, jobs, marking, shown>>
    BY <1>9 DEF Revoke, Unsubscribe, Subscribe, check, history
  <2> QED BY <1>1, <2>1 DEF ShownRecorded, JobsFresh, OneJobEach, AtMostOnce
<1> QED BY <1>2, <1>3, <1>4, <1>5, <1>6, <1>7, <1>8, <1>9, Steps

\* Whatever else goes wrong, no browser shows an episode twice, as long as a message that
\* is shown gets recorded.
THEOREM NeverShownTwice ==
  ASSUME "unrecorded" \notin Hazards
  PROVE  Spec => []AtMostOnce
<1>1. Init => OnceInv
  BY ConstantsAssumption DEF Init, OnceInv, TypeOK, Messages, ShownRecorded, JobsFresh, OneJobEach,
     AtMostOnce
<1>2. OnceInv => AtMostOnce
  BY DEF OnceInv
<1> QED BY <1>1, <1>2, OnceStep, PTL DEF Spec

-----------------------------------------------------------------------------
(***************************************************************************)
(* No backlog is shown                                                     *)
(***************************************************************************)
\* The backlog is recorded, or a seed under way will record it; it is not being sent.
BacklogKept(b, e) ==
  /\ shown[b][subs[b]][e] = 0
  /\ e \in notified[subs[b]] \/ (seeds > 0 /\ e \in AiredFor(subs[b]))
  /\ \A j \in jobs : j.browser = b /\ j.profile = subs[b] => e \notin j.episodes

BacklogInv == TypeOK /\ \A b \in Subscribed : \A e \in backlog[b] : BacklogKept(b, e)

\* A step that leaves alone a browser's subscription and its backlog; and one that leaves
\* alone what has aired for whom.
Same(b) == b \in Subscribed /\ subs'[b] = subs[b] /\ backlog'[b] = backlog[b]
Quiet == UNCHANGED <<air, day, watching, seeds>>

\* The invariant is inductive where seeds run at once and nobody subscribes in mid-check.
LEMMA BacklogStep ==
  ASSUME "lagging" \notin Hazards, "overlap" \notin Hazards, BacklogInv, [Next]_vars
  PROVE  BacklogInv'
<1>0. TypeOK /\ TypeOK'
  BY TypeStep DEF BacklogInv
<1> SUFFICES ASSUME NEW b \in Browser, NEW e \in Episode, b \in Subscribed', e \in backlog'[b]
             PROVE  BacklogKept(b, e)'
  BY <1>0 DEF BacklogInv, Subscribed, TypeOK
<1>1. Same(b) => /\ b \in Browser /\ subs[b] \in Profile /\ e \in Episode /\ BacklogKept(b, e)
  BY <1>0 DEF BacklogInv, Subscribed, TypeOK, Same, Quiet
<1>2. Same(b) /\ Quiet /\ jobs' \subseteq jobs /\ shown'[b][subs[b]][e] = 0 /\ notified[subs[b]] \subseteq notified'[subs[b]]
        => BacklogKept(b, e)'
  BY <1>1 DEF BacklogKept, AiredFor, Aired, Same, Quiet
<1>3. CASE Outside
  <2>1. seeds = 0 /\ Same(b) /\ UNCHANGED <<notified, seeds, jobs, shown, subs>>
    BY <1>3 DEF Outside, Settled, check, history, Subscribed, Same, Quiet
  <2>2. BacklogKept(b, e)
    BY <1>1, <2>1
  <2> QED BY <2>1, <2>2 DEF BacklogKept, Same
<1>4. CASE UNCHANGED vars \/ \E c \in Browser : Revoke(c)
  <2>1. Same(b) /\ Quiet /\ UNCHANGED <<notified, jobs, shown>>
    BY <1>4 DEF vars, Revoke, world, check, history, Subscribed, Same, Quiet
  <2> QED BY <1>1, <1>2, <2>1 DEF BacklogKept, Same, Quiet
<1>5. CASE SeedNotifiedEpisodes
  <2>1. /\ Same(b) /\ UNCHANGED <<jobs, shown, subs>>
        /\ notified' = [p \in Profile |-> IF \E c \in Browser : subs[c] = p
                                          THEN notified[p] \union AiredFor(p) ELSE notified[p]]
    BY <1>5 DEF SeedNotifiedEpisodes, check, history, Subscribed, Same, Quiet
  <2>2. notified'[subs[b]] = notified[subs[b]] \union AiredFor(subs[b])
    BY <1>1, <2>1
  <2> QED BY <1>1, <2>1, <2>2 DEF BacklogKept, Same, Quiet
<1>6. CASE StartCheck
  <2>1. /\ seeds = 0 /\ jobs' = FindNewEpisodeNotifications
        /\ Same(b) /\ UNCHANGED <<notified, seeds, shown, subs>>
    BY <1>6 DEF StartCheck, Settled, history, Subscribed, Same, Quiet
  <2>2. e \in notified[subs[b]]
    BY <1>1, <2>1 DEF BacklogKept, Same, Quiet
  <2> QED BY <1>0, <1>1, <2>1, <2>2, ListIsFresh DEF BacklogKept, Same, Quiet
<1>7. ASSUME NEW j \in jobs, Deliver(j) \/ SendFails(j) PROVE BacklogKept(b, e)'
  <2>1. /\ jobs' = jobs \ {j} /\ shown' \in {shown, Told(j)}
        /\ Same(b) /\ Quiet /\ UNCHANGED notified
    BY <1>7 DEF Deliver, SendFails, world, Subscribed, Same, Quiet
  <2>2. shown[b][subs[b]][e] = 0 /\ ~ (b = j.browser /\ subs[b] = j.profile /\ e \in j.episodes)
    BY <1>1, <2>1 DEF BacklogKept, Same, Quiet
  <2>3. Told(j)[b][subs[b]][e] = shown[b][subs[b]][e]
    BY <1>0, <1>1, <2>1, <2>2, ToldIs DEF TypeOK
  <2> QED BY <1>2, <2>1, <2>2, <2>3
<1>8. ASSUME NEW j \in jobs, SubscriptionGone(j) PROVE BacklogKept(b, e)'
  <2>1. /\ jobs' = jobs \ {j} /\ subs' = [subs EXCEPT ![j.browser] = None]
        /\ Quiet /\ UNCHANGED <<notified, shown, backlog>>
    BY <1>8 DEF SubscriptionGone, DeletePushSubscription, world, history, Same, Quiet
  <2>2. Same(b)
    BY <1>0, <2>1 DEF Subscribed, TypeOK, Same, Quiet
  <2> QED BY <1>1, <1>2, <2>1, <2>2 DEF BacklogKept, Same, Quiet
<1>9. ASSUME NEW p \in Profile, NEW x \in Episode, MarkEpisodeNotified(p, x) PROVE BacklogKept(b, e)'
  <2>1. /\ notified' = [notified EXCEPT ![p] = @ \union {x}]
        /\ Same(b) /\ Quiet /\ UNCHANGED <<jobs, shown>>
    BY <1>9 DEF MarkEpisodeNotified, world, history, Subscribed, Same, Quiet
  <2>2. notified[subs[b]] \subseteq notified'[subs[b]]
    BY <1>0, <1>1, <2>1 DEF TypeOK
  <2> QED BY <1>1, <1>2, <2>1, <2>2 DEF BacklogKept, Same, Quiet
<1>10. CASE Restart
  <2>1. seeds = 0 /\ seeds' = 0 /\ jobs' = {} /\ Same(b) /\ UNCHANGED <<notified, shown, subs>>
    BY <1>10 DEF Restart, history, Subscribed, Same, Quiet
  <2> QED BY <1>1, <2>1 DEF BacklogKept, Same, Quiet
<1>11. ASSUME NEW c \in Browser, Unsubscribe(c) PROVE BacklogKept(b, e)'
  <2>1. /\ subs' = [subs EXCEPT ![c] = None]
        /\ Quiet /\ UNCHANGED <<notified, shown, backlog, jobs>>
    BY <1>11 DEF Unsubscribe, DeletePushSubscription, world, history, check, Same, Quiet
  <2>2. Same(b)
    BY <1>0, <2>1 DEF Subscribed, TypeOK, Same, Quiet
  <2> QED BY <1>1, <1>2, <2>1, <2>2 DEF BacklogKept, Same, Quiet
<1>12. ASSUME NEW c \in Browser, NEW p \in Profile, Subscribe(c, p) PROVE BacklogKept(b, e)'
  <2>1. /\ subs' = [subs EXCEPT ![c] = p] /\ seeds' = seeds + 1
        /\ UNCHANGED <<notified, shown, air, day, watching, jobs>>
        /\ subs[c] = p \/ ~Addresses(c, p)
        /\ backlog' = IF subs[c] = p THEN backlog
                      ELSE [backlog EXCEPT ![c] = {x \in AiredFor(p) : shown[c][p][x] = 0}]
    BY <1>12 DEF Subscribe, world, check, Same, Quiet
  <2>2. seeds \in Nat /\ seeds' > 0
    BY <1>0, <2>1 DEF TypeOK
  <2>3. CASE b # c \/ subs[c] = p
    <3>1. Same(b)
      BY <1>0, <2>1, <2>3 DEF Subscribed, TypeOK, Same, Quiet
    <3> QED BY <1>1, <2>1, <2>2, <3>1 DEF BacklogKept, AiredFor, Aired, Same, Quiet
  <2>4. CASE b = c /\ subs[c] # p
    <3>1. subs'[b] = p /\ e \in AiredFor(p) /\ shown[b][p][e] = 0
      BY <1>0, <2>1, <2>4 DEF TypeOK
    <3>2. \A j \in jobs : j.browser # b
      BY <2>1, <2>4 DEF Addresses
    <3> QED BY <2>1, <2>2, <3>1, <3>2 DEF BacklogKept, AiredFor, Aired, Same, Quiet
  <2> QED BY <2>3, <2>4
<1> QED BY <1>3, <1>4, <1>5, <1>6, <1>7, <1>8, <1>9, <1>10, <1>11, <1>12, Steps

\* Even if messages get lost or stay unrecorded, and although every seed is everybody's,
\* no browser shows what had aired before it subscribed.
THEOREM BacklogNeverShown ==
  ASSUME "lagging" \notin Hazards, "overlap" \notin Hazards
  PROVE  Spec => []NoBacklogShown
<1>1. Init => BacklogInv
  BY ConstantsAssumption DEF Init, BacklogInv, TypeOK, Messages, Subscribed
<1>2. BacklogInv => NoBacklogShown
  BY DEF BacklogInv, BacklogKept, NoBacklogShown
<1> QED BY <1>1, <1>2, BacklogStep, PTL DEF Spec

-----------------------------------------------------------------------------
(***************************************************************************)
(* Nothing is swallowed                                                    *)
(***************************************************************************)
HasJob(b, e) == \E j \in jobs : j.browser = b /\ j.profile = subs[b] /\ e \in j.episodes

\* Every browser of profile p has shown episode e, has it on its way or in its backlog.
Covered(p, e) == \A b \in Subscribed \ revoked :
                   subs[b] = p /\ e \notin backlog[b] /\ shown[b][p][e] = 0 => HasJob(b, e)

\* A check sends an episode to all browsers of a profile: whatever it is to record is covered.
JobsCovered == \A j \in jobs : \A e \in j.episodes : Covered(j.profile, e)
MarkingCovered == \A p \in Profile, e \in Episode : <<p, e>> \in marking => Covered(p, e)

\* While a seed is under way nothing is due that a browser is owed.
SeedsHarmless == seeds > 0 =>
  \A b \in Subscribed : \A e \in Unsent(subs[b]) : e \in backlog[b] \/ shown[b][subs[b]][e] > 0

SwallowInv == TypeOK /\ JobsCovered /\ MarkingCovered /\ SeedsHarmless

\* Only the recording of messages may go wrong.
Orderly == Hazards \subseteq {"unrecorded"}

\* Coverage outlives a step that takes no message from a browser that needs it.
LEMMA StaysCovered ==
  ASSUME NEW p \in Profile, NEW e \in Episode, Covered(p, e),
         \A b \in (Subscribed \ revoked)' : subs'[b] = p =>
           /\ b \in Subscribed \ revoked /\ subs[b] = p /\ backlog'[b] = backlog[b]
           /\ shown'[b][p][e] = 0 => shown[b][p][e] = 0
           /\ shown'[b][p][e] = 0 /\ HasJob(b, e) => HasJob(b, e)'
  PROVE  Covered(p, e)'
BY DEF Covered

\* When every message listed or recorded was covered, and none is added, it stays so.
LEMMA StaysAllCovered ==
  ASSUME SwallowInv, jobs' \subseteq jobs, marking' \subseteq marking,
         \A p \in Profile, e \in Episode : Covered(p, e) => Covered(p, e)'
  PROVE  JobsCovered' /\ MarkingCovered'
<1>1. \A j \in jobs : j.profile \in Profile /\ j.episodes \subseteq Episode
  BY DEF SwallowInv, TypeOK, Messages
<1> QED BY <1>1 DEF SwallowInv, JobsCovered, MarkingCovered

\* What a check lists for a profile, it lists for each of its browsers.
LEMMA ListCovers ==
  ASSUME TypeOK, NEW j \in FindNewEpisodeNotifications, NEW e \in j.episodes,
         NEW b \in Subscribed, subs[b] = j.profile
  PROVE  \E i \in FindNewEpisodeNotifications :
           i.browser = b /\ i.profile = subs[b] /\ e \in i.episodes
<1>1. j.episodes = Unsent(subs[b])
  BY ListIsFresh
<1>2. Message(b) \in FindNewEpisodeNotifications
  BY <1>1 DEF FindNewEpisodeNotifications
<1>3. Message(b).browser = b /\ Message(b).profile = subs[b] /\ Message(b).episodes = Unsent(subs[b])
  BY DEF Message
<1> QED BY <1>1, <1>2, <1>3

\* Coverage of messages and marks is inductive.
LEMMA CoverStep ==
  ASSUME Orderly, SwallowInv, [Next]_vars
  PROVE  JobsCovered' /\ MarkingCovered'
<1>0. TypeOK /\ "overlap" \notin Hazards /\ "siblings" \notin Hazards
  BY DEF SwallowInv, Orderly
<1>1. CASE Outside \/ UNCHANGED vars \/ SeedNotifiedEpisodes \/ \E c \in Browser : Revoke(c)
  <2>1. UNCHANGED <<subs, backlog, shown, jobs, marking>> /\ revoked \subseteq revoked'
    BY <1>1 DEF Outside, vars, SeedNotifiedEpisodes, Revoke, check, history
  <2>2. \A p \in Profile, e \in Episode : Covered(p, e) => Covered(p, e)'
    BY <2>1 DEF Covered, HasJob, Subscribed
  <2> QED BY <2>1, <2>2, StaysAllCovered
<1>2. ASSUME NEW q \in Profile, NEW x \in Episode, MarkEpisodeNotified(q, x)
      PROVE  JobsCovered' /\ MarkingCovered'
  <2>1. UNCHANGED <<subs, backlog, shown, jobs, revoked>> /\ marking' \subseteq marking
    BY <1>2 DEF MarkEpisodeNotified, history
  <2>2. \A p \in Profile, e \in Episode : Covered(p, e) => Covered(p, e)'
    BY <2>1 DEF Covered, HasJob, Subscribed
  <2> QED BY <2>1, <2>2, StaysAllCovered
<1>3. CASE StartCheck
  <2>1. /\ jobs' = FindNewEpisodeNotifications /\ marking' = {}
        /\ UNCHANGED <<subs, backlog, shown, revoked>>
    BY <1>3 DEF StartCheck, history
  <2>2. JobsCovered'
    BY <1>0, <2>1, ListCovers DEF JobsCovered, Covered, HasJob, Subscribed
  <2> QED BY <2>1, <2>2 DEF MarkingCovered
<1>4. ASSUME NEW j \in jobs, Deliver(j) PROVE JobsCovered' /\ MarkingCovered'
  <2>1. /\ jobs' = jobs \ {j} /\ marking = {} /\ marking' = {j.profile} \X j.episodes
        /\ shown' = Told(j) /\ UNCHANGED <<subs, backlog, revoked>>
    BY <1>4 DEF Deliver, Sends
  <2>2. ASSUME NEW p \in Profile, NEW e \in Episode, Covered(p, e) PROVE Covered(p, e)'
    <3>1. ASSUME NEW b \in Subscribed \ revoked, subs[b] = p, Told(j)[b][p][e] = 0
          PROVE  shown[b][p][e] = 0 /\ ~ (j.browser = b /\ j.profile = p /\ e \in j.episodes)
      <4>1. b \in Browser /\ j \in Messages /\ shown[b][p][e] \in Nat
        BY <1>0 DEF Subscribed, TypeOK
      <4> QED BY <1>0, <3>1, <4>1, ToldIs
    <3> QED BY <2>1, <2>2, <3>1 DEF Covered, HasJob, Subscribed
  <2>3. JobsCovered'
    <3>1. \A i \in jobs : i.profile \in Profile /\ i.episodes \subseteq Episode
      BY <1>0 DEF TypeOK, Messages
    <3> QED BY <2>1, <2>2, <3>1 DEF SwallowInv, JobsCovered
  <2>4. MarkingCovered'
    <3> SUFFICES ASSUME NEW p \in Profile, NEW e \in Episode, <<p, e>> \in {j.profile} \X j.episodes
                 PROVE  Covered(p, e)'
      BY <2>1 DEF MarkingCovered
    <3>1. p = j.profile /\ e \in j.episodes
      OBVIOUS
    <3> QED BY <2>2, <3>1 DEF SwallowInv, JobsCovered
  <2> QED BY <2>3, <2>4
<1>5. ASSUME NEW j \in jobs, SendFails(j) PROVE JobsCovered' /\ MarkingCovered'
  <2>1. /\ jobs' = jobs \ {j} /\ marking' = {} /\ shown' \in {shown, Told(j)}
        /\ \A i \in jobs : i.profile = j.profile => i = j
        /\ UNCHANGED <<subs, backlog, revoked>>
    BY <1>0, <1>5 DEF SendFails, Sends, NoSibling
  <2>2. ASSUME NEW i \in jobs \ {j}, NEW e \in i.episodes PROVE Covered(i.profile, e)'
    <3>1. /\ i.profile \in Profile /\ e \in Episode /\ i.profile # j.profile
          /\ j \in Messages /\ Covered(i.profile, e)
      BY <1>0, <2>1 DEF SwallowInv, JobsCovered, TypeOK, Messages
    <3>2. \A b \in Browser : Told(j)[b][i.profile][e] = shown[b][i.profile][e]
      BY <1>0, <3>1, ToldIs
    <3> QED BY <2>1, <3>1, <3>2 DEF Covered, HasJob, Subscribed
  <2> QED BY <2>1, <2>2 DEF JobsCovered, MarkingCovered
<1>6. ASSUME NEW j \in jobs, SubscriptionGone(j) PROVE JobsCovered' /\ MarkingCovered'
  <2>1. /\ jobs' = jobs \ {j} /\ subs' = [subs EXCEPT ![j.browser] = None] /\ j.browser \in revoked
        /\ UNCHANGED <<backlog, revoked, shown, marking>>
    BY <1>6 DEF SubscriptionGone, Sends, DeletePushSubscription, history
  <2>2. ASSUME NEW p \in Profile, NEW e \in Episode, Covered(p, e) PROVE Covered(p, e)'
    <3>1. \A b \in (Subscribed \ revoked)' :
            b \in Subscribed \ revoked /\ subs'[b] = subs[b] /\ b # j.browser
      BY <1>0, <2>1 DEF Subscribed, TypeOK
    <3> QED BY <2>1, <2>2, <3>1 DEF Covered, HasJob
  <2> QED BY <2>1, <2>2, StaysAllCovered
<1>7. CASE Restart
  BY <1>7 DEF Restart, JobsCovered, MarkingCovered
<1>8. ASSUME NEW c \in Browser, Unsubscribe(c) PROVE JobsCovered' /\ MarkingCovered'
  <2>1. /\ subs' = [subs EXCEPT ![c] = None]
        /\ UNCHANGED <<backlog, revoked, shown, marking, jobs>>
    BY <1>8 DEF Unsubscribe, DeletePushSubscription, history, check
  <2>2. ASSUME NEW p \in Profile, NEW e \in Episode, Covered(p, e) PROVE Covered(p, e)'
    <3>1. \A b \in (Subscribed \ revoked)' : b \in Subscribed \ revoked /\ subs'[b] = subs[b]
      BY <1>0, <2>1 DEF Subscribed, TypeOK
    <3> QED BY <2>1, <2>2, <3>1 DEF Covered, HasJob
  <2> QED BY <2>1, <2>2, StaysAllCovered
<1>9. ASSUME NEW c \in Browser, NEW q \in Profile, Subscribe(c, q) PROVE JobsCovered' /\ MarkingCovered'
  <2>1. /\ subs' = [subs EXCEPT ![c] = q] /\ (subs[c] = q \/ ~Addresses(c, q))
        /\ UNCHANGED <<revoked, shown, marking, jobs>>
        /\ backlog' = IF subs[c] = q THEN backlog
                      ELSE [backlog EXCEPT ![c] = {e \in AiredFor(q) : shown[c][q][e] = 0}]
    BY <1>0, <1>9 DEF Subscribe, check
  <2>2. CASE subs[c] = q
    <3>1. subs' = subs /\ backlog' = backlog
      BY <1>0, <2>1, <2>2 DEF TypeOK
    <3> QED BY <2>1, <3>1 DEF SwallowInv, JobsCovered, MarkingCovered, Covered, HasJob, Subscribed
  <2>3. CASE subs[c] # q
    <3>1. ASSUME NEW p \in Profile, NEW e \in Episode, Covered(p, e), p # q PROVE Covered(p, e)'
      <4>1. \A b \in (Subscribed \ revoked)' : subs'[b] = p =>
              b \in Subscribed \ revoked /\ subs[b] = p /\ backlog'[b] = backlog[b]
        BY <1>0, <2>1, <2>3, <3>1 DEF Subscribed, TypeOK
      <4> QED BY <2>1, <3>1, <4>1 DEF Covered, HasJob
    <3>2. (\A j \in jobs : j.profile # q) /\ \A e \in Episode : <<q, e>> \notin marking
      BY <2>1, <2>3 DEF Addresses
    <3>3. \A j \in jobs : j.profile \in Profile /\ j.episodes \subseteq Episode
      BY <1>0 DEF TypeOK, Messages
    <3> QED BY <2>1, <3>1, <3>2, <3>3 DEF SwallowInv, JobsCovered, MarkingCovered
  <2> QED BY <2>2, <2>3
<1> QED BY <1>1, <1>2, <1>3, <1>4, <1>5, <1>6, <1>7, <1>8, <1>9, Steps

\* A seed that runs at once, started when nothing was due, finds nothing that is owed.
LEMMA SeedStep ==
  ASSUME Orderly, SwallowInv, [Next]_vars
  PROVE  SeedsHarmless'
<1>0. /\ TypeOK /\ TypeOK' /\ seeds \in Nat /\ seeds' \in Nat
      /\ "lagging" \notin Hazards /\ "due" \notin Hazards
  BY ConstantsAssumption, TypeStep DEF SwallowInv, Orderly, TypeOK
<1> SUFFICES ASSUME seeds' > 0, NEW b \in Browser, b \in Subscribed', NEW e \in Episode, e \in Unsent(subs[b])'
             PROVE  e \in backlog'[b] \/ shown'[b][subs'[b]][e] > 0
  BY <1>0 DEF SeedsHarmless, Subscribed, Unsent, DueFor, AiredFor
<1>1. subs'[b] \in Profile
  BY <1>0 DEF Subscribed, TypeOK
<1> DEFINE Kept == /\ b \in Subscribed /\ subs'[b] = subs[b] /\ backlog'[b] = backlog[b] /\ seeds > 0
                   /\ shown[b][subs[b]][e] > 0 => shown'[b][subs[b]][e] > 0
                   /\ e \in Unsent(subs[b])
<1>2. Kept => e \in backlog'[b] \/ shown'[b][subs'[b]][e] > 0
  BY DEF SwallowInv, SeedsHarmless
<1>3. ASSUME UNCHANGED <<day, air, watching, watched>>, b \in Subscribed, subs'[b] = subs[b],
             notified[subs[b]] \subseteq notified'[subs[b]]
      PROVE  e \in Unsent(subs[b])
  BY <1>3 DEF Unsent, DueFor, AiredFor, Aired
<1>4. ~ (Outside \/ StartCheck \/ Restart)
  BY <1>0 DEF Outside, StartCheck, Restart, Settled
<1>5. CASE UNCHANGED vars \/ \E c \in Browser : Revoke(c)
  <2>1. UNCHANGED <<day, air, watching, watched, notified, subs, backlog, seeds, shown>>
    BY <1>5 DEF vars, Revoke, world, check, history
  <2>2. Kept
    BY <1>3, <2>1 DEF Subscribed
  <2> QED BY <1>2, <2>2
<1>6. CASE SeedNotifiedEpisodes
  <2>1. /\ UNCHANGED <<day, air, watching, watched, subs, backlog, shown>> /\ seeds > 0
        /\ notified[subs[b]] \subseteq notified'[subs[b]]
    BY <1>0, <1>1, <1>6 DEF SeedNotifiedEpisodes, world, check, history
  <2>2. Kept
    BY <1>3, <2>1 DEF Subscribed
  <2> QED BY <1>2, <2>2
<1>7. ASSUME NEW p \in Profile, NEW x \in Episode, MarkEpisodeNotified(p, x) PROVE Kept
  <2>1. /\ UNCHANGED <<day, air, watching, watched, subs, backlog, shown, seeds>>
        /\ notified' = [notified EXCEPT ![p] = @ \union {x}]
    BY <1>7 DEF MarkEpisodeNotified, world, history
  <2>2. notified[subs[b]] \subseteq notified'[subs[b]]
    BY <1>0, <1>1, <2>1 DEF TypeOK
  <2> QED BY <1>3, <2>1, <2>2 DEF Subscribed
<1>8. ASSUME NEW j \in jobs, Deliver(j) \/ SendFails(j) PROVE Kept
  <2>1. /\ UNCHANGED <<day, air, watching, watched, subs, backlog, notified, seeds>>
        /\ shown' \in {shown, Told(j)}
    BY <1>8 DEF Deliver, SendFails, world
  <2>2. Told(j)[b][subs[b]][e] >= shown[b][subs[b]][e] /\ shown[b][subs[b]][e] \in Nat
    <3>1. j \in Messages /\ subs[b] \in Profile /\ shown[b][subs[b]][e] \in Nat
      BY <1>0, <1>1, <2>1 DEF TypeOK
    <3>2. Told(j)[b][subs[b]][e] = IF b = j.browser /\ subs[b] = j.profile /\ e \in j.episodes
                                   THEN shown[b][subs[b]][e] + 1 ELSE shown[b][subs[b]][e]
      BY <1>0, <3>1, ToldIs
    <3> QED BY <3>1, <3>2
  <2>3. shown[b][subs[b]][e] > 0 => shown'[b][subs[b]][e] > 0
    <3>1. Told(j)[b][subs[b]][e] \in Nat
      BY <1>0, <1>1, <2>1, ToldIs DEF TypeOK
    <3> QED BY <2>1, <2>2, <3>1
  <2> QED BY <1>3, <2>1, <2>3 DEF Subscribed
<1>9. ASSUME NEW j \in jobs, SubscriptionGone(j) PROVE Kept
  <2>1. /\ UNCHANGED <<day, air, watching, watched, backlog, notified, seeds, shown>>
        /\ subs' = [subs EXCEPT ![j.browser] = None]
    BY <1>9 DEF SubscriptionGone, DeletePushSubscription, world, history
  <2>2. b \in Subscribed /\ subs'[b] = subs[b]
    BY <1>0, <2>1 DEF Subscribed, TypeOK
  <2> QED BY <1>3, <2>1, <2>2
<1>10. ASSUME NEW c \in Browser, Unsubscribe(c) PROVE Kept
  <2>1. /\ UNCHANGED <<day, air, watching, watched, backlog, notified, seeds, shown>>
        /\ subs' = [subs EXCEPT ![c] = None]
    BY <1>10 DEF Unsubscribe, DeletePushSubscription, world, history, check
  <2>2. b \in Subscribed /\ subs'[b] = subs[b]
    BY <1>0, <2>1 DEF Subscribed, TypeOK
  <2> QED BY <1>3, <2>1, <2>2
<1>11. ASSUME NEW c \in Browser, NEW q \in Profile, Subscribe(c, q)
       PROVE  e \in backlog'[b] \/ shown'[b][subs'[b]][e] > 0
  <2>1. /\ subs' = [subs EXCEPT ![c] = q] /\ FindNewEpisodeNotifications = {}
        /\ UNCHANGED <<day, air, watching, watched, notified, shown>>
        /\ backlog' = IF subs[c] = q THEN backlog
                      ELSE [backlog EXCEPT ![c] = {x \in AiredFor(q) : shown[c][q][x] = 0}]
    BY <1>0, <1>11 DEF Subscribe, world, check
  <2>2. \A d \in Subscribed : Unsent(subs[d]) = {}
    BY <2>1 DEF FindNewEpisodeNotifications
  <2>3. ~ (b \in Subscribed /\ subs'[b] = subs[b])
    BY <1>3, <2>1, <2>2
  <2>4. b = c /\ subs[c] # q /\ subs'[b] = q
    BY <1>0, <2>1, <2>3 DEF Subscribed, TypeOK
  <2>5. e \in AiredFor(q)
    BY <2>1, <2>4 DEF Unsent, DueFor, AiredFor, Aired
  <2>6. shown[b][q][e] \in Nat
    BY <1>0 DEF TypeOK
  <2> QED BY <1>0, <2>1, <2>4, <2>5, <2>6 DEF TypeOK
<1> HIDE DEF Kept
<1> QED BY <1>2, <1>4, <1>5, <1>6, <1>7, <1>8, <1>9, <1>10, <1>11, Steps

\* The invariant holds throughout.
LEMMA SwallowStep ==
  ASSUME Orderly, SwallowInv, [Next]_vars
  PROVE  SwallowInv'
BY CoverStep, SeedStep, TypeStep DEF SwallowInv

\* What is due before and after a step, unshown, no backlog and still to be sent, is still owed.
LEMMA StillOwed ==
  ASSUME NEW b \in Browser, NEW e \in Episode, Owed(b, e), b \notin revoked', subs'[b] = subs[b],
         e \in DueFor(subs[b])', backlog'[b] = backlog[b], shown'[b][subs[b]][e] = 0,
         e \notin notified'[subs[b]] \/ HasJob(b, e)'
  PROVE  Owed(b, e)'
BY DEF Owed, HasJob, Subscribed, DueFor, AiredFor

\* One step swallows nothing.
LEMMA KeepStep ==
  ASSUME Orderly, SwallowInv, [Next]_vars, NEW b \in Browser, NEW e \in Episode, Owed(b, e),
         b \notin revoked', subs'[b] = subs[b], e \in DueFor(subs[b])', ~ (shown'[b][subs[b]][e] > 0)
  PROVE  Owed(b, e)'
<1>0. /\ TypeOK /\ TypeOK' /\ b \in Subscribed \ revoked /\ subs[b] \in Profile
      /\ shown[b][subs[b]][e] = 0 /\ e \in DueFor(subs[b]) \ backlog[b]
      /\ "due" \notin Hazards /\ "siblings" \notin Hazards
  BY TypeStep DEF SwallowInv, Orderly, Owed, Subscribed, TypeOK
<1>1. shown'[b][subs[b]][e] = 0
  <2>1. shown'[b][subs[b]][e] \in Nat
    BY <1>0 DEF TypeOK
  <2> QED BY <2>1
<1>2. e \notin notified[subs[b]] \/ HasJob(b, e)
  BY DEF Owed, HasJob
<1>3. CASE Outside \/ UNCHANGED vars \/ \E c \in Browser : Revoke(c) \/ Unsubscribe(c)
  <2>1. UNCHANGED <<notified, jobs, backlog>>
    BY <1>3 DEF Outside, vars, Revoke, Unsubscribe, check, history
  <2> QED BY <1>1, <1>2, <2>1, StillOwed DEF HasJob
<1>4. CASE SeedNotifiedEpisodes
  <2>1. seeds > 0 /\ UNCHANGED <<jobs, backlog>>
    BY <1>4 DEF SeedNotifiedEpisodes, check, history
  <2>2. e \in notified[subs[b]]
    BY <1>0, <2>1 DEF SwallowInv, SeedsHarmless, Unsent
  <2> QED BY <1>1, <1>2, <2>1, <2>2, StillOwed DEF HasJob
<1>5. CASE StartCheck
  <2>1. jobs = {} /\ UNCHANGED <<notified, backlog>>
    BY <1>5 DEF StartCheck, history
  <2>2. e \notin notified[subs[b]]
    BY <1>2, <2>1 DEF HasJob
  <2> QED BY <1>1, <2>1, <2>2, StillOwed
<1>6. ASSUME NEW j \in jobs, Deliver(j) PROVE Owed(b, e)'
  <2>1. jobs' = jobs \ {j} /\ shown' = Told(j) /\ UNCHANGED <<notified, backlog>>
    BY <1>6 DEF Deliver
  <2>2. ~ (j.browser = b /\ j.profile = subs[b] /\ e \in j.episodes)
    BY <1>0, <1>1, <2>1, ToldIs DEF TypeOK
  <2> QED BY <1>1, <1>2, <2>1, <2>2, StillOwed DEF HasJob
<1>7. ASSUME NEW j \in jobs, SendFails(j) PROVE Owed(b, e)'
  <2>1. jobs' = jobs \ {j} /\ j.episodes \intersect notified[j.profile] = {}
        /\ UNCHANGED <<notified, backlog>>
    BY <1>0, <1>7 DEF SendFails, NoSibling, NoneTold
  <2> QED BY <1>1, <1>2, <2>1, StillOwed DEF HasJob
<1>8. ASSUME NEW j \in jobs, SubscriptionGone(j) PROVE Owed(b, e)'
  <2>1. jobs' = jobs \ {j} /\ j.browser # b /\ UNCHANGED <<notified, backlog>>
    BY <1>0, <1>8 DEF SubscriptionGone, history
  <2> QED BY <1>1, <1>2, <2>1, StillOwed DEF HasJob
<1>9. ASSUME NEW p \in Profile, NEW x \in Episode, MarkEpisodeNotified(p, x) PROVE Owed(b, e)'
  <2>1. /\ <<p, x>> \in marking /\ notified' = [notified EXCEPT ![p] = @ \union {x}]
        /\ UNCHANGED <<jobs, backlog>>
    BY <1>9 DEF MarkEpisodeNotified, history
  <2>2. CASE p = subs[b] /\ x = e
    <3>1. Covered(p, x)
      BY <2>1 DEF SwallowInv, MarkingCovered
    <3>2. HasJob(b, e)
      BY <1>0, <2>2, <3>1 DEF Covered
    <3> QED BY <1>1, <2>1, <3>2, StillOwed DEF HasJob
  <2>3. CASE ~ (p = subs[b] /\ x = e)
    <3>1. e \in notified'[subs[b]] => e \in notified[subs[b]]
      BY <1>0, <2>1, <2>3 DEF TypeOK
    <3> QED BY <1>1, <1>2, <2>1, <3>1, StillOwed DEF HasJob
  <2> QED BY <2>2, <2>3
<1>10. CASE Restart
  <2>1. (\A j \in jobs : j.episodes \intersect notified[j.profile] = {})
        /\ UNCHANGED <<notified, backlog>>
    BY <1>0, <1>10 DEF Restart, NoneTold, history
  <2>2. e \notin notified[subs[b]]
    BY <1>2, <2>1 DEF HasJob
  <2> QED BY <1>1, <2>1, <2>2, StillOwed
<1>11. ASSUME NEW c \in Browser, NEW q \in Profile, Subscribe(c, q) PROVE Owed(b, e)'
  <2>1. /\ subs' = [subs EXCEPT ![c] = q] /\ UNCHANGED <<notified, jobs>>
        /\ backlog' = IF subs[c] = q THEN backlog
                      ELSE [backlog EXCEPT ![c] = {x \in AiredFor(q) : shown[c][q][x] = 0}]
    BY <1>11 DEF Subscribe, check
  <2>2. backlog'[b] = backlog[b]
    BY <1>0, <2>1 DEF TypeOK
  <2> QED BY <1>1, <1>2, <2>1, <2>2, StillOwed DEF HasJob
<1> QED BY <1>3, <1>4, <1>5, <1>6, <1>7, <1>8, <1>9, <1>10, <1>11, Steps

\* A message that fails, a restart, other browsers and other profiles take no notification
\* from a browser, as long as nobody subscribes while some are due, seeds are carried out
\* and siblings are told together.
THEOREM NothingEverSwallowed ==
  ASSUME Orderly
  PROVE  Spec => NothingSwallowed
<1>1. Init => SwallowInv
  BY ConstantsAssumption DEF Init, SwallowInv, TypeOK, Messages, JobsCovered, MarkingCovered,
     SeedsHarmless
<1>2. SwallowInv /\ [Next]_vars =>
        [\A b \in Browser, e \in Episode : Owed(b, e) =>
           \/ Owed(b, e)' \/ shown'[b][subs[b]][e] > 0
           \/ b \in revoked' \/ subs'[b] # subs[b] \/ e \notin DueFor(subs[b])']_vars
  BY KeepStep
<1> QED BY <1>1, <1>2, SwallowStep, PTL DEF Spec, NothingSwallowed

-----------------------------------------------------------------------------
(***************************************************************************)
(* The promise is kept                                                     *)
(***************************************************************************)
\* A step shows nothing, or one message of unshown episodes.
LEMMA ShowsOrTurns ==
  ASSUME Hazards = {}, OnceInv, [Next]_vars
  PROVE  \/ Promise!WorldTurns
         \/ \E b \in Browser, p \in Profile, es \in SUBSET Episode : Promise!Announce(b, p, es)
<1>0. TypeOK /\ TypeOK' /\ JobsFresh
  BY TypeStep DEF OnceInv
<1>1. ASSUME NEW j \in jobs, Deliver(j)
      PROVE  Promise!Announce(j.browser, j.profile, j.episodes)
  <2>1. j.browser \in Browser /\ j.profile \in Profile /\ j.episodes \subseteq Episode
        /\ j \in Messages
    BY <1>0 DEF TypeOK, Messages
  <2>2. \A e \in j.episodes : shown[j.browser][j.profile][e] = 0
    BY <1>0 DEF JobsFresh
  <2>3. shown' = [shown EXCEPT ![j.browser][j.profile] =
                    [e \in Episode |-> IF e \in j.episodes THEN 1 ELSE @[e]]]
    <3>1. shown' = [shown EXCEPT ![j.browser][j.profile] =
                      [e \in Episode |-> IF e \in j.episodes THEN @[e] + 1 ELSE @[e]]]
      BY <1>1 DEF Deliver, Told
    <3>2. [e \in Episode |-> IF e \in j.episodes THEN shown[j.browser][j.profile][e] + 1
                              ELSE shown[j.browser][j.profile][e]]
        = [e \in Episode |-> IF e \in j.episodes THEN 1 ELSE shown[j.browser][j.profile][e]]
      BY <2>2
    <3> QED BY <3>1, <3>2
  <2>4. \A b \in Browser : Wanted(b)' = Wanted(b)
    BY <1>1 DEF Deliver, world, Wanted, Subscribed, DueFor, AiredFor, Aired
  <2> QED BY <2>2, <2>3, <2>4 DEF Promise!Announce
<1>2. ASSUME NEW j \in jobs, Deliver(j)
      PROVE  \E b \in Browser, p \in Profile, es \in SUBSET Episode : Promise!Announce(b, p, es)
  <2>1. j.browser \in Browser /\ j.profile \in Profile /\ j.episodes \in SUBSET Episode
    BY <1>0 DEF TypeOK, Messages
  <2> QED BY <1>1, <1>2, <2>1
<1>3. ASSUME \A j \in jobs : ~ Deliver(j)
      PROVE  shown' = shown
  <2>1. ASSUME NEW j \in jobs, SendFails(j) PROVE shown' = shown
    <3>1. PICK arrived \in {FALSE} \union {"unrecorded" \in Hazards} :
            shown' = IF arrived THEN Told(j) ELSE shown
      BY <2>1 DEF SendFails
    <3>2. ~ ("unrecorded" \in Hazards)
      OBVIOUS
    <3> QED BY <3>1, <3>2
  <2>2. CASE Outside \/ UNCHANGED vars \/ SeedNotifiedEpisodes \/ StartCheck \/ Restart
    BY <2>2 DEF Outside, vars, SeedNotifiedEpisodes, StartCheck, Restart, history
  <2>3. ASSUME NEW j \in jobs, SubscriptionGone(j) PROVE shown' = shown
    BY <2>3 DEF SubscriptionGone, history
  <2>4. ASSUME NEW p \in Profile, NEW e \in Episode, MarkEpisodeNotified(p, e) PROVE shown' = shown
    BY <2>4 DEF MarkEpisodeNotified, history
  <2>5. ASSUME NEW b \in Browser,
               Revoke(b) \/ Unsubscribe(b) \/ \E p \in Profile : Subscribe(b, p)
        PROVE  shown' = shown
    BY <2>5 DEF Revoke, Unsubscribe, Subscribe, history
  <2> QED BY <1>3, <2>1, <2>2, <2>3, <2>4, <2>5, Steps
<1> QED BY <1>2, <1>3 DEF Promise!WorldTurns

\* What a browser is owed outlives a step, and nothing else is owed.
LEMMA OwesAndKeeps ==
  ASSUME Hazards = {}, SwallowInv, [Next]_vars
  PROVE  Promise!KeepsOwing
<1>0. Orderly /\ TypeOK /\ TypeOK'
  BY TypeStep DEF Orderly, SwallowInv
<1>1. ASSUME NEW b \in Browser
      PROVE  OwedPairs(b) \intersect Wanted(b)' \subseteq
               OwedPairs(b)' \union {pe \in Profile \X Episode : shown'[b][pe[1]][pe[2]] > 0}
  <2> SUFFICES ASSUME NEW pe \in OwedPairs(b) \intersect Wanted(b)',
                      ~ (shown'[b][pe[1]][pe[2]] > 0)
               PROVE  pe \in OwedPairs(b)'
    BY DEF OwedPairs, Wanted
  <2>1. /\ pe \in Profile \X Episode /\ pe[2] \in Episode /\ subs[b] = pe[1] /\ Owed(b, pe[2])
        /\ b \notin revoked' /\ subs'[b] = pe[1] /\ pe[2] \in DueFor(pe[1])'
    BY DEF OwedPairs, Wanted
  <2>2. pe[2] \in DueFor(subs[b])'
    BY <2>1 DEF DueFor, AiredFor, Aired
  <2>3. Owed(b, pe[2])'
    BY <1>0, <2>1, <2>2, KeepStep
  <2> QED BY <2>1, <2>3 DEF OwedPairs
<1>2. ASSUME NEW b \in Browser
      PROVE  OwedPairs(b)' \subseteq
               Wanted(b)' \ {pe \in Profile \X Episode : shown'[b][pe[1]][pe[2]] > 0}
  BY DEF OwedPairs, Wanted, Owed
<1> QED BY <1>1, <1>2 DEF Promise!KeepsOwing, Promise!Told

\* Every behaviour of subscriptions, checks, records and seeds is one that Announcements
\* allows, as long as nothing of what the code relies on goes wrong.
THEOREM ImplementsPromise ==
  ASSUME Hazards = {}
  PROVE  Spec => KeepsPromise
<1>1. Init => OnceInv /\ SwallowInv
  BY ConstantsAssumption DEF Init, OnceInv, SwallowInv, TypeOK, Messages, ShownRecorded, JobsFresh,
     OneJobEach, AtMostOnce, JobsCovered, MarkingCovered, SeedsHarmless
<1>2. Init => Promise!Init
  BY DEF Init, Promise!Init, Wanted, OwedPairs, Subscribed
<1>3. OnceInv /\ SwallowInv /\ [Next]_vars => OnceInv' /\ SwallowInv'
  BY OnceStep, SwallowStep DEF Orderly
<1>4. OnceInv /\ SwallowInv /\ [Next]_vars => [Promise!Next]_(Promise!promise)
  BY ShowsOrTurns, OwesAndKeeps DEF Promise!Next
<1> QED BY <1>1, <1>2, <1>3, <1>4, PTL DEF Spec, KeepsPromise, Promise!Spec

-----------------------------------------------------------------------------
(* Tracker scans (TrackerScan) *)

Undisturbed == ScanHazards \subseteq {"down", "crash", "reset"}

-----------------------------------------------------------------------------
\* Bounds of the remainder by the length of a day.
LEMMA Remainder ==
  ASSUME NEW a \in Nat
  PROVE  a % TicksPerDay \in 0 .. TicksPerDay - 1 /\ a % TicksPerDay <= a
  BY ScanAssumption

\* Division by the length of a day, with its remainder.
LEMMA Quotient ==
  ASSUME NEW a \in Nat
  PROVE  a \div TicksPerDay \in Nat /\ a = TicksPerDay * (a \div TicksPerDay) + (a % TicksPerDay)
  BY ScanAssumption

\* A multiple of n past another one is at least n past it: the step of arithmetic the
\* solver does not find by itself.
LEMMA NextMultiple ==
  ASSUME NEW n \in Nat, NEW p \in Int, NEW q \in Int, p >= q + 1
  PROVE  n * p >= n * q + n
<1>1. n * (p - (q + 1)) >= 0
  OBVIOUS
<1> QED BY <1>1

\* The day of a tick begins at most a day before it, and later ticks have later days.
LEMMA DayBounds ==
  ASSUME NEW a \in Nat
  PROVE  Scan!DayOf(a) \in Nat /\ Scan!DayOf(a) <= a /\ a - Scan!DayOf(a) < TicksPerDay
  BY Remainder, ScanAssumption DEF Scan!DayOf

\* A later tick is of the same day or of a later one.
LEMMA DayMonotone ==
  ASSUME NEW a \in Nat, NEW b \in Nat, a <= b
  PROVE  Scan!DayOf(a) <= Scan!DayOf(b)
<1>1. PICK p \in Int, q \in Int : p = a \div TicksPerDay /\ q = b \div TicksPerDay
  BY Quotient
<1>2. /\ a = TicksPerDay * p + (a % TicksPerDay) /\ b = TicksPerDay * q + (b % TicksPerDay)
      /\ a % TicksPerDay >= 0 /\ b % TicksPerDay < TicksPerDay
      /\ a % TicksPerDay \in Int /\ b % TicksPerDay \in Int
  BY <1>1, Quotient, Remainder, ScanAssumption
<1>3. ~ (p >= q + 1)
  <2> SUFFICES ASSUME p >= q + 1 PROVE FALSE
    OBVIOUS
  <2>1. TicksPerDay * p >= TicksPerDay * q + TicksPerDay
    BY NextMultiple, ScanAssumption
  <2> QED BY <2>1, <1>2, ScanAssumption
<1>4. p = q \/ q >= p + 1
  BY <1>3
<1>5. TicksPerDay * p <= TicksPerDay * q
  BY <1>4, NextMultiple, ScanAssumption
<1> QED BY <1>2, <1>5, ScanAssumption DEF Scan!DayOf

\* The overlap of two scans is at least a day, the precision of a listing's dates.
LEMMA OverlapIsADay == Scan!Overlap \in Nat /\ Scan!Overlap >= TicksPerDay
<1>1. TicksPerDay * OverlapDays >= TicksPerDay * 0 + TicksPerDay
  BY NextMultiple, ScanAssumption
<1> QED BY <1>1, ScanAssumption DEF Scan!Overlap

-----------------------------------------------------------------------------
ScanTypes ==
  /\ clock \in Nat
  /\ posted \in [Torrent -> Int]
  /\ \A t \in Torrent : posted[t] = Scan!Never \/ (posted[t] \in Nat /\ posted[t] <= clock)
  /\ listing \in [Category -> Seq(Torrent)]
  /\ status \in [Torrent -> {"unknown", "unmatched", "matched"}]
  /\ lastParsed \in Int /\ lastParsed <= clock
  /\ run \in {"idle", "claimed", "started", "scanning"}
  /\ stop = FALSE /\ processed \in BOOLEAN
  /\ scan \in [cutoff : Int, began : Nat, down : BOOLEAN]
  /\ scan.began <= clock /\ scan.cutoff <= clock - Scan!Overlap
  /\ reading \in [Category -> [page : Nat, jobs : SUBSET Torrent, over : BOOLEAN]]

\* Listings are in the order of posting.
Sorted ==
  \A c \in Category : \A i \in 1 .. Len(listing[c]) :
    /\ posted[listing[c][i]] \in Nat
    /\ \A j \in 1 .. Len(listing[c]) :
         i <= j => posted[listing[c][i]] <= posted[listing[c][j]]

\* The rows before a cutoff have been read.
ReadBefore(cutoff) ==
  \A c \in Category : \A i \in 1 .. Len(listing[c]) :
    Scan!Before(listing[c][i], cutoff) => status[listing[c][i]] # "unknown"

\* In a scan every row that was there when it began has been read, is being enriched, or
\* is on a page still to come.
AllCovered(c, i) ==
  LET t == listing[c][i]
  IN  \/ status[t] # "unknown"
      \/ t \in reading[c].jobs
      \/ ~reading[c].over /\ i <= Scan!Unshown(c, reading[c].page)

ScanInv ==
  run = "scanning" =>
    /\ ReadBefore(scan.cutoff)
    /\ clock - Scan!Overlap <= Scan!DayOf(scan.began)
    /\ scan.down => ~processed
    /\ ~scan.down =>
         \A c \in Category : \A i \in 1 .. Len(listing[c]) :
           posted[listing[c][i]] < scan.began => AllCovered(c, i)

IInv ==
  /\ ScanTypes /\ Sorted /\ ScanInv
  /\ lastParsed # Scan!Never => ReadBefore(Scan!CutoffOf(lastParsed))

-----------------------------------------------------------------------------
\* A row of today is before no cutoff.
LEMMA TodayIsNotBefore ==
  ASSUME NEW now \in Nat, NEW cutoff \in Int, cutoff <= now - Scan!Overlap
  PROVE  ~ (Scan!DayOf(now) < cutoff)
  BY DayBounds, OverlapIsADay, ScanAssumption

\* The cutoff a scan would use lies at least the overlap behind the present.
LEMMA CutoffBound ==
  ASSUME ScanTypes
  PROVE  Scan!CutoffOf(lastParsed) \in Int /\ Scan!CutoffOf(lastParsed) <= clock - Scan!Overlap
  BY OverlapIsADay DEF ScanTypes, Scan!CutoffOf

\* Posting a torrent keeps the invariant: it is dated now, later than every cutoff
\* already covered.
LEMMA PostKeepsInv ==
  ASSUME IInv, NEW c \in Category, NEW t \in Torrent, Scan!Post(c, t)
  PROVE  IInv'
<1> DEFINE s == listing[c]
<1>1. /\ posted' = [posted EXCEPT ![t] = clock]
      /\ listing' = [listing EXCEPT ![c] = Append(s, t)]
      /\ UNCHANGED <<clock, status, lastParsed, run, stop, scan, reading, processed>>
      /\ posted[t] = Scan!Never
  BY DEF Scan!Post, Scan!Posted, Scan!scanState
<1>2. ScanTypes'
  BY <1>1 DEF IInv, ScanTypes
<1>3. \A d \in Category : \A i \in 1 .. Len(listing'[d]) :
        \/ i \in 1 .. Len(listing[d]) /\ listing'[d][i] = listing[d][i] /\ listing[d][i] # t
                                      /\ listing[d][i] \in Torrent
        \/ d = c /\ i = Len(listing[c]) + 1 /\ listing'[d][i] = t
  BY <1>1 DEF IInv, ScanTypes, Sorted, Scan!Never
<1>4. \A d \in Category : Len(listing'[d]) >= Len(listing[d]) /\ Len(listing[d]) \in Nat
  BY <1>1 DEF IInv, ScanTypes
<1>5. \A u \in Torrent : u # t => posted'[u] = posted[u]
  BY <1>1 DEF IInv, ScanTypes
<1>6. posted'[t] = clock /\ clock \in Nat
  BY <1>1 DEF IInv, ScanTypes
<1>6a. \A u \in Torrent : posted[u] \in Nat => posted[u] <= clock
  BY DEF IInv, ScanTypes, Scan!Never
<1>7. Sorted'
  <2> SUFFICES ASSUME NEW d \in Category, NEW i \in 1 .. Len(listing'[d])
               PROVE  /\ posted'[listing'[d][i]] \in Nat
                      /\ \A j \in 1 .. Len(listing'[d]) :
                           i <= j => posted'[listing'[d][i]] <= posted'[listing'[d][j]]
    BY DEF Sorted
  <2>1. posted'[listing'[d][i]] \in Nat /\ posted'[listing'[d][i]] <= clock
    BY <1>3, <1>5, <1>6, <1>6a DEF IInv, Sorted
  <2>2. ASSUME NEW j \in 1 .. Len(listing'[d]), i <= j
        PROVE  posted'[listing'[d][i]] <= posted'[listing'[d][j]]
    <3>1. CASE listing'[d][j] = t
      BY <3>1, <2>1, <1>6
    <3>2. CASE listing'[d][j] # t
      <4>1. j \in 1 .. Len(listing[d]) /\ listing'[d][j] = listing[d][j] /\ listing[d][j] \in Torrent
        BY <1>3, <3>2
      <4>2. Len(listing[d]) \in Nat /\ i \in Int /\ i <= Len(listing[d])
        BY <4>1, <2>2, <1>4
      <4>3. i \in 1 .. Len(listing[d]) /\ listing'[d][i] = listing[d][i] /\ listing[d][i] # t
            /\ listing[d][i] \in Torrent
        BY <4>2, <1>3
      <4>4. posted[listing[d][i]] <= posted[listing[d][j]]
        BY <4>1, <4>3, <2>2 DEF IInv, Sorted
      <4> QED BY <4>1, <4>3, <4>4, <3>2, <1>5
    <3> QED BY <3>1, <3>2
  <2> QED BY <2>1, <2>2
<1>8. ASSUME NEW cutoff \in Int, cutoff <= clock - Scan!Overlap, ReadBefore(cutoff)
      PROVE  ReadBefore(cutoff)'
  <2> SUFFICES ASSUME NEW d \in Category, NEW i \in 1 .. Len(listing'[d]),
                      Scan!DayOf(posted'[listing'[d][i]]) < cutoff
               PROVE  status'[listing'[d][i]] # "unknown"
    BY DEF ReadBefore, Scan!Before, Scan!Date, Scan!DayOf
  <2>1. CASE listing'[d][i] = t
    <3>1. ~ (Scan!DayOf(clock) < cutoff)
      BY <1>6, <1>8, TodayIsNotBefore
    <3> QED BY <2>1, <3>1, <1>6
  <2>2. CASE listing'[d][i] # t
    <3>1. i \in 1 .. Len(listing[d]) /\ listing'[d][i] = listing[d][i] /\ listing[d][i] \in Torrent
      BY <1>3, <2>2
    <3> QED BY <3>1, <2>2, <1>1, <1>5, <1>8 DEF ReadBefore, Scan!Before, Scan!Date, Scan!DayOf
  <2> QED BY <2>1, <2>2
<1>9. ScanInv'
  <2> SUFFICES ASSUME run' = "scanning" PROVE ScanInv'
    BY DEF ScanInv
  <2>1. run = "scanning"
    BY <1>1
  <2>2. ReadBefore(scan.cutoff)'
    <3>1. PICK k \in Int : k = scan.cutoff
      BY DEF IInv, ScanTypes
    <3>2. k <= clock - Scan!Overlap /\ ReadBefore(k)
      BY <3>1, <2>1 DEF IInv, ScanTypes, ScanInv
    <3>3. ReadBefore(k)'
      BY <3>2, <1>8
    <3>4. scan'.cutoff = k
      BY <3>1, <1>1
    <3> QED BY <3>3, <3>4 DEF ReadBefore, Scan!Before
  <2>3. ASSUME ~scan'.down, NEW d \in Category, NEW i \in 1 .. Len(listing'[d]),
               posted'[listing'[d][i]] < scan'.began
        PROVE  AllCovered(d, i)'
    <3>1. listing'[d][i] # t
      BY <2>3, <1>1, <1>6 DEF IInv, ScanTypes
    <3>2. i \in 1 .. Len(listing[d]) /\ listing'[d][i] = listing[d][i] /\ listing[d][i] \in Torrent
      BY <1>3, <3>1
    <3>3. AllCovered(d, i)
      BY <1>1, <1>5, <2>1, <2>3, <3>1, <3>2 DEF IInv, ScanInv
    <3>4. Scan!Unshown(d, reading[d].page)' >= Scan!Unshown(d, reading[d].page)
          /\ Scan!Unshown(d, reading[d].page) \in Int /\ Scan!Unshown(d, reading[d].page)' \in Int
      BY <1>1, <1>4, ScanAssumption DEF Scan!Unshown, IInv, ScanTypes
    <3> QED BY <1>1, <3>2, <3>3, <3>4 DEF AllCovered
  <2> QED BY <1>1, <2>1, <2>2, <2>3 DEF IInv, ScanInv, Scan!DayOf
<1>10. lastParsed' # Scan!Never => ReadBefore(Scan!CutoffOf(lastParsed))'
  <2> SUFFICES ASSUME lastParsed' # Scan!Never PROVE ReadBefore(Scan!CutoffOf(lastParsed))'
    OBVIOUS
  <2>1. PICK k \in Int : k = Scan!CutoffOf(lastParsed)
    BY CutoffBound DEF IInv
  <2>2. k <= clock - Scan!Overlap /\ ReadBefore(k)
    BY <2>1, <1>1, CutoffBound DEF IInv
  <2>3. ReadBefore(k)'
    BY <2>2, <1>8
  <2>4. Scan!CutoffOf(lastParsed)' = k
    BY <2>1, <1>1 DEF Scan!CutoffOf
  <2> QED BY <2>3, <2>4 DEF ReadBefore, Scan!Before
<1> QED BY <1>2, <1>7, <1>9, <1>10 DEF IInv

-----------------------------------------------------------------------------
\* What has been read stays read in a step that changes neither listings nor dates.
LEMMA ReadGrows ==
  ASSUME UNCHANGED <<posted, listing>>, ScanTypes, NEW cutoff \in Int, ReadBefore(cutoff),
         \A t \in Torrent : status[t] # "unknown" => status'[t] # "unknown"
  PROVE  ReadBefore(cutoff)'
<1> SUFFICES ASSUME NEW c \in Category, NEW i \in 1 .. Len(listing'[c]),
                    Scan!DayOf(posted'[listing'[c][i]]) < cutoff
             PROVE  status'[listing'[c][i]] # "unknown"
  BY DEF ReadBefore, Scan!Before, Scan!Date, Scan!DayOf
<1>1. i \in 1 .. Len(listing[c]) /\ listing'[c][i] = listing[c][i] /\ listing[c][i] \in Torrent
  BY DEF ScanTypes
<1> QED BY <1>1 DEF ReadBefore, Scan!Before, Scan!Date, Scan!DayOf

\* What was read up to a cutoff stays read up to it, whichever variable holds the cutoff.
LEMMA ReadGrowsTo ==
  ASSUME UNCHANGED <<posted, listing>>, ScanTypes, NEW k \in Int, ReadBefore(k),
         \A t \in Torrent : status[t] # "unknown" => status'[t] # "unknown"
  PROVE  /\ scan'.cutoff = k => ReadBefore(scan.cutoff)'
         /\ Scan!CutoffOf(lastParsed)' = k => ReadBefore(Scan!CutoffOf(lastParsed))'
<1>1. ReadBefore(k)'
  BY ReadGrows
<1> QED BY <1>1 DEF ReadBefore, Scan!Before

\* A cutoff that no date lies before.
LEMMA NothingBeforeTheFirstDay ==
  ASSUME ScanTypes, Sorted, NEW cutoff \in Int, cutoff <= 0
  PROVE  ReadBefore(cutoff)
<1> SUFFICES ASSUME NEW c \in Category, NEW i \in 1 .. Len(listing[c])
             PROVE  ~ (Scan!DayOf(posted[listing[c][i]]) < cutoff)
  BY DEF ReadBefore, Scan!Before, Scan!Date
<1>1. posted[listing[c][i]] \in Nat
  BY DEF Sorted
<1>2. Scan!DayOf(posted[listing[c][i]]) \in Nat
  BY <1>1, DayBounds
<1> QED BY <1>2

\* The steps that leave the cutoffs as they are.
LEMMA CutoffsKept ==
  ASSUME IInv, UNCHANGED <<posted, listing, lastParsed>>,
         \A t \in Torrent : status[t] # "unknown" => status'[t] # "unknown"
  PROVE  /\ lastParsed' # Scan!Never => ReadBefore(Scan!CutoffOf(lastParsed))'
         /\ run = "scanning" /\ scan' = scan => ReadBefore(scan.cutoff)'
<1>1. lastParsed' # Scan!Never => ReadBefore(Scan!CutoffOf(lastParsed))'
  <2> SUFFICES ASSUME lastParsed' # Scan!Never PROVE ReadBefore(Scan!CutoffOf(lastParsed))'
    OBVIOUS
  <2>1. PICK k \in Int : k = Scan!CutoffOf(lastParsed)
    BY CutoffBound DEF IInv
  <2>2. ReadBefore(k) /\ Scan!CutoffOf(lastParsed)' = k
    BY <2>1 DEF IInv, Scan!CutoffOf
  <2> QED BY <2>2, ReadGrowsTo DEF IInv
<1>2. ASSUME run = "scanning", scan' = scan PROVE ReadBefore(scan.cutoff)'
  <2>1. PICK k \in Int : k = scan.cutoff
    BY DEF IInv, ScanTypes
  <2>2. ReadBefore(k) /\ scan'.cutoff = k
    BY <2>1, <1>2 DEF IInv, ScanInv
  <2> QED BY <2>2, ReadGrowsTo DEF IInv
<1> QED BY <1>1, <1>2

\* A step that posts nothing keeps the listings sorted by age.
LEMMA SortedKept ==
  ASSUME Sorted, UNCHANGED <<posted, listing>>
  PROVE  Sorted'
  BY DEF Sorted

\* The passing of time keeps the invariant: a scan in progress ends within the overlap.
LEMMA TickKeepsInv ==
  ASSUME IInv, Scan!Tick, Undisturbed
  PROVE  IInv'
<1>1. clock' = clock + 1 /\ UNCHANGED <<posted, listing, status, lastParsed, run, stop, scan, reading, processed>>
  BY DEF Scan!Tick, Scan!scanState
<1>2. ScanTypes'
  BY <1>1, OverlapIsADay DEF IInv, ScanTypes
<1>3. Sorted'
  BY <1>1, SortedKept DEF IInv
<1>4. ScanInv'
  <2> SUFFICES ASSUME run' = "scanning" PROVE ScanInv'
    BY DEF ScanInv
  <2>1. clock' - Scan!Overlap <= Scan!DayOf(scan.began)'
    <3>1. "slow" \notin ScanHazards /\ run = "scanning"
      BY <1>1 DEF Undisturbed
    <3>2. clock + 1 - Scan!Overlap <= Scan!DayOf(scan.began)
      BY <3>1 DEF Scan!Tick
    <3>3. Scan!DayOf(scan.began)' = Scan!DayOf(scan.began)
      BY <1>1 DEF Scan!DayOf
    <3> QED BY <3>2, <3>3, <1>1, OverlapIsADay DEF IInv, ScanTypes
  <2>2. ReadBefore(scan.cutoff)'
    BY <1>1, CutoffsKept
  <2>3. ~scan'.down => \A c \in Category : \A i \in 1 .. Len(listing'[c]) :
           posted'[listing'[c][i]] < scan'.began => AllCovered(c, i)'
    BY <1>1 DEF IInv, ScanInv, AllCovered, Scan!Unshown
  <2> QED BY <1>1, <2>1, <2>2, <2>3 DEF IInv, ScanInv
<1> QED BY <1>1, <1>2, <1>3, <1>4, CutoffsKept DEF IInv

\* A scan starts with the cutoff the previous one earned, having read nothing.
LEMMA StartScanKeepsInv ==
  ASSUME IInv, Scan!StartScan
  PROVE  IInv'
<1>1. /\ run' = "scanning" /\ run = "started"
      /\ scan'.cutoff = Scan!CutoffOf(lastParsed) /\ scan'.began = clock /\ scan'.down \in BOOLEAN
      /\ scan' \in [cutoff : {Scan!CutoffOf(lastParsed)}, began : {clock}, down : BOOLEAN]
      /\ reading' = [c \in Category |-> [page |-> 0, jobs |-> {}, over |-> FALSE]]
      /\ processed' = FALSE
      /\ UNCHANGED <<clock, posted, listing, status, lastParsed, stop>>
  BY DEF Scan!StartScan, Scan!table
<1>2. ScanTypes'
  <2>1. scan' \in [cutoff : Int, began : Nat, down : BOOLEAN]
    BY <1>1, CutoffBound DEF IInv, ScanTypes
  <2>2. scan'.began <= clock' /\ scan'.cutoff <= clock' - Scan!Overlap
    <3>1. clock \in Nat /\ Scan!CutoffOf(lastParsed) <= clock - Scan!Overlap
      BY CutoffBound DEF IInv, ScanTypes
    <3> QED BY <3>1, <1>1
  <2>3. reading' \in [Category -> [page : Nat, jobs : SUBSET Torrent, over : BOOLEAN]]
    BY <1>1
  <2> QED BY <1>1, <2>1, <2>2, <2>3 DEF IInv, ScanTypes
<1>3. Sorted'
  BY <1>1, SortedKept DEF IInv
<1>4. ReadBefore(scan.cutoff)'
  <2>1. PICK k \in Int : k = Scan!CutoffOf(lastParsed)
    BY CutoffBound DEF IInv
  <2>2. ReadBefore(k)
    <3>1. CASE lastParsed = Scan!Never
      BY <3>1, <2>1, NothingBeforeTheFirstDay, OverlapIsADay DEF IInv, Scan!CutoffOf
    <3>2. CASE lastParsed # Scan!Never
      BY <3>2, <2>1 DEF IInv
    <3> QED BY <3>1, <3>2
  <2> QED BY <1>1, <2>1, <2>2, ReadGrowsTo DEF IInv
<1>5. ASSUME NEW c \in Category, NEW i \in 1 .. Len(listing'[c]) PROVE AllCovered(c, i)'
  <2>1. Len(listing'[c]) \in Nat /\ reading'[c].page = 0 /\ reading'[c].over = FALSE
    BY <1>1 DEF IInv, ScanTypes
  <2>2. i <= Scan!Unshown(c, reading[c].page)'
    BY <2>1, ScanAssumption DEF Scan!Unshown
  <2> QED BY <2>1, <2>2 DEF AllCovered
<1>6. clock' - Scan!Overlap <= Scan!DayOf(scan.began)'
  <2>1. clock - Scan!Overlap <= Scan!DayOf(clock)
    BY DayBounds, OverlapIsADay, ScanAssumption DEF IInv, ScanTypes
  <2> QED BY <1>1, <2>1 DEF Scan!DayOf
<1>7. ScanInv'
  BY <1>1, <1>4, <1>5, <1>6 DEF ScanInv
<1> QED BY <1>1, <1>2, <1>3, <1>7, CutoffsKept DEF IInv

\* Where the page after page p begins.
LEMMA NextPage ==
  ASSUME NEW p \in Nat
  PROVE  (p + 1) * PageSize = p * PageSize + PageSize
  BY ScanAssumption

\* A row of today's listing that FetchPage finds on no page or leaves on it unread.
LEMMA FetchPageCovers ==
  ASSUME IInv, NEW c \in Category, Scan!FetchPage(c),
         NEW i \in 1 .. Len(listing[c]), posted[listing[c][i]] < scan.began
  PROVE  AllCovered(c, i)'
<1> DEFINE s == listing[c]
           t == s[i]
           page == reading[c].page
           rows == Scan!Page(c, page)
           new == {u \in rows : ~Scan!Before(u, scan.cutoff)}
<1>1. /\ run = "scanning" /\ ~scan.down /\ reading[c].jobs = {}
      /\ UNCHANGED <<clock, posted, listing, status, lastParsed, run, stop, scan>>
      /\ reading' = [reading EXCEPT ![c] =
              [page |-> page + 1, jobs |-> {u \in new : status[u] # "matched"},
               over |-> new # rows \/ Scan!Unshown(c, page) < PageSize]]
  BY DEF Scan!FetchPage, Scan!Reads, Scan!table
<1>2. /\ reading'[c].page = page + 1 /\ page \in Nat
      /\ reading'[c].jobs = {u \in new : status[u] # "matched"}
      /\ reading'[c].over <=> (new # rows \/ Scan!Unshown(c, page) < PageSize)
  BY <1>1 DEF IInv, ScanTypes
<1>3. Len(s) \in Nat /\ t \in Torrent /\ i \in Nat /\ i >= 1
  BY DEF IInv, ScanTypes
<1>4. status[t] # "unknown" \/ i <= Scan!Unshown(c, page)
  BY <1>1 DEF IInv, ScanInv, AllCovered
<1>5. page * PageSize \in Nat /\ PageSize \in Nat /\ PageSize >= 1
  BY <1>2, ScanAssumption
<1>5a. PICK n \in Int : n = Scan!Unshown(c, page)
  BY <1>3, <1>5 DEF Scan!Unshown
<1>6. Scan!Unshown(c, reading[c].page)' = n - PageSize
  <2>1. (page + 1) * PageSize = page * PageSize + PageSize
    BY <1>2, NextPage
  <2> QED BY <1>1, <1>2, <1>3, <1>5, <1>5a, <2>1 DEF Scan!Unshown
<1>7. CASE status[t] # "unknown"
  BY <1>1, <1>7 DEF AllCovered
<1>8. CASE i <= n /\ status[t] = "unknown"
  <2>1. \A u \in rows : u \in new \/ Scan!Before(u, scan.cutoff)
    OBVIOUS
  <2>2. ~Scan!Before(t, scan.cutoff)
    BY <1>1, <1>8 DEF IInv, ScanInv, ReadBefore
  <2>3. CASE n - PageSize < i
    <3>1. t \in rows
      BY <1>3, <1>5, <1>5a, <1>8, <2>3 DEF Scan!Page
    <3> QED BY <1>1, <1>2, <1>8, <2>2, <3>1 DEF AllCovered
  <2>4. CASE i <= n - PageSize
    <3>1. ASSUME NEW u \in rows PROVE ~Scan!Before(u, scan.cutoff)
      <4>1. PICK j \in 1 .. Len(s) : u = s[j] /\ n - PageSize < j
        BY <1>5a DEF Scan!Page
      <4>2. i <= j /\ posted[t] \in Nat /\ posted[u] \in Nat /\ posted[t] <= posted[u]
        BY <4>1, <2>4, <1>3, <1>5 DEF IInv, Sorted
      <4>3. Scan!DayOf(posted[t]) <= Scan!DayOf(posted[u]) /\ Scan!DayOf(posted[t]) \in Nat /\ Scan!DayOf(posted[u]) \in Nat
        BY <4>2, DayMonotone, DayBounds
      <4> QED BY <4>3, <2>2 DEF Scan!Before, Scan!Date, IInv, ScanTypes
    <3>2. new = rows
      BY <3>1
    <3>3. ~ (n < PageSize)
      BY <2>4, <1>3, <1>5
    <3>4. ~reading'[c].over
      BY <1>2, <3>2, <3>3, <1>5a
    <3>5. i <= Scan!Unshown(c, reading[c].page)'
      BY <2>4, <1>6
    <3> QED BY <3>4, <3>5 DEF AllCovered
  <2> QED BY <2>3, <2>4, <1>3, <1>5
<1> QED BY <1>4, <1>5a, <1>7, <1>8

\* Reading one page keeps the invariant, whether it goes on to the next page or stops.
LEMMA FetchPageKeepsInv ==
  ASSUME IInv, NEW c \in Category, Scan!FetchPage(c)
  PROVE  IInv'
<1>1. /\ run = "scanning" /\ ~scan.down
      /\ UNCHANGED <<clock, posted, listing, status, lastParsed, run, stop, scan>>
      /\ processed' \in BOOLEAN
  BY DEF Scan!FetchPage, Scan!Reads, Scan!table, IInv, ScanTypes
<1>2. reading' \in [Category -> [page : Nat, jobs : SUBSET Torrent, over : BOOLEAN]]
      /\ \A d \in Category : d # c => reading'[d] = reading[d]
  <2>1. Scan!Page(c, reading[c].page) \subseteq Torrent
    BY DEF Scan!Page, IInv, ScanTypes
  <2> QED BY <2>1 DEF Scan!FetchPage, IInv, ScanTypes
<1>3. ScanTypes'
  BY <1>1, <1>2 DEF IInv, ScanTypes
<1>4. Sorted'
  BY <1>1, SortedKept DEF IInv
<1>5. ASSUME NEW d \in Category, NEW i \in 1 .. Len(listing'[d]),
             posted'[listing'[d][i]] < scan'.began
      PROVE  AllCovered(d, i)'
  <2>1. i \in 1 .. Len(listing[d]) /\ posted[listing[d][i]] < scan.began
    BY <1>1, <1>5
  <2>2. CASE d = c
    BY <2>1, <2>2, FetchPageCovers
  <2>3. CASE d # c
    BY <2>1, <2>3, <1>1, <1>2 DEF IInv, ScanInv, AllCovered, Scan!Unshown
  <2> QED BY <2>2, <2>3
<1>6. ReadBefore(scan.cutoff)'
  BY <1>1, CutoffsKept
<1>7. clock' - Scan!Overlap <= Scan!DayOf(scan.began)'
  BY <1>1 DEF IInv, ScanInv, Scan!DayOf
<1>8. ScanInv'
  BY <1>1, <1>5, <1>6, <1>7 DEF ScanInv
<1> QED BY <1>1, <1>3, <1>4, <1>8, CutoffsKept DEF IInv

\* A category is given up before its end only when the tracker is down, and a scan
\* that found it down commits nothing.
LEMMA EndCategoryKeepsInv ==
  ASSUME IInv, NEW c \in Category, Scan!EndCategory(c), Undisturbed
  PROVE  IInv'
<1>1. /\ run = "scanning" /\ scan.down
      /\ UNCHANGED <<clock, posted, listing, status, lastParsed, run, stop, scan, processed>>
  BY DEF Scan!EndCategory, Scan!Reads, Scan!table, IInv, ScanTypes, Undisturbed
<1>2. ScanTypes'
  BY <1>1 DEF Scan!EndCategory, IInv, ScanTypes
<1>3. Sorted'
  BY <1>1, SortedKept DEF IInv
<1>4. ReadBefore(scan.cutoff)'
  BY <1>1, CutoffsKept
<1>5. clock' - Scan!Overlap <= Scan!DayOf(scan.began)'
  BY <1>1 DEF IInv, ScanInv, Scan!DayOf
<1>6. ScanInv'
  BY <1>1, <1>4, <1>5 DEF IInv, ScanInv
<1> QED BY <1>1, <1>2, <1>3, <1>6, CutoffsKept DEF IInv

\* Enriching a row only turns it from read to stored.
LEMMA EnrichKeepsInv ==
  ASSUME IInv, NEW c \in Category, NEW t \in Torrent, Scan!Enrich(c, t)
  PROVE  IInv'
<1>1. /\ run = "scanning" /\ t \in reading[c].jobs
      /\ UNCHANGED <<clock, posted, listing, lastParsed, run, stop, scan, processed>>
      /\ reading' = [reading EXCEPT ![c].jobs = reading[c].jobs \ {t}]
  BY DEF Scan!Enrich
<1>2. /\ status' \in [Torrent -> {"unknown", "unmatched", "matched"}]
      /\ status'[t] # "unknown"
      /\ \A u \in Torrent : status[u] # "unknown" => status'[u] # "unknown"
  BY DEF Scan!Enrich, IInv, ScanTypes
<1>3. \A d \in Category :
        /\ reading'[d] \in [page : Nat, jobs : SUBSET Torrent, over : BOOLEAN]
        /\ reading'[d].page = reading[d].page /\ reading'[d].over = reading[d].over
        /\ \A u \in Torrent : u \in reading[d].jobs => u \in reading'[d].jobs \/ u = t
  BY <1>1 DEF IInv, ScanTypes
<1>4. ScanTypes'
  <2>1. reading' \in [Category -> [page : Nat, jobs : SUBSET Torrent, over : BOOLEAN]]
    BY <1>1, <1>3 DEF IInv, ScanTypes
  <2> QED BY <1>1, <1>2, <2>1 DEF IInv, ScanTypes
<1>5. Sorted'
  BY <1>1, SortedKept DEF IInv
<1>6. ASSUME NEW d \in Category, NEW i \in 1 .. Len(listing'[d]),
             ~scan'.down, posted'[listing'[d][i]] < scan'.began
      PROVE  AllCovered(d, i)'
  <2>1. /\ i \in 1 .. Len(listing[d]) /\ listing'[d][i] = listing[d][i]
        /\ listing[d][i] \in Torrent /\ AllCovered(d, i)
    BY <1>1, <1>6 DEF IInv, ScanTypes, ScanInv
  <2>2. Scan!Unshown(d, reading[d].page)' = Scan!Unshown(d, reading[d].page)
    BY <1>1, <1>3 DEF Scan!Unshown
  <2> QED BY <2>1, <2>2, <1>2, <1>3 DEF AllCovered
<1>7. ReadBefore(scan.cutoff)'
  BY <1>1, <1>2, CutoffsKept
<1>8. clock' - Scan!Overlap <= Scan!DayOf(scan.began)' /\ (scan'.down => ~processed')
  BY <1>1 DEF IInv, ScanInv, Scan!DayOf
<1>9. ScanInv'
  BY <1>1, <1>6, <1>7, <1>8 DEF ScanInv
<1> QED BY <1>1, <1>2, <1>4, <1>5, <1>9, CutoffsKept DEF IInv

\* Recording the scan's own start as the next cutoff keeps the invariant: every row
\* posted before it has been read.
LEMMA CommitKeepsInv ==
  ASSUME IInv, Scan!commitScan
  PROVE  IInv'
<1>1. /\ run = "scanning" /\ run' = "idle" /\ Scan!AllRead
      /\ lastParsed' = IF processed THEN clock ELSE lastParsed
      /\ UNCHANGED <<clock, posted, listing, status, stop, scan, reading, processed>>
  BY DEF Scan!commitScan, Scan!table
<1>2. ScanTypes'
  BY <1>1 DEF IInv, ScanTypes
<1>3. Sorted'
  BY <1>1, SortedKept DEF IInv
<1>4. ScanInv'
  BY <1>1 DEF ScanInv
<1>5. lastParsed' # Scan!Never => ReadBefore(Scan!CutoffOf(lastParsed))'
  <2>1. CASE ~processed
    BY <2>1, <1>1, CutoffsKept
  <2>2. CASE processed
    <3>1. PICK k \in Int : k = clock - Scan!Overlap
      BY OverlapIsADay DEF IInv, ScanTypes
    <3>2. ReadBefore(k)
      <4> SUFFICES ASSUME NEW c \in Category, NEW i \in 1 .. Len(listing[c]),
                          Scan!DayOf(posted[listing[c][i]]) < k
                   PROVE  status[listing[c][i]] # "unknown"
        BY DEF ReadBefore, Scan!Before, Scan!Date
      <4> DEFINE p == posted[listing[c][i]]
      <4>1. p \in Nat /\ scan.began \in Nat /\ Scan!DayOf(p) \in Nat /\ Scan!DayOf(scan.began) \in Nat
        BY DayBounds DEF IInv, ScanTypes, Sorted
      <4>2. Scan!DayOf(p) < Scan!DayOf(scan.began)
        BY <1>1, <3>1, <4>1 DEF IInv, ScanInv
      <4>3. p < scan.began
        BY <4>1, <4>2, DayMonotone
      <4>4. AllCovered(c, i)
        BY <1>1, <2>2, <4>3 DEF IInv, ScanInv
      <4> QED BY <4>4, <1>1 DEF AllCovered, Scan!AllRead
    <3>3. Scan!CutoffOf(lastParsed)' = k
      BY <1>1, <2>2, <3>1 DEF Scan!CutoffOf, IInv, ScanTypes, Scan!Never
    <3> QED BY <1>1, <3>2, <3>3, ReadGrowsTo DEF IInv
  <2> QED BY <2>1, <2>2 DEF IInv, ScanTypes
<1> QED BY <1>2, <1>3, <1>4, <1>5 DEF IInv

\* Steps that touch only the run slot, and those that end a scan or forget its cutoff.
LEMMA RunSlotKeepsInv ==
  ASSUME IInv, Scan!ClaimRun \/ Scan!ResetStop \/ Scan!SkipTracker \/ Scan!ResetLastParsed \/ Scan!Crash
  PROVE  IInv'
<1>1. /\ UNCHANGED <<clock, posted, listing, status, scan>>
      /\ stop' = FALSE /\ processed' \in BOOLEAN
      /\ lastParsed' \in {lastParsed, Scan!Never}
      /\ run' \in {"idle", "claimed", "started"} \/ UNCHANGED <<run, reading, processed>>
      /\ run' \in {"idle", "claimed", "started", "scanning"}
  BY DEF Scan!ClaimRun, Scan!ResetStop, Scan!SkipTracker, Scan!ResetLastParsed, Scan!Crash, Scan!table,
     IInv, ScanTypes
<1>2. reading' \in [Category -> [page : Nat, jobs : SUBSET Torrent, over : BOOLEAN]]
  <2>1. CASE Scan!Crash
    BY <2>1 DEF Scan!Crash, Scan!Idle
  <2>2. CASE ~Scan!Crash
    BY <2>2 DEF Scan!ClaimRun, Scan!ResetStop, Scan!SkipTracker, Scan!ResetLastParsed, IInv, ScanTypes
  <2> QED BY <2>1, <2>2
<1>3. ScanTypes'
  BY <1>1, <1>2 DEF IInv, ScanTypes, Scan!Never
<1>4. Sorted'
  BY <1>1, SortedKept DEF IInv
<1>5. ScanInv'
  <2> SUFFICES ASSUME run' = "scanning" PROVE ScanInv'
    BY DEF ScanInv
  <2>1. run = "scanning" /\ UNCHANGED <<run, reading, processed>>
    BY <1>1
  <2>2. ReadBefore(scan.cutoff)'
    <3>1. PICK k \in Int : k = scan.cutoff
      BY DEF IInv, ScanTypes
    <3> QED BY <3>1, <2>1, <1>1, ReadGrowsTo DEF IInv, ScanInv
  <2>3. clock' - Scan!Overlap <= Scan!DayOf(scan.began)' /\ (scan'.down => ~processed')
    BY <1>1, <2>1 DEF IInv, ScanInv, Scan!DayOf
  <2>4. ~scan'.down => \A c \in Category : \A i \in 1 .. Len(listing'[c]) :
           posted'[listing'[c][i]] < scan'.began => AllCovered(c, i)'
    BY <1>1, <2>1 DEF IInv, ScanInv, AllCovered, Scan!Unshown
  <2> QED BY <2>2, <2>3, <2>4 DEF ScanInv
<1>6. lastParsed' # Scan!Never => ReadBefore(Scan!CutoffOf(lastParsed))'
  BY <1>1, CutoffsKept
<1> QED BY <1>3, <1>4, <1>5, <1>6 DEF IInv

-----------------------------------------------------------------------------
\* The invariant of an undisturbed scanner: what lies before the next cutoff has been
\* read, and a running scan still has every older row ahead of it (TrackerScan's actions).
THEOREM ScanInvariant ==
  ASSUME Undisturbed
  PROVE  Scan!Spec => []IInv
<1>1. Scan!Init => IInv
  <2> SUFFICES ASSUME Scan!Init PROVE IInv
    OBVIOUS
  <2>1. ScanTypes
    <3>1. reading \in [Category -> [page : Nat, jobs : SUBSET Torrent, over : BOOLEAN]]
      BY DEF Scan!Init, Scan!Idle
    <3>2. scan \in [cutoff : Int, began : Nat, down : BOOLEAN]
          /\ scan.began <= clock /\ scan.cutoff <= clock - Scan!Overlap
      BY OverlapIsADay DEF Scan!Init
    <3>3. listing \in [Category -> Seq(Torrent)]
      BY DEF Scan!Init
    <3>4. clock \in Nat /\ lastParsed \in Int /\ lastParsed <= clock
      BY DEF Scan!Init, Scan!Never
    <3>5. posted \in [Torrent -> Int] /\ \A t \in Torrent : posted[t] = Scan!Never
      BY DEF Scan!Init, Scan!Never
    <3>6. status \in [Torrent -> {"unknown", "unmatched", "matched"}]
      BY DEF Scan!Init
    <3>7. run \in {"idle", "claimed", "started", "scanning"} /\ stop = FALSE /\ processed \in BOOLEAN
      BY DEF Scan!Init
    <3> QED BY <3>1, <3>2, <3>3, <3>4, <3>5, <3>6, <3>7 DEF ScanTypes
  <2>2. Sorted /\ ScanInv /\ lastParsed = Scan!Never
    BY DEF Scan!Init, Sorted, ScanInv
  <2> QED BY <2>1, <2>2 DEF IInv
<1>2. IInv /\ [Scan!Next]_(Scan!vars) => IInv'
  <2> SUFFICES ASSUME IInv, [Scan!Next]_(Scan!vars) PROVE IInv'
    OBVIOUS
  <2>1. CASE Scan!ClaimRun \/ Scan!ResetStop \/ Scan!SkipTracker \/ Scan!ResetLastParsed \/ Scan!Crash
    BY <2>1, RunSlotKeepsInv
  <2>2. CASE Scan!StartScan
    BY <2>2, StartScanKeepsInv
  <2>3. CASE Scan!commitScan
    BY <2>3, CommitKeepsInv
  <2>4. CASE \E c \in Category : Scan!FetchPage(c) \/ Scan!EndCategory(c) \/ \E t \in Torrent : Scan!Enrich(c, t)
    BY <2>4, FetchPageKeepsInv, EndCategoryKeepsInv, EnrichKeepsInv
  <2>5. CASE Scan!Tick
    BY <2>5, TickKeepsInv
  <2>6. CASE Scan!RequestStop
    BY <2>6 DEF Scan!RequestStop, Undisturbed
  <2>7. CASE \E c \in Category, t \in Torrent : Scan!Post(c, t) \/ Scan!Withdraw(c, t)
    <3>1. \A c \in Category, t \in Torrent : ~Scan!Withdraw(c, t)
      BY DEF Scan!Withdraw, Undisturbed
    <3> QED BY <2>7, <3>1, PostKeepsInv
  <2>8. CASE UNCHANGED Scan!vars
    BY <2>8 DEF Scan!vars, IInv, ScanTypes, Sorted, ScanInv, AllCovered, Scan!Unshown, ReadBefore,
       Scan!Before,
         Scan!Date, Scan!DayOf, Scan!CutoffOf
  <2> QED BY <2>1, <2>2, <2>3, <2>4, <2>5, <2>6, <2>7, <2>8 DEF Scan!Next, Scan!Scanning
<1> QED BY <1>1, <1>2, PTL DEF Scan!Spec

\* No row is left behind (parser/common.go scanCutoff, runPageLoop and commitScan): what
\* the next scan's cutoff excludes has been read, whatever the sizes and the overlap.
THEOREM NothingEverMissed ==
  ASSUME Undisturbed
  PROVE  Scan!Spec => []NothingMissed
<1>1. IInv => NothingMissed
  <2> SUFFICES ASSUME IInv, lastParsed # Scan!Never, NEW c \in Category, NEW t \in Scan!ToSet(listing[c]),
                      Scan!Before(t, Scan!CutoffOf(lastParsed))
               PROVE  status[t] # "unknown"
    BY DEF NothingMissed, Scan!NothingMissed, Scan!Listed
  <2>1. PICK i \in 1 .. Len(listing[c]) : t = listing[c][i]
    BY DEF Scan!ToSet, IInv, ScanTypes
  <2> QED BY <2>1 DEF IInv, ReadBefore
<1> QED BY <1>1, ScanInvariant, PTL

-----------------------------------------------------------------------------
(***************************************************************************)
(* New rows stay in reach                                                  *)
(***************************************************************************)
\* A scan began at an hour of the past, and the overlap still covers the day of that.
InReach ==
  /\ clock \in Nat /\ posted \in [Torrent -> Int] /\ \A t \in Torrent : posted[t] <= clock
  /\ scan.began \in Nat
  /\ run = "scanning" => scan.began <= clock /\ clock - Scan!Overlap <= Scan!DayOf(scan.began)

\* A step that leaves the clock, and the scan or its being under way.
LEMMA ReachKept ==
  ASSUME InReach, UNCHANGED <<clock, posted>>, scan' = scan, run' = "scanning" => run = "scanning"
  PROVE  InReach'
BY DEF InReach, Scan!DayOf

\* What a tick, a row or the start of a scan does to it.
LEMMA ReachStep ==
  ASSUME "slow" \notin ScanHazards, InReach, [Scan!Next]_(Scan!vars)
  PROVE  InReach'
<1>1. CASE Scan!Tick
  BY <1>1, OverlapIsADay DEF Scan!Tick, InReach, Scan!DayOf, Scan!scanState
<1>2. ASSUME NEW c \in Category, NEW t \in Torrent, Scan!Post(c, t) PROVE InReach'
  BY <1>2 DEF Scan!Post, InReach, Scan!DayOf, Scan!scanState
<1>3. CASE Scan!StartScan
  <2>1. UNCHANGED <<clock, posted>> /\ scan'.began = clock
    BY <1>3 DEF Scan!StartScan, Scan!table
  <2>2. clock - Scan!Overlap <= Scan!DayOf(clock)
    BY DayBounds, OverlapIsADay, ScanAssumption DEF InReach
  <2> QED BY <2>1, <2>2 DEF InReach, Scan!DayOf
<1>4. CASE Scan!ClaimRun \/ Scan!ResetStop \/ Scan!SkipTracker \/ Scan!commitScan \/ Scan!RequestStop \/ Scan!ResetLastParsed \/ Scan!Crash
  BY <1>4, ReachKept
  DEF Scan!ClaimRun, Scan!ResetStop, Scan!SkipTracker, Scan!commitScan, Scan!RequestStop,
     Scan!ResetLastParsed, Scan!Crash, Scan!table
<1>5. ASSUME NEW c \in Category, NEW t \in Torrent, Scan!Enrich(c, t) \/ Scan!Withdraw(c, t) PROVE InReach'
  BY <1>5, ReachKept DEF Scan!Enrich, Scan!Withdraw, Scan!scanState
<1>6. ASSUME NEW c \in Category, Scan!FetchPage(c) \/ Scan!EndCategory(c) PROVE InReach'
  BY <1>6, ReachKept DEF Scan!FetchPage, Scan!EndCategory, Scan!table
<1>7. CASE UNCHANGED Scan!vars
  BY <1>7, ReachKept DEF Scan!vars
<1> QED BY <1>1, <1>2, <1>3, <1>4, <1>5, <1>6, <1>7 DEF Scan!Next, Scan!Scanning

\* The commit of a scan (parser/common.go commitScan, scanCutoff) never moves the next cutoff past a
\* row posted since the scan began, although a row's date is midnight of its day: with any length
\* of day and any overlap, and whatever fails, is withdrawn, stopped, reset or restarted.
THEOREM CommitAlwaysKeepsNewRows ==
  ASSUME "slow" \notin ScanHazards
  PROVE  Scan!Spec => CommitKeepsNewRows
<1>1. Scan!Init => InReach
  BY OverlapIsADay, ScanAssumption DEF Scan!Init, InReach, Scan!Never
<1>2. InReach /\ [Scan!Next]_(Scan!vars) => InReach'
  BY ReachStep
<1>3. InReach /\ [Scan!Next]_(Scan!vars) =>
        [lastParsed' \notin {lastParsed, Scan!Never} =>
           \A t \in Torrent : posted[t] >= scan.began => ~Scan!Before(t, Scan!CutoffOf(lastParsed'))]_(Scan!vars)
  <2> SUFFICES ASSUME InReach, [Scan!Next]_(Scan!vars), lastParsed' \notin {lastParsed, Scan!Never},
                      NEW t \in Torrent, posted[t] >= scan.began
               PROVE  ~Scan!Before(t, Scan!CutoffOf(lastParsed'))
    OBVIOUS
  <2>1. Scan!commitScan
    BY DEF Scan!Next, Scan!Scanning, Scan!vars, Scan!Tick, Scan!Post, Scan!Withdraw, Scan!StartScan,
       Scan!ClaimRun, Scan!ResetStop, Scan!SkipTracker,
       Scan!RequestStop, Scan!ResetLastParsed, Scan!Crash, Scan!FetchPage, Scan!EndCategory, Scan!Enrich, Scan!scanState
  <2>2. lastParsed' = clock /\ clock # Scan!Never /\ run = "scanning"
    BY <2>1 DEF Scan!commitScan, InReach, Scan!Never
  <2>3. /\ posted[t] \in Nat /\ scan.began \in Nat /\ clock \in Nat
        /\ clock - Scan!Overlap <= Scan!DayOf(scan.began)
    BY <2>2 DEF InReach
  <2>4. Scan!DayOf(scan.began) <= Scan!DayOf(posted[t]) /\ Scan!DayOf(scan.began) \in Nat /\ Scan!DayOf(posted[t]) \in Nat
    BY <2>3, DayMonotone, DayBounds
  <2> QED BY <2>2, <2>3, <2>4, OverlapIsADay DEF Scan!Before, Scan!Date, Scan!CutoffOf
<1> QED BY <1>1, <1>2, <1>3, PTL DEF Scan!Spec, CommitKeepsNewRows, Scan!CommitKeepsNewRows

-----------------------------------------------------------------------------
(* The cache of category responses (CategoryCache) *)

Response == [gen : Int, began : Int, setting : Int, catalog : Int]
Computation == [phase : {"setting", "query", "store"}, for : Key \cup {Cache!Totals},
                refresh : BOOLEAN, began : Int, setting : Int, catalog : Int]

CacheTypes ==
  /\ catalog \in Nat /\ setting \in Nat /\ generation \in Nat
  /\ entries \in [Key -> {Cache!Absent} \cup Response]
  /\ disk \in [Key -> {Cache!Absent} \cup Response]
  /\ call \in [Call -> {Cache!Idle} \cup Computation]
  /\ tracker \in Int
  /\ hook \in [Writer -> {"idle", "bump", "reset", "recount"}]
  /\ floor \in [catalog : Nat, setting : Nat]

\* No computation and no response comes from a later generation, and one that began
\* in this generation has read the catalogue after the last bump.
GenInv ==
  /\ floor.catalog <= catalog
  /\ \A f \in Call : call[f] \in Computation =>
       /\ call[f].began <= generation
       /\ call[f].phase = "store" /\ call[f].began = generation
            => call[f].catalog >= floor.catalog
  /\ \A k \in Key : entries[k] \in Response => entries[k].gen <= generation

CacheInv == CacheTypes /\ GenInv /\ Cache!FreshUnlessOvertaken

\* A stored response, a running computation and their placeholders are told apart.
LEMMA RecordFacts ==
  /\ Cache!Absent \notin Response /\ Cache!Idle \notin Computation
  /\ Cache!Absent.gen = -2 /\ Cache!Idle.phase = "idle"
  /\ Cache!Absent # Cache!Idle
<1>1. \A r \in Response : r.began \in Int /\ r = [gen |-> r.gen, began |-> r.began,
                                 setting |-> r.setting, catalog |-> r.catalog]
  BY DEF Response
<1>2. "began" \notin DOMAIN Cache!Absent
  BY DEF Cache!Absent
<1>3. \A r \in Response : "began" \in DOMAIN r
  BY DEF Response
<1>4. \A c \in Computation : c.phase \in {"setting", "query", "store"}
  BY DEF Computation
<1> QED BY <1>2, <1>3, <1>4 DEF Cache!Absent, Cache!Idle

\* A computation that has read the setting, or run its query, is still one, with the
\* generation it began in.
LEMMA ComputationSteps ==
  ASSUME NEW c \in Computation, NEW v \in Int
  PROVE  /\ LET new == [c EXCEPT !.phase = "query", !.setting = v]
            IN  new \in Computation /\ new.began = c.began /\ new.phase = "query"
         /\ LET new == [c EXCEPT !.phase = "store", !.catalog = v]
            IN  /\ new \in Computation /\ new.began = c.began /\ new.phase = "store"
                /\ new.catalog = v
BY DEF Computation

\* Starting a computation records the current generation and disturbs nothing else.
LEMMA BeginKeepsInv ==
  ASSUME CacheInv, NEW f \in Call, NEW what \in [for : Key \cup {Cache!Totals}, refresh : BOOLEAN],
         Cache!Begin(f, what),
         UNCHANGED <<catalog, setting, generation, entries, tracker, disk, floor>>,
         hook' \in [Writer -> {"idle", "bump", "reset", "recount"}]
  PROVE  CacheInv'
<1> DEFINE new == [phase |-> "setting", for |-> what.for, refresh |-> what.refresh,
                   began |-> generation, setting |-> Cache!Unset, catalog |-> Cache!Unset]
<1>1. new \in Computation /\ new.began = generation /\ new.phase = "setting"
  BY DEF Computation, Cache!Unset, CacheInv, CacheTypes
<1>2. call' = [call EXCEPT ![f] = new]
  BY DEF Cache!Begin
<1> HIDE DEF new
<1>3. CacheTypes'
  BY <1>1, <1>2 DEF CacheInv, CacheTypes
<1>4. \A g \in Call : call'[g] = IF g = f THEN new ELSE call[g]
  BY <1>2 DEF CacheInv, CacheTypes
<1>5. GenInv'
  BY <1>1, <1>4 DEF CacheInv, CacheTypes, GenInv
<1> QED BY <1>3, <1>5 DEF CacheInv, Cache!FreshUnlessOvertaken, Cache!Fresh, Cache!Cached, Cache!Stale

\* A response that is taken for fresh, and whose computation began in this generation,
\* shows the catalogue as of the last invalidation or later.
THEOREM FreshAlwaysUnlessOvertaken == Cache!Spec => []FreshUnlessOvertaken
<1>1. Cache!Init => CacheInv
  BY RecordFacts DEF Cache!Init, CacheInv, CacheTypes, GenInv, Cache!FreshUnlessOvertaken, Cache!Fresh,
     Cache!Cached, Cache!Unset
<1>2. CacheInv /\ [Cache!Next]_(Cache!vars) => CacheInv'
  <2> SUFFICES ASSUME CacheInv, [Cache!Next]_(Cache!vars) PROVE CacheInv'
    OBVIOUS
  <2> USE RecordFacts
  <2>1. ASSUME NEW w \in Writer, Cache!WriteCatalog(w) \/ Cache!WriteSetting(w) PROVE CacheInv'
    BY <2>1 DEF Cache!WriteCatalog, Cache!WriteSetting, Cache!cached, CacheInv, CacheTypes, GenInv,
       Cache!FreshUnlessOvertaken, Cache!Fresh, Cache!Cached, Cache!Stale
  <2>2. ASSUME NEW w \in Writer, Cache!BumpGeneration(w) PROVE CacheInv'
    <3>1. CacheTypes'
      BY <2>2 DEF Cache!BumpGeneration, Cache!cached, CacheInv, CacheTypes
    <3>2. GenInv'
      BY <2>2 DEF Cache!BumpGeneration, Cache!cached, CacheInv, CacheTypes, GenInv, Response,
         Computation
    <3>3. Cache!FreshUnlessOvertaken'
      BY <2>2 DEF Cache!BumpGeneration, Cache!cached, CacheInv, CacheTypes, GenInv, Response,
         Cache!FreshUnlessOvertaken, Cache!Fresh, Cache!Cached, Cache!Stale
    <3> QED BY <3>1, <3>2, <3>3 DEF CacheInv
  <2>3. ASSUME NEW w \in Writer, Cache!ResetSettings(w) PROVE CacheInv'
    BY <2>3 DEF Cache!ResetSettings, Cache!Unset, CacheInv, CacheTypes, GenInv,
       Cache!FreshUnlessOvertaken, Cache!Fresh, Cache!Cached, Cache!Stale
  <2>4. ASSUME NEW w \in Writer, Cache!StartRecount(w) PROVE CacheInv'
    <3>1. hook' \in [Writer -> {"idle", "bump", "reset", "recount"}]
      BY <2>4 DEF Cache!StartRecount, CacheInv, CacheTypes
    <3>2. CASE "totals" \in Events
      BY <2>4, <3>1, <3>2, BeginKeepsInv DEF Cache!StartRecount, Cache!cached
    <3>3. CASE "totals" \notin Events
      BY <2>4, <3>1, <3>3 DEF Cache!StartRecount, Cache!cached, CacheInv, CacheTypes, GenInv,
         Cache!FreshUnlessOvertaken, Cache!Fresh, Cache!Cached, Cache!Stale
    <3> QED BY <3>2, <3>3
  <2>5. ASSUME NEW f \in Call, NEW k \in Key, Cache!Miss(f, k) \/ Cache!StaleHit(f, k)
        PROVE  CacheInv'
    <3>1. hook' \in [Writer -> {"idle", "bump", "reset", "recount"}]
      BY <2>5 DEF Cache!Miss, Cache!StaleHit, CacheInv, CacheTypes
    <3> QED BY <2>5, <3>1, BeginKeepsInv DEF Cache!Miss, Cache!StaleHit, Cache!cached
  <2>12. ASSUME NEW f \in Call, Cache!MissTotal(f) PROVE CacheInv'
    <3>1. hook' \in [Writer -> {"idle", "bump", "reset", "recount"}]
      BY <2>12 DEF Cache!MissTotal, CacheInv, CacheTypes
    <3> QED BY <2>12, <3>1, BeginKeepsInv DEF Cache!MissTotal, Cache!cached
  <2>6. ASSUME NEW f \in Call, Cache!ReadSetting(f) \/ Cache!SettingUnread(f) \/ Cache!Query(f)
        PROVE  CacheInv'
    <3>1. call[f] \in Computation
      BY <2>6 DEF Cache!ReadSetting, Cache!SettingUnread, Cache!Query, CacheInv, CacheTypes
    <3>2. \E new \in Computation :
             /\ call' = [call EXCEPT ![f] = new]
             /\ new.began = call[f].began
             /\ new.phase = "store" => new.catalog = catalog
      <4>1. ASSUME NEW v \in Int,
                   call' = [call EXCEPT ![f] = [call[f] EXCEPT !.phase = "query", !.setting = v]]
            PROVE  \E new \in Computation :
                     /\ call' = [call EXCEPT ![f] = new]
                     /\ new.began = call[f].began
                     /\ new.phase = "store" => new.catalog = catalog
        <5> DEFINE new == [call[f] EXCEPT !.phase = "query", !.setting = v]
        <5>1. new \in Computation /\ new.began = call[f].began /\ new.phase = "query"
          BY <3>1, ComputationSteps
        <5>2. call' = [call EXCEPT ![f] = new]
          BY <4>1
        <5> HIDE DEF new
        <5> QED BY <5>1, <5>2
      <4>2. CASE Cache!ReadSetting(f)
        <5>1. tracker' \in Int
          BY <4>2 DEF Cache!ReadSetting, CacheInv, CacheTypes
        <5> QED BY <4>2, <5>1, <4>1 DEF Cache!ReadSetting
      <4>3. CASE Cache!SettingUnread(f)
        <5>1. Cache!Default \in Int
          BY DEF Cache!Default
        <5> QED BY <4>3, <5>1, <4>1 DEF Cache!SettingUnread
      <4>4. CASE Cache!Query(f)
        <5> DEFINE new == [call[f] EXCEPT !.phase = "store", !.catalog = catalog]
        <5>1. /\ new \in Computation /\ new.began = call[f].began /\ new.phase = "store"
              /\ new.catalog = catalog
          <6>1. catalog \in Int
            BY DEF CacheInv, CacheTypes
          <6> QED BY <3>1, <6>1, ComputationSteps
        <5>2. call' = [call EXCEPT ![f] = new]
          BY <4>4 DEF Cache!Query
        <5> HIDE DEF new
        <5> QED BY <5>1, <5>2
      <4> QED BY <2>6, <4>2, <4>3, <4>4
    <3>3. PICK new \in Computation :
             /\ call' = [call EXCEPT ![f] = new]
             /\ new.began = call[f].began
             /\ new.phase = "store" => new.catalog = catalog
      BY <3>2
    <3>5. /\ UNCHANGED <<catalog, setting, generation, entries, disk, floor, hook>>
          /\ tracker' \in Int
      <4>1. CASE Cache!ReadSetting(f)
        <5>1. /\ tracker' = IF tracker # Cache!Unset THEN tracker ELSE setting
              /\ UNCHANGED <<catalog, setting, generation, entries, disk, floor, hook>>
          BY <4>1 DEF Cache!ReadSetting
        <5>2. tracker \in Int /\ setting \in Int
          BY DEF CacheInv, CacheTypes
        <5>3. tracker' \in Int
          BY <5>1, <5>2
        <5> QED BY <5>1, <5>3
      <4>2. CASE Cache!SettingUnread(f)
        <5>1. tracker' = 0 /\ UNCHANGED <<catalog, setting, generation, entries, disk, floor, hook>>
          BY <4>2 DEF Cache!SettingUnread, Cache!Default
        <5> QED BY <5>1
      <4>3. CASE Cache!Query(f)
        BY <4>3 DEF Cache!Query, Cache!cached, CacheInv, CacheTypes
      <4> QED BY <2>6, <4>1, <4>2, <4>3
    <3>6. CacheTypes'
      BY <3>3, <3>5 DEF CacheInv, CacheTypes
    <3>7. \A g \in Call : call'[g] = IF g = f THEN new ELSE call[g]
      BY <3>3 DEF CacheInv, CacheTypes
    <3>8. GenInv'
      BY <3>1, <3>3, <3>5, <3>7 DEF CacheInv, CacheTypes, GenInv
    <3> QED BY <3>5, <3>6, <3>8 DEF CacheInv, Cache!FreshUnlessOvertaken, Cache!Fresh, Cache!Cached,
       Cache!Stale
  <2>7. ASSUME NEW f \in Call, Cache!setCached(f) PROVE CacheInv'
    <3>1. call[f] \in Computation /\ call[f].phase = "store"
      BY <2>7 DEF Cache!setCached, CacheInv, CacheTypes
    <3>2. call[f].for \in Key
      BY <2>7, <3>1 DEF Cache!setCached, Computation
    <3> DEFINE k == call[f].for
               response == [gen |-> generation, began |-> call[f].began,
                            setting |-> call[f].setting, catalog |-> call[f].catalog]
    <3>3. /\ response \in Response /\ response.gen = generation
          /\ response.began = call[f].began /\ response.catalog = call[f].catalog
      BY <3>1 DEF Response, Computation, CacheInv, CacheTypes
    <3>4. entries' = [Cache!Evict(k, order') EXCEPT ![k] = response]
      BY <2>7 DEF Cache!setCached
    <3> HIDE DEF response, k
    <3>5. \A j \in Key : Cache!Evict(k, order')[j] \in {entries[j], Cache!Absent}
      BY DEF Cache!Evict
    <3>6. \A j \in Key : entries'[j] \in {entries[j], Cache!Absent} \/ (j = k /\ entries'[j] = response)
      BY <3>4, <3>5 DEF Cache!Evict
    <3>7. entries' \in [Key -> {Cache!Absent} \cup Response]
      BY <3>3, <3>4, <3>5 DEF Cache!Evict, CacheInv, CacheTypes
    <3>8. /\ UNCHANGED <<catalog, setting, generation, tracker, disk, floor, hook>>
          /\ call' = [call EXCEPT ![f] = Cache!Idle]
      BY <2>7 DEF Cache!setCached
    <3>9. CacheTypes'
      BY <3>7, <3>8 DEF CacheInv, CacheTypes
    <3>10. GenInv'
      BY <3>3, <3>6, <3>8 DEF CacheInv, CacheTypes, GenInv
    <3>11. Cache!FreshUnlessOvertaken'
      BY <3>1, <3>3, <3>6, <3>8 DEF CacheInv, CacheTypes, GenInv, Cache!FreshUnlessOvertaken,
         Cache!Fresh, Cache!Cached, Cache!Stale
    <3> QED BY <3>9, <3>10, <3>11 DEF CacheInv
  <2>8. ASSUME NEW f \in Call, Cache!StoreTotal(f) \/ Cache!ResponseFails(f) PROVE CacheInv'
    BY <2>8 DEF Cache!StoreTotal, Cache!ResponseFails, Cache!cached, CacheInv, CacheTypes, GenInv,
       Cache!FreshUnlessOvertaken, Cache!Fresh, Cache!Cached, Cache!Stale
  <2>9. CASE Cache!SaveCacheSnapshot
    BY <2>9 DEF Cache!SaveCacheSnapshot, Cache!cached, CacheInv, CacheTypes, GenInv,
       Cache!FreshUnlessOvertaken, Cache!Fresh, Cache!Cached, Cache!Stale
  <2>10. CASE Cache!Restart
    <3>1. \A k \in Key : \/ Cache!Restored(k) = Cache!Absent
                         \/ Cache!Restored(k) \in Response /\ Cache!Restored(k).gen = -1
      BY DEF Cache!Restored, Response, CacheInv, CacheTypes
    <3>2. /\ generation' = 0 /\ entries' = [k \in Key |-> Cache!Restored(k)]
          /\ call' = [f \in Call |-> Cache!Idle] /\ tracker' = Cache!Unset
          /\ hook' = [w \in Writer |-> "idle"]
          /\ floor' = [catalog |-> catalog, setting |-> setting]
          /\ UNCHANGED <<catalog, setting, disk>>
      BY <2>10 DEF Cache!Restart
    <3>3. CacheTypes'
      BY <3>1, <3>2 DEF CacheInv, CacheTypes, Cache!Unset
    <3>4. \A k \in Key : entries'[k] = Cache!Absent \/ entries'[k].gen = -1
      BY <3>1, <3>2
    <3>5. GenInv'
      BY <3>2, <3>4 DEF CacheInv, CacheTypes, GenInv
    <3> QED BY <3>2, <3>3, <3>4, <3>5 DEF CacheInv, Cache!FreshUnlessOvertaken, Cache!Fresh,
       Cache!Cached, Cache!Stale
  <2>11. CASE UNCHANGED Cache!vars
    BY <2>11 DEF Cache!vars, CacheInv, CacheTypes, GenInv, Cache!FreshUnlessOvertaken, Cache!Fresh,
       Cache!Cached, Cache!Stale
  <2> QED BY <2>1, <2>2, <2>3, <2>4, <2>5, <2>6, <2>7, <2>8, <2>9, <2>10, <2>11, <2>12
          DEF Cache!Next, Cache!Compute
<1> QED BY <1>1, <1>2, PTL DEF Cache!Spec, CacheInv, FreshUnlessOvertaken

\* No computation uses an older catalog_trackers once the invalidation that follows
\* its change is over, unless the built-in default takes its place.
THEOREM TrackerAlwaysCurrent == Cache!Spec => []TrackerCurrent
<1> DEFINE H == hook \in [Writer -> {"idle", "bump", "reset", "recount"}] /\ Cache!TrackerCurrent
<1>1. Cache!Init => H
  BY DEF Cache!Init, Cache!TrackerCurrent, Cache!Unset
<1>2. H /\ [Cache!Next]_(Cache!vars) => H'
  <2> SUFFICES ASSUME H, [Cache!Next]_(Cache!vars) PROVE H'
    OBVIOUS
  <2> USE DEF Cache!TrackerCurrent, Cache!Invalidating
  <2>1. ASSUME NEW w \in Writer,
               Cache!WriteCatalog(w) \/ Cache!WriteSetting(w) \/ Cache!BumpGeneration(w)
        PROVE  H'
    <3>1. hook'[w] \in {"bump", "reset"} /\ hook' \in [Writer -> {"idle", "bump", "reset", "recount"}]
      BY <2>1 DEF Cache!WriteCatalog, Cache!WriteSetting, Cache!BumpGeneration
    <3> QED BY <3>1
  <2>2. ASSUME NEW w \in Writer, Cache!ResetSettings(w) PROVE H'
    BY <2>2 DEF Cache!ResetSettings
  <2>3. ASSUME NEW w \in Writer, Cache!StartRecount(w) PROVE H'
    BY <2>3 DEF Cache!StartRecount, Cache!cached
  <2>4. ASSUME NEW f \in Call, Cache!ReadSetting(f) PROVE H'
    BY <2>4 DEF Cache!ReadSetting
  <2>5. ASSUME NEW f \in Call, Cache!SettingUnread(f) PROVE H'
    BY <2>5 DEF Cache!SettingUnread
  <2>6. ASSUME NEW f \in Call, NEW k \in Key,
               \/ Cache!Query(f) \/ Cache!setCached(f) \/ Cache!StoreTotal(f) \/ Cache!ResponseFails(f)
               \/ Cache!MissTotal(f) \/ Cache!Miss(f, k) \/ Cache!StaleHit(f, k)
        PROVE  H'
    BY <2>6 DEF Cache!Query, Cache!setCached, Cache!StoreTotal, Cache!ResponseFails, Cache!MissTotal,
       Cache!Miss, Cache!StaleHit, Cache!cached
  <2>7. CASE Cache!SaveCacheSnapshot
    BY <2>7 DEF Cache!SaveCacheSnapshot, Cache!cached
  <2>8. CASE Cache!Restart
    BY <2>8 DEF Cache!Restart
  <2>9. CASE UNCHANGED Cache!vars
    BY <2>9 DEF Cache!vars
  <2>10. ASSUME NEW f \in Call, Cache!Query(f) \/ Cache!setCached(f) \/ Cache!StoreTotal(f) \/ Cache!ResponseFails(f) \/ Cache!MissTotal(f)
         PROVE H'
    BY <2>10 DEF Cache!Query, Cache!setCached, Cache!StoreTotal, Cache!ResponseFails, Cache!MissTotal,
       Cache!cached
  <2> QED BY <2>1, <2>2, <2>3, <2>4, <2>5, <2>6, <2>7, <2>8, <2>9, <2>10 DEF Cache!Next, Cache!Compute
<1> QED BY <1>1, <1>2, PTL DEF Cache!Spec, TrackerCurrent
=============================================================================
