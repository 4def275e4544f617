----------------------------- MODULE EpisodePush -----------------------------
(***************************************************************************)
(* Notifications of new episodes.  Browsers subscribe for a profile; a     *)
(* loop lists, by one query, the aired episodes that no notification was   *)
(* recorded for, sends each browser one message, and records what was sent *)
(* for the profile.  A new subscription has its backlog recorded as sent.  *)
(*                                                                         *)
(* Abstractions.  Time is in days.  Card, season and number of an episode  *)
(* are one value.  A browser's endpoint is the browser; one that revokes   *)
(* its subscription comes back under another endpoint.                     *)
(***************************************************************************)
EXTENDS Integers, FiniteSets

CONSTANTS
  Browser,      \* push endpoints
  Profile,      \* pairs of a device and a profile
  Show, Episode,
  ShowOf,       \* the show of an episode
  Delay,        \* aired_cutoff_days
  MaxAge,       \* days after which an episode is no news
  MaxDay,       \* bound: days
  MaxFaults,    \* bound: messages refused and restarts
  MaxSeeds,     \* bound: seeds under way at once
  None,
  Hazards       \* what may go wrong, of HazardKinds

\* "due": somebody subscribes while notifications are due; "lagging": days pass, shows are
\* taken up and polls run before a seed does; "siblings": a profile's browsers are told
\* some today and some never; "unrecorded": a message is shown and the process stops
\* before it is recorded, or learns nothing of it; "overlap": a browser subscribes to a
\* profile during a check that sends to either.
HazardKinds == {"due", "lagging", "siblings", "unrecorded", "overlap"}

ASSUME ConstantsAssumption ==
  /\ ShowOf \in [Episode -> Show]
  /\ Delay \in Nat /\ MaxAge \in Nat /\ MaxDay \in Nat /\ MaxFaults \in Nat
  /\ MaxSeeds \in Nat \ {0}
  /\ None \notin Profile /\ None \notin Nat
  /\ Hazards \subseteq HazardKinds

VARIABLES
  day,
  air,         \* episodes.air_date, or None
  watching,    \* watching[p]: the shows with the status "watching"
  watched,     \* watched[p]: the episodes with a timecode over the threshold, or special
  subs,        \* push_subscriptions: the profile of a browser, or None
  revoked,     \* browsers whose push service answers 404 or 410
  notified,    \* push_notified_episodes
  seeds,       \* calls of SeedNotifiedEpisodes under way
  jobs,        \* the running check: messages to send
  marking,     \* the running check: what the last message told, to be recorded
  faults,
  shown,       \* history: how often a browser has shown an episode for a profile
  backlog      \* history: what had aired when a browser subscribed, unshown

vars == <<day, air, watching, watched, subs, revoked, notified, seeds, jobs, marking,
          faults, shown, backlog>>

world == <<day, air, watching, watched>>
check == <<jobs, marking>>
history == <<shown, backlog>>

Init ==
  /\ day = 0
  /\ air = [e \in Episode |-> None]
  /\ watching = [p \in Profile |-> {}]
  /\ watched = [p \in Profile |-> {}]
  /\ subs = [b \in Browser |-> None]
  /\ revoked = {}
  /\ notified = [p \in Profile |-> {}]
  /\ seeds = 0
  /\ jobs = {}
  /\ marking = {}
  /\ faults = 0
  /\ shown = [b \in Browser |-> [p \in Profile |-> [e \in Episode |-> 0]]]
  /\ backlog = [b \in Browser |-> {}]

-----------------------------------------------------------------------------
(***************************************************************************)
(* What is due                                                             *)
(***************************************************************************)
Aired(e) == air[e] # None /\ air[e] <= day - Delay

\* The aired episodes of the shows a profile is watching.
AiredFor(p) == {e \in Episode : ShowOf[e] \in watching[p] /\ Aired(e)}

\* Those it makes sense to announce.
DueFor(p) == {e \in AiredFor(p) : air[e] >= day - MaxAge /\ e \notin watched[p]}

Unsent(p) == DueFor(p) \ notified[p]

Subscribed == {b \in Browser : subs[b] # None}

\* Mutant: two arguments change places.
MessageSwapped(b) == [browser |-> subs[b], profile |-> b, episodes |-> Unsent(subs[b])]

Message(b) == [browser |-> b, profile |-> subs[b], episodes |-> Unsent(subs[b])]

\* FindNewEpisodeNotifications, grouped by subscription.
FindNewEpisodeNotifications == {Message(b) : b \in {c \in Subscribed : Unsent(subs[c]) # {}}}

-----------------------------------------------------------------------------
(***************************************************************************)
(* Days, shows and viewers                                                 *)
(***************************************************************************)
\* A seed runs within moments.
Settled == seeds = 0 \/ "lagging" \in Hazards

NextDay ==
  /\ day < MaxDay /\ Settled
  /\ day' = day + 1
  /\ UNCHANGED <<air, watching, watched, subs, revoked, notified, seeds, check, faults, history>>

\* A resync of the show sets or corrects a date.
SetAirDate(e, d) ==
  /\ Settled
  /\ air' = [air EXCEPT ![e] = d]
  /\ UNCHANGED <<day, watching, watched, subs, revoked, notified, seeds, check, faults, history>>

\* SetSubjectiveStatus and ClearSubjectiveStatus.
SetStatus(p, show) ==
  /\ Settled
  /\ \E shows \in {watching[p] \union {show}, watching[p] \ {show}} :
       watching' = [watching EXCEPT ![p] = shows]
  /\ UNCHANGED <<day, air, watched, subs, revoked, notified, seeds, check, faults, history>>

\* A timecode is saved, or deleted.
SetTimecode(p, e) ==
  /\ Settled
  /\ \E seen \in {watched[p] \union {e}, watched[p] \ {e}} :
       watched' = [watched EXCEPT ![p] = seen]
  /\ UNCHANGED <<day, air, watching, subs, revoked, notified, seeds, check, faults, history>>

-----------------------------------------------------------------------------
(***************************************************************************)
(* Subscriptions                                                           *)
(***************************************************************************)
\* The running check has work for the browser or for the profile.
Addresses(b, p) ==
  \/ \E j \in jobs : j.browser = b \/ j.profile = p
  \/ \E m \in marking : m[1] = p

\* handlePushSubscribe: an upsert by endpoint, then a seed in a goroutine of its own.
Subscribe(b, p) ==
  /\ b \notin revoked /\ seeds < MaxSeeds
  /\ FindNewEpisodeNotifications = {} \/ "due" \in Hazards
  /\ subs[b] = p \/ ~Addresses(b, p) \/ "overlap" \in Hazards
  /\ subs' = [subs EXCEPT ![b] = p]
  /\ seeds' = seeds + 1
  /\ backlog' = IF subs[b] = p THEN backlog
                ELSE [backlog EXCEPT ![b] = {e \in AiredFor(p) : shown[b][p][e] = 0}]
  /\ UNCHANGED <<world, revoked, notified, check, faults, shown>>

\* Mutant: the seed records nothing.
SeedNothing ==
  /\ seeds > 0
  /\ seeds' = seeds - 1
  /\ UNCHANGED <<world, subs, revoked, notified, check, faults, history>>

\* The aired episodes of the watched shows of every subscription are recorded.
SeedNotifiedEpisodes ==
  /\ seeds > 0
  /\ seeds' = seeds - 1
  /\ notified' = [p \in Profile |-> IF \E b \in Browser : subs[b] = p
                                    THEN notified[p] \union AiredFor(p) ELSE notified[p]]
  /\ UNCHANGED <<world, subs, revoked, check, faults, history>>

\* The browser drops its subscription, and tells the server in a second step if at all.
Revoke(b) ==
  /\ b \in Subscribed \ revoked
  /\ revoked' = revoked \union {b}
  /\ UNCHANGED <<world, subs, notified, seeds, check, faults, history>>

DeletePushSubscription(b) == subs' = [subs EXCEPT ![b] = None]

\* handlePushUnsubscribe, or handlePushTest that meets a revoked endpoint.
Unsubscribe(b) ==
  /\ b \in Subscribed \intersect revoked
  /\ DeletePushSubscription(b)
  /\ UNCHANGED <<world, revoked, notified, seeds, check, faults, history>>

-----------------------------------------------------------------------------
(***************************************************************************)
(* RunPushNotifyCheck, every 15 minutes                                    *)
(***************************************************************************)
StartCheck ==
  /\ jobs = {} /\ marking = {} /\ Settled
  /\ FindNewEpisodeNotifications # {}
  /\ jobs' = FindNewEpisodeNotifications
  /\ UNCHANGED <<world, subs, revoked, notified, seeds, marking, faults, history>>

\* The next message is sent when the last one is recorded.
Sends(j) == j \in jobs /\ marking = {}

Told(j) == [shown EXCEPT ![j.browser][j.profile] =
              [e \in Episode |-> IF e \in j.episodes THEN @[e] + 1 ELSE @[e]]]

\* The message is shown, and the answer is a success.
Deliver(j) ==
  /\ Sends(j) /\ j.browser \notin revoked
  /\ shown' = Told(j)
  /\ jobs' = jobs \ {j}
  /\ marking' = {j.profile} \X j.episodes
  /\ UNCHANGED <<world, subs, revoked, notified, seeds, faults, backlog>>

\* No other browser of the profile has been told in this check, or is to be.
NoneTold(j) == j.episodes \intersect notified[j.profile] = {}
NoSibling(j) == NoneTold(j) /\ \A i \in jobs : i.profile = j.profile => i = j

\* Mutant: a refused message counts as sent.
SendFailsMarked(j) ==
  /\ Sends(j) /\ j.browser \notin revoked /\ faults < MaxFaults
  /\ NoSibling(j) \/ "siblings" \in Hazards
  /\ \E arrived \in {FALSE} \union {"unrecorded" \in Hazards} :
       shown' = IF arrived THEN Told(j) ELSE shown
  /\ jobs' = jobs \ {j}
  /\ marking' = {j.profile} \X j.episodes
  /\ faults' = faults + 1
  /\ UNCHANGED <<world, subs, revoked, notified, seeds, backlog>>

\* An error or another status: the next check tries again.  The message may have arrived.
SendFails(j) ==
  /\ Sends(j) /\ j.browser \notin revoked /\ faults < MaxFaults
  /\ NoSibling(j) \/ "siblings" \in Hazards
  /\ \E arrived \in {FALSE} \union {"unrecorded" \in Hazards} :
       shown' = IF arrived THEN Told(j) ELSE shown
  /\ jobs' = jobs \ {j}
  /\ faults' = faults + 1
  /\ UNCHANGED <<world, subs, revoked, notified, seeds, marking, backlog>>

\* Mutant: a browser that is gone is tried again and again.
SubscriptionGoneRetried(j) ==
  /\ Sends(j) /\ j.browser \in revoked
  /\ DeletePushSubscription(j.browser)
  /\ UNCHANGED <<world, revoked, notified, seeds, jobs, marking, faults, history>>

\* 404 or 410.
SubscriptionGone(j) ==
  /\ Sends(j) /\ j.browser \in revoked
  /\ DeletePushSubscription(j.browser)
  /\ jobs' = jobs \ {j}
  /\ UNCHANGED <<world, revoked, notified, seeds, marking, faults, history>>

\* Mutant: the episode is taken off the list and not recorded.
MarkNothing(p, e) ==
  /\ <<p, e>> \in marking
  /\ marking' = marking \ {<<p, e>>}
  /\ UNCHANGED <<world, subs, revoked, notified, seeds, jobs, faults, history>>

MarkEpisodeNotified(p, e) ==
  /\ <<p, e>> \in marking
  /\ marking' = marking \ {<<p, e>>}
  /\ notified' = [notified EXCEPT ![p] = @ \union {e}]
  /\ UNCHANGED <<world, subs, revoked, seeds, jobs, faults, history>>

\* The process is restarted.
Restart ==
  /\ faults < MaxFaults
  /\ seeds = 0 \/ "lagging" \in Hazards
  /\ marking = {} \/ "unrecorded" \in Hazards
  /\ (\A j \in jobs : NoneTold(j)) \/ "siblings" \in Hazards
  /\ jobs' = {} /\ marking' = {} /\ seeds' = 0
  /\ faults' = faults + 1
  /\ UNCHANGED <<world, subs, revoked, notified, history>>

-----------------------------------------------------------------------------
RunPushNotifyCheck ==
  \/ StartCheck
  \/ \E j \in jobs : Deliver(j) \/ SendFails(j) \/ SubscriptionGone(j)
  \/ \E p \in Profile, e \in Episode : MarkEpisodeNotified(p, e)

Next ==
  \/ NextDay \/ SeedNotifiedEpisodes \/ RunPushNotifyCheck \/ Restart
  \/ \E e \in Episode, d \in 0 .. MaxDay : SetAirDate(e, d)
  \/ \E p \in Profile : (\E show \in Show : SetStatus(p, show)) \/ (\E e \in Episode : SetTimecode(p, e))
  \/ \E b \in Browser : Revoke(b) \/ Unsubscribe(b) \/ \E p \in Profile : Subscribe(b, p)

Spec == Init /\ [][Next]_vars

\* The loop goes on, and a seed that was started is carried out.
FairSpec == Spec /\ WF_vars(RunPushNotifyCheck) /\ WF_vars(SeedNotifiedEpisodes)

-----------------------------------------------------------------------------
(***************************************************************************)
(* Properties                                                              *)
(***************************************************************************)
Messages == [browser : Browser, profile : Profile, episodes : SUBSET Episode]

TypeOK ==
  /\ day \in 0 .. MaxDay /\ air \in [Episode -> (0 .. MaxDay) \union {None}]
  /\ watching \in [Profile -> SUBSET Show] /\ watched \in [Profile -> SUBSET Episode]
  /\ subs \in [Browser -> Profile \union {None}] /\ revoked \subseteq Browser
  /\ notified \in [Profile -> SUBSET Episode]
  /\ seeds \in 0 .. MaxSeeds /\ faults \in 0 .. MaxFaults
  /\ jobs \subseteq Messages /\ marking \subseteq Profile \X Episode
  /\ shown \in [Browser -> [Profile -> [Episode -> Nat]]]
  /\ backlog \in [Browser -> SUBSET Episode]

\* A browser shows an episode once: no check, retry or restart announces again what was shown.
AtMostOnce == \A b \in Browser, p \in Profile, e \in Episode : shown[b][p][e] <= 1

\* "Mark already-aired episodes as notified so the next periodic check doesn't flood this
\* brand-new subscription": nothing of the backlog is ever shown.
NoBacklogShown == \A b \in Subscribed : \A e \in backlog[b] : shown[b][subs[b]][e] = 0

\* An episode that browser b is still to show: due, aired since it subscribed, unshown,
\* and either on its way or free to be listed by the next check.
Owed(b, e) ==
  /\ b \in Subscribed \ revoked
  /\ e \in DueFor(subs[b]) \ backlog[b]
  /\ shown[b][subs[b]][e] = 0
  /\ \/ e \notin notified[subs[b]]
     \/ \E j \in jobs : j.browser = b /\ j.profile = subs[b] /\ e \in j.episodes

\* No notification is swallowed: what a browser is owed stays owed until it is shown, no
\* longer due, or has nowhere to go.
NothingSwallowed ==
  [][\A b \in Browser, e \in Episode : Owed(b, e) =>
       \/ Owed(b, e)' \/ shown'[b][subs[b]][e] > 0
       \/ b \in revoked' \/ subs'[b] # subs[b] \/ e \notin DueFor(subs[b])']_vars

\* And it does not stay owed for ever.
EveryNotificationIsSent == \A b \in Browser, e \in Episode : Owed(b, e) ~> ~Owed(b, e)

\* What a browser may be told of, and what it is owed, with the profile it is for.
Wanted(b) == {pe \in Profile \X Episode :
                b \in Subscribed \ revoked /\ subs[b] = pe[1] /\ pe[2] \in DueFor(pe[1])}
OwedPairs(b) == {pe \in Wanted(b) : Owed(b, pe[2])}

Promise == INSTANCE Announcements WITH
  wanted <- [b \in Browser |-> Wanted(b)], owed <- [b \in Browser |-> OwedPairs(b)]

\* Subscriptions, lists, messages, records and seeds together keep what Announcements
\* promises: nothing shown twice, nothing owed forgotten.
KeepsPromise == Promise!Spec
=============================================================================
