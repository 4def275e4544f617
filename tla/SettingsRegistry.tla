--------------------------- MODULE SettingsRegistry ---------------------------
(***************************************************************************)
(* How two plugins come by their entries in one section of Lampa's         *)
(* settings.  src/plugins/np.js makes the section anew once the server has *)
(* said whether devices can be linked; that takes up to four seconds, and  *)
(* removes what others have put there.  src/plugins/np_unwatched.js waits  *)
(* until np.js has begun, for ten seconds at most, puts its entries there, *)
(* and looks five seconds later whether they still are.  Lampa appends     *)
(* entries and drops no double.  Time passes in ticks of half a second.    *)
(***************************************************************************)
EXTENDS Naturals, Sequences

CONSTANTS
    MaxTime       \* (bound) ticks in which the plugins are loaded

VARIABLES
    now,
    numparser_plugin, \* np.js has begun
    ping,         \* ticks left for the answer, of its own and the timer's
    linkable,     \* DEVICE_LINK_AVAILABLE
    attempts,     \* attemptsLeft of waitForNumparser
    recheck,      \* ticks left until np_unwatched looks again
    section,      \* the entries of numparser_settings, in order
    badges,       \* those of np_unwatched's section of its own
    late          \* (ghost) np.js came after the wait for it

vars == <<now, numparser_plugin, ping, linkable, attempts, recheck, section, badges, late>>

Attempts == 20

\* The answer, at most 4 s, and 50 ms.
Answer == 9

\* Mutant: it looks again while the answer may still be under way.
RecheckSooner == Answer - 2

\* 5 s
Recheck == 10

Before == 99      \* a timer that has not been set
Over == 100       \* ... and one that has run out
Timer(length) == 0..length \cup {Before, Over}
Runs(timer) == timer \notin {Before, Over}

TypeOK ==
    /\ now \in Nat
    /\ numparser_plugin \in BOOLEAN /\ linkable \in {"unknown", "yes", "no"}
    /\ ping \in Timer(Answer) /\ attempts \in Timer(Attempts) /\ recheck \in Timer(Recheck)
    /\ section \in Seq({"np", "token", "unwatched"})
    /\ badges \in Nat /\ late \in BOOLEAN

Init ==
    /\ now = 0
    /\ numparser_plugin = FALSE /\ linkable = "unknown"
    /\ ping = Before /\ attempts = Before /\ recheck = Before
    /\ section = <<>> /\ badges = 0 /\ late = FALSE

\* settingsStillRegistered
Registered(who) == \E i \in DOMAIN section : section[i] = who

Once(who) == \A i, j \in DOMAIN section : section[i] = who /\ section[j] = who => i = j

-----------------------------------------------------------------------------

\* startPlugin, checkDeviceLinkAvailable
NpBoots ==
    /\ ~numparser_plugin /\ numparser_plugin' = TRUE
    /\ ping' = Answer
    /\ late' = (attempts = Over)
    /\ UNCHANGED <<now, linkable, attempts, recheck, section, badges>>

\* finish: a server without devices says 404; an error or no answer counts as yes.
PingAnswered ==
    /\ Runs(ping) /\ linkable = "unknown"
    /\ linkable' \in {"yes", "no"}
    /\ UNCHANGED <<now, numparser_plugin, ping, attempts, recheck, section, badges, late>>

\* initSettings of np.js: removeComponent, addComponent, and its own entries.
NpInitSettings ==
    /\ Runs(ping) /\ linkable # "unknown"
    /\ ping' = Over
    /\ section' = IF linkable = "yes" THEN <<"np", "token">> ELSE <<"np">>
    /\ UNCHANGED <<now, numparser_plugin, linkable, attempts, recheck, badges, late>>

\* registerSettingsSafely
UnwatchedBoots ==
    /\ attempts = Before
    /\ attempts' = Attempts
    /\ UNCHANGED <<now, numparser_plugin, ping, linkable, recheck, section, badges, late>>

\* initSettings of np_unwatched.js; its own section is filled once only.
InitSettings ==
    /\ section' = Append(section, "unwatched")
    /\ badges' = IF badges = 0 THEN 1 ELSE badges

\* The wait is over.
Register ==
    /\ Runs(attempts) /\ (numparser_plugin \/ attempts = 0)
    /\ attempts' = Over
    /\ InitSettings
    /\ recheck' = Recheck
    /\ UNCHANGED <<now, numparser_plugin, ping, linkable, late>>

\* Five seconds later
LookAgain ==
    /\ recheck = 0 /\ recheck' = Over
    /\ IF ~Registered("unwatched") THEN InitSettings ELSE UNCHANGED <<section, badges>>
    /\ UNCHANGED <<now, numparser_plugin, ping, linkable, attempts, late>>

\* No timer that has run out waits for another one.
Tick ==
    /\ now < MaxTime \/ Runs(ping) \/ Runs(attempts) \/ Runs(recheck)
    /\ ping # 0 /\ recheck # 0 /\ ~(Runs(attempts) /\ (numparser_plugin \/ attempts = 0))
    /\ now' = IF now < MaxTime THEN now + 1 ELSE now
    /\ ping' = IF Runs(ping) THEN ping - 1 ELSE ping
    /\ attempts' = IF Runs(attempts) THEN attempts - 1 ELSE attempts
    /\ recheck' = IF Runs(recheck) THEN recheck - 1 ELSE recheck
    /\ UNCHANGED <<numparser_plugin, linkable, section, badges, late>>

Next ==
    \/ now < MaxTime /\ (NpBoots \/ UnwatchedBoots)
    \/ PingAnswered \/ NpInitSettings \/ Register \/ LookAgain \/ Tick

Spec == Init /\ [][Next]_vars

-----------------------------------------------------------------------------

\* The entries of np_unwatched.js are never there twice; once both plugins have done
\* what they do they are there, beside those of np.js; the token can be typed where
\* devices can be linked.  Unless np.js came after the wait for it.
SectionIsWhole ==
    /\ Once("unwatched")
    /\ ping = Over /\ recheck = Over =>
         /\ Registered("np") /\ Once("np") /\ badges = 1
         /\ (linkable = "yes" <=> Registered("token")) /\ Once("token")
         /\ late \/ Registered("unwatched")

=============================================================================
