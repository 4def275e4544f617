--------------------------- MODULE PluginSettings ---------------------------
(***************************************************************************)
(* One setting of a Lampa plugin and its copy on the server                *)
(* (src/plugins/np_profiles.js, __NMSync, and its users np.js, myshows.js, *)
(* np_unwatched.js and status.js).  Every profile has its own value under  *)
(* a key that names the profile; Lampa's settings screen shows the base    *)
(* key, which holds the value of the active profile.  A change made here   *)
(* is patched to the server, a change made elsewhere comes by web socket,  *)
(* and the values are pulled when the plugin registers and when the        *)
(* profile is switched.                                                    *)
(***************************************************************************)
EXTENDS Naturals, Sequences, FiniteSets

CONSTANTS
    Profile,
    Chosen,       \* the values users choose
    MaxEvents     \* (bound) values chosen and profiles switched to

VARIABLES
    server,       \* server[p][k]: the row (profile p, key of profile k) of plugin_settings
    local,        \* local[k]: the key of profile k in Lampa's storage
    base,         \* the base key
    profile,
    np,           \* window.IS_NP
    registered,   \* the plugin has begun its first pull
    pulls,        \* pulls under way, with the rows the server has read for them
    waiting,      \* patches made before IS_NP is known
    patches,      \* patches on their way to the server
    feed,         \* messages of the web socket
    events,
    missed        \* (history) the ways to disagree, named below, that were taken

vars == <<server, local, base, profile, np, registered, pulls, waiting, patches, feed, events, missed>>

Absent == "absent"
Default == "default"
Value == Chosen \cup {Default}
Stored == Value \cup {Absent}
Row == [Profile -> Stored]
Patch == [to : Profile, key : Profile, value : Value, n : 0..MaxEvents]
Ways == {"failed", "crossed", "moved"}

TypeOK ==
    /\ server \in [Profile -> Row]
    /\ local \in Row /\ base \in Value
    /\ profile \in Profile /\ np \in {"unknown", "yes", "no"} /\ registered \in BOOLEAN
    /\ pulls \subseteq [profile : Profile, first : BOOLEAN, read : BOOLEAN, row : Row]
    /\ waiting \subseteq [key : Profile, value : Value, n : 0..MaxEvents]
    /\ patches \subseteq Patch
    /\ feed \in Seq([profile : Profile, value : Value])
    /\ events \in 0..MaxEvents
    /\ missed \subseteq Ways

Nothing == [k \in Profile |-> Absent]

\* loadProfileSettings: a profile without a value gets the default, here only
\* (sync = false).
WithDefault(storage, p) == [storage EXCEPT ![p] = IF @ = Absent THEN Default ELSE @]

Init ==
    /\ server \in {[p \in Profile |-> [Nothing EXCEPT ![p] = own[p]]] : own \in [Profile -> Chosen \cup {Absent}]}
    /\ profile \in Profile
    /\ local = WithDefault(Nothing, profile) /\ base = local[profile]
    /\ np = "unknown" /\ registered = FALSE
    /\ pulls = {} /\ waiting = {} /\ patches = {} /\ feed = <<>>
    /\ events = 0 /\ missed = {}

Happens == events < MaxEvents /\ events' = events + 1
Pull(p, first) == [profile |-> p, first |-> first, read |-> FALSE, row |-> Nothing]
Unsent(k) == \E w \in patches \cup waiting : w.key = k
Coming(k) == \E i \in DOMAIN feed : feed[i].profile = k

\* __NMSync.patch of the key of k: kept until IS_NP is known, dropped without NP;
\* the profile in the address is the one that is active when it is sent.
PatchOut(k, v, n) ==
    CASE np = "unknown" -> /\ waiting' = waiting \cup {[key |-> k, value |-> v, n |-> n]}
                           /\ UNCHANGED patches
      [] np = "yes"     -> /\ patches' = patches \cup {[to |-> profile, key |-> k, value |-> v, n |-> n]}
                           /\ UNCHANGED waiting
      [] np = "no"      -> UNCHANGED <<waiting, patches>>

\* _applyMsg and the plugin's handler, for rows of profile p: not if another one
\* is active.  The base key follows the active profile's own key.
Applied(p, row) ==
    /\ local' = IF p # profile THEN local
                ELSE [k \in Profile |-> IF row[k] = Absent THEN local[k] ELSE row[k]]
    /\ base' = IF p = profile /\ row[p] # Absent THEN row[p] ELSE base

\* What was applied to the active profile's key is not what the server will have.
Crosses(p, v) ==
    p = profile /\ v # Absent /\ (Unsent(p) \/ (v # server[p][p] /\ ~Coming(p)))

-----------------------------------------------------------------------------

\* /device/ping is answered, or is not (checkNpConnected).
Ping ==
    /\ np = "unknown" /\ np' \in {"yes", "no"}
    /\ UNCHANGED <<server, local, base, profile, registered, pulls, waiting, patches, feed, events, missed>>

\* register: without NP there is nothing to pull.
Register ==
    /\ np # "unknown" /\ ~registered /\ registered' = TRUE
    /\ pulls' = IF np = "yes" THEN pulls \cup {Pull(profile, TRUE)} ELSE pulls
    /\ UNCHANGED <<server, local, base, profile, np, waiting, patches, feed, events, missed>>

PullServed(q) ==
    /\ ~q.read
    /\ pulls' = (pulls \ {q}) \cup {[q EXCEPT !.read = TRUE, !.row = server[q.profile]]}
    /\ UNCHANGED <<server, local, base, profile, np, registered, waiting, patches, feed, events, missed>>

\* onPullComplete: what is here and not on the server is sent to it.
SendMissing(first, row) ==
    IF first /\ row[profile] = Absent /\ local'[profile] # Absent
    THEN PatchOut(profile, local'[profile], events)
    ELSE UNCHANGED <<waiting, patches>>

PullArrives(q) ==
    /\ q.read /\ pulls' = pulls \ {q}
    /\ Applied(q.profile, q.row)
    /\ SendMissing(q.first, q.row)
    /\ missed' = IF Crosses(q.profile, q.row[q.profile]) THEN missed \cup {"crossed"} ELSE missed
    /\ UNCHANGED <<server, profile, np, registered, feed, events>>

\* A pull that fails completes with no keys.
PullFails(q) ==
    /\ pulls' = pulls \ {q}
    /\ UNCHANGED <<local, base>>
    /\ SendMissing(q.first, Nothing)
    /\ missed' = missed \cup {"failed"}
    /\ UNCHANGED <<server, profile, np, registered, feed, events>>

\* The profile's own key is written and sent.
setProfileSetting(v) ==
    /\ local' = [local EXCEPT ![profile] = v]
    /\ PatchOut(profile, v, events + 1)

\* The settings screen (initSettings) writes the base key, its onChange the rest.
Edit(v) ==
    /\ v # base /\ Happens
    /\ base' = v /\ setProfileSetting(v)
    /\ UNCHANGED <<server, profile, np, registered, pulls, feed, missed>>

\* _whenNpKnown has found IS_NP set.
SendWaiting(w) ==
    /\ np # "unknown" /\ waiting' = waiting \ {w}
    /\ patches' = IF np = "yes"
                  THEN patches \cup {[to |-> profile, key |-> w.key, value |-> w.value, n |-> w.n]} ELSE patches
    /\ missed' = IF profile # w.key THEN missed \cup {"moved"} ELSE missed
    /\ UNCHANGED <<server, local, base, profile, np, registered, pulls, feed, events>>

\* The server stores a patch; other devices hear of it.
PatchStored(m) ==
    /\ patches' = patches \ {m}
    /\ server' = [server EXCEPT ![m.to][m.key] = m.value]
    /\ missed' = IF \E o \in patches \cup waiting : o.key = m.key /\ o.n < m.n THEN missed \cup {"crossed"} ELSE missed
    /\ UNCHANGED <<local, base, profile, np, registered, pulls, waiting, feed, events>>

PatchFails(m) ==
    /\ patches' = patches \ {m} /\ missed' = missed \cup {"failed"}
    /\ UNCHANGED <<server, local, base, profile, np, registered, pulls, waiting, feed, events>>

\* Another device, or the web page (usePluginSetting), changes a profile's value.
Elsewhere(p, v) ==
    /\ v # server[p][p] /\ Happens
    /\ server' = [server EXCEPT ![p][p] = v]
    /\ feed' = IF np = "yes" /\ registered THEN Append(feed, [profile |-> p, value |-> v]) ELSE feed
    /\ UNCHANGED <<local, base, profile, np, registered, pulls, waiting, patches, missed>>

Message ==
    LET w == Head(feed) IN
    /\ feed # <<>> /\ feed' = Tail(feed)
    /\ Applied(w.profile, [Nothing EXCEPT ![w.profile] = w.value])
    /\ missed' = IF /\ w.profile = profile
                    /\ Unsent(w.profile)
                       \/ (w.value # server[w.profile][w.profile] /\ \A i \in 2..Len(feed) : feed[i].profile # w.profile)
                 THEN missed \cup {"crossed"} ELSE missed
    /\ UNCHANGED <<server, profile, np, registered, pulls, waiting, patches, events>>

\* The socket was down; _connect opens it again and pulls nothing.
MessageLost ==
    /\ feed # <<>> /\ feed' = Tail(feed) /\ missed' = missed \cup {"failed"}
    /\ UNCHANGED <<server, local, base, profile, np, registered, pulls, waiting, patches, events>>

\* The base keys, and so the settings screen, follow the profile.
refreshProfileSettings(p) == local' = WithDefault(local, p) /\ base' = local'[p]

\* Mutant: the settings of the profile are not pulled.
SwitchProfileWithoutPull(p) ==
    /\ p # profile /\ Happens
    /\ profile' = p
    /\ refreshProfileSettings(p)
    /\ UNCHANGED <<server, np, registered, pulls, waiting, patches, feed, missed>>

\* switchToProfile: pullAll; the plugins load the profile's settings.
SwitchProfile(p) ==
    /\ p # profile /\ Happens
    /\ profile' = p
    /\ refreshProfileSettings(p)
    /\ pulls' = IF np = "yes" /\ registered THEN pulls \cup {Pull(p, FALSE)} ELSE pulls
    /\ UNCHANGED <<server, np, registered, waiting, patches, feed, missed>>

Next ==
    \/ Ping \/ Register \/ Message \/ MessageLost
    \/ \E q \in pulls : PullServed(q) \/ PullArrives(q) \/ PullFails(q)
    \/ \E v \in Chosen : Edit(v)
    \/ \E w \in waiting : SendWaiting(w)
    \/ \E m \in patches : PatchStored(m) \/ PatchFails(m)
    \/ \E p \in Profile, v \in Chosen : Elsewhere(p, v)
    \/ \E p \in Profile : SwitchProfile(p)

Spec == Init /\ [][Next]_vars

-----------------------------------------------------------------------------

Quiet == pulls = {} /\ waiting = {} /\ patches = {} /\ feed = <<>>

\* When nothing is under way any more the settings screen shows the active
\* profile's value, and it is the server's; unless a request or a message was
\* lost, an older value was laid over a newer one, or a patch made before the ping
\* was answered went out under another profile.
SettledSettingsAgree ==
    Quiet /\ missed = {} /\ np = "yes" /\ registered =>
        /\ base = local[profile]
        /\ server[profile][profile] \in {Absent, local[profile]}

\* Violated by the code (np.js:833): the defaults of a device do not go to the
\* server.  A first pull that fails completes with no keys, and the defaults are
\* sent over what the user has chosen.
DefaultsStayHere ==
    [][\A p \in Profile : server[p][p] \in Chosen => server'[p][p] \in Chosen]_vars

=============================================================================
