------------------------------ MODULE DeviceLink ------------------------------
(***************************************************************************)
(* How a player is linked to an account (src/plugins/np.js).  It asks the  *)
(* server for a code, shows it with a countdown, and polls until the user  *)
(* has typed it on the site; then it keeps the token of the device the     *)
(* server made, says so for two seconds and reloads a second later.  The   *)
(* token can be typed in the settings too.  Whether the server knows the   *)
(* token is asked at every start and kept in window.IS_NP, on which        *)
(* everything else in the plugins waits.                                   *)
(***************************************************************************)
EXTENDS Naturals, FiniteSets

CONSTANTS
    Code,         \* codes the server gives; the device made for one has its name
    None,         \* no token is stored
    MaxDevices,   \* the limit of the user's role
    MaxAsks,      \* (bound) requests under way when something is asked
    MaxEvents     \* (bound) what the user does here and on the site, and failures

VARIABLES
    given, late,  \* device_codes: the codes given, and those past their time
    linked,       \* the codes that have a device
    devices,      \* the devices there are
    links,        \* LinkDeviceCode under way on the site: the code was found good
    token, IS_NP, \* numparser_api_key, window.IS_NP
    overlay,      \* of each code: none, open, "linked" while it says so, "reloading"
    asks,         \* requests of the player under way
    events,
    used,         \* (ghost) tokens that were stored at some time
    missed        \* (ghost) what the player could not know

vars == <<given, late, linked, devices, links, token, IS_NP, overlay, asks, events, used, missed>>
server == <<given, late, linked, devices, links>>
player == <<token, IS_NP, overlay, asks, used>>

Shown == {"none", "open", "linked", "reloading"}
Asks == [what : {"code", "status", "ping"}, of : Code, got : {"none", "yes", "no"}]

TypeOK ==
    /\ given \subseteq Code /\ late \subseteq given /\ linked \subseteq given
    /\ devices \subseteq Code /\ links \subseteq given
    /\ token \in Code \cup {None} /\ IS_NP \in {"unknown", "yes", "no"}
    /\ overlay \in [Code -> Shown]
    /\ asks \subseteq Asks
    /\ events \in 0..MaxEvents
    /\ used \subseteq Code
    /\ missed \in BOOLEAN

Event == events < MaxEvents /\ events' = events + 1
Room == Cardinality(asks) < MaxAsks
Ask(what, c) == [what |-> what, of |-> c, got |-> "none"]
Closed == [c \in Code |-> "none"]

\* checkNpConnected: without a token there is nothing to ask.
Checked(others, t) == others \cup (IF t = None THEN {} ELSE {Ask("ping", t)})

\* The player has just started.
Init ==
    /\ given = {} /\ late = {} /\ linked = {} /\ devices = {} /\ links = {}
    /\ token = None /\ IS_NP = "no" /\ overlay = Closed /\ asks = {}
    /\ events = 0 /\ used = {} /\ missed = FALSE

-----------------------------------------------------------------------------
(* The player *)

\* startDeviceActivation: nothing keeps a second one from starting.
Start(c) ==
    /\ Event /\ Room /\ c \notin given /\ Ask("code", c) \notin asks
    /\ asks' = asks \cup {Ask("code", c)}
    /\ UNCHANGED <<server, token, IS_NP, overlay, used, missed>>

\* showOverlay, startPolling.
showOverlay(a) ==
    /\ a.what = "code" /\ a.got = "yes"
    /\ overlay' = [overlay EXCEPT ![a.of] = "open"]
    /\ asks' = asks \ {a}
    /\ UNCHANGED <<server, token, IS_NP, events, used, missed>>

\* The interval runs until the overlay is removed, after the answer it waits for too.
Poll(c) ==
    /\ Room /\ overlay[c] \in {"open", "linked"} /\ \A a \in asks : a.of = c => a.what # "status"
    /\ asks' = asks \cup {Ask("status", c)}
    /\ UNCHANGED <<server, token, IS_NP, overlay, events, used, missed>>

\* The token is kept, whether or not the overlay is still there; the timers run.
LinkAnswered(a) ==
    /\ a.what = "status" /\ a.got # "none"
    /\ IF a.got = "yes"
       THEN /\ token' = a.of /\ used' = used \cup {a.of}
            /\ IS_NP' = "yes"
            /\ overlay' = [overlay EXCEPT ![a.of] = "linked"]
            /\ missed' = (missed \/ a.of \notin devices)
       ELSE UNCHANGED <<token, used, IS_NP, overlay, missed>>
    /\ asks' = asks \ {a}
    /\ UNCHANGED <<server, events>>

\* Two seconds later: the overlay goes.
removeOverlay(c) ==
    /\ overlay[c] = "linked"
    /\ overlay' = [overlay EXCEPT ![c] = "reloading"]
    /\ UNCHANGED <<server, token, IS_NP, asks, events, used, missed>>

\* Back, a click beside the box, or the end of the countdown, which began after the
\* server's: the code is still good there, if it was not late.
Cancel(c) ==
    /\ overlay[c] = "open"
    /\ IF c \in late THEN UNCHANGED events ELSE Event
    /\ overlay' = [overlay EXCEPT ![c] = "none"]
    /\ missed' = TRUE
    /\ UNCHANGED <<server, token, IS_NP, asks, used>>

\* location.reload: what is under way is lost, and the server is asked about the token.
Reload ==
    /\ \E c \in Code : overlay[c] = "reloading"
    /\ overlay' = Closed
    /\ IS_NP' = IF token = None THEN "no" ELSE "unknown"
    /\ asks' = Checked({}, token)
    /\ missed' = (missed \/ (\E c \in Code : overlay[c] = "open") \/ (\E a \in asks : a.what # "ping"))
    /\ UNCHANGED <<server, token, events, used>>

\* Mutant: without a token nothing is asked, and the last answer stays.
TypeTokenKeepingAnswer(t) ==
    /\ Event /\ Room /\ t # token /\ t \in devices \cup {None}
    /\ token' = t /\ used' = used \cup ({t} \ {None})
    /\ asks' = Checked(asks, t)
    /\ missed' = (missed \/ \E a \in asks : a.what = "ping")
    /\ UNCHANGED <<server, overlay, IS_NP>>

\* The token is typed in the settings, or cleared.
TypeToken(t) ==
    /\ Event /\ Room /\ t # token /\ t \in devices \cup {None}
    /\ token' = t /\ used' = used \cup ({t} \ {None})
    /\ IS_NP' = IF t = None THEN "no" ELSE IS_NP
    /\ asks' = Checked(asks, t)
    /\ missed' = (missed \/ \E a \in asks : a.what = "ping")
    /\ UNCHANGED <<server, overlay>>

\* The last answer counts, whichever token it is about.
PingAnswered(a) ==
    /\ a.what = "ping" /\ a.got # "none"
    /\ IS_NP' = a.got
    /\ asks' = asks \ {a}
    /\ missed' = (missed \/ a.of # token \/ (a.got = "yes") # (token \in devices))
    /\ UNCHANGED <<server, token, overlay, events, used>>

\* No answer: of the server about the token that it is not good, else none.
AskFails(a) ==
    /\ Event
    /\ asks' = asks \ {a}
    /\ IS_NP' = IF a.what = "ping" THEN "no" ELSE IS_NP
    /\ missed' = (missed \/ a.what # "status")
    /\ UNCHANGED <<server, token, overlay, used>>

-----------------------------------------------------------------------------
(* The server *)

Serve(a) ==
    /\ a.got = "none"
    /\ given' = IF a.what = "code" THEN given \cup {a.of} ELSE given
    /\ LET yes == CASE a.what = "code"   -> TRUE
                    [] a.what = "status" -> a.of \in (linked \cap devices) \ late
                    [] a.what = "ping"   -> a.of \in devices
       IN asks' = (asks \ {a}) \cup {[a EXCEPT !.got = IF yes THEN "yes" ELSE "no"]}
    /\ UNCHANGED <<late, linked, devices, links, token, IS_NP, overlay, events, used, missed>>

\* LinkDeviceCode on the site: the code is good, is not used, and there is room.
LinkFound(c) ==
    /\ Event /\ c \in given \ (late \cup linked \cup links)
    /\ Cardinality(devices) < MaxDevices
    /\ links' = links \cup {c}
    /\ UNCHANGED <<given, late, linked, devices, player, missed>>

\* ... and then the device is made and the code marked.
LinkMade(c) ==
    /\ c \in links
    /\ links' = links \ {c} /\ devices' = devices \cup {c} /\ linked' = linked \cup {c}
    /\ missed' = (missed \/ c \in late)
    /\ UNCHANGED <<given, late, player, events>>

\* Its time is over before the player has asked once more.
CodeEnds(c) ==
    /\ Event /\ c \in given \ late
    /\ late' = late \cup {c}
    /\ missed' = (missed \/ (c \in linked /\ overlay[c] = "open"))
    /\ UNCHANGED <<given, linked, devices, links, player>>

\* A device is deleted on the site.
DeleteDevice(c) ==
    /\ Event /\ c \in devices
    /\ devices' = devices \ {c}
    /\ missed' = (missed \/ c = token)
    /\ UNCHANGED <<given, late, linked, links, player>>

-----------------------------------------------------------------------------

Next ==
    \/ Reload
    \/ \E c \in Code : \/ Start(c) \/ Poll(c) \/ removeOverlay(c) \/ Cancel(c)
                       \/ LinkFound(c) \/ LinkMade(c) \/ CodeEnds(c) \/ DeleteDevice(c)
    \/ \E t \in Code \cup {None} : TypeToken(t)
    \/ \E a \in asks : \/ Serve(a) \/ AskFails(a)
                       \/ showOverlay(a) \/ LinkAnswered(a) \/ PingAnswered(a)

Spec == Init /\ [][Next]_vars

-----------------------------------------------------------------------------

\* When nothing is under way, the plugins take the server as connected exactly if it
\* knows the token, and no device was made on the site that never reached the
\* player; nothing having been cancelled, lost or deleted meanwhile.
SettledLinkIsTrue ==
    asks = {} /\ links = {} /\ overlay = Closed /\ ~missed =>
        /\ (IS_NP = "yes") = (token \in devices)
        /\ devices \subseteq used

\* Violated by the code: what was cancelled links nothing.
CancelledLinksNothing ==
    [][\A c \in Code : overlay[c] = "none" /\ token # c /\ token' = c => c \in used]_vars

=============================================================================
