------------------------------- MODULE AdminPage -------------------------------
(***************************************************************************)
(* The administrator's page of the web client (src/web/src/pages           *)
(* /AdminPage.tsx).  Five maintenance jobs run on the server, one state    *)
(* machine each: the page starts and stops a job, asks for its status, and *)
(* while it is shown as running asks every three seconds.  Below them is   *)
(* the table of the users, asked for whenever its page, order or search    *)
(* changes and after every act on a user.  Answers come in any order.  The *)
(* jobs share nothing, so one of them is modelled, beside the table.       *)
(***************************************************************************)
EXTENDS Naturals, FiniteSets

CONSTANTS
    View,         \* what the table can be asked for: page, order, search
    MaxAsks,      \* (bound) requests under way when the administrator acts or the poll ticks
    MaxEvents     \* (bound) what the administrator does, and what happens to the job

VARIABLES
    job,          \* on the server: "starting" until its goroutine has set the running flag
    status,       \* setFixRtStatus and the like: shown as running, from the next drawing on
    drawn,        \* the status last drawn
    poll,         \* the interval is set
    users,        \* how many acts changed the users, on the server
    view,         \* usersPage and the rest
    table,        \* usersPaged: what it was asked for and the acts it knows of
    asks,         \* requests under way
    events,
    elsewhere,    \* (ghost) the job runs and was not started here
    crossed       \* (ghost) an answer overtook another

vars == <<job, status, drawn, poll, users, view, table, asks, events, elsewhere, crossed>>

Kinds == {"run", "stop", "status", "tick", "act", "users"}
Gots == {"none", "started", "already_running", "idle", "running", "done"}
Asks == [what : Kinds, view : View, got : Gots, users : 0..MaxEvents]

TypeOK ==
    /\ job \in {"idle", "starting", "running"}
    /\ status \in BOOLEAN /\ drawn \in BOOLEAN /\ poll \in BOOLEAN
    /\ users \in 0..MaxEvents /\ view \in View
    /\ table \in [view : View, users : 0..MaxEvents]
    /\ asks \subseteq Asks
    /\ events \in 0..MaxEvents
    /\ elsewhere \in BOOLEAN /\ crossed \in BOOLEAN

Ask(what) == [what |-> what, view |-> view, got |-> "none", users |-> 0]
Users(v) == [Ask("users") EXCEPT !.view = v]

\* The page has loaded: the status of the job and the first page of the users.
Init ==
    /\ job \in {"idle", "running"}
    /\ status = FALSE /\ drawn = FALSE /\ poll = FALSE
    /\ users = 0 /\ view \in View
    /\ table = [view |-> view, users |-> 0]
    /\ asks = {Ask("status")}
    /\ events = 0 /\ elsewhere = FALSE /\ crossed = FALSE

Event == events < MaxEvents /\ events' = events + 1
Room == Cardinality(asks) < MaxAsks
Asked(what) == \E a \in asks : a.what = what

-----------------------------------------------------------------------------
(* The administrator *)

\* runFixRuntime, stopFixRuntime: not again before it is answered (bound).
Press(what) ==
    /\ Event /\ Room /\ what \in {"run", "stop"} /\ ~Asked(what)
    /\ asks' = asks \cup {Ask(what)}
    /\ UNCHANGED <<job, status, drawn, poll, users, view, table, elsewhere, crossed>>

\* Another page of the table, another order or search.
TurnTo(v) ==
    /\ Event /\ Room /\ v # view
    /\ view' = v
    /\ asks' = asks \cup {Users(v)}
    /\ crossed' = (crossed \/ Asked("users") \/ Asked("act"))
    /\ UNCHANGED <<job, status, drawn, poll, users, table, elsewhere>>

\* setRole, deleteUser, blockUser, createUser...: the table is asked for again, as
\* it was shown when the act began.
Act ==
    /\ Event /\ Room /\ ~Asked("act")
    /\ asks' = asks \cup {Ask("act")}
    /\ crossed' = (crossed \/ Asked("users"))
    /\ UNCHANGED <<job, status, drawn, poll, users, view, table, elsewhere>>

-----------------------------------------------------------------------------
(* The server *)

Running == job = "running"

\* A start answers before the job's goroutine has begun, a stop before it has ended.
Serve(a) ==
    /\ a.got = "none"
    /\ \E got \in Gots \ {"none"} :
         /\ asks' = (asks \ {a}) \cup {[a EXCEPT !.got = got, !.users = users]}
         /\ CASE a.what = "run" -> got = IF Running THEN "already_running" ELSE "started"
              [] a.what \in {"status", "tick"} -> got = IF Running THEN "running" ELSE "idle"
              [] OTHER -> got = "done"
    /\ job' = IF a.what = "run" /\ job = "idle" THEN "starting" ELSE job
    /\ users' = IF a.what = "act" THEN users + 1 ELSE users
    /\ UNCHANGED <<status, drawn, poll, view, table, events, elsewhere, crossed>>

JobBegins ==
    /\ job = "starting"
    /\ job' = "running"
    /\ UNCHANGED <<status, drawn, poll, users, view, table, asks, events, elsewhere, crossed>>

\* Its work is done, or its context was cancelled some steps ago.
JobEnds ==
    /\ job = "running"
    /\ job' = "idle" /\ elsewhere' = FALSE
    /\ UNCHANGED <<status, drawn, poll, users, view, table, asks, events, crossed>>

\* By the schedule, or by another administrator.
JobStarts ==
    /\ Event /\ job = "idle"
    /\ job' = "running" /\ elsewhere' = TRUE
    /\ UNCHANGED <<status, drawn, poll, users, view, table, asks, crossed>>

-----------------------------------------------------------------------------
(* The page *)

\* Mutant: the status is not asked for once the job has started.
RunAnsweredOnly(a) ==
    /\ a.what \in {"run", "stop"}
    /\ asks' = (asks \ {a}) \cup (IF a.what = "run" THEN {} ELSE {Ask("status")})
    /\ UNCHANGED <<status, poll, table, crossed>>

\* A job that runs already is only spoken of.
RunAnswered(a) ==
    /\ a.what \in {"run", "stop"}
    /\ asks' = (asks \ {a}) \cup (IF a.got = "already_running" THEN {} ELSE {Ask("status")})
    /\ UNCHANGED <<status, poll, table, crossed>>

\* The poll ends with the job.  An answer from before a start, or from before the job's
\* goroutine has begun, ends it too, and of two answers in one drawing the first may end
\* the poll and the second bring the status back: no change is drawn that would set the
\* poll again.
StatusAnswered(a) ==
    /\ a.what \in {"status", "tick"}
    /\ status' = (a.got = "running")
    /\ poll' = (poll /\ (a.what = "status" \/ a.got = "running"))
    /\ asks' = asks \ {a}
    /\ crossed' = (crossed \/ drawn # status \/ (a.got = "idle" /\ job # "idle"))
    /\ UNCHANGED table

ActAnswered(a) ==
    /\ a.what = "act"
    /\ asks' = (asks \ {a}) \cup {Users(a.view)}
    /\ UNCHANGED <<status, poll, table, crossed>>

UsersAnswered(a) ==
    /\ a.what = "users"
    /\ table' = [view |-> a.view, users |-> a.users]
    /\ asks' = asks \ {a}
    /\ UNCHANGED <<status, poll, crossed>>

Answer(a) ==
    /\ a.got # "none"
    /\ RunAnswered(a) \/ StatusAnswered(a) \/ ActAnswered(a) \/ UsersAnswered(a)
    /\ UNCHANGED <<job, drawn, users, view, events, elsewhere>>

\* The page is drawn: a job newly shown as running is polled.
Draw ==
    /\ drawn # status
    /\ drawn' = status
    /\ poll' = (poll \/ status)
    /\ UNCHANGED <<job, status, users, view, table, asks, events, elsewhere, crossed>>

Tick ==
    /\ poll /\ Room
    /\ asks' = asks \cup {Ask("tick")}
    /\ UNCHANGED <<job, status, drawn, poll, users, view, table, events, elsewhere, crossed>>

-----------------------------------------------------------------------------

Next ==
    \/ \E what \in {"run", "stop"} : Press(what)
    \/ \E v \in View : TurnTo(v)
    \/ Act \/ JobBegins \/ JobEnds \/ JobStarts \/ Draw \/ Tick
    \/ \E a \in asks : Serve(a) \/ Answer(a)

Spec == Init /\ [][Next]_vars

-----------------------------------------------------------------------------

\* When nothing is under way a job shown as running is polled, so that its end will
\* be seen, and one that was started here is shown; the table is the one asked for
\* and knows of every act.  No answer having overtaken another.
SettledPageKnows ==
    asks = {} /\ drawn = status /\ ~crossed =>
        /\ status => poll
        /\ job # "idle" /\ ~elsewhere => status
        /\ table = [view |-> view, users |-> users]

=============================================================================
