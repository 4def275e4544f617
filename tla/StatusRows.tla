----------------------------- MODULE StatusRows -----------------------------
(***************************************************************************)
(* The viewing status of a card in the Lampa plugin                        *)
(* (src/plugins/np_unwatched.js): the buttons of an open card, the rows of *)
(* the page "Mine" and the unwatched row.  A status is set by a button     *)
(* here, or elsewhere and heard of by the web socket; every change is laid *)
(* onto the rows that are on a page already, card by card.                 *)
(*                                                                         *)
(* A status carries the number of its change at the server, so that what   *)
(* is applied can be told from what has already been replaced.             *)
(***************************************************************************)
EXTENDS Naturals, Sequences, FiniteSets

CONSTANTS
    Show,
    MaxEvents,      \* (bound) statuses set
    MaxMoves        \* (bound) cards and pages opened and closed

VARIABLES
    server,         \* server[s]: its status and the number of the change
    open,           \* the open full card, a set of at most one show
    marked,         \* the button that is lit
    known,          \* _openCardStatus
    puts,           \* statuses set here, and whether the server has stored them
    gets,           \* gets[s]: statuses asked for, as the server answered
    feed,           \* messages of the web socket
    finds,          \* messages whose card is being fetched (fetchCardAsMovie)
    page,           \* the page Mine
    loaded,         \* loaded[r]: what the server sent for row r of the page being built
    row,            \* row[r][s]: the card of s in row r
    line, joins,    \* the unwatched row, and insertions into it that are being prepared
    applied, seen,  \* (history) the newest change laid onto the rows; shown by the buttons
    events, moves,
    missed          \* (history) the ways to go wrong, named below, that were taken

vars == <<server, open, marked, known, puts, gets, feed, finds, page, loaded, row, line, joins,
          applied, seen, events, moves, missed>>

Rows == {"watching", "planned"}    \* MINE_ROWS that show a status
Status == Rows \cup {"none"}
Change == [status : Status, n : 0..MaxEvents]
Told == [show : Show, change : Change]
Place == {"out", "in", "fading"}
Ways == {"failed", "crossed", "faded", "torn"}

TypeOK ==
    /\ server \in [Show -> Change]
    /\ open \subseteq Show /\ Cardinality(open) <= 1
    /\ marked \in Status \cup {"unlit"}
    /\ known \in SUBSET [show : Show, status : Status] /\ Cardinality(known) <= 1
    /\ puts \subseteq [show : Show, status : Status, stored : 0..MaxEvents]
    /\ gets \in [Show -> Seq(Change)]
    /\ feed \in Seq(Told) /\ finds \subseteq Told
    /\ joins \subseteq [show : Show, change : Change, ready : BOOLEAN]
    /\ page \in {"none", "loading", "built"}
    /\ loaded \in [Rows -> SUBSET (SUBSET Show)]
    /\ row \in [Rows -> [Show -> Place]] /\ line \in [Show -> Place]
    /\ applied \in [Show -> 0..MaxEvents] /\ seen \in [Show -> 0..MaxEvents]
    /\ events \in 0..MaxEvents /\ moves \in 0..MaxMoves
    /\ missed \subseteq Ways

NoRows == [r \in Rows |-> [s \in Show |-> "out"]]

Init ==
    /\ server = [s \in Show |-> [status |-> "none", n |-> 0]]
    /\ open = {} /\ marked = "unlit" /\ known = {}
    /\ puts = {} /\ gets = [s \in Show |-> <<>>] /\ feed = <<>> /\ finds = {} /\ joins = {}
    /\ page = "none" /\ loaded = [r \in Rows |-> {}] /\ row = NoRows
    /\ line = [s \in Show |-> "out"]
    /\ applied = [s \in Show |-> 0] /\ seen = [s \in Show |-> 0]
    /\ events = 0 /\ moves = 0 /\ missed = {}

Moves == moves < MaxMoves /\ moves' = moves + 1
Happens == events < MaxEvents /\ events' = events + 1
Is(s, st) == server[s].status = st

-----------------------------------------------------------------------------
(* The rows *)

\* insertCardIntoLine: not twice; a card that is fading out still counts.
Inserted(place) == IF place = "out" THEN "in" ELSE place

\* removeCompletedRowCard: the card fades out before it is taken away.
Removed(place) == IF place = "in" THEN "fading" ELSE place

\* Mutant: the card is inserted where it belongs and stays where it was.
SyncMineRowsInserting(s, st, found) ==
    row' = IF page # "built" THEN row
           ELSE [r \in Rows |-> [row[r] EXCEPT ![s] =
                    IF r = st /\ found THEN Inserted(@) ELSE @]]

\* syncMineRows: out of every row but the one of the status, and into that one if
\* the card is at hand.
SyncMineRows(s, st, found) ==
    row' = IF page # "built" THEN row
           ELSE [r \in Rows |-> [row[r] EXCEPT ![s] =
                    IF r # st THEN Removed(@) ELSE IF found THEN Inserted(@) ELSE @]]

Fades(s, st, found) ==
    found /\ st \in Rows /\ page = "built" /\ row[st][s] = "fading"

\* onStatusChanged: the page Mine, the buttons of the open card, the unwatched row.
OnStatusChanged(s, change, found) ==
    LET st == change.status IN
    /\ SyncMineRows(s, st, found)
    /\ gets' = IF s \in open THEN [gets EXCEPT ![s] = Append(@, server'[s])] ELSE gets
    /\ IF st = "watching"
       THEN /\ joins' = IF found THEN joins \cup {[show |-> s, change |-> change, ready |-> FALSE]} ELSE joins
            /\ UNCHANGED line
       ELSE /\ line' = [line EXCEPT ![s] = Removed(@)]
            /\ UNCHANGED joins
    /\ applied' = [applied EXCEPT ![s] = IF change.n > @ THEN change.n ELSE @]
    /\ missed' = missed \cup (IF change.n < applied[s] THEN {"crossed"} ELSE {})
                        \cup (IF Fades(s, st, found) THEN {"faded"} ELSE {})
                        \cup (IF ~found /\ st \in Rows THEN {"failed"} ELSE {})

\* fetchProgress: there is none if the show is not being watched any more.
Progress(j) ==
    /\ ~j.ready
    /\ joins' = (joins \ {j}) \cup (IF Is(j.show, "watching") THEN {[j EXCEPT !.ready = TRUE]} ELSE {})
    /\ UNCHANGED <<server, open, marked, known, puts, gets, feed, finds, page, loaded, row, line, applied, seen, events, moves, missed>>

\* The order of the row has come too: the card joins the unwatched row.
Join(j) ==
    /\ j.ready /\ joins' = joins \ {j}
    /\ line' = [line EXCEPT ![j.show] = Inserted(@)]
    /\ missed' = missed \cup (IF j.change.n < applied[j.show] THEN {"crossed"} ELSE {})
                        \cup (IF line[j.show] = "fading" THEN {"faded"} ELSE {})
    /\ UNCHANGED <<server, open, marked, known, puts, gets, feed, finds, page, loaded, row, applied, seen, events, moves>>

\* Half a second later (setTimeout in removeCompletedRowCard).
Fade(s) ==
    /\ "fading" \in {line[s]} \cup {row[r][s] : r \in Rows}
    /\ line' = [line EXCEPT ![s] = IF @ = "fading" THEN "out" ELSE @]
    /\ row' = [r \in Rows |-> [row[r] EXCEPT ![s] = IF @ = "fading" THEN "out" ELSE @]]
    /\ UNCHANGED <<server, open, marked, known, puts, gets, feed, finds, page, loaded, joins, applied, seen, events, moves, missed>>

-----------------------------------------------------------------------------
(* The page *)

\* addMineComponents, onCreate: every row is asked for on its own.
OpenPage ==
    /\ open = {} /\ page # "loading" /\ Moves
    /\ page' = "loading" /\ loaded' = [r \in Rows |-> {}] /\ row' = NoRows
    /\ UNCHANGED <<server, open, marked, known, puts, gets, feed, finds, line, joins, applied, seen, events, missed>>

RowServed(r) ==
    /\ page = "loading" /\ loaded[r] = {}
    /\ loaded' = [loaded EXCEPT ![r] = {{s \in Show : Is(s, r)}}]
    /\ UNCHANGED <<server, open, marked, known, puts, gets, feed, finds, page, row, line, joins, applied, seen, events, moves, missed>>

\* The last row has come; trackMineLines knows the rows from now on.
PageBuilt ==
    LET In(r, s) == \E shows \in loaded[r] : s \in shows IN
    /\ page = "loading" /\ \A r \in Rows : loaded[r] # {}
    /\ page' = "built"
    /\ row' = [r \in Rows |-> [s \in Show |-> IF In(r, s) THEN "in" ELSE "out"]]
    /\ missed' = IF \E s \in Show, r \in Rows : In(r, s) # Is(s, r) THEN missed \cup {"torn"} ELSE missed
    /\ UNCHANGED <<server, open, marked, known, puts, gets, feed, finds, loaded, line, joins, applied, seen, events, moves>>

-----------------------------------------------------------------------------
(* The buttons *)

\* renderStatusButtons, or refreshStatusButtonsSmooth on the way back to the card.
OpenCard(s) ==
    /\ open = {} /\ page # "loading" /\ Moves
    /\ open' = {s} /\ marked' = "unlit"
    /\ gets' = [gets EXCEPT ![s] = Append(@, server[s])]
    /\ UNCHANGED <<server, known, puts, feed, finds, page, loaded, row, line, joins, applied, seen, events, missed>>

CloseCard ==
    /\ open # {} /\ Moves /\ open' = {}
    /\ UNCHANGED <<server, marked, known, puts, gets, feed, finds, page, loaded, row, line, joins, applied, seen, events, missed>>

\* A button: lit at once, and sent unless the card is known to have that status.
Click(s, st) ==
    /\ s \in open
    /\ marked' = st
    /\ IF [show |-> s, status |-> st] \in known THEN UNCHANGED <<puts, events>>
       ELSE Happens /\ puts' = puts \cup {[show |-> s, status |-> st, stored |-> 0]}
    /\ UNCHANGED <<server, open, known, gets, feed, finds, page, loaded, row, line, joins, applied, seen, moves, missed>>

PutStored(p) ==
    /\ p.stored = 0
    /\ server' = [server EXCEPT ![p.show] = [status |-> p.status, n |-> @.n + 1]]
    /\ puts' = (puts \ {p}) \cup {[p EXCEPT !.stored = server[p.show].n + 1]}
    /\ UNCHANGED <<open, marked, known, gets, feed, finds, page, loaded, row, line, joins, applied, seen, events, moves, missed>>

\* The answer: the status is known, and laid onto the rows.
PutDone(p) ==
    /\ p.stored > 0 /\ puts' = puts \ {p}
    /\ known' = {[show |-> p.show, status |-> p.status]}
    /\ UNCHANGED server
    /\ OnStatusChanged(p.show, [status |-> p.status, n |-> p.stored], TRUE)
    /\ UNCHANGED <<open, marked, feed, finds, page, loaded, seen, events, moves>>

\* No answer, whether or not the server has it: the button stays lit.
PutFails(p) ==
    /\ puts' = puts \ {p} /\ missed' = missed \cup {"failed"}
    /\ UNCHANGED <<server, open, marked, known, gets, feed, finds, page, loaded, row, line, joins, applied, seen, events, moves>>

\* An answer leaves the queue, wherever it stands.
Without(queue, i) == SubSeq(queue, 1, i - 1) \o SubSeq(queue, i + 1, Len(queue))

\* fetchSubjectiveStatus is answered: the open card's buttons show it.
StatusArrives(s, i) ==
    /\ gets' = [gets EXCEPT ![s] = Without(@, i)]
    /\ IF s \in open
       THEN /\ marked' = gets[s][i].status
            /\ known' = {[show |-> s, status |-> gets[s][i].status]}
            /\ seen' = [seen EXCEPT ![s] = IF gets[s][i].n > @ THEN gets[s][i].n ELSE @]
            /\ missed' = IF gets[s][i].n < seen[s] THEN missed \cup {"crossed"} ELSE missed
       ELSE UNCHANGED <<marked, known, seen, missed>>
    /\ UNCHANGED <<server, open, puts, feed, finds, page, loaded, row, line, joins, applied, events, moves>>

-----------------------------------------------------------------------------
(* From elsewhere *)

SetElsewhere(s, st) ==
    /\ Happens /\ st # server[s].status
    /\ server' = [server EXCEPT ![s] = [status |-> st, n |-> @.n + 1]]
    /\ feed' = Append(feed, [show |-> s, change |-> server'[s]])
    /\ UNCHANGED <<open, marked, known, puts, gets, finds, page, loaded, row, line, joins, applied, seen, moves, missed>>

\* onWsStatus: a status that puts the card into a row needs the card itself.
Message ==
    /\ feed # <<>> /\ feed' = Tail(feed)
    /\ UNCHANGED server
    /\ IF Head(feed).change.status = "none"
       THEN OnStatusChanged(Head(feed).show, Head(feed).change, FALSE) /\ UNCHANGED finds
       ELSE finds' = finds \cup {Head(feed)} /\ UNCHANGED <<row, gets, line, joins, applied, missed>>
    /\ UNCHANGED <<open, marked, known, puts, page, loaded, seen, events, moves>>

\* The socket was down; connectWS opens it again and asks for nothing.
MessageLost ==
    /\ feed # <<>> /\ feed' = Tail(feed) /\ missed' = missed \cup {"failed"}
    /\ UNCHANGED <<server, open, marked, known, puts, gets, finds, page, loaded, row, line, joins, applied, seen, events, moves>>

\* The card has come, or has not: then it can only be taken out of rows.
Found(f) ==
    /\ finds' = finds \ {f}
    /\ UNCHANGED server
    /\ \E found \in BOOLEAN : OnStatusChanged(f.show, f.change, found)
    /\ UNCHANGED <<open, marked, known, puts, feed, page, loaded, seen, events, moves>>

Next ==
    \/ OpenPage \/ PageBuilt \/ \E r \in Rows : RowServed(r)
    \/ CloseCard \/ Message \/ MessageLost
    \/ \E s \in Show : OpenCard(s) \/ Fade(s)
    \/ \E s \in Show, st \in Status : Click(s, st) \/ SetElsewhere(s, st)
    \/ \E p \in puts : PutStored(p) \/ PutDone(p) \/ PutFails(p)
    \/ \E s \in Show : \E i \in DOMAIN gets[s] : StatusArrives(s, i)
    \/ \E f \in finds : Found(f)
    \/ \E j \in joins : Progress(j) \/ Join(j)

Spec == Init /\ [][Next]_vars

-----------------------------------------------------------------------------

Quiet == /\ puts = {} /\ feed = <<>> /\ finds = {} /\ joins = {}
         /\ \A s \in Show : gets[s] = <<>> /\ line[s] # "fading" /\ \A r \in Rows : row[r][s] # "fading"

\* When nothing is under way any more, a card is in the row of its status and in
\* no other, the button of its status is lit, and a click that is not sent because
\* the status is known asks for nothing new; unless a request failed, an older
\* change was laid over a newer one, a card was wanted again while it was fading
\* out, or a status changed while the rows of the page were fetched one by one.
SettledRowsAreTrue ==
    Quiet /\ missed = {} =>
        /\ page = "built" => \A s \in Show, r \in Rows : (row[r][s] = "in") <=> Is(s, r)
        /\ \A s \in Show : (line[s] = "in") <=> Is(s, "watching")
        /\ \A s \in open : Is(s, marked) /\ \A k \in known : k.show = s => Is(s, k.status)

\* Violated by the code (1586): a message that needs its card fetched is applied
\* after a later one that does not.
MessagesInOrder ==
    Quiet /\ missed \subseteq {"crossed"} /\ page = "built" =>
        \A s \in Show, r \in Rows : (row[r][s] = "in") => Is(s, r)

=============================================================================
