------------------------- MODULE EpisodeMarks_proofs -------------------------
(***************************************************************************)
(* Proofs about EpisodeMarks: its type invariant, that the marks and the   *)
(* saved lists of one profile's account never reach another's, and that    *)
(* the list in memory hides nothing but marked episodes, for any profiles, *)
(* episodes and number of requests in flight.                              *)
(***************************************************************************)
EXTENDS EpisodeMarks, TLAPS, FiniteSetTheorems

-----------------------------------------------------------------------------
(***************************************************************************)
(* Requests and where they are placed                                      *)
(***************************************************************************)
\* A request that is placed is one of those given or one that was there.
LEMMA PlaceIs ==
  ASSUME NEW f, NEW rs, Place(f, rs)
  PROVE  /\ requests' = [s \in Slot |-> requests'[s]]
         /\ \A s \in Slot : requests'[s] \in rs \/ requests'[s] = f[s]
<1>1. PICK h \in Injection(rs, {s \in Slot : f[s] = Free}) :
        requests' = [s \in Slot |-> IF \E r \in rs : h[r] = s
                                    THEN CHOOSE r \in rs : h[r] = s ELSE f[s]]
  BY DEF Place
<1>2. ASSUME NEW s \in Slot, \E r \in rs : h[r] = s
      PROVE  (CHOOSE r \in rs : h[r] = s) \in rs
  BY <1>2
<1> QED BY <1>1, <1>2

\* A request that left has an address; one about an episode names it.
Whole(r) == /\ r.phase = "queued" => r.kind = "move"
            /\ r.phase # "queued" => r.to # None
            /\ r.kind \in {"map", "check", "uncheck", "ask", "apply"} => r.ep \in Episode
Sound == {r \in Requests : Whole(r)}

Table == [Slot -> Sound \cup {Free}]

TypeInv == TypeOK /\ requests \in Table

\* What Request, Outgoing and Loading make.
LEMMA QueuedIs ==
  ASSUME NEW p \in Profile, NEW w \in Want
  PROVE  /\ Request("move", p, None, w) \in Sound
         /\ Request("move", p, None, w).kind = "move" /\ Request("move", p, None, w).by = p
         /\ Request("move", p, None, w).to = None /\ Request("move", p, None, w).list = None
BY DEF Request, Requests, ViaService, Status, Sound, Whole

LEMMA OutgoingIs ==
  ASSUME TypeInv, NEW k \in ViaService, NEW p \in Profile, NEW w \in Want,
         NEW e \in Episode \cup {None}, e \in Episode \/ k \in {"list", "open"}
  PROVE  /\ Outgoing(k, p, e, w) \in Sound
         /\ \A n \in BOOLEAN : [Outgoing(k, p, e, w) EXCEPT !.note = n] \in Sound
         /\ Outgoing(k, p, e, w).kind = k /\ Outgoing(k, p, e, w).by = p
         /\ Outgoing(k, p, e, w).to = token[profile] /\ Outgoing(k, p, e, w).ep = e
         /\ Outgoing(k, p, e, w).want = w /\ Outgoing(k, p, e, w).list = None
<1> DEFINE o == Outgoing(k, p, e, w)
<1>1. token[profile] \in Profile /\ token[profile] # None
  BY MarksAssumption DEF TypeInv, TypeOK
<1>2. /\ o \in Requests /\ o.kind = k /\ o.by = p /\ o.to = token[profile] /\ o.ep = e
      /\ o.want = w /\ o.list = None /\ o.phase = "sent"
  BY <1>1 DEF Outgoing, Request, Requests, Status
<1> HIDE DEF o
<1>3. o \in Sound /\ \A n \in BOOLEAN : [o EXCEPT !.note = n] \in Sound
  BY <1>1, <1>2 DEF Requests, Sound, Whole, ViaService
<1> QED BY <1>2, <1>3 DEF o

LEMMA LoadingIs ==
  ASSUME TypeInv, NEW k \in ViaStorage, NEW p \in Profile, NEW w \in Want, NEW e \in Episode
  PROVE  /\ Loading(k, p, e, w) \in Sound
         /\ Loading(k, p, e, w).kind = k /\ Loading(k, p, e, w).by = p
         /\ Loading(k, p, e, w).to = profile /\ Loading(k, p, e, w).ep = e
         /\ Loading(k, p, e, w).want = w /\ Loading(k, p, e, w).list = None
<1>1. profile \in Profile /\ profile # None
  BY MarksAssumption DEF TypeInv, TypeOK
<1> QED BY <1>1 DEF Loading, Request, Requests, Status, Sound, Whole

LEMMA PlacedTyped ==
  ASSUME NEW f \in Table, NEW rs \in SUBSET Sound, Place(f, rs)
  PROVE  requests' \in Table
BY PlaceIs DEF Table

LEMMA ReplacedTyped ==
  ASSUME TypeInv, NEW s \in Slot, NEW rs \in SUBSET Sound, Replace(s, rs)
  PROVE  requests' \in Table
<1>1. [requests EXCEPT ![s] = Free] \in Table
  BY DEF TypeInv, Table
<1> QED BY <1>1, PlacedTyped DEF Replace

LEMMA KeptTyped ==
  ASSUME TypeInv, NEW s \in Slot, NEW r \in Sound, Keep(s, r)
  PROVE  requests' \in Table
BY DEF TypeInv, Keep, Table

\* A slot that is not free holds a sound request.
LEMMA HeldIs ==
  ASSUME TypeInv, NEW s \in Slot, requests[s] # Free
  PROVE  /\ requests[s] \in Sound /\ requests[s] \in Requests
         /\ requests[s].by \in Profile /\ requests[s].to \in Profile \cup {None}
         /\ requests[s].ep \in Episode \cup {None} /\ requests[s].want \in Want
         /\ requests[s].list \in Lists \cup {None} /\ requests[s].eps \in SUBSET Episode
         /\ requests[s].is \in Status
BY DEF TypeInv, Table, Sound, Requests

\* What a tick leads to: requests of its profile, about its episode.
LEMMA ProcessIs ==
  ASSUME TypeInv, NEW p \in Profile, NEW e \in Episode, NEW w \in Want, NEW r \in ProcessEpisode(p, e, w)
  PROVE  /\ r \in Sound /\ r.by = p /\ r.list = None /\ r.kind # "map"
         /\ r.to \in {token[profile], profile, None}
         /\ r.kind \in {"check", "ask"} => r.ep = e /\ (r.want = "mark" => w = "mark")
         /\ r.kind = "check" => r.want = "mark"
<1>1. ASSUME r \in Moves(p, w)
      PROVE  r \in Sound /\ r.by = p /\ r.list = None /\ r.kind = "move" /\ r.to = None
  BY <1>1, QueuedIs DEF Moves
<1>2. ASSUME r \in MarkRequests(p, e), w = "mark"
      PROVE  /\ r \in Sound /\ r.by = p /\ r.list = None /\ r.kind \in {"check", "ask"}
             /\ r.to \in {token[profile], profile} /\ r.ep = e /\ r.want = "mark"
  <2>1. CASE r = Check(p, e)
    <3> DEFINE o == Outgoing("check", p, e, "mark")
    <3>1. /\ \A n \in BOOLEAN : [o EXCEPT !.note = n] \in Sound
          /\ o \in Sound /\ o.kind = "check" /\ o.by = p /\ o.to = token[profile] /\ o.ep = e
          /\ o.want = "mark" /\ o.list = None
      BY OutgoingIs DEF ViaService, Want
    <3>2. r = [o EXCEPT !.note = (cardStatus = "watching")]
      BY <2>1 DEF Check
    <3> HIDE DEF o
    <3> QED BY <3>1, <3>2 DEF Sound, Requests
  <2>2. CASE r = Loading("ask", p, e, "mark")
    BY <2>2, LoadingIs DEF ViaStorage, Want
  <2> QED BY <1>2, <2>1, <2>2 DEF MarkRequests
<1>3. ASSUME r \in UnmarkRequests(p, e)
      PROVE  /\ r \in Sound /\ r.by = p /\ r.list = None /\ r.kind \in {"uncheck", "ask"}
             /\ r.to \in {token[profile], profile} /\ r.ep = e /\ r.want = "unmark"
  <2>1. CASE r = Outgoing("uncheck", p, e, "unmark")
    BY <2>1, OutgoingIs DEF ViaService, Want
  <2>2. CASE r = Loading("ask", p, e, "unmark")
    BY <2>2, LoadingIs DEF ViaStorage, Want
  <2> QED BY <1>3, <2>1, <2>2 DEF UnmarkRequests
<1>4. \/ r \in UnmarkRequests(p, e)
      \/ r \in Moves(p, w)
      \/ w = "mark" /\ r \in MarkRequests(p, e)
  BY DEF ProcessEpisode
<1> QED BY <1>1, <1>2, <1>3, <1>4

\* Counting a mark keeps a list one.
LEMMA CountedIs ==
  ASSUME NEW l \in Lists, l.left > 0, NEW e \in Episode, NEW w \in Want
  PROVE  Counted(l, e, w) \in Lists /\ Counted(l, e, w).of = l.of
<1>1. Cardinality(Episode) \in Nat
  BY MarksAssumption, FS_CardinalityType
<1>2. l.left \in Nat /\ l.left <= Cardinality(Episode)
  BY <1>1 DEF Lists
<1> DEFINE left == IF w = "mark" THEN l.left - 1
                   ELSE IF l.left < Cardinality(Episode) THEN l.left + 1 ELSE l.left
           eps == IF left = 0 THEN {} ELSE IF w = "mark" THEN l.eps \ {e} ELSE l.eps
           is == IF w = "mark" /\ e \notin l.eps THEN "other" ELSE l.is
<1>3. left \in 0 .. Cardinality(Episode)
  BY <1>1, <1>2
<1>4. eps \in SUBSET Episode /\ is \in Status
  BY DEF Lists, Status
<1>5. Counted(l, e, w) = [l EXCEPT !.left = left, !.eps = eps, !.is = is]
  BY DEF Counted
<1> HIDE DEF left, eps, is
<1> QED BY <1>3, <1>4, <1>5 DEF Lists

-----------------------------------------------------------------------------
(***************************************************************************)
(* Types                                                                   *)
(***************************************************************************)
\* Requests go out, are answered, refused, repeated, or fail.
LEMMA AnswerTyped ==
  ASSUME TypeInv, NEW s \in Slot, Answer(s) \/ Fail(s)
  PROVE  TypeInv'
<1> DEFINE r == requests[s]
<1>0. TypeOK
  BY DEF TypeInv
<1>1. /\ r # Free /\ r \in Sound /\ r \in Requests /\ r.by \in Profile /\ r.to \in Profile \cup {None}
      /\ r.ep \in Episode \cup {None}
  <2>1. r # Free
    BY DEF Answer, SendMove, Busy, Serve, AtService, Refuse, Relogin, LoggedIn, Load, Fail
  <2> QED BY <2>1, HeldIs
<1>2. profile \in Profile /\ token[profile] \in Profile /\ None \notin Profile
  BY <1>0, MarksAssumption DEF TypeOK
<1>3. ASSUME SendMove(s) PROVE TypeInv'
  <2>1. [r EXCEPT !.phase = "sent", !.to = token[profile]] \in Sound
    BY <1>1, <1>2 DEF Sound, Whole, Requests
  <2>2. requests' \in Table
    BY <1>3, <2>1, KeptTyped DEF SendMove
  <2> QED BY <1>0, <1>3, <2>2 DEF SendMove, Resume, service, memory, TypeInv, TypeOK, Table, Sound
<1>4. ASSUME Serve(s) PROVE TypeInv'
  <2> DEFINE given == IF r.kind = "list" /\ status[r.to] = "watching" THEN Episode \ watched[r.to] ELSE {}
  <2>1. r.phase = "sent" /\ r.to \in Profile
    BY <1>1, <1>4 DEF Serve, AtService, Sound, Whole
  <2>2. status[r.to] \in Status /\ given \in SUBSET Episode
    BY <1>0, <2>1 DEF TypeOK
  <2>3. Keep(s, [r EXCEPT !.phase = "ok", !.is = status[r.to], !.eps = given])
    BY <1>4 DEF Serve
  <2> HIDE DEF given
  <2>4. [r EXCEPT !.phase = "ok", !.is = status[r.to], !.eps = given] \in Sound
    BY <1>1, <1>2, <2>1, <2>2 DEF Sound, Whole, Requests
  <2>5. requests' \in Table
    BY <2>3, <2>4, KeptTyped
  <2>6. watched' \in [Profile -> SUBSET Episode]
    <3>1. r.kind = "check" => r.ep \in Episode
      BY <1>1 DEF Sound, Whole
    <3>2. watched' = [watched EXCEPT ![r.to] = CASE r.kind = "check" -> @ \cup {r.ep}
                                                 [] r.kind = "uncheck" -> @ \ {r.ep}
                                                 [] OTHER -> @]
      BY <1>4 DEF Serve
    <3> QED BY <1>0, <3>1, <3>2, <2>1 DEF TypeOK
  <2>7. status' \in [Profile -> Status]
    BY <1>0, <1>4 DEF Serve, TypeOK, Status
  <2> QED BY <1>0, <1>4, <2>5, <2>6, <2>7 DEF Serve, memory, history, TypeInv, TypeOK, Table, Sound
<1>5. ASSUME Refuse(s) PROVE TypeInv'
  <2> DEFINE ph == IF r.again THEN "failed" ELSE "denied"
  <2>1. [r EXCEPT !.phase = ph] \in Sound
    BY <1>1, <1>5 DEF Refuse, AtService, Sound, Whole, Requests
  <2>2. requests' \in Table
    BY <1>5, <2>1, KeptTyped DEF Refuse
  <2> QED BY <1>0, <1>5, <2>2 DEF Refuse, service, memory, history, TypeInv, TypeOK, Table, Sound
<1>6. ASSUME Relogin(s) PROVE TypeInv'
  <2>1. [r EXCEPT !.phase = "login", !.to = profile] \in Sound
    BY <1>1, <1>2 DEF Sound, Whole, Requests
  <2>2. requests' \in Table
    BY <1>6, <2>1, KeptTyped DEF Relogin
  <2> QED BY <1>0, <1>6, <2>2 DEF Relogin, Resume, service, memory, TypeInv, TypeOK, Table, Sound
<1>7. ASSUME LoggedIn(s) PROVE TypeInv'
  <2>1. r.to \in Profile /\ r.phase = "login"
    BY <1>1, <1>7 DEF LoggedIn, Sound, Whole
  <2>2. [r EXCEPT !.phase = "sent", !.again = TRUE] \in Sound
    BY <1>1, <1>2, <2>1 DEF Sound, Whole, Requests
  <2>3. requests' \in Table
    BY <1>7, <2>2, KeptTyped DEF LoggedIn
  <2>4. session' \in [Profile -> BOOLEAN] /\ token' \in [Profile -> Profile]
    BY <1>0, <1>7, <2>1 DEF LoggedIn, TypeOK
  <2> QED BY <1>0, <1>7, <2>3, <2>4 DEF LoggedIn, Resume, memory, TypeInv, TypeOK, Table, Sound
<1>8. ASSUME Load(s) PROVE TypeInv'
  <2>1. r.to \in Profile /\ r.phase = "sent"
    BY <1>1, <1>8 DEF Load, Sound, Whole
  <2>2. cache[r.to] \in Lists \cup {None}
    BY <1>0, <2>1 DEF TypeOK
  <2>3. [r EXCEPT !.phase = "ok", !.list = cache[r.to]] \in Sound
    BY <1>1, <1>2, <2>1, <2>2 DEF Sound, Whole, Requests
  <2>4. requests' \in Table
    BY <1>8, <2>3, KeptTyped DEF Load
  <2> QED BY <1>0, <1>8, <2>4 DEF Load, service, memory, history, TypeInv, TypeOK, Table, Sound
<1>9. ASSUME Fail(s) PROVE TypeInv'
  <2>1. [r EXCEPT !.phase = "failed"] \in Sound
    BY <1>1, <1>9 DEF Fail, Sound, Whole, Requests
  <2>2. requests' \in Table
    BY <1>9, <2>1, KeptTyped DEF Fail
  <2>3. events' \in 0 .. MaxEvents
    BY <1>0, <1>9, MarksAssumption DEF Fail, Event, TypeOK
  <2> QED BY <1>0, <1>9, <2>2, <2>3 DEF Fail, service, memory, history, TypeInv, TypeOK, Table, Sound
<1> QED BY <1>3, <1>4, <1>5, <1>6, <1>7, <1>8, <1>9 DEF Answer

\* A tick, and the map a tick asked for.
LEMMA TickTyped ==
  ASSUME TypeInv, NEW e \in Episode, NEW w \in Want, Tick(e, w)
  PROVE  TypeInv'
<1>0. TypeOK /\ profile \in Profile /\ requests \in Table
  BY DEF TypeInv, TypeOK
<1>1. requests' \in Table
  <2>1. CASE mapped
    <3>1. Place(requests, ProcessEpisode(profile, e, w))
      BY <2>1 DEF Tick, Issue
    <3>2. ProcessEpisode(profile, e, w) \in SUBSET Sound
      BY <1>0, ProcessIs
    <3> QED BY <1>0, <3>1, <3>2, PlacedTyped
  <2>2. CASE ~ mapped
    <3>1. Place(requests, {Outgoing("map", profile, e, w)})
      BY <2>2 DEF Tick, Issue
    <3>2. Outgoing("map", profile, e, w) \in Sound
      BY <1>0, OutgoingIs DEF ViaService
    <3> QED BY <1>0, <3>1, <3>2, PlacedTyped
  <2> QED BY <2>1, <2>2
<1>2. moving' \in BOOLEAN /\ checked' \in SUBSET Episode /\ blind' \in SUBSET Episode
  BY <1>0 DEF Tick, Processed, TakeForMarked, TypeOK
<1>3. viewed' \in [Profile -> SUBSET Episode] /\ undone' \in [Profile -> SUBSET Episode]
  BY <1>0 DEF Tick, TypeOK
<1>4. events' \in 0 .. MaxEvents
  BY <1>0, MarksAssumption DEF Tick, Event, TypeOK
<1> QED BY <1>0, <1>1, <1>2, <1>3, <1>4 DEF Tick, service, TypeInv, TypeOK, Table, Sound

\* The viewer opens a card, comes back to a list, changes the profile; a session ends.
LEMMA ViewerTyped ==
  ASSUME TypeInv, OpenCard \/ Refetch \/ \E a \in Profile : Expire(a) \/ SwitchProfile(a)
  PROVE  TypeInv'
<1>0. TypeOK /\ profile \in Profile /\ requests \in Table
  BY DEF TypeInv, TypeOK
<1>1. ASSUME Event PROVE events' \in 0 .. MaxEvents
  BY <1>0, <1>1, MarksAssumption DEF Event, TypeOK
<1>2. ASSUME NEW k \in {"open", "list"}, Issue({Outgoing(k, profile, None, "touch")})
      PROVE  requests' \in Table
  <2>1. Outgoing(k, profile, None, "touch") \in Sound
    BY <1>0, OutgoingIs DEF ViaService, Want
  <2> QED BY <1>0, <1>2, <2>1, PlacedTyped DEF Issue
<1>3. CASE OpenCard
  <2>1. requests' \in Table
    BY <1>2, <1>3 DEF OpenCard
  <2> QED BY <1>0, <1>1, <1>3, <2>1 DEF OpenCard, service, memory, history, TypeInv, TypeOK, Table, Sound
<1>4. CASE Refetch
  <2>1. requests' \in Table
    BY <1>2, <1>4 DEF Refetch
  <2> QED BY <1>0, <1>1, <1>4, <2>1 DEF Refetch, service, memory, history, TypeInv, TypeOK, Table, Sound
<1>5. ASSUME NEW a \in Profile, Expire(a) PROVE TypeInv'
  BY <1>0, <1>1, <1>5 DEF Expire, service, memory, history, TypeInv, TypeOK, Table, Sound
<1>6. ASSUME NEW a \in Profile, SwitchProfile(a) PROVE TypeInv'
  <2> DEFINE f == [s \in Slot |-> IF requests[s] # Free /\ requests[s].kind = "seed"
                                  THEN [requests[s] EXCEPT !.note = TRUE] ELSE requests[s]]
             q == [Request("seed", a, None, "touch") EXCEPT !.phase = "sent", !.to = a]
  <2>1. f \in Table
    BY <1>0 DEF Table, Sound, Whole, Requests
  <2>2. q \in Sound
    BY MarksAssumption DEF Request, Requests, ViaStorage, Status, Want, Sound, Whole
  <2>3. Place(f, {q})
    BY <1>6 DEF SwitchProfile
  <2> HIDE DEF f, q
  <2>4. requests' \in Table
    BY <2>1, <2>2, <2>3, PlacedTyped
  <2> QED BY <1>0, <1>1, <1>6, <2>4 DEF SwitchProfile, service, memory, history, TypeInv, TypeOK, Table, Sound
<1> QED BY <1>3, <1>4, <1>5, <1>6

\* Answers come back to the plugin.
LEMMA CallbackTyped ==
  ASSUME TypeInv, NEW s \in Slot, Callback(s)
  PROVE  TypeInv'
<1> DEFINE r == requests[s]
<1>0. TypeOK /\ profile \in Profile /\ requests \in Table
  BY DEF TypeInv, TypeOK
<1>1. /\ r # Free /\ r \in Sound /\ r \in Requests /\ r.by \in Profile /\ r.to \in Profile \cup {None}
      /\ r.ep \in Episode \cup {None} /\ r.want \in Want /\ r.list \in Lists \cup {None}
      /\ r.eps \in SUBSET Episode /\ r.is \in Status
  <2>1. r # Free
    BY DEF Callback, Drop, MapArrives, MapMissing, AskDone, CheckDone, UncheckDone, MoveDone, ListArrives,
       SaveList, ApplyMark, Seed, OpenDone, Busy
  <2> QED BY <2>1, HeldIs
<1>2. r.kind \in {"map", "check", "uncheck", "ask", "apply"} => r.ep \in Episode
  BY <1>1 DEF Sound, Whole
<1>3. {} \in SUBSET Sound
  OBVIOUS
<1>4. \A p \in Profile, w \in Want : Moves(p, w) \in SUBSET Sound
  BY QueuedIs DEF Moves
<1>5. ASSUME Drop(s) PROVE TypeInv'
  <2>1. requests' \in Table
    BY <1>3, <1>5, ReplacedTyped DEF Drop
  <2> QED BY <1>0, <1>5, <2>1 DEF Drop, service, memory, history, TypeInv, TypeOK, Table, Sound
<1>6. ASSUME MapArrives(s) PROVE TypeInv'
  <2>1. r.ep \in Episode
    BY <1>2, <1>6 DEF MapArrives, Busy
  <2>2. ProcessEpisode(r.by, r.ep, r.want) \in SUBSET Sound
    BY <1>1, <2>1, ProcessIs
  <2>3. requests' \in Table
    BY <1>6, <2>2, ReplacedTyped DEF MapArrives
  <2>4. moving' \in BOOLEAN /\ checked' \in SUBSET Episode /\ blind' \in SUBSET Episode
    BY <1>0, <1>6, <2>1 DEF MapArrives, Processed, TakeForMarked, TypeOK
  <2> QED BY <1>0, <1>6, <2>3, <2>4 DEF MapArrives, Resume, service, TypeInv, TypeOK, Table, Sound
<1>7. ASSUME MapMissing(s) PROVE TypeInv'
  <2>1. r.ep \in Episode
    BY <1>2, <1>7 DEF MapMissing, Busy
  <2>2. [Outgoing("map", r.by, r.ep, r.want) EXCEPT !.note = TRUE] \in Sound
    BY <1>1, <2>1, OutgoingIs DEF ViaService
  <2>3. requests' \in Table
    BY <1>7, <2>2, KeptTyped DEF MapMissing
  <2> QED BY <1>0, <1>7, <2>3 DEF MapMissing, Resume, service, memory, history, TypeInv, TypeOK, Table, Sound
<1>8. ASSUME AskDone(s) PROVE TypeInv'
  <2>1. r.ep \in Episode
    BY <1>2, <1>8 DEF AskDone, Busy
  <2>2. [Outgoing("check", r.by, r.ep, "mark") EXCEPT !.note = TRUE] \in Sound
    BY <1>1, <2>1, OutgoingIs DEF ViaService, Want
  <2>3. Outgoing("uncheck", r.by, r.ep, "unmark") \in Sound
    BY <1>1, <2>1, OutgoingIs DEF ViaService, Want
  <2>4. \E rs \in SUBSET Sound : Replace(s, rs)
    BY <1>8, <2>2, <2>3 DEF AskDone
  <2>5. requests' \in Table
    BY <2>4, ReplacedTyped
  <2>6. checked' \in SUBSET Episode /\ blind' \in SUBSET Episode
    BY <1>0, <1>8, <2>1 DEF AskDone, TypeOK
  <2> QED BY <1>0, <1>8, <2>5, <2>6 DEF AskDone, Resume, service, TypeInv, TypeOK, Table, Sound
<1>9. ASSUME CheckDone(s) PROVE TypeInv'
  <2>1. r.ep \in Episode
    BY <1>2, <1>9 DEF CheckDone, Busy
  <2>2. Loading("apply", r.by, r.ep, "mark") \in Sound
    BY <1>1, <2>1, LoadingIs DEF ViaStorage, Want
  <2>3. \E rs \in SUBSET Sound : Replace(s, rs)
    BY <1>1, <1>4, <1>9, <2>2 DEF CheckDone, Want
  <2>4. requests' \in Table
    BY <2>3, ReplacedTyped
  <2>5. checked' \in SUBSET Episode /\ unwatched' \in SUBSET Episode /\ moving' \in BOOLEAN /\ listIs' \in Status
    BY <1>0, <1>9, <2>1 DEF CheckDone, ListAfterMark, TypeOK, Status
  <2> QED BY <1>0, <1>9, <2>4, <2>5 DEF CheckDone, Resume, service, TypeInv, TypeOK, Table, Sound
<1>10. ASSUME UncheckDone(s) PROVE TypeInv'
  <2>1. r.ep \in Episode
    BY <1>2, <1>10 DEF UncheckDone, Busy
  <2>2. Loading("apply", r.by, r.ep, "unmark") \in Sound
    BY <1>1, <2>1, LoadingIs DEF ViaStorage, Want
  <2>3. requests' \in Table
    BY <1>10, <2>2, ReplacedTyped DEF UncheckDone
  <2>4. checked' \in SUBSET Episode /\ unwatched' \in SUBSET Episode /\ listIs' \in Status
    BY <1>0, <1>10, <2>1 DEF UncheckDone, ListAfterMark, TypeOK, Status
  <2> QED BY <1>0, <1>10, <2>3, <2>4 DEF UncheckDone, Resume, service, TypeInv, TypeOK, Table, Sound
<1>11. Outgoing("list", profile, None, "touch") \in Sound
  BY <1>0, OutgoingIs DEF ViaService, Want
<1>12. ASSUME MoveDone(s) PROVE TypeInv'
  <2>1. requests' \in Table
    BY <1>11, <1>12, ReplacedTyped DEF MoveDone
  <2> QED BY <1>0, <1>12, <2>1 DEF MoveDone, Resume, Status, service, memory, history, TypeInv, TypeOK, Table, Sound
<1>13. ASSUME ListArrives(s) PROVE TypeInv'
  <2>1. [r EXCEPT !.kind = "save"] \in Sound
    BY <1>1, <1>13 DEF ListArrives, Busy, Sound, Whole, Requests
  <2>2. requests' \in Table
    BY <1>13, <2>1, KeptTyped DEF ListArrives
  <2> QED BY <1>0, <1>1, <1>13, <2>2 DEF ListArrives, service, memory, history, TypeInv, TypeOK, Table, Sound
<1>14. ASSUME SaveList(s) PROVE TypeInv'
  <2>1. requests' \in Table
    BY <1>3, <1>14, ReplacedTyped DEF SaveList
  <2>2. r.to \in Profile
    BY <1>1, <1>14 DEF SaveList, Busy, Sound, Whole
  <2>3. Cardinality(r.eps) \in 0 .. Cardinality(Episode)
    <3>1. IsFiniteSet(r.eps) /\ Cardinality(r.eps) <= Cardinality(Episode)
      BY <1>1, MarksAssumption, FS_Subset
    <3> QED BY <3>1, MarksAssumption, FS_CardinalityType
  <2>4. cache' \in [Profile -> Lists \cup {None}]
    BY <1>0, <1>1, <1>14, <2>2, <2>3 DEF SaveList, TypeOK, Lists
  <2> QED BY <1>0, <1>14, <2>1, <2>4 DEF SaveList, service, memory, history, TypeInv, TypeOK, Table, Sound
<1>15. ASSUME ApplyMark(s) PROVE TypeInv'
  <2>1. requests' \in Table
    BY <1>3, <1>15, ReplacedTyped DEF ApplyMark
  <2>2. cache' \in [Profile -> Lists \cup {None}]
    <3>1. CASE r.list # None /\ r.list.left > 0
      <4>1. r.ep \in Episode /\ r.list \in Lists
        BY <1>1, <1>2, <1>15, <3>1 DEF ApplyMark, Busy
      <4>2. Counted(r.list, r.ep, r.want) \in Lists
        BY <1>1, <3>1, <4>1, CountedIs
      <4> QED BY <1>0, <1>15, <3>1, <4>2 DEF ApplyMark, TypeOK
    <3>2. CASE ~ (r.list # None /\ r.list.left > 0)
      BY <1>0, <1>15, <3>2 DEF ApplyMark, TypeOK
    <3> QED BY <3>1, <3>2
  <2> QED BY <1>0, <1>15, <2>1, <2>2 DEF ApplyMark, Resume, service, memory, history, TypeInv, TypeOK, Table, Sound
<1>16. ASSUME Seed(s) PROVE TypeInv'
  <2>1. \E rs \in SUBSET Sound : Replace(s, rs)
    BY <1>11, <1>16 DEF Seed
  <2>2. requests' \in Table
    BY <2>1, ReplacedTyped
  <2>3. unwatched' \in SUBSET Episode /\ unwatchedOf' \in Profile \cup {None} /\ listIs' \in Status
    BY <1>0, <1>1, <1>16 DEF Seed, TypeOK, Lists
  <2> QED BY <1>0, <1>16, <2>2, <2>3 DEF Seed, service, TypeInv, TypeOK, Table, Sound
<1>17. ASSUME OpenDone(s) PROVE TypeInv'
  <2>1. requests' \in Table
    BY <1>3, <1>17, ReplacedTyped DEF OpenDone
  <2> QED BY <1>0, <1>1, <1>17, <2>1 DEF OpenDone, Resume, service, memory, history, TypeInv, TypeOK, Table, Sound
<1> QED BY <1>5, <1>6, <1>7, <1>8, <1>9, <1>10, <1>12, <1>13, <1>14, <1>15, <1>16, <1>17 DEF Callback

LEMMA TypeStep ==
  ASSUME TypeInv, [Next]_vars
  PROVE  TypeInv'
<1>1. CASE UNCHANGED vars
  BY <1>1 DEF vars, service, memory, history, TypeInv, TypeOK, Table, Sound
<1>2. CASE Next
  BY <1>2, TickTyped, AnswerTyped, CallbackTyped, ViewerTyped DEF Next
<1> QED BY <1>1, <1>2

LEMMA InitTyped ==
  ASSUME Init
  PROVE  TypeInv
<1>1. requests \in Table /\ requests \in [Slot -> Requests \cup {Free}]
  BY DEF Init, Table
<1>2. events \in 0 .. MaxEvents
  BY MarksAssumption DEF Init
<1>3. cache \in [Profile -> Lists \cup {None}]
  BY DEF Init
<1> QED BY <1>1, <1>2, <1>3 DEF Init, TypeInv, TypeOK, Status

\* The type invariant, for any profiles, episodes and number of slots.
THEOREM TypeCorrect == Spec => []TypeOK
<1>1. Init => TypeInv
  BY InitTyped
<1>2. TypeInv => TypeOK
  BY DEF TypeInv
<1> QED BY <1>1, <1>2, TypeStep, PTL DEF Spec

-----------------------------------------------------------------------------
(***************************************************************************)
(* Marks and lists stay with their profile                                 *)
(***************************************************************************)
\* A request goes to the account or the storage of the profile it began in, what it was
\* given there is that profile's, and it is about to mark only what v says it has watched.
Own(r, v) ==
  /\ r.to \in {None, r.by}
  /\ r.list # None => r.list.of = r.by
  /\ r.kind \in {"map", "ask", "check"} /\ r.want = "mark" => r.ep \in v[r.by]
  /\ r.kind = "check" => r.want = "mark"

AllOwn(f, v) == \A s \in Slot : f[s] # Free => Own(f[s], v)

OwnTokens == \A p \in Profile : token[p] = p
OwnMarks == \A a \in Profile : watched[a] \subseteq viewed[a]

Apart == OwnTokens /\ AllOwn(requests, viewed) /\ SavedListsAreOwn /\ OwnMarks

ApartInv == TypeInv /\ (~ crossed => Apart)

\* What was own stays own when more has been watched.
LEMMA StaysOwn ==
  ASSUME TypeInv, AllOwn(requests, viewed), \A p \in Profile : viewed[p] \subseteq viewed'[p]
  PROVE  AllOwn(requests, viewed')
<1> SUFFICES ASSUME NEW s \in Slot, requests[s] # Free PROVE Own(requests[s], viewed')
  BY DEF AllOwn
<1>1. requests[s].by \in Profile /\ Own(requests[s], viewed)
  BY HeldIs DEF AllOwn
<1> QED BY <1>1 DEF Own

LEMMA PlacedOwn ==
  ASSUME NEW f, NEW v, NEW rs, Place(f, rs), AllOwn(f, v), \A r \in rs : Own(r, v)
  PROVE  AllOwn(requests', v)
BY PlaceIs DEF AllOwn

LEMMA ReplacedOwn ==
  ASSUME TypeInv, NEW v, NEW s \in Slot, NEW rs, Replace(s, rs), AllOwn(requests, v), \A r \in rs : Own(r, v)
  PROVE  AllOwn(requests', v)
<1>1. AllOwn([requests EXCEPT ![s] = Free], v)
  BY DEF AllOwn, TypeInv, Table
<1> QED BY <1>1, PlacedOwn DEF Replace

LEMMA KeptOwn ==
  ASSUME TypeInv, NEW v, NEW s \in Slot, NEW r, Keep(s, r), AllOwn(requests, v), Own(r, v)
  PROVE  AllOwn(requests', v)
BY DEF Keep, AllOwn, TypeInv, Table

\* While nothing has gone astray, what a chain of the current profile sends is its own.
LEMMA SentOwn ==
  ASSUME TypeInv, OwnTokens, NEW v, NEW w \in Want, NEW e \in Episode \cup {None},
         NEW k \in ViaService, e \in Episode \/ k \in {"list", "open"},
         k \in {"map", "check"} /\ w = "mark" => e \in v[profile], k = "check" => w = "mark"
  PROVE  Own(Outgoing(k, profile, e, w), v)
         /\ \A n \in BOOLEAN : Own([Outgoing(k, profile, e, w) EXCEPT !.note = n], v)
<1> DEFINE o == Outgoing(k, profile, e, w)
<1>1. /\ o \in Requests /\ o.kind = k /\ o.by = profile /\ o.to = profile /\ o.ep = e /\ o.want = w
      /\ o.list = None
  BY OutgoingIs DEF TypeInv, TypeOK, OwnTokens, Sound
<1> HIDE DEF o
<1>2. Own(o, v) /\ \A n \in BOOLEAN : Own([o EXCEPT !.note = n], v)
  BY <1>1 DEF Own, ViaService, Requests
<1> QED BY <1>2 DEF o

LEMMA ProcessOwn ==
  ASSUME TypeInv, OwnTokens, NEW v, NEW e \in Episode, NEW w \in Want, w = "mark" => e \in v[profile],
         NEW r \in ProcessEpisode(profile, e, w)
  PROVE  Own(r, v)
<1>1. profile \in Profile /\ token[profile] = profile
  BY DEF TypeInv, TypeOK, OwnTokens
<1> QED BY <1>1, ProcessIs DEF Own

\* A tick.
LEMMA TickApart ==
  ASSUME TypeInv, Apart, NEW e \in Episode, NEW w \in Want, Tick(e, w)
  PROVE  Apart'
<1>0. TypeOK /\ profile \in Profile
  BY DEF TypeInv, TypeOK
<1>1. /\ \A p \in Profile : viewed[p] \subseteq viewed'[p]
      /\ w = "mark" => e \in viewed'[profile]
  BY <1>0 DEF Tick, TypeOK
<1>2. AllOwn(requests, viewed')
  BY <1>1, StaysOwn DEF Apart
<1>3. AllOwn(requests', viewed')
  <2>1. CASE mapped
    <3>1. Place(requests, ProcessEpisode(profile, e, w))
      BY <2>1 DEF Tick, Issue
    <3>2. \A r \in ProcessEpisode(profile, e, w) : Own(r, viewed')
      BY <1>1, ProcessOwn DEF Apart
    <3> QED BY <1>2, <3>1, <3>2, PlacedOwn
  <2>2. CASE ~ mapped
    <3>1. Place(requests, {Outgoing("map", profile, e, w)})
      BY <2>2 DEF Tick, Issue
    <3>2. Own(Outgoing("map", profile, e, w), viewed')
      BY <1>1, SentOwn DEF Apart, ViaService
    <3> QED BY <1>2, <3>1, <3>2, PlacedOwn
  <2> QED BY <2>1, <2>2
<1> QED BY <1>1, <1>3 DEF Tick, service, Apart, OwnTokens, OwnMarks, SavedListsAreOwn

\* Requests go out, are answered, refused, repeated, or fail.
LEMMA AnswerApart ==
  ASSUME TypeInv, Apart, ~ crossed, ~ crossed', NEW s \in Slot, Answer(s) \/ Fail(s)
  PROVE  Apart'
<1> DEFINE r == requests[s]
<1>0. TypeOK /\ profile \in Profile /\ token[profile] = profile /\ None \notin Profile
  BY MarksAssumption DEF TypeInv, TypeOK, Apart, OwnTokens
<1>1. /\ r # Free /\ r \in Sound /\ r \in Requests /\ r.by \in Profile /\ r.to \in Profile \cup {None}
      /\ Own(r, viewed)
  <2>1. r # Free
    BY DEF Answer, SendMove, Busy, Serve, AtService, Refuse, Relogin, LoggedIn, Load, Fail
  <2> QED BY <2>1, HeldIs DEF Apart, AllOwn
<1>2. AllOwn(requests, viewed)
  BY DEF Apart
<1>3. ASSUME SendMove(s) PROVE Apart'
  <2>1. r.by = profile /\ viewed' = viewed
    BY <1>3 DEF SendMove, Resume
  <2>2. Own([r EXCEPT !.phase = "sent", !.to = token[profile]], viewed)
    BY <1>0, <1>1, <2>1 DEF Own, Requests
  <2>3. AllOwn(requests', viewed')
    BY <1>2, <1>3, <2>1, <2>2, KeptOwn DEF SendMove
  <2> QED BY <1>3, <2>3 DEF SendMove, service, Apart, OwnTokens, OwnMarks, SavedListsAreOwn
<1>4. ASSUME Serve(s) PROVE Apart'
  <2> DEFINE given == IF r.kind = "list" /\ status[r.to] = "watching" THEN Episode \ watched[r.to] ELSE {}
  <2>1. r.to = r.by
    BY <1>1, <1>4 DEF Serve, AtService, Sound, Whole, Own
  <2>2. Keep(s, [r EXCEPT !.phase = "ok", !.is = status[r.to], !.eps = given]) /\ viewed' = viewed
    BY <1>4 DEF Serve, history
  <2>3. Own([r EXCEPT !.phase = "ok", !.is = status[r.to], !.eps = given], viewed)
    BY <1>1 DEF Own, Requests
  <2>4. AllOwn(requests', viewed')
    BY <1>2, <2>2, <2>3, KeptOwn
  <2>5. OwnMarks'
    <3>1. watched' = [watched EXCEPT ![r.to] = CASE r.kind = "check" -> @ \cup {r.ep}
                                                 [] r.kind = "uncheck" -> @ \ {r.ep}
                                                 [] OTHER -> @]
      BY <1>4 DEF Serve
    <3>2. r.kind = "check" => r.ep \in viewed[r.by]
      BY <1>1 DEF Own
    <3> QED BY <1>0, <1>1, <2>1, <2>2, <3>1, <3>2 DEF TypeOK, Apart, OwnMarks
  <2> QED BY <1>4, <2>4, <2>5 DEF Serve, Apart, OwnTokens, SavedListsAreOwn
<1>5. ASSUME Refuse(s) PROVE Apart'
  <2> DEFINE ph == IF r.again THEN "failed" ELSE "denied"
  <2>1. Own([r EXCEPT !.phase = ph], viewed) /\ viewed' = viewed
    BY <1>1, <1>5 DEF Own, Requests, Refuse, history
  <2>2. AllOwn(requests', viewed')
    BY <1>2, <1>5, <2>1, KeptOwn DEF Refuse
  <2> QED BY <1>5, <2>1, <2>2 DEF Refuse, service, Apart, OwnTokens, OwnMarks, SavedListsAreOwn
<1>6. ASSUME Relogin(s) PROVE Apart'
  <2>1. r.by = profile /\ viewed' = viewed
    BY <1>6 DEF Relogin, Resume
  <2>2. Own([r EXCEPT !.phase = "login", !.to = profile], viewed)
    BY <1>0, <1>1, <2>1 DEF Own, Requests
  <2>3. AllOwn(requests', viewed')
    BY <1>2, <1>6, <2>1, <2>2, KeptOwn DEF Relogin
  <2> QED BY <1>6, <2>3 DEF Relogin, service, Apart, OwnTokens, OwnMarks, SavedListsAreOwn
<1>7. ASSUME LoggedIn(s) PROVE Apart'
  <2>1. r.by = profile /\ r.to = profile /\ viewed' = viewed
    BY <1>1, <1>7 DEF LoggedIn, Resume, Sound, Whole, Own
  <2>2. Own([r EXCEPT !.phase = "sent", !.again = TRUE], viewed)
    BY <1>1 DEF Own, Requests
  <2>3. AllOwn(requests', viewed')
    BY <1>2, <1>7, <2>1, <2>2, KeptOwn DEF LoggedIn
  <2>4. OwnTokens'
    BY <1>0, <1>7, <2>1 DEF LoggedIn, TypeOK, Apart, OwnTokens
  <2> QED BY <1>7, <2>3, <2>4 DEF LoggedIn, Apart, OwnMarks, SavedListsAreOwn
<1>8. ASSUME Load(s) PROVE Apart'
  <2>1. r.to = r.by /\ r.to \in Profile /\ viewed' = viewed
    BY <1>1, <1>8 DEF Load, Sound, Whole, Own, history
  <2>2. cache[r.to] # None => cache[r.to].of = r.by
    BY <2>1 DEF Apart, SavedListsAreOwn
  <2>3. Own([r EXCEPT !.phase = "ok", !.list = cache[r.to]], viewed)
    BY <1>1, <2>2 DEF Own, Requests
  <2>4. AllOwn(requests', viewed')
    BY <1>2, <1>8, <2>1, <2>3, KeptOwn DEF Load
  <2> QED BY <1>8, <2>1, <2>4 DEF Load, service, Apart, OwnTokens, OwnMarks, SavedListsAreOwn
<1>9. ASSUME Fail(s) PROVE Apart'
  <2>1. Own([r EXCEPT !.phase = "failed"], viewed) /\ viewed' = viewed
    BY <1>1, <1>9 DEF Own, Requests, Fail, history
  <2>2. AllOwn(requests', viewed')
    BY <1>2, <1>9, <2>1, KeptOwn DEF Fail
  <2> QED BY <1>9, <2>1, <2>2 DEF Fail, service, Apart, OwnTokens, OwnMarks, SavedListsAreOwn
<1> QED BY <1>3, <1>4, <1>5, <1>6, <1>7, <1>8, <1>9 DEF Answer

\* The viewer opens a card, comes back to a list, changes the profile; a session ends.
LEMMA ViewerApart ==
  ASSUME TypeInv, Apart, OpenCard \/ Refetch \/ \E a \in Profile : Expire(a) \/ SwitchProfile(a)
  PROVE  Apart'
<1>0. AllOwn(requests, viewed) /\ viewed' = viewed /\ requests \in Table
  BY DEF Apart, TypeInv, OpenCard, Refetch, Expire, SwitchProfile, history
<1>1. ASSUME NEW k \in {"open", "list"}, Issue({Outgoing(k, profile, None, "touch")})
      PROVE  AllOwn(requests', viewed')
  <2>1. Own(Outgoing(k, profile, None, "touch"), viewed)
    BY SentOwn DEF Apart, ViaService, Want
  <2> QED BY <1>0, <1>1, <2>1, PlacedOwn DEF Issue
<1>2. CASE OpenCard \/ Refetch
  <2>1. AllOwn(requests', viewed')
    BY <1>1, <1>2 DEF OpenCard, Refetch
  <2> QED BY <1>2, <2>1 DEF OpenCard, Refetch, service, history, Apart, OwnTokens, OwnMarks, SavedListsAreOwn
<1>3. ASSUME NEW a \in Profile, Expire(a) PROVE Apart'
  BY <1>0, <1>3 DEF Expire, Apart, OwnTokens, OwnMarks, SavedListsAreOwn
<1>4. ASSUME NEW a \in Profile, SwitchProfile(a) PROVE Apart'
  <2> DEFINE f == [s \in Slot |-> IF requests[s] # Free /\ requests[s].kind = "seed"
                                  THEN [requests[s] EXCEPT !.note = TRUE] ELSE requests[s]]
             q == [Request("seed", a, None, "touch") EXCEPT !.phase = "sent", !.to = a]
  <2>1. AllOwn(f, viewed)
    <3> SUFFICES ASSUME NEW s \in Slot, f[s] # Free PROVE Own(f[s], viewed)
      BY DEF AllOwn
    <3>1. CASE requests[s] # Free /\ requests[s].kind = "seed"
      <4>1. requests[s] \in Requests /\ Own(requests[s], viewed)
        BY <1>0, <3>1, HeldIs DEF AllOwn
      <4> QED BY <3>1, <4>1 DEF Own, Requests
    <3>2. CASE ~ (requests[s] # Free /\ requests[s].kind = "seed")
      BY <1>0, <3>2 DEF AllOwn
    <3> QED BY <3>1, <3>2
  <2>2. Own(q, viewed)
    BY DEF Own, Request
  <2>3. Place(f, {q})
    BY <1>4 DEF SwitchProfile
  <2> HIDE DEF f, q
  <2>4. AllOwn(requests', viewed')
    BY <1>0, <2>1, <2>2, <2>3, PlacedOwn
  <2> QED BY <1>4, <2>4 DEF SwitchProfile, service, history, Apart, OwnTokens, OwnMarks, SavedListsAreOwn
<1> QED BY <1>2, <1>3, <1>4

\* Answers come back to the plugin.
LEMMA CallbackApart ==
  ASSUME TypeInv, Apart, ~ crossed, ~ crossed', NEW s \in Slot, Callback(s)
  PROVE  Apart'
<1> DEFINE r == requests[s]
<1>0. TypeOK /\ profile \in Profile /\ token[profile] = profile /\ None \notin Profile
  BY MarksAssumption DEF TypeInv, TypeOK, Apart, OwnTokens
<1>1. /\ r # Free /\ r \in Sound /\ r \in Requests /\ r.by \in Profile /\ r.to \in Profile \cup {None}
      /\ r.ep \in Episode \cup {None} /\ r.want \in Want /\ r.list \in Lists \cup {None}
      /\ Own(r, viewed)
      /\ r.kind \in {"map", "check", "uncheck", "ask", "apply"} => r.ep \in Episode
      /\ r.phase # "queued" => r.to = r.by
  <2>1. r # Free
    BY DEF Callback, Drop, MapArrives, MapMissing, AskDone, CheckDone, UncheckDone, MoveDone, ListArrives,
       SaveList, ApplyMark, Seed, OpenDone, Busy
  <2>2. r \in Sound /\ Own(r, viewed)
    BY <2>1, HeldIs DEF Apart, AllOwn
  <2> QED BY <2>1, <2>2, HeldIs DEF Sound, Whole, Own
<1>2. AllOwn(requests, viewed) /\ viewed' = viewed
  BY DEF Apart, Callback, Drop, MapArrives, MapMissing, AskDone, CheckDone, UncheckDone, MoveDone,
     ListArrives, SaveList, ApplyMark, Seed, OpenDone, history
<1>3. ASSUME UNCHANGED <<token, watched, cache>>, AllOwn(requests', viewed')
      PROVE  Apart'
  BY <1>2, <1>3 DEF Apart, OwnTokens, OwnMarks, SavedListsAreOwn
<1>4. ASSUME NEW rs, Replace(s, rs), \A q \in rs : Own(q, viewed)
      PROVE  AllOwn(requests', viewed')
  BY <1>2, <1>4, ReplacedOwn
<1>5. CASE Drop(s) \/ OpenDone(s)
  BY <1>3, <1>4, <1>5 DEF Drop, OpenDone, service
<1>6. ASSUME MapArrives(s) PROVE Apart'
  <2>1. r.by = profile /\ r.ep \in Episode /\ (r.want = "mark" => r.ep \in viewed[profile])
    BY <1>1, <1>6 DEF MapArrives, Busy, Resume, Own
  <2>2. \A q \in ProcessEpisode(profile, r.ep, r.want) : Own(q, viewed)
    BY <1>1, <2>1, ProcessOwn DEF Apart
  <2> QED BY <1>3, <1>4, <1>6, <2>1, <2>2 DEF MapArrives, service
<1>7. ASSUME MapMissing(s) PROVE Apart'
  <2>1. r.by = profile /\ r.ep \in Episode /\ (r.want = "mark" => r.ep \in viewed[profile])
    BY <1>1, <1>7 DEF MapMissing, Busy, Resume, Own
  <2>2. Own([Outgoing("map", r.by, r.ep, r.want) EXCEPT !.note = TRUE], viewed)
    BY <1>1, <2>1, SentOwn DEF Apart, ViaService
  <2>3. AllOwn(requests', viewed')
    BY <1>2, <1>7, <2>2, KeptOwn DEF MapMissing
  <2> QED BY <1>3, <1>7, <2>3 DEF MapMissing, service
<1>8. ASSUME AskDone(s) PROVE Apart'
  <2>1. r.by = profile /\ r.ep \in Episode /\ (r.want = "mark" => r.ep \in viewed[profile])
    BY <1>1, <1>8 DEF AskDone, Busy, Resume, Own
  <2>2. r.want = "mark" => Own([Outgoing("check", r.by, r.ep, "mark") EXCEPT !.note = TRUE], viewed)
    BY <2>1, SentOwn DEF Apart, ViaService, Want
  <2>3. Own(Outgoing("uncheck", r.by, r.ep, "unmark"), viewed)
    BY <2>1, SentOwn DEF Apart, ViaService, Want
  <2>4. AllOwn(requests', viewed')
    <3>1. Replace(s, {}) => AllOwn(requests', viewed')
      BY <1>4
    <3>2. CASE r.want = "mark" /\ Replace(s, {[Outgoing("check", r.by, r.ep, "mark") EXCEPT !.note = TRUE]})
      <4> DEFINE o == [Outgoing("check", r.by, r.ep, "mark") EXCEPT !.note = TRUE]
      <4>1. Own(o, viewed) /\ Replace(s, {o})
        BY <2>2, <3>2
      <4> HIDE DEF o
      <4>2. \A q \in {o} : Own(q, viewed)
        BY <4>1
      <4> QED BY <1>4, <4>1, <4>2
    <3>3. CASE Replace(s, {Outgoing("uncheck", r.by, r.ep, "unmark")})
      BY <1>4, <2>3, <3>3
    <3> QED BY <1>8, <3>1, <3>2, <3>3 DEF AskDone
  <2> QED BY <1>3, <1>8, <2>4 DEF AskDone, service
<1>9. ASSUME NEW w \in Want, r.by = profile, r.ep \in Episode
      PROVE  Own(Loading("apply", r.by, r.ep, w), viewed)
  BY <1>0, <1>9, LoadingIs DEF Own, ViaStorage
<1>10. ASSUME CheckDone(s) PROVE Apart'
  <2>1. r.by = profile /\ r.ep \in Episode
    BY <1>1, <1>10 DEF CheckDone, Busy, Resume
  <2>2. \A q \in Moves(r.by, "mark") : Own(q, viewed)
    BY <1>1, QueuedIs DEF Moves, Own, Want
  <2>3. \E rs : Replace(s, rs) /\ \A q \in rs : Own(q, viewed)
    BY <1>9, <1>10, <2>1, <2>2 DEF CheckDone, Want
  <2> QED BY <1>3, <1>4, <1>10, <2>3 DEF CheckDone, service
<1>11. ASSUME UncheckDone(s) PROVE Apart'
  <2>1. r.by = profile /\ r.ep \in Episode
    BY <1>1, <1>11 DEF UncheckDone, Busy, Resume
  <2> QED BY <1>3, <1>4, <1>9, <1>11, <2>1 DEF UncheckDone, service, Want
<1>12. Own(Outgoing("list", profile, None, "touch"), viewed)
  BY SentOwn DEF Apart, ViaService, Want
<1>13. CASE MoveDone(s)
  BY <1>3, <1>4, <1>12, <1>13 DEF MoveDone, service
<1>14. ASSUME ListArrives(s) PROVE Apart'
  <2>1. Own([r EXCEPT !.kind = "save"], viewed)
    BY <1>1 DEF Own, Requests
  <2>2. AllOwn(requests', viewed')
    BY <1>2, <1>14, <2>1, KeptOwn DEF ListArrives
  <2> QED BY <1>3, <1>14, <2>2 DEF ListArrives, service
<1>15. ASSUME SaveList(s) PROVE Apart'
  <2>1. AllOwn(requests', viewed')
    BY <1>4, <1>15 DEF SaveList
  <2>2. r.to = r.by
    BY <1>1, <1>15 DEF SaveList, Busy
  <2>3. SavedListsAreOwn'
    BY <1>0, <1>1, <1>15, <2>2 DEF SaveList, TypeOK, Apart, SavedListsAreOwn
  <2> QED BY <1>2, <1>15, <2>1, <2>3 DEF SaveList, service, Apart, OwnTokens, OwnMarks
<1>16. ASSUME ApplyMark(s) PROVE Apart'
  <2>1. r.by = profile /\ Replace(s, {})
    BY <1>16 DEF ApplyMark, Resume
  <2>3. AllOwn(requests', viewed')
    BY <1>4, <2>1
  <2>2. SavedListsAreOwn'
    <3>1. CASE r.list # None /\ r.list.left > 0
      <4>1. Counted(r.list, r.ep, r.want).of = profile
        BY <1>1, <1>16, <2>1, <3>1, CountedIs DEF ApplyMark, Busy, Own
      <4> QED BY <1>0, <1>16, <3>1, <4>1 DEF ApplyMark, TypeOK, Apart, SavedListsAreOwn
    <3>2. CASE ~ (r.list # None /\ r.list.left > 0)
      BY <1>16, <3>2 DEF ApplyMark, Apart, SavedListsAreOwn
    <3> QED BY <3>1, <3>2
  <2> QED BY <1>2, <1>16, <2>2, <2>3 DEF ApplyMark, service, Apart, OwnTokens, OwnMarks
<1>17. ASSUME Seed(s) PROVE Apart'
  <2>1. \E rs : Replace(s, rs) /\ \A q \in rs : Own(q, viewed)
    BY <1>12, <1>17 DEF Seed
  <2> QED BY <1>3, <1>4, <1>17, <2>1 DEF Seed, service
<1> QED BY <1>5, <1>6, <1>7, <1>8, <1>10, <1>11, <1>13, <1>14, <1>15, <1>16, <1>17 DEF Callback

\* Nothing that went astray comes back.
LEMMA CrossedStays ==
  ASSUME [Next]_vars, ~ crossed'
  PROVE  ~ crossed
BY DEF Next, vars, Tick, Answer, Fail, Callback, Expire, SwitchProfile, OpenCard, Refetch, SendMove, Serve,
   Refuse, Relogin, LoggedIn, Load, Drop, MapArrives, MapMissing, AskDone, CheckDone, UncheckDone, MoveDone,
   ListArrives, SaveList, ApplyMark, Seed, OpenDone, Resume, history

LEMMA ApartStep ==
  ASSUME ApartInv, [Next]_vars
  PROVE  ApartInv'
<1>1. TypeInv'
  BY TypeStep DEF ApartInv
<1>2. ASSUME ~ crossed' PROVE Apart'
  <2>1. ~ crossed /\ Apart /\ TypeInv
    BY <1>2, CrossedStays DEF ApartInv
  <2>2. CASE UNCHANGED vars
    BY <2>1, <2>2 DEF vars, service, history, Apart, AllOwn, OwnTokens, OwnMarks, SavedListsAreOwn
  <2>3. CASE Next
    BY <1>2, <2>1, <2>3, TickApart, AnswerApart, CallbackApart, ViewerApart DEF Next
  <2> QED BY <2>2, <2>3
<1> QED BY <1>1, <1>2 DEF ApartInv

LEMMA ApartStart ==
  ASSUME Init
  PROVE  ApartInv
<1>1. TypeInv
  BY InitTyped
<1> QED BY <1>1 DEF Init, ApartInv, Apart, AllOwn, OwnTokens, OwnMarks, SavedListsAreOwn

\* Whatever sessions end, requests fail, are refused or repeated, and however answers overtake
\* each other: as long as no chain of requests goes on in another profile, an account has
\* only marks of what its own profile watched.
THEOREM MarksAlwaysViewed == Spec => []MarksAreViewed
<1>1. Init => ApartInv
  BY ApartStart
<1>2. ApartInv => MarksAreViewed
  BY DEF ApartInv, Apart, OwnMarks, MarksAreViewed
<1> QED BY <1>1, <1>2, ApartStep, PTL DEF Spec

\* And the list saved for a profile is one that its own account gave.
THEOREM SavedListsAlwaysOwn == Spec => []SavedListsStayOwn
<1>1. Init => ApartInv
  BY ApartStart
<1>2. ApartInv => SavedListsStayOwn
  BY DEF ApartInv, Apart, SavedListsStayOwn
<1> QED BY <1>1, <1>2, ApartStep, PTL DEF Spec

-----------------------------------------------------------------------------
(***************************************************************************)
(* The list in memory hides only what is marked                            *)
(***************************************************************************)
\* What account a has marked, or its profile took back.
Marked == [a \in Profile |-> watched[a] \cup undone[a]]

\* A list made while the show was being watched leaves out only what is in m, and counts
\* no less than it names: the entry that is dropped at zero hides nothing else.
HidesOnly(l, m) == l.is = "watching" => Episode \ l.eps \subseteq m /\ Cardinality(l.eps) <= l.left

\* What a request brings hides only what k says is marked, a mark is taken back only if u says
\* so, and a mark is counted only when it has been made; q is the current profile.
Tells(r, k, u, q) ==
  /\ r.list # None => HidesOnly(r.list, k[r.by])
  /\ r.kind \in {"list", "save"} /\ r.is = "watching" => Episode \ r.eps \subseteq k[r.by]
  /\ \/ r.kind = "uncheck"
     \/ r.kind = "ask" /\ r.want # "mark"
     \/ r.kind = "map" /\ r.want = "unmark"
     => r.ep \in u[r.by]
  /\ (r.kind = "check" /\ r.phase = "ok") \/ (r.kind = "apply" /\ r.want = "mark") => r.ep \in k[r.by]
  /\ r.kind = "seed" /\ ~ r.note => r.by = q

AllTell(f, k, u, q) == \A s \in Slot : f[s] # Free => Tells(f[s], k, u, q)

SavedHide == \A p \in Profile : cache[p] # None => HidesOnly(cache[p], Marked[p])
MemoryHides ==
  unwatchedOf # None /\ listIs = "watching" => Episode \ unwatched \subseteq Marked[unwatchedOf]

Hiding == AllTell(requests, Marked, undone, profile) /\ SavedHide /\ MemoryHides

HidingInv == ApartInv /\ (~ crossed => Hiding)

\* What was told stays true when more is marked or taken back.
LEMMA StaysTold ==
  ASSUME TypeInv, NEW k, NEW u, NEW l, NEW v, NEW q, AllTell(requests, k, u, q),
         \A a \in Profile : k[a] \subseteq l[a] /\ u[a] \subseteq v[a]
  PROVE  AllTell(requests, l, v, q)
<1> SUFFICES ASSUME NEW s \in Slot, requests[s] # Free PROVE Tells(requests[s], l, v, q)
  BY DEF AllTell
<1>1. requests[s].by \in Profile /\ Tells(requests[s], k, u, q)
  BY HeldIs DEF AllTell
<1> QED BY <1>1 DEF Tells, HidesOnly

LEMMA StaysHidden ==
  ASSUME TypeOK, \A a \in Profile : Marked[a] \subseteq Marked'[a]
  PROVE  /\ SavedHide /\ UNCHANGED cache => SavedHide'
         /\ MemoryHides /\ UNCHANGED <<unwatched, unwatchedOf, listIs>> => MemoryHides'
BY DEF TypeOK, SavedHide, MemoryHides, HidesOnly

LEMMA PlacedTold ==
  ASSUME NEW f, NEW k, NEW u, NEW q, NEW rs, Place(f, rs), AllTell(f, k, u, q), \A r \in rs : Tells(r, k, u, q)
  PROVE  AllTell(requests', k, u, q)
BY PlaceIs DEF AllTell

LEMMA ReplacedTold ==
  ASSUME TypeInv, NEW k, NEW u, NEW q, NEW s \in Slot, NEW rs, Replace(s, rs), AllTell(requests, k, u, q),
         \A r \in rs : Tells(r, k, u, q)
  PROVE  AllTell(requests', k, u, q)
<1>1. AllTell([requests EXCEPT ![s] = Free], k, u, q)
  BY DEF AllTell, TypeInv, Table
<1> QED BY <1>1, PlacedTold DEF Replace

LEMMA KeptTold ==
  ASSUME TypeInv, NEW k, NEW u, NEW q, NEW s \in Slot, NEW r, Keep(s, r), AllTell(requests, k, u, q),
         Tells(r, k, u, q)
  PROVE  AllTell(requests', k, u, q)
BY DEF Keep, AllTell, TypeInv, Table

\* A new request has no answer yet.
New(r) == r.list = None /\ r.is = "other" /\ r.phase # "ok"

LEMMA NewTells ==
  ASSUME NEW r, New(r), NEW k, NEW u, NEW q,
         r.kind = "uncheck" \/ (r.kind = "ask" /\ r.want # "mark") \/ (r.kind = "map" /\ r.want = "unmark")
           => r.ep \in u[r.by],
         r.kind = "apply" /\ r.want = "mark" => r.ep \in k[r.by],
         r.kind = "seed" /\ ~ r.note => r.by = q
  PROVE  Tells(r, k, u, q)
BY DEF New, Tells

LEMMA IssuedAreNew ==
  ASSUME NEW k, NEW p, NEW e, NEW w
  PROVE  /\ New(Request(k, p, e, w)) /\ New(Loading(k, p, e, w)) /\ New(Outgoing(k, p, e, w))
         /\ \A n \in BOOLEAN :
              LET o == [Outgoing(k, p, e, w) EXCEPT !.note = n] IN
              New(o) /\ o.kind = k /\ o.by = p /\ o.ep = e /\ o.want = w
         /\ \A r \in {Request(k, p, e, w), Loading(k, p, e, w), Outgoing(k, p, e, w)} :
              r.kind = k /\ r.by = p /\ r.ep = e /\ r.want = w
BY DEF New, Request, Loading, Outgoing

\* What a tick leads to takes a mark back only when the viewer does.
LEMMA ProcessTells ==
  ASSUME NEW p \in Profile, NEW e \in Episode, NEW w \in Want, NEW k, NEW u, NEW q, w = "unmark" => e \in u[p],
         NEW r \in ProcessEpisode(p, e, w)
  PROVE  Tells(r, k, u, q)
<1>1. CASE r = Request("move", p, None, w)
  BY <1>1, IssuedAreNew, NewTells
<1>2. CASE r = Check(p, e)
  <2>1. \E n \in BOOLEAN : r = [Outgoing("check", p, e, "mark") EXCEPT !.note = n]
    BY <1>2 DEF Check
  <2>2. New(r) /\ r.kind = "check"
    BY <2>1, IssuedAreNew
  <2> QED BY <2>2, NewTells
<1>3. CASE r = Loading("ask", p, e, "mark")
  BY <1>3, IssuedAreNew, NewTells
<1>4. CASE w = "unmark" /\ r \in {Loading("ask", p, e, "unmark"), Outgoing("uncheck", p, e, "unmark")}
  BY <1>4, IssuedAreNew, NewTells
<1> QED BY <1>1, <1>2, <1>3, <1>4 DEF ProcessEpisode, Moves, MarkRequests, UnmarkRequests

\* A tick.
LEMMA TickHides ==
  ASSUME TypeInv, Hiding, NEW e \in Episode, NEW w \in Want, Tick(e, w)
  PROVE  Hiding'
<1>0. TypeOK /\ profile \in Profile /\ profile' = profile
  BY DEF TypeInv, TypeOK, Tick
<1>1. /\ \A a \in Profile : Marked[a] \subseteq Marked'[a] /\ undone[a] \subseteq undone'[a]
      /\ w = "unmark" => e \in undone'[profile]
  BY <1>0 DEF Tick, service, TypeOK, Marked
<1>2. AllTell(requests, Marked', undone', profile)
  BY <1>1, StaysTold DEF Hiding
<1>3. AllTell(requests', Marked', undone', profile')
  <2>1. CASE mapped
    <3>1. Place(requests, ProcessEpisode(profile, e, w))
      BY <2>1 DEF Tick, Issue
    <3>2. \A r \in ProcessEpisode(profile, e, w) : Tells(r, Marked', undone', profile)
      BY <1>0, <1>1, ProcessTells
    <3> QED BY <1>0, <1>2, <3>1, <3>2, PlacedTold
  <2>2. CASE ~ mapped
    <3>1. Place(requests, {Outgoing("map", profile, e, w)})
      BY <2>2 DEF Tick, Issue
    <3>2. Tells(Outgoing("map", profile, e, w), Marked', undone', profile)
      BY <1>1, IssuedAreNew, NewTells
    <3> QED BY <1>0, <1>2, <3>1, <3>2, PlacedTold
  <2> QED BY <2>1, <2>2
<1>4. UNCHANGED <<cache, unwatched, unwatchedOf, listIs>>
  BY DEF Tick
<1> QED BY <1>0, <1>1, <1>3, <1>4, StaysHidden DEF Hiding

\* Requests go out, are answered, refused, repeated, or fail.
LEMMA AnswerHides ==
  ASSUME TypeInv, Apart, Hiding, NEW s \in Slot, Answer(s) \/ Fail(s)
  PROVE  Hiding'
<1> DEFINE r == requests[s]
<1>0. TypeOK /\ profile' = profile /\ undone' = undone /\ UNCHANGED <<cache, unwatched, unwatchedOf, listIs>>
  BY DEF TypeInv, Answer, Fail, SendMove, Serve, Refuse, Relogin, LoggedIn, Load, memory, history
<1>1. /\ r # Free /\ r \in Sound /\ r \in Requests /\ r.by \in Profile /\ r.to \in Profile \cup {None}
      /\ r.to \in {None, r.by} /\ Tells(r, Marked, undone, profile)
  <2>1. r # Free
    BY DEF Answer, SendMove, Busy, Serve, AtService, Refuse, Relogin, LoggedIn, Load, Fail
  <2> QED BY <2>1, HeldIs DEF Apart, AllOwn, Own, Hiding, AllTell
<1>2. ASSUME NEW q, Keep(s, q), Tells(q, Marked', undone, profile),
             \A a \in Profile : Marked[a] \subseteq Marked'[a]
      PROVE  Hiding'
  <2>1. AllTell(requests, Marked', undone, profile)
    BY <1>2, StaysTold DEF Hiding
  <2>2. AllTell(requests', Marked', undone, profile)
    BY <1>2, <2>1, KeptTold
  <2> QED BY <1>0, <1>2, <2>2, StaysHidden DEF Hiding
<1>3. ASSUME watched' = watched PROVE Marked' = Marked
  BY <1>0, <1>3 DEF Marked
<1>4. ASSUME watched' = watched,
             \E ph \in {"sent", "login", "failed", "denied"}, t \in Profile \cup {None}, n \in BOOLEAN :
               Keep(s, [r EXCEPT !.phase = ph, !.to = t, !.again = n])
      PROVE  Hiding'
  <2>1. PICK ph \in {"sent", "login", "failed", "denied"}, t \in Profile \cup {None}, n \in BOOLEAN :
               Keep(s, [r EXCEPT !.phase = ph, !.to = t, !.again = n])
    BY <1>4
  <2>2. Tells([r EXCEPT !.phase = ph, !.to = t, !.again = n], Marked, undone, profile)
    BY <1>1 DEF Tells, Requests
  <2> QED BY <1>2, <1>3, <1>4, <2>1, <2>2
<1>5. CASE SendMove(s)
  <2>1. [r EXCEPT !.phase = "sent", !.to = token[profile]]
          = [r EXCEPT !.phase = "sent", !.to = token[profile], !.again = r.again]
    BY <1>1 DEF Requests
  <2>2. r.again \in BOOLEAN /\ token[profile] \in Profile
    BY <1>0, <1>1 DEF Requests, TypeOK
  <2> QED BY <1>4, <1>5, <2>1, <2>2 DEF SendMove, service
<1>6. CASE Refuse(s) \/ Fail(s)
  <2>1. \A ph \in {"failed", "denied"} : [r EXCEPT !.phase = ph] = [r EXCEPT !.phase = ph, !.to = r.to, !.again = r.again]
    BY <1>1 DEF Requests
  <2>2. r.again \in BOOLEAN
    BY <1>1 DEF Requests
  <2> QED BY <1>1, <1>4, <1>6, <2>1, <2>2 DEF Refuse, Fail, service
<1>7. CASE Relogin(s)
  <2>1. [r EXCEPT !.phase = "login", !.to = profile]
          = [r EXCEPT !.phase = "login", !.to = profile, !.again = r.again]
    BY <1>1 DEF Requests
  <2>2. r.again \in BOOLEAN /\ profile \in Profile
    BY <1>0, <1>1 DEF Requests, TypeOK
  <2> QED BY <1>4, <1>7, <2>1, <2>2 DEF Relogin, service
<1>8. CASE LoggedIn(s)
  <2>1. [r EXCEPT !.phase = "sent", !.again = TRUE] = [r EXCEPT !.phase = "sent", !.to = r.to, !.again = TRUE]
    BY <1>1 DEF Requests
  <2> QED BY <1>1, <1>4, <1>8, <2>1 DEF LoggedIn
<1>9. CASE Load(s)
  <2>1. r.to = r.by
    BY <1>1, <1>9, MarksAssumption DEF Load, Sound, Whole
  <2>2. cache[r.to] # None => HidesOnly(cache[r.to], Marked[r.by])
    BY <1>1, <2>1 DEF Hiding, SavedHide
  <2>3. Tells([r EXCEPT !.phase = "ok", !.list = cache[r.to]], Marked, undone, profile)
    BY <1>1, <1>9, <2>2 DEF Tells, Requests, Load, ViaStorage
  <2> QED BY <1>2, <1>3, <1>9, <2>3 DEF Load, service
<1>10. CASE Serve(s)
  <2> DEFINE given == IF r.kind = "list" /\ status[r.to] = "watching" THEN Episode \ watched[r.to] ELSE {}
  <2>1. r.to = r.by /\ r.phase = "sent" /\ r.kind \in ViaService
    BY <1>1, <1>10, MarksAssumption DEF Serve, AtService, Sound, Whole
  <2>2. Keep(s, [r EXCEPT !.phase = "ok", !.is = status[r.to], !.eps = given])
    BY <1>10 DEF Serve
  <2>3. watched' = [watched EXCEPT ![r.to] = CASE r.kind = "check" -> @ \cup {r.ep}
                                               [] r.kind = "uncheck" -> @ \ {r.ep}
                                               [] OTHER -> @]
    BY <1>10 DEF Serve
  <2>4. r.kind = "uncheck" => r.ep \in undone[r.by]
    BY <1>1 DEF Tells
  <2>5. \A a \in Profile : Marked[a] \subseteq Marked'[a]
    BY <1>0, <1>1, <2>1, <2>3, <2>4 DEF TypeOK, Marked
  <2>6. r.kind = "check" => r.ep \in Marked'[r.by]
    BY <1>0, <1>1, <2>1, <2>3 DEF TypeOK, Marked
  <2>7. r.kind = "list" /\ status[r.to] = "watching" => Episode \ given \subseteq Marked'[r.by]
    BY <1>0, <1>1, <2>1, <2>5 DEF TypeOK, Marked
  <2> HIDE DEF given
  <2>8. Tells(r, Marked', undone, profile)
    BY <1>1, <2>5 DEF Tells, HidesOnly
  <2>9. Tells([r EXCEPT !.phase = "ok", !.is = status[r.to], !.eps = given], Marked', undone, profile)
    BY <1>1, <2>1, <2>6, <2>7, <2>8 DEF Tells, Requests, ViaService
  <2> QED BY <1>2, <2>2, <2>5, <2>9
<1> QED BY <1>5, <1>6, <1>7, <1>8, <1>9, <1>10 DEF Answer

\* The viewer opens a card, comes back to a list, changes the profile; a session ends.
LEMMA ViewerHides ==
  ASSUME TypeInv, Hiding, OpenCard \/ Refetch \/ \E a \in Profile : Expire(a) \/ SwitchProfile(a)
  PROVE  Hiding'
<1>0. TypeOK /\ UNCHANGED <<cache, unwatched, unwatchedOf, listIs, watched, undone>>
  BY DEF TypeInv, OpenCard, Refetch, Expire, SwitchProfile, service, memory, history
<1>1. Marked' = Marked
  BY <1>0 DEF Marked
<1>2. ASSUME AllTell(requests', Marked, undone, profile')
      PROVE  Hiding'
  BY <1>0, <1>1, <1>2, StaysHidden DEF Hiding
<1>3. CASE OpenCard \/ Refetch
  <2>1. PICK k \in {"open", "list"} : Place(requests, {Outgoing(k, profile, None, "touch")})
    BY <1>3 DEF OpenCard, Refetch, Issue
  <2>2. Tells(Outgoing(k, profile, None, "touch"), Marked, undone, profile)
    BY IssuedAreNew, NewTells
  <2>3. AllTell(requests', Marked, undone, profile)
    BY <2>1, <2>2, PlacedTold DEF Hiding
  <2> QED BY <1>2, <1>3, <2>3 DEF OpenCard, Refetch
<1>4. ASSUME NEW a \in Profile, Expire(a) PROVE Hiding'
  BY <1>2, <1>4 DEF Expire, Hiding
<1>5. ASSUME NEW a \in Profile, SwitchProfile(a) PROVE Hiding'
  <2> DEFINE f == [s \in Slot |-> IF requests[s] # Free /\ requests[s].kind = "seed"
                                  THEN [requests[s] EXCEPT !.note = TRUE] ELSE requests[s]]
             q == [Request("seed", a, None, "touch") EXCEPT !.phase = "sent", !.to = a]
  <2>1. AllTell(f, Marked, undone, a)
    <3> SUFFICES ASSUME NEW s \in Slot, f[s] # Free PROVE Tells(f[s], Marked, undone, a)
      BY DEF AllTell
    <3>1. requests[s] # Free /\ requests[s] \in Requests /\ Tells(requests[s], Marked, undone, profile)
      BY HeldIs DEF Hiding, AllTell
    <3>2. CASE requests[s].kind = "seed"
      BY <3>1, <3>2 DEF Tells, Requests
    <3>3. CASE requests[s].kind # "seed"
      BY <3>1, <3>3 DEF Tells
    <3> QED BY <3>2, <3>3
  <2>2. New(q) /\ q.kind = "seed" /\ q.by = a
    BY DEF New, Request
  <2>3. Place(f, {q}) /\ profile' = a
    BY <1>5 DEF SwitchProfile
  <2> HIDE DEF f, q
  <2>4. Tells(q, Marked, undone, a)
    BY <2>2, NewTells
  <2>5. AllTell(requests', Marked, undone, a)
    BY <2>1, <2>3, <2>4, PlacedTold
  <2> QED BY <1>2, <2>3, <2>5
<1> QED BY <1>3, <1>4, <1>5

\* A counted mark: what the list loses has been marked.
LEMMA CountedHides ==
  ASSUME NEW l \in Lists, l.left > 0, NEW e \in Episode, NEW w \in Want, NEW m,
         HidesOnly(l, m), w = "mark" => e \in m
  PROVE  HidesOnly(Counted(l, e, w), m)
<1> DEFINE c == Counted(l, e, w)
<1> SUFFICES ASSUME c.is = "watching" PROVE Episode \ c.eps \subseteq m /\ Cardinality(c.eps) <= c.left
  BY DEF HidesOnly
<1>1. /\ Cardinality(Episode) \in Nat /\ l.left \in 0 .. Cardinality(Episode) /\ l.eps \in SUBSET Episode
      /\ IsFiniteSet(l.eps) /\ Cardinality(l.eps) \in Nat
  <2>1. Cardinality(Episode) \in Nat
    BY MarksAssumption, FS_CardinalityType
  <2>2. l.eps \in SUBSET Episode /\ l.left \in 0 .. Cardinality(Episode)
    BY DEF Lists
  <2>3. IsFiniteSet(l.eps)
    BY <2>2, MarksAssumption, FS_Subset
  <2> QED BY <2>1, <2>2, <2>3, FS_CardinalityType
<1> DEFINE left == IF w = "mark" THEN l.left - 1
                   ELSE IF l.left < Cardinality(Episode) THEN l.left + 1 ELSE l.left
           eps == IF left = 0 THEN {} ELSE IF w = "mark" THEN l.eps \ {e} ELSE l.eps
           is == IF w = "mark" /\ e \notin l.eps THEN "other" ELSE l.is
<1>2. c.left = left /\ c.eps = eps /\ c.is = is
  <2>1. c = [l EXCEPT !.left = left, !.eps = eps, !.is = is]
    BY DEF Counted
  <2> HIDE DEF c, left, eps, is
  <2> QED BY <2>1 DEF Lists
<1>3. Episode \ l.eps \subseteq m /\ Cardinality(l.eps) <= l.left
  BY <1>2 DEF HidesOnly
<1>4. CASE w = "mark"
  <2>1. e \in l.eps
    BY <1>2, <1>4
  <2>2. IsFiniteSet(l.eps \ {e}) /\ Cardinality(l.eps \ {e}) = Cardinality(l.eps) - 1
    BY <1>1, <2>1, FS_RemoveElement
  <2>3. Cardinality({}) = 0
    BY FS_EmptySet
  <2>4. CASE left = 0
    <3>1. Cardinality(l.eps \ {e}) = 0
      <4>1. Cardinality(l.eps \ {e}) \in Nat
        BY <2>2, FS_CardinalityType
      <4> QED BY <1>1, <1>3, <1>4, <2>2, <2>4, <4>1
    <3>2. l.eps \ {e} = {}
      BY <2>2, <3>1, FS_EmptySet
    <3>3. Episode \ {} \subseteq m
      BY <1>3, <1>4, <3>2
    <3> QED BY <1>2, <2>3, <2>4, <3>3
  <2>5. CASE left # 0
    <3>1. Episode \ (l.eps \ {e}) \subseteq m
      BY <1>3, <1>4
    <3>2. Cardinality(l.eps) - 1 <= l.left - 1
      BY <1>1, <1>3
    <3>3. c.eps = l.eps \ {e} /\ c.left = l.left - 1
      BY <1>2, <1>4, <2>5
    <3> HIDE DEF c, left, eps, is
    <3> QED BY <2>2, <3>1, <3>2, <3>3
  <2> QED BY <2>4, <2>5
<1>5. CASE w # "mark"
  <2>1. left >= l.left /\ left # 0 /\ left \in Nat
    BY <1>1, <1>5
  <2> QED BY <1>1, <1>2, <1>3, <1>5, <2>1
<1> QED BY <1>4, <1>5

\* Answers come back to the plugin.
LEMMA CallbackHides ==
  ASSUME TypeInv, Apart, Hiding, ~ crossed, ~ crossed', NEW s \in Slot, Callback(s)
  PROVE  Hiding'
<1> DEFINE r == requests[s]
<1>0. TypeOK /\ UNCHANGED <<profile, watched, undone>>
  BY DEF TypeInv, Callback, Drop, MapArrives, MapMissing, AskDone, CheckDone, UncheckDone, MoveDone,
     ListArrives, SaveList, ApplyMark, Seed, OpenDone, service, history
<1>1. /\ r # Free /\ r \in Requests /\ r.by \in Profile /\ r.to \in {None, r.by}
      /\ r.list \in Lists \cup {None} /\ r.eps \in SUBSET Episode /\ r.want \in Want
      /\ r.kind \in {"map", "check", "uncheck", "ask", "apply"} => r.ep \in Episode
      /\ Tells(r, Marked, undone, profile)
  <2>1. r # Free
    BY DEF Callback, Drop, MapArrives, MapMissing, AskDone, CheckDone, UncheckDone, MoveDone, ListArrives,
       SaveList, ApplyMark, Seed, OpenDone, Busy
  <2>2. r \in Sound /\ Own(r, viewed) /\ Tells(r, Marked, undone, profile)
    BY <2>1, HeldIs DEF Apart, AllOwn, Hiding, AllTell
  <2> QED BY <2>1, <2>2, HeldIs DEF Sound, Whole, Own
<1>2. Marked' = Marked /\ \A a \in Profile : Marked[a] \subseteq Marked'[a]
  BY <1>0 DEF Marked
<1>3. ASSUME AllTell(requests', Marked, undone, profile), UNCHANGED <<unwatched, unwatchedOf, listIs>>,
             cache' = cache \/ SavedHide'
      PROVE  Hiding'
  BY <1>0, <1>2, <1>3, StaysHidden DEF Hiding
<1>4. ASSUME AllTell(requests', Marked, undone, profile), UNCHANGED cache, MemoryHides'
      PROVE  Hiding'
  BY <1>0, <1>2, <1>4, StaysHidden DEF Hiding
<1>5. ASSUME NEW rs, Replace(s, rs), \A q \in rs : Tells(q, Marked, undone, profile)
      PROVE  AllTell(requests', Marked, undone, profile)
  BY <1>5, ReplacedTold DEF Hiding
<1>6. CASE Drop(s) \/ OpenDone(s)
  <2>1. Replace(s, {}) /\ UNCHANGED <<unwatched, unwatchedOf, listIs, cache>>
    BY <1>6 DEF Drop, OpenDone, history
  <2> QED BY <1>3, <1>5, <2>1
<1>7. CASE MapArrives(s)
  <2>1. r.want = "unmark" => r.ep \in undone[r.by]
    BY <1>1, <1>7 DEF MapArrives, Busy, Tells
  <2>2. \A q \in ProcessEpisode(r.by, r.ep, r.want) : Tells(q, Marked, undone, profile)
    BY <1>1, <1>7, <2>1, ProcessTells DEF MapArrives, Busy
  <2> QED BY <1>3, <1>5, <1>7, <2>2 DEF MapArrives
<1>8. CASE MapMissing(s)
  <2> DEFINE o == [Outgoing("map", r.by, r.ep, r.want) EXCEPT !.note = TRUE]
  <2>0. New(o) /\ o.kind = "map" /\ o.by = r.by /\ o.ep = r.ep /\ o.want = r.want /\ Keep(s, o)
    BY <1>8 DEF MapMissing, New, Outgoing, Request
  <2>3. r.kind = "map" /\ (r.want = "unmark" => r.ep \in undone[r.by])
    BY <1>1, <1>8 DEF MapMissing, Busy, Tells
  <2> HIDE DEF o
  <2>1. Tells(o, Marked, undone, profile)
    BY <2>0, <2>3, NewTells
  <2>2. AllTell(requests', Marked, undone, profile)
    BY <2>0, <2>1, KeptTold DEF Hiding
  <2> QED BY <1>3, <1>8, <2>2 DEF MapMissing, memory
<1>9. CASE AskDone(s)
  <2> DEFINE o == [Outgoing("check", r.by, r.ep, "mark") EXCEPT !.note = TRUE]
  <2>0. New(o) /\ o.kind = "check"
    BY DEF New, Outgoing, Request
  <2>1. Tells(o, Marked, undone, profile)
    BY <2>0, NewTells
  <2>2. r.want # "mark" => Tells(Outgoing("uncheck", r.by, r.ep, "unmark"), Marked, undone, profile)
    <3>1. r.want # "mark" => r.ep \in undone[r.by]
      BY <1>1, <1>9 DEF AskDone, Busy, Tells
    <3> QED BY <3>1, IssuedAreNew, NewTells
  <2>3. \/ Replace(s, {})
        \/ Replace(s, {o})
        \/ r.want # "mark" /\ Replace(s, {Outgoing("uncheck", r.by, r.ep, "unmark")})
    BY <1>9 DEF AskDone
  <2> HIDE DEF o
  <2> QED BY <1>3, <1>5, <1>9, <2>1, <2>2, <2>3 DEF AskDone
<1>10. ASSUME NEW w \in Want, w = "mark" => r.ep \in Marked[r.by]
       PROVE  Tells(Loading("apply", r.by, r.ep, w), Marked, undone, profile)
  BY <1>10, IssuedAreNew, NewTells
<1>11. CASE CheckDone(s)
  <2>1. r.ep \in Marked[r.by] /\ r.by = profile
    BY <1>1, <1>11 DEF CheckDone, Busy, Tells, Resume
  <2>2. \A q \in Moves(r.by, "mark") : Tells(q, Marked, undone, profile)
    BY IssuedAreNew, NewTells DEF Moves
  <2>3. PICK rs : Replace(s, rs) /\ \A q \in rs : Tells(q, Marked, undone, profile)
    BY <1>10, <1>11, <2>1, <2>2 DEF CheckDone, Want
  <2>4. /\ unwatched' = unwatched \ {r.ep} /\ unwatchedOf' = unwatchedOf /\ cache' = cache
        /\ listIs' = IF unwatchedOf = r.by THEN listIs ELSE "other"
    BY <1>11 DEF CheckDone, ListAfterMark
  <2>5. MemoryHides'
    BY <1>2, <2>1, <2>4 DEF Hiding, MemoryHides
  <2> QED BY <1>4, <1>5, <2>3, <2>4, <2>5
<1>12. CASE UncheckDone(s)
  <2>1. Replace(s, {Loading("apply", r.by, r.ep, "unmark")})
    BY <1>12 DEF UncheckDone
  <2>2. AllTell(requests', Marked, undone, profile)
    BY <1>5, <1>10, <2>1 DEF Want
  <2>3. /\ unwatched' = unwatched \cup {r.ep} /\ unwatchedOf' = unwatchedOf /\ cache' = cache
        /\ listIs' = IF unwatchedOf = r.by THEN listIs ELSE "other"
    BY <1>12 DEF UncheckDone, ListAfterMark
  <2>4. MemoryHides'
    BY <1>2, <2>3 DEF Hiding, MemoryHides
  <2> QED BY <1>4, <2>2, <2>3, <2>4
<1>13. Tells(Outgoing("list", profile, None, "touch"), Marked, undone, profile)
  BY IssuedAreNew, NewTells
<1>14. CASE MoveDone(s)
  BY <1>3, <1>5, <1>13, <1>14 DEF MoveDone
<1>15. CASE ListArrives(s)
  <2>1. r.is = "watching" => Episode \ r.eps \subseteq Marked[r.by]
    BY <1>1, <1>15 DEF ListArrives, Busy, Tells
  <2>2. Tells([r EXCEPT !.kind = "save"], Marked, undone, profile)
    BY <1>1, <2>1 DEF Tells, Requests
  <2>3. AllTell(requests', Marked, undone, profile)
    BY <1>15, <2>2, KeptTold DEF ListArrives, Hiding
  <2>4. MemoryHides'
    BY <1>2, <1>15, <2>1 DEF ListArrives, Hiding, MemoryHides
  <2> QED BY <1>4, <1>15, <2>3, <2>4 DEF ListArrives
<1>16. CASE SaveList(s)
  <2>1. AllTell(requests', Marked, undone, profile)
    BY <1>5, <1>16 DEF SaveList
  <2>2. r.is = "watching" => Episode \ r.eps \subseteq Marked[r.by]
    BY <1>1, <1>16 DEF SaveList, Busy, Tells
  <2> DEFINE list == [of |-> r.to, left |-> Cardinality(r.eps), eps |-> r.eps, is |-> r.is]
  <2>3. Cardinality(r.eps) \in Nat
    BY <1>1, MarksAssumption, FS_Subset, FS_CardinalityType
  <2>4. HidesOnly(list, Marked[r.by])
    BY <2>2, <2>3 DEF HidesOnly
  <2>5. cache' = [cache EXCEPT ![r.by] = list]
    BY <1>16 DEF SaveList
  <2> HIDE DEF list
  <2>6. SavedHide'
    BY <1>0, <1>1, <1>2, <2>4, <2>5 DEF TypeOK, Hiding, SavedHide
  <2> QED BY <1>3, <1>16, <2>1, <2>6 DEF SaveList, memory, history
<1>17. CASE ApplyMark(s)
  <2>1. AllTell(requests', Marked, undone, profile)
    BY <1>5, <1>17 DEF ApplyMark
  <2>2. r.by = profile
    BY <1>17 DEF ApplyMark, Resume
  <2>3. cache' = cache \/ SavedHide'
    <3>1. CASE r.list # None /\ r.list.left > 0
      <4>1. r.ep \in Episode /\ (r.want = "mark" => r.ep \in Marked[profile])
        BY <1>1, <1>17, <2>2 DEF ApplyMark, Busy, Tells
      <4>2. HidesOnly(Counted(r.list, r.ep, r.want), Marked[profile])
        BY <1>1, <2>2, <3>1, <4>1, CountedHides DEF Tells
      <4>3. cache' = [cache EXCEPT ![profile] = Counted(r.list, r.ep, r.want)]
        BY <1>17, <3>1 DEF ApplyMark
      <4> QED BY <1>0, <1>2, <4>2, <4>3 DEF TypeOK, Hiding, SavedHide
    <3>2. CASE ~ (r.list # None /\ r.list.left > 0)
      BY <1>17, <3>2 DEF ApplyMark
    <3> QED BY <3>1, <3>2
  <2> QED BY <1>3, <1>17, <2>1, <2>3 DEF ApplyMark, memory
<1>18. CASE Seed(s)
  <2>1. AllTell(requests', Marked, undone, profile)
    BY <1>5, <1>13, <1>18 DEF Seed
  <2>2. ~ r.note => r.by = profile
    BY <1>1, <1>18 DEF Seed, Busy, Tells
  <2>3. ~ r.note /\ r.list # None /\ r.list.is = "watching" => Episode \ r.list.eps \subseteq Marked[profile]
    BY <1>1, <2>2 DEF Tells, HidesOnly
  <2>4. MemoryHides'
    BY <1>2, <1>18, <2>3 DEF Seed, Hiding, MemoryHides
  <2> QED BY <1>4, <1>18, <2>1, <2>4 DEF Seed
<1> QED BY <1>6, <1>7, <1>8, <1>9, <1>11, <1>12, <1>14, <1>15, <1>16, <1>17, <1>18 DEF Callback

LEMMA HidingStep ==
  ASSUME HidingInv, [Next]_vars
  PROVE  HidingInv'
<1>1. ApartInv'
  BY ApartStep DEF HidingInv
<1>2. ASSUME ~ crossed' PROVE Hiding'
  <2>1. ~ crossed /\ Apart /\ TypeInv /\ Hiding
    BY <1>2, CrossedStays DEF HidingInv, ApartInv
  <2>2. CASE UNCHANGED vars
    BY <2>1, <2>2 DEF vars, service, memory, history, Hiding, AllTell, SavedHide, MemoryHides, Marked
  <2>3. CASE Next
    BY <1>2, <2>1, <2>3, TickHides, AnswerHides, CallbackHides, ViewerHides DEF Next
  <2> QED BY <2>2, <2>3
<1> QED BY <1>1, <1>2 DEF HidingInv

\* Through every list that is asked for, seeded, changed by a mark, saved and loaded again, the
\* list in memory hides of its account only what is marked or was taken back.
THEOREM ListAlwaysHidesOnlyMarked == Spec => []ListHidesOnlyMarked
<1>1. Init => HidingInv
  <2> SUFFICES ASSUME Init PROVE HidingInv
    OBVIOUS
  <2>1. ApartInv
    BY ApartStart
  <2> QED BY <2>1 DEF Init, HidingInv, Hiding, AllTell, SavedHide, MemoryHides
<1>2. HidingInv => ListHidesOnlyMarked
  <2> SUFFICES ASSUME HidingInv, ~ crossed, unwatchedOf # None, listIs = "watching",
                      NEW e \in Episode \ (unwatched \cup undone[unwatchedOf])
               PROVE  e \in watched[unwatchedOf]
    BY DEF ListHidesOnlyMarked
  <2>1. unwatchedOf \in Profile
    BY DEF HidingInv, ApartInv, TypeInv, TypeOK
  <2> QED BY <2>1 DEF HidingInv, Hiding, MemoryHides, Marked
<1> QED BY <1>1, <1>2, HidingStep, PTL DEF Spec
=============================================================================
