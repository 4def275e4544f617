----------------------------- MODULE Web_proofs -----------------------------
(***************************************************************************)
(* Proofs about the parts of the web client that MC_Web runs side by side: *)
(* for each an inductive invariant, that it holds at the start, that every *)
(* step keeps it, and what follows once nothing is under way.              *)
(***************************************************************************)
EXTENDS MC_Web, FiniteSets, FiniteSetTheorems, TLAPS

-----------------------------------------------------------------------------
(* Queues *)

\* What is left of a queue when its first message is taken.
LEMMA QueueTail ==
    ASSUME NEW S, NEW s \in Seq(S), s # <<>>
    PROVE  /\ Head(s) = s[1] /\ Head(s) \in S /\ Tail(s) \in Seq(S)
           /\ Len(s) \in Nat \ {0} /\ DOMAIN s = 1..Len(s) /\ DOMAIN Tail(s) = 1..Len(s) - 1
           /\ Len(Tail(s)) = Len(s) - 1
           /\ \A i \in 1..Len(s) - 1 : Tail(s)[i] = s[i + 1]
OBVIOUS

\* A message put at the end of a queue.
LEMMA QueueAppend ==
    ASSUME NEW S, NEW s \in Seq(S), NEW e \in S
    PROVE  /\ Append(s, e) \in Seq(S) /\ Len(s) \in Nat
           /\ DOMAIN s = 1..Len(s) /\ DOMAIN Append(s, e) = 1..Len(s) + 1
           /\ Len(Append(s, e)) = Len(s) + 1
           /\ Append(s, e)[Len(s) + 1] = e
           /\ \A i \in 1..Len(s) : Append(s, e)[i] = s[i]
OBVIOUS

-----------------------------------------------------------------------------
(* Lists read page by page (PagedGrid) *)

\* Of a list that lost no page: one request at most, of the present key; it asks for the
\* first page, or for the one that follows those shown.
OneAtATime ==
    /\ \A r, q \in asked : r = q
    /\ loading <=> asked # {}
    /\ \A r \in asked : r.key = key

ItemsOfKey == items # <<>> /\ \A i \in DOMAIN items : items[i].key = key

Follows ==
    /\ Grid!FromTheFirst /\ Grid!OfOneKey
    /\ asked = {} => ItemsOfKey /\ page = Len(items)
    /\ \A r \in asked :
         IF r.reset THEN r.page = 1 /\ (style = "view" => page = 1)
         ELSE /\ ItemsOfKey /\ r.page = Len(items) + 1
              /\ page = IF style = "view" THEN Len(items) + 1 ELSE Len(items)

TableKnows ==
    /\ \A r, q \in asked : r = q
    /\ \A r \in asked : r.key = key /\ r.reset
    /\ asked = {} => ItemsOfKey

GridInv ==
    /\ Grid!TypeOK
    /\ style = "history" => \A i \in DOMAIN items : items[i].key = key
    /\ style = "table" /\ ways = {} => TableKnows
    /\ style # "table" /\ ways = {} => OneAtATime /\ Follows

\* A list holds its types, and what it shows follows from its first request on.
LEMMA GridStart == ASSUME Grid!Init PROVE GridInv
<1>1. Grid!First(key) \in Grid!Request /\ (Grid!First(key)).key = key /\ (Grid!First(key)).reset /\ (Grid!First(key)).page = 1
  BY GridAssumption DEF Grid!First, Grid!Request, Grid!Init
<1>2. items \in Seq(Grid!Page) /\ items = <<>> /\ DOMAIN items = {}
  BY DEF Grid!Init
<1>3. Grid!TypeOK
  BY <1>1, <1>2, GridAssumption DEF Grid!Init, Grid!TypeOK
<1> QED BY <1>1, <1>2, <1>3 DEF Grid!Init, GridInv, TableKnows, OneAtATime, Follows,
           Grid!FromTheFirst, Grid!OfOneKey, ItemsOfKey

\* Another key: what was asked for under the former one is crossed, or nothing was.
LEMMA GridChanges ==
    ASSUME GridInv, NEW k \in Key,
           \/ Grid!ChangeView(k) \/ Grid!ChangeLibrary(k) \/ Grid!ChangeHistory(k) \/ Grid!ChangeSearch(k)
           \/ Grid!ChangeTable(k)
    PROVE  GridInv'
<1> USE GridAssumption
<1>1. /\ Grid!First(k) \in Grid!Request /\ (Grid!First(k)).key = k /\ (Grid!First(k)).reset /\ (Grid!First(k)).page = 1
      /\ <<>> \in Seq(Grid!Page) /\ DOMAIN <<>> = {}
  BY DEF Grid!First, Grid!Request
<1>2. CASE Grid!ChangeTable(k)
  BY <1>1, <1>2 DEF Grid!ChangeTable, Grid!Changes, GridInv, Grid!TypeOK, TableKnows
<1>3. CASE ~Grid!ChangeTable(k)
  <2>1. /\ style # "table" /\ style' = style /\ key' = k /\ changes' \in 0..MaxChanges
        /\ ways' = Grid!Crossed
        /\ items' \in {items, <<>>} /\ (style = "history" => items' = <<>>)
        /\ page' \in {0, 1, page} /\ total' \in {1, total} /\ (style = "view" => page' = 1)
        /\ loading' = TRUE
        /\ asked' \subseteq asked \cup {Grid!First(k)}
        /\ ~loading => Grid!First(k) \in asked'
    BY <1>3 DEF Grid!ChangeView, Grid!ChangeLibrary, Grid!ChangeHistory, Grid!ChangeSearch,
       Grid!Changes, Grid!AskFirst,
         GridInv, Grid!TypeOK
  <2>2. Grid!TypeOK'
    <3>1. items' \in Seq(Grid!Page) /\ page' \in 0..LastPage /\ total' \in 1..LastPage /\ asked' \subseteq Grid!Request
      <4>1. items \in Seq(Grid!Page) /\ page \in 0..LastPage /\ total \in 1..LastPage /\ asked \subseteq Grid!Request
        BY DEF GridInv, Grid!TypeOK
      <4>2. items' \in Seq(Grid!Page)
        BY <1>1, <2>1, <4>1
      <4>3. asked' \subseteq Grid!Request
        BY <1>1, <2>1, <4>1
      <4> QED BY <2>1, <4>1, <4>2, <4>3
    <3>2. ways' \subseteq {"crossed", "failed"}
      BY <2>1 DEF Grid!Crossed, GridInv, Grid!TypeOK
    <3> QED BY <2>1, <3>1, <3>2 DEF GridInv, Grid!TypeOK
  <2>3. ASSUME ways' = {} PROVE asked = {} /\ ways = {} /\ asked' = {Grid!First(k)}
    BY <2>1, <2>3 DEF Grid!Crossed, GridInv, OneAtATime
  <2>4. ASSUME ways' = {} PROVE (OneAtATime /\ Follows)'
    <3>1. Grid!FromTheFirst' /\ Grid!OfOneKey'
      BY <1>1, <2>1, <2>3, <2>4 DEF GridInv, Follows, Grid!FromTheFirst, Grid!OfOneKey
    <3> QED BY <1>1, <2>1, <2>3, <2>4, <3>1 DEF OneAtATime, Follows
  <2>5. style' = "history" => \A i \in DOMAIN items' : items'[i].key = key'
    BY <1>1, <2>1
  <2> QED BY <2>1, <2>2, <2>4, <2>5 DEF GridInv
<1> QED BY <1>2, <1>3

\* The next page, or another one of the table.
LEMMA GridAsks == ASSUME GridInv, Grid!Scroll \/ Grid!TurnPage PROVE GridInv'
<1> USE GridAssumption
<1>1. ASSUME NEW n \in 1..LastPage
      PROVE  /\ Grid!More(n) \in Grid!Request /\ (Grid!More(n)).key = key /\ (Grid!More(n)).page = n
             /\ (Grid!More(n)).reset = (style = "table")
  BY DEF Grid!More, Grid!Request, GridInv, Grid!TypeOK
<1>2. CASE Grid!Scroll
  <2>1. page \in Nat /\ page + 1 \in 1..LastPage /\ style # "table"
    BY <1>2 DEF Grid!Scroll, GridInv, Grid!TypeOK
  <2>2. Grid!TypeOK'
    BY <1>1, <1>2, <2>1 DEF Grid!Scroll, GridInv, Grid!TypeOK
  <2>3. ASSUME ways' = {} PROVE (OneAtATime /\ Follows)'
    <3>1. ways = {} /\ OneAtATime /\ Follows /\ asked = {} /\ asked' = {Grid!More(page + 1)}
      BY <1>2, <2>3 DEF Grid!Scroll, GridInv, OneAtATime
    <3>2. ItemsOfKey /\ page = Len(items)
      BY <3>1 DEF Follows
    <3> QED BY <1>1, <1>2, <2>1, <3>1, <3>2 DEF Grid!Scroll, OneAtATime, Follows, Grid!FromTheFirst,
       Grid!OfOneKey, ItemsOfKey
  <2> QED BY <1>2, <2>1, <2>2, <2>3 DEF Grid!Scroll, GridInv
<1>3. CASE Grid!TurnPage
  <2>1. PICK n \in 1..LastPage : page' = n /\ asked' = {Grid!More(n)}
    BY <1>3 DEF Grid!TurnPage, GridInv, Grid!TypeOK
  <2>2. n \in 1..LastPage
    BY DEF GridInv, Grid!TypeOK
  <2>3. Grid!TypeOK'
    BY <1>1, <1>3, <2>1, <2>2 DEF Grid!TurnPage, GridInv, Grid!TypeOK
  <2>4. ASSUME ways = {} PROVE TableKnows'
    BY <1>1, <1>3, <2>1, <2>2, <2>4 DEF Grid!TurnPage, TableKnows
  <2> QED BY <1>3, <2>3, <2>4 DEF Grid!TurnPage, GridInv
<1> QED BY <1>2, <1>3

\* A page comes.
LEMMA GridAnswers == ASSUME GridInv, NEW r \in asked, Grid!Answer(r) PROVE GridInv'
<1> USE GridAssumption
<1> DEFINE s == Grid!Shown(r)
<1>1. r \in Grid!Request /\ s \in Grid!Page /\ s.key = r.key /\ s.page = r.page
  BY DEF Grid!Shown, Grid!Request, Grid!Page, GridInv, Grid!TypeOK
<1> HIDE DEF s
<1>2. /\ items \in Seq(Grid!Page) /\ style' = style /\ key' = key /\ ways' = ways /\ changes' = changes
      /\ loading' = FALSE /\ asked' = asked \ {r}
  BY DEF Grid!Answer, GridInv, Grid!TypeOK
<1>3. CASE style = "history" /\ r.key # key
  BY <1>2, <1>3 DEF Grid!Answer, GridInv, Grid!TypeOK, OneAtATime
<1>4. CASE ~(style = "history" /\ r.key # key)
  <2>1. /\ items' = IF r.reset THEN <<s>> ELSE Append(items, s)
        /\ page' = IF style \in {"view", "table"} THEN page ELSE r.page
        /\ total' = LastPage
    BY <1>4 DEF Grid!Answer, s
  <2>2. /\ items' \in Seq(Grid!Page) /\ items' # <<>>
        /\ DOMAIN items' = 1..Len(items')
        /\ Len(items') = IF r.reset THEN 1 ELSE Len(items) + 1
        /\ \A i \in DOMAIN items' :
             IF r.reset THEN i = 1 /\ items'[i] = s
             ELSE items'[i] = IF i = Len(items) + 1 THEN s ELSE items[i]
    <3>1. CASE r.reset
      <4>1. items' = <<s>>
        BY <2>1, <3>1
      <4>2. <<s>> \in Seq(Grid!Page) /\ Len(<<s>>) = 1 /\ DOMAIN <<s>> = 1..1 /\ <<s>>[1] = s /\ <<s>> # <<>>
        BY <1>1
      <4> QED BY <3>1, <4>1, <4>2
    <3>2. CASE ~r.reset
      <4>1. items' = Append(items, s)
        BY <2>1, <3>2
      <4> QED BY <1>1, <1>2, <3>2, <4>1
    <3> QED BY <3>1, <3>2
  <2>3. DOMAIN items = 1..Len(items) /\ Len(items) \in Nat /\ (items = <<>> <=> Len(items) = 0)
    BY <1>2
  <2>4. Grid!TypeOK'
    <3>1. page' \in 0..LastPage /\ total' \in 1..LastPage /\ asked' \subseteq Grid!Request
      <4>1. r.page \in 0..LastPage
        BY <1>1 DEF Grid!Request
      <4> QED BY <1>2, <2>1, <4>1 DEF GridInv, Grid!TypeOK
    <3> QED BY <1>2, <2>2, <3>1 DEF GridInv, Grid!TypeOK
  <2>5. style' = "history" => \A i \in DOMAIN items' : items'[i].key = key'
    BY <1>1, <1>2, <1>4, <2>2, <2>3 DEF GridInv
  <2>6. ASSUME style = "table", ways = {} PROVE TableKnows'
    BY <1>1, <1>2, <2>2, <2>6 DEF GridInv, TableKnows, ItemsOfKey
  <2>7. ASSUME style # "table", ways = {} PROVE (OneAtATime /\ Follows)'
    <3>1. OneAtATime /\ Follows /\ asked' = {} /\ r.key = key
      BY <1>2, <2>7 DEF GridInv, OneAtATime
    <3>2. IF r.reset THEN r.page = 1 /\ (style = "view" => page = 1)
          ELSE /\ ItemsOfKey /\ r.page = Len(items) + 1
               /\ page = IF style = "view" THEN Len(items) + 1 ELSE Len(items)
      BY <3>1 DEF Follows
    <3>3. ItemsOfKey' /\ Grid!OfOneKey'
      BY <1>1, <1>2, <2>2, <2>3, <3>1, <3>2 DEF ItemsOfKey, Grid!OfOneKey
    <3>4. Grid!FromTheFirst'
      <4>1. Grid!FromTheFirst
        BY <3>1 DEF Follows
      <4> QED BY <1>1, <2>2, <2>3, <3>2, <4>1 DEF Grid!FromTheFirst
    <3>5. page' = Len(items')
      BY <2>1, <2>2, <2>7, <3>2
    <3> QED BY <1>2, <3>1, <3>3, <3>4, <3>5 DEF OneAtATime, Follows
  <2> QED BY <1>2, <2>4, <2>5, <2>6, <2>7 DEF GridInv
<1> QED BY <1>3, <1>4

\* A page fails to come.
LEMMA GridFails == ASSUME GridInv, NEW r \in asked, Grid!Fail(r) PROVE GridInv'
<1> USE GridAssumption
<1>1. <<>> \in Seq(Grid!Page) /\ DOMAIN <<>> = {}
  OBVIOUS
<1>2. /\ style' = style /\ key' = key /\ changes' = changes /\ page' = page /\ total' = total
      /\ loading' = FALSE /\ asked' = asked \ {r}
      /\ items' = IF style = "search" /\ r.reset THEN <<>> ELSE items
      /\ ways' = IF r.reset \/ style = "view" THEN ways \cup {"failed"} ELSE ways
  BY DEF Grid!Fail
<1>3. Grid!TypeOK'
  BY <1>1, <1>2 DEF GridInv, Grid!TypeOK
<1>4. style' = "history" => \A i \in DOMAIN items' : items'[i].key = key'
  BY <1>1, <1>2 DEF GridInv
<1>5. ASSUME ways' = {} PROVE ways = {} /\ ~r.reset /\ style # "view" /\ items' = items
  BY <1>2, <1>5
<1>6. ASSUME ways' = {} PROVE style # "table"
  BY <1>5, <1>6 DEF GridInv, TableKnows
<1>7. ASSUME ways' = {} PROVE (OneAtATime /\ Follows)'
  BY <1>2, <1>5, <1>6, <1>7 DEF GridInv, OneAtATime, Follows, ItemsOfKey, Grid!FromTheFirst,
     Grid!OfOneKey
<1> QED BY <1>2, <1>3, <1>4, <1>6, <1>7 DEF GridInv

\* Whatever happens to a list, its invariant stays.
LEMMA GridKept == ASSUME GridInv, Grid!Next \/ UNCHANGED Grid!vars PROVE GridInv'
<1>1. CASE UNCHANGED Grid!vars
  BY <1>1 DEF Grid!vars, GridInv, Grid!TypeOK, TableKnows, OneAtATime, Follows, ItemsOfKey,
     Grid!FromTheFirst, Grid!OfOneKey
<1> QED BY <1>1, GridChanges, GridAsks, GridAnswers, GridFails DEF Grid!Next

\* A list shows pages that follow one another, in the end those of its key.
LEMMA GridFollows == ASSUME GridInv PROVE Grid!PagesFollow /\ Grid!SettledListIsOfItsKey
BY DEF GridInv, Grid!PagesFollow, Grid!SettledListIsOfItsKey, TableKnows, OneAtATime, Follows,
   ItemsOfKey

-----------------------------------------------------------------------------
(* The administrator's page (AdminPage) *)

\* Each act counts as an event before the server counts it, and there is one at a time.
ActsCount ==
    /\ users <= events
    /\ \A a \in asks : a.what = "act" /\ a.got = "none" => users < events
    /\ \A a, b \in asks : a.what = "act" /\ b.what = "act" => a = b

AboutUsers(a) == a.what \in {"users", "act"}

\* Of answers that overtook no other: the table is the one asked for, or what will bring
\* it is the only request of its kind under way, for the present view.
TableComes ==
    /\ \A a, b \in asks : AboutUsers(a) /\ AboutUsers(b) => a = b
    /\ \A a \in asks : AboutUsers(a) => a.view = view
    /\ \A a \in asks : a.what = "users" /\ a.got # "none" => a.users = users
    /\ table = [view |-> view, users |-> users] \/ \E a \in asks : AboutUsers(a)

WillShow(a) == a.what = "status" \/ (a.what = "run" /\ a.got = "started")

\* A job that was started here is shown, or what will show it is under way.
JobComes == job # "idle" /\ ~elsewhere => status \/ \E a \in asks : WillShow(a)

StatusIsToldOf == \A a \in asks : a.what \in {"status", "tick"} => a.got \in {"none", "idle", "running"}

AdminInv ==
    /\ Admin!TypeOK /\ ActsCount /\ StatusIsToldOf
    /\ job = "idle" => ~elsewhere
    /\ ~crossed => (drawn /\ status => poll) /\ JobComes /\ TableComes

\* A new request is one, about the present view.
LEMMA AdminAsk ==
    ASSUME AdminInv, NEW what \in Admin!Kinds
    PROVE  /\ Admin!Ask(what) \in Admin!Asks /\ (Admin!Ask(what)).what = what /\ (Admin!Ask(what)).got = "none"
           /\ (Admin!Ask(what)).view = view
BY AdminAssumption DEF AdminInv, Admin!TypeOK, Admin!Asks, Admin!Ask, Admin!Gots

LEMMA AdminUsers ==
    ASSUME AdminInv, NEW v \in View
    PROVE  /\ Admin!Users(v) \in Admin!Asks /\ (Admin!Users(v)).what = "users" /\ (Admin!Users(v)).got = "none"
           /\ (Admin!Users(v)).view = v
<1>1. Admin!Users(v) = [what |-> "users", view |-> v, got |-> "none", users |-> 0]
  BY DEF Admin!Users, Admin!Ask
<1> QED BY <1>1, AdminAssumption DEF Admin!Asks, Admin!Kinds, Admin!Gots

\* The page knows everything when it has loaded.
LEMMA AdminStart == ASSUME Admin!Init PROVE AdminInv
<1>1. Admin!Ask("status") \in Admin!Asks /\ (Admin!Ask("status")).what = "status" /\ (Admin!Ask("status")).got = "none"
  BY AdminAssumption DEF Admin!Init, Admin!Asks, Admin!Ask, Admin!Kinds, Admin!Gots
<1>2. Admin!TypeOK
  <2>1. table \in [view : View, users : 0..AdminEvents] /\ 0 \in 0..AdminEvents
    BY AdminAssumption DEF Admin!Init
  <2> QED BY <1>1, <2>1 DEF Admin!Init, Admin!TypeOK
<1> QED BY <1>1, <1>2, AdminAssumption DEF Admin!Init, AdminInv, ActsCount, StatusIsToldOf, JobComes,
   TableComes,
           AboutUsers, WillShow

\* What the administrator does.
LEMMA AdminActs ==
    ASSUME AdminInv, \/ \E what \in {"run", "stop"} : Admin!Press(what)
                     \/ \E v \in View : Admin!TurnTo(v)
                     \/ Admin!Act
    PROVE  AdminInv'
<1> USE AdminAssumption
<1>1. ASSUME NEW what \in {"run", "stop"}, Admin!Press(what) PROVE AdminInv'
  <2>1. Admin!Ask(what) \in Admin!Asks /\ (Admin!Ask(what)).what = what
    BY AdminAsk DEF Admin!Kinds
  <2>2. Admin!TypeOK'
    BY <1>1, <2>1 DEF Admin!Press, Admin!Event, AdminInv, Admin!TypeOK
  <2>3. ActsCount' /\ StatusIsToldOf'
    BY <1>1, <2>1 DEF Admin!Press, Admin!Event, AdminInv, Admin!TypeOK, ActsCount, StatusIsToldOf
  <2>4. ASSUME ~crossed' PROVE JobComes' /\ TableComes'
    BY <1>1, <2>1, <2>4 DEF Admin!Press, AdminInv, JobComes, TableComes, AboutUsers, WillShow
  <2> QED BY <1>1, <2>2, <2>3, <2>4 DEF Admin!Press, AdminInv
<1>2. ASSUME NEW v \in View, Admin!TurnTo(v) PROVE AdminInv'
  <2>1. Admin!Users(v) \in Admin!Asks /\ (Admin!Users(v)).what = "users" /\ (Admin!Users(v)).got = "none" /\ (Admin!Users(v)).view = v
    BY AdminUsers
  <2>2. Admin!TypeOK'
    BY <1>2, <2>1 DEF Admin!TurnTo, Admin!Event, AdminInv, Admin!TypeOK, Admin!Asked
  <2>3. ActsCount' /\ StatusIsToldOf'
    BY <1>2, <2>1 DEF Admin!TurnTo, Admin!Event, AdminInv, Admin!TypeOK, ActsCount, StatusIsToldOf
  <2>4. ASSUME ~crossed' PROVE JobComes' /\ TableComes'
    <3>1. ~crossed /\ \A a \in asks : ~AboutUsers(a)
      BY <1>2, <2>4 DEF Admin!TurnTo, Admin!Asked, AboutUsers
    <3>2. JobComes'
      BY <1>2, <3>1 DEF Admin!TurnTo, AdminInv, JobComes
    <3>3. TableComes'
      BY <1>2, <2>1, <3>1 DEF Admin!TurnTo, TableComes, AboutUsers
    <3> QED BY <3>2, <3>3
  <2> QED BY <1>2, <2>2, <2>3, <2>4 DEF Admin!TurnTo, AdminInv
<1>3. CASE Admin!Act
  <2>1. Admin!Ask("act") \in Admin!Asks /\ (Admin!Ask("act")).what = "act" /\ (Admin!Ask("act")).got = "none" /\ (Admin!Ask("act")).view = view
    BY AdminAsk DEF Admin!Kinds
  <2>2. Admin!TypeOK'
    BY <1>3, <2>1 DEF Admin!Act, Admin!Event, AdminInv, Admin!TypeOK, Admin!Asked
  <2>3. ActsCount' /\ StatusIsToldOf'
    BY <1>3, <2>1 DEF Admin!Act, Admin!Event, Admin!Asked, AdminInv, Admin!TypeOK, ActsCount,
       StatusIsToldOf
  <2>4. ASSUME ~crossed' PROVE JobComes' /\ TableComes'
    <3>1. ~crossed /\ \A a \in asks : ~AboutUsers(a)
      BY <1>3, <2>4 DEF Admin!Act, Admin!Asked, AboutUsers
    <3>2. JobComes'
      BY <1>3, <3>1 DEF Admin!Act, AdminInv, JobComes
    <3>3. TableComes'
      BY <1>3, <2>1, <3>1 DEF Admin!Act, TableComes, AboutUsers
    <3> QED BY <3>2, <3>3
  <2> QED BY <1>3, <2>2, <2>3, <2>4 DEF Admin!Act, AdminInv
<1> QED BY <1>1, <1>2, <1>3

\* The job's own life.
LEMMA AdminJob == ASSUME AdminInv, Admin!JobBegins \/ Admin!JobEnds \/ Admin!JobStarts PROVE AdminInv'
<1> USE AdminAssumption
<1>1. /\ UNCHANGED <<status, drawn, poll, users, view, table, asks, crossed>> /\ events <= events'
      /\ events' \in 0..AdminEvents /\ job' \in {"idle", "starting", "running"} /\ elsewhere' \in BOOLEAN
      /\ (job' # "idle" /\ ~elsewhere' => job # "idle" /\ ~elsewhere) /\ (job' = "idle" => ~elsewhere')
  <2>1. CASE Admin!JobBegins
    BY <2>1 DEF Admin!JobBegins, AdminInv, Admin!TypeOK
  <2>2. CASE Admin!JobEnds
    <3>1. elsewhere' \in BOOLEAN /\ ~elsewhere' /\ job' = "idle"
      BY <2>2 DEF Admin!JobEnds
    <3> QED BY <2>2, <3>1 DEF Admin!JobEnds, AdminInv, Admin!TypeOK
  <2>3. CASE Admin!JobStarts
    BY <2>3 DEF Admin!JobStarts, Admin!Event, AdminInv, Admin!TypeOK
  <2> QED BY <2>1, <2>2, <2>3
<1>2. Admin!TypeOK'
  BY <1>1 DEF AdminInv, Admin!TypeOK
<1>3. ActsCount' /\ StatusIsToldOf'
  BY <1>1, <1>2 DEF AdminInv, Admin!TypeOK, Admin!Asks, ActsCount, StatusIsToldOf
<1>4. JobComes => JobComes'
  BY <1>1 DEF JobComes, WillShow
<1>5. TableComes => TableComes'
  BY <1>1 DEF TableComes, AboutUsers
<1> QED BY <1>1, <1>2, <1>3, <1>4, <1>5 DEF AdminInv

\* The server answers.
LEMMA AdminServes == ASSUME AdminInv, NEW a \in asks, Admin!Serve(a) PROVE AdminInv'
<1> USE AdminAssumption
<1>1. PICK got \in Admin!Gots \ {"none"} :
        /\ asks' = (asks \ {a}) \cup {[a EXCEPT !.got = got, !.users = users]}
        /\ CASE a.what = "run" -> got = IF Admin!Running THEN "already_running" ELSE "started"
             [] a.what \in {"status", "tick"} -> got = IF Admin!Running THEN "running" ELSE "idle"
             [] OTHER -> got = "done"
  BY DEF Admin!Serve
<1> DEFINE b == [a EXCEPT !.got = got, !.users = users]
<1>2. /\ a \in Admin!Asks /\ a.got = "none" /\ users \in 0..AdminEvents
      /\ b \in Admin!Asks /\ b.what = a.what /\ b.view = a.view /\ b.got = got /\ b.users = users
  BY DEF Admin!Serve, AdminInv, Admin!TypeOK, Admin!Asks
<1>3. asks' = (asks \ {a}) \cup {b} /\ got # "none" /\ (a.what = "run" /\ job # "running" => got = "started")
  BY <1>1 DEF Admin!Running
<1> HIDE DEF b
<1>4. /\ job' = IF a.what = "run" /\ job = "idle" THEN "starting" ELSE job
      /\ users' = IF a.what = "act" THEN users + 1 ELSE users
      /\ UNCHANGED <<status, drawn, poll, view, table, events, elsewhere, crossed>>
  BY DEF Admin!Serve
<1>5. users' \in 0..AdminEvents /\ users' <= events
  BY <1>2, <1>4 DEF AdminInv, Admin!TypeOK, ActsCount, StatusIsToldOf
<1>6. Admin!TypeOK'
  BY <1>2, <1>3, <1>4, <1>5 DEF AdminInv, Admin!TypeOK
<1>7. ActsCount' /\ StatusIsToldOf'
  BY <1>1, <1>2, <1>3, <1>4, <1>5 DEF AdminInv, Admin!TypeOK, ActsCount, StatusIsToldOf
<1>8. ASSUME ~crossed PROVE JobComes'
  <2>1. CASE a.what = "run" /\ job = "idle"
    BY <1>2, <1>3, <2>1 DEF JobComes, WillShow
  <2>2. CASE ~(a.what = "run" /\ job = "idle")
    BY <1>2, <1>3, <1>4, <1>8, <2>2 DEF AdminInv, JobComes, WillShow
  <2> QED BY <2>1, <2>2
<1>9. ASSUME ~crossed PROVE TableComes'
  <2>1. AboutUsers(b) = AboutUsers(a)
    BY <1>2 DEF AboutUsers
  <2>2. TableComes
    BY <1>9 DEF AdminInv
  <2>3. \A c \in asks' : AboutUsers(c) => (c \in asks /\ c # a) \/ (c = b /\ AboutUsers(a))
    BY <1>3, <2>1
  <2>4. \A c, d \in asks' : AboutUsers(c) /\ AboutUsers(d) => c = d
    BY <2>2, <2>3 DEF TableComes
  <2>5. \A c \in asks' : AboutUsers(c) => c.view = view'
    BY <1>2, <1>4, <2>2, <2>3 DEF TableComes
  <2>6. \A c \in asks' : c.what = "users" /\ c.got # "none" => c.users = users'
    <3> SUFFICES ASSUME NEW c \in asks', c.what = "users", c.got # "none" PROVE c.users = users'
      OBVIOUS
    <3>1. AboutUsers(c)
      BY DEF AboutUsers
    <3>2. CASE c = b
      BY <1>2, <1>4, <3>2
    <3>3. CASE c \in asks /\ c # a
      <4>1. ~AboutUsers(a)
        BY <2>2, <3>1, <3>3 DEF TableComes
      <4> QED BY <1>4, <2>2, <3>3, <4>1 DEF TableComes, AboutUsers
    <3> QED BY <2>3, <3>1, <3>2, <3>3
  <2>7. table' = [view |-> view', users |-> users'] \/ \E c \in asks' : AboutUsers(c)
    <3>1. CASE AboutUsers(a)
      BY <1>3, <2>1, <3>1
    <3>2. CASE ~AboutUsers(a)
      BY <1>3, <1>4, <2>2, <3>2 DEF TableComes, AboutUsers
    <3> QED BY <3>1, <3>2
  <2> QED BY <2>4, <2>5, <2>6, <2>7 DEF TableComes, AboutUsers
<1> QED BY <1>4, <1>6, <1>7, <1>8, <1>9 DEF AdminInv

\* An answer arrives.
LEMMA AdminAnswers == ASSUME AdminInv, NEW a \in asks, Admin!Answer(a) PROVE AdminInv'
<1> USE AdminAssumption
<1>1. /\ a \in Admin!Asks /\ a.got # "none" /\ a.view \in View /\ a.users \in 0..AdminEvents
      /\ UNCHANGED <<job, drawn, users, view, events, elsewhere>>
  BY DEF Admin!Answer, AdminInv, Admin!TypeOK, Admin!Asks
<1>2. CASE Admin!RunAnswered(a)
  <2>1. Admin!Ask("status") \in Admin!Asks /\ (Admin!Ask("status")).what = "status" /\ (Admin!Ask("status")).got = "none"
    BY AdminAsk DEF Admin!Kinds
  <2>2. /\ asks' = (asks \ {a}) \cup (IF a.got = "already_running" THEN {} ELSE {Admin!Ask("status")})
        /\ UNCHANGED <<status, poll, table, crossed>> /\ a.what \in {"run", "stop"}
    BY <1>2 DEF Admin!RunAnswered
  <2>3. Admin!TypeOK' /\ ActsCount' /\ StatusIsToldOf'
    BY <1>1, <2>1, <2>2 DEF AdminInv, Admin!TypeOK, ActsCount, StatusIsToldOf
  <2>4. ASSUME ~crossed PROVE JobComes'
    BY <1>1, <2>1, <2>2, <2>4 DEF AdminInv, JobComes, WillShow
  <2>5. ASSUME ~crossed PROVE TableComes'
    BY <1>1, <2>1, <2>2, <2>5 DEF AdminInv, TableComes, AboutUsers
  <2> QED BY <1>1, <2>2, <2>3, <2>4, <2>5 DEF AdminInv
<1>3. CASE Admin!StatusAnswered(a)
  <2>1. Admin!TypeOK' /\ ActsCount' /\ StatusIsToldOf'
    <3>1. status' \in BOOLEAN /\ poll' \in BOOLEAN /\ crossed' \in BOOLEAN
      BY <1>3 DEF Admin!StatusAnswered
    <3> QED BY <1>1, <1>3, <3>1 DEF Admin!StatusAnswered, AdminInv, Admin!TypeOK, ActsCount,
       StatusIsToldOf
  <2>2. ASSUME ~crossed' PROVE /\ ~crossed /\ drawn = status /\ (drawn /\ status => poll)
                               /\ JobComes /\ TableComes /\ (a.got = "idle" => job = "idle")
    BY <1>3, <2>2 DEF Admin!StatusAnswered, AdminInv
  <2>3. ASSUME ~crossed' PROVE drawn' /\ status' => poll'
    <3>1. CASE a.got = "running"
      <4>1. ASSUME drawn' PROVE poll
        BY <1>1, <2>2, <2>3, <4>1 DEF AdminInv, Admin!TypeOK
      <4>2. poll' = (poll /\ (a.what = "status" \/ a.got = "running"))
        BY <1>3 DEF Admin!StatusAnswered
      <4>3. poll => poll'
        BY <3>1, <4>2
      <4> QED BY <4>1, <4>3
    <3>2. CASE a.got # "running"
      BY <1>3, <3>2 DEF Admin!StatusAnswered
    <3> QED BY <3>1, <3>2
  <2>4. ASSUME ~crossed' PROVE JobComes'
    <3>1. CASE a.got = "running"
      BY <1>3, <3>1 DEF Admin!StatusAnswered, JobComes
    <3>2. CASE a.got # "running"
      <4>1. a.got = "idle"
        BY <1>1, <1>3, <3>2 DEF Admin!StatusAnswered, AdminInv, StatusIsToldOf
      <4> QED BY <1>1, <2>2, <2>4, <4>1 DEF JobComes
    <3> QED BY <3>1, <3>2
  <2>5. ASSUME ~crossed' PROVE TableComes'
    BY <1>1, <1>3, <2>2, <2>5 DEF Admin!StatusAnswered, TableComes, AboutUsers
  <2> QED BY <1>1, <1>3, <2>1, <2>3, <2>4, <2>5 DEF AdminInv
<1>4. CASE Admin!ActAnswered(a)
  <2>1. /\ Admin!Users(a.view) \in Admin!Asks /\ (Admin!Users(a.view)).what = "users"
        /\ (Admin!Users(a.view)).got = "none" /\ (Admin!Users(a.view)).view = a.view
    BY <1>1, AdminUsers
  <2>2. Admin!TypeOK' /\ ActsCount' /\ StatusIsToldOf'
    BY <1>1, <1>4, <2>1 DEF Admin!ActAnswered, AdminInv, Admin!TypeOK, ActsCount, StatusIsToldOf
  <2>3. ASSUME ~crossed PROVE JobComes'
    BY <1>1, <1>4, <2>3 DEF Admin!ActAnswered, AdminInv, JobComes, WillShow
  <2>4. ASSUME ~crossed PROVE TableComes'
    BY <1>1, <1>4, <2>1, <2>4 DEF Admin!ActAnswered, AdminInv, TableComes, AboutUsers
  <2> QED BY <1>1, <1>4, <2>2, <2>3, <2>4 DEF Admin!ActAnswered, AdminInv
<1>5. CASE Admin!UsersAnswered(a)
  <2>1. Admin!TypeOK' /\ ActsCount' /\ StatusIsToldOf'
    BY <1>1, <1>5 DEF Admin!UsersAnswered, AdminInv, Admin!TypeOK, ActsCount, StatusIsToldOf
  <2>2. ASSUME ~crossed PROVE JobComes'
    BY <1>1, <1>5, <2>2 DEF Admin!UsersAnswered, AdminInv, JobComes, WillShow
  <2>3. ASSUME ~crossed PROVE TableComes'
    BY <1>1, <1>5, <2>3 DEF Admin!UsersAnswered, AdminInv, TableComes, AboutUsers
  <2> QED BY <1>1, <1>5, <2>1, <2>2, <2>3 DEF Admin!UsersAnswered, AdminInv
<1> QED BY <1>2, <1>3, <1>4, <1>5 DEF Admin!Answer

\* The page is drawn, or its interval ticks.
LEMMA AdminDraws == ASSUME AdminInv, Admin!Draw \/ Admin!Tick PROVE AdminInv'
<1>1. CASE Admin!Draw
  BY <1>1 DEF Admin!Draw, AdminInv, Admin!TypeOK, ActsCount, StatusIsToldOf, JobComes, TableComes,
     AboutUsers, WillShow
<1>2. CASE Admin!Tick
  <2>1. Admin!Ask("tick") \in Admin!Asks /\ (Admin!Ask("tick")).what = "tick" /\ (Admin!Ask("tick")).got = "none"
    BY AdminAsk DEF Admin!Kinds
  <2> QED BY <1>2, <2>1 DEF Admin!Tick, AdminInv, Admin!TypeOK, ActsCount, StatusIsToldOf, JobComes,
     TableComes,
             AboutUsers, WillShow
<1> QED BY <1>1, <1>2

\* Whatever happens, the page's invariant stays.
LEMMA AdminKept == ASSUME AdminInv, Admin!Next \/ UNCHANGED Admin!vars PROVE AdminInv'
<1>1. CASE UNCHANGED Admin!vars
  BY <1>1 DEF Admin!vars, AdminInv, Admin!TypeOK, ActsCount, StatusIsToldOf, JobComes, TableComes,
     AboutUsers, WillShow
<1> QED BY <1>1, AdminActs, AdminJob, AdminServes, AdminAnswers, AdminDraws DEF Admin!Next

\* At rest the page knows of its job and of its users.
LEMMA AdminKnows == ASSUME AdminInv PROVE Admin!SettledPageKnows
BY DEF AdminInv, Admin!SettledPageKnows, JobComes, TableComes

-----------------------------------------------------------------------------
(* The link of a player with the server (DeviceLink) *)

\* Every device was made for a code, once; no other token is ever stored.
DevicesFromCodes ==
    /\ devices \subseteq linked /\ links \cap linked = {}
    /\ used \subseteq linked /\ token \in linked \cup {Nobody}
    /\ \A a \in asks : a.what = "status" /\ a.got = "yes" => a.of \in linked

OnItsWay(c) == \E a \in asks : a.what = "code" /\ a.of = c /\ a.got = "yes"

\* While the player missed nothing: a code that was given is used, or shown, or about to
\* be; and unless the server is being asked, what is kept of the token is true.
NothingMissed ==
    /\ \A c \in given : c \in used \/ overlay[c] = "open" \/ OnItsWay(c)
    /\ (IS_NP = "yes") = (token \in devices) \/ \E a \in asks : a.what = "ping"

LinkInv == Link!TypeOK /\ DevicesFromCodes /\ (~missed => NothingMissed)

LEMMA LinkAsk ==
    ASSUME NEW what \in {"code", "status", "ping"}, NEW c \in Code
    PROVE  /\ Link!Ask(what, c) \in Link!Asks /\ (Link!Ask(what, c)).what = what
           /\ (Link!Ask(what, c)).of = c /\ (Link!Ask(what, c)).got = "none"
BY DEF Link!Ask, Link!Asks

LEMMA LinkStart == ASSUME Link!Init PROVE LinkInv
<1>1. Link!TypeOK
  <2>1. Link!Closed \in [Code -> Link!Shown] /\ 0 \in 0..LinkEvents
    BY LinkAssumption DEF Link!Closed, Link!Shown
  <2> QED BY <2>1 DEF Link!Init, Link!TypeOK
<1>2. DevicesFromCodes /\ NothingMissed
  BY LinkAssumption DEF Link!Init, DevicesFromCodes, NothingMissed
<1> QED BY <1>1, <1>2 DEF LinkInv

\* What the user does in the player, and the timers.
LEMMA LinkPlayer ==
    ASSUME LinkInv, NEW c \in Code, Link!Start(c) \/ Link!Poll(c) \/ Link!removeOverlay(c) \/ Link!Cancel(c)
    PROVE  LinkInv'
<1> USE LinkAssumption
<1>1. ASSUME NEW what \in {"code", "status"}, asks' = asks \cup {Link!Ask(what, c)},
             UNCHANGED <<given, late, linked, devices, links, token, IS_NP, overlay, used, missed>>,
             events' \in 0..LinkEvents
      PROVE  LinkInv'
  <2>1. Link!Ask(what, c) \in Link!Asks /\ (Link!Ask(what, c)).got = "none"
    BY LinkAsk
  <2>2. Link!TypeOK'
    BY <1>1, <2>1 DEF LinkInv, Link!TypeOK
  <2>3. DevicesFromCodes'
    BY <1>1, <2>1 DEF LinkInv, DevicesFromCodes
  <2> QED BY <1>1, <2>2, <2>3 DEF LinkInv, NothingMissed, OnItsWay
<1>2. CASE Link!Start(c)
  BY <1>1, <1>2 DEF Link!Start, Link!Event, Link!server, LinkInv, Link!TypeOK
<1>3. CASE Link!Poll(c)
  BY <1>1, <1>3 DEF Link!Poll, Link!server, LinkInv, Link!TypeOK
<1>4. CASE Link!removeOverlay(c)
  BY <1>4 DEF Link!removeOverlay, Link!server, LinkInv, Link!TypeOK, Link!Shown, DevicesFromCodes,
     NothingMissed, OnItsWay
<1>5. CASE Link!Cancel(c)
  <2>1. events' \in 0..LinkEvents
    BY <1>5 DEF Link!Cancel, Link!Event, LinkInv, Link!TypeOK
  <2> QED BY <1>5, <2>1 DEF Link!Cancel, Link!server, LinkInv, Link!TypeOK, Link!Shown, DevicesFromCodes
<1> QED BY <1>2, <1>3, <1>4, <1>5

LEMMA LinkReload == ASSUME LinkInv, Link!Reload PROVE LinkInv'
<1> USE LinkAssumption
<1>1. /\ UNCHANGED <<given, late, linked, devices, links, token, events, used>>
      /\ overlay' = Link!Closed /\ IS_NP' = IF token = Nobody THEN "no" ELSE "unknown"
      /\ asks' = IF token = Nobody THEN {} ELSE {Link!Ask("ping", token)}
      /\ missed' = (missed \/ (\E c \in Code : overlay[c] = "open") \/ (\E a \in asks : a.what # "ping"))
  BY DEF Link!Reload, Link!server, Link!Checked
<1>2. token \in Code => Link!Ask("ping", token) \in Link!Asks /\ (Link!Ask("ping", token)).what = "ping"
  BY LinkAsk
<1>3. Link!TypeOK'
  BY <1>1, <1>2 DEF Link!Closed, LinkInv, Link!TypeOK, Link!Shown
<1>4. ASSUME ~missed' PROVE NothingMissed'
  <2>1. NothingMissed /\ given \subseteq Code /\ \A a \in asks : a.what = "ping"
    BY <1>1, <1>4 DEF LinkInv, Link!TypeOK
  <2>2. given \subseteq used
    BY <1>1, <1>4, <2>1 DEF NothingMissed, OnItsWay
  <2>3. (IS_NP' = "yes") = (token' \in devices') \/ \E a \in asks' : a.what = "ping"
    BY <1>1, <1>2 DEF LinkInv, Link!TypeOK
  <2> QED BY <1>1, <2>2, <2>3 DEF NothingMissed
<1>5. DevicesFromCodes'
  <2>1. \A a \in asks' : a.what # "status"
    BY <1>1, <1>2 DEF LinkInv, Link!TypeOK
  <2> QED BY <1>1, <2>1 DEF LinkInv, DevicesFromCodes
<1> QED BY <1>3, <1>4, <1>5 DEF LinkInv

LEMMA LinkTyped == ASSUME LinkInv, NEW t \in Code \cup {Nobody}, Link!TypeToken(t) PROVE LinkInv'
<1> USE LinkAssumption
<1>1. /\ UNCHANGED <<given, late, linked, devices, links, overlay>> /\ events' \in 0..LinkEvents
      /\ token' = t /\ t \in devices \cup {Nobody} /\ used' = used \cup ({t} \ {Nobody})
      /\ IS_NP' = IF t = Nobody THEN "no" ELSE IS_NP
      /\ asks' = asks \cup (IF t = Nobody THEN {} ELSE {Link!Ask("ping", t)})
      /\ ~missed' => ~missed
      /\ missed' \in BOOLEAN
  BY DEF Link!TypeToken, Link!server, Link!Checked, Link!Event, LinkInv, Link!TypeOK
<1>2. t # Nobody => Link!Ask("ping", t) \in Link!Asks /\ (Link!Ask("ping", t)).what = "ping"
  BY LinkAsk
<1>3. Link!TypeOK'
  BY <1>1, <1>2 DEF LinkInv, Link!TypeOK
<1>4. DevicesFromCodes'
  <2>1. \A a \in asks' : a.what = "status" => a \in asks
    BY <1>1, <1>2
  <2> QED BY <1>1, <2>1 DEF LinkInv, DevicesFromCodes
<1>5. ASSUME ~missed' PROVE NothingMissed'
  <2>1. \A c \in given' : c \in used' \/ overlay'[c] = "open" \/ OnItsWay(c)'
    BY <1>1, <1>5 DEF LinkInv, NothingMissed, OnItsWay
  <2>2. CASE t = Nobody
    <3>1. token' \notin devices' /\ IS_NP' # "yes"
      BY <1>1, <2>2 DEF LinkInv, Link!TypeOK
    <3> QED BY <2>1, <3>1 DEF NothingMissed
  <2>3. CASE t # Nobody
    BY <1>1, <1>2, <2>1, <2>3 DEF NothingMissed
  <2> QED BY <2>2, <2>3
<1> QED BY <1>3, <1>4, <1>5 DEF LinkInv

\* A request ends in the player.
LEMMA LinkAnswers ==
    ASSUME LinkInv, NEW a \in asks,
           Link!showOverlay(a) \/ Link!LinkAnswered(a) \/ Link!PingAnswered(a) \/ Link!AskFails(a)
    PROVE  LinkInv'
<1> USE LinkAssumption
<1>1. a \in Link!Asks /\ a.of \in Code /\ a.got \in {"none", "yes", "no"} /\ asks' = asks \ {a}
      /\ UNCHANGED <<given, late, linked, devices, links>>
  BY DEF Link!showOverlay, Link!LinkAnswered, Link!PingAnswered, Link!AskFails, Link!server, LinkInv,
     Link!TypeOK, Link!Asks
<1>2. CASE Link!showOverlay(a)
  <2>1. Link!TypeOK' /\ DevicesFromCodes'
    BY <1>1, <1>2 DEF Link!showOverlay, Link!server, LinkInv, Link!TypeOK, Link!Shown, DevicesFromCodes
  <2>2. \A c \in Code : overlay'[c] = IF c = a.of THEN "open" ELSE overlay[c]
    BY <1>1, <1>2 DEF Link!showOverlay, LinkInv, Link!TypeOK
  <2>3. ASSUME ~missed' PROVE NothingMissed'
    <3>1. NothingMissed /\ given \subseteq Code
      BY <1>2, <2>3 DEF Link!showOverlay, LinkInv, Link!TypeOK
    <3> QED BY <1>1, <1>2, <2>2, <3>1 DEF Link!showOverlay, NothingMissed, OnItsWay
  <2> QED BY <2>1, <2>3 DEF LinkInv
<1>3. CASE Link!LinkAnswered(a) /\ a.got = "yes"
  <2>1. /\ token' = a.of /\ used' = used \cup {a.of} /\ IS_NP' = "yes" /\ events' = events
        /\ overlay' = [overlay EXCEPT ![a.of] = "linked"] /\ a.what = "status"
        /\ missed' = (missed \/ a.of \notin devices)
    BY <1>3 DEF Link!LinkAnswered
  <2>2. a.of \in linked
    BY <1>3, <2>1 DEF LinkInv, DevicesFromCodes
  <2>3. Link!TypeOK'
    BY <1>1, <2>1 DEF LinkInv, Link!TypeOK, Link!Shown
  <2>4. DevicesFromCodes'
    BY <1>1, <2>1, <2>2 DEF LinkInv, DevicesFromCodes
  <2>5. ASSUME ~missed' PROVE NothingMissed'
    <3>1. NothingMissed /\ token' \in devices'
      BY <1>1, <2>1, <2>5 DEF LinkInv
    <3>2. ASSUME NEW c \in given', c \notin used' PROVE overlay'[c] = "open" \/ OnItsWay(c)'
      <4>1. c # a.of /\ c \in Code /\ (overlay[c] = "open" \/ OnItsWay(c))
        BY <1>1, <2>1, <3>1, <3>2 DEF LinkInv, Link!TypeOK, NothingMissed
      <4>2. overlay'[c] = overlay[c]
        BY <2>1, <4>1 DEF LinkInv, Link!TypeOK
      <4> QED BY <1>1, <2>1, <4>1, <4>2 DEF OnItsWay
    <3> QED BY <2>1, <3>1, <3>2 DEF NothingMissed
  <2> QED BY <2>3, <2>4, <2>5 DEF LinkInv
<1>4. CASE Link!LinkAnswered(a) /\ a.got # "yes"
  BY <1>1, <1>4 DEF Link!LinkAnswered, LinkInv, Link!TypeOK, DevicesFromCodes, NothingMissed, OnItsWay
<1>5. CASE Link!PingAnswered(a)
  <2>1. Link!TypeOK' /\ DevicesFromCodes'
    BY <1>1, <1>5 DEF Link!PingAnswered, Link!server, LinkInv, Link!TypeOK, DevicesFromCodes
  <2>2. ASSUME ~missed' PROVE NothingMissed'
    <3>1. NothingMissed /\ (a.got = "yes") = (token \in devices) /\ IS_NP' = a.got /\ a.what = "ping"
          /\ UNCHANGED <<token, overlay, used>>
      BY <1>5, <2>2 DEF Link!PingAnswered, LinkInv
    <3>2. (IS_NP' = "yes") = (token' \in devices')
      BY <1>1, <3>1
    <3>3. \A c \in given' : c \in used' \/ overlay'[c] = "open" \/ OnItsWay(c)'
      BY <1>1, <3>1 DEF NothingMissed, OnItsWay
    <3> QED BY <3>2, <3>3 DEF NothingMissed
  <2> QED BY <2>1, <2>2 DEF LinkInv
<1>6. CASE Link!AskFails(a)
  <2>1. Link!TypeOK' /\ DevicesFromCodes'
    BY <1>1, <1>6 DEF Link!AskFails, Link!Event, Link!server, LinkInv, Link!TypeOK, DevicesFromCodes
  <2>2. ASSUME ~missed' PROVE NothingMissed'
    <3>1. NothingMissed /\ a.what = "status" /\ UNCHANGED <<token, IS_NP, overlay, used>>
      BY <1>6, <2>2 DEF Link!AskFails, LinkInv
    <3> QED BY <1>1, <3>1 DEF NothingMissed, OnItsWay
  <2> QED BY <2>1, <2>2 DEF LinkInv
<1> QED BY <1>2, <1>3, <1>4, <1>5, <1>6

\* The server answers.
LEMMA LinkServes == ASSUME LinkInv, NEW a \in asks, Link!Serve(a) PROVE LinkInv'
<1> USE LinkAssumption
<1>1. PICK got \in {"yes", "no"} :
        /\ asks' = (asks \ {a}) \cup {[a EXCEPT !.got = got]}
        /\ a.what = "code" => got = "yes"
        /\ a.what = "status" /\ got = "yes" => a.of \in linked
  <2>1. a.what \in {"code", "status", "ping"}
    BY DEF LinkInv, Link!TypeOK, Link!Asks
  <2> QED BY <2>1 DEF Link!Serve
<1> DEFINE b == [a EXCEPT !.got = got]
<1>2. /\ a \in Link!Asks /\ a.got = "none" /\ a.of \in Code
      /\ b \in Link!Asks /\ b.what = a.what /\ b.of = a.of /\ b.got = got
  BY DEF Link!Serve, LinkInv, Link!TypeOK, Link!Asks
<1>3. asks' = (asks \ {a}) \cup {b}
  BY <1>1
<1> HIDE DEF b
<1>4. /\ given' = IF a.what = "code" THEN given \cup {a.of} ELSE given
      /\ UNCHANGED <<late, linked, devices, links, token, IS_NP, overlay, events, used, missed>>
  BY DEF Link!Serve
<1>5. Link!TypeOK'
  BY <1>2, <1>3, <1>4 DEF LinkInv, Link!TypeOK
<1>6. DevicesFromCodes'
  BY <1>1, <1>2, <1>3, <1>4 DEF LinkInv, DevicesFromCodes
<1>7. ASSUME ~missed PROVE NothingMissed'
  <2>1. NothingMissed
    BY <1>7 DEF LinkInv
  <2>2. \A c \in given : OnItsWay(c) => OnItsWay(c)'
    BY <1>2, <1>3 DEF OnItsWay
  <2>3. a.what = "code" => OnItsWay(a.of)'
    BY <1>1, <1>2, <1>3 DEF OnItsWay
  <2>4. \A c \in given' : c \in used' \/ overlay'[c] = "open" \/ OnItsWay(c)'
    BY <1>4, <2>1, <2>2, <2>3 DEF NothingMissed
  <2>5. (\E c \in asks : c.what = "ping") => \E c \in asks' : c.what = "ping"
    BY <1>2, <1>3
  <2> QED BY <1>4, <2>1, <2>4, <2>5 DEF NothingMissed
<1> QED BY <1>4, <1>5, <1>6, <1>7 DEF LinkInv

\* What happens on the site, and to the codes.
LEMMA LinkSite ==
    ASSUME LinkInv, NEW c \in Code, Link!LinkFound(c) \/ Link!LinkMade(c) \/ Link!CodeEnds(c) \/ Link!DeleteDevice(c)
    PROVE  LinkInv'
<1> USE LinkAssumption
<1>1. CASE Link!LinkFound(c)
  <2>1. UNCHANGED <<given, late, linked, devices, token, IS_NP, overlay, asks, used, missed>>
        /\ links' = links \cup {c} /\ c \in given \ linked /\ events' \in 0..LinkEvents
    BY <1>1 DEF Link!LinkFound, Link!Event, Link!player, LinkInv, Link!TypeOK
  <2>2. Link!TypeOK' /\ DevicesFromCodes'
    BY <2>1 DEF LinkInv, Link!TypeOK, DevicesFromCodes
  <2> QED BY <2>1, <2>2 DEF LinkInv, NothingMissed, OnItsWay
<1>2. CASE Link!LinkMade(c)
  <2>1. /\ UNCHANGED <<given, late, token, IS_NP, overlay, asks, used, events>> /\ c \in links
        /\ links' = links \ {c} /\ devices' = devices \cup {c} /\ linked' = linked \cup {c}
        /\ missed' \in BOOLEAN /\ (~missed' => ~missed)
    BY <1>2 DEF Link!LinkMade, Link!player, LinkInv, Link!TypeOK
  <2>2. Link!TypeOK' /\ DevicesFromCodes'
    BY <2>1 DEF LinkInv, Link!TypeOK, DevicesFromCodes
  <2>3. token # c
    BY <2>1 DEF LinkInv, DevicesFromCodes
  <2> QED BY <2>1, <2>2, <2>3 DEF LinkInv, NothingMissed, OnItsWay
<1>3. CASE Link!CodeEnds(c)
  <2>1. /\ UNCHANGED <<given, linked, devices, links, token, IS_NP, overlay, asks, used>>
        /\ late' = late \cup {c} /\ c \in given /\ events' \in 0..LinkEvents
        /\ missed' \in BOOLEAN /\ (~missed' => ~missed)
    BY <1>3 DEF Link!CodeEnds, Link!Event, Link!player, LinkInv, Link!TypeOK
  <2>2. Link!TypeOK' /\ DevicesFromCodes'
    BY <2>1 DEF LinkInv, Link!TypeOK, DevicesFromCodes
  <2> QED BY <2>1, <2>2 DEF LinkInv, NothingMissed, OnItsWay
<1>4. CASE Link!DeleteDevice(c)
  <2>1. /\ UNCHANGED <<given, late, linked, links, token, IS_NP, overlay, asks, used>>
        /\ devices' = devices \ {c} /\ events' \in 0..LinkEvents
        /\ missed' = (missed \/ c = token)
    BY <1>4 DEF Link!DeleteDevice, Link!Event, Link!player, LinkInv, Link!TypeOK
  <2>2. Link!TypeOK' /\ DevicesFromCodes'
    BY <2>1 DEF LinkInv, Link!TypeOK, DevicesFromCodes
  <2>3. ASSUME ~missed' PROVE ~missed /\ c # token
    BY <2>1, <2>3
  <2> QED BY <2>1, <2>2, <2>3 DEF LinkInv, NothingMissed, OnItsWay
<1> QED BY <1>1, <1>2, <1>3, <1>4

\* Whatever happens, the invariant of the link stays.
LEMMA LinkKept == ASSUME LinkInv, Link!Next \/ UNCHANGED Link!vars PROVE LinkInv'
<1>1. CASE UNCHANGED Link!vars
  BY <1>1 DEF Link!vars, LinkInv, Link!TypeOK, DevicesFromCodes, NothingMissed, OnItsWay
<1> QED BY <1>1, LinkPlayer, LinkReload, LinkTyped, LinkAnswers, LinkServes, LinkSite DEF Link!Next

\* At rest the player takes the server as connected exactly if it knows the token.
LEMMA LinkKnows == ASSUME LinkInv PROVE Link!SettledLinkIsTrue
<1> SUFFICES ASSUME asks = {}, links = {}, overlay = Link!Closed, ~missed
             PROVE  (IS_NP = "yes") = (token \in devices) /\ devices \subseteq used
  BY DEF Link!SettledLinkIsTrue
<1>1. NothingMissed
  BY DEF LinkInv
<1>2. \A c \in devices : c \in given /\ overlay[c] # "open" /\ ~OnItsWay(c)
  BY DEF LinkInv, Link!TypeOK, DevicesFromCodes, Link!Closed, OnItsWay
<1> QED BY <1>1, <1>2 DEF NothingMissed

-----------------------------------------------------------------------------
(* A setting and its copy on the server (PluginSettings) *)

SettingsTypes ==
    /\ profile \in Profile /\ local \in Settings!Row /\ server \in [Profile -> Settings!Row]
    /\ base = local[profile] /\ base # Settings!Absent
    /\ events \in Nat
    /\ \A u \in patches \cup waiting : u.key \in Profile /\ u.value \in Settings!Value /\ u.n \in Nat /\ u.n <= events
    /\ feed \in Seq([profile : Profile, value : Settings!Value])
    /\ pulls \subseteq [profile : Profile, first : BOOLEAN, read : BOOLEAN, row : Settings!Row]
    /\ np \in {"unknown", "yes", "no"} /\ registered \in BOOLEAN
    /\ np = "unknown" => registered = FALSE

\* A profile's rows on the server have its own key only.
OwnKeys ==
    /\ \A p, k \in Profile : p # k => server[p][k] = Settings!Absent
    /\ \A m \in patches : m.to = m.key
    /\ \A q \in pulls : \A k \in Profile : k # q.profile => q.row[k] = Settings!Absent

\* The last of the values of a key that are on their way to the server is the one kept here.
LastIsKept ==
    np # "no" => \A u \in patches \cup waiting :
        /\ local[u.key] # Settings!Absent
        /\ (\A o \in patches \cup waiting : o.key = u.key => o.n <= u.n) => u.value = local[u.key]

\* A pull that has still to bring something, as far as it is known.
Brings(q) == q.profile = profile /\ (q.read => q.row[profile] # Settings!Absent)

\* The server agrees about the active profile, or something that will make it or the player
\* agree is under way.
AgreementComes ==
    \/ server[profile][profile] \in {Settings!Absent, local[profile]}
    \/ Settings!Unsent(profile) \/ Settings!Coming(profile)
    \/ \E q \in pulls : Brings(q)

SettingsInv ==
    /\ SettingsTypes
    /\ missed = {} => OwnKeys /\ LastIsKept /\ (np = "yes" /\ registered = TRUE => AgreementComes)

LEMMA SettingsStart == ASSUME Settings!Init PROVE SettingsInv
<1> USE DEF Settings!Row, Settings!Stored, Settings!Value, Settings!Nothing
<1>1. PICK own \in [Profile -> Chosen \cup {Settings!Absent}] :
          server = [p \in Profile |-> [Settings!Nothing EXCEPT ![p] = own[p]]]
  BY DEF Settings!Init
<1>2. server \in [Profile -> Settings!Row] /\ \A p, k \in Profile : p # k => server[p][k] = Settings!Absent
  BY <1>1
<1>4. LastIsKept /\ OwnKeys
  BY <1>2 DEF Settings!Init, LastIsKept, OwnKeys
<1>3. local \in Settings!Row /\ local[profile] = Settings!Default /\ base = local[profile] /\ profile \in Profile
  BY DEF Settings!Init, Settings!WithDefault
<1>6. local[profile] # Settings!Absent
  BY <1>3 DEF Settings!Absent, Settings!Default
<1>7. /\ events \in Nat /\ patches = {} /\ waiting = {} /\ pulls = {} /\ np = "unknown" /\ registered = FALSE
      /\ feed \in Seq([profile : Profile, value : Settings!Value])
  BY DEF Settings!Init
<1>5. SettingsTypes
  BY <1>2, <1>3, <1>6, <1>7 DEF SettingsTypes
<1> QED BY <1>4, <1>5 DEF Settings!Init, SettingsInv

\* A patch goes among those on their way, or nowhere without NP.
LEMMA SettingsPatch ==
    ASSUME SettingsTypes, NEW v \in Settings!Value, NEW n \in Nat, Settings!PatchOut(profile, v, n)
    PROVE  \/ np = "no" /\ patches' = patches /\ waiting' = waiting
           \/ \E u : /\ u.key = profile /\ u.value = v /\ u.n = n
                    /\ patches' \cup waiting' = (patches \cup waiting) \cup {u}
                    /\ \A m \in patches' : m \in patches \/ (m.to = profile /\ m.key = profile)
<1>1. CASE np = "unknown"
  <2> DEFINE u == [key |-> profile, value |-> v, n |-> n]
  <2>1. waiting' = waiting \cup {u} /\ patches' = patches
    BY <1>1 DEF Settings!PatchOut
  <2>2. u.key = profile /\ u.value = v /\ u.n = n
    OBVIOUS
  <2> HIDE DEF u
  <2> QED BY <2>1, <2>2
<1>2. CASE np = "yes"
  <2> DEFINE u == [to |-> profile, key |-> profile, value |-> v, n |-> n]
  <2>1. patches' = patches \cup {u} /\ waiting' = waiting
    BY <1>2 DEF Settings!PatchOut
  <2>2. u.to = profile /\ u.key = profile /\ u.value = v /\ u.n = n
    OBVIOUS
  <2> HIDE DEF u
  <2> QED BY <2>1, <2>2
<1>3. CASE np = "no"
  BY <1>3 DEF Settings!PatchOut
<1> QED BY <1>1, <1>2, <1>3 DEF SettingsTypes

\* The value sent last is the one kept, whether it is a new one or was kept before.
LEMMA SettingsSent ==
    ASSUME SettingsTypes, LastIsKept, NEW v \in Settings!Value, NEW n \in Nat, Settings!PatchOut(profile, v, n),
           n > events \/ (n = events /\ v = local[profile]),
           np' = np, local' \in Settings!Row, local'[profile] = v, \A k \in Profile : k # profile => local'[k] = local[k]
    PROVE  /\ LastIsKept'
           /\ \A u \in patches' \cup waiting' : u.key \in Profile /\ u.value \in Settings!Value /\ u.n \in Nat /\ u.n <= n
           /\ np = "yes" => \E u \in patches' \cup waiting' : u.key = profile
           /\ (\A m \in patches : m.to = m.key) => \A m \in patches' : m.to = m.key
<1> USE SettingsAssumption
<1>1. v # Settings!Absent
  BY DEF Settings!Value, Settings!Absent, Settings!Default
<1>2. CASE np = "no" /\ patches' = patches /\ waiting' = waiting
  BY <1>1, <1>2 DEF SettingsTypes, LastIsKept
<1>3. ASSUME NEW u, u.key = profile, u.value = v, u.n = n,
             patches' \cup waiting' = (patches \cup waiting) \cup {u},
             \A m \in patches' : m \in patches \/ (m.to = profile /\ m.key = profile)
      PROVE  /\ LastIsKept'
             /\ \A o \in patches' \cup waiting' : o.key \in Profile /\ o.value \in Settings!Value /\ o.n \in Nat /\ o.n <= n
             /\ \E o \in patches' \cup waiting' : o.key = profile
             /\ (\A m \in patches : m.to = m.key) => \A m \in patches' : m.to = m.key
  BY <1>1, <1>3 DEF SettingsTypes, LastIsKept
<1> QED BY <1>2, <1>3, SettingsPatch

\* NP is found, or is not, and the first pull begins.
LEMMA SettingsBegin == ASSUME SettingsInv, Settings!Ping \/ Settings!Register PROVE SettingsInv'
<1>1. CASE Settings!Ping
  BY <1>1 DEF Settings!Ping, SettingsInv, SettingsTypes, OwnKeys, LastIsKept
<1>2. CASE Settings!Register
  <2> DEFINE b == Settings!Pull(profile, TRUE)
  <2>1. /\ b \in [profile : Profile, first : BOOLEAN, read : BOOLEAN, row : Settings!Row]
        /\ b.profile = profile /\ ~b.read /\ \A k \in Profile : b.row[k] = Settings!Absent
    BY DEF Settings!Pull, Settings!Nothing, Settings!Row, Settings!Stored, SettingsInv, SettingsTypes
  <2>2. /\ np = "yes" => pulls' = pulls \cup {b}
        /\ np # "yes" => pulls' = pulls
        /\ np # "unknown" /\ registered' = TRUE
        /\ UNCHANGED <<server, local, base, profile, np, waiting, patches, feed, events, missed>>
    BY <1>2 DEF Settings!Register
  <2> HIDE DEF b
  <2>3. SettingsTypes' /\ (missed = {} => OwnKeys' /\ LastIsKept')
    BY <2>1, <2>2 DEF SettingsInv, SettingsTypes, OwnKeys, LastIsKept
  <2>4. np = "yes" => AgreementComes'
    BY <2>1, <2>2 DEF AgreementComes, Brings
  <2> QED BY <2>2, <2>3, <2>4 DEF SettingsInv
<1> QED BY <1>1, <1>2

\* What is applied goes to the active profile's key, and to the base key.
LEMMA SettingsApplied ==
    ASSUME SettingsTypes, NEW p \in Profile, NEW r \in Settings!Row, Settings!Applied(p, r)
    PROVE  /\ local' \in Settings!Row /\ base' = local'[profile] /\ base' # Settings!Absent
           /\ p = profile /\ r[p] # Settings!Absent => local'[profile] = r[p]
           /\ p # profile \/ r[p] = Settings!Absent => local'[profile] = local[profile]
           /\ (\A k \in Profile : k # p => r[k] = Settings!Absent) =>
                 \A k \in Profile : k # profile => local'[k] = local[k]
<1>1. CASE p # profile
  BY <1>1 DEF Settings!Applied, SettingsTypes
<1>2. CASE p = profile
  <2>1. local' = [k \in Profile |-> IF r[k] = Settings!Absent THEN local[k] ELSE r[k]]
    BY <1>2 DEF Settings!Applied
  <2>2. /\ \A k \in Profile : local'[k] = IF r[k] = Settings!Absent THEN local[k] ELSE r[k]
        /\ local' \in Settings!Row
    BY <2>1 DEF SettingsTypes, Settings!Row
  <2> QED BY <1>2, <2>2 DEF Settings!Applied, SettingsTypes
<1> QED BY <1>1, <1>2

\* The server reads the rows for a pull.
LEMMA SettingsServed == ASSUME SettingsInv, NEW q \in pulls, Settings!PullServed(q) PROVE SettingsInv'
<1> DEFINE b == [q EXCEPT !.read = TRUE, !.row = server[q.profile]]
<1>1. /\ b \in [profile : Profile, first : BOOLEAN, read : BOOLEAN, row : Settings!Row]
      /\ b.profile = q.profile /\ b.row = server[q.profile] /\ q.profile \in Profile
  BY DEF SettingsInv, SettingsTypes
<1>2. /\ pulls' = (pulls \ {q}) \cup {b}
      /\ UNCHANGED <<server, local, base, profile, np, registered, waiting, patches, feed, events, missed>>
  BY DEF Settings!PullServed
<1> HIDE DEF b
<1>3. SettingsTypes'
  BY <1>1, <1>2 DEF SettingsInv, SettingsTypes
<1>4. ASSUME OwnKeys PROVE OwnKeys'
  BY <1>1, <1>2, <1>4 DEF OwnKeys
<1>5. LastIsKept' = LastIsKept
  BY <1>2 DEF LastIsKept
<1>6. ASSUME AgreementComes PROVE AgreementComes'
  <2>1. Settings!Unsent(profile)' = Settings!Unsent(profile) /\ Settings!Coming(profile)' = Settings!Coming(profile)
    BY <1>2 DEF Settings!Unsent, Settings!Coming
  <2>2. CASE \E o \in pulls : Brings(o)
    <3>1. PICK o \in pulls : Brings(o)
      BY <2>2
    <3>2. CASE o # q
      BY <1>2, <3>1, <3>2 DEF AgreementComes, Brings
    <3>3. CASE o = q
      BY <1>1, <1>2, <3>1, <3>3 DEF AgreementComes, Brings
    <3> QED BY <3>2, <3>3
  <2>3. CASE server[profile][profile] \in {Settings!Absent, local[profile]} \/ Settings!Unsent(profile) \/ Settings!Coming(profile)
    BY <1>2, <2>1, <2>3 DEF AgreementComes
  <2> QED BY <1>6, <2>2, <2>3 DEF AgreementComes
<1> QED BY <1>2, <1>3, <1>4, <1>5, <1>6 DEF SettingsInv

\* What is sent of a pull's absent keys is what is kept.
LEMMA SettingsMissing ==
    ASSUME SettingsTypes, NEW f, NEW r \in Settings!Row, Settings!SendMissing(f, r), local' \in Settings!Row, UNCHANGED <<np, events>>,
           r[profile] = Settings!Absent => local'[profile] = local[profile],
           \A k \in Profile : k # profile /\ missed = {} => local'[k] = local[k]
    PROVE  /\ \A u \in patches' \cup waiting' :
                 u.key \in Profile /\ u.value \in Settings!Value /\ u.n \in Nat /\ u.n <= events'
           /\ (\A m \in patches : m.to = m.key) => \A m \in patches' : m.to = m.key
           /\ np = "yes" /\ Settings!Unsent(profile) => \E u \in patches' \cup waiting' : u.key = profile
           /\ missed = {} /\ LastIsKept /\ (r[profile] = Settings!Absent \/ ~Settings!Unsent(profile)) => LastIsKept'
<1>1. CASE UNCHANGED <<patches, waiting>>
  <2>1. \A k \in Profile : missed = {} /\ (r[profile] = Settings!Absent \/ k # profile) => local'[k] = local[k]
    OBVIOUS
  <2> QED BY <1>1, <2>1 DEF SettingsTypes, LastIsKept, Settings!Unsent
<1>2. CASE r[profile] = Settings!Absent /\ local'[profile] # Settings!Absent /\ Settings!PatchOut(profile, local'[profile], events)
  <2>1. local[profile] \in Settings!Value /\ events \in Nat /\ local[profile] = local'[profile]
    BY <1>2 DEF SettingsTypes, Settings!Row, Settings!Stored
  <2>2. \/ np = "no" /\ patches' = patches /\ waiting' = waiting
        \/ \E u : /\ u.key = profile /\ u.value = local[profile] /\ u.n = events
                 /\ patches' \cup waiting' = (patches \cup waiting) \cup {u}
                 /\ \A m \in patches' : m \in patches \/ (m.to = profile /\ m.key = profile)
    BY <1>2, <2>1, SettingsPatch
  <2>3. missed = {} /\ LastIsKept => LastIsKept'
    BY <1>2, <2>1, SettingsSent
  <2> QED BY <2>1, <2>2, <2>3 DEF SettingsTypes, Settings!Unsent
<1> QED BY <1>1, <1>2 DEF Settings!SendMissing

\* The rows of a pull come.
LEMMA SettingsArrives == ASSUME SettingsInv, NEW q \in pulls, Settings!PullArrives(q) PROVE SettingsInv'
<1>1. /\ q.profile \in Profile /\ q.row \in Settings!Row /\ q.read /\ pulls' = pulls \ {q}
      /\ Settings!Applied(q.profile, q.row) /\ Settings!SendMissing(q.first, q.row)
      /\ UNCHANGED <<server, profile, np, registered, feed, events>>
      /\ missed' = IF Settings!Crosses(q.profile, q.row[q.profile]) THEN missed \cup {"crossed"} ELSE missed
  BY DEF Settings!PullArrives, SettingsInv, SettingsTypes
<1>2. SettingsTypes /\ profile \in Profile
  BY DEF SettingsInv, SettingsTypes
<1>3. /\ local' \in Settings!Row /\ base' = local'[profile] /\ base' # Settings!Absent
      /\ q.profile = profile /\ q.row[q.profile] # Settings!Absent => local'[profile] = q.row[q.profile]
      /\ q.profile # profile \/ q.row[q.profile] = Settings!Absent => local'[profile] = local[profile]
  BY <1>1, <1>2, SettingsApplied
<1>4. ASSUME missed = {} PROVE \A k \in Profile : k # profile => local'[k] = local[k]
  <2>1. \A k \in Profile : k # q.profile => q.row[k] = Settings!Absent
    BY <1>4 DEF SettingsInv, OwnKeys
  <2> QED BY <1>1, <1>2, <2>1, SettingsApplied
<1>5. q.row[profile] = Settings!Absent => local'[profile] = local[profile]
  BY <1>3
<1>6. /\ \A u \in patches' \cup waiting' : u.key \in Profile /\ u.value \in Settings!Value /\ u.n \in Nat /\ u.n <= events'
      /\ (\A m \in patches : m.to = m.key) => \A m \in patches' : m.to = m.key
      /\ np = "yes" /\ Settings!Unsent(profile) => \E u \in patches' \cup waiting' : u.key = profile
      /\ missed = {} /\ LastIsKept /\ (q.row[profile] = Settings!Absent \/ ~Settings!Unsent(profile)) => LastIsKept'
  BY <1>1, <1>2, <1>3, <1>4, <1>5, SettingsMissing
<1>7. SettingsTypes'
  BY <1>1, <1>2, <1>3, <1>6 DEF SettingsTypes
<1>8. ASSUME missed' = {}
      PROVE  OwnKeys' /\ LastIsKept' /\ (np' = "yes" /\ registered' = TRUE => AgreementComes')
  <2>1. missed = {} /\ ~Settings!Crosses(q.profile, q.row[q.profile])
    BY <1>1, <1>8
  <2>2. OwnKeys'
    BY <1>1, <1>6, <2>1 DEF SettingsInv, OwnKeys
  <2>3. q.profile # profile => q.row[profile] = Settings!Absent
    BY <1>2, <2>1 DEF SettingsInv, OwnKeys
  <2>4. LastIsKept'
    BY <1>6, <2>1, <2>3 DEF SettingsInv, Settings!Crosses
  <2>5. ASSUME np = "yes", registered = TRUE PROVE AgreementComes'
    <3>1. CASE q.profile = profile /\ q.row[profile] # Settings!Absent
      <4>1. q.row[profile] = server[profile][profile] \/ Settings!Coming(profile)
        BY <2>1, <3>1 DEF Settings!Crosses
      <4> QED BY <1>1, <1>3, <3>1, <4>1 DEF AgreementComes, Settings!Coming
    <3>2. CASE ~Brings(q)
      <4>1. local'[profile] = local[profile]
        BY <1>1, <1>3, <3>2 DEF Brings
      <4>2. AgreementComes
        BY <2>1, <2>5 DEF SettingsInv
      <4>3. \A o \in pulls : Brings(o) => o \in pulls' /\ Brings(o)'
        BY <1>1, <3>2 DEF Brings
      <4>4. Settings!Coming(profile) => Settings!Coming(profile)'
        BY <1>1 DEF Settings!Coming
      <4>5. Settings!Unsent(profile) => Settings!Unsent(profile)'
        BY <1>1, <1>6, <2>5 DEF Settings!Unsent
      <4> QED BY <1>1, <4>1, <4>2, <4>3, <4>4, <4>5 DEF AgreementComes
    <3> QED BY <1>1, <2>3, <3>1, <3>2 DEF Brings
  <2> QED BY <1>1, <2>2, <2>4, <2>5
<1> QED BY <1>7, <1>8 DEF SettingsInv

\* A pull, a patch or a message is lost.
LEMMA SettingsLost ==
    ASSUME SettingsInv, \/ \E q \in pulls : Settings!PullFails(q)
                        \/ \E m \in patches : Settings!PatchFails(m)
                        \/ Settings!MessageLost
    PROVE  SettingsInv'
<1>1. missed' # {}
  BY DEF Settings!PullFails, Settings!PatchFails, Settings!MessageLost
<1>2. ASSUME NEW q \in pulls, Settings!PullFails(q) PROVE SettingsTypes'
  <2>1. /\ pulls' = pulls \ {q} /\ Settings!SendMissing(q.first, Settings!Nothing)
        /\ UNCHANGED <<server, local, base, profile, np, registered, feed, events>>
    BY <1>2 DEF Settings!PullFails
  <2>2. Settings!Nothing \in Settings!Row /\ local' \in Settings!Row
    BY <2>1 DEF Settings!Nothing, Settings!Row, Settings!Stored, SettingsInv, SettingsTypes
  <2>3. \A u \in patches' \cup waiting' : u.key \in Profile /\ u.value \in Settings!Value /\ u.n \in Nat /\ u.n <= events'
    BY <2>1, <2>2, SettingsMissing DEF SettingsInv
  <2> QED BY <2>1, <2>3 DEF SettingsInv, SettingsTypes
<1>3. ASSUME NEW m \in patches, Settings!PatchFails(m) PROVE SettingsTypes'
  BY <1>3 DEF Settings!PatchFails, SettingsInv, SettingsTypes
<1>4. CASE Settings!MessageLost
  <2>1. feed' \in Seq([profile : Profile, value : Settings!Value])
    BY <1>4 DEF Settings!MessageLost, SettingsInv, SettingsTypes
  <2> QED BY <1>1, <1>4, <2>1 DEF Settings!MessageLost, SettingsInv, SettingsTypes
<1> QED BY <1>1, <1>2, <1>3, <1>4 DEF SettingsInv

\* A value is chosen here.
LEMMA SettingsEdit == ASSUME SettingsInv, NEW v \in Chosen, Settings!Edit(v) PROVE SettingsInv'
<1>1. /\ SettingsTypes /\ events \in Nat /\ v \in Settings!Value /\ v # Settings!Absent
      /\ events' = events + 1 /\ base' = v /\ local' = [local EXCEPT ![profile] = v]
      /\ Settings!PatchOut(profile, v, events + 1)
      /\ UNCHANGED <<server, profile, np, registered, pulls, feed, missed>>
  BY SettingsAssumption DEF Settings!Edit, Settings!Happens, Settings!setProfileSetting,
     Settings!Value, SettingsInv, SettingsTypes
<1>2. /\ local' \in Settings!Row /\ local'[profile] = v
      /\ \A k \in Profile : k # profile => local'[k] = local[k]
  BY <1>1 DEF SettingsTypes, Settings!Row, Settings!Stored
<1>3. \/ np = "no" /\ patches' = patches /\ waiting' = waiting
      \/ \E u : /\ u.key = profile /\ u.value = v /\ u.n = events + 1
               /\ patches' \cup waiting' = (patches \cup waiting) \cup {u}
               /\ \A m \in patches' : m \in patches \/ (m.to = profile /\ m.key = profile)
  BY <1>1, SettingsPatch
<1>4. SettingsTypes'
  BY <1>1, <1>2, <1>3 DEF SettingsTypes
<1>5. ASSUME missed = {} PROVE OwnKeys' /\ LastIsKept' /\ (np = "yes" => AgreementComes')
  <2>1. OwnKeys /\ LastIsKept
    BY <1>5 DEF SettingsInv
  <2>2. /\ LastIsKept'
        /\ np = "yes" => \E u \in patches' \cup waiting' : u.key = profile
        /\ (\A m \in patches : m.to = m.key) => \A m \in patches' : m.to = m.key
    <3>1. events + 1 \in Nat /\ events + 1 > events /\ np' = np
      BY <1>1
    <3> QED BY <1>1, <1>2, <2>1, <3>1, SettingsSent
  <2> QED BY <1>1, <2>1, <2>2 DEF OwnKeys, AgreementComes, Settings!Unsent
<1> QED BY <1>1, <1>4, <1>5 DEF SettingsInv

\* A patch that waited for the ping goes out.
LEMMA SettingsSends == ASSUME SettingsInv, NEW w \in waiting, Settings!SendWaiting(w) PROVE SettingsInv'
<1> DEFINE b == [to |-> profile, key |-> w.key, value |-> w.value, n |-> w.n]
<1>1. b.to = profile /\ b.key = w.key /\ b.value = w.value /\ b.n = w.n
  OBVIOUS
<1>2. /\ np # "unknown" /\ waiting' = waiting \ {w}
      /\ patches' = IF np = "yes" THEN patches \cup {b} ELSE patches
      /\ missed' = IF profile # w.key THEN missed \cup {"moved"} ELSE missed
      /\ UNCHANGED <<server, local, base, profile, np, registered, pulls, feed, events>>
  BY DEF Settings!SendWaiting
<1> HIDE DEF b
<1>3. \A u \in patches' \cup waiting' : u \in patches \cup waiting \/ u = b
  BY <1>2
<1>4. SettingsTypes'
  BY <1>1, <1>2, <1>3 DEF SettingsInv, SettingsTypes
<1>5. ASSUME missed' = {} PROVE OwnKeys' /\ LastIsKept' /\ (np = "yes" /\ registered = TRUE => AgreementComes')
  <2>1. missed = {} /\ w.key = profile /\ OwnKeys /\ LastIsKept
    BY <1>2, <1>5 DEF SettingsInv
  <2>2. OwnKeys'
    BY <1>1, <1>2, <2>1 DEF OwnKeys
  <2>3. ASSUME np = "yes" PROVE LastIsKept'
    <3>1. patches' = patches \cup {b}
      BY <1>2, <2>3
    <3>2. ASSUME NEW u \in patches' \cup waiting'
          PROVE  /\ local[u.key] # Settings!Absent
                 /\ (\A o \in patches' \cup waiting' : o.key = u.key => o.n <= u.n) => u.value = local[u.key]
      <4>1. PICK t \in patches \cup waiting : t.key = u.key /\ t.value = u.value /\ t.n = u.n
        BY <1>1, <1>3
      <4>2. \A o \in patches \cup waiting :
               \E o2 \in patches' \cup waiting' : o2.key = o.key /\ o2.n = o.n
        BY <1>1, <1>2, <3>1
      <4>3. ASSUME \A o \in patches' \cup waiting' : o.key = u.key => o.n <= u.n
            PROVE  \A o \in patches \cup waiting : o.key = t.key => o.n <= t.n
        BY <4>1, <4>2, <4>3
      <4> QED BY <2>1, <2>3, <4>1, <4>3 DEF LastIsKept
    <3> QED BY <1>2, <3>2 DEF LastIsKept
  <2>4. ASSUME np = "yes", registered = TRUE PROVE AgreementComes'
    BY <1>1, <1>2, <2>1, <2>4 DEF AgreementComes, Settings!Unsent
  <2>5. CASE np = "no"
    BY <1>2, <2>2, <2>5 DEF LastIsKept
  <2>6. np \in {"yes", "no"}
    BY <1>2 DEF SettingsInv, SettingsTypes
  <2> QED BY <2>2, <2>3, <2>4, <2>5, <2>6
<1> QED BY <1>2, <1>4, <1>5 DEF SettingsInv

\* The server stores a patch.
LEMMA SettingsStored == ASSUME SettingsInv, NEW m \in patches, Settings!PatchStored(m) PROVE SettingsInv'
<1>1. /\ patches' = patches \ {m} /\ server' = [server EXCEPT ![m.to][m.key] = m.value]
      /\ missed' = IF \E o \in patches \cup waiting : o.key = m.key /\ o.n < m.n
                   THEN missed \cup {"crossed"} ELSE missed
      /\ UNCHANGED <<local, base, profile, np, registered, pulls, waiting, feed, events>>
  BY DEF Settings!PatchStored
<1>2. m.key \in Profile /\ m.value \in Settings!Value /\ m.n \in Nat /\ server \in [Profile -> Settings!Row]
  BY DEF SettingsInv, SettingsTypes
<1>3. server' \in [Profile -> Settings!Row]
  BY <1>1, <1>2 DEF Settings!Row, Settings!Stored
<1>4. SettingsTypes'
  BY <1>1, <1>3 DEF SettingsInv, SettingsTypes
<1>5. ASSUME missed' = {} PROVE OwnKeys' /\ LastIsKept' /\ (np = "yes" /\ registered = TRUE => AgreementComes')
  <2>1. /\ missed = {} /\ OwnKeys /\ LastIsKept
        /\ \A o \in patches \cup waiting : o.key = m.key => ~(o.n < m.n)
    BY <1>1, <1>5 DEF SettingsInv
  <2>2. m.to = m.key /\ server' = [server EXCEPT ![m.key] = [server[m.key] EXCEPT ![m.key] = m.value]]
    BY <1>1, <2>1 DEF OwnKeys
  <2>3. /\ server'[m.key][m.key] = m.value
        /\ \A p, k \in Profile : p # m.key \/ k # m.key => server'[p][k] = server[p][k]
    BY <1>2, <2>2 DEF Settings!Row
  <2>4. OwnKeys'
    BY <1>1, <2>1, <2>3 DEF OwnKeys
  <2>5. LastIsKept'
    <3>1. ASSUME NEW u \in patches' \cup waiting', \A o \in patches' \cup waiting' : o.key = u.key => o.n <= u.n
          PROVE  \A o \in patches \cup waiting : o.key = u.key => o.n <= u.n
      <4>1. u \in patches \cup waiting
        BY <1>1
      <4>2. u.key = m.key => m.n <= u.n
        BY <1>2, <2>1, <4>1 DEF SettingsInv, SettingsTypes
      <4> QED BY <1>1, <3>1, <4>2
    <3> QED BY <1>1, <2>1, <3>1 DEF LastIsKept
  <2>6. ASSUME np = "yes", registered = TRUE PROVE AgreementComes'
    <3>1. AgreementComes
      BY <2>1, <2>6 DEF SettingsInv
    <3>2. CASE m.key # profile
      <4>1. server'[profile][profile] = server[profile][profile]
        BY <2>3, <3>2 DEF SettingsInv, SettingsTypes
      <4>2. Settings!Unsent(profile) => Settings!Unsent(profile)'
        BY <1>1, <3>2 DEF Settings!Unsent
      <4> QED BY <1>1, <3>1, <4>1, <4>2 DEF AgreementComes, Settings!Coming, Brings
    <3>3. CASE m.key = profile /\ \E u \in patches' \cup waiting' : u.key = profile
      BY <1>1, <3>3 DEF AgreementComes, Settings!Unsent
    <3>4. CASE m.key = profile /\ ~\E u \in patches' \cup waiting' : u.key = profile
      <4>1. \A o \in patches \cup waiting : o.key = m.key => o = m
        BY <1>1, <3>4
      <4>2. \A o \in patches \cup waiting : o.key = m.key => o.n <= m.n
        BY <1>2, <4>1
      <4>3. m.value = local[m.key]
        BY <2>1, <2>6, <4>2 DEF LastIsKept
      <4> QED BY <1>1, <2>3, <3>4, <4>3 DEF AgreementComes
    <3> QED BY <3>2, <3>3, <3>4
  <2> QED BY <2>4, <2>5, <2>6
<1> QED BY <1>1, <1>4, <1>5 DEF SettingsInv

\* A value is chosen elsewhere, and the player hears of it.
LEMMA SettingsElsewhere ==
    ASSUME SettingsInv, NEW p \in Profile, NEW v \in Chosen, Settings!Elsewhere(p, v)
    PROVE  SettingsInv'
<1> DEFINE w == [profile |-> p, value |-> v]
<1>1. /\ server' = [server EXCEPT ![p][p] = v] /\ events' = events + 1
      /\ feed' = IF np = "yes" /\ registered THEN Append(feed, w) ELSE feed
      /\ UNCHANGED <<local, base, profile, np, registered, pulls, waiting, patches, missed>>
  BY DEF Settings!Elsewhere, Settings!Happens
<1>2. w \in [profile : Profile, value : Settings!Value] /\ w.profile = p /\ w.value = v
  BY DEF Settings!Value
<1> HIDE DEF w
<1>3. /\ SettingsTypes /\ events \in Nat /\ server \in [Profile -> Settings!Row]
      /\ feed \in Seq([profile : Profile, value : Settings!Value])
  BY DEF SettingsInv, SettingsTypes
<1>4. /\ server' \in [Profile -> Settings!Row]
      /\ \A o, k \in Profile : o # p \/ k # p => server'[o][k] = server[o][k]
  BY <1>1, <1>3 DEF Settings!Row, Settings!Stored, Settings!Value
<1>5. feed' \in Seq([profile : Profile, value : Settings!Value])
  <2> DEFINE M == [profile : Profile, value : Settings!Value]
  <2>1. feed \in Seq(M) /\ w \in M
    BY <1>2, <1>3
  <2> HIDE DEF M
  <2>2. feed' \in Seq(M)
    BY <1>1, <2>1
  <2> QED BY <2>2 DEF M
<1>6. SettingsTypes'
  BY <1>1, <1>3, <1>4, <1>5 DEF SettingsTypes
<1>7. ASSUME missed = {}, OwnKeys PROVE OwnKeys'
  BY <1>1, <1>4, <1>7 DEF OwnKeys
<1>8. ASSUME LastIsKept PROVE LastIsKept'
  BY <1>1, <1>8 DEF LastIsKept
<1>9. ASSUME np = "yes", registered = TRUE, AgreementComes PROVE AgreementComes'
  <2>1. feed' = Append(feed, w)
    BY <1>1, <1>9
  <2>2. /\ DOMAIN feed' = 1..Len(feed) + 1 /\ DOMAIN feed = 1..Len(feed) /\ Len(feed) \in Nat
        /\ feed'[Len(feed) + 1] = w
        /\ \A i \in 1..Len(feed) : feed'[i] = feed[i]
    BY <1>2, <1>3, <2>1
  <2>3. CASE p = profile
    <3>1. Settings!Coming(profile)'
      BY <1>1, <1>2, <2>2, <2>3 DEF Settings!Coming
    <3> QED BY <3>1 DEF AgreementComes
  <2>4. CASE p # profile
    <3>1. server'[profile][profile] = server[profile][profile]
      BY <1>3, <1>4, <2>4 DEF SettingsTypes
    <3>2. Settings!Coming(profile) => Settings!Coming(profile)'
      BY <1>1, <2>2 DEF Settings!Coming
    <3>3. Settings!Unsent(profile) => Settings!Unsent(profile)'
      BY <1>1 DEF Settings!Unsent
    <3>4. (\E q \in pulls : Brings(q)) => \E q \in pulls' : Brings(q)'
      BY <1>1 DEF Brings
    <3> QED BY <1>1, <1>9, <3>1, <3>2, <3>3, <3>4 DEF AgreementComes
  <2> QED BY <2>3, <2>4
<1> QED BY <1>1, <1>6, <1>7, <1>8, <1>9 DEF SettingsInv

\* A message of the web socket comes.
LEMMA SettingsMessage == ASSUME SettingsInv, Settings!Message PROVE SettingsInv'
<1> DEFINE w == Head(feed)
           r == [Settings!Nothing EXCEPT ![w.profile] = w.value]
<1>1. /\ feed # <<>> /\ feed' = Tail(feed) /\ Settings!Applied(w.profile, r)
      /\ missed' = IF /\ w.profile = profile
                      /\ Settings!Unsent(w.profile)
                         \/ (w.value # server[w.profile][w.profile] /\ \A i \in 2..Len(feed) : feed[i].profile # w.profile)
                   THEN missed \cup {"crossed"} ELSE missed
      /\ UNCHANGED <<server, profile, np, registered, pulls, waiting, patches, events>>
  BY DEF Settings!Message
<1>2. SettingsTypes /\ feed \in Seq([profile : Profile, value : Settings!Value]) /\ profile \in Profile
  BY DEF SettingsInv, SettingsTypes
<1>3. /\ w \in [profile : Profile, value : Settings!Value] /\ feed' \in Seq([profile : Profile, value : Settings!Value])
      /\ Len(feed) \in Nat \ {0} /\ DOMAIN feed = 1..Len(feed) /\ DOMAIN feed' = 1..Len(feed) - 1
      /\ w = feed[1] /\ \A i \in 1..Len(feed) - 1 : feed'[i] = feed[i + 1]
  BY <1>1, <1>2, QueueTail
<1>4. w.profile \in Profile /\ w.value \in Settings!Value /\ w.value # Settings!Absent
  BY <1>3, SettingsAssumption DEF Settings!Value, Settings!Absent, Settings!Default
<1>5. r \in Settings!Row /\ r[w.profile] = w.value /\ \A k \in Profile : k # w.profile => r[k] = Settings!Absent
  BY <1>4 DEF Settings!Row, Settings!Stored, Settings!Nothing
<1> HIDE DEF w, r
<1>6. /\ local' \in Settings!Row /\ base' = local'[profile] /\ base' # Settings!Absent
      /\ w.profile = profile => local'[profile] = w.value
      /\ w.profile # profile => local'[profile] = local[profile]
      /\ \A k \in Profile : k # profile => local'[k] = local[k]
  BY <1>1, <1>2, <1>4, <1>5, SettingsApplied
<1>7. SettingsTypes'
  BY <1>1, <1>2, <1>3, <1>6 DEF SettingsTypes
<1>8. ASSUME missed' = {}
      PROVE  OwnKeys' /\ LastIsKept' /\ (np' = "yes" /\ registered' = TRUE => AgreementComes')
  <2>1. /\ missed = {} /\ OwnKeys /\ LastIsKept
        /\ w.profile = profile => ~Settings!Unsent(profile)
        /\ w.profile = profile => w.value = server[profile][profile] \/ \E i \in 2..Len(feed) : feed[i].profile = profile
    BY <1>1, <1>8 DEF SettingsInv
  <2>2. OwnKeys'
    BY <1>1, <2>1 DEF OwnKeys
  <2>3. LastIsKept'
    <3>1. ASSUME NEW u \in patches \cup waiting PROVE local'[u.key] = local[u.key]
      <4>1. u.key \in Profile
        BY <1>2 DEF SettingsTypes
      <4> QED BY <1>6, <2>1, <4>1 DEF Settings!Unsent
    <3> QED BY <1>1, <2>1, <3>1 DEF LastIsKept
  <2>4. ASSUME np = "yes", registered = TRUE PROVE AgreementComes'
    <3>1. CASE w.profile = profile
      <4>1. ASSUME NEW i \in 2..Len(feed), feed[i].profile = profile PROVE Settings!Coming(profile)'
        <5>1. i - 1 \in DOMAIN feed' /\ feed'[i - 1] = feed[i]
          BY <1>3
        <5> QED BY <1>1, <4>1, <5>1 DEF Settings!Coming
      <4> QED BY <1>1, <1>6, <2>1, <3>1, <4>1 DEF AgreementComes
    <3>2. CASE w.profile # profile
      <4>1. AgreementComes
        BY <2>1, <2>4 DEF SettingsInv
      <4>2. Settings!Coming(profile) => Settings!Coming(profile)'
        <5>1. ASSUME NEW i \in DOMAIN feed, feed[i].profile = profile PROVE i - 1 \in DOMAIN feed' /\ feed'[i - 1] = feed[i]
          BY <1>3, <3>2, <5>1
        <5> QED BY <1>1, <5>1 DEF Settings!Coming
      <4>3. Settings!Unsent(profile) => Settings!Unsent(profile)'
        BY <1>1 DEF Settings!Unsent
      <4>4. (\E q \in pulls : Brings(q)) => \E q \in pulls' : Brings(q)'
        BY <1>1 DEF Brings
      <4> QED BY <1>1, <1>6, <3>2, <4>1, <4>2, <4>3, <4>4 DEF AgreementComes
    <3> QED BY <3>1, <3>2
  <2> QED BY <1>1, <2>2, <2>3, <2>4
<1> QED BY <1>7, <1>8 DEF SettingsInv

\* Another profile is chosen.
LEMMA SettingsSwitch == ASSUME SettingsInv, NEW p \in Profile, Settings!SwitchProfile(p) PROVE SettingsInv'
<1> DEFINE b == Settings!Pull(p, FALSE)
<1>1. /\ b \in [profile : Profile, first : BOOLEAN, read : BOOLEAN, row : Settings!Row]
      /\ b.profile = p /\ ~b.read /\ \A k \in Profile : b.row[k] = Settings!Absent
  BY DEF Settings!Pull, Settings!Nothing, Settings!Row, Settings!Stored
<1>2. /\ profile' = p /\ events' = events + 1
      /\ local' = [local EXCEPT ![p] = IF @ = Settings!Absent THEN Settings!Default ELSE @] /\ base' = local'[p]
      /\ pulls' = IF np = "yes" /\ registered THEN pulls \cup {b} ELSE pulls
      /\ UNCHANGED <<server, np, registered, waiting, patches, feed, missed>>
  BY DEF Settings!SwitchProfile, Settings!Happens, Settings!refreshProfileSettings, Settings!WithDefault
<1> HIDE DEF b
<1>3. SettingsTypes /\ local \in Settings!Row /\ events \in Nat
  BY DEF SettingsInv, SettingsTypes
<1>4. /\ local' \in Settings!Row /\ local'[p] # Settings!Absent
      /\ \A k \in Profile : local[k] # Settings!Absent => local'[k] = local[k]
  BY <1>2, <1>3 DEF Settings!Row, Settings!Stored, Settings!Value, Settings!Absent, Settings!Default
<1>5. pulls' \subseteq pulls \cup {b} /\ (np = "yes" /\ registered = TRUE => b \in pulls')
  BY <1>2
<1>6. SettingsTypes'
  BY <1>1, <1>2, <1>3, <1>4, <1>5 DEF SettingsTypes
<1>7. ASSUME OwnKeys PROVE OwnKeys'
  BY <1>1, <1>2, <1>5, <1>7 DEF OwnKeys
<1>8. ASSUME LastIsKept PROVE LastIsKept'
  BY <1>2, <1>3, <1>4, <1>8 DEF LastIsKept, SettingsTypes
<1>9. ASSUME np = "yes", registered = TRUE PROVE AgreementComes'
  BY <1>1, <1>2, <1>5, <1>9 DEF AgreementComes, Brings
<1> QED BY <1>2, <1>6, <1>7, <1>8, <1>9 DEF SettingsInv

\* Whatever happens, the invariant of the setting stays.
LEMMA SettingsKept == ASSUME SettingsInv, Settings!Next \/ UNCHANGED Settings!vars PROVE SettingsInv'
<1>1. CASE UNCHANGED Settings!vars
  BY <1>1 DEF Settings!vars, SettingsInv, SettingsTypes, OwnKeys, LastIsKept, AgreementComes, Brings,
     Settings!Unsent, Settings!Coming
<1> QED BY <1>1, SettingsBegin, SettingsServed, SettingsArrives, SettingsLost, SettingsEdit,
   SettingsSends,
        SettingsStored, SettingsElsewhere, SettingsMessage, SettingsSwitch DEF Settings!Next

\* At rest the screen, the storage and the server agree.
LEMMA SettingsAgree == ASSUME SettingsInv PROVE Settings!SettledSettingsAgree
<1> SUFFICES ASSUME Settings!Quiet, missed = {}, np = "yes", registered
             PROVE  base = local[profile] /\ server[profile][profile] \in {Settings!Absent, local[profile]}
  BY DEF Settings!SettledSettingsAgree
<1>1. SettingsTypes /\ (registered = TRUE => AgreementComes)
  BY DEF SettingsInv
<1>2. ~Settings!Unsent(profile) /\ ~Settings!Coming(profile) /\ ~\E q \in pulls : Brings(q)
  BY DEF Settings!Quiet, Settings!Unsent, Settings!Coming
<1> QED BY <1>1, <1>2 DEF SettingsTypes, AgreementComes

-----------------------------------------------------------------------------
(* The section of settings two plugins share (SettingsRegistry) *)

\* np.js draws the section before np_unwatched.js looks again, unless it came after the wait.
DrawnInTime ==
    /\ ping = Registry!Before <=> ~numparser_plugin
    /\ attempts = Registry!Over <=> recheck # Registry!Before
    /\ badges = IF recheck = Registry!Before THEN 0 ELSE 1
    /\ linkable = "unknown" => ping # Registry!Over
    /\ recheck # Registry!Before /\ Registry!Runs(ping) => late \/ (Registry!Runs(recheck) /\ ping < recheck)

\* The entries of np.js are there once it has drawn them; those of np_unwatched.js from its
\* registration until np.js draws, and again once np_unwatched.js has looked.
EachAddedOnce ==
    /\ section \in Seq({"np", "token", "unwatched"})
    /\ Registry!Once("np") /\ Registry!Once("token") /\ Registry!Once("unwatched")
    /\ Registry!Registered("np") <=> ping = Registry!Over
    /\ Registry!Registered("token") <=> ping = Registry!Over /\ linkable = "yes"
    /\ Registry!Registered("unwatched") => recheck # Registry!Before
    /\ recheck # Registry!Before => Registry!Registered("unwatched") \/ (ping = Registry!Over /\ (late \/ recheck # Registry!Over))

RegistryInv ==
    /\ now \in Nat
    /\ numparser_plugin \in BOOLEAN /\ late \in BOOLEAN /\ linkable \in {"unknown", "yes", "no"}
    /\ ping \in Registry!Timer(Registry!Answer) /\ attempts \in Registry!Timer(Registry!Attempts) /\ recheck \in Registry!Timer(Registry!Recheck)
    /\ DrawnInTime /\ EachAddedOnce

LEMMA RegistryStart == ASSUME Registry!Init PROVE RegistryInv
<1>1. section \in Seq({"np", "token", "unwatched"}) /\ \A e : Registry!Once(e) /\ ~Registry!Registered(e)
  BY DEF Registry!Init, Registry!Once, Registry!Registered
<1>2. numparser_plugin \in BOOLEAN /\ ~numparser_plugin /\ late \in BOOLEAN
  BY DEF Registry!Init
<1>3. ping = 99 /\ attempts = 99 /\ recheck = 99 /\ badges = 0 /\ now = 0 /\ linkable = "unknown"
  BY DEF Registry!Init, Registry!Before
<1>4. DrawnInTime
  BY <1>2, <1>3 DEF DrawnInTime, Registry!Before, Registry!Over, Registry!Runs
<1>5. EachAddedOnce
  BY <1>1, <1>3 DEF EachAddedOnce, Registry!Before, Registry!Over
<1> QED BY <1>2, <1>3, <1>4, <1>5 DEF RegistryInv, Registry!Timer, Registry!Before, Registry!Over

\* np.js begins, is answered and draws the section.
LEMMA RegistryNp ==
    ASSUME RegistryInv, Registry!NpBoots \/ Registry!PingAnswered \/ Registry!NpInitSettings
    PROVE  RegistryInv'
<1> USE DEF RegistryInv, DrawnInTime, EachAddedOnce, Registry!Timer, Registry!Before, Registry!Over,
   Registry!Runs, Registry!Answer, Registry!Attempts, Registry!Recheck
<1>1. CASE Registry!NpBoots
  <2>1. \A e : (Registry!Once(e)' <=> Registry!Once(e)) /\ (Registry!Registered(e)' <=> Registry!Registered(e))
    BY <1>1 DEF Registry!NpBoots, Registry!Once, Registry!Registered
  <2>2. /\ numparser_plugin' \in BOOLEAN /\ numparser_plugin' /\ ~numparser_plugin
        /\ late' \in BOOLEAN /\ (late' <=> attempts = Registry!Over)
    BY <1>1 DEF Registry!NpBoots
  <2>3. ping' = Registry!Answer /\ UNCHANGED <<now, linkable, attempts, recheck, section, badges>>
    BY <1>1 DEF Registry!NpBoots
  <2>4. DrawnInTime'
    BY <2>2, <2>3
  <2>5. EachAddedOnce'
    BY <2>1, <2>2, <2>3
  <2> QED BY <2>2, <2>3, <2>4, <2>5
<1>2. CASE Registry!PingAnswered
  <2>1. \A e : (Registry!Once(e)' <=> Registry!Once(e)) /\ (Registry!Registered(e)' <=> Registry!Registered(e))
    BY <1>2 DEF Registry!PingAnswered, Registry!Once, Registry!Registered
  <2> QED BY <1>2, <2>1 DEF Registry!PingAnswered
<1>3. CASE Registry!NpInitSettings
  <2>1. /\ linkable = "yes" => section' = <<"np", "token">>
        /\ linkable # "yes" => section' = <<"np">>
    BY <1>3 DEF Registry!NpInitSettings
  <2>2. /\ section' \in Seq({"np", "token", "unwatched"})
        /\ \A e : Registry!Once(e)'
        /\ Registry!Registered("np")' /\ ~Registry!Registered("unwatched")'
        /\ Registry!Registered("token")' <=> linkable = "yes"
    <3>1. CASE linkable = "yes"
      <4>1. section' = <<"np", "token">>
        BY <2>1, <3>1
      <4>2. section' \in Seq({"np", "token", "unwatched"}) /\ \A e : Registry!Once(e)'
        BY <4>1 DEF Registry!Once
      <4>3. Registry!Registered("np")' /\ ~Registry!Registered("unwatched")' /\ Registry!Registered("token")'
        BY <4>1 DEF Registry!Registered
      <4> QED BY <3>1, <4>2, <4>3
    <3>2. CASE linkable # "yes"
      <4>1. section' = <<"np">>
        BY <2>1, <3>2
      <4>2. section' \in Seq({"np", "token", "unwatched"}) /\ \A e : Registry!Once(e)'
        BY <4>1 DEF Registry!Once
      <4>3. Registry!Registered("np")' /\ ~Registry!Registered("unwatched")' /\ ~Registry!Registered("token")'
        BY <4>1 DEF Registry!Registered
      <4> QED BY <3>2, <4>2, <4>3
    <3> QED BY <3>1, <3>2
  <2> QED BY <1>3, <2>1, <2>2 DEF Registry!NpInitSettings
<1> QED BY <1>1, <1>2, <1>3

\* np_unwatched.js adds its entries where they are not.
LEMMA RegistryAdds ==
    ASSUME RegistryInv, ~Registry!Registered("unwatched"), section' = Append(section, "unwatched")
    PROVE  /\ section' \in Seq({"np", "token", "unwatched"})
           /\ \A e : Registry!Once(e) => Registry!Once(e)'
           /\ \A e : Registry!Registered(e)' <=> Registry!Registered(e) \/ e = "unwatched"
<1>1. section \in Seq({"np", "token", "unwatched"})
  BY DEF RegistryInv, EachAddedOnce
<1>2. /\ section' \in Seq({"np", "token", "unwatched"})
      /\ DOMAIN section' = 1..Len(section) + 1 /\ DOMAIN section = 1..Len(section)
      /\ section'[Len(section) + 1] = "unwatched"
      /\ \A i \in 1..Len(section) : section'[i] = section[i]
  BY <1>1
<1> QED BY <1>1, <1>2 DEF Registry!Once, Registry!Registered

\* np_unwatched.js waits for it, adds its entries and looks again.
LEMMA RegistryUnwatched ==
    ASSUME RegistryInv, Registry!UnwatchedBoots \/ Registry!Register \/ Registry!LookAgain
    PROVE  RegistryInv'
<1> USE DEF RegistryInv, DrawnInTime, EachAddedOnce, Registry!Timer, Registry!Before, Registry!Over,
   Registry!Runs, Registry!Answer, Registry!Attempts, Registry!Recheck
<1>1. CASE Registry!UnwatchedBoots
  <2>1. \A e : (Registry!Once(e)' <=> Registry!Once(e)) /\ (Registry!Registered(e)' <=> Registry!Registered(e))
    BY <1>1 DEF Registry!UnwatchedBoots, Registry!Once, Registry!Registered
  <2> QED BY <1>1, <2>1 DEF Registry!UnwatchedBoots
<1>2. CASE Registry!Register
  <2>1. ~Registry!Registered("unwatched") /\ section' = Append(section, "unwatched")
    BY <1>2 DEF Registry!Register, Registry!InitSettings
  <2> QED BY <1>2, <2>1, RegistryAdds DEF Registry!Register, Registry!InitSettings
<1>3. CASE Registry!LookAgain /\ Registry!Registered("unwatched")
  <2>1. \A e : (Registry!Once(e)' <=> Registry!Once(e)) /\ (Registry!Registered(e)' <=> Registry!Registered(e))
    BY <1>3 DEF Registry!LookAgain, Registry!Once, Registry!Registered
  <2> QED BY <1>3, <2>1 DEF Registry!LookAgain
<1>4. CASE Registry!LookAgain /\ ~Registry!Registered("unwatched")
  <2>1. section' = Append(section, "unwatched") /\ badges' = 1
    BY <1>4 DEF Registry!LookAgain, Registry!InitSettings
  <2> QED BY <1>4, <2>1, RegistryAdds DEF Registry!LookAgain
<1> QED BY <1>1, <1>2, <1>3, <1>4

\* Half a second passes.
LEMMA RegistryTick == ASSUME RegistryInv, Registry!Tick PROVE RegistryInv'
<1> USE DEF RegistryInv, DrawnInTime, EachAddedOnce, Registry!Timer, Registry!Before, Registry!Over,
   Registry!Runs, Registry!Answer, Registry!Attempts, Registry!Recheck
<1>1. \A e : (Registry!Once(e)' <=> Registry!Once(e)) /\ (Registry!Registered(e)' <=> Registry!Registered(e))
  BY DEF Registry!Tick, Registry!Once, Registry!Registered
<1>2. /\ now' \in Nat /\ ping' \in Registry!Timer(Registry!Answer) /\ attempts' \in Registry!Timer(Registry!Attempts) /\ recheck' \in Registry!Timer(Registry!Recheck)
      /\ \A t \in {Registry!Before, Registry!Over} :
           /\ ping' = t <=> ping = t
           /\ attempts' = t <=> attempts = t
           /\ recheck' = t <=> recheck = t
  BY RegistryAssumption DEF Registry!Tick
<1>3. /\ Registry!Runs(ping)' <=> Registry!Runs(ping)
      /\ Registry!Runs(recheck)' <=> Registry!Runs(recheck)
      /\ Registry!Runs(ping) => ping' = ping - 1
      /\ Registry!Runs(recheck) => recheck' = recheck - 1
  BY <1>2 DEF Registry!Tick
<1>4. DrawnInTime'
  BY <1>2, <1>3 DEF Registry!Tick
<1>5. EachAddedOnce'
  BY <1>1, <1>2 DEF Registry!Tick
<1> QED BY <1>2, <1>4, <1>5 DEF Registry!Tick

\* Whatever happens, the invariant of the section stays.
LEMMA RegistryKept == ASSUME RegistryInv, Registry!Next \/ UNCHANGED Registry!vars PROVE RegistryInv'
<1>1. CASE UNCHANGED Registry!vars
  BY <1>1 DEF Registry!vars, RegistryInv, DrawnInTime, EachAddedOnce, Registry!Once,
     Registry!Registered, Registry!Runs
<1> QED BY <1>1, RegistryNp, RegistryUnwatched, RegistryTick DEF Registry!Next

\* The section holds the entries of both, each once.
LEMMA RegistryWhole == ASSUME RegistryInv PROVE Registry!SectionIsWhole
<1>1. ping = Registry!Over /\ recheck = Registry!Over => badges = 1
  BY DEF RegistryInv, DrawnInTime, Registry!Before, Registry!Over
<1>2. recheck = Registry!Over => recheck # Registry!Before
  BY DEF Registry!Before, Registry!Over
<1> QED BY <1>1, <1>2 DEF RegistryInv, EachAddedOnce, Registry!SectionIsWhole

-----------------------------------------------------------------------------
(* The carousel of the web catalogue (Carousel) *)

CarouselTypes ==
    /\ has \subseteq Category /\ cats \in Seq(Category) /\ active \in Nat \ {0}
    /\ cached \in [Category -> {"none", "full", "empty"}]
    /\ stale \subseteq Category /\ emptyIds \subseteq Category
    /\ place \in {"here", "away"} /\ crossed \in BOOLEAN
    /\ items \in {"none", "error", "full", "empty"}
    /\ fetches \subseteq Carousel!Fetches

\* A row is on screen only while the page is, and it is the active one; only its own loads
\* will still be drawn; and what is drawn, or known to be empty, is cached.
RowIsActive ==
    /\ row # NoRow => place = "here" /\ active <= Len(cats) /\ row = cats[active]
    /\ row \in Category \cup {NoRow}
    /\ \A f \in fetches : f.alive => f.why = "load" /\ f.cat = row
    /\ row # NoRow /\ items \in Carousel!Kinds => cached[row] # "none"
    /\ place = "here" => \A c \in emptyIds : cached[c] # "none"

Loading(c) == \E f \in fetches : f.why = "load" /\ f.cat = c
OwnLoad == \E f \in fetches : f.alive

\* What the server has told, and what is cached and not stale, is so.
ToldIsSo ==
    /\ \A f \in fetches : f.got # "none" => f.got = Carousel!Kind(f.cat)
    /\ \A c \in Category : Carousel!Fresh(c) => cached[c] = Carousel!Kind(c)

\* What is drawn is so, or a load will tell; and so is what is known to be empty.
DrawnIsSo ==
    /\ row # NoRow /\ items = "none" => OwnLoad
    /\ row # NoRow /\ items \in Carousel!Kinds => items = Carousel!Kind(row) \/ OwnLoad
EmptyIsSo == place = "here" => \A c \in emptyIds : c \notin has \/ c \in stale \/ Loading(c)

CarouselInv == CarouselTypes /\ RowIsActive /\ (~crossed => ToldIsSo /\ DrawnIsSo /\ EmptyIsSo)

LEMMA CarouselStart == ASSUME Carousel!Init PROVE CarouselInv
<1>1. CarouselTypes
  <2>1. cats \in Seq(Category) /\ cached \in [Category -> {"none", "full", "empty"}]
    BY CarouselAssumption DEF Carousel!Init
  <2>2. has \subseteq Category /\ stale \subseteq Category /\ emptyIds \subseteq Category /\ fetches \subseteq Carousel!Fetches
    BY DEF Carousel!Init
  <2>3. active \in Nat \ {0} /\ place \in {"here", "away"} /\ items \in {"none", "error", "full", "empty"}
    BY DEF Carousel!Init
  <2>4. crossed \in BOOLEAN
    BY DEF Carousel!Init
  <2> QED BY <2>1, <2>2, <2>3, <2>4 DEF CarouselTypes
<1>2. RowIsActive
  BY DEF Carousel!Init, RowIsActive
<1>3. ToldIsSo /\ DrawnIsSo /\ EmptyIsSo
  BY DEF Carousel!Init, ToldIsSo, DrawnIsSo, EmptyIsSo, Carousel!Fresh
<1> QED BY <1>1, <1>2, <1>3 DEF CarouselInv

\* The next row, ahead or back, is one of the list.
LEMMA CarouselNext ==
    ASSUME NEW cs \in Seq(Category), NEW i \in Nat, NEW known
    PROVE  Carousel!Next1(cs, i, known) \in Nat /\ Carousel!Prev1(cs, i, known) \in Nat
BY DEF Carousel!Next1, Carousel!Prev1, Carousel!First

\* The row drawn is the active one, of a page that is open.
LEMMA CarouselDrawn ==
    ASSUME cats' \in Seq(Category), active' \in Nat \ {0}
    PROVE  /\ Carousel!Drawn \in Category \cup {NoRow}
           /\ Carousel!Drawn # NoRow => place' = "here" /\ active' <= Len(cats') /\ Carousel!Drawn = cats'[active']
<1>1. active' <= Len(cats') => cats'[active'] \in Category
  OBVIOUS
<1> QED BY <1>1, CarouselAssumption DEF Carousel!Drawn

\* A new request is one.
LEMMA CarouselAsk ==
    ASSUME NEW c \in Category, NEW why \in {"load", "ahead"}
    PROVE  /\ Carousel!Ask(why, c) \in Carousel!Fetches /\ (Carousel!Ask(why, c)).why = why /\ (Carousel!Ask(why, c)).cat = c
           /\ (Carousel!Ask(why, c)).got = "none" /\ ((Carousel!Ask(why, c)).alive <=> why = "load")
<1> DEFINE live == why = "load"
<1>1. live \in BOOLEAN /\ (live <=> why = "load")
  OBVIOUS
<1>2. Carousel!Ask(why, c) = [why |-> why, cat |-> c, alive |-> live, got |-> "none"]
  BY DEF Carousel!Ask
<1> HIDE DEF live
<1>3. (Carousel!Ask(why, c)).alive = live
  BY <1>2
<1> QED BY <1>1, <1>2, <1>3 DEF Carousel!Fetches

\* What was asked for goes on when another row comes on screen, but is not drawn any more.
LEMMA CarouselDraw ==
    ASSUME NEW cards, NEW wanted \in SUBSET Carousel!Fetches, Carousel!Draw(cards, wanted),
           row \in Category \cup {NoRow}, cards \in {"none", "error", "full", "empty"},
           cached' \in [Category -> {"none", "full", "empty"}],
           Carousel!Drawn \in Category \cup {NoRow},
           Carousel!Drawn # NoRow => place' = "here" /\ active' <= Len(cats') /\ Carousel!Drawn = cats'[active'],
           \A f \in wanted : f.alive => f.why = "load" /\ f.cat = row
    PROVE  /\ items' \in {"none", "error", "full", "empty"} /\ fetches' \subseteq Carousel!Fetches
           /\ row' \in Category \cup {NoRow}
           /\ row' # NoRow => place' = "here" /\ active' <= Len(cats') /\ row' = cats'[active']
           /\ \A f \in fetches' : f.alive => f.why = "load" /\ f.cat = row'
           /\ (row # NoRow /\ cards \in Carousel!Kinds => cached'[row] # "none") =>
                  (row' # NoRow /\ items' \in Carousel!Kinds => cached'[row'] # "none")
           /\ \A f \in wanted : \E g \in fetches' : g.why = f.why /\ g.cat = f.cat
           /\ \A g \in fetches' : g.got # "none" => \E f \in wanted : f.got = g.got /\ f.cat = g.cat
           /\ row' = row => items' = cards /\ fetches' = wanted
           /\ row' # row /\ row' # NoRow =>
                  /\ items' = cached'[row']
                  /\ (cached'[row'] # "none" /\ row' \notin stale') \/ \E f \in fetches' : f.alive
<1>1. row' = Carousel!Drawn
  BY DEF Carousel!Draw
<1>2. CASE Carousel!Drawn = row
  BY <1>1, <1>2 DEF Carousel!Draw
<1>3. CASE Carousel!Drawn # row
  <2> DEFINE Dead(f) == [f EXCEPT !.alive = FALSE]
             News == IF Carousel!Drawn # NoRow /\ (cached'[Carousel!Drawn] = "none" \/ Carousel!Drawn \in stale')
                     THEN {Carousel!Ask("load", Carousel!Drawn)} ELSE {}
  <2>1. fetches' = {Dead(f) : f \in wanted} \cup News
    BY <1>3 DEF Carousel!Draw
  <2>2. \A f \in wanted : /\ Dead(f) \in Carousel!Fetches /\ ~Dead(f).alive /\ Dead(f).why = f.why
                        /\ Dead(f).cat = f.cat /\ Dead(f).got = f.got
    BY DEF Carousel!Fetches
  <2>3. \A g \in News : /\ g \in Carousel!Fetches /\ g.alive /\ g.why = "load" /\ g.cat = Carousel!Drawn /\ g.got = "none"
    BY CarouselAsk
  <2>4. Carousel!Drawn # NoRow => (cached'[Carousel!Drawn] # "none" /\ Carousel!Drawn \notin stale') \/ News # {}
    OBVIOUS
  <2>5. items' = IF Carousel!Drawn = NoRow THEN "none" ELSE cached'[Carousel!Drawn]
    BY <1>3 DEF Carousel!Draw
  <2> HIDE DEF Dead, News
  <2>6. fetches' \subseteq Carousel!Fetches /\ \A f \in fetches' : f.alive => f.why = "load" /\ f.cat = Carousel!Drawn
    BY <2>1, <2>2, <2>3
  <2>7. \A f \in wanted : \E g \in fetches' : g.why = f.why /\ g.cat = f.cat
    BY <2>1, <2>2
  <2>8. \A g \in fetches' : g.got # "none" => \E f \in wanted : f.got = g.got /\ f.cat = g.cat
    BY <2>1, <2>2, <2>3
  <2>9. Carousel!Drawn # NoRow => (cached'[Carousel!Drawn] # "none" /\ Carousel!Drawn \notin stale') \/ \E f \in fetches' : f.alive
    BY <2>1, <2>3, <2>4
  <2>10. items' \in {"none", "error", "full", "empty"}
    BY <2>5
  <2>11. Carousel!Drawn # NoRow /\ items' \in Carousel!Kinds => cached'[Carousel!Drawn] # "none"
    BY <2>5 DEF Carousel!Kinds
  <2> QED BY <1>1, <1>3, <2>5, <2>6, <2>7, <2>8, <2>9, <2>10, <2>11
<1> QED BY <1>2, <1>3

\* What is fetched ahead is added, not to be drawn.
LEMMA CarouselAhead ==
    ASSUME NEW wanted \in SUBSET Carousel!Fetches, cats' \in Seq(Category)
    PROVE  /\ Carousel!Prefetched(wanted) \in SUBSET Carousel!Fetches /\ wanted \subseteq Carousel!Prefetched(wanted)
           /\ \A f \in Carousel!Prefetched(wanted) : f \in wanted \/ (~f.alive /\ f.got = "none")
<1>1. Carousel!ToFetch \subseteq Category
  BY DEF Carousel!ToFetch, Carousel!Wanted
<1> QED BY <1>1, CarouselAsk DEF Carousel!Prefetched

WillBe(c) == IF c \in has' THEN "full" ELSE "empty"

\* A step after which the page is drawn keeps the invariant when what it caches, hands on
\* to the row and leaves under way is so.
LEMMA CarouselRedrawn ==
    ASSUME CarouselInv, NEW cards, NEW wanted \in SUBSET Carousel!Fetches, Carousel!Draw(cards, wanted),
           has' \subseteq Category, cats' \in Seq(Category), active' \in Nat \ {0},
           cached' \in [Category -> {"none", "full", "empty"}], stale' \subseteq Category,
           emptyIds' \subseteq Category, place' \in {"here", "away"}, crossed' \in BOOLEAN,
           cards \in {"none", "error", "full", "empty"},
           \A f \in wanted : f.alive => f.why = "load" /\ f.cat = row,
           row # NoRow /\ cards \in Carousel!Kinds => cached'[row] # "none",
           place' = "here" => \A c \in emptyIds' : cached'[c] # "none",
           ~crossed' =>
             /\ \A f \in wanted : f.got # "none" => f.got = WillBe(f.cat)
             /\ \A c \in Category : cached'[c] # "none" /\ c \notin stale' => cached'[c] = WillBe(c)
             /\ row # NoRow /\ cards = "none" => \E f \in wanted : f.alive
             /\ row # NoRow /\ cards \in Carousel!Kinds => cards = WillBe(row) \/ \E f \in wanted : f.alive
             /\ place' = "here" => \A c \in emptyIds' : \/ c \notin has' \/ c \in stale'
                                                        \/ \E f \in wanted : f.why = "load" /\ f.cat = c
    PROVE  CarouselInv'
<1>1. row \in Category \cup {NoRow}
  BY DEF CarouselInv, RowIsActive
<1>2. /\ Carousel!Drawn \in Category \cup {NoRow}
      /\ Carousel!Drawn # NoRow => place' = "here" /\ active' <= Len(cats') /\ Carousel!Drawn = cats'[active']
  BY CarouselDrawn
<1>3. /\ items' \in {"none", "error", "full", "empty"} /\ fetches' \subseteq Carousel!Fetches
      /\ row' \in Category \cup {NoRow}
      /\ row' # NoRow => place' = "here" /\ active' <= Len(cats') /\ row' = cats'[active']
      /\ \A f \in fetches' : f.alive => f.why = "load" /\ f.cat = row'
      /\ row' # NoRow /\ items' \in Carousel!Kinds => cached'[row'] # "none"
  BY <1>1, <1>2, CarouselDraw
<1>4. \A f \in wanted : \E g \in fetches' : g.why = f.why /\ g.cat = f.cat
  BY <1>1, <1>2, CarouselDraw
<1>5. \A g \in fetches' : g.got # "none" => \E f \in wanted : f.got = g.got /\ f.cat = g.cat
  BY <1>1, <1>2, CarouselDraw
<1>6. /\ row' = row => items' = cards /\ fetches' = wanted
      /\ row' # row /\ row' # NoRow =>
            /\ items' = cached'[row']
            /\ (cached'[row'] # "none" /\ row' \notin stale') \/ \E f \in fetches' : f.alive
  BY <1>1, <1>2, CarouselDraw
<1>7. CarouselTypes' /\ RowIsActive'
  BY <1>3 DEF CarouselTypes, RowIsActive, Carousel!Kinds
<1>8. ASSUME ~crossed' PROVE ToldIsSo' /\ DrawnIsSo' /\ EmptyIsSo'
  <2>1. ToldIsSo'
    BY <1>5, <1>8 DEF ToldIsSo, Carousel!Fresh, Carousel!Kind, WillBe
  <2>2. DrawnIsSo'
    <3>1. CASE row' = row
      BY <1>6, <1>8, <3>1 DEF DrawnIsSo, OwnLoad, Carousel!Kind, WillBe, Carousel!Kinds
    <3>2. CASE row' # row
      BY <1>3, <1>6, <1>8, <3>2 DEF DrawnIsSo, OwnLoad, Carousel!Kind, WillBe
    <3> QED BY <3>1, <3>2
  <2>3. EmptyIsSo'
    BY <1>4, <1>8 DEF EmptyIsSo, Loading
  <2> QED BY <2>1, <2>2, <2>3
<1> QED BY <1>7, <1>8 DEF CarouselInv

AllStale == {c \in Category : cached[c] # "none"}

\* A step that only changes what is on screen.
LEMMA CarouselTurned ==
    ASSUME CarouselInv, NEW wanted, wanted = fetches \/ wanted = Carousel!Prefetched(fetches), Carousel!Draw(items, wanted),
           UNCHANGED <<has, cached, crossed>>, stale' = stale \/ stale' = AllStale,
           cats' \in Seq(Category), active' \in Nat \ {0}, place' \in {"here", "away"},
           emptyIds' \subseteq Category,
           place' = "here" => \A c \in emptyIds' : cached[c] # "none",
           ~crossed /\ place' = "here" =>
               \A c \in emptyIds' : c \notin has \/ c \in stale' \/ Loading(c)
    PROVE  CarouselInv'
<1>1. fetches \in SUBSET Carousel!Fetches /\ CarouselTypes
  BY DEF CarouselInv, CarouselTypes
<1>2. /\ wanted \in SUBSET Carousel!Fetches /\ fetches \subseteq wanted
      /\ \A f \in wanted : f \in fetches \/ (~f.alive /\ f.got = "none")
  BY <1>1, CarouselAhead
<1>3. \A c \in Category : c \in stale /\ cached[c] # "none" => c \in stale'
  BY DEF AllStale
<1>4. stale' \subseteq Category /\ WillBe(row) = Carousel!Kind(row) /\ \A c : WillBe(c) = Carousel!Kind(c)
  BY <1>1 DEF WillBe, Carousel!Kind, CarouselTypes, AllStale
<1>5. /\ \A f \in wanted : f.alive => f.why = "load" /\ f.cat = row
      /\ row # NoRow /\ items \in Carousel!Kinds => cached'[row] # "none"
      /\ place' = "here" => \A c \in emptyIds' : cached'[c] # "none"
  BY <1>2 DEF CarouselInv, RowIsActive
<1>6. ASSUME ~crossed'
      PROVE  /\ \A f \in wanted : f.got # "none" => f.got = WillBe(f.cat)
             /\ \A c \in Category : cached'[c] # "none" /\ c \notin stale' => cached'[c] = WillBe(c)
             /\ row # NoRow /\ items = "none" => \E f \in wanted : f.alive
             /\ row # NoRow /\ items \in Carousel!Kinds => items = WillBe(row) \/ \E f \in wanted : f.alive
             /\ place' = "here" => \A c \in emptyIds' : \/ c \notin has' \/ c \in stale'
                                                        \/ \E f \in wanted : f.why = "load" /\ f.cat = c
  <2>1. ToldIsSo /\ DrawnIsSo /\ ~crossed
    BY <1>6 DEF CarouselInv
  <2> QED BY <1>2, <1>3, <1>4, <2>1 DEF ToldIsSo, DrawnIsSo, Carousel!Fresh, OwnLoad, Loading
<1>7. cached' \in [Category -> {"none", "full", "empty"}] /\ crossed' \in BOOLEAN /\ has' \subseteq Category
      /\ items \in {"none", "error", "full", "empty"}
  BY <1>1 DEF CarouselTypes
<1> HIDE DEF WillBe
<1> QED BY <1>2, <1>4, <1>5, <1>6, <1>7, CarouselRedrawn

\* What the user does.
LEMMA CarouselUser ==
    ASSUME CarouselInv, \/ Carousel!Open \/ Carousel!Leave \/ Carousel!BackToTop \/ Carousel!handleEmptyCategory
                        \/ \E dir \in {1, 2} : Carousel!switchCategory(dir)
    PROVE  CarouselInv'
<1>1. /\ cats \in Seq(Category) /\ active \in Nat \ {0} /\ place \in {"here", "away"}
      /\ emptyIds \subseteq Category
      /\ place = "here" => \A c \in emptyIds : cached[c] # "none"
      /\ ~crossed /\ place = "here" => \A c \in emptyIds : c \notin has \/ c \in stale \/ Loading(c)
  BY DEF CarouselInv, CarouselTypes, RowIsActive, EmptyIsSo
<1>2. CASE Carousel!Open
  <2>1. Carousel!Draw(items, Carousel!Prefetched(fetches)) /\ UNCHANGED <<has, cats, cached, stale, active, crossed>>
        /\ place' = "here" /\ emptyIds' = {c \in Category : cached[c] = "empty" /\ c \notin stale}
    BY <1>2 DEF Carousel!Open
  <2>2. ~crossed => \A c \in emptyIds' : c \notin has
    BY <2>1 DEF CarouselInv, ToldIsSo, Carousel!Fresh, Carousel!Kind
  <2> QED BY <1>1, <2>1, <2>2, CarouselTurned
<1>3. CASE Carousel!Leave
  <2>1. Carousel!Draw(items, fetches) /\ UNCHANGED <<has, cats, cached, stale, emptyIds, active, crossed>>
        /\ place' = "away"
    BY <1>3 DEF Carousel!Leave
  <2> QED BY <1>1, <2>1, CarouselTurned
<1>4. CASE Carousel!BackToTop
  <2>1. /\ Carousel!Draw(items, IF active = 1 THEN fetches ELSE Carousel!Prefetched(fetches))
        /\ UNCHANGED <<has, cats, cached, emptyIds, place, crossed>> /\ place = "here"
        /\ stale' = AllStale /\ active' = 1
    BY <1>4 DEF Carousel!BackToTop, AllStale
  <2>2. \A c \in emptyIds : c \in AllStale
    BY <1>1, <2>1 DEF AllStale
  <2>3. PICK wanted : Carousel!Draw(items, wanted) /\ (wanted = fetches \/ wanted = Carousel!Prefetched(fetches))
    BY <2>1
  <2> QED BY <1>1, <2>1, <2>2, <2>3, CarouselTurned
<1>5. ASSUME NEW i \in Nat \ {0}, Carousel!Go(i), emptyIds' \subseteq Category, place = "here",
             \A c \in emptyIds' : cached[c] # "none",
             ~crossed => \A c \in emptyIds' : c \notin has \/ c \in stale \/ Loading(c)
      PROVE  CarouselInv'
  <2>1. /\ Carousel!Draw(items, IF i = active THEN fetches ELSE Carousel!Prefetched(fetches))
        /\ UNCHANGED <<has, cats, cached, stale, place, crossed>> /\ active' = i
    BY <1>5 DEF Carousel!Go
  <2>2. PICK wanted : Carousel!Draw(items, wanted) /\ (wanted = fetches \/ wanted = Carousel!Prefetched(fetches))
    BY <2>1
  <2> QED BY <1>1, <1>5, <2>1, <2>2, CarouselTurned
<1>6. ASSUME NEW dir \in {1, 2}, Carousel!switchCategory(dir) PROVE CarouselInv'
  <2>1. PICK i \in Nat \ {0} : Carousel!Go(i) /\ emptyIds' = emptyIds /\ row # NoRow
    BY <1>1, <1>6, CarouselNext DEF Carousel!switchCategory
  <2>2. place = "here"
    BY <2>1 DEF CarouselInv, RowIsActive
  <2> QED BY <1>1, <1>5, <2>1, <2>2
<1>7. CASE Carousel!handleEmptyCategory
  <2>1. PICK i \in Nat \ {0} : /\ Carousel!Go(i) /\ emptyIds' = emptyIds \cup {cats[active]}
                               /\ row # NoRow /\ items = "empty"
    BY <1>1, <1>7, CarouselNext DEF Carousel!handleEmptyCategory
  <2>2. place = "here" /\ row = cats[active] /\ row \in Category /\ cached[row] # "none"
    BY <2>1 DEF CarouselInv, RowIsActive, Carousel!Kinds
  <2>3. ~crossed => row \notin has \/ Loading(row)
    BY <2>1, <2>2 DEF CarouselInv, RowIsActive, DrawnIsSo, OwnLoad, Loading, Carousel!Kind,
       Carousel!Kinds
  <2> QED BY <1>1, <1>5, <2>1, <2>2, <2>3
<1> QED BY <1>2, <1>3, <1>4, <1>6, <1>7

LEMMA CarouselArranged == ASSUME CarouselInv, NEW cs \in Lists, Carousel!Arrange(cs) PROVE CarouselInv'
<1>1. /\ cs \in Seq(Category) /\ active \in Nat \ {0} /\ place \in {"here", "away"}
      /\ emptyIds \subseteq Category
      /\ place = "here" => \A c \in emptyIds : cached[c] # "none"
      /\ ~crossed /\ place = "here" => \A c \in emptyIds : c \notin has \/ c \in stale \/ Loading(c)
  BY CarouselAssumption DEF CarouselInv, CarouselTypes, RowIsActive, EmptyIsSo
<1>2. /\ cats' = cs /\ active' = (IF cs # <<>> /\ active > Len(cs) THEN Len(cs) ELSE active)
      /\ UNCHANGED <<has, cached, stale, emptyIds, place, crossed>>
  BY DEF Carousel!Arrange
<1>3. active' \in Nat \ {0}
  BY <1>1, <1>2
<1>4. CASE place = "here"
  BY <1>1, <1>2, <1>3, <1>4, CarouselTurned DEF Carousel!Arrange
<1>5. CASE place = "away"
  <2>1. UNCHANGED <<row, items, fetches>> /\ row = NoRow
    BY <1>5 DEF Carousel!Arrange, CarouselInv, RowIsActive
  <2>2. CarouselTypes' /\ RowIsActive'
    BY <1>1, <1>2, <1>3, <2>1 DEF CarouselInv, CarouselTypes, RowIsActive
  <2> QED BY <1>2, <2>1, <2>2 DEF CarouselInv, ToldIsSo, DrawnIsSo, EmptyIsSo, Carousel!Fresh,
     Carousel!Kind, OwnLoad, Loading
<1> QED BY <1>1, <1>4, <1>5

LEMMA CarouselRefreshed == ASSUME CarouselInv, Carousel!Refresh PROVE CarouselInv'
<1>1. /\ row # NoRow /\ fetches' = fetches \cup {Carousel!Ask("load", row)} /\ stale' = AllStale
      /\ UNCHANGED <<has, cats, cached, emptyIds, active, place, row, items, crossed>>
  BY DEF Carousel!Refresh, AllStale
<1>2. row \in Category /\ AllStale \subseteq Category /\ \A c \in Category : cached[c] # "none" <=> c \in AllStale
  BY <1>1 DEF CarouselInv, RowIsActive, AllStale
<1>3. CarouselTypes' /\ RowIsActive'
  BY <1>1, <1>2, CarouselAsk DEF CarouselInv, CarouselTypes, RowIsActive
<1>4. OwnLoad'
  BY <1>1, <1>2, CarouselAsk DEF OwnLoad
<1>5. ASSUME ~crossed' PROVE ToldIsSo' /\ DrawnIsSo' /\ EmptyIsSo'
  <2>1. ToldIsSo' /\ DrawnIsSo'
    BY <1>1, <1>2, <1>4, <1>5, CarouselAsk DEF CarouselInv, ToldIsSo, DrawnIsSo, Carousel!Fresh,
       Carousel!Kind
  <2>2. EmptyIsSo'
    BY <1>1, <1>2 DEF CarouselInv, CarouselTypes, RowIsActive, EmptyIsSo
  <2> QED BY <2>1, <2>2
<1> QED BY <1>3, <1>5 DEF CarouselInv

LEMMA CarouselServed == ASSUME CarouselInv, NEW f \in fetches, Carousel!Serve(f) PROVE CarouselInv'
<1> DEFINE b == [f EXCEPT !.got = Carousel!Kind(f.cat)]
<1>1. f \in Carousel!Fetches /\ f.got = "none" /\ fetches' = (fetches \ {f}) \cup {b}
      /\ UNCHANGED <<has, cats, cached, stale, emptyIds, active, place, row, items, crossed>>
  BY DEF Carousel!Serve, CarouselInv, CarouselTypes
<1>2. /\ b.why = f.why /\ b.cat = f.cat /\ b.alive = f.alive /\ b.got = Carousel!Kind(f.cat)
      /\ b \in Carousel!Fetches
  BY <1>1 DEF Carousel!Fetches, Carousel!Kind, Carousel!Kinds
<1> HIDE DEF b
<1>3. CarouselTypes' /\ RowIsActive'
  BY <1>1, <1>2 DEF CarouselInv, CarouselTypes, RowIsActive
<1>4. (\A c \in Category : Loading(c) => Loading(c)') /\ (OwnLoad => OwnLoad')
  BY <1>1, <1>2 DEF Loading, OwnLoad
<1>5. ASSUME ~crossed' PROVE ToldIsSo' /\ DrawnIsSo' /\ EmptyIsSo'
  <2>1. ToldIsSo'
    BY <1>1, <1>2, <1>5 DEF CarouselInv, ToldIsSo, Carousel!Fresh, Carousel!Kind
  <2>2. DrawnIsSo' /\ EmptyIsSo'
    BY <1>1, <1>4, <1>5 DEF CarouselInv, CarouselTypes, DrawnIsSo, EmptyIsSo, Carousel!Kind
  <2> QED BY <2>1, <2>2
<1> QED BY <1>3, <1>5 DEF CarouselInv

\* The list of a row is known: the carousel counts it as empty exactly if it is.
LEMMA CarouselLoaded ==
    ASSUME CarouselInv, NEW c \in Category, NEW found \in Carousel!Kinds, Carousel!handleItemsLoaded(c, found)
    PROVE  /\ cached' = [cached EXCEPT ![c] = found] /\ stale' = stale \ {c}
           /\ cached' \in [Category -> {"none", "full", "empty"}] /\ cached'[c] = found
           /\ \A d \in Category : cached[d] # "none" => cached'[d] # "none"
           /\ emptyIds' \subseteq Category
           /\ place = "here" => \A d \in emptyIds' : \/ d \in emptyIds /\ d # c
                                                     \/ d = c /\ found = "empty"
BY DEF Carousel!handleItemsLoaded, CarouselInv, CarouselTypes, Carousel!Kinds

LEMMA CarouselGot == ASSUME CarouselInv, NEW f \in fetches, Carousel!Got(f) PROVE CarouselInv'
<1>1. /\ f \in Carousel!Fetches /\ f.cat \in Category /\ f.got \in Carousel!Kinds /\ f.why \in {"load", "ahead"}
      /\ UNCHANGED <<has, cats, active, place, crossed>>
      /\ Carousel!Draw(IF f.alive THEN f.got ELSE items, fetches \ {f})
  BY DEF Carousel!Got, CarouselInv, CarouselTypes, Carousel!Fetches
<1>2. \/ Carousel!handleItemsLoaded(f.cat, f.got)
      \/ UNCHANGED <<cached, stale, emptyIds>> /\ f.why # "load"
  BY DEF Carousel!Got
<1> DEFINE cards == IF f.alive THEN f.got ELSE items
           wanted == fetches \ {f}
<1>3. /\ wanted \in SUBSET Carousel!Fetches /\ cards \in {"none", "error", "full", "empty"} /\ Carousel!Draw(cards, wanted)
      /\ has' \subseteq Category /\ cats' \in Seq(Category) /\ active' \in Nat \ {0}
      /\ place' \in {"here", "away"} /\ crossed' \in BOOLEAN
      /\ \A g \in wanted : g.alive => g.why = "load" /\ g.cat = row
  BY <1>1 DEF CarouselInv, CarouselTypes, RowIsActive, Carousel!Kinds
<1>4. WillBe(f.cat) = Carousel!Kind(f.cat) /\ \A c : WillBe(c) = Carousel!Kind(c)
  BY <1>1 DEF WillBe, Carousel!Kind
<1>5. f.alive => f.why = "load" /\ f.cat = row
  BY DEF CarouselInv, RowIsActive
<1>6. ASSUME ~crossed' PROVE f.got = WillBe(f.cat) /\ ToldIsSo /\ DrawnIsSo /\ EmptyIsSo
  BY <1>1, <1>4, <1>6 DEF CarouselInv, ToldIsSo, Carousel!Kinds
<1>7. ASSUME ~crossed'
      PROVE  /\ row # NoRow /\ cards = "none" => \E g \in wanted : g.alive
             /\ row # NoRow /\ cards \in Carousel!Kinds => cards = WillBe(row) \/ \E g \in wanted : g.alive
  <2>1. CASE f.alive
    BY <1>1, <1>5, <1>6, <1>7, <2>1 DEF Carousel!Kinds
  <2>2. CASE ~f.alive
    BY <1>4, <1>6, <1>7, <2>2 DEF DrawnIsSo, OwnLoad
  <2> QED BY <2>1, <2>2
<1>8. CASE Carousel!handleItemsLoaded(f.cat, f.got)
  <2>1. /\ cached' = [cached EXCEPT ![f.cat] = f.got] /\ stale' = stale \ {f.cat}
        /\ cached' \in [Category -> {"none", "full", "empty"}] /\ cached'[f.cat] = f.got
        /\ \A d \in Category : cached[d] # "none" => cached'[d] # "none"
        /\ emptyIds' \subseteq Category
        /\ place = "here" => \A d \in emptyIds' : \/ d \in emptyIds /\ d # f.cat
                                                  \/ d = f.cat /\ f.got = "empty"
    BY <1>1, <1>8, CarouselLoaded
  <2>2. /\ row # NoRow /\ cards \in Carousel!Kinds => cached'[row] # "none"
        /\ place' = "here" => \A c \in emptyIds' : cached'[c] # "none"
    BY <1>1, <1>5, <2>1 DEF CarouselInv, CarouselTypes, RowIsActive, Carousel!Kinds
  <2>3. ASSUME ~crossed'
        PROVE  /\ \A g \in wanted : g.got # "none" => g.got = WillBe(g.cat)
               /\ \A c \in Category : cached'[c] # "none" /\ c \notin stale' => cached'[c] = WillBe(c)
               /\ place' = "here" => \A c \in emptyIds' : \/ c \notin has' \/ c \in stale'
                                                          \/ \E g \in wanted : g.why = "load" /\ g.cat = c
    <3>1. \A g \in wanted : g.got # "none" => g.got = WillBe(g.cat)
      BY <1>4, <1>6, <2>3 DEF ToldIsSo
    <3>2. \A c \in Category : cached'[c] # "none" /\ c \notin stale' => cached'[c] = WillBe(c)
      BY <1>4, <1>6, <2>1, <2>3 DEF ToldIsSo, Carousel!Fresh, CarouselInv, CarouselTypes
    <3>3. ASSUME place' = "here", NEW c \in emptyIds'
          PROVE  c \notin has' \/ c \in stale' \/ \E g \in wanted : g.why = "load" /\ g.cat = c
      <4>1. CASE c = f.cat
        BY <1>1, <1>6, <2>1, <2>3, <3>3, <4>1 DEF WillBe
      <4>2. CASE c # f.cat
        BY <1>1, <1>6, <2>1, <2>3, <3>3, <4>2 DEF EmptyIsSo, Loading
      <4> QED BY <4>1, <4>2
    <3> QED BY <3>1, <3>2, <3>3
  <2>4. stale' \subseteq Category
    BY <2>1 DEF CarouselInv, CarouselTypes
  <2> HIDE DEF cards, wanted, WillBe
  <2> QED BY <1>3, <1>7, <2>1, <2>2, <2>3, <2>4, CarouselRedrawn
<1>9. CASE UNCHANGED <<cached, stale, emptyIds>> /\ f.why # "load"
  <2>1. cards = items /\ ~f.alive
    BY <1>5, <1>9
  <2>2. /\ row # NoRow /\ cards \in Carousel!Kinds => cached'[row] # "none"
        /\ place' = "here" => \A c \in emptyIds' : cached'[c] # "none"
        /\ cached' \in [Category -> {"none", "full", "empty"}] /\ stale' \subseteq Category
        /\ emptyIds' \subseteq Category
    BY <1>1, <1>9, <2>1 DEF CarouselInv, CarouselTypes, RowIsActive
  <2>3. ASSUME ~crossed'
        PROVE  /\ \A g \in wanted : g.got # "none" => g.got = WillBe(g.cat)
               /\ \A c \in Category : cached'[c] # "none" /\ c \notin stale' => cached'[c] = WillBe(c)
               /\ place' = "here" => \A c \in emptyIds' : \/ c \notin has' \/ c \in stale'
                                                          \/ \E g \in wanted : g.why = "load" /\ g.cat = c
    BY <1>1, <1>4, <1>6, <1>9, <2>3 DEF ToldIsSo, EmptyIsSo, Loading, Carousel!Fresh
  <2> HIDE DEF cards, wanted, WillBe
  <2> QED BY <1>3, <1>7, <2>2, <2>3, CarouselRedrawn
<1> QED BY <1>2, <1>8, <1>9

LEMMA CarouselFails == ASSUME CarouselInv, NEW f \in fetches, Carousel!FetchFails(f) PROVE CarouselInv'
<1>1. /\ f \in Carousel!Fetches /\ f.cat \in Category /\ fetches' = fetches \ {f}
      /\ UNCHANGED <<has, cats, cached, stale, emptyIds, active, place, row>>
      /\ items' = IF f.alive /\ items = "none" THEN "error" ELSE items
      /\ crossed' = (crossed \/ cached[f.cat] # "none")
  BY DEF Carousel!FetchFails, CarouselInv, CarouselTypes, Carousel!Fetches
<1>2. items' \in {"none", "error", "full", "empty"} /\ (items' \in Carousel!Kinds => items' = items) /\ crossed' \in BOOLEAN
  BY <1>1 DEF CarouselInv, CarouselTypes, Carousel!Kinds
<1>3. CarouselTypes' /\ RowIsActive'
  BY <1>1, <1>2 DEF CarouselInv, CarouselTypes, RowIsActive
<1>4. ASSUME ~crossed' PROVE ToldIsSo' /\ DrawnIsSo' /\ EmptyIsSo'
  <2>1. ~crossed /\ cached[f.cat] = "none" /\ ToldIsSo /\ DrawnIsSo /\ EmptyIsSo
    BY <1>1, <1>4 DEF CarouselInv
  <2>2. ToldIsSo'
    BY <1>1, <2>1 DEF ToldIsSo, Carousel!Fresh, Carousel!Kind
  <2>3. f.alive => f.cat = row /\ row # NoRow
    BY <1>1, CarouselAssumption DEF CarouselInv, RowIsActive
  <2>4. DrawnIsSo'
    <3>1. CASE f.alive
      BY <1>1, <1>2, <2>1, <2>3, <3>1 DEF DrawnIsSo, CarouselInv, RowIsActive, Carousel!Kinds
    <3>2. CASE ~f.alive
      BY <1>1, <2>1, <3>2 DEF DrawnIsSo, OwnLoad, Carousel!Kind
    <3> QED BY <3>1, <3>2
  <2>5. EmptyIsSo'
    BY <1>1, <2>1 DEF EmptyIsSo, Loading, CarouselInv, RowIsActive
  <2> QED BY <2>2, <2>4, <2>5
<1> QED BY <1>3, <1>4 DEF CarouselInv

\* The lists change, and say so or not.
LEMMA CarouselTold == ASSUME CarouselInv, NEW c \in Category, Carousel!Message(c) PROVE CarouselInv'
<1> DEFINE onScreen == row = c /\ items \in Carousel!Kinds
           cards == IF onScreen THEN cached'[c] ELSE items
<1>1. /\ has' = Carousel!Flipped(c) /\ UNCHANGED <<cats, active, place>> /\ Carousel!Draw(cards, fetches)
      /\ crossed' = (crossed \/ \E f \in fetches : f.cat = c /\ f.got # "none")
      /\ has \subseteq Category /\ has' \subseteq Category
  BY DEF Carousel!Message, Carousel!Flipped, CarouselInv, CarouselTypes
<1>2. /\ WillBe(c) = (IF c \in has THEN "empty" ELSE "full") /\ WillBe(c) \in Carousel!Kinds
      /\ \A d \in Category : d # c => WillBe(d) = Carousel!Kind(d) /\ (d \in has' <=> d \in has)
  BY <1>1 DEF WillBe, Carousel!Flipped, Carousel!Kind, Carousel!Kinds
<1>3. /\ fetches \in SUBSET Carousel!Fetches /\ cats' \in Seq(Category) /\ active' \in Nat \ {0}
      /\ place' \in {"here", "away"} /\ crossed' \in BOOLEAN
      /\ items \in {"none", "error", "full", "empty"}
      /\ \A f \in fetches : f.cat \in Category /\ (f.alive => f.why = "load" /\ f.cat = row)
  BY <1>1 DEF CarouselInv, CarouselTypes, RowIsActive, Carousel!Fetches
<1>4. ASSUME ~crossed'
      PROVE  /\ ~crossed /\ ToldIsSo /\ DrawnIsSo /\ EmptyIsSo
             /\ \A f \in fetches : f.got # "none" => f.got = WillBe(f.cat)
  <2>1. ~crossed /\ \A f \in fetches : f.cat = c => f.got = "none"
    BY <1>1, <1>4
  <2> QED BY <1>2, <1>3, <2>1 DEF CarouselInv, ToldIsSo
<1>5. CASE onScreen
  <2>1. Carousel!handleItemsLoaded(c, WillBe(c))
    BY <1>2, <1>5 DEF Carousel!Message
  <2>2. /\ cached' = [cached EXCEPT ![c] = WillBe(c)] /\ stale' = stale \ {c}
        /\ cached' \in [Category -> {"none", "full", "empty"}] /\ cached'[c] = WillBe(c)
        /\ \A d \in Category : cached[d] # "none" => cached'[d] # "none"
        /\ emptyIds' \subseteq Category
        /\ place = "here" => \A d \in emptyIds' : \/ d \in emptyIds /\ d # c
                                                  \/ d = c /\ WillBe(c) = "empty"
    BY <1>2, <2>1, CarouselLoaded
  <2>3. cards = WillBe(c) /\ row = c /\ stale' \subseteq Category
        /\ (place' = "here" => \A d \in emptyIds' : cached'[d] # "none")
    BY <1>1, <1>2, <1>5, <2>2 DEF CarouselInv, CarouselTypes, RowIsActive, Carousel!Kinds
  <2>4. ASSUME ~crossed'
        PROVE  /\ \A d \in Category : cached'[d] # "none" /\ d \notin stale' => cached'[d] = WillBe(d)
               /\ place' = "here" => \A d \in emptyIds' : \/ d \notin has' \/ d \in stale'
                                                          \/ \E f \in fetches : f.why = "load" /\ f.cat = d
    <3>1. \A d \in Category : cached'[d] # "none" /\ d \notin stale' => cached'[d] = WillBe(d)
      BY <1>2, <1>4, <2>2, <2>4 DEF ToldIsSo, Carousel!Fresh, CarouselInv, CarouselTypes
    <3>2. WillBe(c) = "empty" => c \notin has'
      BY DEF WillBe
    <3> QED BY <1>1, <1>2, <1>4, <2>2, <2>4, <3>1, <3>2 DEF EmptyIsSo, Loading, CarouselInv,
       CarouselTypes
  <2>5. cards \in {"none", "error", "full", "empty"} /\ cards # "none" /\ cards = WillBe(row)
        /\ cached'[row] # "none"
    BY <1>2, <2>2, <2>3 DEF Carousel!Kinds
  <2> HIDE DEF cards, onScreen, WillBe
  <2> QED BY <1>1, <1>3, <1>4, <2>2, <2>3, <2>4, <2>5, CarouselRedrawn
<1>6. CASE ~onScreen
  <2>1. /\ stale' = (IF cached[c] # "none" THEN stale \cup {c} ELSE stale) /\ UNCHANGED <<cached, emptyIds>>
        /\ cards = items
    BY <1>6 DEF Carousel!Message
  <2>2. /\ stale' \subseteq Category /\ emptyIds' \subseteq Category
        /\ cached' \in [Category -> {"none", "full", "empty"}]
        /\ row # NoRow /\ cards \in Carousel!Kinds => cached'[row] # "none"
        /\ place' = "here" => \A d \in emptyIds' : cached'[d] # "none"
    BY <1>1, <2>1 DEF CarouselInv, CarouselTypes, RowIsActive
  <2>3. ASSUME ~crossed'
        PROVE  /\ \A d \in Category : cached'[d] # "none" /\ d \notin stale' => cached'[d] = WillBe(d)
               /\ place' = "here" => \A d \in emptyIds' : \/ d \notin has' \/ d \in stale'
                                                          \/ \E f \in fetches : f.why = "load" /\ f.cat = d
               /\ row # NoRow /\ cards = "none" => \E f \in fetches : f.alive
               /\ row # NoRow /\ cards \in Carousel!Kinds => cards = WillBe(row) \/ \E f \in fetches : f.alive
    <3>1. \A d \in Category : cached'[d] # "none" /\ d \notin stale' => cached'[d] = WillBe(d)
      BY <1>2, <1>4, <2>1, <2>3 DEF ToldIsSo, Carousel!Fresh
    <3>2. place' = "here" => \A d \in emptyIds' : \/ d \notin has' \/ d \in stale'
                                                  \/ \E f \in fetches : f.why = "load" /\ f.cat = d
      BY <1>1, <1>2, <1>4, <2>1, <2>2, <2>3 DEF EmptyIsSo, Loading, CarouselInv, CarouselTypes,
         RowIsActive
    <3>3. row # NoRow /\ cards \in Carousel!Kinds => row \in Category /\ row # c
      BY <1>6, <2>1 DEF CarouselInv, RowIsActive
    <3> HIDE DEF cards, onScreen
    <3> QED BY <1>2, <1>4, <2>1, <2>3, <3>1, <3>2, <3>3 DEF DrawnIsSo, OwnLoad
  <2> HIDE DEF cards, onScreen, WillBe
  <2> QED BY <1>1, <1>3, <1>4, <2>1, <2>2, <2>3, CarouselRedrawn
<1> QED BY <1>5, <1>6

LEMMA CarouselChanged == ASSUME CarouselInv, NEW c \in Category, Carousel!ChangeThere(c) PROVE CarouselInv'
<1>1. /\ place = "away" /\ has' = Carousel!Flipped(c) /\ stale' = AllStale
      /\ crossed' = (crossed \/ \E f \in fetches : f.cat = c /\ f.got # "none")
      /\ UNCHANGED <<cats, cached, emptyIds, active, place, row, items, fetches>>
  BY DEF Carousel!ChangeThere, AllStale
<1>2. /\ has' \subseteq Category /\ AllStale \subseteq Category /\ crossed' \in BOOLEAN
      /\ \A d \in Category : d # c => (d \in has' <=> d \in has)
      /\ \A d \in Category : cached[d] # "none" => d \in AllStale
  BY <1>1 DEF Carousel!Flipped, AllStale, CarouselInv, CarouselTypes
<1>3. row = NoRow
  BY <1>1 DEF CarouselInv, RowIsActive
<1>4. CarouselTypes' /\ RowIsActive'
  BY <1>1, <1>2 DEF CarouselInv, CarouselTypes, RowIsActive
<1>5. ASSUME ~crossed' PROVE ToldIsSo' /\ DrawnIsSo' /\ EmptyIsSo'
  <2>1. ToldIsSo /\ \A f \in fetches : f.cat \in Category /\ (f.cat = c => f.got = "none")
    BY <1>1, <1>5 DEF CarouselInv, CarouselTypes, Carousel!Fetches
  <2>2. ToldIsSo'
    BY <1>1, <1>2, <2>1 DEF ToldIsSo, Carousel!Fresh, Carousel!Kind
  <2> QED BY <1>1, <1>3, <2>2 DEF DrawnIsSo, EmptyIsSo
<1> QED BY <1>4, <1>5 DEF CarouselInv

\* Whatever happens, the carousel's invariant stays.
LEMMA CarouselKept == ASSUME CarouselInv, Carousel!Next \/ UNCHANGED Carousel!vars PROVE CarouselInv'
<1>1. CASE UNCHANGED Carousel!vars
  BY <1>1 DEF Carousel!vars, CarouselInv, CarouselTypes, RowIsActive, ToldIsSo, DrawnIsSo, EmptyIsSo,
     OwnLoad, Loading,
     Carousel!Fresh, Carousel!Kind
<1> QED BY <1>1, CarouselUser, CarouselArranged, CarouselRefreshed, CarouselServed, CarouselGot,
        CarouselFails, CarouselTold, CarouselChanged DEF Carousel!Next

\* At rest the row on screen has cards, and what is stepped over has none.
LEMMA CarouselRests == ASSUME CarouselInv PROVE Carousel!RestsOnCards
<1> SUFFICES ASSUME place = "here", fetches = {}, ~crossed
             PROVE  /\ \A c \in emptyIds : c \in has => c \in stale
                    /\ row # NoRow /\ items # "empty" => items = "error" \/ row \in has \cup stale
  BY DEF Carousel!RestsOnCards
<1>1. DrawnIsSo /\ EmptyIsSo /\ ~OwnLoad /\ \A c : ~Loading(c)
  BY DEF CarouselInv, OwnLoad, Loading
<1>2. items \in {"none", "error", "full", "empty"}
  BY DEF CarouselInv, CarouselTypes
<1> QED BY <1>1, <1>2 DEF DrawnIsSo, EmptyIsSo, Carousel!Kind, Carousel!Kinds

-----------------------------------------------------------------------------
(* The page of a card (CardPage) *)

PageReqs ==
    [what : {"card", "timecodes", "status", "favorite", "episodes"}, of : Card, by : Profile,
     first : BOOLEAN, newest : BOOLEAN, tries : Nat, got : BOOLEAN,
     marks : [Profile -> SUBSET Page!Episode], status : Page!Status, liked : BOOLEAN]

MarksPosts ==
    [what : {"marks"}, mark : SUBSET Page!Episode, unmark : SUBSET Page!Episode, wipe : BOOLEAN,
     then : SUBSET Page!Dialogs, of : Card, by : Profile, stored : BOOLEAN]

StatusPosts == [what : {"status"}, status : Page!Status, of : Card, by : Profile, stored : BOOLEAN]

BookPosts ==
    [what : {"favorite"}, liked : BOOLEAN, of : Card, by : Profile, read : SUBSET SUBSET Card, stored : BOOLEAN]

PageNews == [type : {"status"}, of : Card, status : Page!Status] \cup [type : {"timecode"}, of : Card]

PageTypes ==
    /\ marks \in [Profile -> [Card -> SUBSET Page!Episode]]
    /\ status \in [Profile -> [Card -> Page!Status]]
    /\ book \in [Profile -> SUBSET Card]
    /\ card \in Card /\ profile \in Profile /\ shown \subseteq Card
    /\ isFavorite \in BOOLEAN
    /\ reqs \subseteq PageReqs
    /\ posts \subseteq MarksPosts \cup StatusPosts \cup BookPosts
    /\ confirm \subseteq Page!Dialogs
    /\ feed \in Seq(PageNews)

\* The page has its card, or it has been asked for.
CardComes == shown = {card} \/ \E r \in reqs : r.what = "card" /\ r.of = card

Newest(r) == r.what = "timecodes" /\ r.newest = TRUE

PageMarks == [p \in Profile |-> marks[p][card]]

\* Something will have the timecodes asked for again.
Refresh ==
    \/ \E i \in DOMAIN feed : feed[i].type = "timecode" /\ feed[i].of = card
    \/ \E q \in posts : q.what = "marks" /\ q.stored = TRUE /\ q.of = card

\* What is shown of the marks, or about to be, is what the server has, or will be asked for.
MarksCome ==
    /\ \A r \in reqs : Newest(r) => r.of = card
    /\ \/ Refresh
       \/ /\ \A r \in reqs : Newest(r) /\ r.got = TRUE => r.marks = PageMarks
          /\ timecodes = PageMarks \/ \E r \in reqs : Newest(r)

\* Every status on its way to the page is the one the server has.
StatusesTrue ==
    /\ \A r \in reqs : r.what = "status" /\ r.got = TRUE => r.status = status[r.by][r.of]
    /\ \A i \in DOMAIN feed : feed[i].type = "status" => feed[i].status = status[profile][feed[i].of]
    /\ \A q \in posts : q.what = "status" /\ q.stored = TRUE => q.status = status[q.by][q.of]

StatusComes ==
    \/ watchStatus = status[profile][card]
    \/ \E r \in reqs : r.what = "status" /\ r.of = card /\ r.by = profile
    \/ \E i \in DOMAIN feed : feed[i].type = "status" /\ feed[i].of = card
    \/ \E q \in posts : q.what = "status" /\ q.stored = TRUE /\ q.of = card /\ q.by = profile

\* Every favourite on its way to the page is the one the server has.
FavouritesTrue ==
    /\ \A r \in reqs : r.what = "favorite" /\ r.got = TRUE => (r.liked = TRUE <=> r.of \in book[r.by])
    /\ \A q \in posts : q.what = "favorite" /\ q.stored = TRUE => (q.liked = TRUE <=> q.of \in book[q.by])
    /\ \A q, o \in posts : q.what = "favorite" /\ o.what = "favorite" => q = o

FavouriteComes ==
    \/ isFavorite = TRUE <=> card \in book[profile]
    \/ \E r \in reqs : r.what = "card" \/ (r.what = "favorite" /\ r.of = card /\ r.by = profile)
    \/ \E q \in posts : q.what = "favorite" /\ q.stored = TRUE /\ q.of = card /\ q.by = profile

PageTrue == CardComes /\ MarksCome /\ StatusesTrue /\ StatusComes /\ FavouritesTrue /\ FavouriteComes

PageInv == PageTypes /\ (missed = {} => PageTrue)

\* A request as it is sent.
Asked(a, w, c, p) ==
    /\ a \in PageReqs
    /\ a.what = w /\ a.of = c /\ a.by = p /\ a.newest = TRUE /\ a.got = FALSE

LEMMA PageAsk ==
    \A w \in {"card", "timecodes", "status", "favorite", "episodes"}, c \in Card, p \in Profile :
      Asked(Page!Ask(w, c, p, TRUE), w, c, p) /\ Asked(Page!Ask(w, c, p, FALSE), w, c, p)
<1>1. Page!NoMarks \in [Profile -> SUBSET Page!Episode] /\ "none" \in Page!Status
  BY DEF Page!NoMarks, Page!Status
<1> HIDE DEF Page!NoMarks, Page!Status
<1> QED BY <1>1 DEF Page!Ask, PageReqs, Asked

\* The timecodes are asked for: the last request is the only one that counts.
LEMMA PageLoad ==
    ASSUME PageTypes, NEW wanted \in SUBSET PageReqs, NEW c \in Card
    PROVE  /\ Page!LoadTimecodes(wanted, c) \subseteq PageReqs
           /\ \A r \in wanted : r.what # "timecodes" => r \in Page!LoadTimecodes(wanted, c)
           /\ \A r \in Page!LoadTimecodes(wanted, c) :
                \/ r.what # "timecodes" /\ r \in wanted
                \/ r.what = "timecodes" /\ (r.newest = FALSE \/ (r.of = c /\ r.got = FALSE))
           /\ \E r \in Page!LoadTimecodes(wanted, c) : Newest(r) /\ r.of = c /\ r.got = FALSE
<1> DEFINE a == Page!Ask("timecodes", c, profile, FALSE)
<1>0. Asked(a, "timecodes", c, profile)
  BY PageAsk DEF PageTypes
<1>1. a \in PageReqs /\ a.what = "timecodes" /\ a.of = c /\ a.newest = TRUE /\ a.got = FALSE
  BY <1>0 DEF Asked
<1>2. Page!LoadTimecodes(wanted, c) = {IF r.what = "timecodes" THEN [r EXCEPT !.newest = FALSE] ELSE r : r \in wanted} \cup {a}
  BY DEF Page!LoadTimecodes
<1> HIDE DEF a
<1>3. ASSUME NEW r \in wanted
      PROVE  [r EXCEPT !.newest = FALSE] \in PageReqs /\ [r EXCEPT !.newest = FALSE].what = r.what
             /\ [r EXCEPT !.newest = FALSE].newest = FALSE
  BY DEF PageReqs
<1>4. ASSUME NEW b \in Page!LoadTimecodes(wanted, c), b # a
      PROVE  /\ b \in PageReqs
             /\ \/ b.what # "timecodes" /\ b \in wanted
                \/ b.what = "timecodes" /\ b.newest = FALSE
  <2>1. PICK r \in wanted : b = IF r.what = "timecodes" THEN [r EXCEPT !.newest = FALSE] ELSE r
    BY <1>2, <1>4
  <2>2. CASE r.what = "timecodes"
    BY <1>3, <2>1, <2>2
  <2>3. CASE r.what # "timecodes"
    BY <2>1, <2>3
  <2> QED BY <2>2, <2>3
<1>5. \A r \in wanted : r.what # "timecodes" => r \in Page!LoadTimecodes(wanted, c)
  BY <1>2
<1> QED BY <1>1, <1>2, <1>4, <1>5 DEF Newest

\* The kinds of what is posted.
LEMMA PagePosts ==
    ASSUME PageTypes, NEW q \in posts
    PROVE  /\ q.what = "marks" => q \in MarksPosts
           /\ q.what = "status" => q \in StatusPosts
           /\ q.what = "favorite" => q \in BookPosts
           /\ q.of \in Card /\ q.by \in Profile /\ q.stored \in BOOLEAN /\ q.what \in {"marks", "status", "favorite"}
<1>1. CASE q \in MarksPosts
  BY <1>1 DEF MarksPosts
<1>2. CASE q \in StatusPosts
  BY <1>2 DEF StatusPosts
<1>3. CASE q \in BookPosts
  BY <1>3 DEF BookPosts
<1> QED BY <1>1, <1>2, <1>3 DEF PageTypes

LEMMA PageStart == ASSUME Page!Init PROVE PageInv
<1>1. /\ card \in Card /\ profile \in Profile /\ isFavorite = FALSE /\ shown = {} /\ posts = {} /\ confirm = {} /\ feed = <<>>
      /\ status = [p \in Profile |-> [c \in Card |-> "none"]] /\ book = [p \in Profile |-> {}]
      /\ reqs = Page!Opening({}, card, profile)
  BY DEF Page!Init
<1>2. marks \in [Profile -> [Card -> SUBSET Page!Episode]]
  BY DEF Page!Init
<1>3. status \in [Profile -> [Card -> Page!Status]] /\ book \in [Profile -> SUBSET Card]
  BY <1>1 DEF Page!Status
<1> DEFINE a == Page!Ask("card", card, profile, TRUE)
           b == Page!Ask("status", card, profile, TRUE)
           t == Page!Ask("timecodes", card, profile, FALSE)
<1>4. Asked(a, "card", card, profile) /\ Asked(b, "status", card, profile) /\ Asked(t, "timecodes", card, profile)
  BY <1>1, PageAsk
<1>5. reqs = {a, b, t}
  BY <1>1 DEF Page!Opening, Page!LoadTimecodes
<1> HIDE DEF a, b, t
<1>6. PageTypes
  <2>1. reqs \subseteq PageReqs
    BY <1>4, <1>5 DEF Asked
  <2>2. feed \in Seq(PageNews)
    BY <1>1
  <2>3. isFavorite \in BOOLEAN
    BY <1>1
  <2>4. posts = {} /\ confirm = {}
    BY <1>1
  <2> QED BY <1>1, <1>2, <1>3, <2>1, <2>2, <2>3, <2>4 DEF PageTypes
<1>7. PageTrue
  <2>1. CardComes /\ MarksCome /\ StatusesTrue
    BY <1>1, <1>4, <1>5 DEF CardComes, MarksCome, StatusesTrue, Newest, Asked
  <2>2. StatusComes
    BY <1>4, <1>5 DEF StatusComes, Asked
  <2>3. FavouritesTrue /\ FavouriteComes
    BY <1>1, <1>4, <1>5 DEF FavouritesTrue, FavouriteComes, Asked
  <2> QED BY <2>1, <2>2, <2>3 DEF PageTrue
<1> QED BY <1>6, <1>7 DEF PageInv

\* Opening a card asks for it, for its status and for the timecodes.
LEMMA PageOpening ==
    ASSUME PageTypes, NEW c \in Card
    PROVE  \E a, b : /\ Page!Opening(reqs, c, profile) = Page!LoadTimecodes(reqs, c) \cup {a, b}
                     /\ Asked(a, "card", c, profile) /\ Asked(b, "status", c, profile)
<1>1. Page!Opening(reqs, c, profile) = Page!LoadTimecodes(reqs, c) \cup {Page!Ask("card", c, profile, TRUE), Page!Ask("status", c, profile, TRUE)}
  BY DEF Page!Opening
<1>2. Asked(Page!Ask("card", c, profile, TRUE), "card", c, profile) /\ Asked(Page!Ask("status", c, profile, TRUE), "status", c, profile)
  BY PageAsk DEF PageTypes
<1> QED BY <1>1, <1>2

LEMMA PageOpened == ASSUME PageInv, NEW c \in Card, Page!Open(c) PROVE PageInv'
<1>1. PageTypes
  BY DEF PageInv
<1>2. /\ card' = c /\ UNCHANGED <<marks, status, book, profile, posts, feed, missed, confirm, shown, isFavorite, watchStatus>>
      /\ reqs' = Page!Opening(reqs, c, profile)
  BY DEF Page!Open, Page!server
<1>3. PICK a, b : /\ reqs' = Page!LoadTimecodes(reqs, c) \cup {a, b}
                  /\ Asked(a, "card", c, profile) /\ Asked(b, "status", c, profile)
  BY <1>1, <1>2, PageOpening
<1> DEFINE L == Page!LoadTimecodes(reqs, c)
<1>4. /\ L \subseteq PageReqs
      /\ \A r \in L :
                \/ r.what # "timecodes" /\ r \in reqs
                \/ r.what = "timecodes" /\ (r.newest = FALSE \/ (r.of = c /\ r.got = FALSE))
      /\ \E r \in L : Newest(r) /\ r.of = c /\ r.got = FALSE
  <2>1. reqs \in SUBSET PageReqs
    BY <1>1 DEF PageTypes
  <2> QED BY <1>1, <2>1, PageLoad
<1>5. reqs' = L \cup {a, b}
  BY <1>3
<1> HIDE DEF L
<1>6. PageTypes'
  BY <1>1, <1>2, <1>3, <1>4, <1>5 DEF PageTypes, Asked
<1>7. ASSUME missed' = {} PROVE PageTrue'
  <2>1. PageTrue
    BY <1>2, <1>7 DEF PageInv
  <2>2. CardComes'
    BY <1>2, <1>3, <1>5 DEF CardComes, Asked
  <2>3. MarksCome'
    <3>1. \A r \in reqs' : Newest(r) => r.of = c /\ r.got = FALSE
      BY <1>3, <1>4, <1>5 DEF Newest, Asked
    <3> QED BY <1>2, <1>4, <1>5, <3>1 DEF MarksCome
  <2>4. StatusesTrue'
    BY <1>2, <1>3, <1>4, <1>5, <2>1 DEF StatusesTrue, PageTrue, Asked
  <2>5. StatusComes'
    BY <1>2, <1>3, <1>5 DEF StatusComes, Asked
  <2>6. FavouritesTrue'
    BY <1>2, <1>3, <1>4, <1>5, <2>1 DEF FavouritesTrue, PageTrue, Asked
  <2>7. FavouriteComes'
    BY <1>3, <1>5 DEF FavouriteComes, Asked
  <2> QED BY <2>2, <2>3, <2>4, <2>5, <2>6, <2>7 DEF PageTrue
<1> QED BY <1>6, <1>7 DEF PageInv

\* Nothing is kept of the former profile's socket, and nothing of its own is posted.
LEMMA PageSwitches == ASSUME PageInv, NEW p \in Profile, Page!SwitchProfile(p) PROVE PageInv'
<1>1. PageTypes
  BY DEF PageInv
<1>2. /\ profile' = p /\ feed' = <<>>
      /\ UNCHANGED <<marks, status, book, card, posts, confirm, shown, timecodes, isFavorite, watchStatus>>
      /\ missed' = {} => missed = {} /\ feed = <<>> /\ posts = {}
  BY DEF Page!SwitchProfile, Page!server, Page!screen, Page!Missed
<1> DEFINE b == Page!Ask("status", card, p, TRUE)
           F == {Page!Ask("favorite", c, p, FALSE) : c \in shown}
<1>3. Asked(b, "status", card, p)
  BY <1>1, PageAsk DEF PageTypes
<1>4. reqs' = reqs \cup {b} \cup F
  BY DEF Page!SwitchProfile
<1>5. \A c \in shown : c \in Card => \E f \in F : Asked(f, "favorite", c, p)
  BY PageAsk
<1>6. shown \subseteq Card => \A f \in F : \E c \in Card : Asked(f, "favorite", c, p)
  BY PageAsk
<1> HIDE DEF b, F
<1>7. PageTypes'
  <2>1. shown \subseteq Card
    BY <1>1 DEF PageTypes
  <2>2. F \subseteq PageReqs
    BY <1>6, <2>1 DEF Asked
  <2>3. feed' \in Seq(PageNews)
    BY <1>2
  <2> QED BY <1>1, <1>2, <1>3, <1>4, <2>2, <2>3 DEF PageTypes, Asked
<1>8. ASSUME missed' = {} PROVE PageTrue'
  <2>1. PageTrue /\ feed = <<>> /\ posts = {}
    BY <1>2, <1>8 DEF PageInv
  <2>2. CardComes'
    BY <1>2, <1>4, <2>1 DEF CardComes, PageTrue
  <2>0. \A f \in F : f.what = "favorite" /\ f.got = FALSE
    BY <1>1, <1>6 DEF Asked, PageTypes
  <2>3. MarksCome'
    <3>1. (\A r \in reqs' : Newest(r) => r \in reqs) /\ reqs \subseteq reqs'
      BY <1>3, <1>4, <2>0 DEF Newest, Asked
    <3>2. ~Refresh
      BY <2>1 DEF Refresh
    <3> QED BY <1>2, <2>1, <3>1, <3>2 DEF MarksCome, PageTrue, PageMarks
  <2>4. StatusesTrue'
    BY <1>2, <1>3, <1>4, <2>0, <2>1 DEF StatusesTrue, PageTrue, Asked
  <2>5. StatusComes'
    BY <1>2, <1>3, <1>4 DEF StatusComes, Asked
  <2>6. FavouritesTrue'
    BY <1>2, <1>3, <1>4, <2>0, <2>1 DEF FavouritesTrue, PageTrue, Asked
  <2>7. FavouriteComes'
    <3>1. CASE shown = {card}
      <4>1. \E f \in F : Asked(f, "favorite", card, p)
        BY <1>1, <1>5, <3>1 DEF PageTypes
      <4> QED BY <1>2, <1>4, <4>1 DEF FavouriteComes, Asked
    <3>2. CASE \E r \in reqs : r.what = "card" /\ r.of = card
      BY <1>4, <3>2 DEF FavouriteComes
    <3> QED BY <2>1, <3>1, <3>2 DEF PageTrue, CardComes
  <2> QED BY <2>2, <2>3, <2>4, <2>5, <2>6, <2>7 DEF PageTrue
<1> QED BY <1>7, <1>8 DEF PageInv

LEMMA PageServes == ASSUME PageInv, NEW r \in reqs, Page!Serve(r) PROVE PageInv'
<1>1. PageTypes /\ r \in PageReqs
  BY DEF PageInv, PageTypes
<1>2. r.what \in {"timecodes", "status", "favorite"} /\ r.got = FALSE /\ r.of \in Card /\ r.by \in Profile /\ r.newest \in BOOLEAN
  BY <1>1 DEF Page!Serve, PageReqs
<1>3. UNCHANGED <<marks, status, book, card, profile, posts, confirm, feed, missed, shown, timecodes, isFavorite, watchStatus>>
  BY DEF Page!Serve, Page!server, Page!screen
<1>4. PICK y \in BOOLEAN : y = (r.what = "favorite" /\ r.of \in book[r.by])
  OBVIOUS
<1> DEFINE m == IF r.what = "timecodes" THEN [p \in Profile |-> marks[p][r.of]] ELSE r.marks
           s == IF r.what = "status" THEN status[r.by][r.of] ELSE r.status
           n == [r EXCEPT !.got = TRUE, !.marks = m, !.status = s, !.liked = y]
<1>5. reqs' = (reqs \ {r}) \cup {n}
  BY <1>4 DEF Page!Serve
<1>6. m \in [Profile -> SUBSET Page!Episode] /\ s \in Page!Status
  BY <1>1, <1>2 DEF PageTypes, PageReqs
<1>7. /\ r.what = "timecodes" => m = [p \in Profile |-> marks[p][r.of]]
      /\ r.what = "status" => s = status[r.by][r.of]
      /\ r.what = "favorite" => (y = TRUE <=> r.of \in book[r.by])
  BY <1>4
<1> HIDE DEF m, s
<1>8. /\ n \in PageReqs
      /\ n.what = r.what /\ n.of = r.of /\ n.by = r.by /\ n.newest = r.newest /\ n.marks = m /\ n.status = s /\ n.liked = y
  BY <1>1, <1>6 DEF PageReqs
<1> HIDE DEF n
<1>9. PageTypes'
  BY <1>1, <1>3, <1>5, <1>8 DEF PageTypes
<1>10. ASSUME missed' = {} PROVE PageTrue'
  <2>1. PageTrue
    BY <1>3, <1>10 DEF PageInv
  <2>2. CardComes'
    BY <1>2, <1>3, <1>5, <2>1 DEF CardComes, PageTrue
  <2>3. MarksCome'
    <3>1. Newest(n) <=> Newest(r)
      BY <1>8 DEF Newest
    <3>2. Newest(n) => n.of = card /\ n.marks = PageMarks
      BY <1>7, <1>8, <2>1, <3>1 DEF MarksCome, PageTrue, Newest, PageMarks
    <3>3. \A q \in reqs' : q = n \/ q \in reqs
      BY <1>5
    <3>4. (\E q \in reqs : Newest(q)) => \E q \in reqs' : Newest(q)
      BY <1>5, <3>1
    <3>5. PageMarks' = PageMarks /\ (Refresh <=> Refresh')
      BY <1>3 DEF PageMarks, Refresh
    <3> QED BY <1>3, <2>1, <3>2, <3>3, <3>4, <3>5 DEF MarksCome, PageTrue
  <2>4. StatusesTrue'
    BY <1>3, <1>5, <1>7, <1>8, <2>1 DEF StatusesTrue, PageTrue
  <2>5. StatusComes'
    BY <1>3, <1>5, <1>8, <2>1 DEF StatusComes, PageTrue
  <2>6. FavouritesTrue'
    BY <1>3, <1>5, <1>7, <1>8, <2>1 DEF FavouritesTrue, PageTrue
  <2>7. FavouriteComes'
    BY <1>2, <1>3, <1>5, <1>8, <2>1 DEF FavouriteComes, PageTrue
  <2> QED BY <2>2, <2>3, <2>4, <2>5, <2>6, <2>7 DEF PageTrue
<1> QED BY <1>9, <1>10 DEF PageInv

LEMMA PageGotCard == ASSUME PageInv, NEW r \in reqs, Page!GotCard(r) PROVE PageInv'
<1>1. PageTypes /\ r \in PageReqs /\ r.of \in Card
  BY DEF PageInv, PageTypes, PageReqs
<1>2. /\ UNCHANGED <<marks, status, book, card, profile, posts, confirm, feed, timecodes, isFavorite, watchStatus>>
      /\ shown' = {r.of} /\ r.what = "card"
      /\ missed' = {} => missed = {} /\ r.of = card
  BY DEF Page!GotCard, Page!server, Page!Missed
<1> DEFINE e == Page!Ask("episodes", r.of, profile, TRUE)
           f == Page!Ask("favorite", r.of, profile, FALSE)
<1>3. Asked(e, "episodes", r.of, profile) /\ Asked(f, "favorite", r.of, profile)
  BY <1>1, PageAsk DEF PageTypes
<1>4. /\ reqs' \subseteq (reqs \ {r}) \cup {e, f} /\ f \in reqs'
      /\ \A q \in reqs \ {r} : q.what # "episodes" => q \in reqs'
  BY DEF Page!GotCard
<1> HIDE DEF e, f
<1>5. PageTypes'
  BY <1>1, <1>2, <1>3, <1>4 DEF PageTypes, Asked
<1>6. ASSUME missed' = {} PROVE PageTrue'
  <2>1. PageTrue /\ r.of = card
    BY <1>2, <1>6 DEF PageInv
  <2>2. CardComes'
    BY <1>2, <2>1 DEF CardComes
  <2>3. MarksCome'
    <3>1. \A q \in reqs' : Newest(q) => q \in reqs
      BY <1>3, <1>4 DEF Newest, Asked
    <3>2. \A q \in reqs : Newest(q) => q \in reqs'
      BY <1>2, <1>4 DEF Newest
    <3> QED BY <1>2, <2>1, <3>1, <3>2 DEF MarksCome, PageTrue, PageMarks, Refresh
  <2>4. StatusesTrue'
    BY <1>2, <1>3, <1>4, <2>1 DEF StatusesTrue, PageTrue, Asked
  <2>5. StatusComes'
    BY <1>2, <1>4, <2>1 DEF StatusComes, PageTrue
  <2>6. FavouritesTrue'
    BY <1>2, <1>3, <1>4, <2>1 DEF FavouritesTrue, PageTrue, Asked
  <2>7. FavouriteComes'
    BY <1>2, <1>3, <1>4, <2>1 DEF FavouriteComes, Asked
  <2> QED BY <2>2, <2>3, <2>4, <2>5, <2>6, <2>7 DEF PageTrue
<1> QED BY <1>5, <1>6 DEF PageInv

\* What fails is named: only the types are left to keep.
LEMMA PageFails ==
    ASSUME PageInv,
           \/ \E r \in reqs : Page!CardFails(r) \/ Page!TimecodesFail(r) \/ Page!StatusFails(r)
           \/ \E q \in posts : Page!PostFails(q)
           \/ Page!MessageLost
           \/ \E c \in Card : Page!BookElsewhere(c)
    PROVE  PageInv'
<1>1. PageTypes
  BY DEF PageInv
<1>2. CASE \E r \in reqs : Page!CardFails(r)
  BY <1>1, <1>2 DEF Page!CardFails, PageTypes, PageInv, Page!server
<1>3. CASE \E r \in reqs : Page!TimecodesFail(r)
  BY <1>1, <1>3 DEF Page!TimecodesFail, PageTypes, PageInv, Page!server
<1>4. CASE \E r \in reqs : Page!StatusFails(r)
  BY <1>1, <1>4 DEF Page!StatusFails, PageTypes, PageInv, Page!server
<1>5. CASE \E q \in posts : Page!PostFails(q)
  BY <1>1, <1>5 DEF Page!PostFails, PageTypes, PageInv, Page!server, Page!screen
<1>6. CASE Page!MessageLost
  <2>1. feed' = Tail(feed) /\ feed # <<>> /\ feed \in Seq(PageNews)
    BY <1>1, <1>6 DEF Page!MessageLost, PageTypes
  <2>2. feed' \in Seq(PageNews)
    BY <2>1, QueueTail
  <2> QED BY <1>1, <1>6, <2>2 DEF Page!MessageLost, PageTypes, PageInv, Page!server, Page!screen
<1>7. CASE \E c \in Card : Page!BookElsewhere(c)
  BY <1>1, <1>7 DEF Page!BookElsewhere, PageTypes, PageInv, Page!Missed, Page!screen
<1> QED BY <1>2, <1>3, <1>4, <1>5, <1>6, <1>7

LEMMA PageGotTimecodes == ASSUME PageInv, NEW r \in reqs, Page!GotTimecodes(r) PROVE PageInv'
<1>1. PageTypes /\ r \in PageReqs /\ r.newest \in BOOLEAN
  BY DEF PageInv, PageTypes, PageReqs
<1>2. /\ UNCHANGED <<marks, status, book, card, profile, shown, posts, confirm, feed, isFavorite, watchStatus, missed>>
      /\ r.what = "timecodes" /\ r.got = TRUE
      /\ reqs' = reqs \ {r}
      /\ r.newest = TRUE => timecodes' = r.marks
      /\ r.newest = FALSE => timecodes' = timecodes
  BY <1>1 DEF Page!GotTimecodes, Page!server, PageReqs
<1>3. PageTypes'
  BY <1>1, <1>2 DEF PageTypes
<1>4. ASSUME missed' = {} PROVE PageTrue'
  <2>1. PageTrue
    BY <1>2, <1>4 DEF PageInv
  <2>2. CardComes' /\ StatusComes' /\ FavouriteComes'
    BY <1>2, <2>1 DEF CardComes, StatusComes, FavouriteComes, PageTrue
  <2>3. StatusesTrue' /\ FavouritesTrue'
    BY <1>2, <2>1 DEF StatusesTrue, FavouritesTrue, PageTrue
  <2>4. MarksCome'
    <3>1. CASE r.newest = TRUE
      BY <1>2, <2>1, <3>1 DEF MarksCome, PageTrue, PageMarks, Refresh, Newest
    <3>2. CASE r.newest = FALSE
      BY <1>2, <2>1, <3>2 DEF MarksCome, PageTrue, PageMarks, Refresh, Newest
    <3> QED BY <1>1, <3>1, <3>2
  <2> QED BY <2>2, <2>3, <2>4 DEF PageTrue
<1> QED BY <1>3, <1>4 DEF PageInv

LEMMA PageGotStatus == ASSUME PageInv, NEW r \in reqs, Page!GotStatus(r) PROVE PageInv'
<1>1. PageTypes
  BY DEF PageInv
<1>2. /\ UNCHANGED <<marks, status, book, card, profile, shown, posts, confirm, feed, timecodes, isFavorite>>
      /\ r.what = "status" /\ r.got = TRUE
      /\ reqs' = reqs \ {r}
      /\ watchStatus' = r.status
      /\ missed' = {} => missed = {} /\ r.of = card /\ r.by = profile
  BY <1>1 DEF Page!GotStatus, Page!server, Page!Missed, PageTypes, PageReqs
<1>3. PageTypes'
  BY <1>1, <1>2 DEF PageTypes
<1>4. ASSUME missed' = {} PROVE PageTrue'
  <2>1. PageTrue
    BY <1>2, <1>4 DEF PageInv
  <2>2. CardComes' /\ FavouriteComes'
    BY <1>2, <2>1 DEF CardComes, FavouriteComes, PageTrue
  <2>3. StatusesTrue' /\ FavouritesTrue'
    BY <1>2, <2>1 DEF StatusesTrue, FavouritesTrue, PageTrue
  <2>4. MarksCome'
    BY <1>2, <2>1 DEF MarksCome, PageTrue, PageMarks, Refresh, Newest
  <2>5. StatusComes'
    BY <1>2, <1>4, <2>1 DEF StatusComes, StatusesTrue, PageTrue
  <2> QED BY <2>2, <2>3, <2>4, <2>5 DEF PageTrue
<1> QED BY <1>3, <1>4 DEF PageInv

LEMMA PageGotFavorite == ASSUME PageInv, NEW r \in reqs, Page!GotFavorite(r) PROVE PageInv'
<1>1. PageTypes /\ r \in PageReqs /\ r.liked \in BOOLEAN
  BY DEF PageInv, PageTypes, PageReqs
<1>2. /\ UNCHANGED <<marks, status, book, card, profile, shown, posts, confirm, feed, timecodes, watchStatus>>
      /\ r.what = "favorite"
      /\ reqs' = reqs \ {r}
  BY DEF Page!GotFavorite, Page!server
<1>3. isFavorite' \in BOOLEAN
  BY <1>1 DEF Page!GotFavorite, PageTypes
<1>4. missed' = {} => missed = {} /\ r.got = TRUE /\ isFavorite' = r.liked /\ r.of = card /\ r.by = profile
  BY <1>1 DEF Page!GotFavorite, Page!Missed, PageReqs
<1>5. PageTypes'
  BY <1>1, <1>2, <1>3 DEF PageTypes
<1>6. ASSUME missed' = {} PROVE PageTrue'
  <2>1. PageTrue
    BY <1>4, <1>6 DEF PageInv
  <2>2. CardComes' /\ StatusComes'
    BY <1>2, <2>1 DEF CardComes, StatusComes, PageTrue
  <2>3. StatusesTrue' /\ FavouritesTrue'
    BY <1>2, <2>1 DEF StatusesTrue, FavouritesTrue, PageTrue
  <2>4. MarksCome'
    BY <1>2, <2>1 DEF MarksCome, PageTrue, PageMarks, Refresh, Newest
  <2>5. FavouriteComes'
    BY <1>2, <1>4, <1>6, <2>1 DEF FavouriteComes, FavouritesTrue, PageTrue
  <2> QED BY <2>2, <2>3, <2>4, <2>5 DEF PageTrue
<1> QED BY <1>5, <1>6 DEF PageInv

LEMMA PageEpisodes == ASSUME PageInv, NEW r \in reqs, Page!GotEpisodes(r) \/ Page!EpisodesFail(r) PROVE PageInv'
<1>1. PageTypes /\ r \in PageReqs
  BY DEF PageInv, PageTypes
<1>2. /\ UNCHANGED <<marks, status, book, card, profile, shown, posts, confirm, feed, timecodes, watchStatus, isFavorite, missed>>
      /\ r.what = "episodes"
  BY DEF Page!GotEpisodes, Page!EpisodesFail, Page!server
<1> DEFINE n == [r EXCEPT !.tries = @ + 1]
<1>3. reqs' = reqs \ {r} \/ reqs' = (reqs \ {r}) \cup {n}
  BY DEF Page!GotEpisodes, Page!EpisodesFail
<1>4. n \in PageReqs /\ n.what = "episodes"
  BY <1>1, <1>2 DEF PageReqs
<1> HIDE DEF n
<1>5. PageTypes'
  BY <1>1, <1>2, <1>3, <1>4 DEF PageTypes
<1>6. ASSUME missed' = {} PROVE PageTrue'
  <2>1. PageTrue
    BY <1>2, <1>6 DEF PageInv
  <2>0. /\ \A q \in reqs' : q.what # "episodes" => q \in reqs
        /\ \A q \in reqs : q.what # "episodes" => q \in reqs'
    BY <1>2, <1>3, <1>4
  <2>2. CardComes' /\ StatusComes' /\ FavouriteComes'
    BY <1>2, <2>0, <2>1 DEF CardComes, StatusComes, FavouriteComes, PageTrue
  <2>3. StatusesTrue' /\ FavouritesTrue'
    BY <1>2, <2>0, <2>1 DEF StatusesTrue, FavouritesTrue, PageTrue
  <2>4. MarksCome'
    BY <1>2, <2>0, <2>1 DEF MarksCome, PageTrue, PageMarks, Refresh, Newest
  <2> QED BY <2>2, <2>3, <2>4 DEF PageTrue
<1> QED BY <1>5, <1>6 DEF PageInv

\* A click posts one change, or opens or closes the dialog.
LEMMA PagePostsOne ==
    ASSUME PageInv, NEW Q, Q \subseteq MarksPosts \cup StatusPosts \cup BookPosts,
           posts' = posts \cup Q, confirm' \subseteq Page!Dialogs,
           \A q \in Q : q.stored = FALSE,
           \A q, o \in Q : q = o,
           \A q \in Q, o \in posts : q.what = "favorite" => o.what # "favorite",
           UNCHANGED <<marks, status, book, card, profile, shown, timecodes, watchStatus, isFavorite, reqs, feed>>,
           missed' = {} => missed = {}
    PROVE  PageInv'
<1>1. PageTypes
  BY DEF PageInv
<1>2. PageTypes'
  BY <1>1 DEF PageTypes
<1>3. ASSUME missed' = {} PROVE PageTrue'
  <2>1. PageTrue
    BY <1>3 DEF PageInv
  <2>2. CardComes' /\ StatusComes' /\ FavouriteComes'
    BY <2>1 DEF CardComes, StatusComes, FavouriteComes, PageTrue
  <2>3. StatusesTrue' /\ FavouritesTrue'
    BY <2>1 DEF StatusesTrue, FavouritesTrue, PageTrue
  <2>4. MarksCome'
    BY <2>1 DEF MarksCome, PageTrue, PageMarks, Refresh, Newest
  <2> QED BY <2>2, <2>3, <2>4 DEF PageTrue
<1> QED BY <1>2, <1>3 DEF PageInv

\* A dialog about some of the episodes.
LEMMA PageDialog ==
    ASSUME PageTypes, NEW mark \in SUBSET Page!Episode, NEW unmark \in SUBSET Page!Episode, NEW then \in BOOLEAN
    PROVE  Page!Dialog(mark, unmark, then) \subseteq Page!Dialogs
<1> DEFINE d == [mark |-> mark, unmark |-> unmark, wipe |-> FALSE, then |-> then, by |-> profile, of |-> card]
<1>1. d \in Page!Dialogs
  BY DEF PageTypes, Page!Dialogs
<1>2. Page!Dialog(mark, unmark, then) \subseteq {d}
  BY DEF Page!Dialog
<1> QED BY <1>1, <1>2

LEMMA PageClicked == ASSUME PageInv, Page!Clicks PROVE PageInv'
<1>1. PageTypes
  BY DEF PageInv
<1> DEFINE Same == UNCHANGED <<marks, status, book, card, profile, shown, timecodes, watchStatus, isFavorite, reqs, feed>>
           All == MarksPosts \cup StatusPosts \cup BookPosts
<1>a. ASSUME NEW mark \in SUBSET Page!Episode, NEW unmark \in SUBSET Page!Episode, NEW then \in SUBSET Page!Dialogs
      PROVE  /\ Page!Change(mark, unmark, then) \in MarksPosts
             /\ (Page!Change(mark, unmark, then)).stored = FALSE /\ (Page!Change(mark, unmark, then)).what = "marks"
  BY <1>1 DEF Page!Change, MarksPosts, PageTypes
<1>b. ASSUME NEW q, q \in MarksPosts, q.stored = FALSE, q.what = "marks", posts' = posts \cup {q}, confirm' \subseteq Page!Dialogs,
             Same, missed' = {} => missed = {}
      PROVE  PageInv'
  <2>1. /\ {q} \subseteq All /\ posts' = posts \cup {q}
        /\ \A o \in {q} : o.stored = FALSE
        /\ \A o, m \in {q} : o = m
        /\ \A o \in {q}, m \in posts : o.what = "favorite" => m.what # "favorite"
    BY <1>b
  <2> QED BY <1>b, <2>1, PagePostsOne
<1>c. ASSUME posts' = posts, confirm' \subseteq Page!Dialogs, Same, missed' = missed
      PROVE  PageInv'
  <2>1. PICK Q : Q = {}
    OBVIOUS
  <2>2. /\ posts' = posts \cup Q /\ Q \subseteq All /\ (missed' = {} => missed = {})
        /\ \A q \in Q : q.stored = FALSE
        /\ \A q, o \in Q : q = o
        /\ \A q \in Q, o \in posts : q.what = "favorite" => o.what # "favorite"
    BY <1>c, <2>1
  <2> QED BY <1>c, <2>2, PagePostsOne
<1>2. CASE \E e \in Page!Episode : Page!MarkEpisode(e)
  <2>1. PICK e \in Page!Episode : Page!MarkEpisode(e)
    BY <1>2
  <2>2. Same /\ missed' = missed /\ confirm' \subseteq Page!Dialogs
    BY <1>1, <2>1 DEF Page!MarkEpisode, Page!server, Page!screen, PageTypes
  <2>3. PICK cascade \in BOOLEAN :
          posts' = posts \cup {Page!Change({e}, {}, IF cascade THEN Page!Dialog(Page!Before(e), {}, FALSE) ELSE {})}
    BY <2>1 DEF Page!MarkEpisode
  <2> DEFINE then == IF cascade THEN Page!Dialog(Page!Before(e), {}, FALSE) ELSE {}
  <2>4. Page!Before(e) \subseteq Page!Episode
    BY DEF Page!Before
  <2>5. then \in SUBSET Page!Dialogs
    BY <1>1, <2>4, PageDialog
  <2>6. posts' = posts \cup {Page!Change({e}, {}, then)}
    BY <2>3
  <2> HIDE DEF then
  <2> QED BY <1>a, <1>b, <2>2, <2>5, <2>6
<1>3. CASE \E e \in Page!Episode : Page!UnmarkEpisode(e)
  <2>1. PICK e \in Page!Episode : Page!UnmarkEpisode(e)
    BY <1>3
  <2>2. Same /\ missed' = missed /\ confirm' \subseteq Page!Dialogs
    BY <1>1, <2>1 DEF Page!UnmarkEpisode, Page!server, Page!screen, PageTypes
  <2>3. posts' = posts \cup {Page!Change({}, {e}, {})}
    BY <2>1 DEF Page!UnmarkEpisode
  <2> QED BY <1>a, <1>b, <2>2, <2>3
<1>4. CASE \E e \in Page!Episode : Page!AskReset(e)
  <2>1. PICK e \in Page!Episode : Page!AskReset(e)
    BY <1>4
  <2>2. Same /\ missed' = missed /\ posts' = posts /\ confirm' = Page!Dialog({}, {e}, TRUE)
    BY <2>1 DEF Page!AskReset, Page!server, Page!screen
  <2>3. confirm' \subseteq Page!Dialogs
    BY <1>1, <2>2, PageDialog
  <2> QED BY <1>c, <2>2, <2>3
<1>5. CASE Page!MarkSeason
  <2>2. Same /\ missed' = missed /\ confirm' \subseteq Page!Dialogs
    BY <1>1, <1>5 DEF Page!MarkSeason, Page!server, Page!screen, PageTypes
  <2>3. posts' = posts \cup {Page!Change(Page!Episode, {}, {})}
    BY <1>5 DEF Page!MarkSeason
  <2> QED BY <1>a, <1>b, <2>2, <2>3
<1>6. CASE Page!AskWipe
  <2>2. Same /\ missed' = missed /\ posts' = posts
    BY <1>6 DEF Page!AskWipe, Page!server, Page!screen
  <2>3. confirm' \subseteq Page!Dialogs
    BY <1>1, <1>6 DEF Page!AskWipe, PageTypes, Page!Dialogs
  <2> QED BY <1>c, <2>2, <2>3
<1>7. CASE Page!ToggleFavorite
  <2> DEFINE q == [what |-> "favorite", liked |-> ~isFavorite, of |-> card, by |-> profile, read |-> {}, stored |-> FALSE]
  <2>1. posts' = posts \cup {q} /\ \A o \in posts : o.what # "favorite"
    BY <1>7 DEF Page!ToggleFavorite
  <2>2. Same /\ missed' = missed /\ confirm' \subseteq Page!Dialogs
    BY <1>1, <1>7 DEF Page!ToggleFavorite, Page!server, Page!screen, PageTypes
  <2>3. q.stored = FALSE
    OBVIOUS
  <2>4. q \in BookPosts
    <3>1. PICK y \in BOOLEAN : y = ~isFavorite
      OBVIOUS
    <3>2. q = [what |-> "favorite", liked |-> y, of |-> card, by |-> profile, read |-> {}, stored |-> FALSE]
      BY <3>1
    <3> QED BY <1>1, <3>2 DEF BookPosts, PageTypes
  <2>5. PICK o : o = q
    OBVIOUS
  <2> HIDE DEF q
  <2>6. /\ {o} \subseteq All /\ posts' = posts \cup {o}
        /\ \A m \in {o} : m.stored = FALSE
        /\ \A m, l \in {o} : l = m
        /\ \A m \in {o}, l \in posts : m.what = "favorite" => l.what # "favorite"
        /\ missed' = {} => missed = {}
    BY <2>1, <2>2, <2>3, <2>4, <2>5
  <2> QED BY <2>2, <2>6, PagePostsOne
<1>8. CASE \E s \in Page!Status : Page!ToggleWatchStatus(s)
  <2>1. PICK s \in Page!Status : Page!ToggleWatchStatus(s)
    BY <1>8
  <2> DEFINE q == [what |-> "status", status |-> s, of |-> card, by |-> profile, stored |-> FALSE]
  <2>2. Same /\ missed' = missed /\ confirm' \subseteq Page!Dialogs /\ posts' = posts \cup {q}
    BY <1>1, <2>1 DEF Page!ToggleWatchStatus, Page!server, Page!screen, PageTypes
  <2>3. q \in StatusPosts /\ q.stored = FALSE /\ q.what = "status"
    BY <1>1 DEF StatusPosts, PageTypes
  <2>5. PICK o : o = q
    OBVIOUS
  <2> HIDE DEF q
  <2>6. /\ {o} \subseteq All /\ posts' = posts \cup {o}
        /\ \A m \in {o} : m.stored = FALSE
        /\ \A m, l \in {o} : l = m
        /\ \A m \in {o}, l \in posts : m.what = "favorite" => l.what # "favorite"
        /\ missed' = {} => missed = {}
    BY <2>2, <2>3, <2>5
  <2> QED BY <2>2, <2>6, PagePostsOne
<1>9. CASE \E d \in confirm : Page!Confirmed(d)
  <2>1. PICK d \in confirm : Page!Confirmed(d)
    BY <1>9
  <2> DEFINE R == {x \in Page!Episode : d.unmark # {} /\ x > (CHOOSE e \in d.unmark : TRUE) /\ Page!EpIsWatched(x)}
             then == IF d.then THEN Page!Dialog({}, R, FALSE) ELSE {}
             q == [what |-> "marks", mark |-> d.mark, unmark |-> d.unmark, wipe |-> d.wipe, then |-> then,
                   of |-> card, by |-> d.by, stored |-> FALSE]
  <2>2. Same /\ confirm' = {} /\ (missed' = {} => missed = {})
    BY <2>1 DEF Page!Confirmed, Page!server, Page!screen, Page!Missed
  <2>3. posts' = posts \cup {q}
    BY <2>1 DEF Page!Confirmed
  <2>4. R \in SUBSET Page!Episode
    OBVIOUS
  <2> HIDE DEF R
  <2>5. then \in SUBSET Page!Dialogs
    BY <1>1, <2>4, PageDialog
  <2> HIDE DEF then
  <2>6. q \in MarksPosts /\ q.stored = FALSE /\ q.what = "marks"
    BY <1>1, <2>5 DEF PageTypes, MarksPosts, Page!Dialogs
  <2> HIDE DEF q
  <2> QED BY <1>b, <2>2, <2>3, <2>6
<1>10. CASE Page!Dismissed
  <2>2. Same /\ missed' = missed /\ posts' = posts /\ confirm' \subseteq Page!Dialogs
    BY <1>10 DEF Page!Dismissed, Page!server, Page!screen
  <2> QED BY <1>c, <2>2
<1> QED BY <1>2, <1>3, <1>4, <1>5, <1>6, <1>7, <1>8, <1>9, <1>10 DEF Page!Clicks

\* A status that is set while nothing about it is on its way crosses nothing.
LEMMA PageSets ==
    ASSUME PageTypes, StatusesTrue, NEW c \in Card, NEW p \in Profile, NEW s \in Page!Status, ~Page!Crosses(c, p),
           status' = [status EXCEPT ![p][c] = s]
    PROVE  /\ status' \in [Profile -> [Card -> Page!Status]]
           /\ \A x \in Profile, y \in Card : status'[x][y] = IF x = p /\ y = c THEN s ELSE status[x][y]
           /\ \A r \in reqs : r.what = "status" /\ r.got = TRUE => r.status = status'[r.by][r.of]
           /\ \A i \in DOMAIN feed : feed[i].type = "status" => feed[i].status = status'[profile][feed[i].of]
           /\ \A q \in posts : q.what = "status" /\ q.stored = TRUE => q.status = status'[q.by][q.of]
<1>1. /\ status' \in [Profile -> [Card -> Page!Status]]
      /\ \A x \in Profile, y \in Card : status'[x][y] = IF x = p /\ y = c THEN s ELSE status[x][y]
  BY DEF PageTypes
<1>2. \A r \in reqs : r.of \in Card /\ r.by \in Profile
  BY DEF PageTypes, PageReqs
<1>3. \A i \in DOMAIN feed : feed[i].of \in Card
  BY DEF PageTypes, PageNews
<1>4. \A q \in posts : q.of \in Card /\ q.by \in Profile
  BY PagePosts
<1>5. \A r \in reqs : r.what = "status" /\ r.got = TRUE => r.status = status'[r.by][r.of]
  BY <1>1, <1>2 DEF StatusesTrue, Page!Crosses
<1>6. \A i \in DOMAIN feed : feed[i].type = "status" => feed[i].status = status'[profile][feed[i].of]
  BY <1>1, <1>3 DEF StatusesTrue, Page!Crosses, PageTypes
<1>7. \A q \in posts : q.what = "status" /\ q.stored = TRUE => q.status = status'[q.by][q.of]
  BY <1>1, <1>4 DEF StatusesTrue, Page!Crosses
<1> QED BY <1>1, <1>5, <1>6, <1>7

LEMMA PageStoresMarks == ASSUME PageInv, NEW q \in posts, Page!StoreMarks(q) PROVE PageInv'
<1>1. PageTypes /\ q \in MarksPosts /\ q.of \in Card /\ q.by \in Profile /\ q.stored = FALSE /\ q.what = "marks"
  BY PagePosts DEF PageInv, Page!StoreMarks
<1>2. /\ UNCHANGED <<book, card, profile, shown, confirm, timecodes, watchStatus, isFavorite, reqs>>
  BY DEF Page!StoreMarks, Page!screen
<1> DEFINE n == [q EXCEPT !.stored = TRUE]
<1>3. /\ posts' = (posts \ {q}) \cup {n}
      /\ n \in MarksPosts /\ n.what = "marks" /\ n.of = q.of /\ n.by = q.by /\ n.stored = TRUE
  BY <1>1 DEF Page!StoreMarks, MarksPosts
<1> HIDE DEF n
<1>4. marks' \in [Profile -> [Card -> SUBSET Page!Episode]] /\ \A p \in Profile, c \in Card : c # q.of => marks'[p][c] = marks[p][c]
  <2>1. CASE q.wipe
    BY <1>1, <2>1 DEF Page!StoreMarks, PageTypes
  <2>2. CASE ~q.wipe
    <3>1. marks' = [marks EXCEPT ![q.by][q.of] = (@ \cup q.mark) \ q.unmark]
      BY <2>2 DEF Page!StoreMarks
    <3>2. q.mark \subseteq Page!Episode
      BY <1>1 DEF MarksPosts
    <3> QED BY <1>1, <3>1, <3>2 DEF PageTypes
  <2> QED BY <2>1, <2>2
<1> DEFINE implied == q.mark # {} /\ status[q.by][q.of] # "watching"
           m == [type |-> "status", of |-> q.of, status |-> "watching"]
<1>5. m \in PageNews /\ m.type = "status" /\ m.of = q.of /\ m.status = "watching" /\ "watching" \in Page!Status
  BY <1>1 DEF PageNews, Page!Status
<1>6. /\ missed' = {} => missed = {} /\ (implied => ~Page!Crosses(q.of, q.by))
      /\ implied => status' = [status EXCEPT ![q.by][q.of] = "watching"]
      /\ ~implied => status' = status /\ feed' = feed
      /\ implied /\ q.by # profile => feed' = feed
      /\ implied /\ q.by = profile => feed' = Append(feed, m)
  BY DEF Page!StoreMarks, Page!Told, Page!Missed
<1> HIDE DEF m, implied
<1>7. feed \in Seq(PageNews)
  BY <1>1 DEF PageTypes
<1>8. \/ feed' = feed
      \/ /\ implied /\ q.by = profile
         /\ feed' \in Seq(PageNews) /\ DOMAIN feed' = DOMAIN feed \cup {Len(feed) + 1}
         /\ feed'[Len(feed) + 1] = m
         /\ \A i \in DOMAIN feed : feed'[i] = feed[i]
  <2>1. CASE implied /\ q.by = profile
    <3>1. feed' = Append(feed, m)
      BY <1>6, <2>1
    <3>2. /\ Append(feed, m) \in Seq(PageNews) /\ Len(feed) \in Nat
          /\ DOMAIN feed = 1..Len(feed) /\ DOMAIN Append(feed, m) = 1..Len(feed) + 1
          /\ Append(feed, m)[Len(feed) + 1] = m
          /\ \A i \in 1..Len(feed) : Append(feed, m)[i] = feed[i]
      BY <1>5, <1>7, QueueAppend
    <3>3. 1..Len(feed) + 1 = 1..Len(feed) \cup {Len(feed) + 1}
      BY <3>2
    <3> QED BY <2>1, <3>1, <3>2, <3>3
  <2>2. CASE ~(implied /\ q.by = profile)
    BY <1>6, <2>2
  <2> QED BY <2>1, <2>2
<1>9. PageTypes'
  <2>1. status' \in [Profile -> [Card -> Page!Status]]
    <3>1. status \in [Profile -> [Card -> Page!Status]]
      BY <1>1 DEF PageTypes
    <3>2. [status EXCEPT ![q.by][q.of] = "watching"] \in [Profile -> [Card -> Page!Status]]
      BY <1>1, <1>5, <3>1
    <3> QED BY <1>6, <3>1, <3>2
  <2>2. feed' \in Seq(PageNews)
    BY <1>7, <1>8
  <2> QED BY <1>1, <1>2, <1>3, <1>4, <2>1, <2>2 DEF PageTypes
<1>10. ASSUME missed' = {} PROVE PageTrue'
  <2>1. PageTrue /\ (implied => ~Page!Crosses(q.of, q.by))
    BY <1>6, <1>10 DEF PageInv
  <2>2. CardComes'
    BY <1>2, <2>1 DEF CardComes, PageTrue
  <2>0. /\ \A r \in reqs : r.what = "status" /\ r.got = TRUE => r.status = status'[r.by][r.of]
        /\ \A i \in DOMAIN feed : feed[i].type = "status" => feed[i].status = status'[profile][feed[i].of]
        /\ \A o \in posts : o.what = "status" /\ o.stored = TRUE => o.status = status'[o.by][o.of]
        /\ implied => status'[q.by][q.of] = "watching"
        /\ \A x \in Profile, y \in Card : status'[x][y] # status[x][y] => implied /\ x = q.by /\ y = q.of
    <3>1. CASE implied
      <4>1. status' = [status EXCEPT ![q.by][q.of] = "watching"] /\ ~Page!Crosses(q.of, q.by) /\ StatusesTrue
        BY <1>6, <2>1, <3>1 DEF PageTrue
      <4>2. /\ \A x \in Profile, y \in Card :
                  status'[x][y] = IF x = q.by /\ y = q.of THEN "watching" ELSE status[x][y]
            /\ \A r \in reqs : r.what = "status" /\ r.got = TRUE => r.status = status'[r.by][r.of]
            /\ \A i \in DOMAIN feed : feed[i].type = "status" => feed[i].status = status'[profile][feed[i].of]
            /\ \A o \in posts : o.what = "status" /\ o.stored = TRUE => o.status = status'[o.by][o.of]
        BY <1>1, <1>5, <4>1, PageSets
      <4> QED BY <1>1, <3>1, <4>2
    <3>2. CASE ~implied
      BY <1>6, <2>1, <3>2 DEF PageTrue, StatusesTrue
    <3> QED BY <3>1, <3>2
  <2>3. MarksCome'
    <3>1. CASE q.of = card
      BY <1>2, <1>3, <2>1, <3>1 DEF MarksCome, PageTrue, Refresh, Newest
    <3>2. CASE q.of # card
      <4>1. PageMarks' = PageMarks
        BY <1>1, <1>2, <1>4, <3>2 DEF PageMarks, PageTypes
      <4>2. Refresh => Refresh'
        BY <1>1, <1>2, <1>3, <1>8 DEF Refresh
      <4> QED BY <1>2, <2>1, <4>1, <4>2 DEF MarksCome, PageTrue, Newest
    <3> QED BY <3>1, <3>2
  <2>4. StatusesTrue'
    <3>1. \A o \in posts' : o.what = "status" => o \in posts
      BY <1>3
    <3>2. \A i \in DOMAIN feed' : feed'[i].type = "status" => feed'[i].status = status'[profile][feed'[i].of]
      BY <1>5, <1>8, <2>0
    <3> QED BY <1>2, <2>0, <3>1, <3>2 DEF StatusesTrue
  <2>5. StatusComes'
    <3>1. CASE status'[profile][card] = status[profile][card]
      <4>1. \A o \in posts : o.what = "status" => o \in posts'
        BY <1>1, <1>3
      <4>2. \A i \in DOMAIN feed : i \in DOMAIN feed' /\ feed'[i] = feed[i]
        BY <1>8
      <4> QED BY <1>2, <2>1, <3>1, <4>1, <4>2 DEF StatusComes, PageTrue
    <3>2. CASE status'[profile][card] # status[profile][card]
      <4>1. implied /\ q.by = profile /\ q.of = card
        BY <1>1, <2>0, <3>2 DEF PageTypes
      <4>2. feed' = Append(feed, m)
        BY <1>6, <4>1
      <4>3. DOMAIN feed' = DOMAIN feed \cup {Len(feed) + 1} /\ feed'[Len(feed) + 1] = m
        BY <1>5, <1>7, <4>2, QueueAppend
      <4> QED BY <1>2, <1>5, <4>1, <4>3 DEF StatusComes
    <3> QED BY <3>1, <3>2
  <2>6. FavouritesTrue'
    BY <1>2, <1>3, <2>1 DEF FavouritesTrue, PageTrue
  <2>7. FavouriteComes'
    BY <1>1, <1>2, <1>3, <2>1 DEF FavouriteComes, PageTrue
  <2> QED BY <2>2, <2>3, <2>4, <2>5, <2>6, <2>7 DEF PageTrue
<1> QED BY <1>9, <1>10 DEF PageInv

LEMMA PageMarksStored == ASSUME PageInv, NEW q \in posts, Page!MarksStored(q) PROVE PageInv'
<1>1. PageTypes /\ q \in MarksPosts /\ q.of \in Card /\ q.by \in Profile /\ q.then \subseteq Page!Dialogs
  <2>1. PageTypes /\ q \in MarksPosts /\ q.of \in Card /\ q.by \in Profile
    BY PagePosts DEF PageInv, Page!MarksStored
  <2> QED BY <2>1 DEF MarksPosts
<1>2. /\ UNCHANGED <<marks, status, book, card, profile, shown, watchStatus, isFavorite, feed>>
      /\ q.what = "marks" /\ posts' = posts \ {q}
      /\ confirm' \subseteq Page!Dialogs
      /\ q.wipe => timecodes' = Page!NoMarks
      /\ ~q.wipe => timecodes' = timecodes
      /\ missed' = {} => /\ missed = {} /\ q.of = card /\ q.by = profile
                         /\ q.wipe => \A r \in reqs : r.what = "timecodes" => ~r.got
                         /\ q.wipe => \A p \in Profile : marks[p][q.of] = {}
  BY <1>1 DEF Page!MarksStored, Page!server, Page!Missed, PageTypes
<1> DEFINE L == Page!LoadTimecodes(reqs, q.of)
           s == Page!Ask("status", q.of, q.by, FALSE)
<1>3. Asked(s, "status", q.of, q.by)
  BY <1>1, PageAsk
<1>4. /\ L \subseteq PageReqs
      /\ \A r \in reqs : r.what # "timecodes" => r \in L
      /\ \A r \in L : \/ r.what # "timecodes" /\ r \in reqs
                      \/ r.what = "timecodes" /\ (r.newest = FALSE \/ (r.of = q.of /\ r.got = FALSE))
      /\ \E r \in L : Newest(r) /\ r.of = q.of /\ r.got = FALSE
  <2>1. reqs \in SUBSET PageReqs
    BY <1>1 DEF PageTypes
  <2> QED BY <1>1, <2>1, PageLoad
<1>5. PICK S : S \subseteq {s} /\ reqs' = (IF q.wipe THEN reqs ELSE L) \cup S
  BY DEF Page!MarksStored
<1> HIDE DEF L, s
<1>6. PageTypes'
  BY <1>1, <1>2, <1>3, <1>4, <1>5 DEF PageTypes, Asked
<1>7. ASSUME missed' = {} PROVE PageTrue'
  <2>1. PageTrue /\ q.of = card /\ q.by = profile
    BY <1>2, <1>7 DEF PageInv
  <2>0. /\ \A r \in reqs : r.what # "timecodes" => r \in reqs'
        /\ \A r \in reqs' : r.what # "timecodes" => r \in reqs \/ r = s
    BY <1>4, <1>5
  <2>2. CardComes'
    BY <1>2, <2>0, <2>1 DEF CardComes, PageTrue
  <2>3. MarksCome'
    <3>1. CASE q.wipe
      <4>1. PageMarks = Page!NoMarks
        BY <1>1, <1>2, <1>7, <2>1, <3>1 DEF PageMarks, Page!NoMarks
      <4>2. \A r \in reqs' : Newest(r) => r \in reqs /\ ~r.got
        BY <1>2, <1>3, <1>5, <1>7, <3>1 DEF Newest, Asked
      <4> QED BY <1>2, <2>1, <3>1, <4>1, <4>2 DEF MarksCome, PageTrue, PageMarks, Newest
    <3>2. CASE ~q.wipe
      <4>1. \A r \in reqs' : Newest(r) => r.of = card /\ r.got = FALSE
        BY <1>3, <1>4, <1>5, <2>1, <3>2 DEF Newest, Asked
      <4>2. \E r \in reqs' : Newest(r)
        BY <1>4, <1>5, <3>2
      <4> QED BY <1>2, <4>1, <4>2 DEF MarksCome
    <3> QED BY <3>1, <3>2
  <2>4. StatusesTrue'
    BY <1>2, <1>3, <2>0, <2>1 DEF StatusesTrue, PageTrue, Asked
  <2>5. StatusComes'
    BY <1>2, <1>3, <2>0, <2>1 DEF StatusComes, PageTrue, Asked
  <2>6. FavouritesTrue'
    BY <1>2, <1>3, <2>0, <2>1 DEF FavouritesTrue, PageTrue, Asked
  <2>7. FavouriteComes'
    BY <1>2, <1>3, <2>0, <2>1 DEF FavouriteComes, PageTrue, Asked
  <2> QED BY <2>2, <2>3, <2>4, <2>5, <2>6, <2>7 DEF PageTrue
<1> QED BY <1>6, <1>7 DEF PageInv

LEMMA PageStoresStatus == ASSUME PageInv, NEW q \in posts, Page!StoreStatus(q) PROVE PageInv'
<1>1. PageTypes /\ q \in StatusPosts /\ q.of \in Card /\ q.by \in Profile /\ q.stored = FALSE /\ q.what = "status"
  BY PagePosts DEF PageInv, Page!StoreStatus
<1>0. q.status \in Page!Status
  BY <1>1 DEF StatusPosts
<1>2. /\ UNCHANGED <<marks, book, card, profile, shown, confirm, timecodes, watchStatus, isFavorite, reqs, feed>>
      /\ status' = [status EXCEPT ![q.by][q.of] = q.status]
      /\ missed' = {} => missed = {} /\ ~Page!Crosses(q.of, q.by)
  BY DEF Page!StoreStatus, Page!screen, Page!Missed
<1> DEFINE n == [q EXCEPT !.stored = TRUE]
<1>3. /\ posts' = (posts \ {q}) \cup {n}
      /\ n \in StatusPosts /\ n.what = "status" /\ n.of = q.of /\ n.by = q.by /\ n.stored = TRUE /\ n.status = q.status
  BY <1>1 DEF Page!StoreStatus, StatusPosts
<1> HIDE DEF n
<1>4. status' \in [Profile -> [Card -> Page!Status]]
  BY <1>0, <1>1, <1>2 DEF PageTypes
<1>5. PageTypes'
  BY <1>1, <1>2, <1>3, <1>4 DEF PageTypes
<1>6. ASSUME missed' = {} PROVE PageTrue'
  <2>1. PageTrue /\ ~Page!Crosses(q.of, q.by) /\ StatusesTrue
    BY <1>2, <1>6 DEF PageInv, PageTrue
  <2>0. /\ \A x \in Profile, y \in Card :
             status'[x][y] = IF x = q.by /\ y = q.of THEN q.status ELSE status[x][y]
        /\ \A r \in reqs : r.what = "status" /\ r.got = TRUE => r.status = status'[r.by][r.of]
        /\ \A i \in DOMAIN feed : feed[i].type = "status" => feed[i].status = status'[profile][feed[i].of]
        /\ \A o \in posts : o.what = "status" /\ o.stored = TRUE => o.status = status'[o.by][o.of]
    BY <1>0, <1>1, <1>2, <2>1, PageSets
  <2>2. CardComes'
    BY <1>2, <2>1 DEF CardComes, PageTrue
  <2>3. MarksCome'
    BY <1>1, <1>2, <1>3, <2>1 DEF MarksCome, PageTrue, PageMarks, Refresh, Newest
  <2>4. StatusesTrue'
    BY <1>1, <1>2, <1>3, <2>0 DEF StatusesTrue
  <2>5. StatusComes'
    <3>1. CASE q.by = profile /\ q.of = card
      BY <1>2, <1>3, <3>1 DEF StatusComes
    <3>2. CASE ~(q.by = profile /\ q.of = card)
      <4>1. status'[profile][card] = status[profile][card]
        BY <1>1, <2>0, <3>2 DEF PageTypes
      <4> QED BY <1>1, <1>2, <1>3, <2>1, <4>1 DEF StatusComes, PageTrue
    <3> QED BY <3>1, <3>2
  <2>6. FavouritesTrue'
    BY <1>2, <1>3, <2>1 DEF FavouritesTrue, PageTrue
  <2>7. FavouriteComes'
    BY <1>1, <1>2, <1>3, <2>1 DEF FavouriteComes, PageTrue
  <2> QED BY <2>2, <2>3, <2>4, <2>5, <2>6, <2>7 DEF PageTrue
<1> QED BY <1>5, <1>6 DEF PageInv

\* What was stored of the status or of the favourites is shown.
LEMMA PageShowsStored == ASSUME PageInv, NEW q \in posts, Page!StatusStored(q) \/ Page!BookStored(q) PROVE PageInv'
<1>1. PageTypes
  BY DEF PageInv
<1>2. /\ UNCHANGED <<marks, status, book, card, profile, shown, confirm, timecodes, reqs, feed>>
      /\ posts' = posts \ {q} /\ q.stored = TRUE /\ q.what \in {"status", "favorite"}
      /\ q.what = "status" => watchStatus' = q.status /\ isFavorite' = isFavorite
      /\ q.what = "favorite" => watchStatus' = watchStatus /\ isFavorite' = q.liked
      /\ missed' = {} => missed = {} /\ q.of = card /\ q.by = profile
  BY <1>1, PagePosts DEF Page!StatusStored, Page!BookStored, Page!server, Page!Missed
<1>3. q.what = "favorite" => q.liked \in BOOLEAN
  BY <1>1, PagePosts DEF BookPosts
<1>4. isFavorite' \in BOOLEAN
  BY <1>1, <1>2, <1>3 DEF PageTypes
<1>5. PageTypes'
  BY <1>1, <1>2, <1>4 DEF PageTypes
<1>6. ASSUME missed' = {} PROVE PageTrue'
  <2>1. PageTrue
    BY <1>2, <1>6 DEF PageInv
  <2>2. CardComes'
    BY <1>2, <2>1 DEF CardComes, PageTrue
  <2>3. MarksCome'
    BY <1>2, <2>1 DEF MarksCome, PageTrue, PageMarks, Refresh, Newest
  <2>4. StatusesTrue' /\ FavouritesTrue'
    BY <1>2, <2>1 DEF StatusesTrue, FavouritesTrue, PageTrue
  <2>5. StatusComes'
    <3>1. CASE q.what = "status"
      BY <1>2, <1>6, <2>1, <3>1 DEF StatusComes, StatusesTrue, PageTrue
    <3>2. CASE q.what = "favorite"
      BY <1>2, <2>1, <3>2 DEF StatusComes, PageTrue
    <3> QED BY <1>2, <3>1, <3>2
  <2>6. FavouriteComes'
    <3>1. CASE q.what = "favorite"
      BY <1>2, <1>6, <2>1, <3>1 DEF FavouriteComes, FavouritesTrue, PageTrue
    <3>2. CASE q.what = "status"
      BY <1>2, <2>1, <3>2 DEF FavouriteComes, PageTrue
    <3> QED BY <1>2, <3>1, <3>2
  <2> QED BY <2>2, <2>3, <2>4, <2>5, <2>6 DEF PageTrue
<1> QED BY <1>5, <1>6 DEF PageInv

LEMMA PageReadsBook == ASSUME PageInv, NEW q \in posts, Page!ReadBook(q) PROVE PageInv'
<1>1. PageTypes /\ q \in BookPosts /\ q.by \in Profile
  BY PagePosts DEF PageInv, Page!ReadBook
<1>2. /\ UNCHANGED <<marks, status, book, card, profile, shown, confirm, timecodes, watchStatus, isFavorite, reqs, feed, missed>>
      /\ q.what = "favorite"
  BY DEF Page!ReadBook, Page!server, Page!screen
<1> DEFINE n == [q EXCEPT !.read = {book[q.by]}]
<1>3. /\ posts' = (posts \ {q}) \cup {n}
      /\ n \in BookPosts /\ n.what = "favorite" /\ n.of = q.of /\ n.by = q.by /\ n.stored = q.stored /\ n.liked = q.liked
  BY <1>1 DEF Page!ReadBook, BookPosts, PageTypes
<1> HIDE DEF n
<1>4. PageTypes'
  BY <1>1, <1>2, <1>3 DEF PageTypes
<1>5. ASSUME missed' = {} PROVE PageTrue'
  <2>1. PageTrue
    BY <1>2, <1>5 DEF PageInv
  <2>2. CardComes' /\ MarksCome'
    BY <1>2, <1>3, <2>1 DEF CardComes, MarksCome, PageTrue, PageMarks, Refresh, Newest
  <2>3. StatusesTrue' /\ StatusComes'
    BY <1>2, <1>3, <2>1 DEF StatusesTrue, StatusComes, PageTrue
  <2>4. FavouritesTrue'
    BY <1>2, <1>3, <2>1 DEF FavouritesTrue, PageTrue
  <2>5. FavouriteComes'
    BY <1>2, <1>3, <2>1 DEF FavouriteComes, PageTrue
  <2> QED BY <2>2, <2>3, <2>4, <2>5 DEF PageTrue
<1> QED BY <1>4, <1>5 DEF PageInv

LEMMA PageStoresBook == ASSUME PageInv, NEW q \in posts, Page!StoreBook(q) PROVE PageInv'
<1>1. PageTypes /\ q \in BookPosts /\ q.of \in Card /\ q.by \in Profile /\ q.stored = FALSE /\ q.what = "favorite"
  BY PagePosts DEF PageInv, Page!StoreBook
<1>2. /\ UNCHANGED <<marks, status, card, profile, shown, confirm, timecodes, watchStatus, isFavorite, reqs, feed>>
      /\ missed' = {} => /\ missed = {} /\ q.read = {book[q.by]}
                         /\ \A r \in reqs : r.what = "favorite" => ~r.got
  BY DEF Page!StoreBook, Page!screen, Page!Missed
<1> DEFINE n == [q EXCEPT !.stored = TRUE]
           was == CHOOSE b \in q.read : TRUE
<1>3. /\ posts' = (posts \ {q}) \cup {n}
      /\ n \in BookPosts /\ n.what = "favorite" /\ n.of = q.of /\ n.by = q.by /\ n.stored = TRUE /\ n.liked = q.liked
  BY <1>1 DEF Page!StoreBook, BookPosts
<1>4. was \in SUBSET Card
  BY <1>1 DEF Page!StoreBook, BookPosts
<1>5. book' = [book EXCEPT ![q.by] = IF q.liked THEN was \cup {q.of} ELSE was \ {q.of}]
  BY DEF Page!StoreBook
<1>6. q.read = {book[q.by]} => was = book[q.by]
  OBVIOUS
<1> HIDE DEF n, was
<1>7. /\ book' \in [Profile -> SUBSET Card]
      /\ \A p \in Profile : p # q.by => book'[p] = book[p]
      /\ book'[q.by] = IF q.liked THEN was \cup {q.of} ELSE was \ {q.of}
  BY <1>1, <1>4, <1>5 DEF PageTypes
<1>8. PageTypes'
  BY <1>1, <1>2, <1>3, <1>7 DEF PageTypes
<1>9. ASSUME missed' = {} PROVE PageTrue'
  <2>1. PageTrue /\ was = book[q.by]
    BY <1>2, <1>6, <1>9 DEF PageInv
  <2>2. CardComes' /\ MarksCome'
    BY <1>1, <1>2, <1>3, <2>1 DEF CardComes, MarksCome, PageTrue, PageMarks, Refresh, Newest
  <2>3. StatusesTrue' /\ StatusComes'
    BY <1>1, <1>2, <1>3, <2>1 DEF StatusesTrue, StatusComes, PageTrue
  <2>4. FavouritesTrue'
    <3>1. \A o \in posts' : o.what = "favorite" => o = n
      BY <1>1, <1>3, <2>1 DEF FavouritesTrue, PageTrue
    <3>2. q.of \in book'[q.by] <=> q.liked = TRUE
      BY <1>1, <1>7 DEF BookPosts
    <3>3. \A r \in reqs : r.what = "favorite" => r.got # TRUE
      BY <1>2, <1>9
    <3> QED BY <1>2, <1>3, <3>1, <3>2, <3>3 DEF FavouritesTrue
  <2>5. FavouriteComes'
    <3>1. CASE q.of = card /\ q.by = profile
      BY <1>2, <1>3, <3>1 DEF FavouriteComes
    <3>2. CASE ~(q.of = card /\ q.by = profile)
      <4>1. card \in book'[profile] <=> card \in book[profile]
        BY <1>1, <1>7, <2>1, <3>2 DEF PageTypes
      <4>2. \A o \in posts \ {q} : o \in posts'
        BY <1>3
      <4> QED BY <1>1, <1>2, <2>1, <4>1, <4>2 DEF FavouriteComes, PageTrue
    <3> QED BY <3>1, <3>2
  <2> QED BY <2>2, <2>3, <2>4, <2>5 DEF PageTrue
<1> QED BY <1>8, <1>9 DEF PageInv

LEMMA PageMarkedElsewhere == ASSUME PageInv, NEW c \in Card, NEW e \in Page!Episode, Page!MarkedElsewhere(c, e) PROVE PageInv'
<1>1. PageTypes /\ feed \in Seq(PageNews)
  BY DEF PageInv, PageTypes
<1> DEFINE m == [type |-> "timecode", of |-> c]
<1>2. /\ UNCHANGED <<status, book, card, profile, shown, posts, confirm, timecodes, watchStatus, isFavorite, reqs, missed>>
      /\ feed' = Append(feed, m)
  BY DEF Page!MarkedElsewhere, Page!screen
<1>3. m \in PageNews /\ m.type = "timecode" /\ m.of = c
  BY DEF PageNews
<1> HIDE DEF m
<1>4. /\ feed' \in Seq(PageNews) /\ Len(feed) \in Nat /\ DOMAIN feed = 1..Len(feed)
      /\ DOMAIN feed' = 1..Len(feed) + 1
      /\ feed'[Len(feed) + 1] = m
      /\ \A i \in 1..Len(feed) : feed'[i] = feed[i]
  BY <1>1, <1>2, <1>3, QueueAppend
<1>5. marks' \in [Profile -> [Card -> SUBSET Page!Episode]] /\ \A p \in Profile, d \in Card : d # c => marks'[p][d] = marks[p][d]
  <2>1. marks' = [marks EXCEPT ![profile][c] = IF e \in @ THEN @ \ {e} ELSE @ \cup {e}]
    BY DEF Page!MarkedElsewhere
  <2> QED BY <1>1, <2>1 DEF PageTypes
<1>6. PageTypes'
  BY <1>1, <1>2, <1>4, <1>5 DEF PageTypes
<1>7. ASSUME missed' = {} PROVE PageTrue'
  <2>1. PageTrue
    BY <1>2, <1>7 DEF PageInv
  <2>2. CardComes' /\ FavouriteComes' /\ FavouritesTrue'
    BY <1>2, <2>1 DEF CardComes, PageTrue, FavouriteComes, FavouritesTrue
  <2>3. StatusesTrue' /\ StatusComes'
    BY <1>2, <1>3, <1>4, <2>1 DEF StatusesTrue, StatusComes, PageTrue
  <2>4. MarksCome'
    <3>1. CASE c = card
      BY <1>2, <1>3, <1>4, <2>1, <3>1 DEF MarksCome, PageTrue, Refresh, Newest
    <3>2. CASE c # card
      <4>1. PageMarks' = PageMarks
        BY <1>1, <1>2, <1>5, <3>2 DEF PageMarks, PageTypes
      <4>2. Refresh => Refresh'
        BY <1>2, <1>4 DEF Refresh
      <4> QED BY <1>2, <2>1, <4>1, <4>2 DEF MarksCome, PageTrue, Newest
    <3> QED BY <3>1, <3>2
  <2> QED BY <2>2, <2>3, <2>4 DEF PageTrue
<1> QED BY <1>6, <1>7 DEF PageInv

LEMMA PageStatusElsewhere == ASSUME PageInv, NEW c \in Card, NEW s \in Page!Status, Page!StatusElsewhere(c, s) PROVE PageInv'
<1>1. PageTypes /\ feed \in Seq(PageNews) /\ profile \in Profile
  BY DEF PageInv, PageTypes
<1> DEFINE m == [type |-> "status", of |-> c, status |-> s]
<1>2. /\ UNCHANGED <<marks, book, card, profile, shown, posts, confirm, timecodes, watchStatus, isFavorite, reqs>>
      /\ feed' = Append(feed, m)
      /\ status' = [status EXCEPT ![profile][c] = s]
      /\ missed' = {} => missed = {} /\ ~Page!Crosses(c, profile)
  BY DEF Page!StatusElsewhere, Page!screen, Page!Missed
<1>3. m \in PageNews /\ m.type = "status" /\ m.of = c /\ m.status = s
  BY DEF PageNews
<1> HIDE DEF m
<1>4. /\ feed' \in Seq(PageNews) /\ Len(feed) \in Nat /\ DOMAIN feed = 1..Len(feed)
      /\ DOMAIN feed' = 1..Len(feed) + 1
      /\ feed'[Len(feed) + 1] = m
      /\ \A i \in 1..Len(feed) : feed'[i] = feed[i]
  BY <1>1, <1>2, <1>3, QueueAppend
<1>5. status' \in [Profile -> [Card -> Page!Status]]
  BY <1>1, <1>2 DEF PageTypes
<1>6. PageTypes'
  BY <1>1, <1>2, <1>4, <1>5 DEF PageTypes
<1>7. ASSUME missed' = {} PROVE PageTrue'
  <2>1. PageTrue /\ ~Page!Crosses(c, profile) /\ StatusesTrue
    BY <1>2, <1>7 DEF PageInv, PageTrue
  <2>0. /\ \A x \in Profile, y \in Card :
             status'[x][y] = IF x = profile /\ y = c THEN s ELSE status[x][y]
        /\ \A r \in reqs : r.what = "status" /\ r.got = TRUE => r.status = status'[r.by][r.of]
        /\ \A i \in DOMAIN feed : feed[i].type = "status" => feed[i].status = status'[profile][feed[i].of]
        /\ \A o \in posts : o.what = "status" /\ o.stored = TRUE => o.status = status'[o.by][o.of]
    BY <1>1, <1>2, <2>1, PageSets
  <2>2. CardComes' /\ FavouriteComes' /\ FavouritesTrue'
    BY <1>2, <2>1 DEF CardComes, PageTrue, FavouriteComes, FavouritesTrue
  <2>3. StatusesTrue'
    <3>1. \A i \in DOMAIN feed' : feed'[i].type = "status" => feed'[i].status = status'[profile][feed'[i].of]
      BY <1>1, <1>3, <1>4, <2>0
    <3> QED BY <1>2, <2>0, <3>1 DEF StatusesTrue
  <2>4. StatusComes'
    <3>1. CASE c = card
      BY <1>2, <1>3, <1>4, <3>1 DEF StatusComes
    <3>2. CASE c # card
      <4>1. status'[profile][card] = status[profile][card]
        BY <1>1, <2>0, <3>2 DEF PageTypes
      <4> QED BY <1>2, <1>4, <2>1, <4>1 DEF StatusComes, PageTrue
    <3> QED BY <3>1, <3>2
  <2>5. MarksCome'
    <3>1. Refresh => Refresh'
      BY <1>2, <1>4 DEF Refresh
    <3> QED BY <1>2, <2>1, <3>1 DEF MarksCome, PageTrue, PageMarks, Newest
  <2> QED BY <2>2, <2>3, <2>4, <2>5 DEF PageTrue
<1> QED BY <1>6, <1>7 DEF PageInv

LEMMA PageMessage == ASSUME PageInv, Page!Message PROVE PageInv'
<1>1. PageTypes /\ feed \in Seq(PageNews) /\ feed # <<>>
  BY DEF PageInv, PageTypes, Page!Message
<1> DEFINE m == Head(feed)
           L == Page!LoadTimecodes(reqs, card)
           ours == m.type = "timecode" /\ m.of = card
<1>2. /\ UNCHANGED <<marks, status, book, card, profile, shown, posts, confirm, timecodes, isFavorite, missed>>
      /\ feed' = Tail(feed)
      /\ watchStatus' = IF m.type = "status" /\ m.of = card THEN m.status ELSE watchStatus
      /\ reqs' = IF ours THEN L ELSE reqs
  BY DEF Page!Message, Page!server
<1>3. /\ L \subseteq PageReqs
      /\ \A r \in reqs : r.what # "timecodes" => r \in L
      /\ \A r \in L : \/ r.what # "timecodes" /\ r \in reqs
                      \/ r.what = "timecodes" /\ (r.newest = FALSE \/ (r.of = card /\ r.got = FALSE))
      /\ \E r \in L : Newest(r) /\ r.of = card /\ r.got = FALSE
  <2>1. reqs \in SUBSET PageReqs /\ card \in Card
    BY <1>1 DEF PageTypes
  <2> QED BY <1>1, <2>1, PageLoad
<1> HIDE DEF L
<1>4. /\ feed' \in Seq(PageNews) /\ Len(feed) \in Nat \ {0} /\ DOMAIN feed = 1..Len(feed)
      /\ DOMAIN feed' = 1..Len(feed) - 1
      /\ m = feed[1]
      /\ \A i \in 1..Len(feed) - 1 : feed'[i] = feed[i + 1]
  BY <1>1, <1>2, QueueTail
<1> HIDE DEF m
<1>5. PageTypes'
  BY <1>1, <1>2, <1>3, <1>4 DEF PageTypes
<1>6. ASSUME missed' = {} PROVE PageTrue'
  <2>1. PageTrue
    BY <1>2, <1>6 DEF PageInv
  <2>0. /\ \A r \in reqs : r.what # "timecodes" => r \in reqs'
        /\ \A r \in reqs' : r.what # "timecodes" => r \in reqs
    BY <1>2, <1>3
  <2>9. \A i \in 2..Len(feed) : feed[i] = feed'[i - 1] /\ i - 1 \in DOMAIN feed'
    BY <1>4
  <2>8. \A i \in DOMAIN feed : i = 1 \/ i \in 2..Len(feed)
    BY <1>4
  <2>2. CardComes' /\ FavouriteComes' /\ FavouritesTrue'
    BY <1>2, <2>0, <2>1 DEF CardComes, PageTrue, FavouriteComes, FavouritesTrue
  <2>3. StatusesTrue'
    <3>1. \A i \in DOMAIN feed' : i + 1 \in DOMAIN feed /\ feed'[i] = feed[i + 1]
      BY <1>4
    <3> QED BY <1>2, <2>0, <2>1, <3>1 DEF StatusesTrue, PageTrue
  <2>4. StatusComes'
    <3>1. CASE m.type = "status" /\ m.of = card
      <4>1. 1 \in DOMAIN feed
        BY <1>4
      <4> QED BY <1>2, <1>4, <2>1, <3>1, <4>1 DEF StatusComes, StatusesTrue, PageTrue
    <3>2. CASE ~(m.type = "status" /\ m.of = card)
      <4>1. (\E i \in DOMAIN feed : feed[i].type = "status" /\ feed[i].of = card)
            => \E i \in DOMAIN feed' : feed'[i].type = "status" /\ feed'[i].of = card
        BY <1>4, <2>8, <2>9, <3>2
      <4> QED BY <1>2, <2>0, <2>1, <3>2, <4>1 DEF StatusComes, PageTrue
    <3> QED BY <3>1, <3>2
  <2>5. MarksCome'
    <3>1. CASE ours
      <4>1. \A r \in reqs' : Newest(r) => r.of = card /\ r.got = FALSE
        BY <1>2, <1>3, <3>1 DEF Newest
      <4>2. \E r \in reqs' : Newest(r)
        BY <1>2, <1>3, <3>1
      <4> QED BY <1>2, <4>1, <4>2 DEF MarksCome
    <3>2. CASE ~ours
      <4>1. (\E i \in DOMAIN feed : feed[i].type = "timecode" /\ feed[i].of = card)
            => \E i \in DOMAIN feed' : feed'[i].type = "timecode" /\ feed'[i].of = card
        BY <1>4, <2>8, <2>9, <3>2
      <4>2. Refresh => Refresh'
        BY <1>2, <4>1 DEF Refresh
      <4> QED BY <1>2, <2>1, <3>2, <4>2 DEF MarksCome, PageTrue, PageMarks, Newest
    <3> QED BY <3>1, <3>2
  <2> QED BY <2>2, <2>3, <2>4, <2>5 DEF PageTrue
<1> QED BY <1>5, <1>6 DEF PageInv

LEMMA PageKept == ASSUME PageInv, Page!Next \/ UNCHANGED Page!vars PROVE PageInv'
<1>1. CASE UNCHANGED Page!vars
  <2>1. UNCHANGED <<marks, status, book, card, profile, shown, confirm, timecodes, watchStatus, isFavorite, reqs, posts, feed, missed>>
    BY <1>1 DEF Page!vars, Page!server, Page!screen
  <2>2. PageTypes'
    BY <2>1 DEF PageInv, PageTypes
  <2>3. PageTrue => PageTrue'
    BY <2>1 DEF PageTrue, CardComes, MarksCome, StatusesTrue, StatusComes, FavouritesTrue,
       FavouriteComes,
       PageMarks, Refresh, Newest
  <2> QED BY <2>1, <2>2, <2>3 DEF PageInv
<1>2. CASE \E c \in Card : Page!Open(c)
  BY <1>2, PageOpened
<1>3. CASE \E p \in Profile : Page!SwitchProfile(p)
  BY <1>3, PageSwitches
<1>4. CASE Page!Answers
  BY <1>4, PageServes, PageGotCard, PageGotTimecodes, PageGotStatus, PageGotFavorite,
     PageEpisodes DEF Page!Answers
<1>5. CASE Page!Failures
  BY <1>5, PageFails, PageEpisodes DEF Page!Failures
<1>6. CASE Page!Clicks
  BY <1>6, PageClicked
<1>7. CASE Page!Stored
  BY <1>7, PageStoresMarks, PageMarksStored, PageStoresStatus, PageShowsStored, PageReadsBook,
     PageStoresBook DEF Page!Stored
<1>8. CASE Page!Elsewhere
  BY <1>8, PageMarkedElsewhere, PageStatusElsewhere, PageFails DEF Page!Elsewhere
<1>9. CASE Page!Message
  BY <1>9, PageMessage
<1> QED BY <1>1, <1>2, <1>3, <1>4, <1>5, <1>6, <1>7, <1>8, <1>9 DEF Page!Next

LEMMA PageShows == ASSUME PageInv PROVE Page!SettledPageIsTrue
<1> SUFFICES ASSUME reqs = {}, posts = {}, feed = <<>>, missed = {}
             PROVE  /\ shown = {card}
                    /\ timecodes = PageMarks
                    /\ watchStatus = status[profile][card]
                    /\ isFavorite = (card \in book[profile])
  BY DEF Page!SettledPageIsTrue, PageMarks
<1>1. PageTrue /\ isFavorite \in BOOLEAN
  BY DEF PageInv, PageTypes
<1>2. shown = {card}
  BY <1>1 DEF PageTrue, CardComes
<1>3. timecodes = PageMarks
  BY <1>1 DEF PageTrue, MarksCome, Refresh
<1>4. watchStatus = status[profile][card]
  BY <1>1 DEF PageTrue, StatusComes
<1>5. isFavorite = TRUE <=> card \in book[profile]
  BY <1>1 DEF PageTrue, FavouriteComes
<1> QED BY <1>1, <1>2, <1>3, <1>4, <1>5

-----------------------------------------------------------------------------
(* The row of unwatched shows of the catalogue, and its cache (CatalogRows) *)

\* A message that has the row loaded again, and one about a show of a profile, are under way.
RowReloads == \E i \in DOMAIN feed : feed[i].type = "unwatched_stale"
RowHears(type, s, p) == \E i \in DOMAIN feed : feed[i] = Rows!Told(type, s, p)

\* Wherever a list differs from what the server has, the message that says so is under way.
RowAgrees(l, p) ==
    /\ \A s \in server[p] \ l : RowReloads \/ RowHears("watching", s, p)
    /\ \A s \in l \ server[p] : RowReloads \/ RowHears("other", s, p) \/ RowHears("timecode", s, p)

\* ... or the card that is missing is being fetched.
RowComes(l) ==
    /\ \A s \in server[profile] \ l :
         RowReloads \/ RowHears("watching", s, profile) \/ \E f \in finds : f.alive = TRUE /\ f.show = s
    /\ \A s \in l \ server[profile] :
         RowReloads \/ RowHears("other", s, profile) \/ RowHears("timecode", s, profile)

RowsTypes ==
    /\ server \in [Profile -> Rows!List]
    /\ profile \in Profile /\ key \in Profile
    /\ place \in {"row", "other", "away"}
    /\ items \subseteq Rows!List /\ \A k, l \in items : k = l
    /\ cache \subseteq Rows!Entry /\ \A d, e \in cache : d = e
    /\ fetches \subseteq Rows!Fetches /\ \A f \in fetches : \A k, l \in f.got : k = l
    /\ finds \subseteq Rows!Finds
    /\ feed \in Seq(Rows!Messages)

\* Only a row on screen has anything, and waits for anything.
RowsPlaced ==
    /\ place # "away" => key = profile
    /\ place # "row" => items = {}
    /\ \A f \in fetches : f.alive = TRUE => place = "row" /\ f.of = profile /\ f.why = "load"
    /\ \A f \in finds : f.alive = TRUE => place = "row" /\ f.of = profile

\* Answers under way and the cached list agree with the server; the row on screen shows
\* what is cached.
RowsServed == \A f \in fetches : \A l \in f.got : RowAgrees(l, f.of)
RowsCached == \A e \in cache : e.stale = FALSE => RowAgrees(e.items, key)
RowsAlike == place = "row" => items = {e.items : e \in cache}

\* The row on screen is being loaded, or has a list that will be right.
RowsShown ==
    place = "row" =>
        \/ \E f \in fetches : f.alive = TRUE
        \/ \E l \in items : RowComes(l)

RowsInv ==
    /\ RowsTypes /\ RowsPlaced
    /\ missed \subseteq {"progress"} => RowsServed /\ RowsCached /\ RowsAlike
    /\ missed = {} => RowsShown

LEMMA RowsFrame ==
    ASSUME UNCHANGED <<server, feed>>
    PROVE  /\ \A l, p : RowAgrees(l, p)' <=> RowAgrees(l, p)
           /\ profile' = profile /\ finds' = finds => \A l : RowComes(l)' <=> RowComes(l)
<1>1. RowReloads' <=> RowReloads
  BY DEF RowReloads
<1>2. \A t, s, p : RowHears(t, s, p)' <=> RowHears(t, s, p)
  BY DEF RowHears
<1> QED BY <1>1, <1>2 DEF RowAgrees, RowComes

\* A request as it is sent.
LEMMA RowsAsk ==
    ASSUME NEW p \in Profile
    PROVE  /\ Rows!Ask("load", p) \in Rows!Fetches /\ (Rows!Ask("load", p)).of = p /\ (Rows!Ask("load", p)).alive = TRUE
           /\ (Rows!Ask("load", p)).why = "load" /\ (Rows!Ask("load", p)).got = {}
           /\ Rows!Ask("ahead", p) \in Rows!Fetches /\ (Rows!Ask("ahead", p)).of = p /\ (Rows!Ask("ahead", p)).alive = FALSE
           /\ (Rows!Ask("ahead", p)).got = {}
<1>1. Rows!Ask("load", p) = [why |-> "load", of |-> p, alive |-> TRUE, got |-> {}]
  BY DEF Rows!Ask
<1>2. Rows!Ask("ahead", p) = [why |-> "ahead", of |-> p, alive |-> FALSE, got |-> {}]
  BY DEF Rows!Ask
<1>3. PICK none \in SUBSET Rows!List : none = {}
  OBVIOUS
<1>4. PICK y \in BOOLEAN : y = TRUE
  OBVIOUS
<1>5. PICK n \in BOOLEAN : n = FALSE
  OBVIOUS
<1>6. [why |-> "load", of |-> p, alive |-> y, got |-> none] \in Rows!Fetches
  BY DEF Rows!Fetches
<1>7. [why |-> "ahead", of |-> p, alive |-> n, got |-> none] \in Rows!Fetches
  BY DEF Rows!Fetches
<1> DEFINE a == Rows!Ask("load", p)
           b == Rows!Ask("ahead", p)
<1>8. a = [why |-> "load", of |-> p, alive |-> y, got |-> none]
  BY <1>1, <1>3, <1>4
<1>9. b = [why |-> "ahead", of |-> p, alive |-> n, got |-> none]
  BY <1>2, <1>3, <1>5
<1> HIDE DEF a, b
<1>10. a \in Rows!Fetches /\ a.of = p /\ a.alive = TRUE /\ a.why = "load" /\ a.got = {}
  BY <1>3, <1>4, <1>6, <1>8
<1>11. b \in Rows!Fetches /\ b.of = p /\ b.alive = FALSE /\ b.got = {}
  BY <1>3, <1>5, <1>7, <1>9
<1> QED BY <1>10, <1>11 DEF a, b

\* What a row that is gone had asked for.
LEMMA RowsOrphaned ==
    ASSUME RowsTypes
    PROVE  /\ Rows!Orphaned \subseteq Rows!Fetches
           /\ \A g \in Rows!Orphaned : g.alive = FALSE /\ \E f \in fetches : g.of = f.of /\ g.got = f.got
<1> SUFFICES ASSUME NEW g \in Rows!Orphaned
             PROVE  g \in Rows!Fetches /\ g.alive = FALSE /\ \E f \in fetches : g.of = f.of /\ g.got = f.got
  OBVIOUS
<1>1. PICK f \in fetches : g = [f EXCEPT !.alive = FALSE]
  BY DEF Rows!Orphaned
<1>2. f \in Rows!Fetches
  BY DEF RowsTypes
<1> QED BY <1>1, <1>2 DEF Rows!Fetches

LEMMA RowsLeft ==
    ASSUME RowsTypes,
           NEW left, left = {[f EXCEPT !.alive = FALSE, !.items = IF f.alive THEN items ELSE @] : f \in finds}
    PROVE  left \subseteq Rows!Finds /\ \A g \in left : g.alive = FALSE
<1> SUFFICES ASSUME NEW g \in left PROVE g \in Rows!Finds /\ g.alive = FALSE
  OBVIOUS
<1>1. PICK f \in finds : g = [f EXCEPT !.alive = FALSE, !.items = IF f.alive THEN items ELSE @]
  OBVIOUS
<1>2. f \in Rows!Finds /\ items \subseteq Rows!List
  BY DEF RowsTypes
<1> DEFINE x == IF f.alive THEN items ELSE f.items
<1>3. x \subseteq Rows!List
  BY <1>2 DEF Rows!Finds
<1>4. g = [f EXCEPT !.alive = FALSE, !.items = x]
  BY <1>1, <1>2 DEF Rows!Finds
<1> HIDE DEF x
<1> QED BY <1>2, <1>3, <1>4 DEF Rows!Finds

\* Marked stale, the entries keep their lists.
LEMMA RowsStale ==
    ASSUME RowsTypes
    PROVE  /\ Rows!Stale(cache) \subseteq Rows!Entry /\ \A d, e \in Rows!Stale(cache) : d = e
           /\ \A e \in Rows!Stale(cache) : e.stale = TRUE
           /\ {e.items : e \in Rows!Stale(cache)} = {e.items : e \in cache}
<1>1. \A e \in cache : /\ [e EXCEPT !.stale = TRUE] \in Rows!Entry
                       /\ [e EXCEPT !.stale = TRUE].stale = TRUE
                       /\ [e EXCEPT !.stale = TRUE].items = e.items
  BY DEF RowsTypes, Rows!Entry
<1>2. Rows!Stale(cache) = {[e EXCEPT !.stale = TRUE] : e \in cache}
  BY DEF Rows!Stale
<1>3. /\ \A g \in Rows!Stale(cache) : \E e \in cache : g = [e EXCEPT !.stale = TRUE]
      /\ \A e \in cache : [e EXCEPT !.stale = TRUE] \in Rows!Stale(cache)
  BY <1>2
<1>4. \A d, e \in cache : d = e
  BY DEF RowsTypes
<1>5. {e.items : e \in Rows!Stale(cache)} = {e.items : e \in cache}
  <2>1. ASSUME NEW l \in {e.items : e \in Rows!Stale(cache)} PROVE l \in {e.items : e \in cache}
    <3>1. PICK d \in Rows!Stale(cache) : l = d.items
      OBVIOUS
    <3>2. PICK e \in cache : d = [e EXCEPT !.stale = TRUE]
      BY <1>3
    <3> QED BY <1>1, <3>1, <3>2
  <2>2. ASSUME NEW l \in {e.items : e \in cache} PROVE l \in {e.items : e \in Rows!Stale(cache)}
    BY <1>1, <1>3, <2>2
  <2> QED BY <2>1, <2>2
<1>6. ASSUME NEW d \in Rows!Stale(cache) PROVE d \in Rows!Entry /\ d.stale = TRUE
  <2>1. PICK e \in cache : d = [e EXCEPT !.stale = TRUE]
    BY <1>3
  <2> QED BY <1>1, <2>1
<1>7. ASSUME NEW d \in Rows!Stale(cache), NEW c \in Rows!Stale(cache) PROVE d = c
  <2>1. PICK e \in cache : d = [e EXCEPT !.stale = TRUE]
    BY <1>3
  <2>2. PICK f \in cache : c = [f EXCEPT !.stale = TRUE]
    BY <1>3
  <2> QED BY <1>4, <2>1, <2>2
<1> QED BY <1>5, <1>6, <1>7

LEMMA RowsFresh ==
    ASSUME NEW l \in Rows!List
    PROVE  /\ Rows!Fresh(l) \subseteq Rows!Entry /\ \A d, e \in Rows!Fresh(l) : d = e
           /\ \A e \in Rows!Fresh(l) : e.items = l /\ e.stale = FALSE
           /\ {e.items : e \in Rows!Fresh(l)} = {l}
BY DEF Rows!Fresh, Rows!Entry

LEMMA RowsStart == ASSUME Rows!Init PROVE RowsInv
<1>1. server \in [Profile -> Rows!List] /\ feed \in Seq(Rows!Messages)
  BY DEF Rows!Init, Rows!List
<1>2. RowsTypes /\ RowsPlaced
  BY <1>1 DEF Rows!Init, RowsTypes, RowsPlaced
<1> QED BY <1>2 DEF Rows!Init, RowsInv, RowsServed, RowsCached, RowsAlike, RowsShown

\* Agreement needs no card to be fetched.
LEMMA RowsCome ==
    ASSUME NEW l, RowAgrees(l, profile)
    PROVE  RowComes(l)
BY DEF RowAgrees, RowComes

LEMMA RowsShow == ASSUME RowsInv, Rows!ShowRow PROVE RowsInv'
<1> DEFINE q == IF \E e \in Rows!Kept : ~e.stale THEN {} ELSE {Rows!Ask("load", profile)}
<1>1. RowsTypes /\ RowsPlaced
  BY DEF RowsInv
<1>2. /\ place # "row" /\ place' = "row" /\ key' = profile /\ cache' = Rows!Kept
      /\ items' = {e.items : e \in Rows!Kept} /\ fetches' = fetches \cup q
      /\ UNCHANGED <<server, profile, finds, feed, missed>>
  BY DEF Rows!ShowRow
<1>3. Rows!Kept \subseteq cache /\ \A e \in Rows!Kept : key = profile
  BY DEF Rows!Kept
<1>4. \A a \in q : a \in Rows!Fetches /\ a.of = profile /\ a.alive = TRUE /\ a.why = "load" /\ a.got = {}
  BY <1>1, RowsAsk DEF RowsTypes
<1>5. (\E e \in Rows!Kept : e.stale = FALSE) \/ \E a \in q : a.alive = TRUE
  <2>1. \A e \in Rows!Kept : e.stale \in BOOLEAN
    BY <1>1, <1>3 DEF RowsTypes, Rows!Entry
  <2>2. CASE \E e \in Rows!Kept : ~e.stale
    BY <2>1, <2>2
  <2>3. CASE ~\E e \in Rows!Kept : ~e.stale
    <3>1. Rows!Ask("load", profile) \in q
      BY <2>3
    <3> QED BY <1>4, <3>1
  <2> QED BY <2>2, <2>3
<1> HIDE DEF q
<1>6. items' \subseteq Rows!List /\ \A k, l \in items' : k = l
  BY <1>1, <1>2, <1>3 DEF RowsTypes, Rows!Entry
<1>7. RowsTypes'
  <2>1. cache' \subseteq Rows!Entry /\ \A d, e \in cache' : d = e
    BY <1>1, <1>2, <1>3 DEF RowsTypes
  <2>2. fetches' \subseteq Rows!Fetches /\ \A f \in fetches' : \A k, l \in f.got : k = l
    BY <1>1, <1>2, <1>4 DEF RowsTypes
  <2> QED BY <1>1, <1>2, <1>6, <2>1, <2>2 DEF RowsTypes
<1>8. RowsPlaced'
  BY <1>1, <1>2, <1>4 DEF RowsPlaced
<1>9. ASSUME missed \subseteq {"progress"} PROVE RowsServed' /\ RowsCached' /\ RowsAlike'
  <2>1. RowsServed /\ RowsCached
    BY <1>9 DEF RowsInv
  <2>2. RowsServed'
    BY <1>2, <1>4, <2>1, RowsFrame DEF RowsServed
  <2>3. RowsCached'
    BY <1>2, <1>3, <2>1, RowsFrame DEF RowsCached
  <2> QED BY <1>2, <2>2, <2>3 DEF RowsAlike
<1>10. ASSUME missed = {} PROVE RowsShown'
  <2>1. CASE \E a \in q : a.alive = TRUE
    BY <1>2, <2>1 DEF RowsShown
  <2>2. CASE \E e \in Rows!Kept : e.stale = FALSE
    <3>1. PICK e \in Rows!Kept : e.stale = FALSE
      BY <2>2
    <3>2. RowAgrees(e.items, profile)
      BY <1>3, <1>10, <3>1 DEF RowsInv, RowsCached
    <3>3. RowComes(e.items)'
      BY <1>2, <3>2, RowsCome, RowsFrame
    <3> QED BY <1>2, <3>1, <3>3 DEF RowsShown
  <2> QED BY <1>5, <2>1, <2>2
<1> QED BY <1>2, <1>7, <1>8, <1>9, <1>10 DEF RowsInv

\* The row is left: nothing alive stays behind.
LEMMA RowsLeaves ==
    ASSUME RowsInv, Rows!LeaveRow, place' # "row", UNCHANGED <<server, profile, feed, missed>>,
           place' # "away" => key' = profile, key' \in Profile, place' \in {"row", "other", "away"},
           NEW q, fetches' = Rows!Orphaned \cup q,
           \A a \in q : a \in Rows!Fetches /\ a.alive = FALSE /\ a.got = {},
           cache' \subseteq cache, cache' # {} => key' = key
    PROVE  RowsInv'
<1>1. RowsTypes /\ RowsPlaced
  BY DEF RowsInv
<1>2. items' = {} /\ finds' \subseteq Rows!Finds /\ \A g \in finds' : g.alive = FALSE
  <2> DEFINE left == {[f EXCEPT !.alive = FALSE, !.items = IF f.alive THEN items ELSE @] : f \in finds}
  <2>1. items' = {} /\ finds' = left
    BY DEF Rows!LeaveRow
  <2>2. left \subseteq Rows!Finds /\ \A g \in left : g.alive = FALSE
    BY <1>1, RowsLeft
  <2> HIDE DEF left
  <2> QED BY <2>1, <2>2
<1>3. Rows!Orphaned \subseteq Rows!Fetches /\ \A g \in Rows!Orphaned : g.alive = FALSE /\ \E f \in fetches : g.of = f.of /\ g.got = f.got
  BY <1>1, RowsOrphaned
<1>4. RowsTypes'
  <2>1. fetches' \subseteq Rows!Fetches /\ \A f \in fetches' : \A k, l \in f.got : k = l
    BY <1>1, <1>3 DEF RowsTypes
  <2>2. cache' \subseteq Rows!Entry /\ \A d, e \in cache' : d = e
    BY <1>1 DEF RowsTypes
  <2> QED BY <1>1, <1>2, <2>1, <2>2 DEF RowsTypes
<1>5. RowsPlaced'
  BY <1>2, <1>3 DEF RowsPlaced
<1>6. ASSUME missed \subseteq {"progress"} PROVE RowsServed' /\ RowsCached' /\ RowsAlike'
  <2>1. RowsServed /\ RowsCached
    BY <1>6 DEF RowsInv
  <2>2. RowsServed'
    <3> SUFFICES ASSUME NEW g \in fetches', NEW l \in g.got PROVE RowAgrees(l, g.of)'
      BY DEF RowsServed
    <3>1. CASE g \in q
      BY <3>1
    <3>2. CASE g \in Rows!Orphaned
      BY <1>3, <2>1, <3>2, RowsFrame DEF RowsServed
    <3> QED BY <3>1, <3>2
  <2>3. RowsCached'
    BY <2>1, RowsFrame DEF RowsCached
  <2> QED BY <2>2, <2>3 DEF RowsAlike
<1> QED BY <1>4, <1>5, <1>6 DEF RowsInv, RowsShown

\* A row that is fetched ahead.
LEMMA RowsAhead ==
    ASSUME NEW p \in Profile, NEW c
    PROVE  \A a \in Rows!Ahead(c, p) : a \in Rows!Fetches /\ a.of = p /\ a.alive = FALSE /\ a.got = {}
<1>1. \A a \in Rows!Ahead(c, p) : a = Rows!Ask("ahead", p)
  BY DEF Rows!Ahead
<1> QED BY <1>1, RowsAsk

LEMMA RowsFlip == ASSUME RowsInv, Rows!Flip PROVE RowsInv'
<1>1. profile \in Profile
  BY DEF RowsInv, RowsTypes
<1>2. PICK q : q = Rows!Ahead(Rows!Kept, profile)
  OBVIOUS
<1>3. \A a \in q : a \in Rows!Fetches /\ a.alive = FALSE /\ a.got = {}
  BY <1>1, <1>2, RowsAhead
<1>4. /\ Rows!LeaveRow /\ place' = "other" /\ UNCHANGED <<server, profile, feed, missed>>
      /\ key' = profile /\ fetches' = Rows!Orphaned \cup q /\ cache' = Rows!Kept
  BY <1>2 DEF Rows!Flip
<1>5. Rows!Kept \subseteq cache /\ (Rows!Kept # {} => profile = key)
  BY DEF Rows!Kept
<1> QED BY <1>1, <1>3, <1>4, <1>5, RowsLeaves

LEMMA RowsLeave == ASSUME RowsInv, Rows!Leave PROVE RowsInv'
<1>1. key \in Profile
  BY DEF RowsInv, RowsTypes
<1>2. PICK q : q = {}
  OBVIOUS
<1>3. \A a \in q : a \in Rows!Fetches /\ a.alive = FALSE /\ a.got = {}
  BY <1>2
<1>4. /\ Rows!LeaveRow /\ place' = "away" /\ UNCHANGED <<server, profile, feed, missed>>
      /\ key' = key /\ fetches' = Rows!Orphaned \cup q /\ cache' = cache
  BY <1>2 DEF Rows!Leave
<1> QED BY <1>1, <1>3, <1>4, RowsLeaves

LEMMA RowsRefresh == ASSUME RowsInv, Rows!Refresh PROVE RowsInv'
<1>1. RowsTypes /\ RowsPlaced
  BY DEF RowsInv
<1>2. PICK a : a = Rows!Ask("load", profile)
  OBVIOUS
<1>3. a \in Rows!Fetches /\ a.of = profile /\ a.alive = TRUE /\ a.why = "load" /\ a.got = {}
  BY <1>1, <1>2, RowsAsk DEF RowsTypes
<1>4. /\ place = "row" /\ cache' = Rows!Stale(cache) /\ fetches' = fetches \cup {a}
      /\ UNCHANGED <<server, profile, place, items, key, finds, feed, missed>>
  BY <1>2 DEF Rows!Refresh
<1>5. /\ Rows!Stale(cache) \subseteq Rows!Entry /\ \A d, e \in Rows!Stale(cache) : d = e
      /\ \A e \in Rows!Stale(cache) : e.stale = TRUE
      /\ {e.items : e \in Rows!Stale(cache)} = {e.items : e \in cache}
  BY <1>1, RowsStale
<1>6. RowsTypes'
  BY <1>1, <1>3, <1>4, <1>5 DEF RowsTypes
<1>7. RowsPlaced'
  BY <1>1, <1>3, <1>4 DEF RowsPlaced
<1>8. ASSUME missed \subseteq {"progress"} PROVE RowsServed' /\ RowsCached' /\ RowsAlike'
  <2>1. RowsServed /\ RowsAlike
    BY <1>8 DEF RowsInv
  <2>2. RowsServed'
    BY <1>3, <1>4, <2>1, RowsFrame DEF RowsServed
  <2>3. RowsCached'
    BY <1>4, <1>5 DEF RowsCached
  <2> QED BY <1>4, <1>5, <2>1, <2>2, <2>3 DEF RowsAlike
<1>9. RowsShown'
  BY <1>3, <1>4 DEF RowsShown
<1> QED BY <1>4, <1>6, <1>7, <1>8, <1>9 DEF RowsInv

LEMMA RowsSwitch ==
    ASSUME RowsInv, NEW p \in Profile, Rows!SwitchProfile(p)
    PROVE  RowsInv'
<1>1. RowsTypes /\ RowsPlaced
  BY DEF RowsInv
<1>2. profile' = p /\ UNCHANGED <<server, place, feed, missed>>
  BY DEF Rows!SwitchProfile
<1>3. CASE place = "away"
  <2>1. UNCHANGED <<items, cache, key, fetches, finds>>
    BY <1>3 DEF Rows!SwitchProfile
  <2>2. RowsTypes' /\ RowsPlaced'
    BY <1>1, <1>2, <1>3, <2>1 DEF RowsTypes, RowsPlaced
  <2>3. ASSUME missed \subseteq {"progress"} PROVE RowsServed' /\ RowsCached' /\ RowsAlike'
    BY <1>2, <1>3, <2>1, <2>3, RowsFrame DEF RowsInv, RowsServed, RowsCached, RowsAlike
  <2> QED BY <1>2, <1>3, <2>2, <2>3 DEF RowsInv, RowsShown
<1>4. CASE place = "row"
  <2>1. PICK a : a = Rows!Ask("load", p)
    OBVIOUS
  <2>2. a \in Rows!Fetches /\ a.of = p /\ a.alive = TRUE /\ a.why = "load" /\ a.got = {}
    BY <2>1, RowsAsk
  <2> DEFINE left == {[f EXCEPT !.alive = FALSE, !.items = IF f.alive THEN items ELSE @] : f \in finds}
  <2>3. /\ cache' = {} /\ key' = p /\ items' = {} /\ fetches' = Rows!Orphaned \cup {a} /\ finds' = left
    BY <1>4, <2>1 DEF Rows!SwitchProfile
  <2>4. left \subseteq Rows!Finds /\ \A g \in left : g.alive = FALSE
    BY <1>1, RowsLeft
  <2> HIDE DEF left
  <2>5. Rows!Orphaned \subseteq Rows!Fetches /\ \A g \in Rows!Orphaned : g.alive = FALSE /\ \E f \in fetches : g.of = f.of /\ g.got = f.got
    BY <1>1, RowsOrphaned
  <2>6. RowsTypes'
    <3>1. fetches' \subseteq Rows!Fetches /\ \A f \in fetches' : \A k, l \in f.got : k = l
      BY <1>1, <2>2, <2>3, <2>5 DEF RowsTypes
    <3> QED BY <1>1, <1>2, <2>3, <2>4, <3>1 DEF RowsTypes
  <2>7. RowsPlaced'
    BY <1>2, <1>4, <2>2, <2>3, <2>4, <2>5 DEF RowsPlaced
  <2>8. ASSUME missed \subseteq {"progress"} PROVE RowsServed'
    <3>1. RowsServed
      BY <2>8 DEF RowsInv
    <3> SUFFICES ASSUME NEW g \in fetches', NEW l \in g.got PROVE RowAgrees(l, g.of)'
      BY DEF RowsServed
    <3>2. g \in Rows!Orphaned
      BY <2>2, <2>3
    <3> QED BY <1>2, <2>5, <3>1, <3>2, RowsFrame DEF RowsServed
  <2>9. RowsCached' /\ RowsAlike' /\ RowsShown'
    BY <2>2, <2>3 DEF RowsCached, RowsAlike, RowsShown
  <2> QED BY <1>2, <2>6, <2>7, <2>8, <2>9 DEF RowsInv
<1>5. CASE place = "other"
  <2>1. PICK q : q = Rows!Ahead({}, p)
    OBVIOUS
  <2>2. PICK none : none = {}
    OBVIOUS
  <2>3. \A a \in q : a \in Rows!Fetches /\ a.alive = FALSE /\ a.got = {}
    BY <2>1, <2>2, RowsAhead
  <2>4. cache' = {} /\ key' = p /\ fetches' = fetches \cup q /\ UNCHANGED <<items, finds>>
    BY <1>5, <2>1 DEF Rows!SwitchProfile
  <2>5. RowsTypes'
    BY <1>1, <1>2, <2>3, <2>4 DEF RowsTypes
  <2>6. RowsPlaced'
    BY <1>1, <1>2, <1>5, <2>3, <2>4 DEF RowsPlaced
  <2>7. ASSUME missed \subseteq {"progress"} PROVE RowsServed'
    BY <1>2, <2>3, <2>4, <2>7, RowsFrame DEF RowsInv, RowsServed
  <2>8. RowsCached' /\ RowsAlike' /\ RowsShown'
    BY <1>2, <1>5, <2>4 DEF RowsCached, RowsAlike, RowsShown
  <2> QED BY <1>2, <2>5, <2>6, <2>7, <2>8 DEF RowsInv
<1> QED BY <1>1, <1>3, <1>4, <1>5 DEF RowsTypes

LEMMA RowsServe ==
    ASSUME RowsInv, NEW f \in fetches, Rows!Serve(f)
    PROVE  RowsInv'
<1>1. RowsTypes /\ RowsPlaced /\ f \in Rows!Fetches /\ f.of \in Profile
  BY DEF RowsInv, RowsTypes, Rows!Fetches
<1>2. PICK cur \in Rows!List : cur = server[f.of]
  BY <1>1 DEF RowsTypes
<1>3. PICK g : g = [f EXCEPT !.got = {cur}]
  OBVIOUS
<1>4. /\ fetches' = (fetches \ {f}) \cup {g}
      /\ UNCHANGED <<server, profile, place, items, cache, key, finds, feed, missed>>
  BY <1>2, <1>3 DEF Rows!Serve
<1>5. g \in Rows!Fetches /\ g.of = f.of /\ g.alive = f.alive /\ g.why = f.why /\ g.got = {cur}
  BY <1>1, <1>2, <1>3 DEF Rows!Fetches
<1>6. RowsTypes'
  <2>1. fetches' \subseteq Rows!Fetches /\ \A h \in fetches' : \A k, l \in h.got : k = l
    BY <1>1, <1>4, <1>5 DEF RowsTypes
  <2> QED BY <1>1, <1>4, <2>1 DEF RowsTypes
<1>7. RowsPlaced'
  BY <1>1, <1>4, <1>5 DEF RowsPlaced
<1>8. ASSUME missed \subseteq {"progress"} PROVE RowsServed' /\ RowsCached' /\ RowsAlike'
  <2>1. RowsServed /\ RowsCached /\ RowsAlike
    BY <1>8 DEF RowsInv
  <2>2. RowAgrees(cur, f.of)
    BY <1>2 DEF RowAgrees
  <2>3. RowsServed'
    BY <1>4, <1>5, <2>1, <2>2, RowsFrame DEF RowsServed
  <2> QED BY <1>4, <2>1, <2>3, RowsFrame DEF RowsCached, RowsAlike
<1>9. ASSUME missed = {} PROVE RowsShown'
  BY <1>4, <1>5, <1>9, RowsFrame DEF RowsInv, RowsShown
<1> QED BY <1>4, <1>6, <1>7, <1>8, <1>9 DEF RowsInv

\* An answer that is not of another profile, and that a row on screen waits for or
\* shows already.
LEMMA RowsGot ==
    ASSUME RowsInv, NEW f \in fetches, Rows!Got(f)
    PROVE  RowsInv'
<1>1. RowsTypes /\ RowsPlaced /\ f \in Rows!Fetches /\ \A k, l \in f.got : k = l
  BY DEF RowsInv, RowsTypes
<1>2. PICK cur \in f.got : TRUE
  BY DEF Rows!Got
<1>3. f.got = {cur} /\ cur \in Rows!List /\ Rows!Only(f.got) = cur
  BY <1>1, <1>2 DEF Rows!Only, Rows!Fetches
<1>4. /\ fetches' = fetches \ {f} /\ items' = IF f.alive THEN {cur} ELSE items
      /\ UNCHANGED <<server, profile, place, key, finds, feed>>
  BY <1>3 DEF Rows!Got
<1>5. cache' = Rows!Fresh(cur) \/ cache' = cache
  BY <1>3 DEF Rows!Got, Rows!ItemsLoaded
<1>6. /\ Rows!Fresh(cur) \subseteq Rows!Entry /\ \A d, e \in Rows!Fresh(cur) : d = e
      /\ \A e \in Rows!Fresh(cur) : e.items = cur /\ e.stale = FALSE
      /\ {e.items : e \in Rows!Fresh(cur)} = {cur}
  BY <1>3, RowsFresh
<1>7. f.alive \in BOOLEAN
  BY <1>1 DEF Rows!Fetches
<1>8. RowsTypes'
  <2>1. cache' \subseteq Rows!Entry /\ \A d, e \in cache' : d = e
    BY <1>1, <1>5, <1>6 DEF RowsTypes
  <2>2. items' \subseteq Rows!List /\ \A k, l \in items' : k = l
    BY <1>1, <1>3, <1>4 DEF RowsTypes
  <2> QED BY <1>1, <1>4, <2>1, <2>2 DEF RowsTypes
<1>9. RowsPlaced'
  BY <1>1, <1>4, <1>7 DEF RowsPlaced
<1>10. ASSUME missed' \subseteq {"progress"}
       PROVE  /\ missed \subseteq {"progress"} /\ f.of = key
              /\ f.alive = TRUE \/ place # "row" \/ items = {cur}
  BY <1>3, <1>7, <1>10 DEF Rows!Got
<1>11. ASSUME missed' \subseteq {"progress"} PROVE RowsServed' /\ RowsCached' /\ RowsAlike'
  <2>1. RowsServed /\ RowsCached /\ RowsAlike
    BY <1>10, <1>11 DEF RowsInv
  <2>2. RowAgrees(cur, key)
    BY <1>2, <1>10, <1>11, <2>1 DEF RowsServed
  <2>3. RowsServed'
    BY <1>4, <2>1, RowsFrame DEF RowsServed
  <2>4. RowsCached'
    BY <1>4, <1>5, <1>6, <2>1, <2>2, RowsFrame DEF RowsCached
  <2>5. RowsAlike'
    <3>1. CASE f.alive = TRUE
      <4>1. f.why = "load"
        BY <1>1, <3>1 DEF RowsPlaced
      <4>2. cache' = Rows!Fresh(cur)
        BY <1>3, <4>1 DEF Rows!Got, Rows!ItemsLoaded
      <4> QED BY <1>4, <1>6, <3>1, <4>2 DEF RowsAlike
    <3>2. CASE f.alive = FALSE
      BY <1>4, <1>5, <1>6, <1>10, <1>11, <2>1, <3>2 DEF RowsAlike
    <3> QED BY <1>7, <3>1, <3>2
  <2> QED BY <2>3, <2>4, <2>5
<1>12. ASSUME missed' = {} PROVE RowsShown'
  <2>1. missed = {} /\ missed' \subseteq {"progress"}
    BY <1>12 DEF Rows!Got
  <2>2. RowsServed /\ RowsShown
    BY <2>1 DEF RowsInv
  <2> SUFFICES ASSUME place' = "row" PROVE (\E g \in fetches' : g.alive = TRUE) \/ \E l \in items' : RowComes(l)'
    BY DEF RowsShown
  <2>3. CASE f.alive = TRUE
    <3>1. RowAgrees(cur, profile)
      BY <1>1, <1>2, <2>2, <2>3 DEF RowsServed, RowsPlaced
    <3>2. RowComes(cur)'
      BY <1>4, <3>1, RowsCome, RowsFrame
    <3> QED BY <1>4, <2>3, <3>2
  <2>4. CASE f.alive = FALSE
    BY <1>4, <2>2, <2>4, RowsFrame DEF RowsShown
  <2> QED BY <1>7, <2>3, <2>4
<1> QED BY <1>8, <1>9, <1>11, <1>12 DEF RowsInv

\* A request, a message or a card that is lost is one of the named ways.
LEMMA RowsFail ==
    ASSUME RowsInv, \/ \E f \in fetches : Rows!FetchFails(f)
                    \/ Rows!MessageLost
                    \/ \E f \in finds : Rows!FindFails(f)
    PROVE  RowsInv'
<1>1. RowsTypes /\ RowsPlaced
  BY DEF RowsInv
<1>2. /\ fetches' \subseteq fetches /\ finds' \subseteq finds /\ feed' \in Seq(Rows!Messages)
      /\ "failed" \in missed' /\ UNCHANGED <<server, profile, place, items, cache, key>>
  <2>1. CASE \E f \in fetches : Rows!FetchFails(f)
    BY <1>1, <2>1 DEF Rows!FetchFails, RowsTypes
  <2>2. CASE Rows!MessageLost
    <3>1. feed \in Seq(Rows!Messages)
      BY <1>1 DEF RowsTypes
    <3> QED BY <2>2, <3>1, QueueTail DEF Rows!MessageLost
  <2>3. CASE \E f \in finds : Rows!FindFails(f)
    BY <1>1, <2>3 DEF Rows!FindFails, RowsTypes
  <2> QED BY <2>1, <2>2, <2>3
<1>3. RowsTypes'
  BY <1>1, <1>2 DEF RowsTypes
<1>4. RowsPlaced'
  BY <1>1, <1>2 DEF RowsPlaced
<1> QED BY <1>2, <1>3, <1>4 DEF RowsInv

\* What is under way stays so when a message joins the queue ...
LEMMA RowsHear ==
    ASSUME RowsTypes, NEW m \in Rows!Messages, feed' = Append(feed, m)
    PROVE  /\ feed' \in Seq(Rows!Messages)
           /\ RowReloads => RowReloads'
           /\ m.type = "unwatched_stale" => RowReloads'
           /\ \A t, s, p : RowHears(t, s, p) => RowHears(t, s, p)'
           /\ \A t, s, p : m = Rows!Told(t, s, p) => RowHears(t, s, p)'
<1>1. feed \in Seq(Rows!Messages)
  BY DEF RowsTypes
<1>2. /\ feed' \in Seq(Rows!Messages) /\ Len(feed) \in Nat
      /\ DOMAIN feed = 1..Len(feed) /\ DOMAIN feed' = 1..Len(feed) + 1
      /\ feed'[Len(feed) + 1] = m
      /\ \A i \in 1..Len(feed) : feed'[i] = feed[i]
  BY <1>1, QueueAppend
<1>3. \A i \in DOMAIN feed : i \in DOMAIN feed' /\ feed'[i] = feed[i]
  BY <1>2
<1>4. Len(feed) + 1 \in DOMAIN feed' /\ feed'[Len(feed) + 1] = m
  BY <1>2
<1> QED BY <1>2, <1>3, <1>4 DEF RowReloads, RowHears

\* ... and when the first one is taken, but for that one.
LEMMA RowsTake ==
    ASSUME RowsTypes, feed # <<>>, feed' = Tail(feed)
    PROVE  /\ Head(feed) \in Rows!Messages /\ feed' \in Seq(Rows!Messages)
           /\ RowReloads => RowReloads' \/ Head(feed).type = "unwatched_stale"
           /\ \A t, s, p : RowHears(t, s, p) => RowHears(t, s, p)' \/ Head(feed) = Rows!Told(t, s, p)
           /\ \A t, s, p : ~Rows!Final(t, p, s, Tail(feed)) => RowReloads' \/ RowHears(t, s, p)'
<1>1. feed \in Seq(Rows!Messages)
  BY DEF RowsTypes
<1>2. /\ Head(feed) = feed[1] /\ Head(feed) \in Rows!Messages /\ feed' \in Seq(Rows!Messages)
      /\ Len(feed) \in Nat \ {0} /\ DOMAIN feed = 1..Len(feed) /\ DOMAIN feed' = 1..Len(feed) - 1
      /\ \A i \in 1..Len(feed) - 1 : feed'[i] = feed[i + 1]
  BY <1>1, QueueTail
<1>3. \A i \in DOMAIN feed : feed[i] = Head(feed) \/ \E j \in DOMAIN feed' : feed'[j] = feed[i]
  <2> SUFFICES ASSUME NEW i \in DOMAIN feed, i # 1
               PROVE  \E j \in DOMAIN feed' : feed'[j] = feed[i]
    BY <1>2
  <2>1. i - 1 \in 1..Len(feed) - 1 /\ (i - 1) + 1 = i
    BY <1>2
  <2> QED BY <1>2, <2>1
<1> QED BY <1>2, <1>3 DEF RowReloads, RowHears, Rows!Final

\* One show of one profile changes, and its message is sent.
LEMMA RowsChanged ==
    ASSUME RowsInv, NEW p \in Profile, NEW s \in Show, NEW type \in {"watching", "other", "timecode"},
           server' = [server EXCEPT ![p] = IF type = "watching" THEN server[p] \cup {s} ELSE server[p] \ {s}],
           feed' = Append(feed, Rows!Told(type, s, p)),
           UNCHANGED <<profile, place, items, cache, key, fetches, finds, missed>>
    PROVE  RowsInv'
<1>1. RowsTypes /\ RowsPlaced
  BY DEF RowsInv
<1>2. Rows!Told(type, s, p) \in Rows!Messages
  BY DEF Rows!Told, Rows!Messages
<1>3. /\ feed' \in Seq(Rows!Messages)
      /\ RowReloads => RowReloads'
      /\ \A t, x, q : RowHears(t, x, q) => RowHears(t, x, q)'
      /\ RowHears(type, s, p)'
  BY <1>1, <1>2, RowsHear
<1>4. server' \in [Profile -> Rows!List]
  BY <1>1 DEF RowsTypes, Rows!List
<1>5. \A q \in Profile :
        /\ \A x \in server'[q] : x \in server[q] \/ (q = p /\ x = s /\ type = "watching")
        /\ \A x : x \notin server'[q] => x \notin server[q] \/ (q = p /\ x = s /\ type \in {"other", "timecode"})
  <2>1. server'[p] = IF type = "watching" THEN server[p] \cup {s} ELSE server[p] \ {s}
    BY <1>1 DEF RowsTypes
  <2>2. \A q \in Profile : q # p => server'[q] = server[q]
    BY <1>1 DEF RowsTypes
  <2> QED BY <2>1, <2>2
<1>6. ASSUME NEW q \in Profile, NEW l, RowAgrees(l, q) PROVE RowAgrees(l, q)'
  <2>1. ASSUME NEW x \in server'[q] \ l PROVE RowReloads' \/ RowHears("watching", x, q)'
    BY <1>3, <1>5, <1>6, <2>1 DEF RowAgrees
  <2>2. ASSUME NEW x \in l \ server'[q] PROVE RowReloads' \/ RowHears("other", x, q)' \/ RowHears("timecode", x, q)'
    BY <1>3, <1>5, <1>6, <2>2 DEF RowAgrees
  <2> QED BY <2>1, <2>2 DEF RowAgrees
<1>7. ASSUME NEW l, RowComes(l) PROVE RowComes(l)'
  <2>1. profile \in Profile /\ profile' = profile /\ finds' = finds
    BY <1>1 DEF RowsTypes
  <2>2. ASSUME NEW x \in server'[profile] \ l
        PROVE  RowReloads' \/ RowHears("watching", x, profile)' \/ \E f \in finds : f.alive = TRUE /\ f.show = x
    BY <1>3, <1>5, <1>7, <2>1, <2>2 DEF RowComes
  <2>3. ASSUME NEW x \in l \ server'[profile]
        PROVE  RowReloads' \/ RowHears("other", x, profile)' \/ RowHears("timecode", x, profile)'
    BY <1>3, <1>5, <1>7, <2>1, <2>3 DEF RowComes
  <2> QED BY <2>1, <2>2, <2>3 DEF RowComes
<1>8. RowsTypes' /\ RowsPlaced'
  BY <1>1, <1>3, <1>4 DEF RowsTypes, RowsPlaced
<1>9. key \in Profile /\ \A f \in fetches : f.of \in Profile
  BY <1>1 DEF RowsTypes, Rows!Fetches
<1>10. ASSUME missed \subseteq {"progress"} PROVE RowsServed' /\ RowsCached' /\ RowsAlike'
  BY <1>6, <1>9, <1>10 DEF RowsInv, RowsServed, RowsCached, RowsAlike
<1>11. ASSUME missed = {} PROVE RowsShown'
  BY <1>7, <1>11 DEF RowsInv, RowsShown
<1> QED BY <1>8, <1>10, <1>11 DEF RowsInv

LEMMA RowsElsewhere ==
    ASSUME RowsInv, \/ \E p \in Profile, s \in Show : Rows!FinishedElsewhere(p, s)
                    \/ \E p \in Profile, s \in Show, type \in {"watching", "other"} : Rows!StatusElsewhere(p, s, type)
    PROVE  RowsInv'
<1>1. ASSUME NEW p \in Profile, NEW s \in Show, Rows!FinishedElsewhere(p, s) PROVE RowsInv'
  <2>1. PICK type \in {"watching", "other", "timecode"} : type = "timecode"
    OBVIOUS
  <2>2. /\ server' = [server EXCEPT ![p] = IF type = "watching" THEN server[p] \cup {s} ELSE server[p] \ {s}]
        /\ feed' = Append(feed, Rows!Told(type, s, p))
        /\ UNCHANGED <<profile, place, items, cache, key, fetches, finds, missed>>
    BY <1>1, <2>1 DEF Rows!FinishedElsewhere, Rows!Changed
  <2> QED BY <2>2, RowsChanged
<1>2. ASSUME NEW p \in Profile, NEW s \in Show, NEW type \in {"watching", "other"}, Rows!StatusElsewhere(p, s, type)
      PROVE  RowsInv'
  <2>1. /\ server' = [server EXCEPT ![p] = IF type = "watching" THEN server[p] \cup {s} ELSE server[p] \ {s}]
        /\ feed' = Append(feed, Rows!Told(type, s, p)) /\ type \in {"watching", "other", "timecode"}
        /\ UNCHANGED <<profile, place, items, cache, key, fetches, finds, missed>>
    BY <1>2 DEF Rows!StatusElsewhere, Rows!Changed
  <2> QED BY <2>1, RowsChanged
<1> QED BY <1>1, <1>2

\* The message of a new day has everything loaded again.
LEMMA RowsDay ==
    ASSUME RowsInv, NEW s \in Show, Rows!DayPasses(s)
    PROVE  RowsInv'
<1>1. RowsTypes /\ RowsPlaced
  BY DEF RowsInv
<1>2. PICK m : m = [type |-> "unwatched_stale"]
  OBVIOUS
<1>3. m \in Rows!Messages /\ m.type = "unwatched_stale"
  BY <1>2 DEF Rows!Messages
<1>4. /\ server' = [server EXCEPT ![profile] = server[profile] \cup {s}] /\ feed' = Append(feed, m)
      /\ UNCHANGED <<profile, place, items, cache, key, fetches, finds, missed>>
  BY <1>2 DEF Rows!DayPasses, Rows!Changed
<1>5. feed' \in Seq(Rows!Messages) /\ RowReloads'
  BY <1>1, <1>3, <1>4, RowsHear
<1>6. server' \in [Profile -> Rows!List]
  BY <1>1, <1>4 DEF RowsTypes, Rows!List
<1>7. (\A l, p : RowAgrees(l, p)') /\ (\A l : RowComes(l)')
  BY <1>5 DEF RowAgrees, RowComes
<1>8. RowsTypes' /\ RowsPlaced'
  BY <1>1, <1>4, <1>5, <1>6 DEF RowsTypes, RowsPlaced
<1>9. ASSUME missed \subseteq {"progress"} PROVE RowsServed' /\ RowsCached' /\ RowsAlike'
  BY <1>4, <1>7, <1>9 DEF RowsInv, RowsServed, RowsCached, RowsAlike
<1>10. ASSUME missed = {} PROVE RowsShown'
  BY <1>4, <1>7, <1>10 DEF RowsInv, RowsShown
<1> QED BY <1>4, <1>8, <1>9, <1>10 DEF RowsInv

\* A change made on a card, with no answer on its way that does not know it.
LEMMA RowsHere ==
    ASSUME RowsInv, NEW s \in Show, Rows!ChangeHere(s)
    PROVE  RowsInv'
<1>1. RowsTypes /\ RowsPlaced /\ profile \in Profile
  BY DEF RowsInv, RowsTypes
<1>2. PICK l \in Rows!List : l = IF s \in server[profile] THEN server[profile] \ {s} ELSE server[profile] \cup {s}
  BY <1>1 DEF RowsTypes, Rows!List
<1>3. /\ place = "away" /\ server' = [server EXCEPT ![profile] = l] /\ cache' = Rows!Stale(cache)
      /\ UNCHANGED <<profile, place, items, key, fetches, finds, feed>>
      /\ missed \subseteq missed'
  BY <1>2 DEF Rows!ChangeHere, Rows!Changed, Rows!Lost
<1>4. missed' \subseteq {"progress"} => \A f \in fetches : f.got # {} => f.of # profile
  BY DEF Rows!ChangeHere, Rows!Lost
<1>5. /\ Rows!Stale(cache) \subseteq Rows!Entry /\ \A d, e \in Rows!Stale(cache) : d = e
      /\ \A e \in Rows!Stale(cache) : e.stale = TRUE
  BY <1>1, RowsStale
<1>6. server' \in [Profile -> Rows!List] /\ \A q \in Profile : q # profile => server'[q] = server[q]
  BY <1>1, <1>3 DEF RowsTypes
<1>7. RowsTypes' /\ RowsPlaced'
  BY <1>1, <1>3, <1>5, <1>6 DEF RowsTypes, RowsPlaced
<1>8. ASSUME missed' \subseteq {"progress"} PROVE RowsServed'
  <2> SUFFICES ASSUME NEW f \in fetches, NEW x \in f.got PROVE RowAgrees(x, f.of)'
    BY <1>3 DEF RowsServed
  <2>1. f.of # profile /\ f.of \in Profile
    BY <1>1, <1>4, <1>8 DEF RowsTypes, Rows!Fetches
  <2>2. RowAgrees(x, f.of)
    BY <1>3, <1>8 DEF RowsInv, RowsServed
  <2>3. server'[f.of] = server[f.of]
    BY <1>6, <2>1
  <2>4. RowReloads' <=> RowReloads
    BY <1>3 DEF RowReloads
  <2>5. \A t, y, q : RowHears(t, y, q)' <=> RowHears(t, y, q)
    BY <1>3 DEF RowHears
  <2> QED BY <2>2, <2>3, <2>4, <2>5 DEF RowAgrees
<1> QED BY <1>3, <1>5, <1>7, <1>8 DEF RowsInv, RowsCached, RowsAlike, RowsShown

\* Whatever message is taken: what was on its way but for it still is.
LEMMA RowsMessage == ASSUME RowsInv, Rows!Message PROVE RowsInv'
<1>m. PICK m : m = Head(feed)
  OBVIOUS
<1>p. PICK p : p = profile
  OBVIOUS
<1> DEFINE mine == m.type = "unwatched_stale" \/ (m.type # "unwatched_stale" /\ m.of = profile)
           onScreen == place = "row" /\ items # {}
           leaves == mine /\ onScreen /\ m.type = "other" /\ m.show \in Rows!Only(items)
           more == IF mine /\ onScreen /\ m.type = "watching" /\ m.show \notin Rows!Only(items)
                   THEN {[show |-> m.show, of |-> profile, alive |-> TRUE, items |-> {}]} ELSE {}
           wanted == IF m.type = "unwatched_stale" /\ place = "row" THEN {Rows!Ask("load", profile)} ELSE {}
<1>1. RowsTypes /\ RowsPlaced /\ profile \in Profile /\ server[profile] \in Rows!List
  BY DEF RowsInv, RowsTypes
<1>2. /\ feed # <<>> /\ feed' = Tail(feed)
      /\ finds' = finds \cup more /\ fetches' = fetches \cup wanted
      /\ UNCHANGED <<server, profile, place, key>>
      /\ missed \subseteq missed'
  BY <1>m DEF Rows!Message
<1>3. /\ m \in Rows!Messages /\ feed' \in Seq(Rows!Messages)
      /\ RowReloads => RowReloads' \/ m.type = "unwatched_stale"
      /\ \A t, s, q : RowHears(t, s, q) => RowHears(t, s, q)' \/ m = Rows!Told(t, s, q)
      /\ \A t, s, q : ~Rows!Final(t, q, s, Tail(feed)) => RowReloads' \/ RowHears(t, s, q)'
  BY <1>1, <1>2, <1>m, RowsTake
<1>4. /\ m.type = "unwatched_stale" \/ (m.type \in {"watching", "other", "timecode"} /\ m.show \in Show /\ m.of \in Profile)
      /\ m.type # "unwatched_stale" => m = Rows!Told(m.type, m.show, m.of)
  BY <1>3 DEF Rows!Messages, Rows!Told
<1>5. \A t \in {"watching", "other", "timecode"} : \A s, q : m = Rows!Told(t, s, q) => m.type = t /\ m.show = s /\ m.of = q
  BY DEF Rows!Told
<1>6. /\ leaves => items' = {Rows!Only(items) \ {m.show}} /\ cache' = Rows!Fresh(Rows!Only(items) \ {m.show})
      /\ ~leaves => items' = items /\ cache' = IF mine THEN Rows!Stale(cache) ELSE cache
  BY <1>m DEF Rows!Message, Rows!Patched
<1>7. \A a \in more : /\ a \in Rows!Finds /\ a.of = profile /\ a.alive = TRUE /\ a.show = m.show
                      /\ place = "row"
  <2>1. CASE mine /\ onScreen /\ m.type = "watching" /\ m.show \notin Rows!Only(items)
    <3>1. PICK none \in SUBSET Rows!List : none = {}
      OBVIOUS
    <3>2. PICK y \in BOOLEAN : y = TRUE
      OBVIOUS
    <3>3. m.show \in Show
      BY <1>4, <2>1
    <3>4. PICK a : a = [show |-> m.show, of |-> profile, alive |-> y, items |-> none]
      OBVIOUS
    <3>5. more = {a}
      BY <2>1, <3>1, <3>2, <3>4
    <3>6. a \in Rows!Finds /\ a.of = profile /\ a.alive = y /\ a.show = m.show
      BY <1>1, <3>3, <3>4 DEF Rows!Finds
    <3> QED BY <2>1, <3>2, <3>5, <3>6
  <2>2. CASE ~(mine /\ onScreen /\ m.type = "watching" /\ m.show \notin Rows!Only(items))
    BY <2>2
  <2> QED BY <2>1, <2>2
<1>8. \A a \in wanted : /\ a \in Rows!Fetches /\ a.of = profile /\ a.alive = TRUE /\ a.why = "load" /\ a.got = {}
                       /\ place = "row"
  BY <1>1, RowsAsk
<1>9. m.type = "watching" /\ mine /\ onScreen /\ m.show \notin Rows!Only(items) => \E a \in more : TRUE
  OBVIOUS
<1>10. m.type = "unwatched_stale" /\ place = "row" => \E a \in wanted : TRUE
  OBVIOUS
<1>11. /\ missed' \subseteq {"progress"} => ~Rows!Crosses(m) /\ (~mine => m.of # key)
       /\ missed' \subseteq {"progress"} /\ leaves /\ m.show \in server[profile] =>
            ~Rows!Final("watching", profile, m.show, Tail(feed))
       /\ missed' \subseteq {"progress"} /\ leaves => ~Rows!Unmarks(profile, m.show)
       /\ missed' = {} => ~(mine /\ onScreen /\ m.type = "timecode")
  BY <1>m DEF Rows!Message
<1>12. ASSUME items # {} PROVE items = {Rows!Only(items)} /\ Rows!Only(items) \in Rows!List
  BY <1>1, <1>12 DEF Rows!Only, RowsTypes
<1>a. /\ mine <=> m.type = "unwatched_stale" \/ m.of = profile
      /\ onScreen <=> place = "row" /\ items # {}
      /\ leaves <=> mine /\ onScreen /\ m.type = "other" /\ m.show \in Rows!Only(items)
  BY <1>4
<1>b. /\ m.type # "unwatched_stale" => m # [type |-> "unwatched_stale"]
      /\ \A t, s, q : ~Rows!Final(t, q, s, Tail(feed)) => RowReloads' \/ RowHears(t, s, q)'
  BY <1>3
<1> HIDE DEF mine, onScreen, leaves, more, wanted
<1>13. ASSUME NEW l, NEW q, RowAgrees(l, q), m.type # "unwatched_stale", m.of # q PROVE RowAgrees(l, q)'
  BY <1>2, <1>3, <1>5, <1>13 DEF RowAgrees
<1>14. ASSUME leaves PROVE place = "row" /\ items # {} /\ m.type = "other" /\ m.of = profile /\ m.show \in Show
  BY <1>4, <1>14, <1>a
<1>15. ASSUME leaves PROVE Rows!Only(items) \ {m.show} \in Rows!List
  BY <1>12, <1>14, <1>15 DEF Rows!List
<1>16. RowsTypes'
  <2>1. cache' \subseteq Rows!Entry /\ \A d, e \in cache' : d = e
    <3>1. CASE leaves
      BY <1>6, <1>15, <3>1, RowsFresh
    <3>2. CASE ~leaves
      BY <1>1, <1>6, <3>2, RowsStale DEF RowsTypes
    <3> QED BY <3>1, <3>2
  <2>2. items' \subseteq Rows!List /\ \A k, l \in items' : k = l
    BY <1>1, <1>6, <1>15 DEF RowsTypes
  <2>3. fetches' \subseteq Rows!Fetches /\ \A f \in fetches' : \A k, l \in f.got : k = l
    BY <1>1, <1>2, <1>8 DEF RowsTypes
  <2> QED BY <1>1, <1>2, <1>3, <1>7, <2>1, <2>2, <2>3 DEF RowsTypes
<1>17. RowsPlaced'
  <2>1. place' # "row" => items' = {}
    BY <1>1, <1>2, <1>6, <1>14 DEF RowsPlaced
  <2>2. \A f \in fetches' : f.alive = TRUE => place = "row" /\ f.of = profile /\ f.why = "load"
    BY <1>1, <1>2, <1>8 DEF RowsPlaced
  <2>3. \A f \in finds' : f.alive = TRUE => place = "row" /\ f.of = profile
    BY <1>1, <1>2, <1>7 DEF RowsPlaced
  <2> QED BY <1>1, <1>2, <2>1, <2>2, <2>3 DEF RowsPlaced
<1>18. ASSUME missed' \subseteq {"progress"} PROVE RowsServed'
  <2>1. RowsServed
    BY <1>2, <1>18 DEF RowsInv
  <2> SUFFICES ASSUME NEW f \in fetches, NEW l \in f.got PROVE RowAgrees(l, f.of)'
    BY <1>2, <1>8 DEF RowsServed
  <2>2. CASE l = server[f.of]
    BY <1>2, <2>2 DEF RowAgrees
  <2>3. CASE l # server[f.of]
    <3>1. m.type # "unwatched_stale" /\ m.of # f.of
      BY <1>11, <1>18, <2>3 DEF Rows!Crosses
    <3> QED BY <1>13, <2>1, <3>1 DEF RowsServed
  <2> QED BY <2>2, <2>3
<1>19. ASSUME missed' \subseteq {"progress"}, leaves, NEW k, k = Rows!Only(items) \ {m.show} PROVE RowAgrees(k, p)'
  <2>1. RowsCached /\ RowsAlike /\ key = profile
    BY <1>1, <1>2, <1>14, <1>19 DEF RowsInv, RowsPlaced
  <2>2. PICK l \in Rows!List : l = Rows!Only(items) /\ items = {l}
    BY <1>12, <1>14, <1>19
  <2>3. PICK e \in cache : e.items = l
    BY <1>14, <1>19, <2>1, <2>2 DEF RowsAlike
  <2>4. e.stale \in BOOLEAN
    BY <1>1 DEF RowsTypes, Rows!Entry
  <2>5. m.show \in server[profile] => RowReloads' \/ RowHears("watching", m.show, p)'
    BY <1>3, <1>11, <1>19, <1>p
  <2>6. CASE e.stale = TRUE
    <3>1. l \ {m.show} = server[profile] \ {m.show}
      BY <1>11, <1>19, <2>3, <2>6 DEF Rows!Unmarks
    <3> QED BY <1>2, <1>19, <1>p, <2>2, <2>5, <3>1 DEF RowAgrees
  <2>7. CASE e.stale = FALSE
    <3>1. RowAgrees(l, profile)
      BY <2>1, <2>3, <2>7 DEF RowsCached
    <3>2. ASSUME NEW x \in server[profile] \ (l \ {m.show}) PROVE RowReloads' \/ RowHears("watching", x, p)'
      <4>1. CASE x = m.show
        BY <2>5, <3>2, <4>1
      <4>2. CASE x # m.show
        BY <1>3, <1>5, <1>14, <1>19, <1>p, <3>1, <3>2, <4>2 DEF RowAgrees
      <4> QED BY <4>1, <4>2
    <3>3. ASSUME NEW x \in (l \ {m.show}) \ server[profile]
          PROVE  RowReloads' \/ RowHears("other", x, p)' \/ RowHears("timecode", x, p)'
      BY <1>3, <1>5, <1>14, <1>19, <1>p, <3>1, <3>3 DEF RowAgrees
    <3> QED BY <1>2, <1>19, <1>p, <2>2, <3>2, <3>3 DEF RowAgrees
  <2> QED BY <2>4, <2>6, <2>7
<1>20. ASSUME missed' \subseteq {"progress"} PROVE RowsCached'
  <2>1. RowsCached
    BY <1>2, <1>20 DEF RowsInv
  <2>2. CASE leaves
    <3>1. key = profile
      BY <1>1, <1>14, <2>2 DEF RowsPlaced
    <3>2. \A e \in cache' : e.items = Rows!Only(items) \ {m.show}
      BY <1>6, <1>15, <2>2, RowsFresh
    <3>3. PICK k : k = Rows!Only(items) \ {m.show}
      OBVIOUS
    <3>4. RowAgrees(k, p)'
      BY <1>19, <1>20, <2>2, <3>3
    <3>5. key' = p
      BY <1>2, <1>p, <3>1
    <3> QED BY <3>2, <3>3, <3>4, <3>5 DEF RowsCached
  <2>3. CASE ~leaves /\ mine
    <3>1. \A e \in cache' : e.stale = TRUE
      BY <1>1, <1>6, <2>3, RowsStale
    <3> QED BY <3>1 DEF RowsCached
  <2>4. CASE ~leaves /\ ~mine
    <3>1. cache' = cache /\ m.type # "unwatched_stale" /\ m.of # key
      BY <1>6, <1>11, <1>20, <1>a, <2>4
    <3> QED BY <1>2, <1>13, <2>1, <3>1 DEF RowsCached
  <2> QED BY <2>2, <2>3, <2>4
<1>21. ASSUME missed' \subseteq {"progress"} PROVE RowsAlike'
  <2>1. RowsAlike
    BY <1>2, <1>21 DEF RowsInv
  <2>2. CASE leaves
    <3>1. {e.items : e \in cache'} = {Rows!Only(items) \ {m.show}}
      BY <1>6, <1>15, <2>2, RowsFresh
    <3> QED BY <1>6, <2>2, <3>1 DEF RowsAlike
  <2>3. CASE ~leaves
    <3>1. {e.items : e \in cache'} = {e.items : e \in cache}
      BY <1>1, <1>6, <2>3, RowsStale
    <3> QED BY <1>2, <1>6, <2>1, <2>3, <3>1 DEF RowsAlike
  <2> QED BY <2>2, <2>3
<1>22. ASSUME missed' = {} PROVE RowsShown'
  <2>1. RowsShown
    BY <1>2, <1>22 DEF RowsInv
  <2> SUFFICES ASSUME place = "row" PROVE (\E f \in fetches' : f.alive = TRUE) \/ \E l \in items' : RowComes(l)'
    BY <1>2 DEF RowsShown
  <2>s. place = "row"
    OBVIOUS
  <2>2. CASE \E f \in fetches : f.alive = TRUE
    BY <1>2, <2>2
  <2>3. CASE m.type = "unwatched_stale"
    BY <1>2, <1>8, <1>10, <2>3
  <2>4. CASE m.type # "unwatched_stale" /\ \E l \in items : RowComes(l)
    <3>1. PICK l \in items : RowComes(l)
      BY <2>4
    <3>2. items = {l} /\ Rows!Only(items) = l /\ items # {}
      BY <1>1, <3>1 DEF Rows!Only, RowsTypes
    <3>3. \A f \in finds : f \in finds'
      BY <1>2
    <3>4. CASE m.of # profile
      <4>1. items' = items
        BY <1>6, <1>a, <2>4, <3>4
      <4>2. RowComes(l)'
        BY <1>2, <1>3, <1>5, <2>4, <3>1, <3>3, <3>4 DEF RowComes
      <4> QED BY <3>1, <4>1, <4>2
    <3>5. CASE m.of = profile /\ m.type = "watching"
      <4>1. items' = items
        BY <1>6, <1>a, <3>5
      <4>2. m.show \notin l => \E f \in finds' : f.alive = TRUE /\ f.show = m.show
        BY <1>2, <1>7, <1>9, <1>a, <2>s, <3>2, <3>5
      <4>3. ASSUME NEW x \in server[profile] \ l
            PROVE  RowReloads' \/ RowHears("watching", x, p)' \/ \E f \in finds' : f.alive = TRUE /\ f.show = x
        BY <1>3, <1>5, <1>p, <2>4, <3>1, <3>3, <4>2, <4>3 DEF RowComes
      <4>4. ASSUME NEW x \in l \ server[profile]
            PROVE  RowReloads' \/ RowHears("other", x, p)' \/ RowHears("timecode", x, p)'
        BY <1>3, <1>5, <1>p, <2>4, <3>1, <3>5, <4>4 DEF RowComes
      <4>5. RowComes(l)'
        BY <1>2, <1>p, <4>3, <4>4 DEF RowComes
      <4> QED BY <3>1, <4>1, <4>5
    <3>6. CASE m.of = profile /\ m.type = "timecode"
      BY <1>11, <1>22, <1>a, <2>s, <3>2, <3>6
    <3>7. CASE m.of = profile /\ m.type = "other" /\ m.show \in l
      <4>1. leaves
        BY <1>a, <2>s, <3>2, <3>7
      <4>2. items' = {l \ {m.show}}
        BY <1>6, <3>2, <4>1
      <4>3. m.show \in server[profile] => RowReloads' \/ RowHears("watching", m.show, p)'
        BY <1>3, <1>11, <1>22, <1>p, <4>1
      <4>4. ASSUME NEW x \in server[profile] \ (l \ {m.show})
            PROVE  RowReloads' \/ RowHears("watching", x, p)' \/ \E f \in finds' : f.alive = TRUE /\ f.show = x
        BY <1>3, <1>5, <1>p, <2>4, <3>1, <3>3, <3>7, <4>3, <4>4 DEF RowComes
      <4>5. ASSUME NEW x \in (l \ {m.show}) \ server[profile]
            PROVE  RowReloads' \/ RowHears("other", x, p)' \/ RowHears("timecode", x, p)'
        BY <1>3, <1>5, <1>p, <2>4, <3>1, <3>7, <4>5 DEF RowComes
      <4>6. PICK k : k = l \ {m.show}
        OBVIOUS
      <4>7. RowComes(k)'
        BY <1>2, <1>p, <4>4, <4>5, <4>6 DEF RowComes
      <4> QED BY <4>2, <4>6, <4>7
    <3>8. CASE m.of = profile /\ m.type = "other" /\ m.show \notin l
      <4>1. items' = items
        BY <1>6, <1>a, <3>2, <3>8
      <4>2. ASSUME NEW x \in server[profile] \ l
            PROVE  RowReloads' \/ RowHears("watching", x, p)' \/ \E f \in finds' : f.alive = TRUE /\ f.show = x
        BY <1>3, <1>5, <1>p, <2>4, <3>1, <3>3, <3>8, <4>2 DEF RowComes
      <4>3. ASSUME NEW x \in l \ server[profile]
            PROVE  RowReloads' \/ RowHears("other", x, p)' \/ RowHears("timecode", x, p)'
        BY <1>3, <1>5, <1>p, <2>4, <3>1, <3>8, <4>3 DEF RowComes
      <4>4. RowComes(l)'
        BY <1>2, <1>p, <4>2, <4>3 DEF RowComes
      <4> QED BY <3>1, <4>1, <4>4
    <3> QED BY <1>4, <2>4, <3>4, <3>5, <3>6, <3>7, <3>8
  <2> QED BY <2>1, <2>2, <2>3, <2>4 DEF RowsShown
<1> QED BY <1>16, <1>17, <1>18, <1>20, <1>21, <1>22 DEF RowsInv

\* The card of a message joins the list.
LEMMA RowsFound ==
    ASSUME RowsInv, NEW f \in finds, Rows!Found(f)
    PROVE  RowsInv'
<1> DEFINE kept == IF f.alive THEN items ELSE f.items
           joined == Rows!Only(kept) \cup {f.show}
           joins == kept # {} /\ f.show \notin Rows!Only(kept)
<1>1. RowsTypes /\ RowsPlaced /\ f \in Rows!Finds
  BY DEF RowsInv, RowsTypes
<1>2. f.show \in Show /\ f.of \in Profile /\ f.alive \in BOOLEAN /\ f.items \subseteq Rows!List
  BY <1>1 DEF Rows!Finds
<1>3. /\ finds' = finds \ {f} /\ UNCHANGED <<server, profile, place, key, fetches, feed>>
      /\ missed \subseteq missed'
  BY DEF Rows!Found
<1>4. kept # {} => Rows!Only(kept) \in Rows!List
  BY <1>1, <1>2 DEF Rows!Only, RowsTypes
<1>5. kept # {} => joined \in Rows!List
  BY <1>2, <1>4 DEF Rows!List
<1>6. /\ joins => cache' = Rows!Fresh(joined) /\ items' = IF f.alive THEN {joined} ELSE items
      /\ ~joins => UNCHANGED <<items, cache>>
  BY DEF Rows!Found
<1>7. missed' \subseteq {"progress"} =>
        /\ f.of = key /\ f.alive = TRUE /\ ~Rows!Unmarks(f.of, f.show)
        /\ f.show \notin server[f.of] => ~Rows!Final("other", f.of, f.show, feed)
  BY <1>2 DEF Rows!Found
<1> HIDE DEF joined
<1>8. RowsTypes'
  <2>1. cache' \subseteq Rows!Entry /\ \A d, e \in cache' : d = e
    BY <1>1, <1>5, <1>6, RowsFresh DEF RowsTypes
  <2>2. items' \subseteq Rows!List /\ \A k, l \in items' : k = l
    BY <1>1, <1>5, <1>6 DEF RowsTypes
  <2> QED BY <1>1, <1>3, <2>1, <2>2 DEF RowsTypes
<1>9. RowsPlaced'
  BY <1>1, <1>2, <1>3, <1>6 DEF RowsPlaced
<1>10. ASSUME missed' \subseteq {"progress"}
       PROVE  /\ place = "row" /\ f.of = profile /\ key = profile /\ kept = items
              /\ f.show \notin server[profile] => RowReloads \/ RowHears("other", f.show, profile)
  BY <1>1, <1>7, <1>10 DEF RowsPlaced, Rows!Final, RowReloads, RowHears
<1>11. ASSUME missed' \subseteq {"progress"}, joins PROVE RowAgrees(joined, profile)
  <2>1. RowsCached /\ RowsAlike
    BY <1>3, <1>11 DEF RowsInv
  <2>2. PICK l \in Rows!List : l = Rows!Only(items) /\ items = {l} /\ joined = l \cup {f.show}
    BY <1>1, <1>4, <1>10, <1>11 DEF joined, RowsTypes, Rows!Only
  <2>3. PICK e \in cache : e.items = l
    BY <1>10, <1>11, <2>1, <2>2 DEF RowsAlike
  <2>4. e.stale \in BOOLEAN
    BY <1>1 DEF RowsTypes, Rows!Entry
  <2>5. CASE e.stale = TRUE
    <3>1. l \ {f.show} = server[profile] \ {f.show}
      BY <1>7, <1>10, <1>11, <2>3, <2>5 DEF Rows!Unmarks
    <3> QED BY <1>10, <1>11, <2>2, <3>1 DEF RowAgrees
  <2>6. CASE e.stale = FALSE
    <3>1. RowAgrees(l, profile)
      BY <1>10, <1>11, <2>1, <2>3, <2>6 DEF RowsCached
    <3> QED BY <1>10, <1>11, <2>2, <3>1 DEF RowAgrees
  <2> QED BY <2>4, <2>5, <2>6
<1>12. ASSUME missed' \subseteq {"progress"} PROVE RowsServed' /\ RowsCached' /\ RowsAlike'
  <2>1. RowsServed /\ RowsCached /\ RowsAlike
    BY <1>3, <1>12 DEF RowsInv
  <2>2. RowsServed'
    BY <1>3, <2>1, RowsFrame DEF RowsServed
  <2>3. CASE joins
    <3>1. /\ \A e \in cache' : e.items = joined /\ e.stale = FALSE
          /\ {e.items : e \in cache'} = {joined} /\ items' = {joined}
      BY <1>5, <1>6, <1>7, <1>12, <2>3, RowsFresh
    <3>2. RowAgrees(joined, profile)
      BY <1>11, <1>12, <2>3
    <3>3. RowsCached'
      BY <1>3, <1>10, <1>12, <3>1, <3>2, RowsFrame DEF RowsCached
    <3> QED BY <2>2, <3>1, <3>3 DEF RowsAlike
  <2>4. CASE ~joins
    <3>1. cache' = cache /\ items' = items
      BY <1>6, <2>4
    <3> QED BY <1>3, <2>1, <2>2, <3>1, RowsFrame DEF RowsCached, RowsAlike
  <2> QED BY <2>3, <2>4
<1>13. ASSUME missed' = {} PROVE RowsShown'
  <2>1. RowsShown /\ missed' \subseteq {"progress"}
    BY <1>3, <1>13 DEF RowsInv
  <2>2. CASE \E g \in fetches : g.alive = TRUE
    BY <1>3, <2>2 DEF RowsShown
  <2>3. CASE \E l \in items : RowComes(l)
    <3>1. PICK l \in items : RowComes(l)
      BY <2>3
    <3>2. items = {l} /\ Rows!Only(items) = l /\ items # {}
      BY <1>1, <3>1 DEF Rows!Only, RowsTypes
    <3>3. kept = items /\ f.of = profile
      BY <1>10, <2>1
    <3>4. \A x : x # f.show /\ (\E g \in finds : g.alive = TRUE /\ g.show = x) => \E g \in finds' : g.alive = TRUE /\ g.show = x
      BY <1>3
    <3>5. RowReloads' = RowReloads /\ \A t, s, p : RowHears(t, s, p)' = RowHears(t, s, p)
      BY <1>3 DEF RowReloads, RowHears
    <3>6. CASE joins
      <4>1. items' = {joined} /\ joined = l \cup {f.show}
        BY <1>6, <1>7, <2>1, <3>2, <3>3, <3>6 DEF joined
      <4>2. RowAgrees(joined, profile)
        BY <1>11, <2>1, <3>6
      <4>3. PICK k : k = joined
        OBVIOUS
      <4>4. RowComes(k)'
        BY <1>3, <3>5, <4>2, <4>3 DEF RowAgrees, RowComes
      <4> QED BY <4>1, <4>3, <4>4 DEF RowsShown
    <3>7. CASE ~joins
      <4>1. items' = items /\ f.show \in l
        BY <1>6, <3>2, <3>3, <3>7
      <4>2. RowComes(l)'
        BY <1>3, <3>1, <3>4, <3>5, <4>1 DEF RowComes
      <4> QED BY <3>1, <4>1, <4>2 DEF RowsShown
    <3> QED BY <3>6, <3>7
  <2>4. CASE place # "row"
    BY <1>10, <2>1, <2>4
  <2> QED BY <2>1, <2>2, <2>3, <2>4 DEF RowsShown
<1> QED BY <1>8, <1>9, <1>12, <1>13 DEF RowsInv

LEMMA RowsKept == ASSUME RowsInv, Rows!Next \/ UNCHANGED Rows!vars PROVE RowsInv'
<1>1. CASE UNCHANGED Rows!vars
  <2>1. RowsTypes' /\ RowsPlaced'
    BY <1>1 DEF RowsInv, RowsTypes, RowsPlaced, Rows!vars
  <2>2. UNCHANGED <<server, profile, place, items, cache, key, fetches, finds, feed, missed>>
    BY <1>1 DEF Rows!vars
  <2>3. ASSUME missed \subseteq {"progress"} PROVE RowsServed' /\ RowsCached' /\ RowsAlike'
    BY <2>2, <2>3, RowsFrame DEF RowsInv, RowsServed, RowsCached, RowsAlike
  <2>4. ASSUME missed = {} PROVE RowsShown'
    BY <2>2, <2>4, RowsFrame DEF RowsInv, RowsShown
  <2> QED BY <2>1, <2>2, <2>3, <2>4 DEF RowsInv
<1> QED BY <1>1, RowsShow, RowsFlip, RowsLeave, RowsRefresh, RowsSwitch, RowsServe, RowsGot, RowsFail,
           RowsElsewhere, RowsDay, RowsHere, RowsMessage, RowsFound DEF Rows!Next

\* Nothing under way: the lists are those of the server.
LEMMA RowsSettle == ASSUME RowsInv PROVE Rows!SettledRowsAreCurrent
<1> SUFFICES ASSUME Rows!Quiet, missed \subseteq {"progress"}, key = profile
             PROVE  /\ \A e \in cache : ~e.stale => e.items = server[profile]
                    /\ place = "row" /\ missed = {} => items = {server[profile]}
  BY DEF Rows!SettledRowsAreCurrent
<1>1. RowsTypes /\ profile \in Profile /\ server[profile] \in Rows!List
  BY DEF RowsInv, RowsTypes
<1>2. ~RowReloads /\ \A t, s, p : ~RowHears(t, s, p)
  BY DEF Rows!Quiet, RowReloads, RowHears
<1>3. \A l \in Rows!List : RowAgrees(l, profile) \/ RowComes(l) => l = server[profile]
  BY <1>1, <1>2 DEF RowAgrees, RowComes, Rows!Quiet, Rows!List
<1>4. ASSUME NEW e \in cache, ~e.stale PROVE e.items = server[profile]
  <2>1. e.items \in Rows!List /\ e.stale = FALSE
    BY <1>1, <1>4 DEF RowsTypes, Rows!Entry
  <2>2. RowAgrees(e.items, profile)
    BY <2>1 DEF RowsInv, RowsCached
  <2> QED BY <1>3, <2>1, <2>2
<1>5. ASSUME place = "row", missed = {} PROVE items = {server[profile]}
  <2>1. PICK l \in items : RowComes(l)
    BY <1>5 DEF RowsInv, RowsShown, Rows!Quiet
  <2> QED BY <1>1, <1>3, <2>1 DEF RowsTypes
<1> QED BY <1>4, <1>5

-----------------------------------------------------------------------------
(* A row of the page "Mine", and its cache (LibraryRow) *)

\* A message that has the row loaded again, and one about a show of a profile, are under way.
LibReloads == \E i \in DOMAIN feed : feed[i].type = "unwatched_stale"
LibHears(type, s, p) == \E i \in DOMAIN feed : feed[i] = Library!Told(type, s, p)

\* Wherever a list differs from what the server has, the message that says so is under way.
LibAgrees(l, p) ==
    /\ \A s \in server[p] \ l : LibReloads \/ LibHears("in", s, p)
    /\ \A s \in l \ server[p] : LibReloads \/ LibHears("out", s, p) \/ LibHears("timecode", s, p)

\* ... or the card that is missing is being fetched.
LibComes(l, p) ==
    /\ \A s \in server[p] \ l :
         LibReloads \/ LibHears("in", s, p) \/ \E f \in finds : f.show = s /\ f.of = p
    /\ \A s \in l \ server[p] : LibReloads \/ LibHears("out", s, p) \/ LibHears("timecode", s, p)

LibAwaited(p) == \E f \in fetches : f.of = p

LibTypes ==
    /\ server \in [Profile -> Library!List]
    /\ profile \in Profile /\ key \in Profile
    /\ place \in {"row", "away"} /\ loaded \in BOOLEAN
    /\ items \subseteq Library!List /\ \A k, l \in items : k = l
    /\ cache \subseteq Library!List /\ \A k, l \in cache : k = l
    /\ fetches \subseteq Library!Fetches /\ \A f \in fetches : \A k, l \in f.got : k = l
    /\ finds \subseteq Library!Finds
    /\ feed \in Seq(Library!Messages)

LibPlaced ==
    /\ place = "row" => key = profile
    /\ place # "row" => items = {}
    /\ \A f \in fetches : f.alive = TRUE => place = "row"
    /\ \A f \in finds : f.alive = TRUE => place = "row"

\* Answers under way agree with the server; what is cached and what is shown will, unless
\* the list is still to come.
LibServed == \A f \in fetches : \A l \in f.got : LibAgrees(l, f.of)
LibCached == \A l \in cache : LibComes(l, key) \/ LibAwaited(key)
LibShown ==
    place = "row" =>
        /\ cache \subseteq items
        /\ \A l \in items : LibComes(l, profile) \/ LibAwaited(profile)
        /\ loaded = TRUE => items # {} \/ LibAwaited(profile)

LibInv ==
    /\ LibTypes /\ LibPlaced
    /\ missed = {} => LibServed /\ LibCached /\ LibShown

LEMMA LibFrame ==
    ASSUME UNCHANGED <<server, feed>>
    PROVE  /\ \A l, p : LibAgrees(l, p)' <=> LibAgrees(l, p)
           /\ \A l, p : LibAgrees(l, p) => LibComes(l, p)'
           /\ (\A f \in finds : \E g \in finds' : g.show = f.show /\ g.of = f.of)
                => \A l, p : LibComes(l, p) => LibComes(l, p)'
<1>1. LibReloads' <=> LibReloads
  BY DEF LibReloads
<1>2. \A t, s, p : LibHears(t, s, p)' <=> LibHears(t, s, p)
  BY DEF LibHears
<1> QED BY <1>1, <1>2 DEF LibAgrees, LibComes

LEMMA LibAsk ==
    ASSUME NEW p \in Profile, NEW why \in {"load", "stale"}
    PROVE  /\ Library!Ask(why, p) \in Library!Fetches /\ (Library!Ask(why, p)).of = p /\ (Library!Ask(why, p)).alive = TRUE
           /\ (Library!Ask(why, p)).got = {}
<1>1. PICK none \in SUBSET Library!List : none = {}
  OBVIOUS
<1>2. PICK y \in BOOLEAN : y = TRUE
  OBVIOUS
<1>3. [why |-> why, of |-> p, alive |-> y, got |-> none] \in Library!Fetches
  BY DEF Library!Fetches
<1> DEFINE a == Library!Ask(why, p)
<1>4. a = [why |-> why, of |-> p, alive |-> y, got |-> none]
  BY <1>1, <1>2 DEF Library!Ask
<1> HIDE DEF a
<1>5. a \in Library!Fetches /\ a.of = p /\ a.alive = TRUE /\ a.got = {}
  BY <1>1, <1>2, <1>3, <1>4
<1> QED BY <1>5 DEF a

LEMMA LibOrphaned ==
    ASSUME LibTypes
    PROVE  /\ Library!Orphaned \subseteq Library!Fetches
           /\ \A g \in Library!Orphaned : g.alive = FALSE /\ \E f \in fetches : g.of = f.of /\ g.got = f.got
           /\ \A f \in fetches : \E g \in Library!Orphaned : g.of = f.of
<1>1. ASSUME NEW g \in Library!Orphaned PROVE g \in Library!Fetches /\ g.alive = FALSE /\ \E f \in fetches : g.of = f.of /\ g.got = f.got
  <2>1. PICK f \in fetches : g = [f EXCEPT !.alive = FALSE]
    BY <1>1 DEF Library!Orphaned
  <2>2. f \in Library!Fetches
    BY DEF LibTypes
  <2> QED BY <2>1, <2>2 DEF Library!Fetches
<1>2. ASSUME NEW f \in fetches PROVE \E g \in Library!Orphaned : g.of = f.of
  <2>1. f \in Library!Fetches
    BY DEF LibTypes
  <2>2. PICK g : g = [f EXCEPT !.alive = FALSE]
    OBVIOUS
  <2>3. g.of = f.of
    BY <2>1, <2>2 DEF Library!Fetches
  <2> QED BY <2>2, <2>3 DEF Library!Orphaned
<1> QED BY <1>1, <1>2

LEMMA LibOrphanedFinds ==
    ASSUME LibTypes
    PROVE  /\ Library!OrphanedFinds \subseteq Library!Finds
           /\ \A g \in Library!OrphanedFinds : g.alive = FALSE
           /\ \A f \in finds : \E g \in Library!OrphanedFinds : g.show = f.show /\ g.of = f.of
<1>1. ASSUME NEW f \in finds, NEW g, g = [f EXCEPT !.alive = FALSE, !.items = IF f.alive THEN items ELSE @]
      PROVE  g \in Library!Finds /\ g.alive = FALSE /\ g.show = f.show /\ g.of = f.of
  <2>1. f \in Library!Finds /\ items \subseteq Library!List
    BY DEF LibTypes
  <2> DEFINE x == IF f.alive THEN items ELSE f.items
  <2>2. x \subseteq Library!List
    BY <2>1 DEF Library!Finds
  <2>3. g = [f EXCEPT !.alive = FALSE, !.items = x]
    BY <1>1, <2>1 DEF Library!Finds
  <2> HIDE DEF x
  <2> QED BY <2>1, <2>2, <2>3 DEF Library!Finds
<1>2. ASSUME NEW g \in Library!OrphanedFinds PROVE g \in Library!Finds /\ g.alive = FALSE
  BY <1>1, <1>2 DEF Library!OrphanedFinds
<1>3. ASSUME NEW f \in finds PROVE \E g \in Library!OrphanedFinds : g.show = f.show /\ g.of = f.of
  <2>1. PICK g : g = [f EXCEPT !.alive = FALSE, !.items = IF f.alive THEN items ELSE @]
    OBVIOUS
  <2>2. g \in Library!OrphanedFinds
    BY <2>1 DEF Library!OrphanedFinds
  <2> QED BY <1>1, <2>1, <2>2
<1> QED BY <1>2, <1>3

\* The first load: the row is latched only with a request.
LEMMA LibLoads ==
    ASSUME NEW p \in Profile, NEW was \in BOOLEAN, NEW ready, NEW others, Library!loadItems(was, ready, others, p)
    PROVE  /\ loaded' \in BOOLEAN
           /\ \A f \in fetches' : f \in others \/ (f \in Library!Fetches /\ f.got = {})
           /\ others \subseteq fetches'
           /\ loaded' = TRUE => was = TRUE \/ \E f \in fetches' : f.of = p
<1>1. CASE loaded' = was /\ fetches' = others
  BY <1>1
<1>2. CASE loaded' = TRUE /\ fetches' = others \cup {Library!Ask("load", p)}
  <2>1. PICK a : a = Library!Ask("load", p)
    OBVIOUS
  <2>2. a \in Library!Fetches /\ a.of = p /\ a.got = {}
    BY <2>1, LibAsk
  <2> QED BY <1>2, <2>1, <2>2
<1> QED BY <1>1, <1>2 DEF Library!loadItems

LEMMA LibStart == ASSUME Library!Init PROVE LibInv
<1>1. server \in [Profile -> Library!List] /\ feed \in Seq(Library!Messages)
  BY DEF Library!Init, Library!List
<1>2. LibTypes /\ LibPlaced
  BY <1>1 DEF Library!Init, LibTypes, LibPlaced
<1> QED BY <1>2 DEF Library!Init, LibInv, LibServed, LibCached, LibShown

LEMMA LibShow == ASSUME LibInv, Library!ShowRow PROVE LibInv'
<1>1. LibTypes /\ LibPlaced
  BY DEF LibInv
<1>2. /\ place = "away" /\ place' = "row" /\ key' = profile
      /\ cache' = (IF key = profile THEN cache ELSE {}) /\ items' = cache'
      /\ UNCHANGED <<server, profile, finds, feed, missed>>
  BY DEF Library!ShowRow
<1>3. PICK was \in BOOLEAN : was = (cache' # {})
  OBVIOUS
<1>4. Library!loadItems(was, FALSE, fetches, profile)
  BY <1>3 DEF Library!ShowRow
<1>5. profile \in Profile
  BY <1>1 DEF LibTypes
<1>6. PICK no : no = FALSE
  OBVIOUS
<1>7. Library!loadItems(was, no, fetches, profile)
  BY <1>4, <1>6
<1>8. PICK others : others = fetches
  OBVIOUS
<1>9. /\ loaded' \in BOOLEAN
      /\ \A f \in fetches' : f \in fetches \/ (f \in Library!Fetches /\ f.got = {})
      /\ fetches \subseteq fetches'
      /\ loaded' = TRUE => was = TRUE \/ \E f \in fetches' : f.of = profile
  BY <1>5, <1>7, LibLoads
<1>10. LibTypes'
  <2>1. cache' \subseteq Library!List /\ \A k, l \in cache' : k = l
    BY <1>1, <1>2 DEF LibTypes
  <2>2. fetches' \subseteq Library!Fetches /\ \A f \in fetches' : \A k, l \in f.got : k = l
    BY <1>1, <1>9 DEF LibTypes
  <2> QED BY <1>1, <1>2, <1>9, <2>1, <2>2 DEF LibTypes
<1>11. LibPlaced'
  BY <1>1, <1>2 DEF LibPlaced
<1>12. ASSUME missed = {} PROVE LibServed' /\ LibCached' /\ LibShown'
  <2>1. LibServed /\ LibCached
    BY <1>12 DEF LibInv
  <2>2. LibServed'
    BY <1>2, <1>9, <2>1, LibFrame DEF LibServed
  <2>3. \A l \in cache' : key = profile /\ (LibComes(l, profile)' \/ LibAwaited(profile)')
    <3> SUFFICES ASSUME NEW l \in cache' PROVE key = profile /\ (LibComes(l, profile)' \/ LibAwaited(profile)')
      OBVIOUS
    <3>1. key = profile /\ l \in cache
      BY <1>2
    <3>2. CASE LibComes(l, profile)
      BY <1>2, <3>1, <3>2, LibFrame
    <3>3. CASE LibAwaited(profile)
      BY <1>2, <1>9, <3>1, <3>3 DEF LibAwaited
    <3> QED BY <2>1, <3>1, <3>2, <3>3 DEF LibCached
  <2>4. LibCached'
    BY <1>2, <2>3 DEF LibCached
  <2>5. LibShown'
    BY <1>2, <1>3, <1>9, <2>3 DEF LibShown, LibAwaited
  <2> QED BY <2>2, <2>4, <2>5
<1> QED BY <1>2, <1>10, <1>11, <1>12 DEF LibInv

LEMMA LibLeave == ASSUME LibInv, Library!Leave PROVE LibInv'
<1>1. LibTypes /\ LibPlaced
  BY DEF LibInv
<1>2. /\ place' = "away" /\ items' = {} /\ loaded' = FALSE /\ fetches' = Library!Orphaned /\ finds' = Library!OrphanedFinds
      /\ UNCHANGED <<server, profile, cache, key, feed, missed>>
  BY DEF Library!Leave
<1>3. /\ Library!Orphaned \subseteq Library!Fetches
      /\ \A g \in Library!Orphaned : g.alive = FALSE /\ \E f \in fetches : g.of = f.of /\ g.got = f.got
      /\ \A f \in fetches : \E g \in Library!Orphaned : g.of = f.of
  BY <1>1, LibOrphaned
<1>4. /\ Library!OrphanedFinds \subseteq Library!Finds /\ \A g \in Library!OrphanedFinds : g.alive = FALSE
      /\ \A f \in finds : \E g \in Library!OrphanedFinds : g.show = f.show /\ g.of = f.of
  BY <1>1, LibOrphanedFinds
<1>5. LibTypes'
  <2>1. \A f \in fetches' : \A k, l \in f.got : k = l
    BY <1>1, <1>2, <1>3 DEF LibTypes
  <2> QED BY <1>1, <1>2, <1>3, <1>4, <2>1 DEF LibTypes
<1>6. LibPlaced'
  BY <1>2, <1>3, <1>4 DEF LibPlaced
<1>7. ASSUME missed = {} PROVE LibServed' /\ LibCached'
  <2>1. LibServed /\ LibCached
    BY <1>7 DEF LibInv
  <2>2. LibServed'
    <3> SUFFICES ASSUME NEW g \in fetches', NEW l \in g.got PROVE LibAgrees(l, g.of)'
      BY DEF LibServed
    <3> QED BY <1>2, <1>3, <2>1, LibFrame DEF LibServed
  <2>3. LibCached'
    BY <1>2, <1>3, <1>4, <2>1, LibFrame DEF LibCached, LibAwaited
  <2> QED BY <2>2, <2>3
<1> QED BY <1>2, <1>5, <1>6, <1>7 DEF LibInv, LibShown

\* A row that is wiped, of the profile p from now on: what it shows comes.
LEMMA LibWiped ==
    ASSUME LibInv, NEW p \in Profile, NEW others, others \subseteq Library!Fetches,
           \A g \in others : \E f \in fetches : g.of = f.of /\ g.got = f.got,
           NEW no, no = FALSE, Library!loadItems(no, no, others, p),
           place = "row", profile' = p, key' = p, cache' = {}, items' = {},
           finds' \subseteq Library!Finds, UNCHANGED <<server, place, feed, missed>>
    PROVE  LibInv'
<1>1. LibTypes /\ LibPlaced
  BY DEF LibInv
<1>2. /\ loaded' \in BOOLEAN
      /\ \A f \in fetches' : f \in others \/ (f \in Library!Fetches /\ f.got = {})
      /\ loaded' = TRUE => \E f \in fetches' : f.of = p
  <2>1. no \in BOOLEAN
    OBVIOUS
  <2> QED BY <2>1, LibLoads
<1>3. LibTypes'
  <2>1. fetches' \subseteq Library!Fetches /\ \A f \in fetches' : \A k, l \in f.got : k = l
    BY <1>1, <1>2 DEF LibTypes
  <2> QED BY <1>1, <1>2, <2>1 DEF LibTypes
<1>4. LibPlaced'
  BY DEF LibPlaced
<1>5. ASSUME missed = {} PROVE LibServed'
  <2>1. LibServed
    BY <1>5 DEF LibInv
  <2> SUFFICES ASSUME NEW g \in fetches', NEW l \in g.got PROVE LibAgrees(l, g.of)'
    BY DEF LibServed
  <2>2. g \in others
    BY <1>2
  <2> QED BY <2>1, <2>2, LibFrame DEF LibServed
<1>6. LibCached' /\ LibShown'
  BY <1>2 DEF LibCached, LibShown, LibAwaited
<1> QED BY <1>3, <1>4, <1>5, <1>6 DEF LibInv

LEMMA LibRefresh == ASSUME LibInv, Library!softRefresh PROVE LibInv'
<1>1. LibTypes /\ LibPlaced /\ profile \in Profile
  BY DEF LibInv, LibTypes
<1>2. PICK others : others = Library!Orphaned
  OBVIOUS
<1>3. PICK no : no = FALSE
  OBVIOUS
<1>4. PICK p \in Profile : p = profile
  BY <1>1
<1>5. others \subseteq Library!Fetches /\ \A g \in others : \E f \in fetches : g.of = f.of /\ g.got = f.got
  BY <1>1, <1>2, LibOrphaned
<1>6. /\ place = "row" /\ profile' = p /\ key' = p /\ cache' = {} /\ items' = {}
      /\ finds' = Library!OrphanedFinds /\ UNCHANGED <<server, place, feed, missed>>
      /\ Library!loadItems(no, no, others, p)
  BY <1>1, <1>2, <1>3, <1>4 DEF Library!softRefresh, LibPlaced
<1>7. finds' \subseteq Library!Finds
  BY <1>1, <1>6, LibOrphanedFinds
<1> QED BY <1>3, <1>4, <1>5, <1>6, <1>7, LibWiped

LEMMA LibSwitch ==
    ASSUME LibInv, NEW p \in Profile, Library!SwitchProfile(p)
    PROVE  LibInv'
<1>1. LibTypes /\ LibPlaced
  BY DEF LibInv
<1>2. profile' = p /\ UNCHANGED <<server, place, finds, feed, missed>>
  BY DEF Library!SwitchProfile
<1>3. CASE place = "away"
  <2>1. UNCHANGED <<items, loaded, cache, key, fetches>>
    BY <1>3 DEF Library!SwitchProfile
  <2>2. LibTypes' /\ LibPlaced'
    BY <1>1, <1>2, <1>3, <2>1 DEF LibTypes, LibPlaced
  <2>3. ASSUME missed = {} PROVE LibServed' /\ LibCached'
    BY <1>2, <2>1, <2>3, LibFrame DEF LibInv, LibServed, LibCached, LibAwaited
  <2> QED BY <1>2, <1>3, <2>2, <2>3 DEF LibInv, LibShown
<1>4. CASE place = "row"
  <2>1. PICK others : others = fetches
    OBVIOUS
  <2>2. PICK no : no = FALSE
    OBVIOUS
  <2>3. others \subseteq Library!Fetches /\ \A g \in others : \E f \in fetches : g.of = f.of /\ g.got = f.got
    BY <1>1, <2>1 DEF LibTypes
  <2>4. key' = p /\ cache' = {} /\ items' = {} /\ Library!loadItems(no, no, others, p)
    BY <1>4, <2>1, <2>2 DEF Library!SwitchProfile
  <2>5. finds' \subseteq Library!Finds
    BY <1>1, <1>2 DEF LibTypes
  <2> QED BY <1>2, <1>4, <2>2, <2>3, <2>4, <2>5, LibWiped
<1> QED BY <1>1, <1>3, <1>4 DEF LibTypes

LEMMA LibSorted == ASSUME LibInv, Library!SortLoaded PROVE LibInv'
<1>1. LibTypes /\ LibPlaced /\ profile \in Profile /\ loaded \in BOOLEAN
  BY DEF LibInv, LibTypes
<1>2. PICK others : others = fetches
  OBVIOUS
<1>3. PICK yes : yes = TRUE
  OBVIOUS
<1>4. PICK was \in BOOLEAN : was = loaded
  BY <1>1
<1>5. /\ place = "row" /\ Library!loadItems(was, yes, others, profile)
      /\ UNCHANGED <<server, profile, place, items, cache, key, finds, feed, missed>>
  BY <1>2, <1>3, <1>4 DEF Library!SortLoaded
<1>6. /\ loaded' \in BOOLEAN
      /\ \A f \in fetches' : f \in others \/ (f \in Library!Fetches /\ f.got = {})
      /\ others \subseteq fetches'
      /\ loaded' = TRUE => was = TRUE \/ \E f \in fetches' : f.of = profile
  BY <1>1, <1>5, LibLoads
<1>7. LibTypes' /\ LibPlaced'
  <2>1. fetches' \subseteq Library!Fetches /\ \A f \in fetches' : \A k, l \in f.got : k = l
    BY <1>1, <1>2, <1>6 DEF LibTypes
  <2> QED BY <1>1, <1>5, <1>6, <2>1 DEF LibTypes, LibPlaced
<1>8. ASSUME missed = {} PROVE LibServed' /\ LibCached' /\ LibShown'
  <2>1. LibServed /\ LibCached /\ LibShown
    BY <1>8 DEF LibInv
  <2>2. LibServed'
    BY <1>2, <1>5, <1>6, <2>1, LibFrame DEF LibServed
  <2>3. LibCached'
    BY <1>2, <1>5, <1>6, <2>1, LibFrame DEF LibCached, LibAwaited
  <2>4. LibShown'
    BY <1>2, <1>4, <1>5, <1>6, <2>1, LibFrame DEF LibShown, LibAwaited
  <2> QED BY <2>2, <2>3, <2>4
<1> QED BY <1>5, <1>7, <1>8 DEF LibInv

LEMMA LibServe ==
    ASSUME LibInv, NEW f \in fetches, Library!Serve(f)
    PROVE  LibInv'
<1>1. LibTypes /\ LibPlaced /\ f \in Library!Fetches /\ f.of \in Profile
  BY DEF LibInv, LibTypes, Library!Fetches
<1>2. PICK cur \in Library!List : cur = server[f.of]
  BY <1>1 DEF LibTypes
<1>3. PICK g : g = [f EXCEPT !.got = {cur}]
  OBVIOUS
<1>4. /\ fetches' = (fetches \ {f}) \cup {g}
      /\ UNCHANGED <<server, profile, place, items, loaded, cache, key, finds, feed, missed>>
  BY <1>2, <1>3 DEF Library!Serve
<1>5. g \in Library!Fetches /\ g.of = f.of /\ g.alive = f.alive /\ g.got = {cur}
  BY <1>1, <1>2, <1>3 DEF Library!Fetches
<1>6. LibTypes' /\ LibPlaced'
  <2>1. fetches' \subseteq Library!Fetches /\ \A h \in fetches' : \A k, l \in h.got : k = l
    BY <1>1, <1>4, <1>5 DEF LibTypes
  <2> QED BY <1>1, <1>4, <1>5, <2>1 DEF LibTypes, LibPlaced
<1>7. \A p : LibAwaited(p) => LibAwaited(p)'
  BY <1>4, <1>5 DEF LibAwaited
<1>8. ASSUME missed = {} PROVE LibServed' /\ LibCached' /\ LibShown'
  <2>1. LibServed /\ LibCached /\ LibShown
    BY <1>8 DEF LibInv
  <2>2. LibAgrees(cur, f.of)
    BY <1>2 DEF LibAgrees
  <2>3. LibServed'
    BY <1>4, <1>5, <2>1, <2>2, LibFrame DEF LibServed
  <2>4. LibCached'
    BY <1>4, <1>7, <2>1, LibFrame DEF LibCached, LibAwaited
  <2>5. LibShown'
    BY <1>4, <1>7, <2>1, LibFrame DEF LibShown, LibAwaited
  <2> QED BY <2>3, <2>4, <2>5
<1> QED BY <1>4, <1>6, <1>8 DEF LibInv

LEMMA LibGot ==
    ASSUME LibInv, NEW f \in fetches, Library!Got(f)
    PROVE  LibInv'
<1>1. LibTypes /\ LibPlaced /\ f \in Library!Fetches /\ \A k, l \in f.got : k = l
  BY DEF LibInv, LibTypes
<1>2. PICK cur \in f.got : TRUE
  BY DEF Library!Got
<1>3. f.got = {cur} /\ cur \in Library!List /\ f.alive \in BOOLEAN
  BY <1>1, <1>2 DEF Library!Fetches
<1>4. /\ fetches' = fetches \ {f} /\ items' = (IF f.alive THEN {cur} ELSE items) /\ cache' = {cur}
      /\ UNCHANGED <<server, profile, place, loaded, key, finds, feed>>
  BY <1>3 DEF Library!Got
<1>5. LibTypes'
  BY <1>1, <1>3, <1>4 DEF LibTypes
<1>6. LibPlaced'
  BY <1>1, <1>3, <1>4 DEF LibPlaced
<1>7. ASSUME missed' = {} PROVE missed = {} /\ f.of = key /\ (place = "row" => items' = {cur})
  BY <1>3, <1>4, <1>7 DEF Library!Got
<1>8. ASSUME missed' = {} PROVE LibServed' /\ LibCached' /\ LibShown'
  <2>1. LibServed
    BY <1>7, <1>8 DEF LibInv
  <2>2. LibAgrees(cur, key)
    BY <1>2, <1>7, <1>8, <2>1 DEF LibServed
  <2>3. LibComes(cur, key)'
    BY <1>4, <2>2, LibFrame
  <2>4. LibServed'
    BY <1>4, <2>1, LibFrame DEF LibServed
  <2>5. LibCached'
    BY <1>4, <2>3 DEF LibCached
  <2>6. LibShown'
    BY <1>1, <1>4, <1>7, <1>8, <2>3 DEF LibShown, LibPlaced
  <2> QED BY <2>4, <2>5, <2>6
<1> QED BY <1>5, <1>6, <1>8 DEF LibInv

LEMMA LibFail ==
    ASSUME LibInv, \/ \E f \in fetches : Library!FetchFails(f)
                   \/ Library!MessageLost
                   \/ \E f \in finds : Library!FindFails(f)
    PROVE  LibInv'
<1>1. LibTypes /\ LibPlaced
  BY DEF LibInv
<1>2. /\ fetches' \subseteq fetches /\ finds' \subseteq finds /\ feed' \in Seq(Library!Messages)
      /\ items' \subseteq Library!List /\ \A k, l \in items' : k = l
      /\ place # "row" => items' = {}
      /\ "failed" \in missed' /\ UNCHANGED <<server, profile, place, loaded, cache, key>>
  <2>1. ASSUME NEW f \in fetches, Library!FetchFails(f)
        PROVE  /\ fetches' \subseteq fetches /\ finds' \subseteq finds /\ feed' \in Seq(Library!Messages)
               /\ items' \subseteq Library!List /\ \A k, l \in items' : k = l
               /\ place # "row" => items' = {}
               /\ "failed" \in missed' /\ UNCHANGED <<server, profile, place, loaded, cache, key>>
    <3>1. {} \in Library!List /\ f.alive \in BOOLEAN
      BY <1>1 DEF Library!List, LibTypes, Library!Fetches
    <3>2. /\ items' = IF f.alive /\ f.why = "load" THEN {{}} ELSE items
          /\ fetches' = fetches \ {f} /\ "failed" \in missed'
          /\ UNCHANGED <<server, profile, place, loaded, cache, key, finds, feed>>
      BY <2>1 DEF Library!FetchFails
    <3> QED BY <1>1, <3>1, <3>2 DEF LibTypes, LibPlaced
  <2>2. CASE Library!MessageLost
    <3>1. feed \in Seq(Library!Messages)
      BY <1>1 DEF LibTypes
    <3> QED BY <1>1, <2>2, <3>1, QueueTail DEF Library!MessageLost, LibTypes, LibPlaced
  <2>3. CASE \E f \in finds : Library!FindFails(f)
    BY <1>1, <2>3 DEF Library!FindFails, LibTypes, LibPlaced
  <2> QED BY <2>1, <2>2, <2>3
<1>3. LibTypes'
  BY <1>1, <1>2 DEF LibTypes
<1>4. LibPlaced'
  BY <1>1, <1>2 DEF LibPlaced
<1> QED BY <1>2, <1>3, <1>4 DEF LibInv

\* What is under way stays so when a message joins the queue ...
LEMMA LibHear ==
    ASSUME LibTypes, NEW m \in Library!Messages, feed' = Append(feed, m)
    PROVE  /\ feed' \in Seq(Library!Messages)
           /\ LibReloads => LibReloads'
           /\ m.type = "unwatched_stale" => LibReloads'
           /\ \A t, s, p : LibHears(t, s, p) => LibHears(t, s, p)'
           /\ \A t, s, p : m = Library!Told(t, s, p) => LibHears(t, s, p)'
<1>1. feed \in Seq(Library!Messages)
  BY DEF LibTypes
<1>2. /\ feed' \in Seq(Library!Messages) /\ Len(feed) \in Nat
      /\ DOMAIN feed = 1..Len(feed) /\ DOMAIN feed' = 1..Len(feed) + 1
      /\ feed'[Len(feed) + 1] = m
      /\ \A i \in 1..Len(feed) : feed'[i] = feed[i]
  BY <1>1, QueueAppend
<1>3. \A i \in DOMAIN feed : i \in DOMAIN feed' /\ feed'[i] = feed[i]
  BY <1>2
<1>4. Len(feed) + 1 \in DOMAIN feed' /\ feed'[Len(feed) + 1] = m
  BY <1>2
<1> QED BY <1>2, <1>3, <1>4 DEF LibReloads, LibHears

\* ... and when the first one is taken, but for that one.
LEMMA LibTake ==
    ASSUME LibTypes, feed # <<>>, feed' = Tail(feed)
    PROVE  /\ Head(feed) \in Library!Messages /\ feed' \in Seq(Library!Messages)
           /\ LibReloads => LibReloads' \/ Head(feed).type = "unwatched_stale"
           /\ \A t, s, p : LibHears(t, s, p) => LibHears(t, s, p)' \/ Head(feed) = Library!Told(t, s, p)
           /\ \A t, s, p : ~Library!Final(t, p, s, Tail(feed)) => LibReloads' \/ LibHears(t, s, p)'
<1>1. feed \in Seq(Library!Messages)
  BY DEF LibTypes
<1>2. /\ Head(feed) = feed[1] /\ Head(feed) \in Library!Messages /\ feed' \in Seq(Library!Messages)
      /\ Len(feed) \in Nat \ {0} /\ DOMAIN feed = 1..Len(feed) /\ DOMAIN feed' = 1..Len(feed) - 1
      /\ \A i \in 1..Len(feed) - 1 : feed'[i] = feed[i + 1]
  BY <1>1, QueueTail
<1>3. \A i \in DOMAIN feed : feed[i] = Head(feed) \/ \E j \in DOMAIN feed' : feed'[j] = feed[i]
  <2> SUFFICES ASSUME NEW i \in DOMAIN feed, i # 1
               PROVE  \E j \in DOMAIN feed' : feed'[j] = feed[i]
    BY <1>2
  <2>1. i - 1 \in 1..Len(feed) - 1 /\ (i - 1) + 1 = i
    BY <1>2
  <2> QED BY <1>2, <2>1
<1> QED BY <1>2, <1>3 DEF LibReloads, LibHears, Library!Final

\* One show of one profile changes, and its message is sent.
LEMMA LibChanged ==
    ASSUME LibInv, NEW p \in Profile, NEW s \in Show, NEW type \in {"in", "out", "timecode"},
           server' = [server EXCEPT ![p] = IF type = "in" THEN server[p] \cup {s} ELSE server[p] \ {s}],
           feed' = Append(feed, Library!Told(type, s, p)),
           UNCHANGED <<profile, place, items, loaded, cache, key, fetches, finds, missed>>
    PROVE  LibInv'
<1>1. LibTypes /\ LibPlaced
  BY DEF LibInv
<1>2. Library!Told(type, s, p) \in Library!Messages
  BY DEF Library!Told, Library!Messages
<1>3. /\ feed' \in Seq(Library!Messages)
      /\ LibReloads => LibReloads'
      /\ \A t, x, q : LibHears(t, x, q) => LibHears(t, x, q)'
      /\ LibHears(type, s, p)'
  BY <1>1, <1>2, LibHear
<1>4. server' \in [Profile -> Library!List]
  BY <1>1 DEF LibTypes, Library!List
<1>5. \A q \in Profile :
        /\ \A x \in server'[q] : x \in server[q] \/ (q = p /\ x = s /\ type = "in")
        /\ \A x : x \notin server'[q] => x \notin server[q] \/ (q = p /\ x = s /\ type \in {"out", "timecode"})
  <2>1. server'[p] = IF type = "in" THEN server[p] \cup {s} ELSE server[p] \ {s}
    BY <1>1 DEF LibTypes
  <2>2. \A q \in Profile : q # p => server'[q] = server[q]
    BY <1>1 DEF LibTypes
  <2> QED BY <2>1, <2>2
<1>6. ASSUME NEW q \in Profile, NEW l, LibAgrees(l, q) PROVE LibAgrees(l, q)'
  <2>1. ASSUME NEW x \in server'[q] \ l PROVE LibReloads' \/ LibHears("in", x, q)'
    BY <1>3, <1>5, <1>6, <2>1 DEF LibAgrees
  <2>2. ASSUME NEW x \in l \ server'[q] PROVE LibReloads' \/ LibHears("out", x, q)' \/ LibHears("timecode", x, q)'
    BY <1>3, <1>5, <1>6, <2>2 DEF LibAgrees
  <2> QED BY <2>1, <2>2 DEF LibAgrees
<1>7. ASSUME NEW q \in Profile, NEW l, LibComes(l, q) PROVE LibComes(l, q)'
  <2>1. ASSUME NEW x \in server'[q] \ l
        PROVE  LibReloads' \/ LibHears("in", x, q)' \/ \E f \in finds : f.show = x /\ f.of = q
    BY <1>3, <1>5, <1>7, <2>1 DEF LibComes
  <2>2. ASSUME NEW x \in l \ server'[q]
        PROVE  LibReloads' \/ LibHears("out", x, q)' \/ LibHears("timecode", x, q)'
    BY <1>3, <1>5, <1>7, <2>2 DEF LibComes
  <2> QED BY <2>1, <2>2 DEF LibComes
<1>8. LibTypes' /\ LibPlaced'
  BY <1>1, <1>3, <1>4 DEF LibTypes, LibPlaced
<1>9. key \in Profile /\ profile \in Profile /\ \A f \in fetches : f.of \in Profile
  BY <1>1 DEF LibTypes, Library!Fetches
<1>10. ASSUME missed = {} PROVE LibServed' /\ LibCached' /\ LibShown'
  <2>1. PICK q \in Profile : q = key
    BY <1>9
  <2>2. PICK r \in Profile : r = profile
    BY <1>9
  <2>3. LibServed /\ LibCached /\ LibShown
    BY <1>10 DEF LibInv
  <2>4. LibServed'
    BY <1>6, <1>9, <2>3 DEF LibServed
  <2>5. LibCached'
    BY <1>7, <2>1, <2>3 DEF LibCached, LibAwaited
  <2>6. LibShown'
    BY <1>7, <2>2, <2>3 DEF LibShown, LibAwaited
  <2> QED BY <2>4, <2>5, <2>6
<1> QED BY <1>8, <1>10 DEF LibInv

LEMMA LibElsewhere ==
    ASSUME LibInv, \/ \E p \in Profile, s \in Show : Library!FinishedElsewhere(p, s)
                   \/ \E p \in Profile, s \in Show, type \in {"in", "out"} : Library!StatusElsewhere(p, s, type)
    PROVE  LibInv'
<1>1. ASSUME NEW p \in Profile, NEW s \in Show, Library!FinishedElsewhere(p, s) PROVE LibInv'
  <2>1. PICK type \in {"in", "out", "timecode"} : type = "timecode"
    OBVIOUS
  <2>2. /\ server' = [server EXCEPT ![p] = IF type = "in" THEN server[p] \cup {s} ELSE server[p] \ {s}]
        /\ feed' = Append(feed, Library!Told(type, s, p))
        /\ UNCHANGED <<profile, place, items, loaded, cache, key, fetches, finds, missed>>
    BY <1>1, <2>1 DEF Library!FinishedElsewhere, Library!Changed
  <2> QED BY <2>2, LibChanged
<1>2. ASSUME NEW p \in Profile, NEW s \in Show, NEW type \in {"in", "out"}, Library!StatusElsewhere(p, s, type)
      PROVE  LibInv'
  <2>1. /\ server' = [server EXCEPT ![p] = IF type = "in" THEN server[p] \cup {s} ELSE server[p] \ {s}]
        /\ feed' = Append(feed, Library!Told(type, s, p)) /\ type \in {"in", "out", "timecode"}
        /\ UNCHANGED <<profile, place, items, loaded, cache, key, fetches, finds, missed>>
    BY <1>2 DEF Library!StatusElsewhere, Library!Changed
  <2> QED BY <2>1, LibChanged
<1> QED BY <1>1, <1>2

\* The message of a new day has the row loaded again.
LEMMA LibDay ==
    ASSUME LibInv, NEW s \in Show, Library!DayPasses(s)
    PROVE  LibInv'
<1>1. LibTypes /\ LibPlaced
  BY DEF LibInv
<1>2. PICK m : m = [type |-> "unwatched_stale"]
  OBVIOUS
<1>3. m \in Library!Messages /\ m.type = "unwatched_stale"
  BY <1>2 DEF Library!Messages
<1>4. /\ server' = [server EXCEPT ![profile] = server[profile] \cup {s}] /\ feed' = Append(feed, m)
      /\ UNCHANGED <<profile, place, items, loaded, cache, key, fetches, finds, missed>>
  BY <1>2 DEF Library!DayPasses, Library!Changed
<1>5. feed' \in Seq(Library!Messages) /\ LibReloads'
  BY <1>1, <1>3, <1>4, LibHear
<1>6. server' \in [Profile -> Library!List]
  BY <1>1, <1>4 DEF LibTypes, Library!List
<1>7. (\A l, p : LibAgrees(l, p)') /\ (\A l, p : LibComes(l, p)')
  BY <1>5 DEF LibAgrees, LibComes
<1>8. LibTypes' /\ LibPlaced'
  BY <1>1, <1>4, <1>5, <1>6 DEF LibTypes, LibPlaced
<1>9. ASSUME missed = {} PROVE LibServed' /\ LibCached' /\ LibShown'
  <2>1. LibServed' /\ LibCached'
    BY <1>7 DEF LibServed, LibCached
  <2>2. LibShown'
    BY <1>4, <1>7, <1>9 DEF LibInv, LibShown, LibAwaited
  <2> QED BY <2>1, <2>2
<1> QED BY <1>4, <1>8, <1>9 DEF LibInv

\* A change made on a card, with no answer on its way that does not know it.
LEMMA LibHere ==
    ASSUME LibInv, NEW s \in Show, Library!ChangeHere(s)
    PROVE  LibInv'
<1>1. LibTypes /\ LibPlaced /\ profile \in Profile
  BY DEF LibInv, LibTypes
<1>2. PICK l \in Library!List : l = IF s \in server[profile] THEN server[profile] \ {s} ELSE server[profile] \cup {s}
  BY <1>1 DEF LibTypes, Library!List
<1>3. /\ place = "away" /\ server' = [server EXCEPT ![profile] = l] /\ cache' = {}
      /\ UNCHANGED <<profile, place, items, loaded, key, fetches, finds, feed>>
      /\ missed \subseteq missed'
  BY <1>2 DEF Library!ChangeHere, Library!Changed, Library!Lost
<1>4. missed' = {} => \A f \in fetches : f.got # {} => f.of # profile
  BY DEF Library!ChangeHere, Library!Lost
<1>5. server' \in [Profile -> Library!List] /\ \A q \in Profile : q # profile => server'[q] = server[q]
  BY <1>1, <1>3 DEF LibTypes
<1>6. LibTypes' /\ LibPlaced'
  BY <1>1, <1>3, <1>5 DEF LibTypes, LibPlaced
<1>7. ASSUME missed' = {} PROVE LibServed'
  <2> SUFFICES ASSUME NEW f \in fetches, NEW x \in f.got PROVE LibAgrees(x, f.of)'
    BY <1>3 DEF LibServed
  <2>1. f.of # profile /\ f.of \in Profile
    BY <1>1, <1>4, <1>7 DEF LibTypes, Library!Fetches
  <2>2. LibAgrees(x, f.of)
    BY <1>3, <1>7 DEF LibInv, LibServed
  <2>3. server'[f.of] = server[f.of]
    BY <1>5, <2>1
  <2>4. LibReloads' <=> LibReloads
    BY <1>3 DEF LibReloads
  <2>5. \A t, y, q : LibHears(t, y, q)' <=> LibHears(t, y, q)
    BY <1>3 DEF LibHears
  <2> QED BY <2>2, <2>3, <2>4, <2>5 DEF LibAgrees
<1> QED BY <1>3, <1>6, <1>7 DEF LibInv, LibCached, LibShown

\* Whatever message is taken: what was on its way but for it still is.
LEMMA LibMessage == ASSUME LibInv, Library!Message PROVE LibInv'
<1>m. PICK m : m = Head(feed)
  OBVIOUS
<1>p. PICK p : p = profile
  OBVIOUS
<1> DEFINE mine == m.type = "unwatched_stale" \/ (m.type # "unwatched_stale" /\ m.of = profile)
           shows == mine /\ place = "row" /\ items # {}
           leaves == shows /\ m.type = "out" /\ m.show \in Library!Only(items)
           more == IF shows /\ m.type = "in" /\ m.show \notin Library!Only(items)
                   THEN {[show |-> m.show, of |-> profile, alive |-> TRUE, items |-> {}]} ELSE {}
           again == IF m.type = "unwatched_stale" /\ place = "row" THEN {Library!Ask("stale", profile)} ELSE {}
<1>1. LibTypes /\ LibPlaced /\ profile \in Profile /\ server[profile] \in Library!List
  BY DEF LibInv, LibTypes
<1>2. /\ feed # <<>> /\ feed' = Tail(feed)
      /\ finds' = finds \cup more /\ fetches' = fetches \cup again
      /\ UNCHANGED <<server, profile, place, loaded, key>>
      /\ missed \subseteq missed'
  BY <1>m DEF Library!Message
<1>3. /\ m \in Library!Messages /\ feed' \in Seq(Library!Messages)
      /\ LibReloads => LibReloads' \/ m.type = "unwatched_stale"
      /\ \A t, s, q : LibHears(t, s, q) => LibHears(t, s, q)' \/ m = Library!Told(t, s, q)
      /\ \A t, s, q : ~Library!Final(t, q, s, Tail(feed)) => LibReloads' \/ LibHears(t, s, q)'
  BY <1>1, <1>2, <1>m, LibTake
<1>4. m.type = "unwatched_stale" \/ (m.type \in {"in", "out", "timecode"} /\ m.show \in Show /\ m.of \in Profile)
  BY <1>3 DEF Library!Messages, Library!Told
<1>5. \A t \in {"in", "out", "timecode"} : \A s, q : m = Library!Told(t, s, q) => m.type = t /\ m.show = s /\ m.of = q
  BY DEF Library!Told
<1>6. /\ leaves => items' = {Library!Only(items) \ {m.show}} /\ cache' = {Library!Only(items) \ {m.show}}
      /\ ~leaves => items' = items /\ cache' = IF mine THEN {} ELSE cache
  BY <1>m DEF Library!Message
<1>7. \A a \in more : /\ a \in Library!Finds /\ a.of = profile /\ a.alive = TRUE /\ a.show = m.show
                      /\ place = "row"
  <2>1. CASE shows /\ m.type = "in" /\ m.show \notin Library!Only(items)
    <3>1. PICK none \in SUBSET Library!List : none = {}
      OBVIOUS
    <3>2. PICK y \in BOOLEAN : y = TRUE
      OBVIOUS
    <3>3. m.show \in Show
      BY <1>4, <2>1
    <3>4. PICK a : a = [show |-> m.show, of |-> profile, alive |-> y, items |-> none]
      OBVIOUS
    <3>5. more = {a}
      BY <2>1, <3>1, <3>2, <3>4
    <3>6. a \in Library!Finds /\ a.of = profile /\ a.alive = y /\ a.show = m.show
      BY <1>1, <3>3, <3>4 DEF Library!Finds
    <3> QED BY <2>1, <3>2, <3>5, <3>6
  <2>2. CASE ~(shows /\ m.type = "in" /\ m.show \notin Library!Only(items))
    BY <2>2
  <2> QED BY <2>1, <2>2
<1>8. \A a \in again : /\ a \in Library!Fetches /\ a.of = profile /\ a.alive = TRUE /\ a.got = {}
                       /\ place = "row"
  BY <1>1, LibAsk
<1>9. m.type = "in" /\ shows /\ m.show \notin Library!Only(items) => \E a \in more : TRUE
  OBVIOUS
<1>10. m.type = "unwatched_stale" /\ place = "row" => \E a \in again : TRUE
  OBVIOUS
<1>11. missed' = {} => /\ ~Library!Crosses(m) /\ (~mine => m.of # key)
                       /\ leaves /\ m.show \in server[profile] => ~Library!Final("in", profile, m.show, Tail(feed))
                       /\ ~(shows /\ m.type = "timecode")
  BY <1>m DEF Library!Message
<1>12. ASSUME items # {} PROVE items = {Library!Only(items)} /\ Library!Only(items) \in Library!List
  BY <1>1, <1>12 DEF Library!Only, LibTypes
<1>a. /\ mine <=> m.type = "unwatched_stale" \/ m.of = profile
      /\ shows <=> mine /\ place = "row" /\ items # {}
      /\ leaves <=> shows /\ m.type = "out" /\ m.show \in Library!Only(items)
  BY <1>4
<1> HIDE DEF mine, shows, leaves, more, again
<1>13. ASSUME m.type # "unwatched_stale", NEW q, m.of # q
       PROVE  \A l : (LibAgrees(l, q) => LibAgrees(l, q)') /\ (LibComes(l, q) => LibComes(l, q)')
  <2>1. ASSUME NEW l, LibAgrees(l, q) PROVE LibAgrees(l, q)'
    BY <1>2, <1>3, <1>5, <1>13, <2>1 DEF LibAgrees
  <2>2. ASSUME NEW l, LibComes(l, q) PROVE LibComes(l, q)'
    BY <1>2, <1>3, <1>5, <1>13, <2>2 DEF LibComes
  <2> QED BY <2>1, <2>2
<1>14. ASSUME leaves PROVE place = "row" /\ items # {} /\ m.type = "out" /\ m.of = profile /\ m.show \in Show
  BY <1>4, <1>14, <1>a
<1>15. ASSUME leaves PROVE Library!Only(items) \ {m.show} \in Library!List
  BY <1>12, <1>14, <1>15 DEF Library!List
<1>16. LibTypes'
  <2>1. cache' \subseteq Library!List /\ \A k, l \in cache' : k = l
    BY <1>1, <1>6, <1>15 DEF LibTypes
  <2>2. items' \subseteq Library!List /\ \A k, l \in items' : k = l
    BY <1>1, <1>6, <1>15 DEF LibTypes
  <2>3. fetches' \subseteq Library!Fetches /\ \A f \in fetches' : \A k, l \in f.got : k = l
    BY <1>1, <1>2, <1>8 DEF LibTypes
  <2> QED BY <1>1, <1>2, <1>3, <1>7, <2>1, <2>2, <2>3 DEF LibTypes
<1>17. LibPlaced'
  <2>1. place' # "row" => items' = {}
    BY <1>1, <1>2, <1>6, <1>14 DEF LibPlaced
  <2> QED BY <1>1, <1>2, <1>7, <1>8, <2>1 DEF LibPlaced
<1>18. ASSUME missed' = {} PROVE LibServed'
  <2>1. LibServed
    BY <1>2, <1>18 DEF LibInv
  <2> SUFFICES ASSUME NEW f \in fetches, NEW l \in f.got PROVE LibAgrees(l, f.of)'
    BY <1>2, <1>8 DEF LibServed
  <2>2. CASE l = server[f.of]
    BY <1>2, <2>2 DEF LibAgrees
  <2>3. CASE l # server[f.of]
    <3>1. m.type # "unwatched_stale" /\ m.of # f.of
      BY <1>11, <1>18, <2>3 DEF Library!Crosses
    <3> QED BY <1>13, <2>1, <3>1 DEF LibServed
  <2> QED BY <2>2, <2>3
\* What the row shows after the message.
<1>19. ASSUME missed' = {}, place = "row", NEW l, items = {l}, LibComes(l, profile), m.type # "unwatched_stale"
       PROVE  \A k \in items' : LibComes(k, profile)'
  <2>1. Library!Only(items) = l /\ items # {}
    BY <1>19 DEF Library!Only
  <2>2. \A f \in finds : f \in finds'
    BY <1>2
  <2>3. CASE m.of # profile
    <3>1. items' = items
      BY <1>6, <1>a, <1>19, <2>3
    <3> QED BY <1>2, <1>13, <1>19, <2>3, <3>1
  <2>4. CASE m.of = profile /\ m.type = "in"
    <3>1. items' = items
      BY <1>6, <1>a, <2>4
    <3>2. m.show \notin l => \E f \in finds' : f.show = m.show /\ f.of = p
      BY <1>2, <1>7, <1>9, <1>a, <1>p, <1>19, <2>1, <2>4
    <3>3. ASSUME NEW x \in server[p] \ l
          PROVE  LibReloads' \/ LibHears("in", x, p)' \/ \E f \in finds' : f.show = x /\ f.of = p
      BY <1>3, <1>5, <1>p, <1>19, <2>2, <3>2, <3>3 DEF LibComes
    <3>4. ASSUME NEW x \in l \ server[p]
          PROVE  LibReloads' \/ LibHears("out", x, p)' \/ LibHears("timecode", x, p)'
      BY <1>3, <1>5, <1>p, <1>19, <2>4, <3>4 DEF LibComes
    <3>5. LibComes(l, p)'
      BY <1>2, <3>3, <3>4 DEF LibComes
    <3> QED BY <1>2, <1>p, <1>19, <3>1, <3>5
  <2>5. CASE m.of = profile /\ m.type = "timecode"
    BY <1>11, <1>19, <1>a, <2>1, <2>5
  <2>6. CASE m.of = profile /\ m.type = "out" /\ m.show \in l
    <3>1. leaves
      BY <1>a, <1>19, <2>1, <2>6
    <3>2. PICK k : k = l \ {m.show}
      OBVIOUS
    <3>3. items' = {k}
      BY <1>6, <2>1, <3>1, <3>2
    <3>4. m.show \in server[p] => LibReloads' \/ LibHears("in", m.show, p)'
      BY <1>3, <1>11, <1>19, <1>p, <3>1
    <3>5. ASSUME NEW x \in server[p] \ k
          PROVE  LibReloads' \/ LibHears("in", x, p)' \/ \E f \in finds' : f.show = x /\ f.of = p
      BY <1>3, <1>5, <1>p, <1>19, <2>2, <2>6, <3>2, <3>4, <3>5 DEF LibComes
    <3>6. ASSUME NEW x \in k \ server[p]
          PROVE  LibReloads' \/ LibHears("out", x, p)' \/ LibHears("timecode", x, p)'
      BY <1>3, <1>5, <1>p, <1>19, <2>6, <3>2, <3>6 DEF LibComes
    <3>7. LibComes(k, p)'
      BY <1>2, <3>5, <3>6 DEF LibComes
    <3> QED BY <1>2, <1>p, <3>3, <3>7
  <2>7. CASE m.of = profile /\ m.type = "out" /\ m.show \notin l
    <3>1. items' = items
      BY <1>6, <1>a, <2>1, <2>7
    <3>2. ASSUME NEW x \in server[p] \ l
          PROVE  LibReloads' \/ LibHears("in", x, p)' \/ \E f \in finds' : f.show = x /\ f.of = p
      BY <1>3, <1>5, <1>p, <1>19, <2>2, <2>7, <3>2 DEF LibComes
    <3>3. ASSUME NEW x \in l \ server[p]
          PROVE  LibReloads' \/ LibHears("out", x, p)' \/ LibHears("timecode", x, p)'
      BY <1>3, <1>5, <1>p, <1>19, <2>7, <3>3 DEF LibComes
    <3>4. LibComes(l, p)'
      BY <1>2, <3>2, <3>3 DEF LibComes
    <3> QED BY <1>2, <1>p, <1>19, <3>1, <3>4
  <2> QED BY <1>4, <1>19, <2>3, <2>4, <2>5, <2>6, <2>7
<1>20. LibAwaited(key) => LibAwaited(key)'
  BY <1>2 DEF LibAwaited
<1>21. ASSUME missed' = {}, place = "row"
       PROVE  \A k \in items' : LibComes(k, profile)' \/ LibAwaited(profile)'
  <2>1. LibShown
    BY <1>2, <1>21 DEF LibInv
  <2>2. CASE m.type = "unwatched_stale"
    BY <1>2, <1>8, <1>10, <1>21, <2>2 DEF LibAwaited
  <2>3. CASE LibAwaited(profile)
    BY <1>2, <2>3 DEF LibAwaited
  <2>4. CASE m.type # "unwatched_stale" /\ ~LibAwaited(profile)
    <3>1. CASE items = {}
      BY <1>6, <1>14, <3>1
    <3>2. CASE items # {}
      <4>1. PICK l : l = Library!Only(items)
        OBVIOUS
      <4>2. items = {l}
        BY <1>12, <3>2, <4>1
      <4>3. LibComes(l, profile)
        BY <1>21, <2>1, <2>4, <4>2 DEF LibShown
      <4> QED BY <1>19, <1>21, <2>4, <4>2, <4>3
    <3> QED BY <3>1, <3>2
  <2> QED BY <2>2, <2>3, <2>4
<1>22. ASSUME missed' = {} PROVE LibCached'
  <2>1. LibCached
    BY <1>2, <1>22 DEF LibInv
  <2>2. CASE leaves
    <3>1. key' = profile /\ place = "row" /\ cache' = items' /\ profile' = profile
      BY <1>1, <1>2, <1>6, <1>14, <2>2 DEF LibPlaced
    <3> QED BY <1>21, <1>22, <3>1 DEF LibCached
  <2>3. CASE ~leaves /\ mine
    BY <1>6, <2>3 DEF LibCached
  <2>4. CASE ~leaves /\ ~mine
    <3>1. cache' = cache /\ m.type # "unwatched_stale" /\ m.of # key
      BY <1>6, <1>11, <1>22, <1>a, <2>4
    <3>2. PICK q : q = key
      OBVIOUS
    <3>3. \A l : LibComes(l, q) => LibComes(l, q)'
      BY <1>13, <3>1, <3>2
    <3> QED BY <1>2, <1>20, <2>1, <3>1, <3>2, <3>3 DEF LibCached
  <2> QED BY <2>2, <2>3, <2>4
<1>23. ASSUME missed' = {} PROVE LibShown'
  <2>1. LibShown
    BY <1>2, <1>23 DEF LibInv
  <2>2. place = "row" => cache' \subseteq items'
    BY <1>6, <2>1 DEF LibShown
  <2>3. items # {} => items' # {}
    BY <1>6
  <2>4. LibAwaited(profile) => LibAwaited(profile)'
    BY <1>2 DEF LibAwaited
  <2> QED BY <1>2, <1>21, <1>23, <2>1, <2>2, <2>3, <2>4 DEF LibShown
<1> QED BY <1>16, <1>17, <1>18, <1>22, <1>23 DEF LibInv

\* The card of a message joins the list.
LEMMA LibFound ==
    ASSUME LibInv, NEW f \in finds, Library!Found(f)
    PROVE  LibInv'
<1>p. PICK p : p = profile
  OBVIOUS
<1> DEFINE kept == IF f.alive THEN items ELSE f.items
           joined == Library!Only(kept) \cup {f.show}
           joins == kept # {} /\ f.show \notin Library!Only(kept)
<1>1. LibTypes /\ LibPlaced /\ f \in Library!Finds
  BY DEF LibInv, LibTypes
<1>2. f.show \in Show /\ f.of \in Profile /\ f.alive \in BOOLEAN /\ f.items \subseteq Library!List
  BY <1>1 DEF Library!Finds
<1>3. /\ finds' = finds \ {f} /\ UNCHANGED <<server, profile, place, loaded, key, fetches, feed>>
      /\ missed \subseteq missed'
  BY DEF Library!Found
<1>4. kept # {} => Library!Only(kept) \in Library!List
  BY <1>1, <1>2 DEF Library!Only, LibTypes
<1>5. kept # {} => joined \in Library!List
  BY <1>2, <1>4 DEF Library!List
<1>6. /\ joins => cache' = {joined} /\ items' = IF f.alive THEN {joined} ELSE items
      /\ ~joins => UNCHANGED <<items, cache>>
  BY DEF Library!Found
<1>7. missed' = {} =>
        /\ f.of = key /\ f.alive = TRUE
        /\ f.show \notin server[f.of] => ~Library!Final("out", f.of, f.show, feed)
  BY <1>2 DEF Library!Found
<1> HIDE DEF joined
<1>8. LibTypes'
  <2>1. cache' \subseteq Library!List /\ \A k, l \in cache' : k = l
    BY <1>1, <1>5, <1>6 DEF LibTypes
  <2>2. items' \subseteq Library!List /\ \A k, l \in items' : k = l
    BY <1>1, <1>5, <1>6 DEF LibTypes
  <2> QED BY <1>1, <1>3, <2>1, <2>2 DEF LibTypes
<1>9. LibPlaced'
  BY <1>1, <1>2, <1>3, <1>6 DEF LibPlaced
<1>10. ASSUME missed' = {}
       PROVE  /\ place = "row" /\ f.of = profile /\ key = profile /\ kept = items
              /\ f.show \notin server[profile] => LibReloads \/ LibHears("out", f.show, profile)
  BY <1>1, <1>7, <1>10 DEF LibPlaced, Library!Final, LibReloads, LibHears
<1>11. LibReloads' = LibReloads /\ \A t, s, q : LibHears(t, s, q)' = LibHears(t, s, q)
  BY <1>3 DEF LibReloads, LibHears
<1>12. ASSUME missed' = {}, NEW l, items = {l}, LibComes(l, profile) PROVE \A k \in items' : LibComes(k, profile)'
  <2>1. \A x : x # f.show /\ (\E g \in finds : g.show = x /\ g.of = p) => \E g \in finds' : g.show = x /\ g.of = p
    BY <1>3
  <2>2. Library!Only(items) = l /\ items # {}
    BY <1>12 DEF Library!Only
  <2>3. PICK k : k = l \cup {f.show}
    OBVIOUS
  <2>4. LibComes(k, p)'
    BY <1>3, <1>10, <1>11, <1>12, <1>p, <2>1, <2>3 DEF LibComes
  <2>5. items' = {k}
    <3>1. CASE joins
      BY <1>6, <1>7, <1>10, <1>12, <2>2, <2>3, <3>1 DEF joined
    <3>2. CASE ~joins
      <4>1. items' = {l} /\ f.show \in l
        BY <1>6, <1>10, <1>12, <2>2, <3>2
      <4> QED BY <2>3, <4>1
    <3> QED BY <3>1, <3>2
  <2> QED BY <1>3, <1>p, <2>4, <2>5
<1>13. ASSUME missed' = {} PROVE LibServed' /\ LibCached' /\ LibShown'
  <2>1. LibServed /\ LibCached /\ LibShown
    BY <1>3, <1>13 DEF LibInv
  <2>2. LibServed'
    BY <1>3, <2>1, LibFrame DEF LibServed
  <2>3. \A k \in items' : LibComes(k, profile)' \/ LibAwaited(profile)'
    <3>1. CASE LibAwaited(profile)
      BY <1>3, <3>1 DEF LibAwaited
    <3>2. CASE items = {}
      BY <1>6, <1>10, <1>13, <3>2
    <3>3. CASE items # {} /\ ~LibAwaited(profile)
      <4>1. PICK l : l = Library!Only(items)
        OBVIOUS
      <4>o. items = {l}
        BY <1>1, <3>3, <4>1 DEF LibTypes, Library!Only
      <4>2. LibComes(l, profile)
        BY <1>10, <1>13, <2>1, <3>3, <4>o DEF LibShown
      <4> QED BY <1>12, <1>13, <4>o, <4>2
    <3> QED BY <3>1, <3>2, <3>3
  <2>4. cache' \subseteq items' /\ (items # {} => items' # {})
    BY <1>6, <1>7, <1>10, <1>13, <2>1 DEF LibShown
  <2>5. LibAwaited(profile) => LibAwaited(profile)'
    BY <1>3 DEF LibAwaited
  <2>6. key' = profile' /\ profile' = profile /\ loaded' = loaded
    BY <1>3, <1>10, <1>13
  <2>7. LibCached'
    BY <2>3, <2>4, <2>6 DEF LibCached
  <2>8. LibShown'
    BY <1>10, <1>13, <2>1, <2>3, <2>4, <2>5, <2>6 DEF LibShown
  <2> QED BY <2>2, <2>7, <2>8
<1> QED BY <1>8, <1>9, <1>13 DEF LibInv

LEMMA LibKept == ASSUME LibInv, Library!Next \/ UNCHANGED Library!vars PROVE LibInv'
<1>1. CASE UNCHANGED Library!vars
  <2>1. LibTypes' /\ LibPlaced'
    BY <1>1 DEF LibInv, LibTypes, LibPlaced, Library!vars
  <2>2. UNCHANGED <<server, profile, place, items, loaded, cache, key, fetches, finds, feed, missed>>
    BY <1>1 DEF Library!vars
  <2>3. ASSUME missed = {} PROVE LibServed' /\ LibCached' /\ LibShown'
    BY <2>2, <2>3, LibFrame DEF LibInv, LibServed, LibCached, LibShown, LibAwaited
  <2> QED BY <2>1, <2>2, <2>3 DEF LibInv
<1> QED BY <1>1, LibShow, LibLeave, LibRefresh, LibSorted, LibSwitch, LibServe, LibGot, LibFail,
           LibElsewhere, LibDay, LibHere, LibMessage, LibFound DEF Library!Next

\* Nothing under way: the row and its cache are those of the server.
LEMMA LibSettle == ASSUME LibInv PROVE Library!SettledRowIsOfProfile
<1> SUFFICES ASSUME Library!Quiet, missed = {}, key = profile
             PROVE  /\ cache \subseteq {server[profile]}
                    /\ place = "row" /\ loaded => items = {server[profile]}
  BY DEF Library!SettledRowIsOfProfile
<1>1. LibTypes /\ LibCached /\ LibShown /\ profile \in Profile /\ server[profile] \in Library!List /\ loaded \in BOOLEAN
  BY DEF LibInv, LibTypes
<1>2. ~LibReloads /\ (\A t, s, p : ~LibHears(t, s, p)) /\ \A p : ~LibAwaited(p)
  BY DEF Library!Quiet, LibReloads, LibHears, LibAwaited
<1>3. \A l \in Library!List : LibComes(l, profile) => l = server[profile]
  BY <1>1, <1>2 DEF LibComes, Library!Quiet, Library!List
<1>4. cache \subseteq {server[profile]}
  BY <1>1, <1>2, <1>3 DEF LibCached, LibTypes
<1>5. ASSUME place = "row", loaded = TRUE PROVE items = {server[profile]}
  BY <1>1, <1>2, <1>3, <1>5 DEF LibShown, LibTypes
<1> QED BY <1>1, <1>4, <1>5

-----------------------------------------------------------------------------
(* The parts together *)

\* When nothing is under way the rows of the catalogue and of the page "Mine", and what is
\* cached of them, are those of the server, unless one of the named ways was taken; and the
\* carousel rests on a row that has cards (CatalogPage, MediaLibraryPage).
THEOREM WebRowsAlwaysComeTrue == Spec => []WebRowsComeTrue
<1> DEFINE I ==
         /\ part = "rows" => RowsInv
         /\ part = "library" => LibInv
         /\ part = "carousel" => CarouselInv
<1>1. Init => I
  BY RowsStart, LibStart, CarouselStart DEF Init
<1>2. I /\ [Next]_vars => I'
  <2> SUFFICES ASSUME I, [Next]_vars PROVE I'
    OBVIOUS
  <2>1. part' = part
    BY DEF Next, Still, vars
  <2>2. CASE part = "rows"
    <3>1. CASE Next
      <4>1. Rows!Next
        BY <2>2, <3>1 DEF Next
      <4> QED BY <2>1, <2>2, <4>1, RowsKept
    <3>2. CASE UNCHANGED vars
      <4>1. UNCHANGED Rows!vars
        BY <3>2 DEF vars, Rows!vars
      <4> QED BY <2>1, <2>2, <4>1, RowsKept
    <3> QED BY <3>1, <3>2
  <2>3. CASE part = "library"
    <3>1. CASE Next
      <4>1. Library!Next
        BY <2>3, <3>1 DEF Next
      <4> QED BY <2>1, <2>3, <4>1, LibKept
    <3>2. CASE UNCHANGED vars
      <4>1. UNCHANGED Library!vars
        BY <3>2 DEF vars, Library!vars
      <4> QED BY <2>1, <2>3, <4>1, LibKept
    <3> QED BY <3>1, <3>2
  <2>4. CASE part = "carousel"
    <3>1. CASE Next
      <4>1. Carousel!Next
        BY <2>4, <3>1 DEF Next
      <4> QED BY <2>1, <2>4, <4>1, CarouselKept
    <3>2. CASE UNCHANGED vars
      <4>1. UNCHANGED Carousel!vars
        BY <3>2 DEF vars, Carousel!vars
      <4> QED BY <2>1, <2>4, <4>1, CarouselKept
    <3> QED BY <3>1, <3>2
  <2> QED BY <2>1, <2>2, <2>3, <2>4
<1>3. I => WebRowsComeTrue
  BY RowsSettle, LibSettle, CarouselRests DEF WebRowsComeTrue
<1> QED BY <1>1, <1>2, <1>3, PTL DEF Spec

\* When nothing is under way the page of a card shows the marks, the status and the
\* favourite the server has, unless one of the named ways was taken (CardDetailPage), and
\* the administrator's page knows of its job and of its users (AdminPage).
THEOREM PagesAlwaysComeTrue == Spec => []PagesComeTrue
<1> DEFINE I ==
         /\ part = "page" => PageInv
         /\ part = "admin" => AdminInv
<1>1. Init => I
  BY PageStart, AdminStart DEF Init
<1>2. I /\ [Next]_vars => I'
  <2> SUFFICES ASSUME I, [Next]_vars PROVE I'
    OBVIOUS
  <2>1. part' = part
    BY DEF Next, Still, vars
  <2>2. CASE part = "page"
    <3>1. CASE Next
      <4>1. Page!Next
        BY <2>2, <3>1 DEF Next
      <4> QED BY <2>1, <2>2, <4>1, PageKept
    <3>2. CASE UNCHANGED vars
      <4>1. UNCHANGED Page!vars
        BY <3>2 DEF vars, Page!vars, Page!server, Page!screen
      <4> QED BY <2>1, <2>2, <4>1, PageKept
    <3> QED BY <3>1, <3>2
  <2>3. CASE part = "admin"
    <3>1. CASE Next
      <4>1. Admin!Next
        BY <2>3, <3>1 DEF Next
      <4> QED BY <2>1, <2>3, <4>1, AdminKept
    <3>2. CASE UNCHANGED vars
      <4>1. UNCHANGED Admin!vars
        BY <3>2 DEF vars, Admin!vars
      <4> QED BY <2>1, <2>3, <4>1, AdminKept
    <3> QED BY <3>1, <3>2
  <2> QED BY <2>1, <2>2, <2>3
<1>3. I => PagesComeTrue
  BY PageShows, AdminKnows DEF PagesComeTrue
<1> QED BY <1>1, <1>2, <1>3, PTL DEF Spec

\* A list of the web client shows the pages of one key from the first on, and at rest those
\* of the present key, unless a page failed (hooks of the pages read page by page).
THEOREM ListsAlwaysFollowTheirKey == Spec => []ListsFollowTheirKey
<1> DEFINE I == part = "grid" => GridInv
<1>1. Init => I
  BY GridStart DEF Init
<1>2. I /\ [Next]_vars => I'
  <2> SUFFICES ASSUME I, [Next]_vars PROVE I'
    OBVIOUS
  <2>1. part' = part
    BY DEF Next, Still, vars
  <2>2. CASE part = "grid"
    <3>1. CASE Next
      <4>1. Grid!Next
        BY <2>2, <3>1 DEF Next
      <4> QED BY <2>1, <2>2, <4>1, GridKept
    <3>2. CASE UNCHANGED vars
      <4>1. UNCHANGED Grid!vars
        BY <3>2 DEF vars, Grid!vars
      <4> QED BY <2>1, <2>2, <4>1, GridKept
    <3> QED BY <3>1, <3>2
  <2> QED BY <2>1, <2>2
<1>3. I => ListsFollowTheirKey
  BY GridFollows DEF ListsFollowTheirKey
<1> QED BY <1>1, <1>2, <1>3, PTL DEF Spec

\* At rest the settings screen, the storage and the server agree about the active profile's
\* value (np_profiles.js), both plugins' settings are on it, each once (np.js,
\* np_unwatched.js), and the server is taken as connected exactly if it knows the token.
THEOREM SettingsAlwaysComeTrue == Spec => []SettingsComeTrue
<1> DEFINE I ==
         /\ part = "settings" => SettingsInv
         /\ part = "registry" => RegistryInv
         /\ part = "link" => LinkInv
<1>1. Init => I
  BY SettingsStart, RegistryStart, LinkStart DEF Init
<1>2. I /\ [Next]_vars => I'
  <2> SUFFICES ASSUME I, [Next]_vars PROVE I'
    OBVIOUS
  <2>1. part' = part
    BY DEF Next, Still, vars
  <2>2. CASE part = "settings"
    <3>1. CASE Next
      <4>1. Settings!Next
        BY <2>2, <3>1 DEF Next
      <4> QED BY <2>1, <2>2, <4>1, SettingsKept
    <3>2. CASE UNCHANGED vars
      <4>1. UNCHANGED Settings!vars
        BY <3>2 DEF vars, Settings!vars
      <4> QED BY <2>1, <2>2, <4>1, SettingsKept
    <3> QED BY <3>1, <3>2
  <2>3. CASE part = "registry"
    <3>1. CASE Next
      <4>1. Registry!Next
        BY <2>3, <3>1 DEF Next
      <4> QED BY <2>1, <2>3, <4>1, RegistryKept
    <3>2. CASE UNCHANGED vars
      <4>1. UNCHANGED Registry!vars
        BY <3>2 DEF vars, Registry!vars
      <4> QED BY <2>1, <2>3, <4>1, RegistryKept
    <3> QED BY <3>1, <3>2
  <2>4. CASE part = "link"
    <3>1. CASE Next
      <4>1. Link!Next
        BY <2>4, <3>1 DEF Next
      <4> QED BY <2>1, <2>4, <4>1, LinkKept
    <3>2. CASE UNCHANGED vars
      <4>1. UNCHANGED Link!vars
        BY <3>2 DEF vars, Link!vars
      <4> QED BY <2>1, <2>4, <4>1, LinkKept
    <3> QED BY <3>1, <3>2
  <2> QED BY <2>1, <2>2, <2>3, <2>4
<1>3. I => SettingsComeTrue
  BY SettingsAgree, RegistryWhole, LinkKnows DEF SettingsComeTrue
<1> QED BY <1>1, <1>2, <1>3, PTL DEF Spec
=============================================================================
