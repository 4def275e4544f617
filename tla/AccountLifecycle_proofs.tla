----------------------- MODULE AccountLifecycle_proofs -----------------------
(***************************************************************************)
(* Proofs about AccountLifecycle: its type invariant, that premium ends    *)
(* neither early nor late, that no notice is sent twice, that the night    *)
(* tasks delete only simple accounts that were warned as such, and that    *)
(* whoever is demoted has been told before, and is never told what is not  *)
(* so.                                                                     *)
(***************************************************************************)
EXTENDS AccountLifecycle, TLAPS

Accounts == [role : Roles, until : Nat \union {None}, premiumWarned : BOOLEAN,
             notice : Types \union {None}, noticeAt : Int \union {None},
             inactiveWarned : BOOLEAN, deleteAt : Nat \union {None}, admin : BOOLEAN]
Pasts == [owed : Int, told : BOOLEAN, spell : BOOLEAN, active : BOOLEAN, sends : Nat]

\* What TypeOK says of one account.
Fit(a) == /\ a \in Accounts
          /\ a.notice = None <=> a.noticeAt = None
          /\ a.inactiveWarned <=> a.deleteAt # None

TypeInv ==
  /\ now \in 0 .. MaxHours /\ hour \in 0 .. Day - 1
  /\ account \in [User -> Accounts] /\ \A u \in User : Fit(account[u])
  /\ tasks \in [phase : {"idle", "demote", "warn", "inactive"}, left : SUBSET User]
  /\ passing \subseteq [user : Reachable, type : Types] /\ sent \in Reachable \union {None}
  /\ faults \in 0 .. MaxFaults
  /\ past \in [User -> Pasts]

LEMMA TypeIs == (TypeOK <=> TypeInv) /\ (TypeOK' <=> TypeInv')
BY DEF TypeOK, TypeInv, Fit, Accounts, Pasts

LEMMA NeverIs == Never \in Int /\ Never < 0
BY DEF Never

LEMMA TermIs ==
  ASSUME TypeOK, NEW u \in User
  PROVE  TermOrNow(u) \in Nat
BY DEF TypeOK, TermOrNow

LEMMA DeliveryTimeIs ==
  ASSUME TypeOK, NEW u \in User
  PROVE  nextDeliveryTime(u) \in Int /\ nextDeliveryTime(u) # None
BY ConstantsAssumption DEF TypeOK, nextDeliveryTime, Local

LEMMA NobodyFits == Fit([Nobody EXCEPT !.role = "deleted"]) /\ Fit(Nobody)
BY ConstantsAssumption DEF Fit, Accounts, Nobody, Roles

\* One account or one history is exchanged.
LEMMA Exchanged ==
  ASSUME TypeInv, NEW u \in User
  PROVE  /\ \A a : Fit(a) /\ account' = [account EXCEPT ![u] = a]
                     => account' \in [User -> Accounts] /\ \A v \in User : Fit(account'[v])
         /\ \A h \in Pasts : past' = [past EXCEPT ![u] = h] => past' \in [User -> Pasts]
BY DEF TypeInv, Fit

LEMMA GrantFits ==
  ASSUME TypeInv, NEW u \in User, NEW until \in Nat, NEW owed \in Int, GrantPremium(u, until, owed)
  PROVE  TypeInv'
<1> USE ConstantsAssumption
<1> DEFINE a == [account[u] EXCEPT !.role = "premium", !.until = until]
           h == [past[u] EXCEPT !.owed = owed, !.told = FALSE, !.spell = FALSE]
<1>1. account[u] \in Accounts /\ past[u] \in Pasts /\ Fit(account[u])
  BY DEF TypeInv
<1>2. Fit(a) /\ h \in Pasts
  BY <1>1 DEF Fit, Accounts, Pasts, Roles
<1>3. account' = [account EXCEPT ![u] = a] /\ past' = [past EXCEPT ![u] = h]
  BY DEF GrantPremium, TypeInv
<1>4. account' \in [User -> Accounts] /\ (\A v \in User : Fit(account'[v])) /\ past' \in [User -> Pasts]
  BY <1>2, <1>3, Exchanged
<1> QED BY <1>4 DEF GrantPremium, TypeInv, clock, delivery

LEMMA SetUserRoleFits ==
  ASSUME TypeInv, NEW u \in User, NEW role \in {"simple", "super"}, SetUserRole(u, role)
  PROVE  TypeInv'
<1> USE ConstantsAssumption
<1> DEFINE a == [account[u] EXCEPT !.role = role, !.until = None]
           h == [past[u] EXCEPT !.owed = Never, !.spell = IF role = "simple" THEN past[u].spell ELSE FALSE]
<1>1. account[u] \in Accounts /\ past[u] \in Pasts /\ Fit(account[u])
  BY DEF TypeInv
<1>2. Fit(a)
  BY <1>1 DEF Fit, Accounts, Roles
<1>a. h \in Pasts
  <2>1. CASE role = "simple" BY <1>1, <2>1, NeverIs DEF Pasts
  <2>2. CASE role # "simple" BY <1>1, <2>2, NeverIs DEF Pasts
  <2> QED BY <2>1, <2>2
<1>3. account' = [account EXCEPT ![u] = a] /\ past' = [past EXCEPT ![u] = h]
  BY DEF SetUserRole, TypeInv
<1>4. account' \in [User -> Accounts] /\ (\A v \in User : Fit(account'[v])) /\ past' \in [User -> Pasts]
  BY <1>2, <1>a, <1>3, Exchanged
<1> QED BY <1>4 DEF SetUserRole, TypeInv, clock, delivery

LEMMA ExtendAllFits ==
  ASSUME TypeInv, ExtendAllPremium
  PROVE  TypeInv'
<1> USE ConstantsAssumption
<1>1. \A u \in User : /\ account'[u] = IF IsPremium(u) THEN [account[u] EXCEPT !.until = TermOrNow(u) + Extension]
                                       ELSE account[u]
                      /\ past'[u] = IF IsPremium(u) THEN [past[u] EXCEPT !.owed = @ + Extension] ELSE past[u]
  BY DEF ExtendAllPremium
<1>2. \A u \in User : Fit(account'[u]) /\ past'[u] \in Pasts
  <2> TAKE u \in User
  <2>1. account[u] \in Accounts /\ past[u] \in Pasts /\ Fit(account[u])
    BY DEF TypeInv
  <2>2. TermOrNow(u) + Extension \in Nat
    BY TermIs, TypeIs
  <2>3. CASE IsPremium(u)
    <3> DEFINE until == TermOrNow(u) + Extension
    <3>1. account'[u] = [account[u] EXCEPT !.until = until] BY <1>1, <2>3
    <3>2. past'[u] = [past[u] EXCEPT !.owed = past[u].owed + Extension] BY <1>1, <2>3
    <3>3. until \in Nat BY <2>2
    <3> HIDE DEF until
    <3>4. Fit(account'[u]) BY <3>1, <3>3, <2>1 DEF Fit, Accounts
    <3>5. past'[u] \in Pasts BY <3>2, <2>1 DEF Pasts
    <3> QED BY <3>4, <3>5
  <2>4. CASE ~IsPremium(u)
    BY <1>1, <2>1, <2>4
  <2> QED BY <2>3, <2>4
<1>3. account' \in [User -> Accounts] /\ past' \in [User -> Pasts]
  BY <1>2 DEF ExtendAllPremium, Fit
<1> QED BY <1>2, <1>3 DEF ExtendAllPremium, TypeInv, clock, delivery

LEMMA CheckFits ==
  ASSUME TypeInv, CheckPremium
  PROVE  TypeInv'
<1> USE ConstantsAssumption
<1>1. \A u \in User : account'[u] = IF IsExpired(u) THEN [account[u] EXCEPT !.role = "simple", !.until = None]
                                    ELSE account[u]
  BY DEF CheckPremium
<1>2. \A u \in User : Fit(account'[u])
  <2> TAKE u \in User
  <2>1. account[u] \in Accounts /\ Fit(account[u])
    BY DEF TypeInv
  <2>2. CASE IsExpired(u)
    <3>1. account'[u] = [account[u] EXCEPT !.role = "simple", !.until = None] BY <1>1, <2>2
    <3> QED BY <3>1, <2>1 DEF Fit, Accounts, Roles
  <2>3. CASE ~IsExpired(u)
    BY <1>1, <2>1, <2>3
  <2> QED BY <2>2, <2>3
<1>3. account' \in [User -> Accounts]
  BY <1>2 DEF CheckPremium, Fit
<1> QED BY <1>2, <1>3 DEF CheckPremium, TypeInv, clock, delivery

LEMMA DeletedFits ==
  ASSUME TypeInv, NEW u \in User, account' = Deleted(u)
  PROVE  account' \in [User -> Accounts] /\ \A v \in User : Fit(account'[v])
BY NobodyFits, Exchanged DEF Deleted, TypeInv

LEMMA NoticeFits ==
  ASSUME TypeInv, NEW u \in User, NEW type \in Types, NEW role \in Roles, NEW warned \in BOOLEAN,
         SetNotice(u, type, role, warned)
  PROVE  /\ account' \in [User -> Accounts] /\ \A v \in User : Fit(account'[v])
         /\ past' \in [User -> Pasts]
<1> USE ConstantsAssumption
<1> DEFINE a == [account[u] EXCEPT !.role = role, !.notice = type,
                                   !.noticeAt = nextDeliveryTime(u), !.premiumWarned = warned]
           h == [past[u] EXCEPT !.sends = 0]
<1>1. account[u] \in Accounts /\ past[u] \in Pasts /\ Fit(account[u])
  BY DEF TypeInv
<1>2. nextDeliveryTime(u) \in Int /\ nextDeliveryTime(u) # None
  BY DeliveryTimeIs, TypeIs
<1>3. Fit(a) /\ h \in Pasts
  BY <1>1, <1>2 DEF Fit, Accounts, Pasts, Roles, Types
<1>4. past' = [past EXCEPT ![u] = h]
  BY DEF SetNotice, TypeInv
<1>5. Present(u) => account' = [account EXCEPT ![u] = a]
  BY DEF SetNotice, TypeInv
<1> QED BY <1>3, <1>4, <1>5, Exchanged DEF SetNotice, TypeInv

LEMMA WarnInactiveFits ==
  ASSUME TypeInv, NEW u \in User, WarnInactive(u)
  PROVE  TypeInv'
<1> USE ConstantsAssumption
<1> DEFINE spell == account[u].role = "simple"
           at == now + InactiveWarn
           a == [account[u] EXCEPT !.inactiveWarned = TRUE, !.deleteAt = at]
           h == [past[u] EXCEPT !.spell = spell, !.active = FALSE]
<1>1. account[u] \in Accounts /\ past[u] \in Pasts /\ Fit(account[u])
  BY DEF TypeInv
<1>2. at \in Nat /\ spell \in BOOLEAN
  BY DEF TypeInv
<1>3. past' = [past EXCEPT ![u] = h]
  BY DEF WarnInactive, TypeInv
<1>4. account' = IF Present(u) THEN [account EXCEPT ![u] = a] ELSE account
  BY DEF WarnInactive, TypeInv
<1> HIDE DEF at, spell
<1>5. Fit(a)
  <2>1. at # None
    BY <1>2
  <2> QED BY <1>1, <1>2, <2>1 DEF Fit, Accounts
<1>6. h \in Pasts
  <2>1. CASE spell = TRUE BY <1>1, <2>1 DEF Pasts
  <2>2. CASE spell = FALSE BY <1>1, <2>2 DEF Pasts
  <2> QED BY <1>2, <2>1, <2>2
<1> HIDE DEF a, h
<1>7. account' \in [User -> Accounts] /\ (\A v \in User : Fit(account'[v])) /\ past' \in [User -> Pasts]
  BY <1>3, <1>4, <1>5, <1>6, Exchanged DEF TypeInv
<1> QED BY <1>7 DEF WarnInactive, Handles, TypeInv, clock, delivery

\* The lists of the night are lists of users, and a pass takes notices of reachable ones.
LEMMA ListsFit ==
  ASSUME TypeInv
  PROVE  /\ ExpiringUsers \subseteq User /\ InactiveUsers \subseteq User
         /\ {Notice(u) : u \in Deliverable} \subseteq [user : Reachable, type : Types]
<1> USE ConstantsAssumption
<1>1. \A u \in Deliverable : Notice(u) \in [user : Reachable, type : Types]
  <2> TAKE u \in Deliverable
  <2>1. u \in Reachable /\ account[u].notice # None
    BY DEF Deliverable
  <2>2. account[u].notice \in Types
    BY <2>1 DEF TypeInv, Fit, Accounts
  <2> QED BY <2>1, <2>2 DEF Notice
<1> QED BY <1>1 DEF ExpiringUsers, InactiveUsers

LEMMA SendFits ==
  ASSUME TypeInv, NEW n \in [user : Reachable, type : Types], n.user \in User, SendMessage(n)
  PROVE  past' \in [User -> Pasts]
<1> DEFINE told == past[n.user].told \/ n.type = "warning"
           sends == IF past[n.user].sends < 2 THEN past[n.user].sends + 1 ELSE past[n.user].sends
           h == [past[n.user] EXCEPT !.sends = sends, !.told = told]
<1>1. past[n.user] \in Pasts
  BY DEF TypeInv
<1>2. sends \in Nat
  BY <1>1 DEF Pasts
<1>3. told = TRUE \/ told = FALSE
  OBVIOUS
<1>4. past' = [past EXCEPT ![n.user] = h]
  BY DEF SendMessage, TypeInv
<1> HIDE DEF told, sends
<1>5. h \in Pasts
  <2>1. CASE told = TRUE BY <1>1, <1>2, <2>1 DEF Pasts
  <2>2. CASE told = FALSE BY <1>1, <1>2, <2>2 DEF Pasts
  <2> QED BY <1>3, <2>1, <2>2
<1> HIDE DEF h
<1> QED BY <1>4, <1>5 DEF TypeInv

\* The type invariant is inductive.
LEMMA TypeStep ==
  ASSUME TypeOK, [Next]_vars
  PROVE  TypeOK'
<1> USE ConstantsAssumption
<1>0. TypeInv
  BY TypeIs
<1> SUFFICES TypeInv'
  BY TypeIs
<1>1. ASSUME NEW u \in User, Register(u) PROVE TypeInv'
  BY <1>0, <1>1 DEF Register, TypeInv, Fit, Accounts, Roles, clock, delivery
<1>2. ASSUME NEW u \in User, Login(u) PROVE TypeInv'
  BY <1>0, <1>2 DEF Login, TypeInv, Pasts, clock, delivery
<1>3. ASSUME NEW u \in User, SetPremium(u) PROVE TypeInv'
  <2>1. now + Grant \in Nat
    BY <1>0 DEF TypeInv
  <2> QED BY <1>0, <1>3, <2>1, GrantFits DEF SetPremium
<1>4. ASSUME NEW u \in User, AddPremium(u) PROVE TypeInv'
  <2> DEFINE left == IF past[u].owed > now THEN past[u].owed ELSE now
  <2>1. TermOrNow(u) + Grant \in Nat
    BY TermIs
  <2>2. left + Grant \in Int
    BY <1>0 DEF TypeInv, Pasts
  <2>3. GrantPremium(u, TermOrNow(u) + Grant, left + Grant)
    BY <1>4 DEF AddPremium
  <2> HIDE DEF left
  <2> QED BY <1>0, <2>1, <2>2, <2>3, GrantFits
<1>5. ASSUME NEW u \in User, NEW role \in {"simple", "super"}, SetUserRole(u, role) PROVE TypeInv'
  BY <1>0, <1>5, SetUserRoleFits
<1>6. CASE ExtendAllPremium
  BY <1>0, <1>6, ExtendAllFits
<1>7. CASE CheckPremium
  BY <1>0, <1>7, CheckFits
<1>8. ASSUME NEW u \in User, ToggleAdmin(u) PROVE TypeInv'
  BY <1>0, <1>8 DEF ToggleAdmin, TypeInv, Fit, Accounts, clock, delivery
<1>9. ASSUME NEW u \in User, AdminDeletes(u) PROVE TypeInv'
  <2>1. account' \in [User -> Accounts] /\ \A v \in User : Fit(account'[v])
    BY <1>0, <1>9, DeletedFits DEF AdminDeletes
  <2> QED BY <1>0, <1>9, <2>1 DEF AdminDeletes, TypeInv, clock, delivery
<1>10. ASSUME NEW u \in User, SetPremiumExpiredNotify(u) PROVE TypeInv'
  <2>1. "expired" \in Types /\ "simple" \in Roles
    BY DEF Types, Roles
  <2>2. /\ account' \in [User -> Accounts] /\ \A v \in User : Fit(account'[v])
        /\ past' \in [User -> Pasts]
    BY <1>0, <1>10, <2>1, NoticeFits DEF SetPremiumExpiredNotify
  <2> QED BY <1>0, <1>10, <2>2 DEF SetPremiumExpiredNotify, Handles, TypeInv, clock, delivery
<1>11. ASSUME NEW u \in User, SetPremiumWarningNotify(u) PROVE TypeInv'
  <2>1. "warning" \in Types /\ account[u].role \in Roles
    BY <1>0 DEF Types, TypeInv, Fit, Accounts
  <2>2. /\ account' \in [User -> Accounts] /\ \A v \in User : Fit(account'[v])
        /\ past' \in [User -> Pasts]
    BY <1>0, <1>11, <2>1, NoticeFits DEF SetPremiumWarningNotify
  <2> QED BY <1>0, <1>11, <2>2 DEF SetPremiumWarningNotify, Handles, TypeInv, clock, delivery
<1>12. ASSUME NEW u \in User, WarnInactive(u) PROVE TypeInv'
  BY <1>0, <1>12, WarnInactiveFits
<1>13. ASSUME NEW u \in User, DeleteInactive(u) PROVE TypeInv'
  <2>1. account' \in [User -> Accounts] /\ \A v \in User : Fit(account'[v])
    BY <1>0, <1>13, DeletedFits DEF DeleteInactive
  <2> QED BY <1>0, <1>13, <2>1 DEF DeleteInactive, Handles, TypeInv, clock, delivery
<1>14. ASSUME NEW u \in User, KeepInactive(u) PROVE TypeInv'
  BY <1>0, <1>14 DEF KeepInactive, Handles, TypeInv, clock, delivery
<1>15. CASE NextList
  BY <1>0, <1>15, ListsFit DEF NextList, TypeInv, clock, delivery
<1>16. CASE GetPendingNotifications
  BY <1>0, <1>16, ListsFit DEF GetPendingNotifications, TypeInv, clock
<1>17. ASSUME NEW n \in passing, SendMessage(n) PROVE TypeInv'
  <2>1. n \in [user : Reachable, type : Types] /\ n.user \in User
    BY <1>0 DEF TypeInv
  <2>2. past' \in [User -> Pasts]
    BY <1>0, <1>17, <2>1, SendFits DEF SendMessage
  <2> QED BY <1>0, <1>17, <2>1, <2>2 DEF SendMessage, TypeInv, clock
<1>18. ASSUME NEW n \in passing, SendFails(n) PROVE TypeInv'
  BY <1>0, <1>18 DEF SendFails, TypeInv, clock
<1>19. ASSUME NEW u \in User, ClearPremiumNotify(u) PROVE TypeInv'
  <2> DEFINE a == [account[u] EXCEPT !.notice = None, !.noticeAt = None]
  <2>1. account' = IF Present(u) THEN [account EXCEPT ![u] = a] ELSE account
    BY <1>0, <1>19 DEF ClearPremiumNotify, TypeInv
  <2>2. account[u] \in Accounts /\ Fit(account[u])
    BY <1>0 DEF TypeInv
  <2>3. Fit(a)
    BY <2>2 DEF Fit, Accounts
  <2> HIDE DEF a
  <2>4. account' \in [User -> Accounts] /\ \A v \in User : Fit(account'[v])
    BY <1>0, <2>1, <2>3, Exchanged DEF TypeInv
  <2> QED BY <1>0, <1>19, <2>4 DEF ClearPremiumNotify, TypeInv, clock
<1>20. CASE Tick
  <2>1. now' \in 0 .. MaxHours /\ hour' \in 0 .. Day - 1
    BY <1>0, <1>20 DEF Tick, TypeInv
  <2>2. tasks' \in [phase : {"idle", "demote", "warn", "inactive"}, left : SUBSET User]
    <3>1. tasks' = IF hour' = TaskHour THEN RunDailyTasks' ELSE tasks
      BY <1>20 DEF Tick
    <3>2. ExpiredUsers' \subseteq User
      BY DEF ExpiredUsers
    <3>3. RunDailyTasks' = [phase |-> "demote", left |-> ExpiredUsers']
      BY DEF RunDailyTasks
    <3> QED BY <1>0, <3>1, <3>2, <3>3 DEF TypeInv
  <2> QED BY <1>0, <1>20, <2>1, <2>2 DEF Tick, TypeInv, delivery
<1>21. CASE Restart
  <2>1. /\ tasks' = [phase |-> "idle", left |-> {}] /\ passing' = {} /\ sent' = None
        /\ faults' = faults + 1 /\ faults < MaxFaults
        /\ UNCHANGED <<now, hour, account, past>>
    BY <1>21 DEF Restart, clock
  <2>2. faults' \in 0 .. MaxFaults /\ tasks' \in [phase : {"idle", "demote", "warn", "inactive"}, left : SUBSET User]
    BY <1>0, <2>1 DEF TypeInv
  <2> QED BY <1>0, <2>1, <2>2 DEF TypeInv
<1>22. CASE UNCHANGED vars
  BY <1>0, <1>22 DEF vars, TypeInv
<1> QED
  BY <1>1, <1>2, <1>3, <1>4, <1>5, <1>6, <1>7, <1>8, <1>9, <1>10, <1>11, <1>12, <1>13, <1>14, <1>15,
     <1>16, <1>17, <1>18, <1>19, <1>20, <1>21, <1>22
  DEF Next, Administer, Night

\* Every variable has its type, whatever goes wrong.
THEOREM TypeCorrect == Spec => []TypeOK
<1>1. Init => TypeInv
  BY ConstantsAssumption, NobodyFits, NeverIs DEF Init, TypeInv, NoPast, Pasts, Fit
<1>2. Init => TypeOK
  BY <1>1, TypeIs
<1> QED BY <1>2, TypeStep, PTL DEF Spec

-----------------------------------------------------------------------------
(***************************************************************************)
(* Premium ends in time                                                    *)
(***************************************************************************)
\* Nothing about a term of premium changes, and nobody leaves the list of those to demote.
TermSame(u) ==
  /\ account'[u].role = account[u].role /\ account'[u].until = account[u].until
  /\ past'[u].owed = past[u].owed

Quiet ==
  /\ UNCHANGED clock /\ \A u \in User : TermSame(u)
  /\ tasks'.phase = tasks.phase
  /\ tasks.phase = "demote" => tasks'.left = tasks.left

\* The steps, sorted by what they do to a term.
LEMMA TermSteps ==
  ASSUME TypeOK, [Next]_vars
  PROVE  \/ Quiet \/ NextList \/ Tick \/ Restart \/ ExtendAllPremium \/ CheckPremium
         \/ \E u \in User : \/ Register(u) \/ SetPremium(u) \/ AddPremium(u) \/ AdminDeletes(u)
                            \/ SetPremiumExpiredNotify(u) \/ DeleteInactive(u)
                            \/ \E role \in {"simple", "super"} : SetUserRole(u, role)
<1> USE DEF Quiet, TermSame, clock, delivery
<1>0. TypeInv
  BY TypeIs
<1>1. ASSUME NEW u \in User, Login(u) PROVE Quiet
  BY <1>0, <1>1 DEF Login, TypeInv, Pasts
<1>2. ASSUME NEW u \in User, ToggleAdmin(u) PROVE Quiet
  BY <1>0, <1>2 DEF ToggleAdmin, TypeInv, Accounts
<1>3. ASSUME NEW u \in User, SetPremiumWarningNotify(u) PROVE Quiet
  BY <1>0, <1>3 DEF SetPremiumWarningNotify, SetNotice, Handles, TypeInv, Accounts, Pasts
<1>4. ASSUME NEW u \in User, WarnInactive(u) PROVE Quiet
  BY <1>0, <1>4 DEF WarnInactive, Handles, TypeInv, Accounts, Pasts
<1>5. ASSUME NEW u \in User, KeepInactive(u) PROVE Quiet
  BY <1>0, <1>5 DEF KeepInactive, Handles, TypeInv
<1>6. ASSUME NEW u \in User, ClearPremiumNotify(u) PROVE Quiet
  BY <1>0, <1>6 DEF ClearPremiumNotify, TypeInv, Accounts
<1>7. ASSUME NEW n \in passing, SendMessage(n) PROVE Quiet
  BY <1>0, <1>7 DEF SendMessage, TypeInv, Pasts
<1>8. ASSUME NEW n \in passing, SendFails(n) PROVE Quiet
  BY <1>8 DEF SendFails
<1>9. GetPendingNotifications => Quiet
  BY DEF GetPendingNotifications
<1>10. UNCHANGED vars => Quiet
  BY DEF vars
<1> QED BY <1>1, <1>2, <1>3, <1>4, <1>5, <1>6, <1>7, <1>8, <1>9, <1>10 DEF Next, Administer, Night

\* Hours since the night tasks were last due.
SinceRun == IF hour >= TaskHour THEN hour - TaskHour ELSE hour - TaskHour + Day

\* While a run demotes, who is not on its list lasts beyond it; afterwards everybody does.
LastsBeyondRun(u) ==
  IsPremium(u) /\ account[u].until # None =>
    \/ account[u].until >= now - SinceRun
    \/ tasks.phase = "demote" /\ u \in tasks.left

EndsInv ==
  /\ TypeOK
  /\ tasks.phase # "idle" => hour = TaskHour
  /\ \A u \in User : LastsBeyondRun(u)
  /\ PremiumEndsInTime

\* The invariant is inductive where a run is not cut off and no grant begins in the past.
LEMMA EndsStep ==
  ASSUME Hazards \intersect {"crash", "stale"} = {}, EndsInv, [Next]_vars
  PROVE  EndsInv'
<1> USE ConstantsAssumption
<1>0. TypeInv /\ TypeInv' /\ TypeOK /\ TypeOK'
  BY TypeIs, TypeStep DEF EndsInv
<1>a. SinceRun \in 0 .. Day - 1 /\ now \in Nat
  BY <1>0 DEF SinceRun, TypeInv
<1>1. CASE Quiet
  BY <1>0, <1>1 DEF EndsInv, Quiet, TermSame, LastsBeyondRun, IsPremium, PremiumEndsInTime, SinceRun, clock
<1>2. CASE NextList
  <2>1. tasks.left = {} /\ tasks.phase # "idle" /\ UNCHANGED <<now, hour, account>>
    BY <1>2 DEF NextList, clock
  <2> QED BY <1>0, <2>1 DEF EndsInv, LastsBeyondRun, IsPremium, PremiumEndsInTime, SinceRun
<1>3. CASE Restart
  <2>1. tasks.phase = "idle" /\ tasks'.phase = "idle" /\ UNCHANGED <<now, hour, account>>
    BY <1>3 DEF Restart, clock
  <2> QED BY <1>0, <2>1 DEF EndsInv, LastsBeyondRun, IsPremium, PremiumEndsInTime, SinceRun
<1>4. CASE Tick
  <2>1. /\ now' = now + 1 /\ account' = account /\ tasks.phase = "idle"
        /\ hour' = IF hour + 1 = Day THEN 0 ELSE hour + 1
        /\ tasks' = IF hour' = TaskHour THEN RunDailyTasks' ELSE tasks
    BY <1>4 DEF Tick
  <2>2. \A u \in User : IsPremium(u) /\ account[u].until # None => account[u].until >= now - SinceRun
    BY <2>1 DEF EndsInv, LastsBeyondRun
  <2>3. CASE hour' # TaskHour
    <3>1. SinceRun' = SinceRun + 1
      BY <1>0, <2>1, <2>3 DEF SinceRun, TypeInv
    <3> QED BY <1>0, <1>a, <2>1, <2>2, <2>3, <3>1
        DEF EndsInv, LastsBeyondRun, IsPremium, PremiumEndsInTime, TypeInv, Fit, Accounts
  <2>4. CASE hour' = TaskHour
    <3>1. SinceRun' = 0 /\ SinceRun = Day - 1
      BY <1>0, <2>1, <2>4 DEF SinceRun, TypeInv
    <3>2. tasks' = [phase |-> "demote", left |-> {u \in User : IsExpired(u)'}]
      BY <2>1, <2>4 DEF RunDailyTasks, ExpiredUsers
    <3>3. ASSUME NEW u \in User, IsPremium(u), account[u].until # None
          PROVE  /\ account[u].until >= now' - Day
                 /\ account[u].until < now' => u \in tasks'.left
      <4>1. account[u].until \in Nat
        BY <1>0, <3>3 DEF TypeInv, Fit, Accounts
      <4> QED BY <1>a, <2>1, <2>2, <3>1, <3>2, <3>3, <4>1 DEF IsExpired, IsPremium
    <3>4. ASSUME NEW u \in User, IsPremium(u)', account'[u].until # None
          PROVE  LastsBeyondRun(u)' /\ now' <= account'[u].until + Day
      <4>1. IsPremium(u) /\ account[u].until # None /\ account[u].until \in Nat
        BY <1>0, <2>1, <3>4 DEF IsPremium, TypeInv, Fit, Accounts
      <4>2. tasks'.phase = "demote"
        BY <3>2
      <4> QED BY <1>0, <2>1, <3>1, <3>3, <4>1, <4>2 DEF LastsBeyondRun, IsPremium, TypeInv
    <3> QED BY <1>0, <2>4, <3>4 DEF EndsInv, LastsBeyondRun, PremiumEndsInTime
  <2> QED BY <2>3, <2>4
\* What is left: steps that change no clock and no list, except that a demoted user leaves it.
<1>5. ASSUME UNCHANGED <<now, hour>>, tasks'.phase = tasks.phase,
             NEW u \in User, tasks.phase = "demote" => tasks.left \ {u} \subseteq tasks'.left,
             \A v \in User \ {u} : account'[v] = account[v],
             IsPremium(u)' /\ account'[u].until # None => account'[u].until >= now
      PROVE  EndsInv'
  <2>1. SinceRun' = SinceRun
    BY <1>5 DEF SinceRun
  <2>2. \A v \in User : LastsBeyondRun(v)' /\ (IsPremium(v)' /\ account'[v].until # None => now <= account'[v].until + Day)
    <3> TAKE v \in User
    <3>1. CASE v = u
      BY <1>0, <1>a, <1>5, <2>1, <3>1 DEF LastsBeyondRun, IsPremium, TypeInv, Fit, Accounts
    <3>2. CASE v # u
      BY <1>0, <1>a, <1>5, <2>1, <3>2 DEF EndsInv, LastsBeyondRun, PremiumEndsInTime, IsPremium
    <3> QED BY <3>1, <3>2
  <2> QED BY <1>0, <1>5, <2>2 DEF EndsInv, PremiumEndsInTime
<1>6. ASSUME NEW u \in User, Register(u) \/ AdminDeletes(u) \/ DeleteInactive(u) \/ SetPremiumExpiredNotify(u)
                             \/ \E role \in {"simple", "super"} : SetUserRole(u, role)
      PROVE  EndsInv'
  <2> USE <1>0 DEF TypeInv, Accounts, Roles, IsPremium, clock, delivery
  <2>1. CASE Register(u)
    <3>1. ~IsPremium(u)' BY <2>1 DEF Register
    <3> QED BY <1>5, <2>1, <3>1 DEF Register
  <2>2. ASSUME NEW role \in {"simple", "super"}, SetUserRole(u, role) PROVE EndsInv'
    <3>1. ~IsPremium(u)' BY <2>2 DEF SetUserRole
    <3> QED BY <1>5, <2>2, <3>1 DEF SetUserRole
  <2>3. CASE SetPremiumExpiredNotify(u)
    <3>1. account'[u].role = "simple" \/ (~Present(u) /\ account' = account)
      BY <2>3 DEF SetPremiumExpiredNotify, SetNotice
    <3>2. ~IsPremium(u)' BY <3>1 DEF Present
    <3> QED BY <1>5, <2>3, <3>2 DEF SetPremiumExpiredNotify, SetNotice, Handles
  <2>4. CASE account' = Deleted(u) /\ UNCHANGED <<now, hour>> /\ tasks'.phase = tasks.phase
             /\ (tasks.phase = "demote" => tasks'.left = tasks.left) /\ past' = past
    <3>1. CASE account[u].admin
      BY <1>1, <2>4, <3>1 DEF Deleted, Quiet, TermSame
    <3>2. CASE ~account[u].admin
      <4>1. account' = [account EXCEPT ![u] = [Nobody EXCEPT !.role = "deleted"]]
        BY <2>4, <3>2 DEF Deleted
      <4>2. ~IsPremium(u)' BY <4>1 DEF Nobody
      <4> QED BY <1>5, <2>4, <4>1, <4>2
    <3> QED BY <3>1, <3>2
  <2> QED BY <1>6, <2>1, <2>2, <2>3, <2>4 DEF AdminDeletes, DeleteInactive, Handles
<1>7. ASSUME NEW u \in User, SetPremium(u) \/ AddPremium(u) PROVE EndsInv'
  <2>1. ASSUME NEW until, NEW owed, GrantPremium(u, until, owed), until \in Nat, until >= now PROVE EndsInv'
    <3>1. account'[u].until = until
      BY <1>0, <2>1 DEF GrantPremium, TypeInv, Accounts
    <3>2. /\ UNCHANGED <<now, hour>> /\ tasks' = tasks
          /\ \A v \in User \ {u} : account'[v] = account[v]
      BY <1>0, <2>1 DEF GrantPremium, TypeInv, clock
    <3> QED BY <1>5, <2>1, <3>1, <3>2
  <2>2. now + Grant \in Nat /\ now + Grant >= now /\ Grant \in Nat
    BY <1>a
  <2>3. SetPremium(u) => EndsInv'
    BY <2>1, <2>2 DEF SetPremium
  <2>4. AddPremium(u) => EndsInv'
    <3> SUFFICES ASSUME AddPremium(u) PROVE EndsInv'
      OBVIOUS
    <3>1. TermOrNow(u) \in Nat /\ TermOrNow(u) >= now
      BY <1>0, TermIs DEF AddPremium
    <3>2. TermOrNow(u) + Grant \in Nat /\ TermOrNow(u) + Grant >= now
      BY <1>a, <2>2, <3>1
    <3> QED BY <2>1, <3>2 DEF AddPremium
  <2> QED BY <1>7, <2>3, <2>4
<1>8. CASE ExtendAllPremium
  <2>1. UNCHANGED <<now, hour, tasks>>
    BY <1>8 DEF ExtendAllPremium, clock
  <2>2. ASSUME NEW u \in User, IsPremium(u)', account'[u].until # None
        PROVE  LastsBeyondRun(u)' /\ now <= account'[u].until + Day
    <3>1. account'[u] = IF IsPremium(u) THEN [account[u] EXCEPT !.until = TermOrNow(u) + Extension] ELSE account[u]
      BY <1>8 DEF ExtendAllPremium
    <3>2. IsPremium(u)
      BY <2>2, <3>1 DEF IsPremium
    <3>3. account'[u].until = TermOrNow(u) + Extension /\ TermOrNow(u) \in Nat /\ Extension \in Nat
      BY <1>0, <3>1, <3>2, TermIs DEF TypeInv, Accounts
    <3>4. account[u].until = None => TermOrNow(u) = now
      BY DEF TermOrNow
    <3>5. account[u].until # None => TermOrNow(u) = account[u].until
      BY DEF TermOrNow
    <3> QED BY <1>a, <2>1, <3>2, <3>3, <3>4, <3>5 DEF EndsInv, LastsBeyondRun, PremiumEndsInTime, SinceRun
  <2> QED BY <1>0, <2>1, <2>2 DEF EndsInv, LastsBeyondRun, PremiumEndsInTime
<1>9. CASE CheckPremium
  <2>1. UNCHANGED <<now, hour, tasks>>
    BY <1>9 DEF CheckPremium, clock
  <2>2. ASSUME NEW u \in User, IsPremium(u)'
        PROVE  account'[u] = account[u]
    <3>1. account'[u] = IF IsExpired(u) THEN [account[u] EXCEPT !.role = "simple", !.until = None] ELSE account[u]
      BY <1>9 DEF CheckPremium
    <3> QED BY <1>0, <2>2, <3>1 DEF IsPremium, TypeInv, Accounts
  <2> QED BY <1>0, <2>1, <2>2 DEF EndsInv, LastsBeyondRun, IsPremium, PremiumEndsInTime, SinceRun
<1> QED
  BY <1>0, <1>1, <1>2, <1>3, <1>4, <1>6, <1>7, <1>8, <1>9, TermSteps

\* Without restarts amid the night tasks and grants upon a term long over, no term outlives
\* the next run of the night tasks, whoever acts in between.
THEOREM PremiumAlwaysEnds ==
  ASSUME Hazards \intersect {"crash", "stale"} = {}
  PROVE  Spec => []PremiumEndsInTime
<1>1. Init => EndsInv
  <2> SUFFICES ASSUME Init PROVE EndsInv
    OBVIOUS
  <2>1. TypeInv
    BY ConstantsAssumption, NobodyFits, NeverIs DEF Init, TypeInv, NoPast, Pasts, Fit
  <2>2. \A u \in User : ~IsPremium(u)
    BY DEF Init, IsPremium, Nobody
  <2> QED BY <2>1, <2>2, TypeIs DEF EndsInv, Init, LastsBeyondRun, PremiumEndsInTime
<1>2. EndsInv /\ [Next]_vars => EndsInv'
  BY EndsStep
<1>3. EndsInv => PremiumEndsInTime
  BY DEF EndsInv
<1> QED BY <1>1, <1>2, <1>3, PTL DEF Spec

-----------------------------------------------------------------------------
(***************************************************************************)
(* Premium runs its course                                                 *)
(***************************************************************************)
\* A premium term ends when it was promised to; without one nothing is promised, and the end
\* that is left over from a former term is past.
TermKept(u) ==
  /\ IsPremium(u) => account[u].until = past[u].owed
  /\ ~IsPremium(u) /\ account[u].role # "deleted" =>
       past[u].owed < now /\ (account[u].until # None => account[u].until < now)

CourseInv ==
  /\ TypeOK
  /\ \A u \in User : TermKept(u)
  /\ tasks.phase = "demote" => \A u \in tasks.left : IsExpired(u)

\* A step that touches one user, who is on no list or leaves it, and keeps the invariant for
\* that user.
LEMMA CourseOfOne ==
  ASSUME CourseInv, [Next]_vars, NEW u \in User,
         UNCHANGED <<now, hour>>, tasks'.phase = tasks.phase,
         tasks.phase = "demote" => tasks'.left \subseteq tasks.left \ {u},
         \A v \in User \ {u} : account'[v] = account[v] /\ past'[v].owed = past[v].owed,
         TermKept(u)'
  PROVE  CourseInv'
<1>1. TypeOK' /\ TypeInv
  BY TypeStep, TypeIs DEF CourseInv
<1>2. \A v \in User : TermKept(v)'
  BY DEF CourseInv, TermKept, IsPremium
<1>3. tasks'.phase = "demote" => \A v \in tasks'.left : IsExpired(v)'
  BY <1>1 DEF CourseInv, IsExpired, IsPremium, TypeInv
<1> QED BY <1>1, <1>2, <1>3 DEF CourseInv

LEMMA CourseGrant ==
  ASSUME "overtaken" \notin Hazards, CourseInv, [Next]_vars, NEW u \in User,
         NEW until \in Int, GrantPremium(u, until, until)
  PROVE  CourseInv'
<1>1. TypeInv
  BY TypeIs DEF CourseInv
<1>2. /\ UNCHANGED <<now, hour>> /\ tasks' = tasks /\ u \notin tasks.left
      /\ \A v \in User \ {u} : account'[v] = account[v] /\ past'[v] = past[v]
  BY <1>1 DEF GrantPremium, Undisturbed, TypeInv, clock
<1>3. account'[u].role = "premium" /\ account'[u].until = until /\ past'[u].owed = until
  BY <1>1 DEF GrantPremium, TypeInv, Accounts, Pasts
<1>4. TermKept(u)'
  BY <1>3 DEF TermKept, IsPremium
<1> QED BY <1>2, <1>4, CourseOfOne

\* The invariant is inductive where lists are not overtaken and no grant begins in the past.
LEMMA CourseStep ==
  ASSUME Hazards \intersect {"overtaken", "stale"} = {}, CourseInv, [Next]_vars
  PROVE  CourseInv'
<1> USE ConstantsAssumption
<1>0. TypeInv /\ TypeOK /\ TypeOK' /\ now \in Nat
  BY TypeIs, TypeStep DEF CourseInv, TypeInv
<1>a. \A u \in User : account[u] \in Accounts /\ past[u] \in Pasts
  BY <1>0 DEF TypeInv
<1>1. CASE Quiet
  <2>1. \A u \in User : TermKept(u)' /\ (IsExpired(u) => IsExpired(u)')
    BY <1>1 DEF CourseInv, Quiet, TermSame, TermKept, IsPremium, IsExpired, clock
  <2> QED BY <1>0, <1>1, <2>1 DEF CourseInv, Quiet, TypeInv
<1>2. CASE NextList
  <2>1. tasks'.phase # "demote" /\ UNCHANGED <<now, account, past>>
    BY <1>0, <1>2 DEF NextList, TypeInv, clock
  <2> QED BY <1>0, <2>1 DEF CourseInv, TermKept, IsPremium
<1>3. CASE Restart
  <2>1. tasks'.phase = "idle" /\ UNCHANGED <<now, account, past>>
    BY <1>3 DEF Restart, clock
  <2> QED BY <1>0, <2>1 DEF CourseInv, TermKept, IsPremium
<1>4. CASE Tick
  <2>1. /\ now' = now + 1 /\ account' = account /\ past' = past /\ tasks.phase = "idle"
        /\ tasks' = IF hour' = TaskHour THEN RunDailyTasks' ELSE tasks
    BY <1>4 DEF Tick
  <2>2. \A u \in User : TermKept(u)'
    BY <1>0, <1>a, <2>1 DEF CourseInv, TermKept, IsPremium, Accounts, Pasts
  <2>3. tasks'.phase = "demote" => \A u \in tasks'.left : IsExpired(u)'
    BY <2>1 DEF RunDailyTasks, ExpiredUsers
  <2> QED BY <1>0, <2>2, <2>3 DEF CourseInv
<1>5. ASSUME NEW u \in User, Register(u) PROVE CourseInv'
  <2>1. TermKept(u)'
    BY <1>0, <1>a, <1>5 DEF Register, CourseInv, TermKept, IsPremium, TypeInv, Accounts, clock
  <2>2. account[u].role = "none" /\ UNCHANGED <<now, hour, tasks, past>>
        /\ \A v \in User \ {u} : account'[v] = account[v]
    BY <1>0, <1>5 DEF Register, TypeInv, clock
  <2>3. tasks.phase = "demote" => u \notin tasks.left
    BY <2>2 DEF CourseInv, IsExpired, IsPremium
  <2> QED BY <2>1, <2>2, <2>3, CourseOfOne
<1>6. ASSUME NEW u \in User, SetPremium(u) PROVE CourseInv'
  <2>1. now + Grant \in Int
    BY <1>0
  <2> QED BY <1>6, <2>1, CourseGrant DEF SetPremium
<1>7. ASSUME NEW u \in User, AddPremium(u) PROVE CourseInv'
  <2> DEFINE left == IF past[u].owed > now THEN past[u].owed ELSE now
  <2>1. GrantPremium(u, TermOrNow(u) + Grant, left + Grant) /\ TermOrNow(u) >= now /\ Present(u)
    BY <1>7 DEF AddPremium, GrantPremium
  <2>2. left = TermOrNow(u)
    BY <1>0, <1>a, <2>1 DEF CourseInv, TermKept, TermOrNow, IsPremium, Present, Accounts, Pasts
  <2>3. TermOrNow(u) + Grant \in Int
    BY <1>0, TermIs
  <2> QED BY <2>1, <2>2, <2>3, CourseGrant
<1>8. ASSUME NEW u \in User, NEW role \in {"simple", "super"}, SetUserRole(u, role) PROVE CourseInv'
  <2>1. /\ UNCHANGED <<now, hour, tasks>> /\ u \notin tasks.left
        /\ \A v \in User \ {u} : account'[v] = account[v] /\ past'[v] = past[v]
    BY <1>0, <1>8 DEF SetUserRole, Undisturbed, TypeInv, clock
  <2>2. account'[u].role = role /\ account'[u].until = None /\ past'[u].owed = Never
    BY <1>0, <1>8 DEF SetUserRole, TypeInv, Accounts, Pasts
  <2>3. TermKept(u)'
    BY <1>0, <2>1, <2>2, NeverIs DEF TermKept, IsPremium
  <2> QED BY <2>1, <2>3, CourseOfOne
<1>9. ASSUME NEW u \in User, SetPremiumExpiredNotify(u) PROVE CourseInv'
  <2>1. u \in tasks.left /\ IsExpired(u) /\ Present(u)
    BY <1>9 DEF SetPremiumExpiredNotify, Handles, CourseInv, IsExpired, IsPremium, Present
  <2>2. /\ UNCHANGED <<now, hour>> /\ tasks'.phase = tasks.phase /\ tasks'.left = tasks.left \ {u}
        /\ \A v \in User \ {u} : account'[v] = account[v] /\ past'[v] = past[v]
    BY <1>0, <1>9 DEF SetPremiumExpiredNotify, Handles, SetNotice, TypeInv, clock
  <2>3. account'[u].role = "simple" /\ account'[u].until = account[u].until /\ past'[u].owed = past[u].owed
    BY <1>0, <1>9, <2>1 DEF SetPremiumExpiredNotify, SetNotice, TypeInv, Accounts, Pasts
  <2>4. TermKept(u)'
    BY <2>1, <2>2, <2>3 DEF CourseInv, TermKept, IsExpired, IsPremium
  <2> QED BY <2>2, <2>4, CourseOfOne
<1>10. ASSUME NEW u \in User, AdminDeletes(u) \/ DeleteInactive(u) PROVE CourseInv'
  <2>1. /\ UNCHANGED <<now, hour, past>> /\ tasks'.phase = tasks.phase
        /\ tasks.phase = "demote" => (tasks'.left = tasks.left /\ u \notin tasks.left)
        /\ account' = Deleted(u)
    BY <1>0, <1>10 DEF AdminDeletes, DeleteInactive, Handles, Undisturbed, TypeInv, clock
  <2>2. account'[u] = account[u] \/ account'[u].role = "deleted"
    BY <1>0, <2>1 DEF Deleted, TypeInv, Nobody
  <2>3. TermKept(u)'
    BY <2>1, <2>2 DEF CourseInv, TermKept, IsPremium
  <2>4. \A v \in User \ {u} : account'[v] = account[v]
    BY <1>0, <2>1 DEF Deleted, TypeInv
  <2> QED BY <2>1, <2>3, <2>4, CourseOfOne
<1>11. CASE ExtendAllPremium
  <2>1. UNCHANGED <<now, tasks>> /\ \A u \in User : IsPremium(u) => u \notin tasks.left
    BY <1>11 DEF ExtendAllPremium, Undisturbed, clock
  <2>2. tasks.phase = "demote" => tasks.left = {}
    BY <1>0, <2>1 DEF CourseInv, IsExpired, TypeInv
  <2>3. ASSUME NEW u \in User PROVE TermKept(u)'
    <3>1. /\ account'[u] = IF IsPremium(u) THEN [account[u] EXCEPT !.until = TermOrNow(u) + Extension] ELSE account[u]
          /\ past'[u] = IF IsPremium(u) THEN [past[u] EXCEPT !.owed = @ + Extension] ELSE past[u]
      BY <1>11 DEF ExtendAllPremium
    <3>2. CASE IsPremium(u)
      <4>1. TermOrNow(u) = past[u].owed
        BY <1>0, <1>a, <3>2 DEF CourseInv, TermKept, TermOrNow, Pasts
      <4>2. account'[u].role = "premium" /\ account'[u].until = past[u].owed + Extension
            /\ past'[u].owed = past[u].owed + Extension
        BY <1>a, <3>1, <3>2, <4>1 DEF Accounts, Pasts, IsPremium
      <4> QED BY <4>2 DEF TermKept, IsPremium
    <3>3. CASE ~IsPremium(u)
      BY <2>1, <3>1, <3>3 DEF CourseInv, TermKept, IsPremium
    <3> QED BY <3>2, <3>3
  <2> QED BY <1>0, <2>1, <2>2, <2>3 DEF CourseInv
<1>12. CASE CheckPremium
  <2>1. UNCHANGED <<now, tasks, past>> /\ \A u \in User : IsExpired(u) => u \notin tasks.left
    BY <1>12 DEF CheckPremium, Undisturbed, clock
  <2>2. tasks.phase = "demote" => tasks.left = {}
    BY <1>0, <2>1 DEF CourseInv, TypeInv
  <2>3. ASSUME NEW u \in User PROVE TermKept(u)'
    <3>1. account'[u] = IF IsExpired(u) THEN [account[u] EXCEPT !.role = "simple", !.until = None] ELSE account[u]
      BY <1>12 DEF CheckPremium
    <3>2. CASE IsExpired(u)
      <4>1. account'[u].role = "simple" /\ account'[u].until = None
        BY <1>a, <3>1, <3>2 DEF Accounts
      <4> QED BY <2>1, <3>2, <4>1 DEF CourseInv, TermKept, IsPremium, IsExpired
    <3>3. CASE ~IsExpired(u)
      BY <2>1, <3>1, <3>3 DEF CourseInv, TermKept, IsPremium
    <3> QED BY <3>2, <3>3
  <2> QED BY <1>0, <2>1, <2>2, <2>3 DEF CourseInv
<1> QED
  BY <1>1, <1>2, <1>3, <1>4, <1>5, <1>6, <1>7, <1>8, <1>9, <1>10, <1>11, <1>12, TermSteps DEF CourseInv

\* Who is moved from premium to the simple role owes it to an administrator or to the end of
\* the term: the invariant after the step says that nothing promised is left.
LEMMA RunsItsCourse ==
  ASSUME CourseInv, CourseInv', NEW u \in User, account'[u].role = "simple", now' \in Int
  PROVE  past'[u].owed < now'
BY DEF CourseInv, TermKept, IsPremium

\* No check, list or administrator's extension ends premium before the hour it was granted to,
\* as long as nobody acts on accounts that are on a list and no grant begins in the past.
THEOREM PremiumAlwaysRunsItsCourse ==
  ASSUME Hazards \intersect {"overtaken", "stale"} = {}
  PROVE  Spec => PremiumRunsItsCourse
<1>1. Init => CourseInv
  <2> SUFFICES ASSUME Init PROVE CourseInv
    OBVIOUS
  <2>1. TypeInv
    BY ConstantsAssumption, NobodyFits, NeverIs DEF Init, TypeInv, NoPast, Pasts, Fit
  <2>2. \A u \in User : TermKept(u)
    BY NeverIs DEF Init, TermKept, IsPremium, Nobody, NoPast
  <2> QED BY <2>1, <2>2, TypeIs DEF CourseInv, Init
<1>2. CourseInv /\ [Next]_vars => CourseInv'
  BY CourseStep
<1>3. CourseInv /\ CourseInv' /\ [Next]_vars =>
        [\A u \in User : IsPremium(u) /\ account'[u].role = "simple" => past'[u].owed < now]_vars
  <2> SUFFICES ASSUME CourseInv, CourseInv', [Next]_vars, NEW u \in User,
                      IsPremium(u), account'[u].role = "simple"
               PROVE  past'[u].owed < now
    OBVIOUS
  <2>1. past'[u].owed < now'
    BY RunsItsCourse, TypeIs DEF CourseInv, TypeInv
  <2>2. CASE Tick
    BY <2>2 DEF Tick, IsPremium
  <2>3. CASE now' = now
    BY <2>1, <2>3
  <2>4. Tick \/ now' = now
    BY DEF Next, Administer, Night, Handles, GrantPremium, vars, clock, Restart, NextList,
       GetPendingNotifications, ExtendAllPremium, CheckPremium, Register, Login, SetPremium, AddPremium,
       ToggleAdmin, AdminDeletes, SetUserRole, SetPremiumExpiredNotify, SetPremiumWarningNotify,
       WarnInactive, DeleteInactive, KeepInactive, ClearPremiumNotify, SendMessage, SendFails
  <2> QED BY <2>2, <2>3, <2>4
<1> QED BY <1>1, <1>2, <1>3, PTL DEF Spec, PremiumRunsItsCourse

-----------------------------------------------------------------------------
(***************************************************************************)
(* Deletion is justified                                                   *)
(***************************************************************************)
\* The mark of a warning is found on simple accounts only, and was set since they are simple.
MarkKept(u) == account[u].inactiveWarned => account[u].role = "simple" /\ past[u].spell

Deletable(u) == account[u].role = "simple" /\ ~account[u].admin

DeletionInv ==
  /\ TypeOK
  /\ \A u \in User : MarkKept(u)
  /\ tasks.phase = "inactive" => \A u \in tasks.left : Deletable(u)

\* What matters here of an account stays as it is.
MarkSame(u) ==
  /\ account'[u].role = account[u].role /\ account'[u].admin = account[u].admin
  /\ account'[u].inactiveWarned = account[u].inactiveWarned /\ past'[u].spell = past[u].spell

\* A step that touches one user, who is on no list of the inactive or leaves it.
LEMMA MarkOfOne ==
  ASSUME DeletionInv, [Next]_vars, NEW u \in User,
         tasks'.phase = tasks.phase \/ tasks'.phase # "inactive",
         tasks'.phase = "inactive" => tasks'.left \subseteq tasks.left \ {u},
         \A v \in User \ {u} : MarkSame(v), MarkKept(u)'
  PROVE  DeletionInv'
<1>1. TypeOK' /\ TypeInv
  BY TypeStep, TypeIs DEF DeletionInv
<1>2. \A v \in User : MarkKept(v)'
  BY DEF DeletionInv, MarkKept, MarkSame
<1>3. tasks'.phase = "inactive" => \A v \in tasks'.left : Deletable(v)'
  BY <1>1 DEF DeletionInv, Deletable, MarkSame, TypeInv
<1> QED BY <1>1, <1>2, <1>3 DEF DeletionInv

\* A step that changes nothing that matters here, and adds nobody to a list of the inactive.
LEMMA MarksSame ==
  ASSUME DeletionInv, [Next]_vars, \A v \in User : MarkSame(v),
         tasks'.phase = "inactive" => tasks.phase = "inactive" /\ tasks'.left \subseteq tasks.left
  PROVE  DeletionInv'
<1>1. TypeOK' /\ TypeInv
  BY TypeStep, TypeIs DEF DeletionInv
<1> QED BY <1>1 DEF DeletionInv, Deletable, MarkKept, MarkSame, TypeInv

\* The invariant is inductive where lists are not overtaken and no warned account is promoted.
LEMMA DeletionStep ==
  ASSUME Hazards \intersect {"overtaken", "respelled"} = {}, DeletionInv, [Next]_vars
  PROVE  DeletionInv'
<1> USE ConstantsAssumption
<1>0. TypeInv /\ TypeOK'
  BY TypeIs, TypeStep DEF DeletionInv
<1>a. \A u \in User : account[u] \in Accounts /\ past[u] \in Pasts
  BY <1>0 DEF TypeInv
<1> USE <1>0 DEF TypeInv, clock, delivery
<1>1. ASSUME NEW u \in User, Register(u) PROVE DeletionInv'
  <2>1. account[u].role = "none" /\ account'[u].inactiveWarned = account[u].inactiveWarned
        /\ UNCHANGED <<tasks, past>> /\ \A v \in User \ {u} : MarkSame(v)
    BY <1>a, <1>1 DEF Register, Accounts, MarkSame
  <2>2. MarkKept(u)' /\ (tasks.phase = "inactive" => u \notin tasks.left)
    BY <2>1 DEF DeletionInv, MarkKept, Deletable
  <2> QED BY <2>1, <2>2, MarkOfOne
<1>2. ASSUME NEW u \in User, Login(u) PROVE DeletionInv'
  BY <1>a, <1>2, MarksSame DEF Login, MarkSame, Pasts
<1>3. ASSUME NEW u \in User, NEW until, NEW owed, GrantPremium(u, until, owed) PROVE DeletionInv'
  <2>1. /\ ~account[u].inactiveWarned /\ u \notin tasks.left /\ tasks' = tasks
        /\ \A v \in User \ {u} : MarkSame(v)
    BY <1>3 DEF GrantPremium, Unwarned, Undisturbed, MarkSame
  <2>2. account'[u].inactiveWarned = account[u].inactiveWarned
    BY <1>a, <1>3 DEF GrantPremium, Accounts
  <2> QED BY <2>1, <2>2, MarkOfOne DEF MarkKept
<1>4. ASSUME NEW u \in User, NEW role \in {"simple", "super"}, SetUserRole(u, role) PROVE DeletionInv'
  <2>1. /\ role = "super" => ~account[u].inactiveWarned
        /\ u \notin tasks.left /\ tasks' = tasks /\ \A v \in User \ {u} : MarkSame(v)
    BY <1>4 DEF SetUserRole, Unwarned, Undisturbed, MarkSame
  <2>2. /\ account'[u].inactiveWarned = account[u].inactiveWarned /\ account'[u].role = role
        /\ role = "simple" => past'[u].spell = past[u].spell
    BY <1>a, <1>4 DEF SetUserRole, Accounts, Pasts
  <2>3. MarkKept(u)'
    BY <2>1, <2>2 DEF DeletionInv, MarkKept
  <2> QED BY <2>1, <2>3, MarkOfOne
<1>5. CASE ExtendAllPremium
  <2>1. \A u \in User : MarkSame(u)
    BY <1>a, <1>5 DEF ExtendAllPremium, MarkSame, Accounts, Pasts
  <2> QED BY <1>5, <2>1, MarksSame DEF ExtendAllPremium
<1>6. CASE CheckPremium
  <2>1. tasks' = tasks /\ \A u \in User : IsExpired(u) => u \notin tasks.left
    BY <1>6 DEF CheckPremium, Undisturbed
  <2>2. ASSUME NEW u \in User PROVE MarkKept(u)' /\ (u \in tasks.left => MarkSame(u))
    <3>1. account'[u] = IF IsExpired(u) THEN [account[u] EXCEPT !.role = "simple", !.until = None] ELSE account[u]
      BY <1>6 DEF CheckPremium
    <3>2. past' = past
      BY <1>6 DEF CheckPremium
    <3>3. CASE IsExpired(u)
      <4>1. account'[u].role = "simple" /\ account'[u].inactiveWarned = account[u].inactiveWarned
        BY <1>a, <3>1, <3>3 DEF Accounts
      <4> QED BY <2>1, <3>2, <3>3, <4>1 DEF DeletionInv, MarkKept
    <3>4. CASE ~IsExpired(u)
      BY <3>1, <3>2, <3>4 DEF DeletionInv, MarkKept, MarkSame
    <3> QED BY <3>3, <3>4
  <2> QED BY <2>1, <2>2 DEF DeletionInv, Deletable, MarkSame
<1>7. ASSUME NEW u \in User, ToggleAdmin(u) PROVE DeletionInv'
  <2>1. /\ account'[u].role = account[u].role /\ account'[u].inactiveWarned = account[u].inactiveWarned
        /\ past' = past /\ tasks' = tasks /\ u \notin tasks.left
        /\ \A v \in User \ {u} : MarkSame(v)
    BY <1>a, <1>7 DEF ToggleAdmin, Undisturbed, MarkSame, Accounts
  <2>2. MarkKept(u)'
    BY <2>1 DEF DeletionInv, MarkKept
  <2> QED BY <2>1, <2>2, MarkOfOne
<1>8. ASSUME NEW u \in User, AdminDeletes(u) \/ DeleteInactive(u) PROVE DeletionInv'
  <2>1. /\ past' = past /\ account' = Deleted(u) /\ tasks'.phase = tasks.phase
        /\ tasks'.left \subseteq tasks.left \ {u}
    BY <1>8 DEF AdminDeletes, DeleteInactive, Handles, Undisturbed
  <2>2. account'[u] = account[u] \/ ~account'[u].inactiveWarned
    BY <2>1 DEF Deleted, Nobody
  <2>3. MarkKept(u)' /\ \A v \in User \ {u} : MarkSame(v)
    BY <2>1, <2>2 DEF DeletionInv, MarkKept, MarkSame, Deleted
  <2> QED BY <2>1, <2>3, MarkOfOne
<1>9. ASSUME NEW u \in User, SetPremiumExpiredNotify(u) PROVE DeletionInv'
  <2>1. /\ tasks.phase = "demote" /\ tasks'.phase = "demote" /\ \A v \in User \ {u} : MarkSame(v)
        /\ past'[u].spell = past[u].spell
    BY <1>a, <1>9 DEF SetPremiumExpiredNotify, Handles, SetNotice, MarkSame, Pasts
  <2>2. /\ account'[u].inactiveWarned = account[u].inactiveWarned
        /\ account'[u].role = "simple" \/ account'[u] = account[u]
    BY <1>a, <1>9 DEF SetPremiumExpiredNotify, SetNotice, Accounts
  <2>3. MarkKept(u)'
    BY <2>1, <2>2 DEF DeletionInv, MarkKept
  <2> QED BY <2>1, <2>3, MarkOfOne
<1>10. ASSUME NEW u \in User, SetPremiumWarningNotify(u) PROVE DeletionInv'
  <2>1. tasks'.phase = "warn" /\ \A v \in User : MarkSame(v)
    BY <1>a, <1>10 DEF SetPremiumWarningNotify, Handles, SetNotice, MarkSame, Accounts, Pasts
  <2> QED BY <2>1, MarksSame
<1>11. ASSUME NEW u \in User, WarnInactive(u) PROVE DeletionInv'
  <2>1. /\ tasks.phase = "inactive" /\ u \in tasks.left /\ tasks'.left = tasks.left \ {u}
        /\ tasks'.phase = tasks.phase /\ \A v \in User \ {u} : MarkSame(v)
    BY <1>11 DEF WarnInactive, Handles, MarkSame
  <2>2. account[u].role = "simple"
    BY <2>1 DEF DeletionInv, Deletable
  <2>3. account'[u].role = account[u].role /\ past'[u].spell = (account[u].role = "simple")
    BY <1>a, <1>11 DEF WarnInactive, Accounts, Pasts
  <2>4. MarkKept(u)'
    BY <2>2, <2>3 DEF MarkKept
  <2> QED BY <2>1, <2>4, MarkOfOne
<1>12. ASSUME NEW u \in User, KeepInactive(u) PROVE DeletionInv'
  BY <1>12, MarksSame DEF KeepInactive, Handles, MarkSame
<1>13. CASE NextList
  <2>1. UNCHANGED <<account, past>>
    BY <1>13 DEF NextList
  <2>2. tasks'.phase = "inactive" => tasks'.left = InactiveUsers
    BY <1>13 DEF NextList
  <2> QED BY <2>1, <2>2 DEF DeletionInv, MarkKept, Deletable, InactiveUsers
<1>14. CASE GetPendingNotifications
  BY <1>14, MarksSame DEF GetPendingNotifications, MarkSame
<1>15. ASSUME NEW n \in passing, SendMessage(n) PROVE DeletionInv'
  BY <1>a, <1>15, MarksSame DEF SendMessage, MarkSame, Pasts
<1>16. ASSUME NEW n \in passing, SendFails(n) PROVE DeletionInv'
  BY <1>16, MarksSame DEF SendFails, MarkSame
<1>17. ASSUME NEW u \in User, ClearPremiumNotify(u) PROVE DeletionInv'
  BY <1>a, <1>17, MarksSame DEF ClearPremiumNotify, MarkSame, Accounts
<1>18. CASE Tick
  BY <1>18, MarksSame DEF Tick, MarkSame, RunDailyTasks
<1>19. CASE Restart
  BY <1>19, MarksSame DEF Restart, MarkSame
<1>20. CASE UNCHANGED vars
  BY <1>20, MarksSame DEF vars, MarkSame
<1> QED
  BY <1>1, <1>2, <1>3, <1>4, <1>5, <1>6, <1>7, <1>8, <1>9, <1>10, <1>11, <1>12, <1>13, <1>14, <1>15,
     <1>16, <1>17, <1>18, <1>19, <1>20
  DEF Next, Administer, Night, SetPremium, AddPremium

\* The night tasks delete no account but a simple one that has been warned since it is simple, as
\* long as nobody acts on accounts that are on a list and none that was warned is promoted.
THEOREM DeletionAlwaysJustified ==
  ASSUME Hazards \intersect {"overtaken", "respelled"} = {}
  PROVE  Spec => DeletionJustified
<1>1. Init => DeletionInv
  <2> SUFFICES ASSUME Init PROVE DeletionInv
    OBVIOUS
  <2>1. TypeInv
    BY ConstantsAssumption, NobodyFits, NeverIs DEF Init, TypeInv, NoPast, Pasts, Fit
  <2> QED BY <2>1, TypeIs DEF DeletionInv, Init, MarkKept, Nobody
<1>2. DeletionInv /\ [Next]_vars => DeletionInv'
  BY DeletionStep
<1>3. DeletionInv /\ [Next]_vars =>
        [\A u \in User : DeletedAtNight(u) =>
           account[u].role = "simple" /\ ~account[u].admin /\ past[u].spell]_vars
  <2> SUFFICES ASSUME DeletionInv, [Next]_vars, NEW u \in User, DeletedAtNight(u)
               PROVE  account[u].role = "simple" /\ ~account[u].admin /\ past[u].spell
    OBVIOUS
  <2>0. TypeInv /\ account[u] \in Accounts
    BY TypeIs DEF DeletionInv, TypeInv
  <2>1. u \in tasks.left /\ u \notin tasks'.left /\ Present(u) /\ account'[u].role = "deleted"
    BY DEF DeletedAtNight
  <2>2. tasks' # tasks /\ account' # account
    BY <2>1 DEF Present
  <2>3. \E v \in User : Night(v)
    BY <2>2 DEF Next, vars, Administer, Register, Login, GrantPremium, SetPremium, AddPremium, SetUserRole,
       ToggleAdmin, AdminDeletes, ExtendAllPremium, CheckPremium, NextList, GetPendingNotifications,
       SendMessage, SendFails, ClearPremiumNotify, Tick, Restart
  <2>4. PICK v \in User : Night(v)
    BY <2>3
  <2>5. u = v
    BY <2>0, <2>1, <2>4 DEF Night, SetPremiumExpiredNotify, SetPremiumWarningNotify, WarnInactive, DeleteInactive,
       KeepInactive, Handles, TypeInv
  <2>6. DeleteInactive(u)
    BY <2>0, <2>1, <2>4, <2>5 DEF Night, SetPremiumExpiredNotify, SetPremiumWarningNotify, WarnInactive,
       KeepInactive, SetNotice, Present, Accounts, TypeInv
  <2>7. Deletable(u) /\ account[u].inactiveWarned
    BY <2>1, <2>6 DEF DeleteInactive, Handles, DeletionInv
  <2> QED BY <2>7 DEF DeletionInv, MarkKept, Deletable
<1> QED BY <1>1, <1>2, <1>3, PTL DEF Spec, DeletionJustified

-----------------------------------------------------------------------------
(***************************************************************************)
(* No notice is sent twice                                                 *)
(***************************************************************************)
\* A notice that is not the one just sent is unsent, those of a pass are, and a pass has one for
\* each user.
OnceInv ==
  /\ TypeOK /\ AnnouncedOnce
  /\ \A u \in User : ~Present(u) => account[u].notice = None
  /\ \A u \in User : account[u].notice # None /\ sent # u => past[u].sends = 0
  /\ \A n \in passing : past[n.user].sends = 0 /\ sent # n.user
  /\ \A m, n \in passing : m.user = n.user => m = n

\* Neither what a user is to be told nor whether it was changes.
NoticeSame(u) ==
  /\ account'[u].notice = account[u].notice /\ past'[u].sends = past[u].sends
  /\ Present(u)' <=> Present(u)

LEMMA NoticesSame ==
  ASSUME OnceInv, TypeOK', UNCHANGED delivery, \A u \in User : NoticeSame(u)
  PROVE  OnceInv'
<1>1. TypeInv
  BY TypeIs DEF OnceInv
<1>2. \A n \in passing : n.user \in User
  BY <1>1, ConstantsAssumption DEF TypeInv
<1> QED BY <1>2 DEF OnceInv, NoticeSame, AnnouncedOnce, delivery

\* A step that leaves one user with no notice, or with one that is unsent.
LEMMA NoticeOfOne ==
  ASSUME OnceInv, TypeOK', UNCHANGED delivery, NEW u \in User,
         \A v \in User \ {u} : NoticeSame(v),
         ~Present(u)' => account'[u].notice = None,
         \/ past'[u].sends = 0
         \/ past'[u].sends = past[u].sends /\ account'[u].notice = None
  PROVE  OnceInv'
<1>1. TypeInv
  BY TypeIs DEF OnceInv
<1>2. \A n \in passing : n.user \in User
  BY <1>1, ConstantsAssumption DEF TypeInv
<1> QED BY <1>2 DEF OnceInv, NoticeSame, AnnouncedOnce, delivery

\* The invariant is inductive where no restart falls between a message and its record.
LEMMA OnceStep ==
  ASSUME "crash" \notin Hazards, OnceInv, [Next]_vars
  PROVE  OnceInv'
<1> USE ConstantsAssumption
<1>0. TypeInv /\ TypeOK'
  BY TypeIs, TypeStep DEF OnceInv
<1>a. /\ \A u \in User : account[u] \in Accounts /\ past[u] \in Pasts
      /\ \A n \in passing : n.user \in User /\ n.user # None
  BY <1>0 DEF TypeInv
<1> USE <1>0 DEF TypeInv, clock
<1>1. ASSUME NEW u \in User, Register(u) PROVE OnceInv'
  <2>1. /\ UNCHANGED <<delivery, past>> /\ \A v \in User \ {u} : account'[v] = account[v]
        /\ account'[u].notice = account[u].notice /\ account'[u].role = "simple" /\ ~Present(u)
    BY <1>a, <1>1 DEF Register, Accounts, Present
  <2>2. account'[u].notice = None
    BY <2>1 DEF OnceInv
  <2> QED BY <1>0, <2>1, <2>2, NoticeOfOne DEF NoticeSame, Present
<1>2. ASSUME NEW u \in User, Login(u) PROVE OnceInv'
  BY <1>a, <1>2, NoticesSame DEF Login, NoticeSame, Present, Pasts
<1>3. ASSUME NEW u \in User, NEW until, NEW owed, GrantPremium(u, until, owed) PROVE OnceInv'
  BY <1>a, <1>3, NoticesSame DEF GrantPremium, NoticeSame, Present, Accounts, Pasts
<1>4. ASSUME NEW u \in User, NEW role \in {"simple", "super"}, SetUserRole(u, role) PROVE OnceInv'
  BY <1>a, <1>4, NoticesSame DEF SetUserRole, NoticeSame, Present, Accounts, Pasts
<1>5. CASE ExtendAllPremium
  <2>1. \A u \in User : NoticeSame(u)
    BY <1>a, <1>5 DEF ExtendAllPremium, NoticeSame, Present, Accounts, Pasts
  <2> QED BY <1>5, <2>1, NoticesSame DEF ExtendAllPremium
<1>6. CASE CheckPremium
  <2>1. \A u \in User : NoticeSame(u)
    BY <1>a, <1>6 DEF CheckPremium, IsExpired, IsPremium, NoticeSame, Present, Accounts
  <2> QED BY <1>6, <2>1, NoticesSame DEF CheckPremium
<1>7. ASSUME NEW u \in User, ToggleAdmin(u) PROVE OnceInv'
  BY <1>a, <1>7, NoticesSame DEF ToggleAdmin, NoticeSame, Present, Accounts
<1>8. ASSUME NEW u \in User, AdminDeletes(u) \/ DeleteInactive(u) PROVE OnceInv'
  <2>1. account' = Deleted(u) /\ UNCHANGED <<delivery, past>>
    BY <1>8 DEF AdminDeletes, DeleteInactive, Handles
  <2>2. CASE account[u].admin
    BY <1>0, <2>1, <2>2, NoticesSame DEF Deleted, NoticeSame, Present
  <2>3. CASE ~account[u].admin
    BY <1>0, <2>1, <2>3, NoticeOfOne DEF Deleted, Nobody, NoticeSame, Present
  <2> QED BY <2>2, <2>3
<1>9. ASSUME NEW u \in User, NEW type, NEW role \in {"simple", account[u].role}, NEW warned,
             SetNotice(u, type, role, warned), UNCHANGED delivery
      PROVE  OnceInv'
  <2>1. past'[u].sends = 0 /\ \A v \in User \ {u} : NoticeSame(v)
    BY <1>a, <1>9 DEF SetNotice, NoticeSame, Present, Pasts
  <2>2. ~Present(u)' => account' = account
    BY <1>a, <1>9 DEF SetNotice, Present, Accounts
  <2>3. ~Present(u)' => account'[u].notice = None
    BY <2>2 DEF OnceInv, Present
  <2> QED BY <1>0, <1>9, <2>1, <2>3, NoticeOfOne
<1>10. ASSUME NEW u \in User, SetPremiumExpiredNotify(u) \/ SetPremiumWarningNotify(u) PROVE OnceInv'
  BY <1>9, <1>10 DEF SetPremiumExpiredNotify, SetPremiumWarningNotify, Handles
<1>11. ASSUME NEW u \in User, WarnInactive(u) PROVE OnceInv'
  BY <1>a, <1>11, NoticesSame DEF WarnInactive, Handles, NoticeSame, Present, Accounts, Pasts
<1>12. ASSUME NEW u \in User, KeepInactive(u) PROVE OnceInv'
  BY <1>12, NoticesSame DEF KeepInactive, Handles, NoticeSame, Present
<1>13. CASE NextList
  BY <1>13, NoticesSame DEF NextList, NoticeSame, Present
<1>14. CASE GetPendingNotifications
  BY <1>a, <1>14 DEF GetPendingNotifications, Deliverable, Notice, OnceInv, AnnouncedOnce, Present
<1>15. ASSUME NEW n \in passing, SendMessage(n) PROVE OnceInv'
  <2>1. /\ sent = None /\ sent' = n.user /\ passing' = passing \ {n} /\ account' = account
        /\ \A v \in User : past'[v].sends = IF v = n.user THEN 1 ELSE past[v].sends
    BY <1>a, <1>15 DEF SendMessage, Pasts, OnceInv
  <2> QED BY <1>a, <2>1 DEF OnceInv, AnnouncedOnce, Present
<1>16. ASSUME NEW n \in passing, SendFails(n) PROVE OnceInv'
  BY <1>16 DEF SendFails, OnceInv, AnnouncedOnce, Present
<1>17. ASSUME NEW u \in User, ClearPremiumNotify(u) PROVE OnceInv'
  <2>1. /\ sent = u /\ sent' = None /\ passing' = passing /\ past' = past
        /\ \A v \in User : account'[v].role = account[v].role
        /\ \A v \in User \ {u} : account'[v] = account[v]
    BY <1>a, <1>17 DEF ClearPremiumNotify, Accounts
  <2>2. account'[u].notice = None
    BY <1>a, <1>17 DEF ClearPremiumNotify, Accounts, OnceInv
  <2> QED BY <1>a, <2>1, <2>2 DEF OnceInv, AnnouncedOnce, Present
<1>18. CASE Tick
  BY <1>18, NoticesSame DEF Tick, NoticeSame, Present
<1>19. CASE Restart
  <2>1. sent = None /\ sent' = None /\ passing' = {} /\ UNCHANGED <<account, past>>
    BY <1>19 DEF Restart
  <2> QED BY <1>0, <2>1 DEF OnceInv, AnnouncedOnce, Present
<1>20. CASE UNCHANGED vars
  BY <1>20, NoticesSame DEF vars, NoticeSame, Present, delivery
<1> QED
  BY <1>1, <1>2, <1>3, <1>4, <1>5, <1>6, <1>7, <1>8, <1>10, <1>11, <1>12, <1>13, <1>14, <1>15,
     <1>16, <1>17, <1>18, <1>19, <1>20
  DEF Next, Administer, Night, SetPremium, AddPremium

\* Without a restart between a message and its record no notice is sent twice, whoever acts in
\* between and however often messages are refused.
THEOREM NeverAnnouncedTwice ==
  ASSUME "crash" \notin Hazards
  PROVE  Spec => []AnnouncedOnce
<1>1. Init => OnceInv
  <2> SUFFICES ASSUME Init PROVE OnceInv
    OBVIOUS
  <2>1. TypeInv
    BY ConstantsAssumption, NobodyFits, NeverIs DEF Init, TypeInv, NoPast, Pasts, Fit
  <2> QED BY <2>1, TypeIs DEF OnceInv, Init, AnnouncedOnce, Nobody, NoPast, Present
<1>2. OnceInv /\ [Next]_vars => OnceInv'
  BY OnceStep
<1>3. OnceInv => AnnouncedOnce
  BY DEF OnceInv
<1> QED BY <1>1, <1>2, <1>3, PTL DEF Spec

-----------------------------------------------------------------------------
(***************************************************************************)
(* Whoever is demoted has been warned                                      *)
(***************************************************************************)
\* The hour of the last run of the night tasks, and that of today's window.
LastRun == now - SinceRun
WindowOpens(u) == now - Local(u) + NotifyStart

\* A notice waits for today's window or tomorrow's, and is gone when that has closed.
Timely(u) == account[u].notice # None =>
  /\ now <= account[u].noticeAt \/ inDeliveryWindow(u)
  /\ account[u].noticeAt = WindowOpens(u) \/ account[u].noticeAt = WindowOpens(u) + Day

\* A notice says what is true of the account.
OwnNotice(u) ==
  /\ account[u].notice = "warning" => IsPremium(u) /\ account[u].premiumWarned
  /\ account[u].notice = "expired" => ~IsPremium(u)

\* A warning is delivered before the run that ends the term of its user.
InTime(u) == account[u].notice = "warning" =>
  \/ account[u].noticeAt < LastRun + Day + Day /\ account[u].until >= LastRun + Day
  \/ account[u].noticeAt < LastRun + Day /\ account[u].until >= LastRun

\* The mark of a warning is left behind by one that was delivered.
WasTold(u) ==
  IsPremium(u) /\ account[u].premiumWarned /\ account[u].notice # "warning" => past[u].told

ToBeWarned(u) == tasks.phase = "demote" \/ (tasks.phase = "warn" /\ u \in tasks.left)

\* A term without a warning lasts beyond the next run; beyond this one, while its list is not done.
UnwarnedLasts(u) == IsPremium(u) /\ ~account[u].premiumWarned =>
  \/ account[u].until >= LastRun + Day + Day
  \/ account[u].until >= LastRun + Day /\ ToBeWarned(u)

\* A pass has notices that the accounts still have, unless a simple account was deleted.
UnderWay(u) ==
  /\ \A n \in passing : n.user = u => \/ account[u].notice = n.type
                                      \/ account[u].role = "deleted" /\ n.type = "expired"
  /\ sent = u => \/ account[u].role = "deleted"
                 \/ account[u].notice # None /\ (account[u].notice = "warning" => past[u].told)

\* Who is on a list is what the list asked for.
Listed(u) == u \in tasks.left =>
  /\ tasks.phase = "warn" => IsPremium(u) /\ ~account[u].premiumWarned
  /\ tasks.phase = "inactive" => account[u].role = "simple"

Informed(u) == Timely(u) /\ OwnNotice(u) /\ InTime(u) /\ WasTold(u) /\ UnwarnedLasts(u) /\ UnderWay(u)

WarnedInv ==
  /\ EndsInv /\ CourseInv /\ OnceInv
  /\ \A u \in User : Listed(u) /\ (u \in Reachable => Informed(u))

\* Nothing that matters here changes for the user.
Unmoved(u) ==
  /\ account'[u].role = account[u].role /\ account'[u].until = account[u].until
  /\ account'[u].premiumWarned = account[u].premiumWarned
  /\ account'[u].notice = account[u].notice /\ account'[u].noticeAt = account[u].noticeAt
  /\ past'[u].told = past[u].told
  /\ u \in tasks'.left => u \in tasks.left
  /\ tasks.phase = "warn" => (u \in tasks.left => u \in tasks'.left)

\* The three invariants proved above are kept whatever is said of warnings.
LEMMA FormerKept ==
  ASSUME Hazards \subseteq {"respelled"}, WarnedInv, [Next]_vars
  PROVE  EndsInv' /\ CourseInv' /\ OnceInv' /\ TypeInv /\ TypeInv'
<1>1. Hazards \intersect {"crash", "stale"} = {} /\ Hazards \intersect {"overtaken", "stale"} = {}
      /\ "crash" \notin Hazards
  OBVIOUS
<1> QED BY <1>1, EndsStep, CourseStep, OnceStep, TypeIs, TypeStep DEF WarnedInv, EndsInv

\* A step that keeps clock, phase and pass, and settles whomever it moves.
LEMMA WarnedOfSome ==
  ASSUME Hazards \subseteq {"respelled"}, WarnedInv, [Next]_vars,
         UNCHANGED <<now, hour, passing, sent>>, tasks'.phase = tasks.phase,
         \A u \in User : Unmoved(u) \/ (Listed(u)' /\ (u \in Reachable => Informed(u)'))
  PROVE  WarnedInv'
<1>1. ASSUME NEW u \in User, Unmoved(u) PROVE Listed(u)' /\ (u \in Reachable => Informed(u)')
  <2>1. Listed(u)'
    BY <1>1 DEF WarnedInv, Unmoved, Listed, IsPremium
  <2>2. ASSUME u \in Reachable PROVE Informed(u)'
    <3> USE <1>1 DEF Unmoved, IsPremium
    <3>0. Informed(u)
      BY <2>2 DEF WarnedInv
    <3>1. LastRun' = LastRun /\ WindowOpens(u)' = WindowOpens(u)
      BY DEF LastRun, SinceRun, WindowOpens, Local
    <3>2. Timely(u)' /\ OwnNotice(u)' /\ InTime(u)' /\ WasTold(u)'
      BY <3>0, <3>1 DEF Informed, Timely, inDeliveryWindow, Local, OwnNotice, InTime, WasTold
    <3>3. UnwarnedLasts(u)'
      BY <3>0, <3>1 DEF Informed, UnwarnedLasts, ToBeWarned
    <3>4. UnderWay(u)'
      BY <3>0 DEF Informed, UnderWay
    <3> QED BY <3>2, <3>3, <3>4 DEF Informed
  <2> QED BY <2>1, <2>2
<1> QED BY <1>1, FormerKept DEF WarnedInv

\* The window that is chosen is today's or tomorrow's, not closed, and opens within two days.
LEMMA NextWindow ==
  ASSUME TypeInv, NEW u \in User
  PROVE  LET at == nextDeliveryTime(u)
         IN /\ at \in Int /\ at < now + Day + Day /\ (now <= at \/ inDeliveryWindow(u))
            /\ at = WindowOpens(u) \/ at = WindowOpens(u) + Day
<1>1. now \in Nat /\ Local(u) \in 0 .. Day - 1 /\ Day \in Nat \ {0}
  BY ConstantsAssumption DEF TypeInv, Local
<1>2. NotifyStart \in 0 .. Day - 1 /\ NotifyEnd \in NotifyStart + 1 .. Day
  BY ConstantsAssumption
<1> QED BY <1>1, <1>2 DEF nextDeliveryTime, WindowOpens, inDeliveryWindow

\* During the night's run the last run is now.
LEMMA RunIsNow ==
  ASSUME EndsInv, tasks.phase # "idle"
  PROVE  LastRun = now
BY TypeIs, ConstantsAssumption DEF EndsInv, LastRun, SinceRun, TypeInv

\* Who has nothing pending has nothing under way.
LEMMA NothingUnderWay ==
  ASSUME WarnedInv, NEW u \in Reachable, account[u].notice = None, account[u].role # "deleted"
  PROVE  sent # u /\ \A n \in passing : n.user # u
<1>1. UnderWay(u) /\ passing \subseteq [user : Reachable, type : Types]
  BY TypeIs, ConstantsAssumption DEF WarnedInv, Informed, EndsInv, TypeInv
<1> QED BY <1>1, ConstantsAssumption DEF UnderWay, Types

\* A grant is of at least two days, and finds nothing pending and no mark of a warning.
LEMMA GrantInforms ==
  ASSUME Hazards \subseteq {"respelled"}, Grant >= 2 * Day, WarnedInv, [Next]_vars, NEW u \in User,
         NEW until \in Nat, NEW owed, GrantPremium(u, until, owed), until >= now + Grant
  PROVE  WarnedInv'
<1> USE ConstantsAssumption
<1>1. TypeInv /\ account[u] \in Accounts /\ SinceRun \in 0 .. Day - 1
  BY TypeIs DEF WarnedInv, EndsInv, TypeInv, SinceRun
<1>2. /\ UNCHANGED <<now, hour, passing, sent, tasks>> /\ u \notin tasks.left /\ Present(u)
      /\ ~account[u].premiumWarned /\ (u \in Reachable => account[u].notice = None)
      /\ \A v \in User \ {u} : account'[v] = account[v] /\ past'[v] = past[v]
  BY <1>1 DEF GrantPremium, Undisturbed, Unwarned, TypeInv, clock, delivery
<1>3. /\ account'[u].role = "premium" /\ account'[u].until = until /\ account'[u].notice = account[u].notice
      /\ account'[u].premiumWarned = account[u].premiumWarned
  BY <1>1 DEF GrantPremium, TypeInv, Accounts
<1>4. ASSUME u \in Reachable PROVE Informed(u)'
  <2>1. account[u].notice = None /\ sent # u /\ \A n \in passing : n.user # u
    BY <1>2, <1>4, NothingUnderWay DEF Present
  <2>2. LastRun' = LastRun /\ until >= LastRun + Day + Day
    BY <1>1, <1>2 DEF LastRun, SinceRun, TypeInv
  <2> QED BY <1>2, <1>3, <2>1, <2>2
      DEF Informed, Timely, OwnNotice, InTime, WasTold, UnwarnedLasts, UnderWay
<1>5. Listed(u)' /\ \A v \in User \ {u} : Unmoved(v)
  BY <1>2 DEF Listed, Unmoved
<1> QED BY <1>2, <1>4, <1>5, WarnedOfSome

\* Who is not premium and has nothing pending and nothing under way has nothing to be told.
LEMMA NothingToTell ==
  ASSUME NEW u \in User, ~IsPremium(u)', account'[u].notice = None,
         sent' # u, \A n \in passing' : n.user = u => account'[u].role = "deleted" /\ n.type = "expired"
  PROVE  Informed(u)'
BY ConstantsAssumption
DEF Informed, Timely, OwnNotice, InTime, WasTold, UnwarnedLasts, UnderWay

\* A role that is not premium finds nothing pending.
LEMMA OtherRoleInforms ==
  ASSUME Hazards \subseteq {"respelled"}, WarnedInv, [Next]_vars, NEW u \in User,
         UNCHANGED <<now, hour, passing, sent, tasks>>,
         u \notin tasks.left \/ account[u].role = "none",
         u \in Reachable => account[u].notice = None, account[u].role # "deleted",
         account'[u].role \in {"simple", "super"}, account'[u].notice = account[u].notice,
         \A v \in User \ {u} : account'[v] = account[v] /\ past'[v] = past[v]
  PROVE  WarnedInv'
<1>1. ASSUME u \in Reachable PROVE Informed(u)'
  BY <1>1, NothingUnderWay, NothingToTell DEF IsPremium
<1>2. u \notin tasks.left \/ tasks.phase \notin {"warn", "inactive"}
  BY DEF WarnedInv, Listed, IsPremium
<1>3. Listed(u)' /\ \A v \in User \ {u} : Unmoved(v)
  BY <1>2 DEF Listed, Unmoved
<1> QED BY <1>1, <1>3, WarnedOfSome

\* Administrators' acts on all accounts.
LEMMA ExtendInforms ==
  ASSUME Hazards \subseteq {"respelled"}, WarnedInv, ExtendAllPremium
  PROVE  WarnedInv'
<1> USE ConstantsAssumption
<1>1. [Next]_vars /\ TypeInv /\ SinceRun \in 0 .. Day - 1
  BY TypeIs DEF WarnedInv, EndsInv, TypeInv, SinceRun, Next
<1>2. UNCHANGED <<now, hour, passing, sent, tasks>>
  BY DEF ExtendAllPremium, clock, delivery
<1>3. ASSUME NEW u \in User PROVE Unmoved(u) \/ (Listed(u)' /\ (u \in Reachable => Informed(u)'))
  <2>1. /\ account'[u] = IF IsPremium(u) THEN [account[u] EXCEPT !.until = TermOrNow(u) + Extension] ELSE account[u]
        /\ past'[u] = IF IsPremium(u) THEN [past[u] EXCEPT !.owed = @ + Extension] ELSE past[u]
    BY DEF ExtendAllPremium
  <2>2. CASE ~IsPremium(u)
    BY <1>2, <2>1, <2>2 DEF Unmoved
  <2>3. CASE IsPremium(u)
    <3>1. account[u] \in Accounts /\ past[u] \in Pasts
      BY <1>1 DEF TypeInv
    <3>2. account[u].until = past[u].owed /\ past[u].owed \in Int
      BY <2>3, <3>1 DEF WarnedInv, CourseInv, TermKept, Pasts
    <3>3. /\ u \notin tasks.left /\ ~account[u].premiumWarned
          /\ u \in Reachable => account[u].notice = None
      BY <2>3 DEF ExtendAllPremium, Undisturbed, Unwarned
    <3>4. TermOrNow(u) = account[u].until
      BY <3>2 DEF TermOrNow
    <3>5. /\ account'[u].role = account[u].role /\ account'[u].notice = account[u].notice
          /\ account'[u].premiumWarned = account[u].premiumWarned
          /\ account'[u].until = account[u].until + Extension
      BY <2>1, <2>3, <3>1, <3>4 DEF Accounts
    <3>6. ASSUME u \in Reachable PROVE Informed(u)'
      <4>1. account[u].notice = None /\ sent # u /\ \A n \in passing : n.user # u
        BY <2>3, <3>3, <3>6, NothingUnderWay DEF IsPremium
      <4>2. UnwarnedLasts(u)'
        <5>1. UnwarnedLasts(u)
          BY <3>6 DEF WarnedInv, Informed
        <5>2. LastRun' = LastRun /\ LastRun \in Int /\ Extension \in Nat
          BY <1>1, <1>2 DEF LastRun, SinceRun, TypeInv
        <5> QED BY <1>2, <2>3, <3>2, <3>3, <3>5, <5>1, <5>2 DEF UnwarnedLasts, ToBeWarned
      <4> QED BY <1>2, <2>3, <3>3, <3>5, <4>1, <4>2
          DEF Informed, Timely, OwnNotice, InTime, WasTold, UnderWay
    <3>7. Listed(u)'
      BY <1>2, <3>3 DEF Listed
    <3> QED BY <3>6, <3>7
  <2> QED BY <2>2, <2>3
<1> QED BY <1>1, <1>2, <1>3, WarnedOfSome

LEMMA CheckInforms ==
  ASSUME Hazards \subseteq {"respelled"}, WarnedInv, CheckPremium
  PROVE  WarnedInv'
<1> USE ConstantsAssumption
<1>1. [Next]_vars /\ TypeInv
  BY TypeIs DEF WarnedInv, EndsInv, Next
<1>2. UNCHANGED <<now, hour, passing, sent, tasks, past>>
  BY DEF CheckPremium, clock, delivery
<1>3. ASSUME NEW u \in User PROVE Unmoved(u) \/ (Listed(u)' /\ (u \in Reachable => Informed(u)'))
  <2>1. account'[u] = IF IsExpired(u) THEN [account[u] EXCEPT !.role = "simple", !.until = None] ELSE account[u]
    BY DEF CheckPremium
  <2>2. CASE ~IsExpired(u)
    BY <1>2, <2>1, <2>2 DEF Unmoved
  <2>3. CASE IsExpired(u)
    <3>1. account[u] \in Accounts
      BY <1>1 DEF TypeInv
    <3>2. u \notin tasks.left /\ (u \in Reachable => account[u].notice = None) /\ account[u].role = "premium"
      BY <2>3 DEF CheckPremium, Undisturbed, IsExpired, IsPremium
    <3>3. account'[u].role = "simple" /\ account'[u].notice = account[u].notice
      BY <2>1, <2>3, <3>1 DEF Accounts
    <3>4. u \in Reachable => Informed(u)'
      BY <1>2, <3>2, <3>3, NothingUnderWay, NothingToTell DEF IsPremium
    <3>5. Listed(u)'
      BY <1>2, <3>2 DEF Listed
    <3> QED BY <3>4, <3>5
  <2> QED BY <2>2, <2>3
<1> QED BY <1>1, <1>2, <1>3, WarnedOfSome

\* A deleted account takes no notice with it, but perhaps one of a pass, to a simple account.
LEMMA DeletionInforms ==
  ASSUME Hazards \subseteq {"respelled"}, WarnedInv, [Next]_vars, NEW u \in User,
         AdminDeletes(u) \/ DeleteInactive(u)
  PROVE  WarnedInv'
<1> USE ConstantsAssumption
<1>1. TypeInv
  BY TypeIs DEF WarnedInv, EndsInv
<1>2. /\ UNCHANGED <<now, hour, passing, sent, past>> /\ account' = Deleted(u)
      /\ tasks'.phase = tasks.phase /\ tasks'.left = tasks.left \ {u}
  BY <1>1 DEF AdminDeletes, DeleteInactive, Handles, Undisturbed, TypeInv, clock, delivery
<1>3. \/ tasks.phase = "inactive" /\ account[u].role = "simple"
      \/ (u \in Reachable => account[u].notice = None) /\ Present(u) /\ u \notin tasks.left
  BY DEF AdminDeletes, DeleteInactive, Handles, Undisturbed, WarnedInv, Listed
<1>4. \A v \in User \ {u} : Unmoved(v)
  BY <1>1, <1>2 DEF Deleted, Unmoved, TypeInv
<1>5. CASE account[u].admin
  <2>1. Unmoved(u)
    BY <1>2, <1>3, <1>5 DEF Deleted, Unmoved
  <2> QED BY <1>2, <1>4, <2>1, WarnedOfSome
<1>6. CASE ~account[u].admin
  <2>1. account'[u].role = "deleted" /\ account'[u].notice = None
    BY <1>1, <1>2, <1>6 DEF Deleted, Nobody, TypeInv
  <2>2. ASSUME u \in Reachable PROVE Informed(u)'
    <3>1. UnderWay(u) /\ OwnNotice(u)
      BY <2>2 DEF WarnedInv, Informed
    <3>2. \A n \in passing : n.type \in Types
      BY <1>1 DEF TypeInv
    <3>3. CASE account[u].role = "simple"
      <4>1. \A n \in passing : n.user = u => n.type = "expired"
        BY <3>1, <3>2, <3>3 DEF UnderWay, OwnNotice, IsPremium, Types
      <4>2. ~IsPremium(u)' /\ UNCHANGED <<passing, sent>>
        BY <1>2, <2>1 DEF IsPremium
      <4> QED BY <2>1, <4>1, <4>2
          DEF Informed, Timely, OwnNotice, InTime, WasTold, UnwarnedLasts, UnderWay
    <3>4. CASE account[u].notice = None /\ Present(u)
      BY <1>2, <2>1, <2>2, <3>4, NothingUnderWay, NothingToTell DEF IsPremium, Present
    <3> QED BY <1>3, <2>2, <3>3, <3>4
  <2>3. Listed(u)'
    BY <1>2 DEF Listed
  <2> QED BY <1>2, <1>4, <2>2, <2>3, WarnedOfSome
<1> QED BY <1>5, <1>6

\* Who is demoted or warned has no other notice pending, and none under way.
LEMMA NoticeIsFirst ==
  ASSUME WarnedInv, NEW u \in Reachable,
         SetPremiumExpiredNotify(u) \/ SetPremiumWarningNotify(u)
  PROVE  /\ account[u].notice = None /\ Present(u) /\ account[u].role = "premium"
         /\ sent # u /\ \A n \in passing : n.user # u
<1> USE ConstantsAssumption
<1>1. TypeInv /\ u \in User /\ account[u] \in Accounts /\ now \in Nat
  BY TypeIs DEF WarnedInv, EndsInv, TypeInv
<1>2. Listed(u) /\ OwnNotice(u) /\ InTime(u)
  BY <1>1 DEF WarnedInv, Informed
<1>3. u \in tasks.left /\ tasks.phase \in {"demote", "warn"} /\ LastRun = now
  BY RunIsNow DEF SetPremiumExpiredNotify, SetPremiumWarningNotify, Handles, WarnedInv
<1>4. \/ IsExpired(u)
      \/ IsPremium(u) /\ ~account[u].premiumWarned
  BY <1>2, <1>3 DEF WarnedInv, CourseInv, Listed
<1>5. account[u].role = "premium" /\ account[u].notice # "expired"
  BY <1>2, <1>4 DEF OwnNotice, IsExpired, IsPremium
<1>6. account[u].notice # "warning"
  <2>1. CASE IsExpired(u)
    <3>1. account[u].until \in Nat /\ account[u].until < now
      BY <1>1, <2>1 DEF IsExpired, Accounts
    <3> QED BY <1>1, <1>2, <1>3, <3>1 DEF InTime
  <2>2. CASE ~account[u].premiumWarned
    BY <1>2, <2>2 DEF OwnNotice
  <2> QED BY <1>4, <2>1, <2>2
<1>7. account[u].notice = None
  BY <1>1, <1>5, <1>6 DEF Accounts, Types
<1> QED BY <1>5, <1>7, NothingUnderWay DEF Present

\* Whoever is demoted is told that premium is over.
LEMMA ExpiredInforms ==
  ASSUME Hazards \subseteq {"respelled"}, WarnedInv, [Next]_vars, NEW u \in User, SetPremiumExpiredNotify(u)
  PROVE  WarnedInv'
<1> USE ConstantsAssumption
<1>1. TypeInv /\ account[u] \in Accounts
  BY TypeIs DEF WarnedInv, EndsInv, TypeInv
<1>2. /\ UNCHANGED <<now, hour, passing, sent>> /\ tasks.phase = "demote" /\ tasks'.phase = tasks.phase
      /\ tasks'.left = tasks.left \ {u} /\ SetNotice(u, "expired", "simple", FALSE)
  BY <1>1 DEF SetPremiumExpiredNotify, Handles, TypeInv, clock, delivery
<1>3. \A v \in User \ {u} : Unmoved(v)
  BY <1>1, <1>2 DEF SetNotice, Unmoved, TypeInv
<1>4. ASSUME u \in Reachable PROVE Informed(u)'
  <2>1. Present(u) /\ sent' # u /\ \A n \in passing' : n.user # u
    BY <1>2, <1>4, NoticeIsFirst
  <2>2. /\ account'[u].role = "simple" /\ account'[u].notice = "expired"
        /\ account'[u].noticeAt = nextDeliveryTime(u)
    BY <1>1, <1>2, <2>1 DEF SetNotice, TypeInv, Accounts
  <2>3. WindowOpens(u)' = WindowOpens(u) /\ (inDeliveryWindow(u)' <=> inDeliveryWindow(u))
    BY <1>2 DEF WindowOpens, inDeliveryWindow, Local
  <2>4. Timely(u)'
    BY <1>1, <1>2, <2>2, <2>3, NextWindow DEF Timely
  <2>5. UnderWay(u)'
    BY <2>1 DEF UnderWay
  <2> QED BY <2>2, <2>4, <2>5 DEF Informed, OwnNotice, InTime, WasTold, UnwarnedLasts, IsPremium
<1>5. Listed(u)'
  BY <1>2 DEF Listed
<1> QED BY <1>2, <1>3, <1>4, <1>5, WarnedOfSome

\* A warning is set a day before the run that ends the term, at least.
LEMMA WarningInforms ==
  ASSUME Hazards \subseteq {"respelled"}, WarnedInv, [Next]_vars, NEW u \in User, SetPremiumWarningNotify(u)
  PROVE  WarnedInv'
<1> USE ConstantsAssumption
<1>1. TypeInv /\ account[u] \in Accounts /\ now \in Nat
  BY TypeIs DEF WarnedInv, EndsInv, TypeInv
<1>2. /\ UNCHANGED <<now, hour, passing, sent>> /\ tasks.phase = "warn" /\ tasks'.phase = tasks.phase
      /\ tasks'.left = tasks.left \ {u} /\ u \in tasks.left
      /\ SetNotice(u, "warning", account[u].role, TRUE)
  BY <1>1 DEF SetPremiumWarningNotify, Handles, TypeInv, clock, delivery
<1>3. \A v \in User \ {u} : Unmoved(v)
  BY <1>1, <1>2 DEF SetNotice, Unmoved, TypeInv
<1>4. ASSUME u \in Reachable PROVE Informed(u)'
  <2>1. /\ Present(u) /\ account[u].role = "premium" /\ sent' # u /\ \A n \in passing' : n.user # u
    BY <1>2, <1>4, NoticeIsFirst
  <2>2. ~account[u].premiumWarned /\ UnwarnedLasts(u) /\ LastRun = now /\ account[u].until \in Int
    <3>1. ~account[u].premiumWarned /\ LastRun = now
      BY <1>2, RunIsNow DEF WarnedInv, Listed
    <3>2. account[u].until = past[u].owed /\ past[u].owed \in Int
      BY <1>1, <2>1 DEF WarnedInv, CourseInv, TermKept, IsPremium, TypeInv, Pasts
    <3> QED BY <1>4, <3>1, <3>2 DEF WarnedInv, Informed
  <2>3. account[u].until >= LastRun + Day
    BY <1>1, <2>1, <2>2 DEF UnwarnedLasts, IsPremium
  <2>4. /\ account'[u].role = "premium" /\ account'[u].notice = "warning" /\ account'[u].premiumWarned
        /\ account'[u].noticeAt = nextDeliveryTime(u) /\ account'[u].until = account[u].until
    BY <1>1, <1>2, <2>1 DEF SetNotice, TypeInv, Accounts
  <2>5. /\ WindowOpens(u)' = WindowOpens(u) /\ (inDeliveryWindow(u)' <=> inDeliveryWindow(u))
        /\ LastRun' = LastRun
    BY <1>2 DEF WindowOpens, inDeliveryWindow, Local, LastRun, SinceRun
  <2>6. Timely(u)' /\ InTime(u)'
    BY <1>1, <1>2, <2>2, <2>3, <2>4, <2>5, NextWindow DEF Timely, InTime
  <2>7. UnderWay(u)'
    BY <2>1 DEF UnderWay
  <2> QED BY <2>4, <2>6, <2>7 DEF Informed, OwnNotice, WasTold, UnwarnedLasts, IsPremium
<1>5. Listed(u)'
  BY <1>2 DEF Listed
<1> QED BY <1>2, <1>3, <1>4, <1>5, WarnedOfSome

\* The list of those to warn has every unwarned term that ends before the run after the next.
LEMMA ListInforms ==
  ASSUME Hazards \subseteq {"respelled"}, Warn >= 2 * Day, WarnedInv, NextList
  PROVE  WarnedInv'
<1> USE ConstantsAssumption
<1>1. [Next]_vars /\ TypeInv /\ now \in Nat
  BY TypeIs DEF WarnedInv, EndsInv, Next, TypeInv
<1>2. /\ UNCHANGED <<now, hour, account, passing, sent, past>> /\ tasks.left = {}
      /\ \/ tasks.phase = "demote" /\ tasks' = [phase |-> "warn", left |-> ExpiringUsers]
         \/ tasks.phase = "warn" /\ tasks' = [phase |-> "inactive", left |-> InactiveUsers]
         \/ tasks.phase = "inactive" /\ tasks' = [phase |-> "idle", left |-> {}]
  BY <1>1 DEF NextList, TypeInv, clock, delivery
<1>3. LastRun = now /\ LastRun' = now
  BY <1>2, RunIsNow DEF NextList, WarnedInv, LastRun, SinceRun
<1>4. ASSUME NEW u \in User PROVE Listed(u)' /\ (u \in Reachable => Informed(u)')
  <2>1. Listed(u)'
    BY <1>2 DEF Listed, ExpiringUsers, InactiveUsers, IsPremium
  <2>2. ASSUME u \in Reachable PROVE Informed(u)'
    <3>1. Informed(u)
      BY <2>2 DEF WarnedInv
    <3>2. /\ Timely(u)' /\ OwnNotice(u)' /\ InTime(u)' /\ WasTold(u)' /\ UnderWay(u)'
      BY <1>2, <1>3, <3>1 DEF Informed, Timely, OwnNotice, InTime, WasTold, UnderWay, IsPremium,
         inDeliveryWindow, WindowOpens, Local
    <3>3. ASSUME IsPremium(u), ~account[u].premiumWarned PROVE UnwarnedLasts(u)'
      <4>1. account[u].until = past[u].owed /\ past[u].owed \in Int
        BY <1>1, <3>3 DEF WarnedInv, CourseInv, TermKept, TypeInv, Pasts
      <4>2. \/ account[u].until >= now + Day + Day
            \/ account[u].until >= now + Day /\ tasks.phase = "demote"
        BY <1>2, <1>3, <3>1, <3>3 DEF Informed, UnwarnedLasts, ToBeWarned
      <4>3. CASE account[u].until >= now + Day + Day
        BY <1>2, <1>3, <4>3 DEF UnwarnedLasts
      <4>4. CASE /\ account[u].until < now + Day + Day /\ account[u].until >= now + Day
                 /\ tasks.phase = "demote"
        <5>1. account[u].until > now /\ account[u].until < now + Warn /\ account[u].until # None
          BY <1>1, <4>1, <4>4
        <5>2. u \in ExpiringUsers
          BY <3>3, <5>1 DEF ExpiringUsers
        <5> QED BY <1>2, <1>3, <4>4, <5>2 DEF UnwarnedLasts, ToBeWarned
      <4> QED BY <1>1, <4>1, <4>2, <4>3, <4>4
    <3>4. UnwarnedLasts(u)'
      BY <1>2, <3>3 DEF UnwarnedLasts, IsPremium
    <3> QED BY <3>2, <3>4 DEF Informed
  <2> QED BY <2>1, <2>2
<1> QED BY <1>1, <1>4, FormerKept DEF WarnedInv

\* A day's change of the local hour.
LEMMA WindowTicks ==
  ASSUME TypeInv, Tick, NEW u \in User
  PROVE  /\ Local(u)' = IF Local(u) = Day - 1 THEN 0 ELSE Local(u) + 1
         /\ WindowOpens(u)' = IF Local(u) = Day - 1 THEN WindowOpens(u) + Day ELSE WindowOpens(u)
<1>1. Zone[u] \in 0 .. Day - 1 /\ hour \in 0 .. Day - 1 /\ now \in Nat /\ Day \in Nat \ {0}
  BY ConstantsAssumption DEF TypeInv
<1>2. now' = now + 1 /\ hour' = IF hour + 1 = Day THEN 0 ELSE hour + 1
  BY DEF Tick
<1>3. Local(u)' = IF Local(u) = Day - 1 THEN 0 ELSE Local(u) + 1
  BY <1>1, <1>2 DEF Local
<1>4. Local(u) \in 0 .. Day - 1 /\ NotifyStart \in Int
  BY <1>1, ConstantsAssumption DEF Local
<1> QED BY <1>1, <1>2, <1>3, <1>4 DEF WindowOpens

\* No hour passes a notice by, and the run that ends a term comes after its warning.
LEMMA TickInforms ==
  ASSUME Hazards \subseteq {"respelled"}, WarnedInv, Tick
  PROVE  WarnedInv'
<1> USE ConstantsAssumption
<1>1. [Next]_vars /\ TypeInv /\ TypeInv' /\ now \in Nat
  BY TypeIs, FormerKept DEF WarnedInv, EndsInv, Next, TypeInv
<1>2. /\ now' = now + 1 /\ hour' = IF hour + 1 = Day THEN 0 ELSE hour + 1
      /\ UNCHANGED <<account, passing, sent, past>> /\ passing = {} /\ sent = None
      /\ tasks.phase = "idle" /\ Deliverable = {}
      /\ tasks' = IF hour' = TaskHour THEN RunDailyTasks' ELSE tasks
  BY DEF Tick, delivery
<1>3. /\ hour' # TaskHour => LastRun' = LastRun /\ tasks'.phase = "idle"
      /\ hour' = TaskHour => LastRun' = LastRun + Day /\ LastRun' = now + 1 /\ tasks'.phase = "demote"
      /\ LastRun \in Int
  BY <1>1, <1>2 DEF LastRun, SinceRun, TypeInv, RunDailyTasks
<1>4. ASSUME NEW u \in User PROVE Listed(u)' /\ (u \in Reachable => Informed(u)')
  <2>1. Listed(u)'
    BY <1>3 DEF Listed
  <2>2. ASSUME u \in Reachable PROVE Informed(u)'
    <3>1. Informed(u) /\ account[u] \in Accounts /\ account'[u] = account[u]
          /\ (account[u].notice = None <=> account[u].noticeAt = None)
      BY <1>1, <1>2, <2>2 DEF WarnedInv, TypeInv, Fit
    <3>2. OwnNotice(u)' /\ WasTold(u)' /\ UnderWay(u)'
      BY <1>2, <3>1 DEF Informed, OwnNotice, WasTold, UnderWay, IsPremium
    <3>3. ASSUME account[u].notice # None
          PROVE  account[u].noticeAt \in Int /\ account[u].noticeAt > now
      <4>1. account[u].noticeAt \in Int
        BY <3>1, <3>3 DEF Accounts
      <4>2. ~(account[u].noticeAt <= now /\ inDeliveryWindow(u))
        BY <1>2, <2>2, <3>3 DEF Deliverable
      <4>3. Local(u) \in 0 .. Day - 1
        BY <1>1 DEF Local, TypeInv
      <4>4. account[u].noticeAt = now => account[u].noticeAt # WindowOpens(u) \/ Local(u) = NotifyStart
        BY <1>1, <4>3 DEF WindowOpens
      <4>5. account[u].noticeAt = now => account[u].noticeAt # WindowOpens(u) + Day
        BY <1>1, <4>3 DEF WindowOpens
      <4>6. Local(u) = NotifyStart => inDeliveryWindow(u)
        BY DEF inDeliveryWindow
      <4> QED BY <1>1, <3>1, <3>3, <4>1, <4>2, <4>4, <4>5, <4>6 DEF Informed, Timely
    <3>4. Timely(u)'
      <4> SUFFICES ASSUME account[u].notice # None PROVE Timely(u)'
        BY <3>1 DEF Timely
      <4>1. Local(u) \in 0 .. Day - 1
        BY <1>1 DEF Local, TypeInv
      <4>2. account[u].noticeAt \in Int /\ account[u].noticeAt > now
        BY <3>3
      <4>3. account[u].noticeAt = WindowOpens(u) \/ account[u].noticeAt = WindowOpens(u) + Day
        BY <3>1 DEF Informed, Timely
      <4>4. Local(u) = Day - 1 => account[u].noticeAt # WindowOpens(u)
        BY <1>1, <4>2 DEF WindowOpens
      <4>5. account[u].noticeAt = WindowOpens(u)' \/ account[u].noticeAt = WindowOpens(u)' + Day
        BY <1>1, <2>2, <4>3, <4>4, WindowTicks
      <4> QED BY <1>1, <1>2, <3>1, <4>2, <4>5 DEF Timely
    <3>5. InTime(u)'
      <4> SUFFICES ASSUME account[u].notice = "warning" PROVE InTime(u)'
        BY <3>1 DEF InTime
      <4>1. account[u].noticeAt \in Int /\ account[u].noticeAt > now
        BY <3>3
      <4>2. account[u].until = past[u].owed /\ past[u].owed \in Int
        BY <1>1, <3>1 DEF WarnedInv, CourseInv, TermKept, Informed, OwnNotice, TypeInv, Pasts
      <4>3. \/ account[u].noticeAt < LastRun + Day + Day /\ account[u].until >= LastRun + Day
            \/ account[u].noticeAt < LastRun + Day /\ account[u].until >= LastRun
        BY <3>1 DEF Informed, InTime
      <4> QED BY <1>1, <1>3, <3>1, <4>1, <4>2, <4>3 DEF InTime
    <3>6. UnwarnedLasts(u)'
      <4> SUFFICES ASSUME IsPremium(u), ~account[u].premiumWarned PROVE UnwarnedLasts(u)'
        BY <3>1 DEF UnwarnedLasts, IsPremium
      <4>1. account[u].until = past[u].owed /\ past[u].owed \in Int
        BY <1>1 DEF WarnedInv, CourseInv, TermKept, TypeInv, Pasts
      <4>2. account[u].until >= LastRun + Day + Day
        BY <1>2, <3>1 DEF Informed, UnwarnedLasts, ToBeWarned
      <4> QED BY <1>3, <3>1, <4>1, <4>2 DEF UnwarnedLasts, ToBeWarned
    <3> QED BY <3>2, <3>4, <3>5, <3>6 DEF Informed
  <2> QED BY <2>1, <2>2
<1> QED BY <1>1, <1>4, FormerKept DEF WarnedInv

\* A pass, its messages and the record of one.
LEMMA DeliveryInforms ==
  ASSUME Hazards \subseteq {"respelled"}, WarnedInv, [Next]_vars,
         \/ GetPendingNotifications
         \/ \E n \in passing : SendMessage(n) \/ SendFails(n)
         \/ \E u \in User : ClearPremiumNotify(u)
  PROVE  WarnedInv'
<1> USE ConstantsAssumption
<1>1. TypeInv
  BY TypeIs DEF WarnedInv, EndsInv
<1>2. UNCHANGED <<now, hour, tasks>>
  BY DEF GetPendingNotifications, SendMessage, SendFails, ClearPremiumNotify, clock
<1>3. \A u \in User : LastRun' = LastRun /\ WindowOpens(u)' = WindowOpens(u)
                      /\ (inDeliveryWindow(u)' <=> inDeliveryWindow(u))
  BY <1>2 DEF LastRun, SinceRun, WindowOpens, inDeliveryWindow, Local
<1>4. \A u \in User : account[u] \in Accounts /\ past[u] \in Pasts
  BY <1>1 DEF TypeInv
<1>5. \A n \in passing : n.user \in Reachable /\ n.user # None /\ n.type \in Types /\ n.type # None
  BY <1>1 DEF TypeInv, Types
<1>7. CASE account' = account
  <2>1. ASSUME NEW u \in User PROVE Listed(u)' /\ (u \in Reachable => Timely(u)' /\ OwnNotice(u)' /\ InTime(u)' /\ UnwarnedLasts(u)')
    BY <1>2, <1>3, <1>7 DEF WarnedInv, Listed, Informed, Timely, OwnNotice, InTime, UnwarnedLasts, ToBeWarned, IsPremium
  <2>2. ASSUME NEW u \in Reachable PROVE WasTold(u)' /\ UnderWay(u)'
    <3>1. u \in User /\ WasTold(u) /\ UnderWay(u)
      BY <2>2 DEF WarnedInv, Informed
    <3>2. CASE GetPendingNotifications
      BY <1>7, <3>1, <3>2 DEF GetPendingNotifications, Deliverable, Notice, WasTold, UnderWay, IsPremium
    <3>3. ASSUME NEW n \in passing, SendMessage(n) PROVE WasTold(u)' /\ UnderWay(u)'
      <4>1. sent' = n.user /\ passing' = passing \ {n} /\ (u # n.user => past'[u] = past[u])
        BY <1>1, <3>1, <3>3 DEF SendMessage, TypeInv
      <4>2. CASE u # n.user
        BY <1>7, <3>1, <4>1, <4>2 DEF WasTold, UnderWay, IsPremium
      <4>3. CASE u = n.user
        <5>1. past[u].told \/ n.type = "warning" => past'[u].told
          BY <1>1, <1>4, <3>1, <3>3, <4>3 DEF SendMessage, TypeInv, Pasts
        <5> QED BY <1>5, <1>7, <3>1, <4>1, <4>3, <5>1 DEF WasTold, UnderWay, IsPremium
      <4> QED BY <4>2, <4>3
    <3>4. ASSUME NEW n \in passing, SendFails(n) PROVE WasTold(u)' /\ UnderWay(u)'
      BY <1>7, <3>1, <3>4 DEF SendFails, WasTold, UnderWay, IsPremium
    <3>5. ASSUME NEW v \in User, ClearPremiumNotify(v) PROVE WasTold(u)' /\ UnderWay(u)'
      BY <1>7, <2>2, <3>1, <3>5 DEF ClearPremiumNotify, WasTold, UnderWay, IsPremium
    <3> QED BY <3>2, <3>3, <3>4, <3>5
  <2> QED BY <2>1, <2>2, FormerKept DEF WarnedInv, Informed
<1>8. ASSUME NEW v \in User, ClearPremiumNotify(v), Present(v) PROVE WarnedInv'
  <2>1. /\ sent = v /\ sent' = None /\ UNCHANGED <<passing, past>>
        /\ account'[v].notice = None /\ account'[v].role = account[v].role /\ account'[v].until = account[v].until
        /\ account'[v].premiumWarned = account[v].premiumWarned
        /\ \A u \in User \ {v} : account'[u] = account[u]
    BY <1>1, <1>4, <1>8 DEF ClearPremiumNotify, TypeInv, Accounts
  <2>2. ASSUME NEW u \in User PROVE Listed(u)'
    BY <1>2, <2>1 DEF WarnedInv, Listed, IsPremium
  <2>3. ASSUME NEW u \in Reachable PROVE Informed(u)'
    <3>1. u \in User /\ Informed(u)
      BY <2>3 DEF WarnedInv
    <3>2. CASE u # v
      BY <1>2, <1>3, <2>1, <3>1, <3>2
      DEF Informed, Timely, OwnNotice, InTime, WasTold, UnwarnedLasts, UnderWay, ToBeWarned, IsPremium
    <3>3. CASE u = v
      <4>1. \A n \in passing : n.user # u
        BY <2>1, <3>3 DEF WarnedInv, OnceInv
      <4>2. WasTold(u)'
        BY <1>8, <2>1, <3>1, <3>3 DEF Informed, WasTold, UnderWay, IsPremium, Present
      <4>3. UnwarnedLasts(u)'
        BY <1>2, <1>3, <2>1, <3>1, <3>3 DEF Informed, UnwarnedLasts, ToBeWarned, IsPremium
      <4> QED BY <2>1, <3>1, <3>3, <4>1, <4>2, <4>3 DEF Informed, Timely, OwnNotice, InTime, UnderWay
    <3> QED BY <3>2, <3>3
  <2> QED BY <2>2, <2>3, FormerKept DEF WarnedInv
<1>9. account' = account \/ \E v \in User : ClearPremiumNotify(v) /\ Present(v)
  BY DEF GetPendingNotifications, SendMessage, SendFails, ClearPremiumNotify
<1> QED BY <1>7, <1>8, <1>9

LEMMA RestartInforms ==
  ASSUME Hazards \subseteq {"respelled"}, WarnedInv, [Next]_vars, Restart
  PROVE  WarnedInv'
<1> USE ConstantsAssumption
<1>1. /\ UNCHANGED <<now, hour, account, past>> /\ tasks.phase = "idle"
      /\ tasks' = [phase |-> "idle", left |-> {}] /\ passing' = {} /\ sent' = None
  BY DEF Restart, clock
<1>2. ASSUME NEW u \in User PROVE Listed(u)' /\ (u \in Reachable => Informed(u)')
  <2>1. u \in Reachable => Informed(u)
    BY DEF WarnedInv
  <2>2. LastRun' = LastRun /\ WindowOpens(u)' = WindowOpens(u) /\ (inDeliveryWindow(u)' <=> inDeliveryWindow(u))
    BY <1>1 DEF LastRun, SinceRun, WindowOpens, inDeliveryWindow, Local
  <2> QED BY <1>1, <2>1, <2>2
      DEF Listed, Informed, Timely, OwnNotice, InTime, WasTold, UnwarnedLasts, ToBeWarned, UnderWay, IsPremium
<1> QED BY <1>2, FormerKept DEF WarnedInv

\* The invariant is inductive where nothing but a promotion of warned accounts goes wrong.
LEMMA WarnedStep ==
  ASSUME Hazards \subseteq {"respelled"}, Grant >= 2 * Day, Warn >= 2 * Day, WarnedInv, [Next]_vars
  PROVE  WarnedInv'
<1> USE ConstantsAssumption
<1>0. TypeInv /\ now \in Nat /\ Grant \in Nat
  BY TypeIs DEF WarnedInv, EndsInv, TypeInv
<1>a. \A u \in User : account[u] \in Accounts /\ past[u] \in Pasts
  BY <1>0 DEF TypeInv
<1> USE <1>0 DEF TypeInv, clock, delivery
<1>1. ASSUME NEW u \in User, Register(u) PROVE WarnedInv'
  <2>1. /\ UNCHANGED <<now, hour, passing, sent, tasks>> /\ account[u].role = "none"
        /\ account'[u].role = "simple" /\ account'[u].notice = account[u].notice
        /\ \A v \in User \ {u} : account'[v] = account[v] /\ past'[v] = past[v]
    BY <1>a, <1>1 DEF Register, Accounts
  <2>2. account[u].notice = None
    BY <2>1 DEF WarnedInv, OnceInv, Present
  <2> QED BY <2>1, <2>2, OtherRoleInforms
<1>2. ASSUME NEW u \in User, Login(u) PROVE WarnedInv'
  BY <1>a, <1>2, WarnedOfSome DEF Login, Unmoved, Pasts
<1>3. ASSUME NEW u \in User, SetPremium(u) PROVE WarnedInv'
  <2>1. now + Grant \in Nat /\ now + Grant >= now + Grant
    OBVIOUS
  <2> QED BY <1>3, <2>1, GrantInforms DEF SetPremium
<1>4. ASSUME NEW u \in User, AddPremium(u) PROVE WarnedInv'
  <2> DEFINE until == TermOrNow(u) + Grant
  <2>1. TermOrNow(u) \in Nat /\ TermOrNow(u) >= now
    BY <1>4, TermIs, TypeIs DEF AddPremium
  <2>2. until \in Nat /\ until >= now + Grant
    BY <2>1
  <2>3. \E owed : GrantPremium(u, until, owed)
    BY <1>4 DEF AddPremium
  <2> HIDE DEF until
  <2> QED BY <2>2, <2>3, GrantInforms
<1>5. ASSUME NEW u \in User, NEW role \in {"simple", "super"}, SetUserRole(u, role) PROVE WarnedInv'
  <2>1. /\ UNCHANGED <<now, hour, passing, sent, tasks>> /\ Present(u) /\ u \notin tasks.left
        /\ u \in Reachable => account[u].notice = None
    BY <1>5 DEF SetUserRole, Undisturbed
  <2>2. /\ account'[u].role = role /\ account'[u].notice = account[u].notice
        /\ \A v \in User \ {u} : account'[v] = account[v] /\ past'[v] = past[v]
    BY <1>a, <1>5 DEF SetUserRole, Accounts
  <2> QED BY <2>1, <2>2, OtherRoleInforms DEF Present
<1>6. ASSUME NEW u \in User, ToggleAdmin(u) PROVE WarnedInv'
  BY <1>a, <1>6, WarnedOfSome DEF ToggleAdmin, Unmoved, Accounts
<1>7. ASSUME NEW u \in User, WarnInactive(u) PROVE WarnedInv'
  <2>1. \A v \in User : Unmoved(v)
    BY <1>a, <1>7 DEF WarnInactive, Handles, Unmoved, Accounts, Pasts
  <2> QED BY <1>7, <2>1, WarnedOfSome DEF WarnInactive, Handles
<1>8. ASSUME NEW u \in User, KeepInactive(u) PROVE WarnedInv'
  BY <1>8, WarnedOfSome DEF KeepInactive, Handles, Unmoved
<1>9. CASE UNCHANGED vars
  BY <1>9, WarnedOfSome DEF vars, Unmoved
<1> QED
  BY <1>1, <1>2, <1>3, <1>4, <1>5, <1>6, <1>7, <1>8, <1>9, ExtendInforms, CheckInforms, DeletionInforms,
     ExpiredInforms, WarningInforms, ListInforms, TickInforms, DeliveryInforms, RestartInforms
  DEF Next, Administer, Night

LEMMA WarnedInit == Init => WarnedInv
<1> SUFFICES ASSUME Init PROVE WarnedInv
  OBVIOUS
<1> USE ConstantsAssumption
<1>1. TypeInv
  BY NobodyFits, NeverIs DEF Init, TypeInv, NoPast, Pasts, Fit
<1>2. \A u \in User : ~IsPremium(u) /\ account[u].notice = None
  BY DEF Init, IsPremium, Nobody
<1>3. EndsInv
  BY <1>1, <1>2, TypeIs DEF EndsInv, Init, LastsBeyondRun, PremiumEndsInTime
<1>4. CourseInv
  BY <1>1, <1>2, NeverIs, TypeIs DEF Init, CourseInv, TermKept, Nobody, NoPast
<1>5. OnceInv
  BY <1>1, TypeIs DEF OnceInv, Init, AnnouncedOnce, Nobody, NoPast, Present
<1>6. \A u \in User : Listed(u) /\ (u \in Reachable => Informed(u))
  BY <1>2 DEF Init, Listed, Informed, Timely, OwnNotice, InTime, WasTold, UnwarnedLasts, UnderWay
<1> QED BY <1>3, <1>4, <1>5, <1>6 DEF WarnedInv

\* Where premium is granted for two days at least and warned of two days ahead at least, whoever
\* can be reached and is demoted at night has been told that the term was about to end, as long as
\* nobody acts on accounts that are on a list or have a notice pending, no warned term is renewed,
\* no grant begins in the past, no restart cuts off the tasks, and the bot is in reach.
THEOREM AlwaysWarnedBeforeDemoted ==
  ASSUME Hazards \subseteq {"respelled"}, Grant >= 2 * Day, Warn >= 2 * Day
  PROVE  Spec => WarnedBeforeDemoted
<1>1. WarnedInv /\ [Next]_vars => WarnedInv'
  BY WarnedStep
<1>2. WarnedInv /\ [Next]_vars =>
        [\A u \in Reachable : IsPremium(u) /\ account'[u].role = "simple" /\ account'[u].notice = "expired"
           => past[u].told]_vars
  <2> SUFFICES ASSUME WarnedInv, [Next]_vars, NEW u \in Reachable, IsPremium(u),
                      account'[u].role = "simple", account'[u].notice = "expired"
               PROVE  past[u].told
    OBVIOUS
  <2> USE ConstantsAssumption
  <2>1. TypeInv /\ u \in User /\ account[u] \in Accounts /\ past[u] \in Pasts /\ Informed(u) /\ now \in Nat
    BY TypeIs DEF WarnedInv, EndsInv, TypeInv
  <2>2. account[u].notice # "expired" /\ account'[u] # account[u]
    BY <2>1 DEF Informed, OwnNotice, IsPremium
  <2>3. \A v \in User : account[v] \in Accounts
    BY <2>1 DEF TypeInv
  <2>4. SetPremiumExpiredNotify(u)
    <3>0. ~Quiet
      BY <2>1 DEF Quiet, TermSame, IsPremium
    <3>1. ~NextList /\ ~Tick /\ ~Restart
      BY <2>2 DEF NextList, Tick, Restart
    <3>2. ~ExtendAllPremium /\ ~CheckPremium
      <4> DEFINE extended == [account[u] EXCEPT !.until = TermOrNow(u) + Extension]
                 ended == [account[u] EXCEPT !.role = "simple", !.until = None]
      <4>1. ExtendAllPremium => account'[u] \in {account[u], extended}
        BY <2>1 DEF ExtendAllPremium
      <4>2. CheckPremium => account'[u] \in {account[u], ended}
        BY <2>1 DEF CheckPremium
      <4>3. extended.notice = account[u].notice /\ ended.notice = account[u].notice
        BY <2>1 DEF Accounts
      <4> HIDE DEF extended, ended
      <4> QED BY <2>2, <4>1, <4>2, <4>3
    <3>3. ASSUME NEW v \in User
          PROVE  /\ ~Register(v) /\ ~SetPremium(v) /\ ~AddPremium(v) /\ ~AdminDeletes(v) /\ ~DeleteInactive(v)
                 /\ \A role \in {"simple", "super"} : ~SetUserRole(v, role)
                 /\ v # u => ~SetPremiumExpiredNotify(v)
      <4>1. ~Register(v) /\ account' # Deleted(v)
        BY <2>1, <2>2 DEF Register, Deleted, Nobody, IsPremium, TypeInv, Accounts
      <4>2. \A until, owed : ~GrantPremium(v, until, owed)
        BY <2>1, <2>2 DEF GrantPremium, IsPremium, TypeInv, Accounts
      <4>3. ASSUME NEW role \in {"simple", "super"}, SetUserRole(v, role) PROVE FALSE
        <5>1. account' = [account EXCEPT ![v].role = role, ![v].until = None]
          BY <4>3 DEF SetUserRole
        <5>2. account'[u].notice = account[u].notice
          BY <2>1, <5>1 DEF TypeInv, Accounts
        <5> QED BY <2>2, <5>2
      <4>4. v # u => ~SetPremiumExpiredNotify(v)
        BY <2>1, <2>2 DEF SetPremiumExpiredNotify, SetNotice, TypeInv
      <4> QED BY <4>1, <4>2, <4>3, <4>4 DEF SetPremium, AddPremium, AdminDeletes, DeleteInactive
    <3> QED BY <3>0, <3>1, <3>2, <3>3, TermSteps DEF WarnedInv, EndsInv
  <2>5. tasks.phase = "demote" /\ u \in tasks.left /\ LastRun = now
    BY <2>4, RunIsNow DEF SetPremiumExpiredNotify, Handles, WarnedInv
  <2>6. account[u].until \in Nat /\ account[u].until < now
    BY <2>1, <2>5 DEF WarnedInv, CourseInv, IsExpired, Accounts
  <2>7. account[u].premiumWarned /\ account[u].notice # "warning"
    BY <2>1, <2>5, <2>6 DEF Informed, InTime, UnwarnedLasts
  <2> QED BY <2>1, <2>7 DEF Informed, WasTold
<1> QED BY <1>1, <1>2, WarnedInit, PTL DEF Spec, WarnedBeforeDemoted

\* Under the same conditions every notice is true when it is sent.
THEOREM NoticeAlwaysTrue ==
  ASSUME Hazards \subseteq {"respelled"}, Grant >= 2 * Day, Warn >= 2 * Day
  PROVE  Spec => NoticeIsTrue
<1>1. WarnedInv /\ [Next]_vars => WarnedInv'
  BY WarnedStep
<1>2. WarnedInv /\ [Next]_vars =>
        [\A n \in passing : sent' = n.user /\ n \notin passing' =>
           (n.type = "warning" <=> IsPremium(n.user))]_vars
  <2> SUFFICES ASSUME WarnedInv, [Next]_vars, NEW n \in passing, sent' = n.user
               PROVE  n.type = "warning" <=> IsPremium(n.user)
    OBVIOUS
  <2> USE ConstantsAssumption
  <2>1. n.user \in Reachable /\ n.type \in Types /\ n.user \in User
    BY TypeIs DEF WarnedInv, EndsInv, TypeInv
  <2>2. UnderWay(n.user) /\ OwnNotice(n.user)
    BY <2>1 DEF WarnedInv, Informed
  <2> QED BY <2>1, <2>2 DEF UnderWay, OwnNotice, Types, IsPremium
<1> QED BY <1>1, <1>2, WarnedInit, PTL DEF Spec, NoticeIsTrue

=============================================================================
