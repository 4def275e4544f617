-------------------------- MODULE AccountLifecycle --------------------------
(***************************************************************************)
(* Accounts: premium that is granted and runs out, the notices about it,   *)
(* and the deletion of inactive accounts.  Every night three lists are     *)
(* taken and worked off one account at a time; a second loop delivers      *)
(* notices within each user's hours; administrators act at any time.       *)
(*                                                                         *)
(* Abstractions.  Time is in hours; night tasks and a pass of the delivery *)
(* loop take less than one.  A user's time zone and hours do not change.   *)
(***************************************************************************)
EXTENDS Integers

CONSTANTS
  User,
  Reachable,     \* users with Telegram linked and notifications enabled
  Day,           \* hours of a day
  Zone,          \* hours that a user's local time is ahead
  NotifyStart, NotifyEnd,
  TaskHour,      \* daily_task_hour
  Grant,         \* premium_duration_days, or the Telegram app's 30, in hours
  Extension,     \* premium_extend_all_days
  Warn,          \* premium_warn_days
  InactiveWarn,  \* inactive_warn_days
  MaxHours,      \* bound: hours, and the end of a term
  MaxFaults,     \* bound: messages that fail and restarts
  None,
  Hazards        \* what may go wrong, of HazardKinds

\* "overtaken": an administrator acts on an account that is on a list of the night tasks;
\* "pending": one acts on an account whose notice is not yet delivered; "renewed": premium
\* is renewed after the warning; "respelled": an account once warned of its deletion becomes
\* premium; "stale": premium is granted upon a term long over; "crash": a restart amid
\* the night tasks or before a sent notice is cleared; "silent": the bot is out of reach for
\* hours.
HazardKinds == {"overtaken", "pending", "renewed", "respelled", "stale", "crash", "silent"}

ASSUME ConstantsAssumption ==
  /\ Reachable \subseteq User
  /\ Day \in Nat \ {0} /\ Zone \in [User -> 0 .. Day - 1]
  /\ NotifyStart \in 0 .. Day - 1 /\ NotifyEnd \in NotifyStart + 1 .. Day
  /\ TaskHour \in 0 .. Day - 1
  /\ {Grant, Extension, Warn, InactiveWarn} \subseteq Nat \ {0}
  /\ MaxHours \in Nat /\ MaxFaults \in Nat
  /\ None \notin Int /\ None \notin User /\ None \notin {"warning", "expired"}
  /\ Hazards \subseteq HazardKinds

VARIABLES
  now, hour,   \* hours since the start, and of the day
  account,     \* users: role, premium_until, premium_warned, notify_type,
               \* notify_premium_after, inactive_warned, notify_inactive_after, is_admin
  tasks,       \* the night tasks: the one running and the users left on its list
  passing,     \* the delivery loop's pass: notices still to send
  sent,        \* the user whose notice was sent and is to be cleared
  faults,
  past         \* history, by user; see NoPast

vars == <<now, hour, account, tasks, passing, sent, faults, past>>
clock == <<now, hour>>
delivery == <<passing, sent>>

Nobody == [role |-> "none", until |-> None, premiumWarned |-> FALSE, notice |-> None,
           noticeAt |-> None, inactiveWarned |-> FALSE, deleteAt |-> None, admin |-> FALSE]

Never == -1   \* before the start

\* owed: to when premium was promised; told: the warning of this term was delivered;
\* spell: warned of deletion since the account is simple; active: logged in since;
\* sends: how often the current notice was sent.
NoPast == [owed |-> Never, told |-> FALSE, spell |-> FALSE, active |-> FALSE, sends |-> 0]

Init ==
  /\ now = 0 /\ hour = 0
  /\ account = [u \in User |-> Nobody]
  /\ tasks = [phase |-> "idle", left |-> {}]
  /\ passing = {} /\ sent = None
  /\ faults = 0
  /\ past = [u \in User |-> NoPast]

-----------------------------------------------------------------------------
(***************************************************************************)
(* Hours of the day                                                        *)
(***************************************************************************)
Local(u) == IF hour + Zone[u] < Day THEN hour + Zone[u] ELSE hour + Zone[u] - Day

inDeliveryWindow(u) == Local(u) >= NotifyStart /\ Local(u) < NotifyEnd

\* Today's window if it is open; otherwise tomorrow's, also before today's has begun.
nextDeliveryTime(u) ==
  LET candidate == now - Local(u) + NotifyStart
  IN IF Local(u) >= NotifyEnd \/ now < candidate THEN candidate + Day ELSE candidate

-----------------------------------------------------------------------------
(***************************************************************************)
(* Users and administrators                                                *)
(***************************************************************************)
Present(u) == account[u].role \notin {"none", "deleted"}
IsPremium(u) == account[u].role = "premium"

\* Nothing is under way for the user.
Undisturbed(u) ==
  /\ u \notin tasks.left \/ "overtaken" \in Hazards
  /\ \/ "pending" \in Hazards
     \/ account[u].notice = None \/ u \notin Reachable

Register(u) ==
  /\ account[u].role = "none"
  /\ account' = [account EXCEPT ![u].role = "simple"]
  /\ UNCHANGED <<clock, tasks, delivery, faults, past>>

Login(u) ==
  /\ Present(u)
  /\ u \notin tasks.left \/ "overtaken" \in Hazards
  /\ past' = [past EXCEPT ![u].active = TRUE]
  /\ UNCHANGED <<clock, account, tasks, delivery, faults>>

\* The end of the term, or now where there is none: COALESCE(premium_until, now()).
TermOrNow(u) == IF account[u].until = None THEN now ELSE account[u].until

Unwarned(u) ==
  /\ ~account[u].premiumWarned \/ "renewed" \in Hazards
  /\ ~account[u].inactiveWarned \/ "respelled" \in Hazards

GrantPremium(u, until, owed) ==
  /\ Present(u) /\ Undisturbed(u) /\ Unwarned(u) /\ until <= MaxHours
  /\ account' = [account EXCEPT ![u].role = "premium", ![u].until = until]
  /\ past' = [past EXCEPT ![u].owed = owed, ![u].told = FALSE, ![u].spell = FALSE]
  /\ UNCHANGED <<clock, tasks, delivery, faults>>

\* handleAdminSetRole, "premium": a term that starts now.
SetPremium(u) == GrantPremium(u, now + Grant, now + Grant)

\* handleTgAppSetRole, "premium": one that is added to what is left.
AddPremium(u) ==
  /\ TermOrNow(u) >= now \/ "stale" \in Hazards
  /\ LET left == IF past[u].owed > now THEN past[u].owed ELSE now
     IN GrantPremium(u, TermOrNow(u) + Grant, left + Grant)

\* Another role; the Telegram app does it in two statements.
SetUserRole(u, role) ==
  /\ Present(u) /\ Undisturbed(u)
  /\ role = "super" => Unwarned(u)
  /\ account' = [account EXCEPT ![u].role = role, ![u].until = None]
  /\ past' = [past EXCEPT ![u].owed = Never,
                         ![u].spell = IF role = "simple" THEN @ ELSE FALSE]
  /\ UNCHANGED <<clock, tasks, delivery, faults>>

\* handleAPIAdminExtendAllPremium and the Telegram app's twin.
ExtendAllPremium ==
  /\ \E u \in User : IsPremium(u)
  /\ \A u \in User : IsPremium(u) => /\ Undisturbed(u) /\ Unwarned(u)
                                      /\ TermOrNow(u) + Extension <= MaxHours
  /\ account' = [u \in User |-> IF IsPremium(u)
                   THEN [account[u] EXCEPT !.until = TermOrNow(u) + Extension] ELSE account[u]]
  /\ past' = [u \in User |-> IF IsPremium(u)
                THEN [past[u] EXCEPT !.owed = @ + Extension] ELSE past[u]]
  /\ UNCHANGED <<clock, tasks, delivery, faults>>

IsExpired(u) == IsPremium(u) /\ account[u].until # None /\ account[u].until < now

\* handleAPIAdminRunExpiryCheck and the Telegram app's twin: premium ends without a notice.
CheckPremium ==
  /\ \E u \in User : IsExpired(u)
  /\ \A u \in User : IsExpired(u) => Undisturbed(u)
  /\ account' = [u \in User |-> IF IsExpired(u)
                   THEN [account[u] EXCEPT !.role = "simple", !.until = None] ELSE account[u]]
  /\ UNCHANGED <<clock, tasks, delivery, faults, past>>

ToggleAdmin(u) ==
  /\ Present(u) /\ Undisturbed(u)
  /\ account' = [account EXCEPT ![u].admin = ~@]
  /\ UNCHANGED <<clock, tasks, delivery, faults, past>>

\* DeleteUser: an administrator is not deleted.
Deleted(u) == IF account[u].admin THEN account ELSE [account EXCEPT ![u] = [Nobody EXCEPT !.role = "deleted"]]

AdminDeletes(u) ==
  /\ Present(u) /\ Undisturbed(u)
  /\ account' = Deleted(u)
  /\ UNCHANGED <<clock, tasks, delivery, faults, past>>

-----------------------------------------------------------------------------
(***************************************************************************)
(* The night tasks                                                         *)
(***************************************************************************)
\* Mutant: premium is over while it lasts.
ExpiredEarly == {u \in User : IsPremium(u) /\ account[u].until # None}

\* Mutant: premium lasts a day longer.
ExpiredLate == {u \in User : IsExpired(u) /\ account[u].until + Day < now}

\* GetExpiredPremiumUsers, GetExpiringPremiumUsers and GetInactiveSimpleUsers.  The last
\* one also asks for last_active_at, which no statement of the program ever writes.
ExpiredUsers == {u \in User : IsExpired(u)}

\* Mutant: the setting is not asked for.
ExpiringTomorrow == {u \in User :
  /\ IsPremium(u) /\ ~account[u].premiumWarned /\ account[u].until # None
  /\ account[u].until > now /\ account[u].until < now + Day}

ExpiringUsers == {u \in User :
  /\ IsPremium(u) /\ ~account[u].premiumWarned /\ account[u].until # None
  /\ account[u].until > now /\ account[u].until < now + Warn}

\* Mutant: whatever the role.
InactiveOfAnyRole == {u \in User : Present(u) /\ ~account[u].admin}

InactiveUsers == {u \in User : account[u].role = "simple" /\ ~account[u].admin}

RunDailyTasks == [phase |-> "demote", left |-> ExpiredUsers]

\* A list is worked off; the next one is taken.
NextList ==
  /\ tasks.phase # "idle" /\ tasks.left = {}
  /\ tasks' = CASE tasks.phase = "demote"   -> [phase |-> "warn", left |-> ExpiringUsers]
                [] tasks.phase = "warn"     -> [phase |-> "inactive", left |-> InactiveUsers]
                [] tasks.phase = "inactive" -> [phase |-> "idle", left |-> {}]
  /\ UNCHANGED <<clock, account, delivery, faults, past>>

Handles(phase, u) ==
  /\ tasks.phase = phase /\ u \in tasks.left
  /\ tasks' = [tasks EXCEPT !.left = @ \ {u}]
  /\ UNCHANGED <<clock, delivery, faults>>

SetNotice(u, type, role, warned) ==
  /\ account' = IF Present(u) THEN [account EXCEPT ![u].role = role, ![u].notice = type,
                                      ![u].noticeAt = nextDeliveryTime(u), ![u].premiumWarned = warned]
                ELSE account
  /\ past' = [past EXCEPT ![u].sends = 0]

\* Mutant: the other notice.
SetPremiumExpiredAsWarning(u) == Handles("demote", u) /\ SetNotice(u, "warning", "simple", FALSE)

SetPremiumExpiredNotify(u) == Handles("demote", u) /\ SetNotice(u, "expired", "simple", FALSE)

SetPremiumWarningNotify(u) == Handles("warn", u) /\ SetNotice(u, "warning", account[u].role, TRUE)

\* The first night an account is told, by a message of its own, and marked.
WarnInactive(u) ==
  /\ Handles("inactive", u)
  /\ ~account[u].inactiveWarned
  /\ account' = IF Present(u) THEN [account EXCEPT ![u].inactiveWarned = TRUE,
                                                   ![u].deleteAt = now + InactiveWarn]
                ELSE account
  /\ past' = [past EXCEPT ![u].spell = (account[u].role = "simple"), ![u].active = FALSE]

\* The grace period is over.
DeleteInactive(u) ==
  /\ Handles("inactive", u)
  /\ account[u].inactiveWarned /\ account[u].deleteAt < now
  /\ account' = Deleted(u)
  /\ UNCHANGED past

KeepInactive(u) ==
  /\ Handles("inactive", u)
  /\ account[u].inactiveWarned /\ account[u].deleteAt >= now
  /\ UNCHANGED <<account, past>>

-----------------------------------------------------------------------------
(***************************************************************************)
(* Delivery, every ten minutes                                             *)
(***************************************************************************)
Notice(u) == [user |-> u, type |-> account[u].notice]

\* The notices due whose users are within their hours.
Deliverable == {u \in Reachable :
  account[u].notice # None /\ account[u].noticeAt <= now /\ inDeliveryWindow(u)}

GetPendingNotifications ==
  /\ passing = {} /\ sent = None /\ Deliverable # {}
  /\ passing' = {Notice(u) : u \in Deliverable}
  /\ UNCHANGED <<clock, account, tasks, sent, faults, past>>

SendMessage(n) ==
  /\ n \in passing /\ sent = None
  /\ passing' = passing \ {n} /\ sent' = n.user
  /\ past' = [past EXCEPT ![n.user].sends = IF @ < 2 THEN @ + 1 ELSE @,
                         ![n.user].told = @ \/ n.type = "warning"]
  /\ UNCHANGED <<clock, account, tasks, faults>>

\* Mutant: the notice is cleared all the same.
SendFailsCleared(n) ==
  /\ n \in passing /\ sent = None /\ faults < MaxFaults
  /\ passing' = passing \ {n} /\ sent' = n.user
  /\ faults' = faults + 1
  /\ UNCHANGED <<clock, account, tasks, past>>

\* The notice stays for the next pass.
SendFails(n) ==
  /\ n \in passing /\ sent = None /\ faults < MaxFaults
  /\ passing' = passing \ {n}
  /\ faults' = faults + 1
  /\ UNCHANGED <<clock, account, tasks, sent, past>>

\* Mutant: the type is cleared, its hour is not.
ClearTypeOnly(u) ==
  /\ sent = u
  /\ account' = IF Present(u) THEN [account EXCEPT ![u].notice = None] ELSE account
  /\ sent' = None
  /\ UNCHANGED <<clock, tasks, passing, faults, past>>

\* Mutant: nothing is cleared.
ClearNothing(u) ==
  /\ sent = u
  /\ sent' = None
  /\ UNCHANGED <<clock, account, tasks, passing, faults, past>>

ClearPremiumNotify(u) ==
  /\ sent = u
  /\ account' = IF Present(u) THEN [account EXCEPT ![u].notice = None, ![u].noticeAt = None] ELSE account
  /\ sent' = None
  /\ UNCHANGED <<clock, tasks, passing, faults, past>>

-----------------------------------------------------------------------------
(***************************************************************************)
(* Time, and restarts                                                      *)
(***************************************************************************)
\* What an hour leaves time for is done; at its hour the night's run begins.
Tick ==
  /\ now < MaxHours
  /\ tasks.phase = "idle" /\ passing = {} /\ sent = None
  /\ Deliverable = {} \/ "silent" \in Hazards
  /\ now' = now + 1
  /\ hour' = IF hour + 1 = Day THEN 0 ELSE hour + 1
  /\ UNCHANGED <<account, delivery, faults, past>>
  /\ tasks' = IF hour' = TaskHour THEN RunDailyTasks' ELSE tasks

Restart ==
  /\ faults < MaxFaults
  /\ (tasks.phase = "idle" /\ sent = None) \/ "crash" \in Hazards
  /\ tasks' = [phase |-> "idle", left |-> {}]
  /\ passing' = {} /\ sent' = None
  /\ faults' = faults + 1
  /\ UNCHANGED <<clock, account, past>>

-----------------------------------------------------------------------------
Administer(u) ==
  \/ SetPremium(u) \/ AddPremium(u) \/ ToggleAdmin(u) \/ AdminDeletes(u)
  \/ \E role \in {"simple", "super"} : SetUserRole(u, role)

Night(u) ==
  \/ SetPremiumExpiredNotify(u) \/ SetPremiumWarningNotify(u)
  \/ WarnInactive(u) \/ DeleteInactive(u) \/ KeepInactive(u)

Next ==
  \/ Tick \/ Restart \/ NextList \/ GetPendingNotifications \/ ExtendAllPremium \/ CheckPremium
  \/ \E u \in User : Register(u) \/ Login(u) \/ Administer(u) \/ Night(u) \/ ClearPremiumNotify(u)
  \/ \E n \in passing : SendMessage(n) \/ SendFails(n)

Spec == Init /\ [][Next]_vars

-----------------------------------------------------------------------------
(***************************************************************************)
(* Properties                                                              *)
(***************************************************************************)
Roles == {"none", "simple", "premium", "super", "deleted"}
Types == {"warning", "expired"}

TypeOK ==
  /\ now \in 0 .. MaxHours /\ hour \in 0 .. Day - 1
  /\ account \in [User ->
       [role : Roles, until : Nat \union {None}, premiumWarned : BOOLEAN,
        notice : Types \union {None}, noticeAt : Int \union {None},
        inactiveWarned : BOOLEAN, deleteAt : Nat \union {None}, admin : BOOLEAN]]
  /\ \A u \in User : /\ account[u].notice = None <=> account[u].noticeAt = None
                     /\ account[u].inactiveWarned <=> account[u].deleteAt # None
  /\ tasks \in [phase : {"idle", "demote", "warn", "inactive"}, left : SUBSET User]
  /\ passing \subseteq [user : Reachable, type : Types] /\ sent \in Reachable \union {None}
  /\ faults \in 0 .. MaxFaults
  /\ past \in [User -> [owed : Int, told : BOOLEAN, spell : BOOLEAN, active : BOOLEAN, sends : Nat]]

\* Premium lasts as long as it was granted: no check, list or race ends it before.
PremiumRunsItsCourse ==
  [][\A u \in User : IsPremium(u) /\ account'[u].role = "simple" => past'[u].owed < now]_vars

\* And no longer than to the next run of the night tasks.
PremiumEndsInTime == \A u \in User :
  IsPremium(u) /\ account[u].until # None => now <= account[u].until + Day

\* Whoever is demoted at night has been told that the term was about to end.
WarnedBeforeDemoted ==
  [][\A u \in Reachable : IsPremium(u) /\ account'[u].role = "simple" /\ account'[u].notice = "expired"
       => past[u].told]_vars

\* A notice is true when it is sent: "is about to end" to premium users, "has ended, you
\* have been moved to the basic plan" to others.
NoticeIsTrue ==
  [][\A n \in passing : sent' = n.user /\ n \notin passing' =>
       (n.type = "warning" <=> IsPremium(n.user))]_vars

\* No notice is sent twice.
AnnouncedOnce == \A u \in User : past[u].sends <= 1

\* And none is cleared unsent.
NoticeKept ==
  [][\A u \in User : account[u].notice # None /\ account'[u].notice = None =>
       past[u].sends > 0 \/ account'[u].role = "deleted"]_vars

DeletedAtNight(u) ==
  u \in tasks.left /\ u \notin tasks'.left /\ Present(u) /\ account'[u].role = "deleted"

\* The night tasks delete simple accounts only, and only those warned since they are simple.
DeletionJustified ==
  [][\A u \in User : DeletedAtNight(u) =>
       account[u].role = "simple" /\ ~account[u].admin /\ past[u].spell]_vars

\* "Log in to keep it", says the warning: an account that is used after it is not deleted.
ActiveAccountStays == [][\A u \in User : DeletedAtNight(u) => ~past[u].active]_vars

\* nextDeliveryTime "returns the next time within" the window: no earlier hour lies in it.
NextWindowIsUsed ==
  [][\A u \in User : account'[u].noticeAt # account[u].noticeAt /\ account'[u].noticeAt # None =>
       account'[u].noticeAt < now + Day \/ Local(u) >= NotifyEnd]_vars
=============================================================================
