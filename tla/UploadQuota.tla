---------------------------- MODULE UploadQuota ----------------------------
(***************************************************************************)
(* The monthly upload quota of one company: POST /api/upload reserves with *)
(* reserve_upload_quota, stores its files one by one, and then commits     *)
(* with commit_upload_quota, or rolls back with cancel_upload_quota;       *)
(* GET /api/billing/state resets the same usage row without any lock of    *)
(* its own.  Each function is one READ COMMITTED transaction; where it     *)
(* waits for a row lock it is divided.                                     *)
(*                                                                         *)
(* An operator named Faulty... is never used by the specification: it is   *)
(* the definition after it with a bug seeded in.                           *)
(***************************************************************************)
EXTENDS Integers, FiniteSetsExt

CONSTANTS
  None,         \* SQL null
  Requests,     \* upload requests
  Viewers,      \* requests for the billing state
  Amounts,      \* numbers of files an upload may have
  Limit,        \* the plan's uploads a month
  TTL,          \* life of a reservation, in clock ticks
  MonthLength,  \* clock ticks in a month
  MaxTime       \* bound on the clock

UsageRow == [month : Nat, count : Nat]
Reservation == [month : Nat, expires : Nat]

ASSUME QuotaAssumption ==
  /\ IsFiniteSet(Requests)
  /\ Amounts \subseteq Nat \ {0}
  /\ {Limit, TTL, MaxTime} \subseteq Nat
  /\ MonthLength \in Nat \ {0}
  /\ None \notin Requests \cup Nat \cup UsageRow \cup Reservation

VARIABLES
  now,          \* the clock
  usage,        \* the company_usage row, None before it is inserted
  reservation,  \* the quota_reservations row of each request, None without one
  usageLock,    \* holder of the usage row's lock
  pc,           \* where each upload request is
  call,         \* what each upload request works with
  viewing,      \* the month each billing state request is about to write
  charged,      \* history: the requests charged since the count last restarted
  late,         \* history: those of them charged after their reservation expired
  charges       \* history: how often each request was charged

vars == <<now, usage, reservation, usageLock, pc, call, viewing, charged, late, charges>>
history == <<charged, late, charges>>

Month(t) == t \div MonthLength
Call == [amount : Amounts \cup {0}, month : Nat, began : Nat, stored : Nat,
         seen : UsageRow \cup {None}]
NoCall == [amount |-> 0, month |-> 0, began |-> 0, stored |-> 0, seen |-> None]

Init ==
  /\ now = 0
  /\ usage = None
  /\ reservation = [r \in Requests |-> None]
  /\ usageLock = None
  /\ pc = [r \in Requests |-> "idle"]
  /\ call = [r \in Requests |-> NoCall]
  /\ viewing = [v \in Viewers |-> None]
  /\ charged = {} /\ late = {}
  /\ charges = [r \in Requests |-> 0]

Goto(r, stage) == pc' = [pc EXCEPT ![r] = stage]
Total(S) == MapThenSumSet(LAMBDA r : call[r].amount, S)

\* A committer holds its reservation's row until its transaction ends.
RowLocked(r) == pc[r] \in {"lockUsage", "commit"}

FaultyUsageFree == TRUE
UsageFree == usageLock = None
ReleaseUsage == usageLock' = None

(***************************************************************************)
(* Reserving.                                                              *)
(***************************************************************************)

\* The month is read on the server, some time before the transaction starts.
RequestUpload(r, a) ==
  /\ pc[r] = "idle"
  /\ Goto(r, "reserving")
  /\ call' = [call EXCEPT ![r].amount = a, ![r].month = Month(now)]
  /\ UNCHANGED <<now, usage, reservation, usageLock, viewing, history>>

\* now() is the time the transaction starts, not the time it gets the lock.
BeginReserve(r) ==
  /\ pc[r] = "reserving"
  /\ Goto(r, "waitReserve")
  /\ call' = [call EXCEPT ![r].began = now]
  /\ UNCHANGED <<now, usage, reservation, usageLock, viewing, history>>

LockToReserve(r) ==
  /\ pc[r] = "waitReserve"
  /\ UsageFree
  /\ usageLock' = r
  /\ Goto(r, "reserve")
  /\ UNCHANGED <<now, usage, reservation, call, viewing, history>>

\* The usage row is missing, or of another month than the request's.
Restarts(r) == usage = None \/ usage.month # call[r].month
FaultyUsageFor(r) ==
  [month |-> call[r].month, count |-> IF usage = None THEN 0 ELSE usage.count]
UsageFor(r) == IF Restarts(r) THEN [month |-> call[r].month, count |-> 0] ELSE usage
Purged(r) ==
  IF Restarts(r)
  THEN {q \in Requests : reservation[q] # None /\ reservation[q].month # call[r].month}
  ELSE {}

Live(m, t) ==
  {q \in Requests : reservation[q] # None /\ reservation[q].month = m
                      /\ reservation[q].expires > t}
EffectiveUsage(r) == UsageFor(r).count + Total(Live(call[r].month, call[r].began))

FaultyFits(r) == EffectiveUsage(r) <= Limit
Fits(r) == EffectiveUsage(r) + call[r].amount <= Limit

\* What every verdict does to the usage row, once the rows to purge are free.
EnterMonth(r) ==
  /\ pc[r] = "reserve"
  /\ \A q \in Purged(r) : ~RowLocked(q)
  /\ usage' = UsageFor(r)
  /\ charged' = IF Restarts(r) THEN {} ELSE charged
  /\ late' = IF Restarts(r) THEN {} ELSE late
  /\ ReleaseUsage
  /\ UNCHANGED <<now, call, viewing, charges>>
Unpurged(r) == [q \in Requests |-> IF q \in Purged(r) THEN None ELSE reservation[q]]

\* Where a request goes whose answer is lost: the handler gives up, or the
\* call is repeated with the same request_id.
Unanswered == {"failed", "reserving"}

ReserveReplayed(r) ==
  /\ EnterMonth(r)
  /\ Unpurged(r)[r] # None
  /\ reservation' = Unpurged(r)
  /\ Goto(r, "storing")

ReserveExceeded(r) ==
  /\ EnterMonth(r)
  /\ Unpurged(r)[r] = None
  /\ ~Fits(r)
  /\ reservation' = Unpurged(r)
  /\ Goto(r, "refused")

ReserveApproved(r) ==
  /\ EnterMonth(r)
  /\ Unpurged(r)[r] = None
  /\ Fits(r)
  /\ reservation' = [Unpurged(r) EXCEPT ![r] =
       [month |-> call[r].month, expires |-> call[r].began + TTL]]
  /\ \E stage \in Unanswered \cup {"storing"} : Goto(r, stage)

(***************************************************************************)
(* Storing the files.                                                      *)
(***************************************************************************)

FaultyAllStored(r) == call[r].stored > call[r].amount
AllStored(r) == call[r].stored = call[r].amount

\* One turn of the loop: the file is in storage and its evidence row exists.
StoreFile(r) ==
  /\ pc[r] = "storing"
  /\ call[r].stored < call[r].amount
  /\ call' = [call EXCEPT ![r].stored = @ + 1]
  /\ UNCHANGED <<now, usage, reservation, usageLock, pc, viewing, history>>

\* A file is not acceptable, or cannot be stored, or has no evidence row.
FileFails(r) ==
  /\ pc[r] = "storing"
  /\ call[r].stored < call[r].amount
  /\ Goto(r, "rollback")
  /\ UNCHANGED <<now, usage, reservation, usageLock, call, viewing, history>>

\* Files, evidence and reservation are given up; each part is tried once
\* and its failure is ignored.
RollbackAndCancel(r) ==
  /\ pc[r] = "rollback"
  /\ \E kept \in {0, call[r].stored} : call' = [call EXCEPT ![r].stored = kept]
  /\ \E row \in {None, reservation[r]} : reservation' = [reservation EXCEPT ![r] = row]
  /\ Goto(r, "failed")
  /\ UNCHANGED <<now, usage, usageLock, viewing, history>>

(***************************************************************************)
(* Committing.                                                             *)
(***************************************************************************)

BeginCommit(r) ==
  /\ pc[r] = "storing"
  /\ AllStored(r)
  /\ Goto(r, "lockRow")
  /\ call' = [call EXCEPT ![r].began = now]
  /\ UNCHANGED <<now, usage, reservation, usageLock, viewing, history>>

LockReservation(r) ==
  /\ pc[r] = "lockRow"
  /\ reservation[r] # None
  /\ Goto(r, "lockUsage")
  /\ UNCHANGED <<now, usage, reservation, usageLock, call, viewing, history>>

\* "reservation_not_found": commitUploadQuota throws, and nothing rolls back.
ReservationNotFound(r) ==
  /\ pc[r] = "lockRow"
  /\ reservation[r] = None
  /\ Goto(r, "failed")
  /\ UNCHANGED <<now, usage, reservation, usageLock, call, viewing, history>>

LockToCommit(r) ==
  /\ pc[r] = "lockUsage"
  /\ UsageFree
  /\ usageLock' = r
  /\ call' = [call EXCEPT ![r].seen = usage]
  /\ Goto(r, "commit")
  /\ UNCHANGED <<now, usage, reservation, viewing, history>>

\* "month_boundary_crossed": the reservation goes, and commitUploadQuota throws.
CommitCrossed(r) ==
  /\ pc[r] = "commit"
  /\ call[r].seen.month # reservation[r].month
  /\ reservation' = [reservation EXCEPT ![r] = None]
  /\ ReleaseUsage
  /\ Goto(r, "failed")
  /\ UNCHANGED <<now, usage, call, viewing, history>>

FaultyCharge(u, a) == [u EXCEPT !.count = @ - a]
Charge(u, a) == [u EXCEPT !.count = @ + a]

\* The rows the commit deletes: its own and all that have expired.
FaultyCleaned(r) ==
  {q \in Requests : reservation[q] # None /\ reservation[q].expires <= call[r].began}
Cleaned(r) ==
  {r} \cup {q \in Requests : reservation[q] # None /\ reservation[q].expires <= call[r].began}

CommitCharged(r) ==
  /\ pc[r] = "commit"
  /\ call[r].seen.month = reservation[r].month
  /\ \A q \in Cleaned(r) \ {r} : ~RowLocked(q)
  /\ usage' = Charge(call[r].seen, call[r].amount)
  /\ reservation' = [q \in Requests |-> IF q \in Cleaned(r) THEN None ELSE reservation[q]]
  /\ charged' = charged \cup {r}
  /\ late' = IF reservation[r].expires > now THEN late ELSE late \cup {r}
  /\ charges' = [charges EXCEPT ![r] = @ + 1]
  /\ ReleaseUsage
  /\ \E stage \in {"ok", "failed"} : Goto(r, stage)   \* the answer may be lost
  /\ UNCHANGED <<now, call, viewing>>

(***************************************************************************)
(* GET /api/billing/state.                                                 *)
(***************************************************************************)

\* getCompanyUsage finds no row, or one of another month.
ViewUsage(v) ==
  /\ viewing[v] = None
  /\ usage # None => usage.month # Month(now)
  /\ viewing' = [viewing EXCEPT ![v] = Month(now)]
  /\ UNCHANGED <<now, usage, reservation, usageLock, pc, call, history>>

\* Its upsert or update writes the whole row, whatever it has become.
ResetUsage(v) ==
  /\ viewing[v] # None
  /\ UsageFree
  /\ usage' = [month |-> viewing[v], count |-> 0]
  /\ viewing' = [viewing EXCEPT ![v] = None]
  /\ charged' = {} /\ late' = {}
  /\ UNCHANGED <<now, reservation, usageLock, pc, call, charges>>

(***************************************************************************)
(* The rest of the world.                                                  *)
(***************************************************************************)

Tick ==
  /\ now < MaxTime
  /\ now' = now + 1
  /\ UNCHANGED <<usage, reservation, usageLock, pc, call, viewing, history>>

Finished == {"idle", "refused", "ok", "failed"}

\* The handler ends with an error; a transaction it is in rolls back.
Abort(r) ==
  /\ pc[r] \notin Finished
  /\ Goto(r, "failed")
  /\ usageLock' = IF usageLock = r THEN None ELSE usageLock
  /\ UNCHANGED <<now, usage, reservation, call, viewing, history>>

\* The holder of the usage row waits for a reservation row whose holder waits
\* for the usage row; one of the two is the victim.
WaitsForRow(r, q) ==
  /\ q # r /\ RowLocked(q)
  /\ \/ pc[r] = "reserve" /\ q \in Purged(r)
     \/ pc[r] = "commit" /\ call[r].seen.month = reservation[r].month /\ q \in Cleaned(r)
Deadlocked(r) == \E q \in Requests : WaitsForRow(r, q) \/ WaitsForRow(q, r)
BreakDeadlock(r) == Deadlocked(r) /\ Abort(r)

Reserve(r) ==
  \/ BeginReserve(r) \/ LockToReserve(r)
  \/ ReserveReplayed(r) \/ ReserveExceeded(r) \/ ReserveApproved(r)
Store(r) == StoreFile(r) \/ FileFails(r) \/ RollbackAndCancel(r)
Commit(r) ==
  \/ BeginCommit(r) \/ LockReservation(r) \/ ReservationNotFound(r)
  \/ LockToCommit(r) \/ CommitCrossed(r) \/ CommitCharged(r)
Serve(r) == Reserve(r) \/ Store(r) \/ Commit(r)

Next ==
  \/ \E r \in Requests :
       \/ \E a \in Amounts : RequestUpload(r, a)
       \/ Serve(r) \/ BreakDeadlock(r) \/ Abort(r)
  \/ \E v \in Viewers : ViewUsage(v) \/ ResetUsage(v)
  \/ Tick

Spec == Init /\ [][Next]_vars

\* PostgreSQL serves lock waiters in order and breaks deadlocks; storage calls
\* return; of a call that is repeated again and again some answer arrives.
Answered(r) == Reserve(r) /\ pc'[r] \in Finished \cup {"storing"}
Fairness ==
  /\ \A r \in Requests :
       SF_vars(Serve(r)) /\ SF_vars(Answered(r)) /\ WF_vars(BreakDeadlock(r))
  /\ \A v \in Viewers : SF_vars(ResetUsage(v))
FairSpec == Spec /\ Fairness

(***************************************************************************)
(* Properties.                                                             *)
(***************************************************************************)

Stages == Finished \cup {"reserving", "waitReserve", "reserve", "storing", "rollback",
                         "lockRow", "lockUsage", "commit"}

\* Every variable keeps its shape.
TypeOK ==
  /\ now \in Nat
  /\ usage \in UsageRow \cup {None}
  /\ reservation \in [Requests -> Reservation \cup {None}]
  /\ usageLock \in Requests \cup {None}
  /\ pc \in [Requests -> Stages]
  /\ call \in [Requests -> Call]
  /\ viewing \in [Viewers -> Nat \cup {None}]
  /\ charged \subseteq Requests /\ late \subseteq Requests
  /\ charges \in [Requests -> Nat]

\* No charge is lost between a commit's read of the count and its write of it:
\* upload_count is the sum of the uploads charged since it last restarted.
CountIsCharges == usage # None => usage.count = Total(charged)

\* Whatever overlaps, only uploads charged after their reservation expired can
\* take a month past the plan: the others fit, with everything still reserved.
OnlyLateOverrun ==
  usage # None =>
    usage.count - Total(late) + Total(Live(usage.month, now)) <= Limit

\* A request is charged at most once, for files that are all stored, and then
\* has no reservation left; an answer of success means it was charged, and a
\* refused request holds nothing.
ChargedOnce ==
  \A r \in Requests :
    /\ charges[r] <= 1
    /\ charges[r] = 1 => AllStored(r) /\ reservation[r] = None
    /\ pc[r] = "ok" => charges[r] = 1
    /\ pc[r] = "refused" => charges[r] = 0 /\ reservation[r] = None

\* The quota implements the meter.
Meter == INSTANCE UploadMeter WITH
  used <- IF usage = None THEN 0 ELSE usage.count,
  over <- Total(late),
  held <- IF usage = None THEN 0 ELSE Total(Live(usage.month, now))
MeterSpec == Meter!Spec

\* Every upload and every billing request is answered.
RequestsAnswered ==
  /\ \A r \in Requests : pc[r] \notin Finished ~> pc[r] \in Finished
  /\ \A v \in Viewers : viewing[v] # None ~> viewing[v] = None
=============================================================================
