------------------------- MODULE UploadQuota_proofs -------------------------
(***************************************************************************)
(* Proofs about UploadQuota for any number of requests and billing views.  *)
(***************************************************************************)
EXTENDS UploadQuota, FoldLemmas

\* The usage row's lock is held by the transaction that is past it.
LockHeld == \A r \in Requests : usageLock = r <=> pc[r] \in {"reserve", "commit"}

\* A reservation row exists only below a usage row.
RowsHaveUsage == (\E r \in Requests : reservation[r] # None) => usage # None

\* What a commit read under the locks is still the rows' content, so that
\* writing the whole count back loses nothing.
CommitIsCurrent ==
  \A r \in Requests : pc[r] = "commit" => call[r].seen = usage /\ usage # None

\* A reservation stays while its commit holds the row.
RowsKept == \A r \in Requests : pc[r] \in {"lockUsage", "commit"} => reservation[r] # None

\* Nothing is charged before the end, and a commit begins when all is stored.
Unfinished ==
  \A r \in Requests :
    /\ pc[r] \notin {"ok", "failed"} => charges[r] = 0
    /\ pc[r] \in {"lockRow", "lockUsage", "commit"} => AllStored(r)

QuotaInv ==
  TypeOK /\ LockHeld /\ RowsHaveUsage /\ CommitIsCurrent /\ RowsKept
    /\ Unfinished /\ ChargedOnce

LEMMA MonthIsNat == ASSUME NEW t \in Nat PROVE Month(t) \in Nat
<1>1. MonthLength \in Nat /\ MonthLength > 0
  BY QuotaAssumption
<1> QED
  BY <1>1 DEF Month

\* A request's arguments keep the shape of a call.
LEMMA CallUpdated ==
  ASSUME NEW c \in Call, NEW a \in Amounts, NEW n \in Nat
  PROVE  [c EXCEPT !.amount = a, !.month = n] \in Call
BY DEF Call

\* The steps that touch neither the usage row nor its lock.
QuietStep(r) ==
  \/ \E a \in Amounts : RequestUpload(r, a)
  \/ BeginReserve(r) \/ StoreFile(r) \/ FileFails(r) \/ RollbackAndCancel(r)
  \/ BeginCommit(r) \/ LockReservation(r) \/ ReservationNotFound(r)

\* They move one request, from and to a stage without the usage row's lock.
LEMMA QuietFrame ==
  ASSUME TypeOK, NEW r \in Requests, QuietStep(r)
  PROVE  /\ usage' = usage /\ usageLock' = usageLock
         /\ \A q \in Requests : q # r => pc'[q] = pc[q] /\ call'[q] = call[q]
         /\ pc[r] \notin {"reserve", "commit"} /\ pc'[r] \notin {"reserve", "commit"}
<1>1. pc \in [Requests -> Stages] /\ call \in [Requests -> Call]
  BY DEF TypeOK
<1>2. CASE \E a \in Amounts : RequestUpload(r, a)
  <2>1. PICK a \in Amounts : RequestUpload(r, a)
    BY <1>2
  <2> QED
    BY <1>1, <2>1 DEF RequestUpload, Goto
<1>3. CASE BeginReserve(r)
  BY <1>1, <1>3 DEF BeginReserve, Goto
<1>4. CASE StoreFile(r)
  BY <1>1, <1>4 DEF StoreFile
<1>5. CASE FileFails(r)
  BY <1>1, <1>5 DEF FileFails, Goto
<1>6. CASE RollbackAndCancel(r)
  BY <1>1, <1>6 DEF RollbackAndCancel, Goto
<1>7. CASE BeginCommit(r)
  BY <1>1, <1>7 DEF BeginCommit, Goto
<1>8. CASE LockReservation(r)
  BY <1>1, <1>8 DEF LockReservation, Goto
<1>9. CASE ReservationNotFound(r)
  BY <1>1, <1>9 DEF ReservationNotFound, Goto
<1> QED
  BY <1>2, <1>3, <1>4, <1>5, <1>6, <1>7, <1>8, <1>9 DEF QuietStep

\* The shapes are kept by every step.
LEMMA TypePreserved ==
  ASSUME QuotaInv, [Next]_vars PROVE TypeOK'
<1> USE QuotaAssumption, MonthIsNat DEF QuotaInv, TypeOK, history, Goto, Finished, Stages
<1>1. ASSUME NEW r \in Requests, NEW a \in Amounts, RequestUpload(r, a) PROVE TypeOK'
  <2>1. Month(now) \in Nat /\ call[r] \in Call
    OBVIOUS
  <2>2. [call[r] EXCEPT !.amount = a, !.month = Month(now)] \in Call
    BY <2>1, CallUpdated
  <2>3. call' = [call EXCEPT ![r] = [call[r] EXCEPT !.amount = a, !.month = Month(now)]]
    BY <1>1 DEF RequestUpload
  <2>4. call' \in [Requests -> Call]
    BY <2>2, <2>3
  <2> QED
    BY <1>1, <2>4 DEF RequestUpload
<1>2. ASSUME NEW r \in Requests, BeginReserve(r) PROVE TypeOK'
  BY <1>2 DEF BeginReserve, Call
<1>3. ASSUME NEW r \in Requests, LockToReserve(r) PROVE TypeOK'
  BY <1>3 DEF LockToReserve
<1>4. ASSUME NEW r \in Requests, ReserveReplayed(r) PROVE TypeOK'
  BY <1>4 DEF ReserveReplayed, EnterMonth, Unpurged, UsageFor, UsageRow, ReleaseUsage, Call
<1>5. ASSUME NEW r \in Requests, ReserveExceeded(r) PROVE TypeOK'
  BY <1>5 DEF ReserveExceeded, EnterMonth, Unpurged, UsageFor, UsageRow, ReleaseUsage, Call
<1>6. ASSUME NEW r \in Requests, ReserveApproved(r) PROVE TypeOK'
  BY <1>6 DEF ReserveApproved, EnterMonth, Unpurged, UsageFor, UsageRow, ReleaseUsage,
     Call, Reservation, Unanswered
<1>7. ASSUME NEW r \in Requests, StoreFile(r) PROVE TypeOK'
  BY <1>7 DEF StoreFile, Call
<1>8. ASSUME NEW r \in Requests, FileFails(r) PROVE TypeOK'
  BY <1>8 DEF FileFails
<1>9. ASSUME NEW r \in Requests, RollbackAndCancel(r) PROVE TypeOK'
  BY <1>9 DEF RollbackAndCancel, Call
<1>10. ASSUME NEW r \in Requests, BeginCommit(r) PROVE TypeOK'
  BY <1>10 DEF BeginCommit, Call
<1>11. ASSUME NEW r \in Requests, LockReservation(r) \/ ReservationNotFound(r) PROVE TypeOK'
  BY <1>11 DEF LockReservation, ReservationNotFound
<1>12. ASSUME NEW r \in Requests, LockToCommit(r) PROVE TypeOK'
  BY <1>12 DEF LockToCommit, Call
<1>13. ASSUME NEW r \in Requests, CommitCrossed(r) PROVE TypeOK'
  BY <1>13 DEF CommitCrossed, ReleaseUsage
<1>14. ASSUME NEW r \in Requests, CommitCharged(r) PROVE TypeOK'
  BY <1>14 DEF CommitCharged, CommitIsCurrent, ReleaseUsage, Charge, UsageRow, Call, Cleaned
<1>15. ASSUME NEW r \in Requests, Abort(r) PROVE TypeOK'
  BY <1>15 DEF Abort
<1>16. ASSUME NEW v \in Viewers, ViewUsage(v) \/ ResetUsage(v) PROVE TypeOK'
  BY <1>16 DEF ViewUsage, ResetUsage, UsageRow
<1>17. CASE Tick
  BY <1>17 DEF Tick
<1>18. CASE UNCHANGED vars
  BY <1>18 DEF vars
<1> QED
  BY <1>1, <1>2, <1>3, <1>4, <1>5, <1>6, <1>7, <1>8, <1>9, <1>10, <1>11, <1>12, <1>13,
     <1>14, <1>15, <1>16, <1>17, <1>18 DEF Next, Serve, Reserve, Store, Commit, BreakDeadlock

\* The lock of the usage row passes from one transaction to the next.
LEMMA LockPreserved ==
  ASSUME QuotaInv, [Next]_vars PROVE LockHeld'
<1> USE QuotaAssumption DEF QuotaInv, TypeOK, LockHeld, history, Goto, ReleaseUsage
<1>1. ASSUME NEW r \in Requests, LockToReserve(r) \/ LockToCommit(r) PROVE LockHeld'
  BY <1>1 DEF LockToReserve, LockToCommit, UsageFree
<1>2. ASSUME NEW r \in Requests,
             ReserveReplayed(r) \/ ReserveExceeded(r) \/ ReserveApproved(r)
      PROVE  LockHeld'
  BY <1>2 DEF ReserveReplayed, ReserveExceeded, ReserveApproved, EnterMonth, Unanswered
<1>3. ASSUME NEW r \in Requests, CommitCrossed(r) \/ CommitCharged(r) PROVE LockHeld'
  BY <1>3 DEF CommitCrossed, CommitCharged
<1>4. ASSUME NEW r \in Requests, Abort(r) PROVE LockHeld'
  BY <1>4 DEF Abort
<1>5. ASSUME NEW r \in Requests, QuietStep(r) PROVE LockHeld'
  BY <1>5, QuietFrame
<1>6. ASSUME NEW v \in Viewers, ViewUsage(v) \/ ResetUsage(v) PROVE LockHeld'
  BY <1>6 DEF ViewUsage, ResetUsage
<1>7. CASE Tick \/ UNCHANGED vars
  BY <1>7 DEF Tick, vars
<1> QED
  BY <1>1, <1>2, <1>3, <1>4, <1>5, <1>6, <1>7 DEF Next, Serve, Reserve, Store, Commit, BreakDeadlock, QuietStep

\* Reservation rows stay below a usage row, and one that a commit has locked
\* stays: purging and cleaning wait for it, and the usage row's lock keeps
\* everybody else away from the row of a commit that holds both.
LEMMA RowsPreserved ==
  ASSUME QuotaInv, [Next]_vars PROVE RowsHaveUsage' /\ RowsKept'
<1> USE QuotaAssumption DEF QuotaInv, TypeOK, LockHeld, RowsHaveUsage, RowsKept, history,
     Goto, ReleaseUsage, RowLocked
<1>1. ASSUME NEW r \in Requests, LockToReserve(r) \/ LockToCommit(r)
      PROVE  RowsHaveUsage' /\ RowsKept'
  BY <1>1 DEF LockToReserve, LockToCommit
<1>2. ASSUME NEW r \in Requests,
             ReserveReplayed(r) \/ ReserveExceeded(r) \/ ReserveApproved(r)
      PROVE  RowsHaveUsage' /\ RowsKept'
  <2>1. usage' # None
    <3>1. [month |-> call[r].month, count |-> 0] \in UsageRow
      BY DEF Call, UsageRow
    <3>2. UsageFor(r) # None
      BY <3>1 DEF UsageFor, Restarts
    <3> QED
      BY <1>2, <3>2 DEF ReserveReplayed, ReserveExceeded, ReserveApproved, EnterMonth
  <2>2. \A q \in Requests : pc[q] \in {"lockUsage", "commit"} => reservation'[q] # None
    BY <1>2 DEF ReserveReplayed, ReserveExceeded, ReserveApproved, EnterMonth, Unpurged
  <2>3. \A q \in Requests : pc'[q] \in {"lockUsage", "commit"} => pc[q] = pc'[q]
    BY <1>2 DEF ReserveReplayed, ReserveExceeded, ReserveApproved, EnterMonth, Unanswered
  <2> QED
    BY <2>1, <2>2, <2>3
<1>3. ASSUME NEW r \in Requests, CommitCrossed(r) \/ CommitCharged(r)
      PROVE  RowsHaveUsage' /\ RowsKept'
  <2>1. usage' # None
    <3>1. call[r].seen = usage /\ usage \in UsageRow
      BY <1>3 DEF CommitCrossed, CommitCharged, CommitIsCurrent
    <3>2. Charge(usage, call[r].amount) \in UsageRow
      BY <3>1 DEF Charge, UsageRow, Call
    <3> QED
      BY <1>3, <3>1, <3>2 DEF CommitCrossed, CommitCharged
  <2>2. \A q \in Requests : q # r /\ pc[q] \in {"lockUsage", "commit"} => reservation'[q] # None
    BY <1>3 DEF CommitCrossed, CommitCharged
  <2>3. \A q \in Requests : pc'[q] \in {"lockUsage", "commit"} => q # r /\ pc[q] = pc'[q]
    BY <1>3 DEF CommitCrossed, CommitCharged
  <2> QED
    BY <2>1, <2>2, <2>3
<1>4. ASSUME NEW r \in Requests, Abort(r) PROVE RowsHaveUsage' /\ RowsKept'
  BY <1>4 DEF Abort
<1>5. ASSUME NEW r \in Requests,
             \/ \E a \in Amounts : RequestUpload(r, a)
             \/ BeginReserve(r) \/ StoreFile(r) \/ FileFails(r) \/ BeginCommit(r)
             \/ LockReservation(r) \/ ReservationNotFound(r)
      PROVE  RowsHaveUsage' /\ RowsKept'
  <2>1. usage' = usage /\ \A q \in Requests : q # r => pc'[q] = pc[q]
    BY <1>5, QuietFrame DEF QuietStep
  <2>2. reservation' = reservation
    <3>1. CASE \E a \in Amounts : RequestUpload(r, a)
      BY <3>1 DEF RequestUpload
    <3>2. CASE BeginReserve(r) \/ StoreFile(r) \/ FileFails(r)
      BY <3>2 DEF BeginReserve, StoreFile, FileFails
    <3>3. CASE BeginCommit(r) \/ LockReservation(r) \/ ReservationNotFound(r)
      BY <3>3 DEF BeginCommit, LockReservation, ReservationNotFound
    <3> QED
      BY <1>5, <3>1, <3>2, <3>3
  <2>3. pc'[r] \in {"lockUsage", "commit"} => reservation[r] # None
    <3>1. CASE \E a \in Amounts : RequestUpload(r, a)
      BY <3>1 DEF RequestUpload
    <3>2. CASE BeginReserve(r) \/ StoreFile(r) \/ FileFails(r)
      BY <3>2 DEF BeginReserve, StoreFile, FileFails
    <3>3. CASE BeginCommit(r) \/ LockReservation(r) \/ ReservationNotFound(r)
      BY <3>3 DEF BeginCommit, LockReservation, ReservationNotFound
    <3> QED
      BY <1>5, <3>1, <3>2, <3>3
  <2> QED
    BY <2>1, <2>2, <2>3
<1>6. ASSUME NEW r \in Requests, RollbackAndCancel(r) PROVE RowsHaveUsage' /\ RowsKept'
  BY <1>6 DEF RollbackAndCancel
<1>7. ASSUME NEW v \in Viewers, ViewUsage(v) \/ ResetUsage(v) PROVE RowsHaveUsage' /\ RowsKept'
  BY <1>7 DEF ViewUsage, ResetUsage, UsageRow
<1>8. CASE Tick \/ UNCHANGED vars
  BY <1>8 DEF Tick, vars
<1> QED
  BY <1>1, <1>2, <1>3, <1>4, <1>5, <1>6, <1>7, <1>8
     DEF Next, Serve, Reserve, Store, Commit, BreakDeadlock

\* Between a commit's read and its write nobody writes the usage row.
LEMMA CurrentPreserved ==
  ASSUME QuotaInv, [Next]_vars PROVE CommitIsCurrent'
<1> USE QuotaAssumption DEF QuotaInv, TypeOK, LockHeld, CommitIsCurrent, history, Goto
<1>1. ASSUME NEW r \in Requests, LockToCommit(r) PROVE CommitIsCurrent'
  BY <1>1 DEF LockToCommit, RowsHaveUsage, RowsKept, UsageFree, Call
<1>2. ASSUME NEW r \in Requests,
             \/ ReserveReplayed(r) \/ ReserveExceeded(r) \/ ReserveApproved(r)
             \/ CommitCrossed(r) \/ CommitCharged(r)
      PROVE  CommitIsCurrent'
  <2>1. \A q \in Requests : pc'[q] # "commit"
    BY <1>2 DEF ReserveReplayed, ReserveExceeded, ReserveApproved, EnterMonth, Unanswered,
       CommitCrossed, CommitCharged
  <2> QED
    BY <2>1
<1>3. ASSUME NEW v \in Viewers, ViewUsage(v) \/ ResetUsage(v) PROVE CommitIsCurrent'
  BY <1>3 DEF ViewUsage, ResetUsage, UsageFree
<1>4. ASSUME NEW r \in Requests, QuietStep(r) PROVE CommitIsCurrent'
  BY <1>4, QuietFrame
<1>5. ASSUME NEW r \in Requests, LockToReserve(r) PROVE CommitIsCurrent'
  BY <1>5 DEF LockToReserve
<1>6. ASSUME NEW r \in Requests, Abort(r) PROVE CommitIsCurrent'
  BY <1>6 DEF Abort
<1>7. CASE Tick \/ UNCHANGED vars
  BY <1>7 DEF Tick, vars
<1> QED
  BY <1>1, <1>2, <1>3, <1>4, <1>5, <1>6, <1>7
     DEF Next, Serve, Reserve, Store, Commit, BreakDeadlock, QuietStep

\* A request is charged only by its commit, which ends it.
LEMMA ChargesPreserved ==
  ASSUME QuotaInv, [Next]_vars PROVE Unfinished' /\ ChargedOnce'
<1> USE QuotaAssumption DEF QuotaInv, TypeOK, Unfinished, ChargedOnce, AllStored, history,
     Goto, Finished
<1>1. ASSUME NEW r \in Requests, NEW a \in Amounts, RequestUpload(r, a)
      PROVE  Unfinished' /\ ChargedOnce'
  BY <1>1 DEF RequestUpload, Call
<1>2. ASSUME NEW r \in Requests, BeginReserve(r) \/ LockToReserve(r) \/ FileFails(r)
      PROVE  Unfinished' /\ ChargedOnce'
  BY <1>2 DEF BeginReserve, LockToReserve, FileFails, Call
<1>3. ASSUME NEW r \in Requests,
             ReserveReplayed(r) \/ ReserveExceeded(r) \/ ReserveApproved(r)
      PROVE  Unfinished' /\ ChargedOnce'
  <2>1. \A q \in Requests : q # r => pc'[q] = pc[q]
    BY <1>3 DEF ReserveReplayed, ReserveExceeded, ReserveApproved, EnterMonth
  <2>2. /\ pc[r] = "reserve"
        /\ pc'[r] \in {"storing", "refused", "failed", "reserving"}
        /\ pc'[r] = "refused" => reservation'[r] = None
    BY <1>3 DEF ReserveReplayed, ReserveExceeded, ReserveApproved, EnterMonth, Unanswered,
       Unpurged
  <2>3. ASSUME NEW q \in Requests, q # r, reservation[q] = None PROVE reservation'[q] = None
    <3>1. Unpurged(r)[q] = None /\ DOMAIN Unpurged(r) = Requests
      BY <2>3 DEF Unpurged
    <3>2. reservation'[q] = Unpurged(r)[q]
      BY <1>3, <2>3, <3>1 DEF ReserveReplayed, ReserveExceeded, ReserveApproved
    <3> QED
      BY <3>1, <3>2
  <2>4. charges' = charges /\ call' = call
    BY <1>3 DEF ReserveReplayed, ReserveExceeded, ReserveApproved, EnterMonth
  <2> QED
    BY <2>1, <2>2, <2>3, <2>4
<1>4. ASSUME NEW r \in Requests, StoreFile(r) \/ RollbackAndCancel(r)
      PROVE  Unfinished' /\ ChargedOnce'
  <2>1. \A q \in Requests : q # r => pc'[q] = pc[q] /\ call'[q] = call[q]
                                   /\ reservation'[q] = reservation[q]
    BY <1>4 DEF StoreFile, RollbackAndCancel
  <2>2. pc[r] \in {"storing", "rollback"} /\ pc'[r] \in {"storing", "failed"}
    BY <1>4 DEF StoreFile, RollbackAndCancel
  <2>3. charges' = charges
    BY <1>4 DEF StoreFile, RollbackAndCancel
  <2> QED
    BY <2>1, <2>2, <2>3
<1>5. ASSUME NEW r \in Requests, BeginCommit(r) \/ LockToCommit(r)
      PROVE  Unfinished' /\ ChargedOnce'
  BY <1>5 DEF BeginCommit, LockToCommit, Call
<1>6. ASSUME NEW r \in Requests, LockReservation(r) \/ ReservationNotFound(r) \/ Abort(r)
      PROVE  Unfinished' /\ ChargedOnce'
  BY <1>6 DEF LockReservation, ReservationNotFound, Abort
<1>7. ASSUME NEW r \in Requests, CommitCrossed(r) PROVE Unfinished' /\ ChargedOnce'
  BY <1>7 DEF CommitCrossed
<1>8. ASSUME NEW r \in Requests, CommitCharged(r) PROVE Unfinished' /\ ChargedOnce'
  <2>1. \A q \in Requests : q # r => pc'[q] = pc[q] /\ charges'[q] = charges[q]
    BY <1>8 DEF CommitCharged
  <2>2. pc[r] = "commit" /\ pc'[r] \in {"ok", "failed"}
    BY <1>8 DEF CommitCharged
  <2>3. charges[r] = 0 /\ charges'[r] = 1
    BY <1>8, <2>2 DEF CommitCharged
  <2>4. reservation'[r] = None
    BY <1>8 DEF CommitCharged, Cleaned
  <2>5. \A q \in Requests : reservation[q] = None => reservation'[q] = None
    BY <1>8 DEF CommitCharged
  <2>6. call' = call
    BY <1>8 DEF CommitCharged
  <2> QED
    BY <2>1, <2>2, <2>3, <2>4, <2>5, <2>6
<1>9. ASSUME NEW v \in Viewers, ViewUsage(v) \/ ResetUsage(v)
      PROVE  Unfinished' /\ ChargedOnce'
  BY <1>9 DEF ViewUsage, ResetUsage
<1>10. CASE Tick \/ UNCHANGED vars
  BY <1>10 DEF Tick, vars
<1> QED
  BY <1>1, <1>2, <1>3, <1>4, <1>5, <1>6, <1>7, <1>8, <1>9, <1>10
     DEF Next, Serve, Reserve, Store, Commit, BreakDeadlock

LEMMA QuotaInitially == ASSUME Init PROVE QuotaInv
<1>1. TypeOK
  BY QuotaAssumption DEF Init, TypeOK, Call, NoCall, Stages, Finished
<1>2. LockHeld
  BY QuotaAssumption DEF Init, LockHeld
<1>3. RowsHaveUsage /\ CommitIsCurrent /\ RowsKept /\ Unfinished
  BY DEF Init, RowsHaveUsage, CommitIsCurrent, RowsKept, Unfinished
<1>4. ChargedOnce
  BY DEF Init, ChargedOnce
<1> QED
  BY <1>1, <1>2, <1>3, <1>4 DEF QuotaInv

\* QuotaInv is an invariant of the quota.
THEOREM QuotaInvariant == Spec => []QuotaInv
<1>1. Init => QuotaInv
  BY QuotaInitially
<1>2. QuotaInv /\ [Next]_vars => QuotaInv'
  BY TypePreserved, LockPreserved, RowsPreserved, CurrentPreserved, ChargesPreserved
     DEF QuotaInv
<1> QED
  BY <1>1, <1>2, PTL DEF Spec

\* However reservations, commits, resets and failures interleave, a request is
\* charged at most once, for stored files, and is told so only if it was.
THEOREM ChargedOnceHolds == Spec => []ChargedOnce
<1>1. QuotaInv => ChargedOnce
  BY DEF QuotaInv
<1> QED
  BY <1>1, QuotaInvariant, PTL

\* What a commit read before it writes the count back is still the row.
THEOREM CommitsAreCurrent == Spec => [](CommitIsCurrent /\ RowsKept)
<1>1. QuotaInv => CommitIsCurrent /\ RowsKept
  BY DEF QuotaInv
<1> QED
  BY <1>1, QuotaInvariant, PTL

\* Every variable of the quota keeps its shape.
THEOREM QuotaTypes == Spec => []TypeOK
<1>1. QuotaInv => TypeOK
  BY DEF QuotaInv
<1> QED
  BY <1>1, QuotaInvariant, PTL

(***************************************************************************)
(* The count, the reserved uploads and the meter.                          *)
(***************************************************************************)

\* What each request asks for.
AmountsOf(c) == [r \in Requests |-> c[r].amount]

\* Total is the sum of those amounts, over any requests.
LEMMA TotalIsSum ==
  ASSUME NEW c, NEW S \in SUBSET Requests
  PROVE  MapThenSumSet(LAMBDA r : c[r].amount, S) = SumOn(AmountsOf(c), S)
BY DEF MapThenSumSet, MapThenFoldSet, SumOn, SumFunctionOnSet, FoldFunctionOnSet, AmountsOf

\* A request has an upload and a past start; its row is of its own month.
CallsInOrder ==
  \A r \in Requests :
    /\ call[r].began <= now
    /\ IF pc[r] = "idle" THEN reservation[r] = None ELSE call[r].amount \in Amounts
    /\ reservation[r] # None => reservation[r].month = call[r].month

\* Only what was charged is counted, and nothing without a usage row.
Counted ==
  /\ \A r \in charged \cup late : charges[r] # 0
  /\ usage = None => charged = {} /\ late = {}
  /\ CountIsCharges

\* Whatever month the usage row is turned to, the uploads reserved in it fit.
Held(m) == Total(Live(m, now))
MonthsFit == \A m \in Nat : Held(m) <= Limit

SumInv == QuotaInv /\ CallsInOrder /\ Counted /\ MonthsFit

\* Rows expire and are deleted, and nothing is charged.
Shrinks ==
  /\ now <= now'
  /\ \A q \in Requests : reservation'[q] = reservation[q] \/ reservation'[q] = None
  /\ charges' = charges

\* Most steps leave the usage row and what it stands for alone.
Keeps == usage' = usage /\ charged' = charged /\ late' = late /\ Shrinks

\* Some turn it to a month and start its count again.
StartsOver ==
  /\ \E m \in Nat : usage' = [month |-> m, count |-> 0]
  /\ charged' = {} /\ late' = {}
  /\ Shrinks

\* The others reserve, or charge.
LEMMA StepKinds ==
  ASSUME QuotaInv, [Next]_vars
  PROVE  \/ Keeps \/ StartsOver
         \/ \E r \in Requests : ReserveApproved(r) \/ CommitCharged(r)
<1> USE DEF QuotaInv, TypeOK, history, Goto, ReleaseUsage
<1>1. ASSUME NEW r \in Requests, QuietStep(r) \/ LockToReserve(r) \/ LockToCommit(r) PROVE Keeps
  <2>1. /\ usage' = usage /\ charged' = charged /\ late' = late
        /\ now' = now /\ charges' = charges
    BY <1>1 DEF QuietStep, RequestUpload, BeginReserve, StoreFile, FileFails, RollbackAndCancel,
       BeginCommit, LockReservation, ReservationNotFound, LockToReserve, LockToCommit
  <2>2. CASE RollbackAndCancel(r)
    BY <2>1, <2>2 DEF RollbackAndCancel, Keeps, Shrinks
  <2>3. CASE ~ RollbackAndCancel(r)
    <3>1. reservation' = reservation
      BY <1>1, <2>3 DEF QuietStep, RequestUpload, BeginReserve, StoreFile, FileFails,
         BeginCommit, LockReservation, ReservationNotFound, LockToReserve, LockToCommit
    <3> QED
      BY <2>1, <3>1 DEF Keeps, Shrinks
  <2> QED
    BY <2>2, <2>3
<1>2. ASSUME NEW r \in Requests, ReserveReplayed(r) \/ ReserveExceeded(r)
      PROVE  Keeps \/ StartsOver
  <2>1. EnterMonth(r) /\ reservation' = Unpurged(r)
    BY <1>2 DEF ReserveReplayed, ReserveExceeded
  <2>2. Shrinks
    BY <2>1 DEF EnterMonth, Unpurged, Shrinks
  <2>3. CASE Restarts(r)
    <3>1. call[r].month \in Nat
      BY DEF Call
    <3> QED
      BY <2>1, <2>2, <2>3, <3>1 DEF EnterMonth, UsageFor, StartsOver
  <2>4. CASE ~ Restarts(r)
    BY <2>1, <2>2, <2>4 DEF EnterMonth, UsageFor, Keeps
  <2> QED
    BY <2>3, <2>4
<1>3. ASSUME NEW r \in Requests, CommitCrossed(r) \/ Abort(r) PROVE Keeps
  BY <1>3 DEF CommitCrossed, Abort, Keeps, Shrinks
<1>4. ASSUME NEW v \in Viewers, ViewUsage(v) PROVE Keeps
  BY <1>4 DEF ViewUsage, Keeps, Shrinks
<1>5. ASSUME NEW v \in Viewers, ResetUsage(v) PROVE StartsOver
  BY <1>5 DEF ResetUsage, StartsOver, Shrinks
<1>6. CASE Tick \/ UNCHANGED vars
  BY <1>6 DEF Tick, vars, Keeps, Shrinks
<1> QED
  BY <1>1, <1>2, <1>3, <1>4, <1>5, <1>6
     DEF Next, Serve, Reserve, Store, Commit, BreakDeadlock, QuietStep

\* Each request's call is its own, and starts are in the past.
LEMMA CallsPreserved ==
  ASSUME QuotaInv, CallsInOrder, [Next]_vars PROVE CallsInOrder'
<1> USE QuotaAssumption, MonthIsNat DEF QuotaInv, TypeOK, CallsInOrder, history, Goto
<1>1. ASSUME NEW r \in Requests, NEW a \in Amounts, RequestUpload(r, a) PROVE CallsInOrder'
  BY <1>1 DEF RequestUpload, Call
<1>2. ASSUME NEW r \in Requests, BeginReserve(r) \/ BeginCommit(r) PROVE CallsInOrder'
  <2>1. \A q \in Requests : /\ call'[q].began \in {call[q].began, now}
                            /\ call'[q].amount = call[q].amount
                            /\ call'[q].month = call[q].month
    BY <1>2 DEF BeginReserve, BeginCommit, Call
  <2>2. now' = now /\ reservation' = reservation
    BY <1>2 DEF BeginReserve, BeginCommit
  <2>3. \A q \in Requests : pc'[q] = "idle" <=> pc[q] = "idle"
    BY <1>2 DEF BeginReserve, BeginCommit
  <2> QED
    BY <2>1, <2>2, <2>3
<1>3. ASSUME NEW r \in Requests, LockToReserve(r) \/ LockReservation(r) \/ ReservationNotFound(r)
      PROVE  CallsInOrder'
  BY <1>3 DEF LockToReserve, LockReservation, ReservationNotFound
<1>4. ASSUME NEW r \in Requests, ReserveReplayed(r) \/ ReserveExceeded(r) \/ ReserveApproved(r)
      PROVE  CallsInOrder'
  <2>1. now' = now /\ call' = call /\ pc[r] # "idle"
    BY <1>4 DEF ReserveReplayed, ReserveExceeded, ReserveApproved, EnterMonth
  <2>2. \A q \in Requests : pc'[q] = "idle" <=> pc[q] = "idle"
    BY <1>4, <2>1 DEF ReserveReplayed, ReserveExceeded, ReserveApproved, EnterMonth, Unanswered
  <2>3. \A q \in Requests : reservation'[q] \in {reservation[q], None} \/ q = r
    BY <1>4 DEF ReserveReplayed, ReserveExceeded, ReserveApproved, Unpurged
  <2>4. reservation'[r] \in {reservation[r], None} \/ reservation'[r].month = call[r].month
    <3>1. CASE ReserveApproved(r)
      <4>1. reservation'[r] = [month |-> call[r].month, expires |-> call[r].began + TTL]
        BY <3>1 DEF ReserveApproved, Unpurged
      <4> QED
        BY <4>1
    <3>2. CASE ~ ReserveApproved(r)
      BY <1>4, <3>2 DEF ReserveReplayed, ReserveExceeded, Unpurged
    <3> QED
      BY <3>1, <3>2
  <2> QED
    BY <2>1, <2>2, <2>3, <2>4
<1>5. ASSUME NEW r \in Requests, StoreFile(r) \/ FileFails(r) \/ RollbackAndCancel(r)
      PROVE  CallsInOrder'
  <2>1. \A q \in Requests : /\ call'[q].began = call[q].began
                            /\ call'[q].amount = call[q].amount
                            /\ call'[q].month = call[q].month
    BY <1>5 DEF StoreFile, FileFails, RollbackAndCancel, Call
  <2>2. now' = now /\ \A q \in Requests : reservation'[q] = reservation[q] \/ reservation'[q] = None
    BY <1>5 DEF StoreFile, FileFails, RollbackAndCancel
  <2>3. \A q \in Requests : pc'[q] = "idle" <=> pc[q] = "idle"
    BY <1>5 DEF StoreFile, FileFails, RollbackAndCancel
  <2> QED
    BY <2>1, <2>2, <2>3
<1>6. ASSUME NEW r \in Requests, LockToCommit(r) PROVE CallsInOrder'
  BY <1>6 DEF LockToCommit, Call
<1>7. ASSUME NEW r \in Requests, CommitCrossed(r) \/ CommitCharged(r) PROVE CallsInOrder'
  BY <1>7 DEF CommitCrossed, CommitCharged
<1>8. ASSUME NEW r \in Requests, Abort(r) PROVE CallsInOrder'
  BY <1>8 DEF Abort, Finished
<1>9. ASSUME NEW v \in Viewers, ViewUsage(v) \/ ResetUsage(v) PROVE CallsInOrder'
  BY <1>9 DEF ViewUsage, ResetUsage
<1>10. CASE Tick
  BY <1>10 DEF Tick, Call
<1>11. CASE UNCHANGED vars
  BY <1>11 DEF vars
<1> QED
  BY <1>1, <1>2, <1>3, <1>4, <1>5, <1>6, <1>7, <1>8, <1>9, <1>10, <1>11
     DEF Next, Serve, Reserve, Store, Commit, BreakDeadlock

\* What a request asks for is fixed once it has asked.
LEMMA AmountsKept ==
  ASSUME TypeOK, [Next]_vars, NEW q \in Requests, pc[q] # "idle"
  PROVE  call'[q].amount = call[q].amount
<1> USE DEF TypeOK, history, Goto
<1>1. ASSUME NEW r \in Requests, NEW a \in Amounts, RequestUpload(r, a)
      PROVE  call'[q].amount = call[q].amount
  BY <1>1 DEF RequestUpload
<1>2. ASSUME NEW r \in Requests,
             BeginReserve(r) \/ BeginCommit(r) \/ StoreFile(r) \/ RollbackAndCancel(r) \/ LockToCommit(r)
      PROVE  call'[q].amount = call[q].amount
  BY <1>2 DEF BeginReserve, BeginCommit, StoreFile, RollbackAndCancel, LockToCommit, Call
<1>3. ASSUME NEW r \in Requests,
             \/ LockToReserve(r) \/ LockReservation(r) \/ ReservationNotFound(r) \/ FileFails(r)
             \/ ReserveReplayed(r) \/ ReserveExceeded(r) \/ ReserveApproved(r)
             \/ CommitCrossed(r) \/ CommitCharged(r) \/ Abort(r)
      PROVE  call'[q].amount = call[q].amount
  BY <1>3 DEF LockToReserve, LockReservation, ReservationNotFound, FileFails, ReserveReplayed,
     ReserveExceeded, ReserveApproved, EnterMonth, CommitCrossed, CommitCharged, Abort
<1>4. ASSUME NEW v \in Viewers, ViewUsage(v) \/ ResetUsage(v)
      PROVE  call'[q].amount = call[q].amount
  BY <1>4 DEF ViewUsage, ResetUsage
<1>5. CASE Tick \/ UNCHANGED vars
  BY <1>5 DEF Tick, vars
<1> QED
  BY <1>1, <1>2, <1>3, <1>4, <1>5 DEF Next, Serve, Reserve, Store, Commit, BreakDeadlock

\* A total as the sum of amounts, in any state.
TotalOf(c, S) == SumOn(AmountsOf(c), S)

LEMMA TotalIsTotalOf ==
  ASSUME NEW S \in SUBSET Requests PROVE Total(S) = TotalOf(call, S)
BY TotalIsSum DEF Total, TotalOf

LEMMA AmountsAreNat ==
  ASSUME NEW c \in [Requests -> Call], NEW r \in Requests
  PROVE  c[r].amount \in Nat /\ AmountsOf(c)[r] = c[r].amount
<1>1. Amounts \subseteq Nat
  BY QuotaAssumption
<1>2. c[r].amount \in Amounts \cup {0}
  BY DEF Call
<1>3. AmountsOf(c)[r] = c[r].amount
  BY DEF AmountsOf
<1>4. \A a \in Amounts \cup {0} : a \in Nat
  BY <1>1
<1> QED
  BY <1>2, <1>3, <1>4

\* Totals of requests are natural numbers, and a part of a set has a smaller one.
LEMMA TotalTypes ==
  ASSUME NEW c \in [Requests -> Call], NEW S \in SUBSET Requests, NEW P \in SUBSET S
  PROVE  TotalOf(c, S) \in Nat /\ TotalOf(c, P) \in Nat /\ TotalOf(c, P) <= TotalOf(c, S)
<1>1. IsFiniteSet(S) /\ IsFiniteSet(P)
  BY QuotaAssumption, FS_Subset
<1>2. \A r \in S : AmountsOf(c)[r] \in Nat
  BY AmountsAreNat
<1> QED
  BY <1>1, <1>2, SumOnType, SumOnPart DEF TotalOf

\* A total takes the amount of what is put in.
LEMMA TotalAdd ==
  ASSUME NEW c \in [Requests -> Call], NEW S \in SUBSET Requests, NEW r \in Requests, r \notin S
  PROVE  TotalOf(c, S \cup {r}) = TotalOf(c, S) + c[r].amount
<1>1. IsFiniteSet(S)
  BY QuotaAssumption, FS_Subset
<1>2. \A q \in S \cup {r} : AmountsOf(c)[q] \in Int
  BY AmountsAreNat
<1>3. SumOn(AmountsOf(c), S \cup {r}) = SumOn(AmountsOf(c), S) + AmountsOf(c)[r]
  BY <1>1, <1>2, SumOnAdd
<1> QED
  BY <1>3, AmountsAreNat DEF TotalOf

\* A step does not change what requests under way add up to.
LEMMA TotalKept ==
  ASSUME TypeOK, [Next]_vars, NEW S \in SUBSET Requests, \A r \in S : pc[r] # "idle"
  PROVE  TotalOf(call', S) = TotalOf(call, S)
<1>1. IsFiniteSet(S)
  BY QuotaAssumption, FS_Subset
<1>2. \A r \in S : AmountsOf(call')[r] = AmountsOf(call)[r]
  BY AmountsKept DEF AmountsOf
<1> QED
  BY <1>1, <1>2, SumOnSame DEF TotalOf

\* Reserved uploads are the total of live rows, before and after a step.
LEMMA HeldIsTotalOf ==
  ASSUME NEW m
  PROVE  /\ Held(m) = TotalOf(call, Live(m, now)) /\ Live(m, now) \in SUBSET Requests
         /\ Held(m)' = TotalOf(call', Live(m, now)') /\ Live(m, now)' \in SUBSET Requests
<1>1. Live(m, now) \in SUBSET Requests /\ Live(m, now)' \in SUBSET Requests
  BY DEF Live
<1>2. Held(m) = TotalOf(call, Live(m, now))
  BY <1>1, TotalIsSum DEF Held, Total, TotalOf
<1>3. Held(m)' = TotalOf(call', Live(m, now)')
  BY <1>1 DEF Held, Total, TotalOf, AmountsOf, SumOn, SumFunctionOnSet, FoldFunctionOnSet,
     MapThenSumSet, MapThenFoldSet
<1> QED
  BY <1>1, <1>2, <1>3

\* When rows only go, the uploads reserved in any month do not grow.
LEMMA HeldShrinks ==
  ASSUME TypeOK, TypeOK', CallsInOrder, [Next]_vars, Shrinks, NEW m
  PROVE  Held(m)' \in Nat /\ Held(m) \in Nat /\ Held(m)' <= Held(m)
<1>1. Live(m, now)' \subseteq Live(m, now)
  BY DEF Live, Shrinks, TypeOK, Reservation
<1>2. \A r \in Live(m, now) : pc[r] # "idle"
  BY DEF Live, CallsInOrder
<1>3. TotalOf(call', Live(m, now)') = TotalOf(call, Live(m, now)')
  BY <1>1, <1>2, HeldIsTotalOf, TotalKept
<1>4. call \in [Requests -> Call]
  BY DEF TypeOK
<1> QED
  BY <1>1, <1>3, <1>4, HeldIsTotalOf, TotalTypes

\* What a step has to show for the sums and for the meter.
SumStep == Counted' /\ MonthsFit' /\ [Meter!Next]_(Meter!vars)

\* The meter's variables in terms of the totals.
LEMMA MeterState ==
  ASSUME TypeOK
  PROVE  /\ Total(late) = TotalOf(call, late) /\ TotalOf(call, late) \in Nat
         /\ Total(charged) = TotalOf(call, charged) /\ TotalOf(call, charged) \in Nat
         /\ \A m : Held(m) \in Nat
<1>1. call \in [Requests -> Call] /\ late \in SUBSET Requests /\ charged \in SUBSET Requests
  BY DEF TypeOK
<1> QED
  BY <1>1, TotalIsTotalOf, TotalTypes, HeldIsTotalOf

\* The next values of the totals of charged requests.
LEMMA MeterNextState ==
  ASSUME TypeOK'
  PROVE  Total(late)' = TotalOf(call', late') /\ Total(charged)' = TotalOf(call', charged')
<1>1. late' \in SUBSET Requests /\ charged' \in SUBSET Requests
  BY DEF TypeOK
<1> QED
  BY <1>1 DEF Total, TotalOf, AmountsOf, SumOn, SumFunctionOnSet, FoldFunctionOnSet,
     MapThenSumSet, MapThenFoldSet

\* A step that leaves the usage row alone lets holds lapse, at most.
LEMMA KeepsSums ==
  ASSUME SumInv, QuotaInv', [Next]_vars, Keeps PROVE SumStep
<1> USE DEF SumInv, QuotaInv
<1>1. \A r \in charged \cup late : pc[r] # "idle"
  BY DEF Counted, Unfinished, TypeOK
<1>2. TotalOf(call', charged) = TotalOf(call, charged) /\ TotalOf(call', late) = TotalOf(call, late)
  BY <1>1, TotalKept DEF TypeOK
<1>3. usage' = usage /\ charged' = charged /\ late' = late /\ Shrinks
  BY DEF Keeps
<1>4. Total(charged)' = Total(charged) /\ Total(late)' = Total(late)
  BY <1>2, <1>3, MeterState, MeterNextState
<1>5. \A m : Held(m)' \in Nat /\ Held(m) \in Nat /\ Held(m)' <= Held(m)
  BY <1>3, HeldShrinks
<1>6. Counted'
  BY <1>3, <1>4 DEF Shrinks, Counted, CountIsCharges
<1>7. MonthsFit'
  BY <1>5, QuotaAssumption DEF MonthsFit
<1>8. Meter!Lapse
  BY <1>3, <1>4, <1>5 DEF Meter!Lapse, Held
<1> QED
  BY <1>6, <1>7, <1>8 DEF SumStep, Meter!Next

\* A step that starts the count over restarts the meter, with what is reserved
\* in the month the row now stands for.
LEMMA StartsOverSums ==
  ASSUME SumInv, QuotaInv', [Next]_vars, StartsOver PROVE SumStep
<1> USE DEF SumInv, QuotaInv
<1>1. PICK m \in Nat : usage' = [month |-> m, count |-> 0]
  BY DEF StartsOver
<1>2. charged' = {} /\ late' = {} /\ Shrinks
  BY DEF StartsOver
<1>3. Total(charged)' = 0 /\ Total(late)' = 0
  BY <1>2, MeterNextState, SumOnEmpty DEF TotalOf
<1>4. \A n : Held(n)' \in Nat /\ Held(n) \in Nat /\ Held(n)' <= Held(n)
  BY <1>2, HeldShrinks
<1>5. usage' # None
  BY <1>1, QuotaAssumption DEF UsageRow
<1>6. Counted'
  BY <1>1, <1>2, <1>3 DEF Counted, CountIsCharges
<1>7. MonthsFit'
  BY <1>4, QuotaAssumption DEF MonthsFit
<1>8. Held(m)' \in 0..Limit
  BY <1>4, <1>7, QuotaAssumption DEF MonthsFit
<1>9. Meter!Restart
  BY <1>1, <1>3, <1>5, <1>8 DEF Meter!Restart, Held
<1> QED
  BY <1>6, <1>7, <1>9 DEF SumStep, Meter!Next

\* A grant either holds uploads in the running count, or starts a new one; what
\* had expired before the transaction started does not count any more now.
LEMMA ApprovedSums ==
  ASSUME SumInv, QuotaInv', [Next]_vars, NEW r \in Requests, ReserveApproved(r) PROVE SumStep
<1> USE DEF SumInv, QuotaInv
<1>0. /\ call[r].month \in Nat /\ call[r].amount \in Amounts
      /\ call[r].began \in Nat /\ call[r].began <= now
      /\ now \in Nat /\ call \in [Requests -> Call]
  BY DEF ReserveApproved, EnterMonth, CallsInOrder, TypeOK, Call
<1>1. PICK m \in Nat, a \in Amounts : m = call[r].month /\ a = call[r].amount
  BY <1>0
<1>2. /\ EnterMonth(r) /\ Fits(r) /\ Unpurged(r)[r] = None
      /\ reservation' = [Unpurged(r) EXCEPT ![r] =
           [month |-> m, expires |-> call[r].began + TTL]]
      /\ now' = now /\ call' = call /\ charges' = charges
  BY <1>1 DEF ReserveApproved, EnterMonth
<1>3. a \in Nat /\ TTL \in Nat /\ Limit \in Nat
  BY QuotaAssumption
<1>4. reservation[r] = None
  BY <1>1, <1>2 DEF Unpurged, Purged, CallsInOrder
<1>5. ASSUME NEW n PROVE Live(n, now)' \subseteq Live(n, now) \cup (IF n = m THEN {r} ELSE {})
  BY <1>2 DEF Live, Unpurged
<1>6. r \notin Live(m, now) /\ Live(m, now) \in SUBSET Requests
  BY <1>4 DEF Live
<1>7. TotalOf(call, Live(m, now) \cup {r}) = Held(m) + a
  BY <1>0, <1>1, <1>6, TotalAdd, HeldIsTotalOf
<1>8. UsageFor(r).count + Held(m) + a <= Limit /\ UsageFor(r).count \in Nat
  <2>1. Live(m, now) \subseteq Live(m, call[r].began) /\ Live(m, call[r].began) \in SUBSET Requests
    BY <1>0 DEF Live, TypeOK, Reservation
  <2>2. Held(m) \in Nat /\ Held(m) <= Total(Live(m, call[r].began)) /\ Total(Live(m, call[r].began)) \in Nat
    BY <1>0, <2>1, HeldIsTotalOf, TotalTypes, TotalIsTotalOf
  <2>3. UsageFor(r).count \in Nat
    BY DEF UsageFor, Restarts, TypeOK, UsageRow
  <2>4. UsageFor(r).count + Total(Live(m, call[r].began)) + a <= Limit
    BY <1>1, <1>2 DEF Fits, EffectiveUsage
  <2> QED
    BY <1>3, <2>2, <2>3, <2>4
<1>9. \A n : Held(n) \in Nat /\ Held(n)' \in Nat
  BY <1>2, <1>0, HeldIsTotalOf, TotalTypes
<1>10. Held(m)' <= Held(m) + a /\ \A n : n # m => Held(n)' <= Held(n)
  <2>1. Held(m)' <= Held(m) + a
    <3>1. Live(m, now)' \subseteq Live(m, now) \cup {r} /\ Live(m, now) \cup {r} \in SUBSET Requests
      BY <1>5, <1>6
    <3>2. TotalOf(call, Live(m, now)') <= TotalOf(call, Live(m, now) \cup {r})
      BY <1>0, <3>1, TotalTypes
    <3> QED
      BY <1>2, <1>7, <3>2, HeldIsTotalOf
  <2>2. ASSUME NEW n, n # m PROVE Held(n)' <= Held(n)
    <3>1. Live(n, now)' \subseteq Live(n, now) /\ Live(n, now) \in SUBSET Requests
      BY <1>5, <2>2, HeldIsTotalOf
    <3> QED
      BY <1>2, <1>0, <3>1, HeldIsTotalOf, TotalTypes
  <2> QED
    BY <2>1, <2>2
<1>11. MonthsFit'
  <2>1. Held(m)' <= Limit
    BY <1>3, <1>8, <1>9, <1>10
  <2>2. ASSUME NEW n \in Nat, n # m PROVE Held(n)' <= Limit
    BY <1>3, <1>9, <1>10, <2>2 DEF MonthsFit
  <2> QED
    BY <2>1, <2>2 DEF MonthsFit
<1>12. CASE Restarts(r)
  <2>1. charged' = {} /\ late' = {} /\ usage' = [month |-> m, count |-> 0]
    BY <1>1, <1>2, <1>12 DEF EnterMonth, UsageFor
  <2>2. Total(charged)' = 0 /\ Total(late)' = 0
    BY <2>1, MeterNextState, SumOnEmpty DEF TotalOf
  <2>3. Counted'
    BY <2>1, <2>2 DEF Counted, CountIsCharges
  <2>4. usage' # None
    BY <1>0, <2>1, QuotaAssumption DEF UsageRow
  <2>5. Held(m)' \in 0..Limit
    BY <1>0, <1>3, <1>9, <1>11 DEF MonthsFit
  <2>6. Meter!Restart
    BY <2>1, <2>2, <2>4, <2>5 DEF Meter!Restart, Held
  <2> QED
    BY <1>11, <2>3, <2>6 DEF SumStep, Meter!Next
<1>13. CASE ~ Restarts(r)
  <2>1. charged' = charged /\ late' = late /\ usage' = usage /\ usage # None /\ usage.month = m
    BY <1>1, <1>2, <1>13 DEF EnterMonth, UsageFor, Restarts
  <2>2. Total(charged)' = Total(charged) /\ Total(late)' = Total(late) /\ Total(late) \in Nat
    BY <1>2, <2>1, MeterState, MeterNextState
  <2>3. Counted'
    BY <1>2, <2>1, <2>2 DEF Counted, CountIsCharges
  <2>4. Unpurged(r) = reservation
    BY <1>13 DEF Unpurged, Purged, TypeOK
  <2>5. CASE call[r].began + TTL > now
    <3>1. Live(m, now)' = Live(m, now) \cup {r}
      <4>1. reservation'[r] = [month |-> m, expires |-> call[r].began + TTL]
        BY <1>2, <2>4 DEF TypeOK
      <4>2. [month |-> m, expires |-> call[r].began + TTL] \in Reservation
        BY <1>0, <1>3 DEF Reservation
      <4>3. reservation'[r] # None
        BY <4>1, <4>2, QuotaAssumption
      <4>4. r \in Live(m, now)'
        BY <1>2, <2>5, <4>1, <4>3 DEF Live
      <4>5. \A q \in Requests : q # r => reservation'[q] = reservation[q]
        BY <1>2, <2>4
      <4>6. \A q \in Requests : q # r => (q \in Live(m, now)' <=> q \in Live(m, now))
        BY <1>2, <4>5 DEF Live
      <4>7. Live(m, now)' \subseteq Requests
        BY DEF Live
      <4> QED
        BY <1>6, <4>4, <4>6, <4>7
    <3>2. Held(m)' = Held(m) + a
      BY <1>2, <1>7, <3>1, HeldIsTotalOf
    <3>3. usage.count + Held(m) + a <= Limit + Total(late) /\ usage.count \in Nat
      <4>1. usage.count = UsageFor(r).count
        BY <1>13 DEF UsageFor
      <4> QED
        BY <1>3, <1>8, <1>9, <2>2, <4>1
    <3>4. Meter!Hold(a)
      BY <2>1, <2>2, <3>2, <3>3 DEF Meter!Hold, Held
    <3> QED
      BY <1>0, <1>11, <2>3, <3>4 DEF SumStep, Meter!Next
  <2>6. CASE ~ (call[r].began + TTL > now)
    <3>1. Live(m, now)' = Live(m, now)
      BY <1>2, <1>4, <2>4, <2>6 DEF Live, TypeOK
    <3>2. Held(m)' = Held(m)
      BY <1>2, <3>1, HeldIsTotalOf
    <3>3. Meter!Lapse
      BY <1>9, <2>1, <2>2, <3>2 DEF Meter!Lapse, Held
    <3> QED
      BY <1>11, <2>3, <3>3 DEF SumStep, Meter!Next
  <2> QED
    BY <2>5, <2>6
<1> QED
  BY <1>12, <1>13

\* A charge moves the upload from what is held, if its row is still live, to the
\* count; a late one adds to the count what the meter does not hold any more.
LEMMA ChargedSums ==
  ASSUME SumInv, QuotaInv', [Next]_vars, NEW r \in Requests, CommitCharged(r) PROVE SumStep
<1> USE DEF SumInv, QuotaInv
<1>0. /\ call[r].amount \in Amounts /\ call[r].began <= now /\ call[r].began \in Nat
      /\ now \in Nat /\ call \in [Requests -> Call]
  BY DEF CommitCharged, CallsInOrder, TypeOK, Call
<1>1. PICK a \in Amounts : a = call[r].amount
  BY <1>0
<1>2. /\ call[r].seen = usage /\ usage # None /\ usage \in UsageRow
      /\ reservation[r] # None /\ reservation[r] \in Reservation
      /\ reservation[r].month = usage.month
  BY DEF CommitCharged, CommitIsCurrent, RowsKept, TypeOK
<1>3. /\ usage' = [usage EXCEPT !.count = @ + a]
      /\ reservation' = [q \in Requests |-> IF q \in Cleaned(r) THEN None ELSE reservation[q]]
      /\ charged' = charged \cup {r} /\ charges' = [charges EXCEPT ![r] = @ + 1]
      /\ now' = now /\ call' = call
  BY <1>1, <1>2 DEF CommitCharged, Charge
<1>4. a \in Nat /\ Limit \in Nat
  BY QuotaAssumption
<1>5. charges[r] = 0 /\ r \notin charged /\ r \notin late
  BY DEF CommitCharged, Unfinished, Counted
<1>6. charged \in SUBSET Requests /\ late \in SUBSET Requests
  BY DEF TypeOK
<1>7. Total(charged)' = Total(charged) + a /\ Total(charged) \in Nat
  BY <1>0, <1>1, <1>3, <1>5, <1>6, TotalAdd, MeterState, MeterNextState
<1>8. PICK m \in Nat, n \in Nat : usage = [month |-> m, count |-> n]
  BY <1>2 DEF UsageRow
<1>9. usage' = [month |-> m, count |-> n + a] /\ usage' # None
  <2>1. usage' = [month |-> m, count |-> n + a]
    BY <1>3, <1>8
  <2>2. usage' \in UsageRow
    BY <1>4, <2>1 DEF UsageRow
  <2> QED
    BY <2>1, <2>2, QuotaAssumption
<1>10. Counted'
  <2>1. \A q \in charged' \cup late' : charges'[q] # 0
    <3>1. late' \subseteq late \cup {r}
      BY DEF CommitCharged
    <3>2. charges'[r] # 0 /\ \A q \in Requests : q # r => charges'[q] = charges[q]
      BY <1>3, <1>5 DEF TypeOK
    <3> QED
      BY <1>3, <1>6, <3>1, <3>2 DEF Counted
  <2>2. n = Total(charged)
    BY <1>2, <1>8 DEF Counted, CountIsCharges
  <2>3. usage'.count = Total(charged)'
    BY <1>7, <1>9, <2>2
  <2> QED
    BY <1>9, <2>1, <2>3 DEF Counted, CountIsCharges
<1>11. \A k : /\ Live(k, now)' \subseteq Live(k, now) /\ Live(k, now) \in SUBSET Requests
              /\ Held(k)' <= Held(k) /\ Held(k) \in Nat /\ Held(k)' \in Nat
  <2>1. ASSUME NEW k PROVE Live(k, now)' \subseteq Live(k, now) /\ Live(k, now) \in SUBSET Requests
    BY <1>3 DEF Live
  <2> QED
    BY <1>0, <1>3, <2>1, HeldIsTotalOf, TotalTypes
<1>12. MonthsFit'
  BY <1>4, <1>11 DEF MonthsFit
<1>13. Live(m, now)' = Live(m, now) \ {r}
  <2>1. r \notin Live(m, now)'
    BY <1>3 DEF Live, Cleaned
  <2>2. ASSUME NEW q \in Live(m, now), q # r PROVE q \in Live(m, now)'
    <3>1. q \notin Cleaned(r)
      BY <1>0, <2>2 DEF Live, Cleaned, TypeOK, Reservation
    <3> QED
      BY <1>3, <2>2, <3>1 DEF Live
  <2> QED
    BY <1>11, <2>1, <2>2
<1>14. CASE reservation[r].expires > now
  <2>1. r \in Live(m, now)
    BY <1>2, <1>8, <1>14 DEF Live
  <2>2. Held(m) = Held(m)' + a
    <3>1. (Live(m, now) \ {r}) \cup {r} = Live(m, now) /\ Live(m, now) \ {r} \in SUBSET Requests
      BY <1>11, <2>1
    <3>2. TotalOf(call, (Live(m, now) \ {r}) \cup {r}) = TotalOf(call, Live(m, now) \ {r}) + a
      BY <1>0, <1>1, <3>1, TotalAdd
    <3> QED
      BY <1>3, <1>13, <3>1, <3>2, HeldIsTotalOf
  <2>3. late' = late
    BY <1>14 DEF CommitCharged
  <2>4. Total(late)' = Total(late)
    BY <1>3, <2>3, MeterState, MeterNextState
  <2>5. Meter!Charge(a)
    BY <1>2, <1>4, <1>8, <1>9, <1>11, <2>2, <2>4 DEF Meter!Charge, Held
  <2> QED
    BY <1>10, <1>12, <2>5 DEF SumStep, Meter!Next
<1>15. CASE ~ (reservation[r].expires > now)
  <2>1. r \notin Live(m, now)
    BY <1>15 DEF Live
  <2>2. Held(m)' = Held(m)
    BY <1>3, <1>13, <2>1, HeldIsTotalOf
  <2>3. late' = late \cup {r}
    BY <1>15 DEF CommitCharged
  <2>4. Total(late)' = Total(late) + a
    BY <1>0, <1>1, <1>3, <1>5, <1>6, <2>3, TotalAdd, MeterState, MeterNextState
  <2>5. Meter!ChargeLate(a)
    BY <1>2, <1>8, <1>9, <2>2, <2>4 DEF Meter!ChargeLate, Held
  <2> QED
    BY <1>10, <1>12, <2>5 DEF SumStep, Meter!Next
<1> QED
  BY <1>14, <1>15

\* SumInv is an invariant of the quota, and its steps are steps of the meter.
LEMMA SumsPreserved ==
  ASSUME SumInv, [Next]_vars PROVE SumInv' /\ [Meter!Next]_(Meter!vars)
<1>1. QuotaInv'
  BY TypePreserved, LockPreserved, RowsPreserved, CurrentPreserved, ChargesPreserved
     DEF QuotaInv, SumInv
<1>2. CallsInOrder'
  BY CallsPreserved DEF SumInv
<1>3. SumStep
  BY <1>1, StepKinds, KeepsSums, StartsOverSums, ApprovedSums, ChargedSums DEF SumInv
<1> QED
  BY <1>1, <1>2, <1>3 DEF SumInv, SumStep

\* At first nothing is counted or reserved.
LEMMA SumsInitially == ASSUME Init PROVE SumInv /\ Meter!Init
<1>1. QuotaInv
  BY QuotaInitially
<1>2. CallsInOrder
  BY DEF Init, CallsInOrder, NoCall
<1>3. Counted
  BY DEF Init, Counted, CountIsCharges
<1>4. ASSUME NEW m PROVE Held(m) = 0
  <2>1. Live(m, now) = {}
    BY DEF Init, Live
  <2> QED
    BY <2>1, HeldIsTotalOf, SumOnEmpty DEF TotalOf
<1>5. MonthsFit
  BY <1>4, QuotaAssumption DEF MonthsFit
<1>6. Total(late) = 0
  BY <1>1, MeterState, SumOnEmpty DEF Init, TotalOf, QuotaInv
<1>7. Meter!Init
  BY <1>6 DEF Init, Meter!Init
<1> QED
  BY <1>1, <1>2, <1>3, <1>5, <1>7 DEF SumInv

THEOREM SumInvariant == Spec => []SumInv
<1>1. Init => SumInv
  BY SumsInitially
<1>2. SumInv /\ [Next]_vars => SumInv'
  BY SumsPreserved
<1> QED
  BY <1>1, <1>2, PTL DEF Spec

\* No charge is lost: the count of the usage row is what the uploads charged
\* since it last restarted add up to.
THEOREM CountIsChargesHolds == Spec => []CountIsCharges
<1>1. SumInv => CountIsCharges
  BY DEF SumInv, Counted
<1> QED
  BY <1>1, SumInvariant, PTL

\* The quota implements the meter, step by step.
THEOREM QuotaImplementsMeter == Spec => MeterSpec
<1>1. Init => Meter!Init
  BY SumsInitially
<1>2. SumInv /\ [Next]_vars => [Meter!Next]_(Meter!vars)
  BY SumsPreserved
<1> QED
  BY <1>1, <1>2, SumInvariant, PTL DEF Spec, MeterSpec, Meter!Spec

\* The meter is never oversold: with the shapes its arithmetic needs, its promise
\* is inductive.
MeterInv == Meter!MeterTypeOK /\ Meter!NeverOversold

THEOREM MeterNeverOversold == MeterSpec => []MeterInv
<1> DEFINE used == IF usage = None THEN 0 ELSE usage.count
           over == Total(late)
           held == IF usage = None THEN 0 ELSE Total(Live(usage.month, now))
<1> USE DEF MeterInv, Meter!MeterTypeOK, Meter!NeverOversold
<1>0. Limit \in Nat /\ Amounts \subseteq Nat
  BY QuotaAssumption
<1>1. Meter!Init => MeterInv
  BY <1>0 DEF Meter!Init
<1>2. MeterInv /\ [Meter!Next]_(Meter!vars) => MeterInv'
  <2> SUFFICES ASSUME MeterInv, [Meter!Next]_(Meter!vars) PROVE MeterInv'
    OBVIOUS
  <2>1. used \in Nat /\ over \in Nat /\ held \in Nat /\ used + held <= Limit + over
    OBVIOUS
  <2>2. ASSUME NEW a \in Amounts, Meter!Hold(a) \/ Meter!Charge(a) \/ Meter!ChargeLate(a)
        PROVE  MeterInv'
    <3>1. a \in Nat
      BY <1>0
    <3>2. \/ /\ used + held + a <= Limit + over /\ held' = held + a
             /\ used' = used /\ over' = over
          \/ a <= held /\ used' = used + a /\ held' = held - a /\ over' = over
          \/ used' = used + a /\ over' = over + a /\ held' = held
      BY <2>2 DEF Meter!Hold, Meter!Charge, Meter!ChargeLate
    <3> HIDE DEF used, over, held
    <3>3. used' \in Nat /\ over' \in Nat /\ held' \in Nat /\ used' + held' <= Limit + over'
      BY <1>0, <2>1, <3>1, <3>2
    <3> QED
      BY <3>3 DEF used, over, held
  <2>3. ASSUME Meter!Lapse \/ Meter!Restart \/ UNCHANGED Meter!vars PROVE MeterInv'
    <3>1. \/ used' = used /\ over' = over /\ held' \in 0..held
          \/ used' = 0 /\ over' = 0 /\ held' \in 0..Limit
          \/ used' = used /\ over' = over /\ held' = held
      BY <2>3 DEF Meter!Lapse, Meter!Restart, Meter!vars
    <3> HIDE DEF used, over, held
    <3>2. used' \in Nat /\ over' \in Nat /\ held' \in Nat /\ used' + held' <= Limit + over'
      BY <1>0, <2>1, <3>1
    <3> QED
      BY <3>2 DEF used, over, held
  <2> QED
    BY <2>2, <2>3 DEF Meter!Next
<1> QED
  BY <1>1, <1>2, PTL DEF MeterSpec, Meter!Spec

\* Only uploads charged after their reservation expired can take a month past
\* the plan: the quota implements the meter, and the meter is never oversold.
THEOREM OnlyLateOverrunHolds == Spec => []OnlyLateOverrun
<1>1. SumInv /\ MeterInv => OnlyLateOverrun
  <2> SUFFICES ASSUME SumInv, MeterInv, usage # None
               PROVE  usage.count - Total(late) + Total(Live(usage.month, now)) <= Limit
    BY DEF OnlyLateOverrun
  <2>1. usage.count \in Nat /\ Total(late) \in Nat /\ Total(Live(usage.month, now)) \in Nat
    BY DEF MeterInv, Meter!MeterTypeOK
  <2>2. usage.count + Total(Live(usage.month, now)) <= Limit + Total(late)
    BY DEF MeterInv, Meter!NeverOversold
  <2> QED
    BY <2>1, <2>2, QuotaAssumption
<1> QED
  BY <1>1, SumInvariant, QuotaImplementsMeter, MeterNeverOversold, PTL
=============================================================================
