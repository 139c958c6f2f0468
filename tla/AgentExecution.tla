--------------------------- MODULE AgentExecution ---------------------------
(***************************************************************************)
(* Agent execution requests: the state machine kept in                     *)
(* agent_execution_requests, the preflight, and the adapters that run a    *)
(* request that is ready.  Every change reads the row, asserts the         *)
(* transition on what it read, and updates the row by its id: a handler    *)
(* may write over what others have done since.                             *)
(*                                                                         *)
(* An operator named Faulty... is never used by the specification: it is   *)
(* the definition after it with a bug seeded in.                           *)
(***************************************************************************)
EXTENDS Naturals

CONSTANTS
  None,      \* no row, no value
  Requests,  \* execution requests
  Handlers,  \* calls being served
  MaxRuns    \* bound on the runs counted of a request

VARIABLES
  row,       \* the row of each request
  pc,        \* where each handler is
  on,        \* the request it is about
  to,        \* the state it has found it may write
  outcome,   \* of a preflight, its status; of a run, its mode
  before,    \* history: the state in which it read the request
  runs,      \* adapter executions recorded as succeeded, in memory
  approvals  \* history: the requests somebody approved

vars == <<row, pc, on, to, outcome, before, runs, approvals>>
tables == <<row, runs, approvals>>

Modes == {"dry_run", "draft_only", "approval_required", "approved_execution"}
Risks == {"low", "medium", "high", "critical"}
TRANSITIONS ==
  [draft |-> {"pending_preflight", "cancelled"},
   pending_preflight |-> {"ready_for_execution", "pending_approval", "preflight_failed",
                          "blocked", "cancelled"},
   preflight_failed |-> {"pending_preflight", "cancelled", "expired"},
   blocked |-> {"cancelled", "expired"},
   pending_approval |-> {"approved", "blocked", "cancelled", "expired"},
   approved |-> {"ready_for_execution", "cancelled", "expired"},
   ready_for_execution |-> {"completed", "failed", "cancelled", "expired"},
   executing |-> {"completed", "failed", "cancelled"},
   completed |-> {}, failed |-> {}, cancelled |-> {}, expired |-> {}]
States == DOMAIN TRANSITIONS
FaultyCanTransition(r, s) == s # row[r].state
CanTransition(r, s) == s \in TRANSITIONS[row[r].state]
Final(s) == s \in {"completed", "failed", "cancelled", "expired"}

\* Nothing ever writes two of the states.
Row == [state : States \ {"preflight_failed", "executing"}, mode : Modes, risk : Risks,
        requiresApproval : BOOLEAN, preflight : {"not_started", "passed", "failed"},
        approvalRequestId : {None}]

ASSUME ExecutionAssumption ==
  MaxRuns \in Nat /\ None \notin Requests \cup States \cup Row

Init ==
  /\ row = [r \in Requests |-> None]
  /\ pc = [h \in Handlers |-> "idle"]
  /\ on = [h \in Handlers |-> None]
  /\ to = [h \in Handlers |-> None]
  /\ outcome = [h \in Handlers |-> None]
  /\ runs = [r \in Requests |-> 0]
  /\ before = [h \in Handlers |-> None]
  /\ approvals = {}

Goto(h, stage, r, s, o) ==
  /\ pc' = [pc EXCEPT ![h] = stage]
  /\ on' = [on EXCEPT ![h] = r]
  /\ to' = [to EXCEPT ![h] = s]
  /\ outcome' = [outcome EXCEPT ![h] = o]
  /\ before' = [before EXCEPT ![h] = IF s = None THEN None ELSE row[r].state]
Answer(h) == Goto(h, "idle", None, None, None)

CreateRequest(r, mode, risk) ==
  /\ row[r] = None
  /\ row' = [row EXCEPT ![r] =
       [state |-> "draft", mode |-> mode, risk |-> risk, requiresApproval |-> FALSE,
        preflight |-> "not_started", approvalRequestId |-> None]]
  /\ UNCHANGED <<pc, on, to, outcome, before, runs, approvals>>

\* One update of a row by its id.
Write(r, s, new) ==
  /\ row' = [row EXCEPT ![r] = new]
  /\ approvals' = IF s = "approved" THEN approvals \cup {r} ELSE approvals
  /\ UNCHANGED runs

(***************************************************************************)
(* Approve, mark ready, cancel, expire, fail and the two completions.  A   *)
(* preflight of an overdue request does what expire does.                  *)
(***************************************************************************)

Operations == {"approved", "ready_for_execution", "cancelled", "expired", "failed", "completed"}

ReadForOperation(h, r, s) ==
  /\ pc[h] = "idle" /\ row[r] # None
  /\ s = "completed" => row[r].mode \in {"dry_run", "draft_only"}
  /\ CanTransition(r, s)
  /\ Goto(h, "write", r, s, None)
  /\ UNCHANGED tables

WriteState(h) ==
  /\ pc[h] = "write"
  /\ Write(on[h], to[h], [row[on[h]] EXCEPT !.state = to[h]])
  /\ Answer(h)

(***************************************************************************)
(* The preflight: one update to pending_preflight, and one for the verdict.*)
(***************************************************************************)

ReadForPreflight(h, r) ==
  /\ pc[h] = "idle" /\ row[r] # None
  /\ CanTransition(r, "pending_preflight")
  /\ Goto(h, "start", r, "pending_preflight", None)
  /\ UNCHANGED tables

StartPreflight(h) ==
  /\ pc[h] = "start"
  /\ Write(on[h], to[h], [row[on[h]] EXCEPT !.state = to[h]])
  /\ Goto(h, "check", on[h], None, None)

RiskNeedsApproval(r) ==
  row[r].risk \in {"high", "critical"} \/ row[r].mode = "approval_required"
FaultyVerdict(r, preflight) ==
  IF preflight = "failed" THEN "preflight_failed"
  ELSE IF RiskNeedsApproval(r) THEN "pending_approval" ELSE "ready_for_execution"
Verdict(r, preflight) ==
  IF preflight = "failed" THEN "blocked"
  ELSE IF RiskNeedsApproval(r) THEN "pending_approval" ELSE "ready_for_execution"

\* It passes when the tool is registered.
ReadForVerdict(h, preflight) ==
  /\ pc[h] = "check"
  /\ LET s == Verdict(on[h], preflight)
     IN  IF CanTransition(on[h], s) THEN Goto(h, "verdict", on[h], s, preflight) ELSE Answer(h)
  /\ UNCHANGED tables

FaultyWithVerdict(r, s, preflight) == [row[r] EXCEPT !.state = s, !.preflight = preflight]
WithVerdict(r, s, preflight) ==
  [row[r] EXCEPT !.state = s, !.preflight = preflight, !.requiresApproval = RiskNeedsApproval(r)]

WriteVerdict(h) ==
  /\ pc[h] = "verdict"
  /\ Write(on[h], to[h], WithVerdict(on[h], to[h], outcome[h]))
  /\ Answer(h)

(***************************************************************************)
(* The adapters.                                                           *)
(***************************************************************************)

Adapters ==
  {[modes |-> {"dry_run"}, riskPolicy |-> "medium_or_lower"],
   [modes |-> {"dry_run", "draft_only"}, riskPolicy |-> "medium_or_lower"],
   [modes |-> {"dry_run", "draft_only"}, riskPolicy |-> "high_with_approval"]}

FaultyApprovalOnFile(x) == x.requiresApproval
ApprovalOnFile(x) == x.requiresApproval /\ x.approvalRequestId # None
Eligible(a, x) ==
  /\ x.state = "ready_for_execution"
  /\ x.mode \in a.modes
  /\ x.risk # "critical"
  /\ x.risk = "high" => a.riskPolicy = "high_with_approval" /\ ApprovalOnFile(x)
EffectiveMode(x, forceDryRun) == IF forceDryRun THEN "dry_run" ELSE x.mode

\* A refusal leaves nothing but a record of it.
ReadForRun(h, r, a, forceDryRun) ==
  /\ pc[h] = "idle" /\ row[r] # None
  /\ EffectiveMode(row[r], forceDryRun) \in {"dry_run", "draft_only"}
  /\ Eligible(a, row[r])
  /\ Goto(h, "run", r, None, EffectiveMode(row[r], forceDryRun))
  /\ UNCHANGED tables

\* The output is generated, or generating it fails; the request is to be
\* completed in either case.
RunAdapter(h) ==
  /\ pc[h] = "run" /\ runs[on[h]] < MaxRuns
  /\ \E n \in {0, 1} : runs' = [runs EXCEPT ![on[h]] = @ + n]
  /\ Goto(h, "ran", on[h], None, outcome[h])
  /\ UNCHANGED <<row, approvals>>

\* A completion that is refused is ignored, as for a draft that was run dry.
ReadForCompletion(h) ==
  /\ pc[h] = "ran"
  /\ IF row[on[h]].mode = outcome[h] /\ CanTransition(on[h], "completed")
     THEN Goto(h, "write", on[h], "completed", None)
     ELSE Answer(h)
  /\ UNCHANGED tables

\* A call ends early: a query fails, or the process stops.
Abort(h) == pc[h] # "idle" /\ Answer(h) /\ UNCHANGED tables

Next ==
  \/ \E r \in Requests, mode \in Modes, risk \in Risks : CreateRequest(r, mode, risk)
  \/ \E h \in Handlers :
       \/ \E r \in Requests :
            \/ \E s \in Operations : ReadForOperation(h, r, s)
            \/ ReadForPreflight(h, r)
            \/ \E a \in Adapters, force \in BOOLEAN : ReadForRun(h, r, a, force)
       \/ \E preflight \in {"passed", "failed"} : ReadForVerdict(h, preflight)
       \/ WriteState(h) \/ StartPreflight(h) \/ WriteVerdict(h)
       \/ RunAdapter(h) \/ ReadForCompletion(h) \/ Abort(h)

Spec == Init /\ [][Next]_vars

(***************************************************************************)
(* Properties.                                                             *)
(***************************************************************************)

Stages == {"idle", "write", "start", "check", "verdict", "run", "ran"}

\* Every variable keeps its shape.
TypeOK ==
  /\ row \in [Requests -> Row \cup {None}]
  /\ pc \in [Handlers -> Stages]
  /\ on \in [Handlers -> Requests \cup {None}]
  /\ to \in [Handlers -> States \cup {None}]
  /\ outcome \in [Handlers -> Modes \cup {"passed", "failed", None}]
  /\ before \in [Handlers -> States \cup {None}]
  /\ runs \in [Requests -> Nat]
  /\ approvals \subseteq Requests

\* Whatever overlaps and whoever marks it ready, a request of high or critical
\* risk is never run without an approval, and one that asks for approval or is
\* meant to be executed for real is never run at all.
RunsWereAllowed ==
  \A r \in Requests :
    runs[r] > 0 =>
      /\ row[r].risk \in {"high", "critical"} => r \in approvals
      /\ row[r].mode \in {"dry_run", "draft_only"}

\* An approval is awaited, or was given, only where the preflight asked for it.
ApprovalWasAsked ==
  \A r \in Requests :
    row[r] # None =>
      /\ row[r].state \in {"pending_approval", "approved"} => row[r].requiresApproval
      /\ r \in approvals => row[r].requiresApproval
      /\ row[r].requiresApproval => RiskNeedsApproval(r)

\* A request that is completed, failed, cancelled or expired changes again only
\* by the write of a handler that read it before it was.
FinalUnlessStale ==
  [][\A r \in Requests :
       row[r] # None /\ Final(row[r].state) /\ row'[r] # row[r]
         => \E h \in Handlers :
              /\ on[h] = r /\ pc'[h] # pc[h]
              /\ before[h] # None /\ ~Final(before[h])]_vars
=============================================================================
