--------------------------- MODULE TradeLifecycle ---------------------------
(***************************************************************************)
(* The governed paper trading lifecycle of one portfolio as the code runs  *)
(* it: any number of request handlers ("sessions"), each a TypeScript      *)
(* service that reads a row without a lock, checks it, and then calls a    *)
(* plpgsql function that runs as one READ COMMITTED transaction.  Within a *)
(* transaction every statement has its own snapshot, so each SELECT of the *)
(* risk evaluation is a step of its own; nothing a transaction writes is   *)
(* visible before it commits, so all its writes are one step.  The locks   *)
(* are the portfolio's advisory lock and the FOR UPDATE row locks.         *)
(*                                                                         *)
(* The rows (intents, decisions, positions, signals) are PaperLedger's.    *)
(* An operator named Faulty... is never used by the specification: it is   *)
(* the definition after it with a bug seeded in, and shows, when it takes  *)
(* that definition's place, that a property would notice the bug.          *)
(***************************************************************************)
EXTENDS PaperLedger, FiniteSetsExt

CONSTANTS
  Sessions,      \* concurrent request handlers
  BaseCapitals,  \* values portfolios.base_capital_usd may be set to
  DailyLimit,    \* risk rule max_daily_simulated_loss
  WeeklyLimit,   \* risk rule max_weekly_simulated_loss
  Day, Week,     \* the two P&L windows, in clock ticks
  MaxTime        \* bound on the clock

ASSUME LifecycleAssumption ==
  /\ BaseCapitals \subseteq Nat
  /\ {DailyLimit, WeeklyLimit, Day, Week, MaxTime} \subseteq Nat
  /\ Day <= Week
  /\ Leverages \subseteq Nat \ {0}
  /\ None \notin Sessions \cup Positions \cup Sides

VARIABLES
  closedAt,       \* paper_positions.closed_at
  reviews,        \* realized result of each approved close review of a position
  audit,          \* the audit_ledger, as <<event type, subject>> pairs
  base,           \* portfolios.base_capital_usd
  now,            \* the database clock
  portfolioLock,  \* holder of the portfolio's advisory lock
  intentLock,     \* holder of each trade_intents row lock
  positionLock,   \* holder of each paper_positions row lock
  signalLock,     \* holder of each paper_signal_recommendations row lock
  pc,             \* where each session is
  req,            \* what each session was asked, and the row it works on
  snap,           \* what a risk evaluation has read so far
  granted         \* history: the base capital the last approval was checked against

book == <<closedAt, reviews, audit, base, now>>
locks == <<portfolioLock, intentLock, positionLock, signalLock>>
local == <<pc, req, snap>>
vars == <<intents, decisions, positions, signals, closedAt, reviews, audit, base, now,
          portfolioLock, intentLock, positionLock, signalLock, pc, req, snap, granted>>

NoRequest == [row |-> NoIntent, intent |-> None, signal |-> None,
              position |-> None, price |-> 0, at |-> 0]
\* closedAtBook is history: the positions closed when the open book was read.
NoSnapshot == [base |-> 0, exposure |-> 0, open |-> 0, daily |-> 0, weekly |-> 0,
               closedAtBook |-> {}]

Init ==
  /\ LedgerInit
  /\ closedAt = [p \in Positions |-> 0]
  /\ reviews = [p \in Positions |-> <<>>]
  /\ audit = {}
  /\ base \in BaseCapitals
  /\ now = 0
  /\ portfolioLock = None
  /\ intentLock = [i \in Intents |-> None]
  /\ positionLock = [p \in Positions |-> None]
  /\ signalLock = [g \in Signals |-> None]
  /\ pc = [s \in Sessions |-> "idle"]
  /\ req = [s \in Sessions |-> NoRequest]
  /\ snap = [s \in Sessions |-> NoSnapshot]
  /\ granted = 0

(***************************************************************************)
(* Session bookkeeping.                                                    *)
(***************************************************************************)

\* A handler with nothing left to check calls its function: r is its request.
Call(s, r, next) ==
  /\ pc[s] = "idle"
  /\ pc' = [pc EXCEPT ![s] = next]
  /\ req' = [req EXCEPT ![s] = [r EXCEPT !.at = now]]

\* The transaction of s ends: its locks go and the handler returns.
Release(s) ==
  /\ portfolioLock' = IF portfolioLock = s THEN None ELSE portfolioLock
  /\ intentLock' = [i \in Intents |-> IF intentLock[i] = s THEN None ELSE intentLock[i]]
  /\ positionLock' = [p \in Positions |-> IF positionLock[p] = s THEN None ELSE positionLock[p]]
  /\ signalLock' = [g \in Signals |-> IF signalLock[g] = s THEN None ELSE signalLock[g]]
  /\ pc' = [pc EXCEPT ![s] = "idle"]
  /\ req' = [req EXCEPT ![s] = NoRequest]
  /\ snap' = [snap EXCEPT ![s] = NoSnapshot]

\* An exception raised by the function, a statement timeout or a lost
\* connection: everything the transaction wrote is gone.
Rollback(s) ==
  /\ Release(s)
  /\ UNCHANGED <<ledger, book, granted>>

Abort(s) == pc[s] # "idle" /\ Rollback(s)

Goto(s, stage) == pc' = [pc EXCEPT ![s] = stage]

(***************************************************************************)
(* Risk evaluation: a manual intent, or a draft submitted for review.      *)
(***************************************************************************)

\* Bound: no more rows are being created than there are identities left.
Creating == {t \in Sessions : pc[t] # "idle" /\ req[t].intent = None /\ req[t].position = None}
RowsLeft == Cardinality({i \in Intents : intents[i].status = "none"}) > Cardinality(Creating)

CreateTradeIntent(s) ==
  /\ RowsLeft
  /\ \E r \in ManualRequests :
       Call(s, [NoRequest EXCEPT !.row = r], "lockPortfolio")
  /\ UNCHANGED <<ledger, book, locks, snap, granted>>

SubmitDraftForReview(s, i) ==
  /\ intents[i].status = "draft"
  /\ Call(s, [NoRequest EXCEPT !.intent = i], "lockPortfolio")
  /\ UNCHANGED <<ledger, book, locks, snap, granted>>

FaultyPortfolioFree == TRUE          \* no advisory lock
PortfolioFree == portfolioLock = None
AcquirePortfolioLock(s) ==
  /\ pc[s] = "lockPortfolio" /\ PortfolioFree
  /\ portfolioLock' = s
  /\ Goto(s, IF req[s].intent = None THEN "readBase" ELSE "lockDraft")
  /\ UNCHANGED <<ledger, book, intentLock, positionLock, signalLock, req, snap, granted>>

FaultySubmittable(i) == TRUE         \* the function trusts the service's check
Submittable(i) == intents[i].status = "draft"
LockDraft(s) ==
  LET i == req[s].intent IN
  /\ pc[s] = "lockDraft" /\ intentLock[i] = None
  /\ Submittable(i)
  /\ intentLock' = [intentLock EXCEPT ![i] = s]
  /\ req' = [req EXCEPT ![s].row = intents[i]]
  /\ Goto(s, "readBase")
  /\ UNCHANGED <<ledger, book, portfolioLock, positionLock, signalLock, snap, granted>>

SubmitRefused(s) ==
  LET i == req[s].intent IN
  /\ pc[s] = "lockDraft" /\ intentLock[i] = None
  /\ ~Submittable(i)
  /\ Rollback(s)

ReadBaseCapital(s) ==
  /\ pc[s] = "readBase"
  /\ snap' = [snap EXCEPT ![s].base = base]
  /\ Goto(s, "readBook")
  /\ UNCHANGED <<ledger, book, locks, req, granted>>

EntryNotional(S) == MapThenSumSet(LAMBDA p : positions[p].entry, S)
RealizedPnl(S) == MapThenSumSet(LAMBDA p : positions[p].realized, S)

ReadOpenBook(s) ==
  /\ pc[s] = "readBook"
  /\ snap' = [snap EXCEPT ![s].exposure = EntryNotional(Open),
                          ![s].open = Cardinality(Open),
                          ![s].closedAtBook = Closed]
  /\ Goto(s, "readPnl")
  /\ UNCHANGED <<ledger, book, locks, req, granted>>

\* Positions closed in the window of length w that ends when s began.
FaultyClosedWithin(s, w) == {p \in Closed : closedAt[p] + w > req[s].at}
ClosedWithin(s, w) == {p \in Closed : closedAt[p] + w >= req[s].at}

ReadRealizedPnl(s) ==
  /\ pc[s] = "readPnl"
  /\ snap' = [snap EXCEPT ![s].daily = RealizedPnl(ClosedWithin(s, Day)),
                          ![s].weekly = RealizedPnl(ClosedWithin(s, Week))]
  /\ Goto(s, "decide")
  /\ UNCHANGED <<ledger, book, locks, req, granted>>

\* The six Level 1 rules on row r and what was read, k.  Dividing by
\* nullif(base, 0) makes the exposure rule NULL when the base capital is zero,
\* and a NULL verdict is a rejection.
NoLeverage(r) == r.leverage = 1
FaultyNoRealShorts(r) == TRUE
NoRealShorts(r) == r.side # "sell"
FaultyWithinExposure(r, k) == 10 * k.exposure <= 6 * k.base   \* without the new order
WithinExposure(r, k) == k.base # 0 /\ 10 * (k.exposure + r.notional) <= 6 * k.base
WithinLosses(k) == k.daily > -DailyLimit /\ k.weekly > -WeeklyLimit
FaultyRoomToOpen(k) == k.open <= MaxOpen
RoomToOpen(k) == k.open < MaxOpen

LevelOneRules(r, k) ==
  NoLeverage(r) /\ NoRealShorts(r) /\ WithinExposure(r, k) /\ WithinLosses(k) /\ RoomToOpen(k)

\* The row the verdict is written to: the locked draft, or a fresh row.
Subject(s, i) ==
  IF req[s].intent = None THEN intents[i].status = "none" ELSE i = req[s].intent

\* An event type the ledger's CHECK constraint does not list.
FaultyEvidence(s, i) == {<<"trade_intent_resubmitted", i>>}
Evidence(s, i) ==
  IF req[s].intent = None
    THEN {<<"trade_intent_created", i>>}
    ELSE {<<"trade_intent_submitted_for_review", i>>}

DecideRejected(s) ==
  /\ pc[s] = "decide"
  /\ ~LevelOneRules(req[s].row, snap[s])
  /\ \E i \in Intents :
       /\ Subject(s, i)
       /\ intents' = [intents EXCEPT ![i] = [req[s].row EXCEPT !.status = "rejected"]]
       /\ decisions' = [decisions EXCEPT ![i] = Append(@, "rejected")]
       /\ audit' = audit \cup Evidence(s, i) \cup {<<"trade_decision_rejected", i>>}
  /\ Release(s)
  /\ UNCHANGED <<positions, signals, closedAt, reviews, base, now, granted>>

DecideApproved(s) ==
  /\ pc[s] = "decide"
  /\ LevelOneRules(req[s].row, snap[s])
  /\ \E i \in Intents, p \in Positions :
       /\ Subject(s, i)
       /\ positions[p].status = "none"
       /\ intents' = [intents EXCEPT ![i] = [req[s].row EXCEPT !.status = "approved"]]
       /\ decisions' = [decisions EXCEPT ![i] = Append(@, "approved")]
       /\ positions' = [positions EXCEPT ![p] =
            [status |-> "open", intent |-> i, entry |-> req[s].row.notional,
             current |-> req[s].row.notional, realized |-> 0]]
       /\ audit' = audit \cup Evidence(s, i)
                         \cup {<<"trade_decision_approved", i>>, <<"position_opened", p>>}
  /\ granted' = snap[s].base
  /\ Release(s)
  /\ UNCHANGED <<signals, closedAt, reviews, base, now>>

(***************************************************************************)
(* Drafts: made from a signal, withdrawn.                                  *)
(***************************************************************************)

ConvertSignal(s, g) ==
  /\ RowsLeft
  /\ signals[g].convertible /\ signals[g].converted = None
  /\ Call(s, [NoRequest EXCEPT !.signal = g], "lockSignal")
  /\ UNCHANGED <<ledger, book, locks, snap, granted>>

FaultyConvertible(g) == signals[g].convertible   \* the marker is not checked again
Convertible(g) == signals[g].convertible /\ signals[g].converted = None
LockSignal(s) ==
  LET g == req[s].signal IN
  /\ pc[s] = "lockSignal" /\ signalLock[g] = None
  /\ Convertible(g)
  /\ signalLock' = [signalLock EXCEPT ![g] = s]
  /\ Goto(s, "convert")
  /\ UNCHANGED <<ledger, book, portfolioLock, intentLock, positionLock, req, snap, granted>>

ConvertRefused(s) ==
  LET g == req[s].signal IN
  /\ pc[s] = "lockSignal" /\ signalLock[g] = None
  /\ ~Convertible(g)
  /\ Rollback(s)

CreateDraft(s) ==
  LET g == req[s].signal IN
  /\ pc[s] = "convert"
  /\ \E i \in Intents :
       /\ intents[i].status = "none"
       /\ intents' = [intents EXCEPT ![i] =
            [status |-> "draft", side |-> "buy", leverage |-> 1,
             notional |-> signals[g].notional, signal |-> g]]
       /\ signals' = [signals EXCEPT ![g].converted = i]
       /\ audit' = audit \cup {<<"signal_converted_to_draft_trade_intent", i>>}
  /\ Release(s)
  /\ UNCHANGED <<decisions, positions, closedAt, reviews, base, now, granted>>

CancelDraft(s, i) ==
  /\ intents[i].status = "draft"
  /\ Call(s, [NoRequest EXCEPT !.intent = i], "lockCancel")
  /\ UNCHANGED <<ledger, book, locks, snap, granted>>

FaultyCancellable(i) == PositionsOf(i) = {}       \* the status is not checked again
Cancellable(i) == intents[i].status = "draft" /\ PositionsOf(i) = {}
LockForCancel(s) ==
  LET i == req[s].intent IN
  /\ pc[s] = "lockCancel" /\ intentLock[i] = None
  /\ Cancellable(i)
  /\ intentLock' = [intentLock EXCEPT ![i] = s]
  /\ Goto(s, "cancel")
  /\ UNCHANGED <<ledger, book, portfolioLock, positionLock, signalLock, req, snap, granted>>

CancelRefused(s) ==
  LET i == req[s].intent IN
  /\ pc[s] = "lockCancel" /\ intentLock[i] = None
  /\ ~Cancellable(i)
  /\ Rollback(s)

\* Waits for the signal row, then writes and commits.  Withdrawing a draft
\* that waited for the portfolio too would wait behind a submission that waits
\* for this very draft.
FaultyReadyToWithdraw(g) == (g \in Signals => signalLock[g] = None) /\ portfolioLock = None
ReadyToWithdraw(g) == g \in Signals => signalLock[g] = None
WithdrawDraft(s) ==
  LET i == req[s].intent
      g == intents[i].signal
  IN
  /\ pc[s] = "cancel"
  /\ ReadyToWithdraw(g)
  /\ intents' = [intents EXCEPT ![i].status = "cancelled"]
  /\ signals' = [h \in Signals |->
       IF h = g /\ signals[h].converted = i
       THEN [signals[h] EXCEPT !.converted = None] ELSE signals[h]]
  /\ audit' = audit \cup {<<"draft_trade_intent_cancelled", i>>}
  /\ Release(s)
  /\ UNCHANGED <<decisions, positions, closedAt, reviews, base, now, granted>>

(***************************************************************************)
(* Open positions: marked, closed by review, closed directly.              *)
(***************************************************************************)

FaultyMarkable(p) == positions[p].status # "none"
Markable(p) == positions[p].status = "open"
MarkPosition(p, v) ==
  /\ positionLock[p] = None
  /\ Markable(p)
  /\ positions' = [positions EXCEPT ![p].current = v]
  /\ audit' = audit \cup {<<"position_marked_to_market", p>>}
  /\ UNCHANGED <<intents, decisions, signals, closedAt, reviews, base, now, locks, local,
                 granted>>

RequestCloseReview(s, p) ==
  /\ positions[p].status = "open"
  /\ Call(s, [NoRequest EXCEPT !.position = p], "lockReview")
  /\ UNCHANGED <<ledger, book, locks, snap, granted>>

CloseRequested(s, p, v) ==
  /\ positions[p].status = "open"
  /\ Call(s, [NoRequest EXCEPT !.position = p, !.price = v], "lockClose")
  /\ UNCHANGED <<ledger, book, locks, snap, granted>>

Closable(p) == positions[p].status = "open"
FaultyReviewable(p) == reviews[p] = <<>>          \* the status is not checked again
Reviewable(p) == Closable(p) /\ reviews[p] = <<>>

LockForReview(s) ==
  LET p == req[s].position IN
  /\ pc[s] = "lockReview" /\ positionLock[p] = None
  /\ Reviewable(p)
  /\ positionLock' = [positionLock EXCEPT ![p] = s]
  /\ Goto(s, "review")
  /\ UNCHANGED <<ledger, book, portfolioLock, intentLock, signalLock, req, snap, granted>>

\* The advisory lock of the position, taken just before its row and by direct
\* closes alone, keeps nobody out whom the row lock would not.
LockForClose(s) ==
  LET p == req[s].position IN
  /\ pc[s] = "lockClose" /\ positionLock[p] = None
  /\ Closable(p)
  /\ positionLock' = [positionLock EXCEPT ![p] = s]
  /\ Goto(s, "close")
  /\ UNCHANGED <<ledger, book, portfolioLock, intentLock, signalLock, req, snap, granted>>

CloseRefused(s) ==
  LET p == req[s].position IN
  /\ \/ pc[s] = "lockReview" /\ ~Reviewable(p)
     \/ pc[s] = "lockClose" /\ ~Closable(p)
  /\ positionLock[p] = None
  /\ Rollback(s)

\* The close leaves both of its events.
FaultyReviewEvidence(p) == {<<"paper_position_close_review_approved", p>>}
ReviewEvidence(p) == {<<"paper_position_close_review_approved", p>>,
                      <<"paper_position_closed", p>>}

\* The close value is the stored one.  The review's foreign key needs the
\* intent row unlocked; the intent keeps its status.
CloseWithReview(s) ==
  LET p == req[s].position IN
  /\ pc[s] = "review"
  /\ intentLock[positions[p].intent] = None
  /\ positions' = [positions EXCEPT ![p].status = "closed",
       ![p].realized = positions[p].current - positions[p].entry]
  /\ reviews' = [reviews EXCEPT ![p] =
       Append(@, positions[p].current - positions[p].entry)]
  /\ closedAt' = [closedAt EXCEPT ![p] = req[s].at]
  /\ audit' = audit \cup ReviewEvidence(p)
  /\ Release(s)
  /\ UNCHANGED <<intents, decisions, signals, base, now, granted>>

\* The close value is the price the handler fetched; the intent closes too.
CloseDirectly(s) ==
  LET p == req[s].position
      i == positions[p].intent
  IN
  /\ pc[s] = "close"
  /\ intentLock[i] = None
  /\ positions' = [positions EXCEPT ![p].status = "closed", ![p].current = req[s].price,
       ![p].realized = req[s].price - positions[p].entry]
  /\ intents' = [intents EXCEPT ![i].status = "closed"]
  /\ closedAt' = [closedAt EXCEPT ![p] = req[s].at]
  /\ audit' = audit \cup {<<"position_closed", p>>}
  /\ Release(s)
  /\ UNCHANGED <<decisions, signals, reviews, base, now, granted>>

(***************************************************************************)
(* The rest of the world.                                                  *)
(***************************************************************************)

\* The advisor's confirmation sets the base capital without taking any lock.
UpdateBaseCapital(b) ==
  /\ b # base
  /\ base' = b
  /\ UNCHANGED <<ledger, closedAt, reviews, audit, now, locks, local, granted>>

Tick ==
  /\ now < MaxTime
  /\ now' = now + 1
  /\ UNCHANGED <<ledger, closedAt, reviews, audit, base, locks, local, granted>>

Request(s) ==
  \/ CreateTradeIntent(s)
  \/ \E i \in Intents : SubmitDraftForReview(s, i) \/ CancelDraft(s, i)
  \/ \E g \in Signals : ConvertSignal(s, g)
  \/ \E p \in Positions : RequestCloseReview(s, p)
  \/ \E p \in Positions, v \in Valuations : CloseRequested(s, p, v)

Evaluate(s) ==
  \/ AcquirePortfolioLock(s) \/ LockDraft(s) \/ SubmitRefused(s)
  \/ ReadBaseCapital(s) \/ ReadOpenBook(s) \/ ReadRealizedPnl(s)
  \/ DecideRejected(s) \/ DecideApproved(s)

HandleDraft(s) ==
  \/ LockSignal(s) \/ ConvertRefused(s) \/ CreateDraft(s)
  \/ LockForCancel(s) \/ CancelRefused(s) \/ WithdrawDraft(s)

HandleClose(s) ==
  \/ LockForReview(s) \/ LockForClose(s) \/ CloseRefused(s)
  \/ CloseWithReview(s) \/ CloseDirectly(s)

Serve(s) == Evaluate(s) \/ HandleDraft(s) \/ HandleClose(s)

Next ==
  \/ \E s \in Sessions : Request(s) \/ Serve(s) \/ Abort(s)
  \/ \E p \in Positions, v \in Valuations : MarkPosition(p, v)
  \/ \E b \in BaseCapitals : UpdateBaseCapital(b)
  \/ Tick

Spec == Init /\ [][Next]_vars

\* Postgres grants a lock to its waiters in arrival order, and a transaction
\* that can run does run; nothing makes anybody send a request, and nothing
\* makes a transaction fail.
Fairness == \A s \in Sessions : SF_vars(Serve(s))
FairSpec == Spec /\ Fairness

(***************************************************************************)
(* Properties.  OpenLimit, DecidedOnce, PositionPerApproval, SignalClaim,  *)
(* RealizedIsExact and FinalRowsStay are PaperLedger's.                    *)
(***************************************************************************)

Stages == {"idle", "lockPortfolio", "lockDraft", "readBase", "readBook", "readPnl",
           "decide", "lockSignal", "convert", "lockCancel", "cancel",
           "lockReview", "review", "lockClose", "close"}
Events == {"trade_intent_created", "trade_intent_submitted_for_review",
           "trade_decision_approved", "trade_decision_rejected", "position_opened",
           "signal_converted_to_draft_trade_intent", "draft_trade_intent_cancelled",
           "paper_position_close_review_approved", "paper_position_closed",
           "position_closed", "position_marked_to_market"}
RequestRow == [row : IntentRow, intent : Intents \cup {None}, signal : Signals \cup {None},
               position : Positions \cup {None}, price : Valuations \cup {0}, at : Nat]
Snapshot == [base : Nat, exposure : Int, open : Nat, daily : Int, weekly : Int,
             closedAtBook : SUBSET Positions]

\* The variables of the lifecycle keep their shape.
TypeOK ==
  /\ LedgerTypeOK
  /\ closedAt \in [Positions -> Nat]
  /\ reviews \in [Positions -> Seq(Int)]
  /\ audit \subseteq Events \X (Intents \cup Positions)
  /\ base \in Nat /\ now \in Nat /\ granted \in Nat
  /\ portfolioLock \in Sessions \cup {None}
  /\ intentLock \in [Intents -> Sessions \cup {None}]
  /\ positionLock \in [Positions -> Sessions \cup {None}]
  /\ signalLock \in [Signals -> Sessions \cup {None}]
  /\ pc \in [Sessions -> Stages]
  /\ req \in [Sessions -> RequestRow]
  /\ snap \in [Sessions -> Snapshot]

\* Open exposure never exceeds 60% of the base capital the latest approval was
\* checked against, whatever closes, opens and capital changes overlap with the
\* evaluation's separate reads.
ExposureWithinGranted == 10 * EntryNotional(Open) <= 6 * granted

\* When a verdict is about to be written the losses it rests on are real: the
\* totals read are those of every position that was closed when the open book
\* was read, and perhaps of some closed since, each in its window.  A position
\* that leaves the book between the two reads may be in both, but none is seen
\* in neither.
LossesCounted ==
  \A s \in Sessions : pc[s] = "decide" =>
    \E S \in SUBSET Closed :
      /\ snap[s].closedAtBook \subseteq S
      /\ snap[s].daily = RealizedPnl({p \in S : req[s].at - closedAt[p] <= Day})
      /\ snap[s].weekly = RealizedPnl({p \in S : req[s].at - closedAt[p] <= Week})

\* The audit ledger and the rows say the same: an event is there exactly when
\* the row shows the change it records.
IntentEvents ==
  \A i \in Intents :
    LET st == intents[i].status IN
    /\ <<"draft_trade_intent_cancelled", i>> \in audit <=> st = "cancelled"
    /\ <<"trade_decision_approved", i>> \in audit <=> st \in {"approved", "closed"}
    /\ <<"trade_decision_rejected", i>> \in audit <=> st = "rejected"
    /\ <<"trade_intent_submitted_for_review", i>> \in audit
         <=> decisions[i] # <<>> /\ intents[i].signal # None
    /\ <<"trade_intent_created", i>> \in audit
         <=> decisions[i] # <<>> /\ intents[i].signal = None
    /\ <<"signal_converted_to_draft_trade_intent", i>> \in audit
         <=> intents[i].signal # None
PositionEvents ==
  \A p \in Positions :
    /\ <<"position_opened", p>> \in audit <=> positions[p].status # "none"
    /\ <<"position_marked_to_market", p>> \in audit => positions[p].status # "none"
    /\ <<"paper_position_closed", p>> \in audit <=> reviews[p] # <<>>
    /\ <<"paper_position_close_review_approved", p>> \in audit <=> reviews[p] # <<>>
    /\ p \in Closed <=> \/ <<"paper_position_closed", p>> \in audit
                        \/ <<"position_closed", p>> \in audit
LedgerMatchesRows == IntentEvents /\ PositionEvents

\* A close review and its position agree on the result, a position has at most
\* one, and never both a review and a direct close.
ReviewIsTheClose ==
  \A p \in Positions : reviews[p] # <<>> =>
    /\ p \in Closed
    /\ reviews[p] = <<positions[p].realized>>
    /\ <<"position_closed", p>> \notin audit

\* Every request ends: no session waits for ever on another.
RequestsEnd == \A s \in Sessions : pc[s] # "idle" ~> pc[s] = "idle"
=============================================================================
