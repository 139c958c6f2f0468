---------------------------- MODULE PaperLedger ----------------------------
(***************************************************************************)
(* What the governed paper trading subsystem promises, with no sessions,   *)
(* locks or stale reads: the rows of trade_intents, trade_decisions,       *)
(* paper_positions and paper_signal_recommendations of one portfolio, and  *)
(* the atomic steps by which they may change.  TradeLifecycle, which has   *)
(* the sessions, the locks and the statement-by-statement reads of the SQL *)
(* functions, implements this module (see Refines there).                  *)
(***************************************************************************)
EXTENDS Integers, Sequences, FiniteSets

CONSTANTS
  Intents,     \* identities trade_intents rows can take
  Signals,     \* the paper_signal_recommendations rows
  Positions,   \* identities paper_positions rows can take
  Sides,       \* trade directions a request may ask for
  Leverages,   \* leverage a request may ask for
  Notionals,   \* order sizes, in whole units of account
  Valuations,  \* values a position may be marked to
  MaxOpen,     \* risk rule max_open_positions
  None         \* the SQL null

ASSUME LedgerAssumption ==
  /\ MaxOpen \in Nat
  /\ Notionals \subseteq Nat \ {0}
  /\ Valuations \subseteq Nat \ {0}
  /\ "buy" \in Sides /\ Sides \subseteq {"buy", "sell"}
  /\ 1 \in Leverages
  /\ IsFiniteSet(Positions)
  /\ None \notin Intents \cup Signals

VARIABLES
  intents,    \* row of each trade intent
  decisions,  \* trade_decisions rows of each intent, in insertion order
  positions,  \* row of each paper position
  signals     \* row of each signal recommendation

ledger == <<intents, decisions, positions, signals>>

(***************************************************************************)
(* Rows.  A row that does not exist yet has status "none".  'pending' is a *)
(* value of the status column no other transaction can ever read: the      *)
(* function that writes it overwrites it before it commits.                *)
(***************************************************************************)
IntentStatus == {"none", "draft", "approved", "rejected", "closed", "cancelled"}
PositionStatus == {"none", "open", "closed"}
Verdicts == {"approved", "rejected"}

IntentRow == [status : IntentStatus, side : Sides \cup {None},
              leverage : Leverages \cup {0}, notional : Notionals \cup {0},
              signal : Signals \cup {None}]
PositionRow == [status : PositionStatus, intent : Intents \cup {None},
                entry : Nat, current : Nat, realized : Int]
SignalRow == [convertible : BOOLEAN, notional : Notionals,
              converted : Intents \cup {None}]

NoIntent == [status |-> "none", side |-> None, leverage |-> 0,
             notional |-> 0, signal |-> None]
ManualRequests == [status : {"none"}, side : Sides, leverage : Leverages,
                   notional : Notionals, signal : {None}]
NoPosition == [status |-> "none", intent |-> None, entry |-> 0,
               current |-> 0, realized |-> 0]

Open == {p \in Positions : positions[p].status = "open"}
Closed == {p \in Positions : positions[p].status = "closed"}
PositionsOf(i) == {p \in Positions : positions[p].intent = i}

LedgerInit ==
  /\ intents = [i \in Intents |-> NoIntent]
  /\ decisions = [i \in Intents |-> <<>>]
  /\ positions = [p \in Positions |-> NoPosition]
  /\ signals \in [Signals -> {r \in SignalRow : r.converted = None}]

(***************************************************************************)
(* Steps.                                                                  *)
(***************************************************************************)

\* A convertible signal nobody has claimed becomes a draft.
Draft(i, g) ==
  /\ intents[i].status = "none"
  /\ signals[g].convertible /\ signals[g].converted = None
  /\ intents' = [intents EXCEPT ![i] =
       [status |-> "draft", side |-> "buy", leverage |-> 1,
        notional |-> signals[g].notional, signal |-> g]]
  /\ signals' = [signals EXCEPT ![g].converted = i]
  /\ UNCHANGED <<decisions, positions>>

\* The rows intent i can be decided from: its own draft, or a fresh request.
Candidates(i) ==
  CASE intents[i].status = "draft" -> {intents[i]}
    [] intents[i].status = "none" -> ManualRequests
    [] OTHER -> {}

\* The risk engine's verdict is recorded, and only an approval opens a position.
Reject(i, r) ==
  /\ r \in Candidates(i)
  /\ intents' = [intents EXCEPT ![i] = [r EXCEPT !.status = "rejected"]]
  /\ decisions' = [decisions EXCEPT ![i] = Append(@, "rejected")]
  /\ UNCHANGED <<positions, signals>>

Approve(i, r, p) ==
  /\ r \in Candidates(i)
  /\ r.side = "buy" /\ r.leverage = 1
  /\ Cardinality(Open) < MaxOpen
  /\ positions[p].status = "none"
  /\ intents' = [intents EXCEPT ![i] = [r EXCEPT !.status = "approved"]]
  /\ decisions' = [decisions EXCEPT ![i] = Append(@, "approved")]
  /\ positions' = [positions EXCEPT ![p] =
       [status |-> "open", intent |-> i, entry |-> r.notional,
        current |-> r.notional, realized |-> 0]]
  /\ UNCHANGED signals

\* A draft is withdrawn and the signal it came from becomes free again.
Withdraw(i) ==
  /\ intents[i].status = "draft"
  /\ intents' = [intents EXCEPT ![i].status = "cancelled"]
  /\ signals' = [g \in Signals |->
       IF g = intents[i].signal /\ signals[g].converted = i
       THEN [signals[g] EXCEPT !.converted = None] ELSE signals[g]]
  /\ UNCHANGED <<decisions, positions>>

Mark(p, v) ==
  /\ positions[p].status = "open"
  /\ positions' = [positions EXCEPT ![p].current = v]
  /\ UNCHANGED <<intents, decisions, signals>>

\* A position closes once, at value v; the realized result is fixed here.
\* Of the two closing paths only the direct one also closes the intent.
Close(p, v) ==
  /\ positions[p].status = "open"
  /\ positions' = [positions EXCEPT
       ![p].status = "closed", ![p].current = v,
       ![p].realized = v - positions[p].entry]
  /\ intents' \in {intents,
                   [intents EXCEPT ![positions[p].intent].status = "closed"]}
  /\ UNCHANGED <<decisions, signals>>

LedgerNext ==
  \/ \E i \in Intents, g \in Signals : Draft(i, g)
  \/ \E i \in Intents : \E r \in Candidates(i) : Reject(i, r)
  \/ \E i \in Intents : \E r \in Candidates(i) :
       \E p \in Positions : Approve(i, r, p)
  \/ \E i \in Intents : Withdraw(i)
  \/ \E p \in Positions, v \in Valuations : Mark(p, v)
  \/ \E p \in Positions : \E v \in Valuations \cup {positions[p].current} :
       Close(p, v)

LedgerSpec == LedgerInit /\ [][LedgerNext]_ledger

(***************************************************************************)
(* Properties.                                                             *)
(***************************************************************************)

\* Every row keeps the shape its table's columns and CHECKs give it.
LedgerTypeOK ==
  /\ intents \in [Intents -> IntentRow]
  /\ decisions \in [Intents -> Seq(Verdicts)]
  /\ positions \in [Positions -> PositionRow]
  /\ signals \in [Signals -> SignalRow]

\* However many requests are in flight, no more than MaxOpen positions are
\* ever open: "No more than 3 paper positions may be open at once".
OpenLimit == Cardinality(Open) <= MaxOpen

\* An intent is decided at most once and its status says what was decided:
\* a draft, and a withdrawn one, was never put to the risk engine at all.
DecidedOnce ==
  \A i \in Intents :
    decisions[i] = CASE intents[i].status \in {"approved", "closed"} -> <<"approved">>
                     [] intents[i].status = "rejected" -> <<"rejected">>
                     [] OTHER -> <<>>

\* A position exists only for an intent the engine approved, was opened at the
\* approved size, long and unlevered; an approved intent has exactly one.
PositionPerApproval ==
  /\ \A p \in Positions : positions[p].status # "none" =>
       LET i == positions[p].intent IN
         /\ i \in Intents
         /\ intents[i].status \in {"approved", "closed"}
         /\ intents[i].side = "buy" /\ intents[i].leverage = 1
         /\ positions[p].entry = intents[i].notional
         /\ \A q \in PositionsOf(i) : q = p
  /\ \A i \in Intents : intents[i].status \in {"approved", "closed"} =>
       \E p \in Positions : positions[p].status # "none" /\ positions[p].intent = i

\* A signal's converted marker names the one intent made from it that was
\* not withdrawn, and is empty when there is none: a signal can never feed
\* two live trade intents, and cancelling a draft always frees its signal.
SignalClaim ==
  \A g \in Signals, i \in Intents :
    signals[g].converted = i
      <=> intents[i].signal = g /\ intents[i].status # "cancelled"

\* What a closed position realized is what it was worth less what it cost.
RealizedIsExact ==
  \A p \in Closed : positions[p].realized = positions[p].current - positions[p].entry

\* Final rows stay as they are: a closed position is never marked or closed
\* again, a rejected or cancelled intent is never revived, no decision is
\* ever withdrawn, and the terms of an intent are fixed when it is created.
Final ==
  /\ \A p \in Closed : positions'[p] = positions[p]
  /\ \A p \in Positions : positions[p].status # "none" =>
       /\ positions'[p].intent = positions[p].intent
       /\ positions'[p].entry = positions[p].entry
  /\ \A i \in Intents :
       /\ intents[i].status \in {"rejected", "closed", "cancelled"} =>
            intents'[i] = intents[i]
       /\ intents[i].status = "approved" =>
            intents'[i].status \in {"approved", "closed"}
       /\ intents[i].status # "none" =>
            [intents'[i] EXCEPT !.status = "none"] = [intents[i] EXCEPT !.status = "none"]
FinalRowsStay == [][Final]_ledger
=============================================================================
