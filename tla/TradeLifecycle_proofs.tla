------------------------ MODULE TradeLifecycle_proofs ------------------------
(***************************************************************************)
(* Proofs about the trading lifecycle as it runs, for any number of        *)
(* sessions, rows and any limits. The argument is the one the SQL relies   *)
(* on: what a transaction checked under a lock is still true when it       *)
(* writes (Knows), because no other session's step disturbs what the lock  *)
(* guards (Undisturbed). It follows that every step is a step of the       *)
(* atomic PaperLedger or leaves the ledger alone (Refinement), which       *)
(* carries PaperLedger's properties over. The audit ledger, and the        *)
(* exposure and losses an evaluation totals, are not part of PaperLedger   *)
(* and get invariants of their own.                                        *)
(***************************************************************************)
EXTENDS TradeLifecycle, FoldLemmas

(***************************************************************************)
(* The atomic ledger, for any number of intents, positions, signals and    *)
(* any limit. LedgerInv is its inductive invariant: the properties of      *)
(* PaperLedger, strengthened by Blank, which says that rows not yet        *)
(* inserted carry no data. The rows do not interact except through an      *)
(* intent and its position and an intent and its signal, so each conjunct  *)
(* is preserved by a lemma of its own.                                     *)
(***************************************************************************)

\* What a verdict can be given on is a draft as it stands or a fresh manual
\* request, and both have the shape of a trade_intents row.
LEMMA CandidateRow ==
  ASSUME LedgerTypeOK, NEW i \in Intents, NEW r \in Candidates(i)
  PROVE  /\ intents[i].status \in {"none", "draft"}
         /\ r \in IntentRow
         /\ intents[i].status = "draft" => r = intents[i]
         /\ intents[i].status = "none" => r \in ManualRequests
<1>1. CASE intents[i].status = "draft"
  BY <1>1 DEF Candidates, LedgerTypeOK
<1>2. CASE intents[i].status = "none"
  BY <1>2 DEF Candidates, ManualRequests, IntentRow, IntentStatus
<1>3. CASE intents[i].status \notin {"draft", "none"}
  BY <1>3 DEF Candidates
<1> QED BY <1>1, <1>2, <1>3

\* The empty tables are well shaped.
LEMMA TypeInit == LedgerInit => LedgerTypeOK
  BY LedgerAssumption DEF LedgerInit, LedgerTypeOK, IntentRow, PositionRow, NoIntent, NoPosition, IntentStatus, PositionStatus, SignalRow

\* Every step of the ledger writes rows of the right shape.
LEMMA TypeStep == LedgerTypeOK /\ [LedgerNext]_ledger => LedgerTypeOK'
<1> SUFFICES ASSUME LedgerTypeOK, [LedgerNext]_ledger PROVE LedgerTypeOK'
  OBVIOUS
<1>1. ASSUME NEW i \in Intents, NEW g \in Signals, Draft(i, g) PROVE LedgerTypeOK'
  <2>1. [status |-> "draft", side |-> "buy", leverage |-> 1, notional |-> signals[g].notional, signal |-> g] \in IntentRow
    BY <1>1, LedgerAssumption DEF Draft, LedgerTypeOK, IntentRow, IntentStatus, SignalRow
  <2>2. QED BY <1>1, <2>1 DEF Draft, LedgerTypeOK, SignalRow
<1>2. ASSUME NEW i \in Intents, NEW r \in Candidates(i), Reject(i, r) PROVE LedgerTypeOK'
  <2>1. r \in IntentRow BY CandidateRow
  <2>2. [r EXCEPT !.status = "rejected"] \in IntentRow BY <2>1 DEF IntentRow, IntentStatus
  <2>3. QED BY <1>2, <2>2 DEF Reject, LedgerTypeOK, Verdicts
<1>3. ASSUME NEW i \in Intents, NEW r \in Candidates(i), NEW p \in Positions, Approve(i, r, p) PROVE LedgerTypeOK'
  <2>1. r \in IntentRow BY CandidateRow
  <2>2. [r EXCEPT !.status = "approved"] \in IntentRow BY <2>1 DEF IntentRow, IntentStatus
  <2>3. [status |-> "open", intent |-> i, entry |-> r.notional,
        current |-> r.notional, realized |-> 0] \in PositionRow
    <3>1. r.notional \in Nat
      <4>1. r.notional \in Notionals \cup {0} BY <2>1 DEF IntentRow
      <4>2. Notionals \cup {0} \subseteq Nat BY LedgerAssumption
      <4>3. QED BY <4>1, <4>2
    <3>2. QED BY <3>1 DEF PositionRow, PositionStatus
  <2>4. QED BY <1>3, <2>2, <2>3 DEF Approve, LedgerTypeOK, Verdicts
<1>4. ASSUME NEW i \in Intents, Withdraw(i) PROVE LedgerTypeOK'
  <2>1. [intents[i] EXCEPT !.status = "cancelled"] \in IntentRow BY DEF LedgerTypeOK, IntentRow, IntentStatus
  <2>2. \A g \in Signals : [signals[g] EXCEPT !.converted = None] \in SignalRow BY DEF LedgerTypeOK, SignalRow
  <2>3. QED BY <1>4, <2>1, <2>2 DEF Withdraw, LedgerTypeOK
<1>5. ASSUME NEW p \in Positions, NEW v \in Valuations, Mark(p, v) PROVE LedgerTypeOK'
  <2>0. v \in Nat BY LedgerAssumption
  <2>1. [positions[p] EXCEPT !.current = v] \in PositionRow BY <2>0 DEF LedgerTypeOK, PositionRow
  <2>2. QED BY <1>5, <2>1 DEF Mark, LedgerTypeOK
<1>6. ASSUME NEW p \in Positions, NEW v \in Valuations \cup {positions[p].current}, Close(p, v) PROVE LedgerTypeOK'
  <2>1. v \in Nat /\ positions[p].entry \in Nat BY LedgerAssumption DEF LedgerTypeOK, PositionRow
  <2>2. [positions[p] EXCEPT !.status = "closed", !.current = v, !.realized = v - positions[p].entry] \in PositionRow
    <3>1. v - positions[p].entry \in Int BY <2>1
    <3>2. QED BY <2>1, <3>1 DEF LedgerTypeOK, PositionRow, PositionStatus
  <2>3. positions' \in [Positions -> PositionRow]
    BY <1>6, <2>2 DEF Close, LedgerTypeOK
  <2>4. \A i \in Intents : [intents[i] EXCEPT !.status = "closed"] \in IntentRow BY DEF LedgerTypeOK, IntentRow, IntentStatus
  <2>5. intents' \in [Intents -> IntentRow]
    <3>1. CASE intents' = intents
      BY <3>1 DEF LedgerTypeOK
    <3>2. CASE intents' = [intents EXCEPT ![positions[p].intent].status = "closed"]
      BY <3>2, <2>4 DEF LedgerTypeOK
    <3>3. QED BY <1>6, <3>1, <3>2 DEF Close
  <2>6. QED BY <1>6, <2>3, <2>5 DEF Close, LedgerTypeOK
<1>7. CASE UNCHANGED ledger
  BY <1>7 DEF ledger, LedgerTypeOK
<1> QED BY <1>1, <1>2, <1>3, <1>4, <1>5, <1>6, <1>7 DEF LedgerNext

\* The rows always have the shape their tables give them.
THEOREM LedgerTypes == LedgerSpec => []LedgerTypeOK
BY TypeInit, TypeStep, PTL DEF LedgerSpec

\* A row nobody inserted carries no data.
Blank ==
  /\ \A i \in Intents : intents[i].status = "none" => intents[i] = NoIntent
  /\ \A p \in Positions : positions[p].status = "none" => positions[p] = NoPosition

\* No step writes to an identity without giving its row a status.
LEMMA BlankStep ==
  LedgerTypeOK /\ Blank /\ [LedgerNext]_ledger => Blank'
<1> SUFFICES ASSUME LedgerTypeOK, Blank, [LedgerNext]_ledger PROVE Blank'
  OBVIOUS
<1>1. ASSUME NEW i \in Intents, NEW g \in Signals, Draft(i, g) PROVE Blank'
  BY <1>1 DEF Draft, Blank, LedgerTypeOK
<1>2. ASSUME NEW i \in Intents, NEW r \in Candidates(i), Reject(i, r) PROVE Blank'
  <2>1. intents'[i].status = "rejected" BY <1>2, CandidateRow DEF Reject, LedgerTypeOK, IntentRow
  <2>2. QED BY <1>2, <2>1 DEF Reject, Blank, LedgerTypeOK
<1>3. ASSUME NEW i \in Intents, NEW r \in Candidates(i), NEW p \in Positions,
             Approve(i, r, p) PROVE Blank'
  <2>1. intents'[i].status = "approved" BY <1>3, CandidateRow DEF Approve, LedgerTypeOK, IntentRow
  <2>2. QED BY <1>3, <2>1 DEF Approve, Blank, LedgerTypeOK
<1>4. ASSUME NEW i \in Intents, Withdraw(i) PROVE Blank'
  BY <1>4 DEF Withdraw, Blank, LedgerTypeOK, IntentRow
<1>5. ASSUME NEW p \in Positions, NEW v \in Valuations, Mark(p, v) PROVE Blank'
  BY <1>5 DEF Mark, Blank, LedgerTypeOK, PositionRow
<1>6. ASSUME NEW p \in Positions, NEW v \in Valuations \cup {positions[p].current},
             Close(p, v) PROVE Blank'
  <2>1. \A q \in Positions : positions'[q].status = "none" => positions'[q] = NoPosition
    BY <1>6 DEF Close, Blank, LedgerTypeOK, PositionRow
  <2>2. \A j \in Intents : intents'[j].status = "none" => intents'[j] = NoIntent
    BY <1>6 DEF Close, Blank, LedgerTypeOK, IntentRow
  <2>3. QED BY <2>1, <2>2 DEF Blank
<1>7. CASE UNCHANGED ledger
  BY <1>7 DEF ledger, Blank
<1> QED BY <1>1, <1>2, <1>3, <1>4, <1>5, <1>6, <1>7 DEF LedgerNext

\* Only an approval makes a position, its intent was undecided until then, and
\* closing changes neither what the position was opened for nor at which size.
LEMMA PositionPerApprovalStep ==
  LedgerTypeOK /\ Blank /\ PositionPerApproval /\ [LedgerNext]_ledger
    => PositionPerApproval'
<1> SUFFICES ASSUME LedgerTypeOK, Blank, PositionPerApproval, [LedgerNext]_ledger
             PROVE  PositionPerApproval'
  OBVIOUS
<1> USE DEF PositionPerApproval, PositionsOf
<1>1. ASSUME NEW i \in Intents, NEW g \in Signals, Draft(i, g) PROVE PositionPerApproval'
  BY <1>1 DEF Draft, LedgerTypeOK
<1>2. ASSUME NEW i \in Intents, NEW r \in Candidates(i), Reject(i, r) PROVE PositionPerApproval'
  <2>1. /\ intents'[i].status = "rejected"
        /\ intents[i].status \in {"none", "draft"}
        /\ \A j \in Intents \ {i} : intents'[j] = intents[j]
        /\ positions' = positions
    BY <1>2, CandidateRow DEF Reject, LedgerTypeOK, IntentRow
  <2>2. QED BY <2>1
<1>3. ASSUME NEW i \in Intents, NEW r \in Candidates(i), NEW p \in Positions,
             Approve(i, r, p) PROVE PositionPerApproval'
  <2>1. /\ intents'[i].status = "approved"
        /\ intents'[i].side = "buy" /\ intents'[i].leverage = 1
        /\ intents'[i].notional = r.notional
        /\ intents[i].status \in {"none", "draft"}
        /\ \A j \in Intents \ {i} : intents'[j] = intents[j]
    BY <1>3, CandidateRow DEF Approve, LedgerTypeOK, IntentRow
  <2>2. /\ positions[p] = NoPosition
        /\ positions'[p].status = "open" /\ positions'[p].intent = i
        /\ positions'[p].entry = r.notional
        /\ \A q \in Positions \ {p} : positions'[q] = positions[q]
    BY <1>3 DEF Approve, LedgerTypeOK, Blank
  <2>3. \A q \in Positions : positions[q].intent # i
    BY <2>1, LedgerAssumption DEF Blank, NoPosition
  <2>4. ASSUME NEW q \in Positions \ {p}, positions'[q].status # "none"
        PROVE  /\ positions'[q].intent \in Intents \ {i}
               /\ positions'[q] = positions[q]
               /\ intents'[positions[q].intent] = intents[positions[q].intent]
    BY <2>1, <2>2, <2>3, <2>4
  <2>5. \A j \in Intents \ {i} : intents'[j].status \in {"approved", "closed"} =>
          \E q \in Positions \ {p} :
            positions'[q].status # "none" /\ positions'[q].intent = j
    BY <2>1, <2>2 DEF NoPosition
  <2>6. \A q \in Positions : positions'[q].intent = i => q = p
    BY <2>2, <2>3
  <2>7. QED BY <2>1, <2>2, <2>4, <2>5, <2>6
<1>4. ASSUME NEW i \in Intents, Withdraw(i) PROVE PositionPerApproval'
  <2>1. /\ intents'[i].status = "cancelled"
        /\ intents[i].status = "draft"
        /\ \A j \in Intents \ {i} : intents'[j] = intents[j]
        /\ positions' = positions
    BY <1>4 DEF Withdraw, LedgerTypeOK, IntentRow
  <2>2. QED BY <2>1
<1>5. ASSUME NEW p \in Positions, NEW v \in Valuations, Mark(p, v) PROVE PositionPerApproval'
  <2>1. \A q \in Positions :
          /\ positions'[q].status = positions[q].status
          /\ positions'[q].intent = positions[q].intent
          /\ positions'[q].entry = positions[q].entry
    BY <1>5 DEF Mark, LedgerTypeOK, PositionRow
  <2>2. QED BY <1>5, <2>1 DEF Mark
<1>6. ASSUME NEW p \in Positions, NEW v \in Valuations \cup {positions[p].current},
             Close(p, v) PROVE PositionPerApproval'
  <2>1. \A q \in Positions :
          /\ positions'[q].status # "none" <=> positions[q].status # "none"
          /\ positions'[q].intent = positions[q].intent
          /\ positions'[q].entry = positions[q].entry
    BY <1>6 DEF Close, LedgerTypeOK, PositionRow
  <2>0. /\ positions[p].intent \in Intents
        /\ intents[positions[p].intent].status \in {"approved", "closed"}
    BY <1>6 DEF Close
  <2>2. \A j \in Intents :
          /\ intents'[j].status \in {"approved", "closed"}
               <=> intents[j].status \in {"approved", "closed"}
          /\ intents'[j].side = intents[j].side
          /\ intents'[j].leverage = intents[j].leverage
          /\ intents'[j].notional = intents[j].notional
    <3>1. CASE intents' = intents BY <3>1
    <3>2. CASE intents' = [intents EXCEPT ![positions[p].intent].status = "closed"]
      BY <2>0, <3>2 DEF LedgerTypeOK, IntentRow
    <3>3. QED BY <1>6, <3>1, <3>2 DEF Close
  <2>3. QED BY <2>1, <2>2
<1>7. CASE UNCHANGED ledger
  BY <1>7 DEF ledger
<1> QED BY <1>1, <1>2, <1>3, <1>4, <1>5, <1>6, <1>7 DEF LedgerNext

\* A verdict is only given on an intent without one; closing keeps the verdict.
LEMMA DecidedOnceStep ==
  LedgerTypeOK /\ PositionPerApproval /\ DecidedOnce /\ [LedgerNext]_ledger
    => DecidedOnce'
<1> SUFFICES ASSUME LedgerTypeOK, PositionPerApproval, DecidedOnce, [LedgerNext]_ledger
             PROVE  DecidedOnce'
  OBVIOUS
<1>1. ASSUME NEW i \in Intents, NEW g \in Signals, Draft(i, g) PROVE DecidedOnce'
  BY <1>1 DEF Draft, LedgerTypeOK, DecidedOnce
<1>2. ASSUME NEW i \in Intents, NEW r \in Candidates(i), Reject(i, r) PROVE DecidedOnce'
  <2>1. /\ intents'[i].status = "rejected"
        /\ intents[i].status \in {"none", "draft"}
        /\ \A j \in Intents \ {i} : intents'[j] = intents[j]
    BY <1>2, CandidateRow DEF Reject, LedgerTypeOK, IntentRow
  <2>2. decisions[i] = <<>> BY <2>1 DEF DecidedOnce
  <2>3. /\ decisions'[i] = <<"rejected">>
        /\ \A j \in Intents \ {i} : decisions'[j] = decisions[j]
    BY <1>2, <2>2 DEF Reject, LedgerTypeOK
  <2>4. QED BY <2>1, <2>3 DEF DecidedOnce
<1>3. ASSUME NEW i \in Intents, NEW r \in Candidates(i), NEW p \in Positions,
             Approve(i, r, p) PROVE DecidedOnce'
  <2>1. /\ intents'[i].status = "approved"
        /\ intents[i].status \in {"none", "draft"}
        /\ \A j \in Intents \ {i} : intents'[j] = intents[j]
    BY <1>3, CandidateRow DEF Approve, LedgerTypeOK, IntentRow
  <2>2. decisions[i] = <<>> BY <2>1 DEF DecidedOnce
  <2>3. /\ decisions'[i] = <<"approved">>
        /\ \A j \in Intents \ {i} : decisions'[j] = decisions[j]
    BY <1>3, <2>2 DEF Approve, LedgerTypeOK
  <2>4. QED BY <2>1, <2>3 DEF DecidedOnce
<1>4. ASSUME NEW i \in Intents, Withdraw(i) PROVE DecidedOnce'
  <2>1. /\ intents'[i].status = "cancelled"
        /\ intents[i].status = "draft"
        /\ \A j \in Intents \ {i} : intents'[j] = intents[j]
        /\ decisions' = decisions
    BY <1>4 DEF Withdraw, LedgerTypeOK, IntentRow
  <2>2. QED BY <2>1 DEF DecidedOnce
<1>5. ASSUME NEW p \in Positions, NEW v \in Valuations, Mark(p, v) PROVE DecidedOnce'
  BY <1>5 DEF Mark, DecidedOnce
<1>6. ASSUME NEW p \in Positions, NEW v \in Valuations \cup {positions[p].current},
             Close(p, v) PROVE DecidedOnce'
  <2>1. \A j \in Intents :
          \/ intents'[j].status = intents[j].status
          \/ /\ intents'[j].status = "closed"
             /\ intents[j].status \in {"approved", "closed"}
    <3>0. /\ positions[p].intent \in Intents
          /\ intents[positions[p].intent].status \in {"approved", "closed"}
      BY <1>6 DEF Close, PositionPerApproval
    <3>1. CASE intents' = intents BY <3>1
    <3>2. CASE intents' = [intents EXCEPT ![positions[p].intent].status = "closed"]
      BY <3>0, <3>2 DEF LedgerTypeOK, IntentRow
    <3>3. QED BY <1>6, <3>1, <3>2 DEF Close
  <2>2. QED BY <1>6, <2>1 DEF Close, DecidedOnce
<1>7. CASE UNCHANGED ledger
  BY <1>7 DEF ledger, DecidedOnce
<1> QED BY <1>1, <1>2, <1>3, <1>4, <1>5, <1>6, <1>7 DEF LedgerNext

\* Drafting and withdrawing move the marker and the intent together, and no
\* other step touches either.
LEMMA SignalClaimStep ==
  LedgerTypeOK /\ Blank /\ PositionPerApproval /\ SignalClaim /\ [LedgerNext]_ledger
    => SignalClaim'
<1> SUFFICES ASSUME LedgerTypeOK, Blank, PositionPerApproval, SignalClaim,
                    [LedgerNext]_ledger
             PROVE  SignalClaim'
  OBVIOUS
<1>0. None \notin Intents /\ None \notin Signals
  BY LedgerAssumption
<1>1. ASSUME NEW i \in Intents, NEW g \in Signals, Draft(i, g) PROVE SignalClaim'
  <2>1. /\ intents[i].signal = None
        /\ intents'[i].signal = g /\ intents'[i].status = "draft"
        /\ \A j \in Intents \ {i} : intents'[j] = intents[j]
    BY <1>1 DEF Draft, LedgerTypeOK, Blank, NoIntent
  <2>2. /\ signals[g].converted = None
        /\ signals'[g].converted = i
        /\ \A h \in Signals \ {g} : signals'[h] = signals[h]
    BY <1>1 DEF Draft, LedgerTypeOK, SignalRow
  <2>3. QED BY <1>0, <2>1, <2>2 DEF SignalClaim
<1>2. ASSUME NEW i \in Intents, NEW r \in Candidates(i), Reject(i, r) PROVE SignalClaim'
  <2>1. /\ intents'[i].status = "rejected" /\ intents[i].status # "cancelled"
        /\ intents'[i].signal = r.signal
        /\ \A j \in Intents \ {i} : intents'[j] = intents[j]
    BY <1>2, CandidateRow DEF Reject, LedgerTypeOK, IntentRow
  <2>2. r.signal = intents[i].signal
    BY CandidateRow DEF Blank, NoIntent, ManualRequests
  <2>3. QED BY <1>2, <2>1, <2>2 DEF Reject, SignalClaim
<1>3. ASSUME NEW i \in Intents, NEW r \in Candidates(i), NEW p \in Positions,
             Approve(i, r, p) PROVE SignalClaim'
  <2>1. /\ intents'[i].status = "approved" /\ intents[i].status # "cancelled"
        /\ intents'[i].signal = r.signal
        /\ \A j \in Intents \ {i} : intents'[j] = intents[j]
    BY <1>3, CandidateRow DEF Approve, LedgerTypeOK, IntentRow
  <2>2. r.signal = intents[i].signal
    BY CandidateRow DEF Blank, NoIntent, ManualRequests
  <2>3. QED BY <1>3, <2>1, <2>2 DEF Approve, SignalClaim
<1>4. ASSUME NEW i \in Intents, Withdraw(i) PROVE SignalClaim'
  <2>1. /\ intents'[i].status = "cancelled" /\ intents[i].status = "draft"
        /\ intents'[i].signal = intents[i].signal
        /\ \A j \in Intents \ {i} : intents'[j] = intents[j]
    BY <1>4 DEF Withdraw, LedgerTypeOK, IntentRow
  <2>2. \A g \in Signals :
          IF g = intents[i].signal /\ signals[g].converted = i
            THEN signals'[g].converted = None
            ELSE signals'[g].converted = signals[g].converted
    BY <1>4 DEF Withdraw, LedgerTypeOK, SignalRow
  <2>3. QED BY <1>0, <2>1, <2>2 DEF SignalClaim
<1>5. ASSUME NEW p \in Positions, NEW v \in Valuations, Mark(p, v) PROVE SignalClaim'
  BY <1>5 DEF Mark, SignalClaim
<1>6. ASSUME NEW p \in Positions, NEW v \in Valuations \cup {positions[p].current},
             Close(p, v) PROVE SignalClaim'
  <2>1. \A j \in Intents :
          /\ intents'[j].signal = intents[j].signal
          /\ intents'[j].status = "cancelled" <=> intents[j].status = "cancelled"
    <3>1. /\ positions[p].intent \in Intents
          /\ intents[positions[p].intent].status \in {"approved", "closed"}
      BY <1>6 DEF Close, PositionPerApproval
    <3>2. CASE intents' = intents BY <3>2
    <3>3. CASE intents' = [intents EXCEPT ![positions[p].intent].status = "closed"]
      BY <3>1, <3>3 DEF LedgerTypeOK, IntentRow
    <3>4. QED BY <1>6, <3>2, <3>3 DEF Close
  <2>2. QED BY <1>6, <2>1 DEF Close, SignalClaim
<1>7. CASE UNCHANGED ledger
  BY <1>7 DEF ledger, SignalClaim
<1> QED BY <1>1, <1>2, <1>3, <1>4, <1>5, <1>6, <1>7 DEF LedgerNext

\* Only an approval adds to the open positions, one at a time, below the limit.
LEMMA OpenLimitStep ==
  LedgerTypeOK /\ OpenLimit /\ [LedgerNext]_ledger => OpenLimit'
<1> SUFFICES ASSUME LedgerTypeOK, OpenLimit, [LedgerNext]_ledger PROVE OpenLimit'
  OBVIOUS
<1>0. IsFiniteSet(Open) /\ Cardinality(Open) \in Nat /\ MaxOpen \in Nat
  BY LedgerAssumption, FS_Subset, FS_CardinalityType DEF Open
<1>1. ASSUME Open' \subseteq Open PROVE OpenLimit'
  BY <1>0, <1>1, FS_Subset, FS_CardinalityType DEF OpenLimit
<1>2. ASSUME NEW i \in Intents, NEW g \in Signals, Draft(i, g) PROVE OpenLimit'
  BY <1>1, <1>2 DEF Draft, Open
<1>3. ASSUME NEW i \in Intents, NEW r \in Candidates(i), Reject(i, r) PROVE OpenLimit'
  BY <1>1, <1>3 DEF Reject, Open
<1>4. ASSUME NEW i \in Intents, NEW r \in Candidates(i), NEW p \in Positions,
             Approve(i, r, p) PROVE OpenLimit'
  <2>1. Open' = Open \cup {p} /\ p \notin Open
    BY <1>4 DEF Approve, Open, LedgerTypeOK
  <2>2. Cardinality(Open') = Cardinality(Open) + 1
    BY <1>0, <2>1, FS_AddElement
  <2>3. QED BY <1>0, <1>4, <2>2 DEF Approve, OpenLimit
<1>5. ASSUME NEW i \in Intents, Withdraw(i) PROVE OpenLimit'
  BY <1>1, <1>5 DEF Withdraw, Open
<1>6. ASSUME NEW p \in Positions, NEW v \in Valuations, Mark(p, v) PROVE OpenLimit'
  BY <1>1, <1>6 DEF Mark, Open, LedgerTypeOK, PositionRow
<1>7. ASSUME NEW p \in Positions, NEW v \in Valuations \cup {positions[p].current},
             Close(p, v) PROVE OpenLimit'
  BY <1>1, <1>7 DEF Close, Open, LedgerTypeOK, PositionRow
<1>8. CASE UNCHANGED ledger
  BY <1>1, <1>8 DEF ledger, Open
<1> QED BY <1>2, <1>3, <1>4, <1>5, <1>6, <1>7, <1>8 DEF LedgerNext

\* The realized result is written by the close, and by nothing else.
LEMMA RealizedIsExactStep ==
  LedgerTypeOK /\ RealizedIsExact /\ [LedgerNext]_ledger => RealizedIsExact'
<1> SUFFICES ASSUME LedgerTypeOK, RealizedIsExact, [LedgerNext]_ledger
             PROVE  RealizedIsExact'
  OBVIOUS
<1> USE DEF RealizedIsExact, Closed
<1>1. ASSUME NEW i \in Intents, NEW g \in Signals, Draft(i, g) PROVE RealizedIsExact'
  BY <1>1 DEF Draft
<1>2. ASSUME NEW i \in Intents, NEW r \in Candidates(i), Reject(i, r)
      PROVE  RealizedIsExact'
  BY <1>2 DEF Reject
<1>3. ASSUME NEW i \in Intents, NEW r \in Candidates(i), NEW p \in Positions,
             Approve(i, r, p) PROVE RealizedIsExact'
  BY <1>3 DEF Approve, LedgerTypeOK
<1>4. ASSUME NEW i \in Intents, Withdraw(i) PROVE RealizedIsExact'
  BY <1>4 DEF Withdraw
<1>5. ASSUME NEW p \in Positions, NEW v \in Valuations, Mark(p, v) PROVE RealizedIsExact'
  BY <1>5 DEF Mark, LedgerTypeOK, PositionRow
<1>6. ASSUME NEW p \in Positions, NEW v \in Valuations \cup {positions[p].current},
             Close(p, v) PROVE RealizedIsExact'
  BY <1>6 DEF Close, LedgerTypeOK, PositionRow
<1>7. CASE UNCHANGED ledger
  BY <1>7 DEF ledger
<1> QED BY <1>1, <1>2, <1>3, <1>4, <1>5, <1>6, <1>7 DEF LedgerNext

\* No step rewrites a final row; an approved intent can only become closed.
LEMMA FinalStep ==
  LedgerTypeOK /\ PositionPerApproval /\ [LedgerNext]_ledger => [Final]_ledger
<1> SUFFICES ASSUME LedgerTypeOK, PositionPerApproval, LedgerNext PROVE Final
  BY DEF Final
<1> USE DEF Final, Closed
<1>1. ASSUME NEW i \in Intents, NEW g \in Signals, Draft(i, g) PROVE Final
  BY <1>1 DEF Draft, LedgerTypeOK
<1>2. ASSUME NEW i \in Intents, NEW r \in Candidates(i), Reject(i, r) PROVE Final
  <2>1. /\ intents[i].status \in {"none", "draft"}
        /\ intents[i].status = "draft" =>
             [intents'[i] EXCEPT !.status = "none"] = [intents[i] EXCEPT !.status = "none"]
        /\ \A j \in Intents \ {i} : intents'[j] = intents[j]
    BY <1>2, CandidateRow DEF Reject, LedgerTypeOK, IntentRow
  <2>2. QED BY <1>2, <2>1 DEF Reject
<1>3. ASSUME NEW i \in Intents, NEW r \in Candidates(i), NEW p \in Positions,
             Approve(i, r, p) PROVE Final
  <2>1. /\ intents[i].status \in {"none", "draft"}
        /\ intents[i].status = "draft" =>
             [intents'[i] EXCEPT !.status = "none"] = [intents[i] EXCEPT !.status = "none"]
        /\ \A j \in Intents \ {i} : intents'[j] = intents[j]
    BY <1>3, CandidateRow DEF Approve, LedgerTypeOK, IntentRow
  <2>2. /\ positions[p].status = "none"
        /\ \A q \in Positions \ {p} : positions'[q] = positions[q]
    BY <1>3 DEF Approve, LedgerTypeOK
  <2>3. QED BY <2>1, <2>2
<1>4. ASSUME NEW i \in Intents, Withdraw(i) PROVE Final
  <2>1. /\ intents[i].status = "draft"
        /\ [intents'[i] EXCEPT !.status = "none"] = [intents[i] EXCEPT !.status = "none"]
        /\ \A j \in Intents \ {i} : intents'[j] = intents[j]
        /\ positions' = positions
    BY <1>4 DEF Withdraw, LedgerTypeOK, IntentRow
  <2>2. QED BY <2>1
<1>5. ASSUME NEW p \in Positions, NEW v \in Valuations, Mark(p, v) PROVE Final
  BY <1>5 DEF Mark, LedgerTypeOK, PositionRow
<1>6. ASSUME NEW p \in Positions, NEW v \in Valuations \cup {positions[p].current},
             Close(p, v) PROVE Final
  <2>1. /\ positions[p].intent \in Intents
        /\ intents[positions[p].intent].status \in {"approved", "closed"}
    BY <1>6 DEF Close, PositionPerApproval
  <2>2. \A j \in Intents :
          /\ intents'[j].status # intents[j].status =>
               intents[j].status = "approved" /\ intents'[j].status = "closed"
          /\ intents'[j].status = intents[j].status => intents'[j] = intents[j]
          /\ [intents'[j] EXCEPT !.status = "none"] = [intents[j] EXCEPT !.status = "none"]
    <3>1. CASE intents' = intents BY <3>1
    <3>2. CASE intents' = [intents EXCEPT ![positions[p].intent].status = "closed"]
      BY <2>1, <3>2 DEF LedgerTypeOK, IntentRow
    <3>3. QED BY <1>6, <3>1, <3>2 DEF Close
  <2>3. /\ positions[p].status = "open"
        /\ positions'[p].intent = positions[p].intent
        /\ positions'[p].entry = positions[p].entry
        /\ \A q \in Positions \ {p} : positions'[q] = positions[q]
    BY <1>6 DEF Close, LedgerTypeOK, PositionRow
  <2>4. QED BY <2>2, <2>3
<1> QED BY <1>1, <1>2, <1>3, <1>4, <1>5, <1>6 DEF LedgerNext

\* The inductive invariant of the ledger.
LedgerInv ==
  /\ LedgerTypeOK /\ Blank /\ PositionPerApproval
  /\ DecidedOnce /\ SignalClaim /\ OpenLimit /\ RealizedIsExact

\* The empty ledger satisfies it.
LEMMA LedgerInvInit == LedgerInit => LedgerInv
<1> SUFFICES ASSUME LedgerInit PROVE LedgerInv
  OBVIOUS
<1>1. LedgerTypeOK /\ Blank
  BY TypeInit DEF LedgerInit, Blank
<1>2. DecidedOnce /\ PositionPerApproval /\ RealizedIsExact
  BY DEF LedgerInit, DecidedOnce, PositionPerApproval, RealizedIsExact, Closed,
         NoIntent, NoPosition
<1>3. SignalClaim
  BY LedgerAssumption DEF LedgerInit, SignalClaim, NoIntent, SignalRow
<1>4. OpenLimit
  <2>1. Open = {} BY DEF LedgerInit, Open, NoPosition
  <2>2. QED BY <2>1, FS_EmptySet, LedgerAssumption DEF OpenLimit
<1> QED BY <1>1, <1>2, <1>3, <1>4 DEF LedgerInv

\* Every reachable ledger satisfies the inductive invariant.
THEOREM LedgerInvariant == LedgerSpec => []LedgerInv
<1>1. LedgerInv /\ [LedgerNext]_ledger => LedgerInv'
  BY TypeStep, BlankStep, PositionPerApprovalStep, DecidedOnceStep, SignalClaimStep,
     OpenLimitStep, RealizedIsExactStep DEF LedgerInv
<1>2. QED BY LedgerInvInit, <1>1, PTL DEF LedgerSpec

\* The limit on open positions, for every limit and any number of positions.
THEOREM LedgerOpenLimit == LedgerSpec => []OpenLimit
<1>1. LedgerInv => OpenLimit BY DEF LedgerInv
<1>2. QED BY <1>1, LedgerInvariant, PTL

\* Final rows stay final in every behaviour of the ledger.
THEOREM LedgerFinal == LedgerSpec => FinalRowsStay
<1>1. LedgerInv /\ [LedgerNext]_ledger => [Final]_ledger
  BY FinalStep DEF LedgerInv
<1>2. QED BY <1>1, LedgerInvariant, PTL DEF LedgerSpec, FinalRowsStay

(***************************************************************************)
(* The lifecycle as it runs.                                               *)
(***************************************************************************)

\* The stages of a risk evaluation after its locks are held.
Evaluating == {"readBase", "readBook", "readPnl", "decide"}

\* Shapes of the session variables; what the locks need of a snapshot is only
\* the number of open positions (BookTypes has the rest).
LifecycleTypes ==
  /\ now \in Nat
  /\ portfolioLock \in Sessions \cup {None}
  /\ intentLock \in [Intents -> Sessions \cup {None}]
  /\ positionLock \in [Positions -> Sessions \cup {None}]
  /\ signalLock \in [Signals -> Sessions \cup {None}]
  /\ pc \in [Sessions -> Stages]
  /\ req \in [Sessions -> RequestRow]
  /\ DOMAIN snap = Sessions
  /\ \A s \in Sessions : /\ DOMAIN snap[s] = DOMAIN NoSnapshot
                         /\ snap[s].open \in Nat

\* What a session past a lock knows: it holds the lock, and the row it checked
\* under the lock is still as it found it.
Knows(s) ==
  /\ pc[s] = "lockPortfolio" /\ req[s].intent = None => req[s].row \in ManualRequests
  /\ pc[s] = "lockDraft" => req[s].intent \in Intents /\ portfolioLock = s
  /\ pc[s] \in Evaluating =>
       /\ portfolioLock = s
       /\ IF req[s].intent = None THEN req[s].row \in ManualRequests
          ELSE /\ intentLock[req[s].intent] = s
               /\ intents[req[s].intent].status = "draft"
               /\ req[s].row = intents[req[s].intent]
  /\ pc[s] \in {"readPnl", "decide"} => Cardinality(Open) <= snap[s].open
  /\ pc[s] = "lockSignal" => req[s].signal \in Signals
  /\ pc[s] = "convert" =>
       /\ req[s].signal \in Signals
       /\ signalLock[req[s].signal] = s
       /\ Convertible(req[s].signal)
  /\ pc[s] = "lockCancel" => req[s].intent \in Intents
  /\ pc[s] = "cancel" =>
       /\ req[s].intent \in Intents
       /\ intentLock[req[s].intent] = s
       /\ intents[req[s].intent].status = "draft"
  /\ pc[s] \in {"lockReview", "lockClose"} => req[s].position \in Positions
  /\ pc[s] \in {"review", "close"} =>
       /\ req[s].position \in Positions
       /\ positionLock[req[s].position] = s
       /\ positions[req[s].position].status = "open"
  /\ pc[s] \in {"lockClose", "close"} => req[s].price \in Valuations

\* A draft is a long order made from a signal.
DraftTerms ==
  \A i \in Intents : intents[i].status = "draft" =>
    intents[i].side = "buy" /\ intents[i].signal \in Signals

\* The inductive invariant of the lifecycle.
LifecycleInv ==
  /\ LedgerTypeOK
  /\ LifecycleTypes
  /\ DraftTerms
  /\ \A s \in Sessions : Knows(s)

\* What a step of another session leaves alone for t.
Undisturbed(t) ==
  /\ pc'[t] = pc[t] /\ req'[t] = req[t] /\ snap'[t] = snap[t]
  /\ portfolioLock = t => portfolioLock' = t /\ Cardinality(Open') <= Cardinality(Open)
  /\ \A i \in Intents : intentLock[i] = t /\ intents[i].status = "draft" =>
       intentLock'[i] = t /\ intents'[i] = intents[i]
  /\ \A g \in Signals : signalLock[g] = t => signalLock'[g] = t /\ signals'[g] = signals[g]
  /\ \A p \in Positions : positionLock[p] = t /\ positions[p].status = "open" =>
       positionLock'[p] = t /\ positions'[p].status = "open"

\* The number of open positions is a number.
LEMMA OpenCount ==
  IsFiniteSet(Open) /\ Cardinality(Open) \in Nat
BY LedgerAssumption, FS_Subset, FS_CardinalityType DEF Open

\* What a session knows stays true under steps that leave it undisturbed.
LEMMA UndisturbedKnows ==
  ASSUME LifecycleTypes, NEW t \in Sessions, Knows(t), Undisturbed(t)
  PROVE  Knows(t)'
<1> USE DEF Undisturbed
<1>1. (pc[t] = "lockPortfolio" /\ req[t].intent = None => req[t].row \in ManualRequests)'
  BY DEF Knows, ManualRequests
<1>2. (pc[t] = "lockDraft" => req[t].intent \in Intents /\ portfolioLock = t)'
  BY DEF Knows
<1>3. (pc[t] \in Evaluating =>
       /\ portfolioLock = t
       /\ IF req[t].intent = None THEN req[t].row \in ManualRequests
          ELSE /\ intentLock[req[t].intent] = t
               /\ intents[req[t].intent].status = "draft"
               /\ req[t].row = intents[req[t].intent])'
  BY DEF Knows, LifecycleTypes, RequestRow, Evaluating
<1>4. (pc[t] \in {"readPnl", "decide"} => Cardinality(Open) <= snap[t].open)'
  <2>1. CASE pc[t] \in {"readPnl", "decide"}
    <3>1. portfolioLock = t BY <2>1 DEF Knows, Evaluating
    <3>2. Cardinality(Open') <= Cardinality(Open) BY <3>1
    <3>3. Cardinality(Open) <= snap[t].open BY <2>1 DEF Knows
    <3>4. Cardinality(Open) \in Nat /\ Cardinality(Open') \in Nat
      BY OpenCount, FS_Subset, FS_CardinalityType, LedgerAssumption DEF Open
    <3>5. QED BY <3>2, <3>3, <3>4 DEF LifecycleTypes
  <2>2. CASE pc[t] \notin {"readPnl", "decide"}
    BY <2>2
  <2>3. QED BY <2>1, <2>2
<1>5. (pc[t] = "lockSignal" => req[t].signal \in Signals)'
  BY DEF Knows
<1>6. (pc[t] = "convert" =>
       /\ req[t].signal \in Signals
       /\ signalLock[req[t].signal] = t
       /\ Convertible(req[t].signal))'
  BY DEF Knows, Convertible
<1>7. (pc[t] = "lockCancel" => req[t].intent \in Intents)'
  BY DEF Knows
<1>8. (pc[t] = "cancel" =>
       /\ req[t].intent \in Intents
       /\ intentLock[req[t].intent] = t
       /\ intents[req[t].intent].status = "draft")'
  BY DEF Knows
<1>9. (pc[t] \in {"lockReview", "lockClose"} => req[t].position \in Positions)'
  BY DEF Knows
<1>10. (pc[t] \in {"review", "close"} =>
       /\ req[t].position \in Positions
       /\ positionLock[req[t].position] = t
       /\ positions[req[t].position].status = "open")'
  BY DEF Knows
<1>11. (pc[t] \in {"lockClose", "close"} => req[t].price \in Valuations)'
  BY DEF Knows
<1> QED BY <1>1, <1>2, <1>3, <1>4, <1>5, <1>6, <1>7, <1>8, <1>9, <1>10, <1>11 DEF Knows

\* The steps that touch no row: requests, locks, reads, refusals and failures,
\* the clock and the base capital.
Quiet(s) ==
  \/ Request(s)
  \/ AcquirePortfolioLock(s) \/ LockDraft(s)
  \/ ReadBaseCapital(s) \/ ReadOpenBook(s) \/ ReadRealizedPnl(s)
  \/ LockSignal(s) \/ LockForCancel(s) \/ LockForReview(s) \/ LockForClose(s)
  \/ Rollback(s)

\* The steps that commit rows.
Writes(s) ==
  \/ DecideRejected(s) \/ DecideApproved(s) \/ CreateDraft(s) \/ WithdrawDraft(s)
  \/ CloseWithReview(s) \/ CloseDirectly(s)

\* Every step is quiet, commits rows, marks, or is outside the sessions.
LEMMA NextCases ==
  ASSUME Next
  PROVE  \/ \E s \in Sessions : Quiet(s) \/ Writes(s)
         \/ \E p \in Positions, v \in Valuations : MarkPosition(p, v)
         \/ \E b \in BaseCapitals : UpdateBaseCapital(b)
         \/ Tick
BY DEF Next, Serve, Evaluate, HandleDraft, HandleClose, Quiet, Writes, Abort,
       SubmitRefused, ConvertRefused, CancelRefused, CloseRefused

\* A quiet step changes no row of the ledger.
LEMMA QuietLedger ==
  ASSUME NEW s \in Sessions, Quiet(s) PROVE UNCHANGED ledger
BY DEF Quiet, Request, AcquirePortfolioLock, LockDraft, ReadBaseCapital, ReadOpenBook,
       ReadRealizedPnl, LockSignal, LockForCancel, LockForReview, LockForClose, Rollback,
       CreateTradeIntent, SubmitDraftForReview, CancelDraft, ConvertSignal,
       RequestCloseReview, CloseRequested

\* A quiet step changes nothing else that is stored either.
LEMMA QuietBook ==
  ASSUME NEW s \in Sessions, Quiet(s) PROVE UNCHANGED book
BY DEF Quiet, Request, AcquirePortfolioLock, LockDraft, ReadBaseCapital, ReadOpenBook,
       ReadRealizedPnl, LockSignal, LockForCancel, LockForReview, LockForClose, Rollback,
       CreateTradeIntent, SubmitDraftForReview, CancelDraft, ConvertSignal,
       RequestCloseReview, CloseRequested

\* Each commit is one step of the atomic ledger.  Where a SQL function relies on
\* what an earlier statement read, Knows says it still holds: the draft is still
\* the draft, the signal is unclaimed, and no position was opened since the
\* open book was counted.
LEMMA StepRefines ==
  LifecycleInv /\ [Next]_vars => [LedgerNext]_ledger
<1> SUFFICES ASSUME LifecycleInv, [Next]_vars PROVE [LedgerNext]_ledger
  OBVIOUS
<1>1. ASSUME NEW s \in Sessions, DecideRejected(s) PROVE LedgerNext
  <2>1. PICK i \in Intents :
          /\ Subject(s, i)
          /\ intents' = [intents EXCEPT ![i] = [req[s].row EXCEPT !.status = "rejected"]]
          /\ decisions' = [decisions EXCEPT ![i] = Append(@, "rejected")]
    BY <1>1 DEF DecideRejected
  <2>2. req[s].row \in Candidates(i)
    BY <1>1, <2>1 DEF DecideRejected, LifecycleInv, Knows, Evaluating, Subject, Candidates
  <2>3. Reject(i, req[s].row)
    BY <1>1, <2>1, <2>2 DEF DecideRejected, Reject
  <2>4. QED BY <2>2, <2>3 DEF LedgerNext
<1>2. ASSUME NEW s \in Sessions, DecideApproved(s) PROVE LedgerNext
  <2>1. PICK i \in Intents, p \in Positions :
          /\ Subject(s, i)
          /\ positions[p].status = "none"
          /\ intents' = [intents EXCEPT ![i] = [req[s].row EXCEPT !.status = "approved"]]
          /\ decisions' = [decisions EXCEPT ![i] = Append(@, "approved")]
          /\ positions' = [positions EXCEPT ![p] =
               [status |-> "open", intent |-> i, entry |-> req[s].row.notional,
                current |-> req[s].row.notional, realized |-> 0]]
    BY <1>2 DEF DecideApproved
  <2>2. req[s].row \in Candidates(i)
    BY <1>2, <2>1 DEF DecideApproved, LifecycleInv, Knows, Evaluating, Subject, Candidates
  <2>3. Cardinality(Open) < MaxOpen
    <3>1. Cardinality(Open) <= snap[s].open /\ snap[s].open < MaxOpen
      BY <1>2 DEF DecideApproved, LifecycleInv, Knows, LevelOneRules, RoomToOpen
    <3>2. QED BY <3>1, OpenCount, LedgerAssumption DEF LifecycleInv, LifecycleTypes
  <2>4. req[s].row.side = "buy" /\ req[s].row.leverage = 1
    <3>1. req[s].row.side # "sell" /\ req[s].row.leverage = 1
      BY <1>2 DEF DecideApproved, LevelOneRules, NoRealShorts, NoLeverage
    <3>2. req[s].row.side \in {"buy", "sell"}
      BY <1>2, LedgerAssumption
      DEF DecideApproved, LifecycleInv, Knows, Evaluating, LifecycleTypes, RequestRow,
          DraftTerms, ManualRequests
    <3>3. QED BY <3>1, <3>2
  <2>5. Approve(i, req[s].row, p)
    BY <1>2, <2>1, <2>2, <2>3, <2>4 DEF DecideApproved, Approve
  <2>6. QED BY <2>2, <2>5 DEF LedgerNext
<1>3. ASSUME NEW s \in Sessions, CreateDraft(s) PROVE LedgerNext
  <2>1. req[s].signal \in Signals /\ Convertible(req[s].signal)
    BY <1>3 DEF CreateDraft, LifecycleInv, Knows
  <2>2. \E i \in Intents : Draft(i, req[s].signal)
    BY <1>3, <2>1 DEF CreateDraft, Draft, Convertible
  <2>3. QED BY <2>1, <2>2 DEF LedgerNext
<1>4. ASSUME NEW s \in Sessions, WithdrawDraft(s) PROVE LedgerNext
  <2>1. req[s].intent \in Intents /\ intents[req[s].intent].status = "draft"
    BY <1>4 DEF WithdrawDraft, LifecycleInv, Knows
  <2>2. Withdraw(req[s].intent)
    BY <1>4, <2>1 DEF WithdrawDraft, Withdraw
  <2>3. QED BY <2>1, <2>2 DEF LedgerNext
<1>5. ASSUME NEW s \in Sessions, CloseWithReview(s) PROVE LedgerNext
  <2>1. /\ req[s].position \in Positions
        /\ positions[req[s].position].status = "open"
        /\ positions[req[s].position] \in PositionRow
        /\ positions \in [Positions -> PositionRow]
    BY <1>5 DEF CloseWithReview, LifecycleInv, Knows, LedgerTypeOK
  <2>2. positions' = [positions EXCEPT
          ![req[s].position].status = "closed",
          ![req[s].position].current = positions[req[s].position].current,
          ![req[s].position].realized =
             positions[req[s].position].current - positions[req[s].position].entry]
    BY <1>5, <2>1 DEF CloseWithReview, PositionRow
  <2>3. Close(req[s].position, positions[req[s].position].current)
    BY <1>5, <2>1, <2>2 DEF CloseWithReview, Close
  <2>4. QED BY <2>1, <2>3 DEF LedgerNext
<1>6. ASSUME NEW s \in Sessions, CloseDirectly(s) PROVE LedgerNext
  <2>1. /\ req[s].position \in Positions
        /\ positions[req[s].position].status = "open"
        /\ req[s].price \in Valuations
    BY <1>6 DEF CloseDirectly, LifecycleInv, Knows
  <2>2. Close(req[s].position, req[s].price)
    BY <1>6, <2>1 DEF CloseDirectly, Close
  <2>3. QED BY <2>1, <2>2 DEF LedgerNext
<1>7. ASSUME NEW p \in Positions, NEW v \in Valuations, MarkPosition(p, v)
      PROVE  LedgerNext
  BY <1>7 DEF MarkPosition, Markable, Mark, LedgerNext
<1>8. ASSUME NEW s \in Sessions, Quiet(s) PROVE UNCHANGED ledger
  BY <1>8, QuietLedger
<1>9. ASSUME (\E b \in BaseCapitals : UpdateBaseCapital(b)) \/ Tick \/ UNCHANGED vars
      PROVE  UNCHANGED ledger
  BY <1>9 DEF UpdateBaseCapital, Tick, vars, ledger
<1> QED
  <2>1. CASE UNCHANGED vars BY <2>1, <1>9
  <2>2. CASE Next
    BY <2>2, NextCases, <1>1, <1>2, <1>3, <1>4, <1>5, <1>6, <1>7, <1>8, <1>9 DEF Writes
  <2>3. QED BY <2>1, <2>2

\* Ending a transaction leaves the session variables well shaped.
LEMMA ReleaseTypes ==
  ASSUME LifecycleTypes, NEW s \in Sessions, Release(s)
  PROVE  /\ portfolioLock' \in Sessions \cup {None}
         /\ intentLock' \in [Intents -> Sessions \cup {None}]
         /\ positionLock' \in [Positions -> Sessions \cup {None}]
         /\ signalLock' \in [Signals -> Sessions \cup {None}]
         /\ pc' \in [Sessions -> Stages] /\ pc'[s] = "idle"
         /\ req' \in [Sessions -> RequestRow]
         /\ DOMAIN snap' = Sessions
         /\ \A t \in Sessions : /\ DOMAIN snap'[t] = DOMAIN NoSnapshot
                                /\ snap'[t].open \in Nat
<1>1. NoRequest \in RequestRow
  BY DEF NoRequest, NoIntent, RequestRow, IntentRow, IntentStatus
<1> QED BY <1>1 DEF Release, LifecycleTypes, Stages, NoSnapshot

\* So does starting one.
LEMMA CallTypes ==
  ASSUME LifecycleTypes, NEW s \in Sessions, NEW r \in RequestRow, NEW st \in Stages,
         Call(s, r, st)
  PROVE  pc' \in [Sessions -> Stages] /\ req' \in [Sessions -> RequestRow]
<1>1. [r EXCEPT !.at = now] \in RequestRow
  BY DEF RequestRow, LifecycleTypes
<1> QED BY <1>1 DEF Call, LifecycleTypes

\* Every request is well shaped and takes no lock.
LEMMA RequestTypes ==
  ASSUME LifecycleTypes, NEW s \in Sessions, Request(s)
  PROVE  /\ pc' \in [Sessions -> Stages] /\ req' \in [Sessions -> RequestRow]
         /\ UNCHANGED <<now, locks, snap>>
<1>0. NoRequest \in RequestRow
  BY DEF NoRequest, NoIntent, RequestRow, IntentRow, IntentStatus
<1>1. CASE CreateTradeIntent(s)
  <2>1. PICK r \in ManualRequests : Call(s, [NoRequest EXCEPT !.row = r], "lockPortfolio")
    BY <1>1 DEF CreateTradeIntent
  <2>2. r \in IntentRow BY DEF ManualRequests, IntentRow, IntentStatus
  <2>3. [NoRequest EXCEPT !.row = r] \in RequestRow BY <1>0, <2>2 DEF RequestRow
  <2>4. "lockPortfolio" \in Stages BY DEF Stages
  <2>5. QED BY <1>1, <2>1, <2>3, <2>4, CallTypes DEF CreateTradeIntent, book
<1>2. ASSUME NEW i \in Intents, SubmitDraftForReview(s, i) \/ CancelDraft(s, i)
      PROVE  /\ pc' \in [Sessions -> Stages] /\ req' \in [Sessions -> RequestRow]
             /\ UNCHANGED <<now, locks, snap>>
  <2>1. [NoRequest EXCEPT !.intent = i] \in RequestRow BY <1>0 DEF RequestRow
  <2>2. "lockPortfolio" \in Stages /\ "lockCancel" \in Stages BY DEF Stages
  <2>3. QED BY <1>2, <2>1, <2>2, CallTypes DEF SubmitDraftForReview, CancelDraft, book
<1>3. ASSUME NEW g \in Signals, ConvertSignal(s, g)
      PROVE  /\ pc' \in [Sessions -> Stages] /\ req' \in [Sessions -> RequestRow]
             /\ UNCHANGED <<now, locks, snap>>
  <2>1. [NoRequest EXCEPT !.signal = g] \in RequestRow BY <1>0 DEF RequestRow
  <2>2. "lockSignal" \in Stages BY DEF Stages
  <2>3. QED BY <1>3, <2>1, <2>2, CallTypes DEF ConvertSignal, book
<1>4. ASSUME NEW p \in Positions, RequestCloseReview(s, p)
      PROVE  /\ pc' \in [Sessions -> Stages] /\ req' \in [Sessions -> RequestRow]
             /\ UNCHANGED <<now, locks, snap>>
  <2>1. [NoRequest EXCEPT !.position = p] \in RequestRow BY <1>0 DEF RequestRow
  <2>2. "lockReview" \in Stages BY DEF Stages
  <2>3. QED BY <1>4, <2>1, <2>2, CallTypes DEF RequestCloseReview, book
<1>5. ASSUME NEW p \in Positions, NEW v \in Valuations, CloseRequested(s, p, v)
      PROVE  /\ pc' \in [Sessions -> Stages] /\ req' \in [Sessions -> RequestRow]
             /\ UNCHANGED <<now, locks, snap>>
  <2>1. [NoRequest EXCEPT !.position = p, !.price = v] \in RequestRow
    BY <1>0 DEF RequestRow
  <2>2. "lockClose" \in Stages BY DEF Stages
  <2>3. QED BY <1>5, <2>1, <2>2, CallTypes DEF CloseRequested, book
<1> QED BY <1>1, <1>2, <1>3, <1>4, <1>5 DEF Request

\* Every step keeps the session variables well shaped.
LEMMA TypesStep ==
  LifecycleInv /\ [Next]_vars => LifecycleTypes'
<1> SUFFICES ASSUME LifecycleInv, [Next]_vars PROVE LifecycleTypes'
  OBVIOUS
<1>0. LifecycleTypes /\ LedgerTypeOK
  BY DEF LifecycleInv
<1>1. ASSUME NEW s \in Sessions, Request(s) PROVE LifecycleTypes'
  BY <1>0, <1>1, RequestTypes DEF LifecycleTypes, locks
<1>2. ASSUME NEW s \in Sessions, AcquirePortfolioLock(s) PROVE LifecycleTypes'
  BY <1>0, <1>2 DEF AcquirePortfolioLock, LifecycleTypes, Goto, Stages, book, NoSnapshot
<1>3. ASSUME NEW s \in Sessions, LockDraft(s) PROVE LifecycleTypes'
  <2>1. req[s].intent \in Intents
    BY <1>3 DEF LockDraft, LifecycleInv, Knows
  <2>2. [req[s] EXCEPT !.row = intents[req[s].intent]] \in RequestRow
    BY <1>0, <2>1 DEF LedgerTypeOK, LifecycleTypes, RequestRow
  <2>3. QED BY <1>0, <1>3, <2>1, <2>2 DEF LockDraft, LifecycleTypes, Goto, Stages, book
<1>4. ASSUME NEW s \in Sessions, ReadBaseCapital(s) PROVE LifecycleTypes'
  BY <1>0, <1>4 DEF ReadBaseCapital, LifecycleTypes, Goto, Stages, book, locks, NoSnapshot
<1>5. ASSUME NEW s \in Sessions, ReadOpenBook(s) PROVE LifecycleTypes'
  BY <1>0, <1>5, OpenCount
  DEF ReadOpenBook, LifecycleTypes, Goto, Stages, book, locks, NoSnapshot
<1>6. ASSUME NEW s \in Sessions, ReadRealizedPnl(s) PROVE LifecycleTypes'
  BY <1>0, <1>6 DEF ReadRealizedPnl, LifecycleTypes, Goto, Stages, book, locks, NoSnapshot
<1>7. ASSUME NEW s \in Sessions,
             LockSignal(s) \/ LockForCancel(s) \/ LockForReview(s) \/ LockForClose(s)
      PROVE  LifecycleTypes'
  BY <1>0, <1>7
  DEF LockSignal, LockForCancel, LockForReview, LockForClose, LifecycleTypes, Goto, Stages,
      book
<1>8. ASSUME NEW s \in Sessions, Rollback(s) PROVE LifecycleTypes'
  BY <1>0, <1>8, ReleaseTypes DEF Rollback, LifecycleTypes, book
<1>9. ASSUME NEW s \in Sessions, Writes(s) PROVE LifecycleTypes'
  <2>1. Release(s) /\ UNCHANGED now
    BY <1>9 DEF Writes, DecideRejected, DecideApproved, CreateDraft, WithdrawDraft,
                CloseWithReview, CloseDirectly
  <2>2. QED BY <1>0, <2>1, ReleaseTypes DEF LifecycleTypes
<1>10. ASSUME NEW p \in Positions, NEW v \in Valuations, MarkPosition(p, v)
       PROVE  LifecycleTypes'
  BY <1>0, <1>10 DEF MarkPosition, LifecycleTypes, book, locks, local
<1>11. ASSUME NEW b \in BaseCapitals, UpdateBaseCapital(b) PROVE LifecycleTypes'
  BY <1>0, <1>11 DEF UpdateBaseCapital, LifecycleTypes, locks, local
<1>12. CASE Tick
  BY <1>0, <1>12 DEF Tick, LifecycleTypes, locks, local
<1>13. CASE UNCHANGED vars
  BY <1>0, <1>13 DEF vars, LifecycleTypes
<1> QED
  <2>1. CASE Next
    BY <2>1, NextCases, <1>1, <1>2, <1>3, <1>4, <1>5, <1>6, <1>7, <1>8, <1>9, <1>10, <1>11,
       <1>12 DEF Quiet
  <2>2. QED BY <1>13, <2>1

\* Drafts are made from signals only, and as long orders.
LEMMA DraftTermsStep ==
  LifecycleInv /\ [LedgerNext]_ledger => DraftTerms'
<1> SUFFICES ASSUME LifecycleInv, [LedgerNext]_ledger PROVE DraftTerms'
  OBVIOUS
<1> USE DEF DraftTerms
<1>0. LedgerTypeOK /\ DraftTerms
  BY DEF LifecycleInv
<1>1. ASSUME NEW i \in Intents, NEW g \in Signals, Draft(i, g) PROVE DraftTerms'
  BY <1>0, <1>1 DEF Draft, LedgerTypeOK
<1>2. ASSUME NEW i \in Intents, NEW r \in Candidates(i), Reject(i, r) PROVE DraftTerms'
  <2>1. intents'[i].status = "rejected"
    BY <1>0, <1>2, CandidateRow DEF Reject, LedgerTypeOK, IntentRow
  <2>2. QED BY <1>0, <1>2, <2>1 DEF Reject, LedgerTypeOK
<1>3. ASSUME NEW i \in Intents, NEW r \in Candidates(i), NEW p \in Positions,
             Approve(i, r, p) PROVE DraftTerms'
  <2>1. intents'[i].status = "approved"
    BY <1>0, <1>3, CandidateRow DEF Approve, LedgerTypeOK, IntentRow
  <2>2. QED BY <1>0, <1>3, <2>1 DEF Approve, LedgerTypeOK
<1>4. ASSUME NEW i \in Intents, Withdraw(i) PROVE DraftTerms'
  BY <1>0, <1>4 DEF Withdraw, LedgerTypeOK, IntentRow
<1>5. ASSUME NEW p \in Positions, NEW v \in Valuations, Mark(p, v) PROVE DraftTerms'
  BY <1>0, <1>5 DEF Mark
<1>6. ASSUME NEW p \in Positions, NEW v \in Valuations \cup {positions[p].current},
             Close(p, v) PROVE DraftTerms'
  <2>1. CASE intents' = intents BY <1>0, <2>1
  <2>2. CASE intents' = [intents EXCEPT ![positions[p].intent].status = "closed"]
    BY <1>0, <2>2 DEF LedgerTypeOK, IntentRow
  <2>3. QED BY <1>6, <2>1, <2>2 DEF Close
<1>7. CASE UNCHANGED ledger
  BY <1>0, <1>7 DEF ledger
<1> QED BY <1>1, <1>2, <1>3, <1>4, <1>5, <1>6, <1>7 DEF LedgerNext

\* A quiet step of one session leaves every other undisturbed: a lock is only
\* taken when it is free.
LEMMA QuietUndisturbed ==
  ASSUME LifecycleInv, NEW s \in Sessions, Quiet(s), NEW t \in Sessions \ {s}
  PROVE  Undisturbed(t)
<1>1. UNCHANGED ledger /\ LifecycleTypes
  BY QuietLedger DEF LifecycleInv
<1>2. Open' = Open
  BY <1>1 DEF Open, ledger
<1>3. Cardinality(Open') <= Cardinality(Open)
  BY <1>2, OpenCount
<1>4. t # None /\ None \notin Sessions
  BY LifecycleAssumption
<1> USE <1>1, <1>3, <1>4 DEF Undisturbed, ledger, LifecycleTypes
<1>5. CASE Request(s)
  BY <1>5 DEF Request, CreateTradeIntent, SubmitDraftForReview, CancelDraft, ConvertSignal,
              RequestCloseReview, CloseRequested, Call, locks
<1>6. CASE AcquirePortfolioLock(s)
  BY <1>6 DEF AcquirePortfolioLock, PortfolioFree, Goto
<1>7. CASE LockDraft(s)
  BY <1>7 DEF LockDraft, Goto
<1>8. CASE ReadBaseCapital(s) \/ ReadOpenBook(s) \/ ReadRealizedPnl(s)
  BY <1>8 DEF ReadBaseCapital, ReadOpenBook, ReadRealizedPnl, Goto, locks
<1>9. CASE LockSignal(s) \/ LockForCancel(s)
  BY <1>9 DEF LockSignal, LockForCancel, Goto
<1>10. CASE LockForReview(s) \/ LockForClose(s)
  BY <1>10 DEF LockForReview, LockForClose, Goto
<1>11. CASE Rollback(s)
  BY <1>11 DEF Rollback, Release
<1> QED BY <1>5, <1>6, <1>7, <1>8, <1>9, <1>10, <1>11 DEF Quiet

\* A session that takes a lock or reads under one knows what it found.
LEMMA QuietKnows ==
  ASSUME LifecycleInv, NEW s \in Sessions, Quiet(s)
  PROVE  Knows(s)'
<1>1. UNCHANGED ledger /\ LifecycleTypes /\ LedgerTypeOK /\ Knows(s)
  BY QuietLedger DEF LifecycleInv
<1>2. Open' = Open
  BY <1>1 DEF Open, ledger
<1> USE <1>1 DEF ledger, LifecycleTypes, Evaluating
<1>3. CASE CreateTradeIntent(s)
  BY <1>3 DEF CreateTradeIntent, Call, Knows, ManualRequests, NoRequest
<1>4. ASSUME NEW i \in Intents, SubmitDraftForReview(s, i) \/ CancelDraft(s, i)
      PROVE  Knows(s)'
  <2>1. i # None BY LedgerAssumption
  <2>2. QED BY <1>4, <2>1 DEF SubmitDraftForReview, CancelDraft, Call, Knows, NoRequest
<1>5. ASSUME NEW g \in Signals, ConvertSignal(s, g) PROVE Knows(s)'
  BY <1>5 DEF ConvertSignal, Call, Knows, NoRequest
<1>6. ASSUME NEW p \in Positions, RequestCloseReview(s, p) PROVE Knows(s)'
  BY <1>6 DEF RequestCloseReview, Call, Knows, NoRequest
<1>7. ASSUME NEW p \in Positions, NEW v \in Valuations, CloseRequested(s, p, v)
      PROVE  Knows(s)'
  BY <1>7 DEF CloseRequested, Call, Knows, NoRequest
<1>8. CASE AcquirePortfolioLock(s)
  <2>1. req[s].intent \in Intents \cup {None} BY DEF RequestRow
  <2>2. QED BY <1>8, <2>1 DEF AcquirePortfolioLock, Knows, Goto, ManualRequests
<1>9. CASE LockDraft(s)
  <2>1. req[s].intent \in Intents /\ portfolioLock = s
    BY <1>9 DEF LockDraft, Knows
  <2>2. req'[s].intent = req[s].intent /\ req'[s].row = intents[req[s].intent]
    BY <1>9 DEF LockDraft, RequestRow
  <2>3. pc'[s] = "readBase" /\ portfolioLock' = s /\ intentLock'[req[s].intent] = s
    BY <1>9, <2>1 DEF LockDraft, Goto
  <2>4. intents[req[s].intent].status = "draft" /\ req[s].intent # None
    BY <1>9, <2>1, LedgerAssumption DEF LockDraft, Submittable
  <2>5. QED BY <2>1, <2>2, <2>3, <2>4 DEF Knows
<1>10. CASE ReadBaseCapital(s)
  BY <1>10 DEF ReadBaseCapital, Knows, Goto, locks, ManualRequests
<1>11. CASE ReadOpenBook(s)
  <2>1. snap'[s].open = Cardinality(Open)
    BY <1>11 DEF ReadOpenBook, NoSnapshot
  <2>2. Cardinality(Open') <= snap'[s].open
    BY <1>2, <2>1, OpenCount
  <2>3. QED BY <1>11, <2>2 DEF ReadOpenBook, Knows, Goto, locks, ManualRequests
<1>12. CASE ReadRealizedPnl(s)
  <2>1. snap'[s].open = snap[s].open
    BY <1>12 DEF ReadRealizedPnl, NoSnapshot
  <2>2. Cardinality(Open') <= snap'[s].open
    BY <1>2, <1>12, <2>1 DEF ReadRealizedPnl, Knows
  <2>3. QED BY <1>12, <2>2 DEF ReadRealizedPnl, Knows, Goto, locks, ManualRequests
<1>13. CASE LockSignal(s)
  BY <1>13 DEF LockSignal, Knows, Goto, Convertible
<1>14. CASE LockForCancel(s)
  BY <1>14 DEF LockForCancel, Knows, Goto, Cancellable
<1>15. CASE LockForReview(s) \/ LockForClose(s)
  BY <1>15 DEF LockForReview, LockForClose, Knows, Goto, Reviewable, Closable
<1>16. CASE Rollback(s)
  BY <1>16, ReleaseTypes DEF Rollback, Knows
<1> QED BY <1>3, <1>4, <1>5, <1>6, <1>7, <1>8, <1>9, <1>10, <1>11, <1>12, <1>13, <1>14,
           <1>15, <1>16 DEF Quiet, Request

\* A commit leaves every other session undisturbed: it writes rows it has locked,
\* rows nobody could have locked, or rows it has found unlocked; and only the
\* holder of the portfolio lock opens a position.
LEMMA WritesUndisturbed ==
  ASSUME LifecycleInv, NEW s \in Sessions, Writes(s), NEW t \in Sessions \ {s}
  PROVE  Undisturbed(t)
<1>1. LifecycleTypes /\ LedgerTypeOK /\ Knows(s) /\ Knows(t)
  BY DEF LifecycleInv
<1>2. t # None /\ None \notin Sessions
  BY LifecycleAssumption
<1>3. Release(s)
  BY DEF Writes, DecideRejected, DecideApproved, CreateDraft, WithdrawDraft,
         CloseWithReview, CloseDirectly
<1>4. /\ pc'[t] = pc[t] /\ req'[t] = req[t] /\ snap'[t] = snap[t]
      /\ portfolioLock = t => portfolioLock' = t
      /\ \A i \in Intents : intentLock[i] = t => intentLock'[i] = t
      /\ \A g \in Signals : signalLock[g] = t => signalLock'[g] = t
      /\ \A p \in Positions : positionLock[p] = t => positionLock'[p] = t
  BY <1>1, <1>2, <1>3 DEF Release, LifecycleTypes
<1> USE <1>1, <1>2, <1>4 DEF Undisturbed, LifecycleTypes, LedgerTypeOK
<1>5. ASSUME Open' \subseteq Open PROVE Cardinality(Open') <= Cardinality(Open)
  BY <1>5, OpenCount, FS_Subset
<1>6. CASE DecideRejected(s)
  <2>1. PICK i \in Intents :
          Subject(s, i) /\ \A j \in Intents \ {i} : intents'[j] = intents[j]
    BY <1>6 DEF DecideRejected
  <2>2. intentLock[i] = t => intents[i].status # "draft"
    BY <1>6, <2>1 DEF DecideRejected, Subject, Knows, Evaluating
  <2>3. Open' \subseteq Open
    BY <1>6 DEF DecideRejected, Open
  <2>4. QED BY <1>5, <1>6, <2>1, <2>2, <2>3 DEF DecideRejected
<1>7. CASE DecideApproved(s)
  <2>1. PICK i \in Intents, p \in Positions :
          /\ Subject(s, i)
          /\ \A j \in Intents \ {i} : intents'[j] = intents[j]
          /\ positions[p].status = "none"
          /\ \A q \in Positions \ {p} : positions'[q] = positions[q]
    BY <1>7 DEF DecideApproved
  <2>2. intentLock[i] = t => intents[i].status # "draft"
    BY <1>7, <2>1 DEF DecideApproved, Subject, Knows, Evaluating
  <2>3. portfolioLock # t
    BY <1>7 DEF DecideApproved, Knows, Evaluating
  <2>4. QED BY <1>7, <2>1, <2>2, <2>3 DEF DecideApproved
<1>8. CASE CreateDraft(s)
  <2>1. /\ \A i \in Intents : intents[i].status = "draft" => intents'[i] = intents[i]
        /\ \A g \in Signals : g # req[s].signal => signals'[g] = signals[g]
    BY <1>8 DEF CreateDraft
  <2>2. signalLock[req[s].signal] = s
    BY <1>8 DEF CreateDraft, Knows
  <2>3. Open' \subseteq Open
    BY <1>8 DEF CreateDraft, Open
  <2>4. QED BY <1>5, <1>8, <2>1, <2>2, <2>3 DEF CreateDraft
<1>9. CASE WithdrawDraft(s)
  <2>1. intentLock[req[s].intent] = s
    BY <1>9 DEF WithdrawDraft, Knows
  <2>2. /\ \A i \in Intents : i # req[s].intent => intents'[i] = intents[i]
        /\ \A g \in Signals : signalLock[g] # None => signals'[g] = signals[g]
    BY <1>9 DEF WithdrawDraft, ReadyToWithdraw
  <2>3. Open' \subseteq Open
    BY <1>9 DEF WithdrawDraft, Open
  <2>4. QED BY <1>5, <1>9, <2>1, <2>2, <2>3 DEF WithdrawDraft
<1>10. CASE CloseWithReview(s)
  <2>1. positionLock[req[s].position] = s
    BY <1>10 DEF CloseWithReview, Knows
  <2>2. \A p \in Positions : p # req[s].position => positions'[p] = positions[p]
    BY <1>10 DEF CloseWithReview
  <2>3. Open' \subseteq Open
    BY <1>10 DEF CloseWithReview, Knows, Open, PositionRow
  <2>4. QED BY <1>5, <1>10, <2>1, <2>2, <2>3 DEF CloseWithReview
<1>11. CASE CloseDirectly(s)
  <2>1. positionLock[req[s].position] = s
    BY <1>11 DEF CloseDirectly, Knows
  <2>2. /\ \A p \in Positions : p # req[s].position => positions'[p] = positions[p]
        /\ \A i \in Intents : intentLock[i] # None => intents'[i] = intents[i]
    BY <1>11 DEF CloseDirectly
  <2>3. Open' \subseteq Open
    BY <1>11 DEF CloseDirectly, Knows, Open, PositionRow
  <2>4. QED BY <1>5, <1>11, <2>1, <2>2, <2>3 DEF CloseDirectly
<1> QED BY <1>6, <1>7, <1>8, <1>9, <1>10, <1>11 DEF Writes

\* What every session knows survives every step.
LEMMA KnowsStep ==
  LifecycleInv /\ [Next]_vars => \A t \in Sessions : Knows(t)'
<1> SUFFICES ASSUME LifecycleInv, [Next]_vars, NEW t \in Sessions PROVE Knows(t)'
  OBVIOUS
<1>1. LifecycleTypes /\ LedgerTypeOK /\ Knows(t)
  BY DEF LifecycleInv
<1>2. ASSUME Undisturbed(t) PROVE Knows(t)'
  BY <1>1, <1>2, UndisturbedKnows
<1>3. ASSUME NEW s \in Sessions, Quiet(s) PROVE Knows(t)'
  <2>1. CASE s = t BY <1>3, <2>1, QuietKnows
  <2>2. CASE s # t BY <1>2, <1>3, <2>2, QuietUndisturbed
  <2>3. QED BY <2>1, <2>2
<1>4. ASSUME NEW s \in Sessions, Writes(s) PROVE Knows(t)'
  <2>1. CASE s = t
    <3>1. Release(s)
      BY <1>4 DEF Writes, DecideRejected, DecideApproved, CreateDraft, WithdrawDraft,
                  CloseWithReview, CloseDirectly
    <3>2. pc'[t] = "idle" BY <1>1, <2>1, <3>1 DEF Release, LifecycleTypes
    <3>3. QED BY <3>2 DEF Knows, Evaluating
  <2>2. CASE s # t BY <1>2, <1>4, <2>2, WritesUndisturbed
  <2>3. QED BY <2>1, <2>2
<1>5. ASSUME NEW p \in Positions, NEW v \in Valuations, MarkPosition(p, v)
      PROVE  Knows(t)'
  <2>1. Open' = Open
    BY <1>1, <1>5 DEF MarkPosition, Open, LedgerTypeOK, PositionRow
  <2>2. Cardinality(Open') <= Cardinality(Open)
    BY <2>1, OpenCount
  <2>3. \A q \in Positions : positions[q].status = "open" => positions'[q].status = "open"
    BY <2>1 DEF Open
  <2>4. QED BY <1>2, <1>5, <2>2, <2>3 DEF MarkPosition, Undisturbed, locks, local
<1>6. CASE UNCHANGED <<ledger, locks, local>>
  <2>1. Cardinality(Open') <= Cardinality(Open)
    BY <1>6, OpenCount DEF ledger, Open
  <2>2. QED BY <1>2, <1>6, <2>1 DEF Undisturbed, ledger, locks, local
<1>7. CASE UNCHANGED vars
  BY <1>6, <1>7 DEF vars, ledger, locks, local
<1>8. CASE (\E b \in BaseCapitals : UpdateBaseCapital(b)) \/ Tick
  BY <1>6, <1>8 DEF UpdateBaseCapital, Tick
<1> QED
  <2>1. CASE Next
    BY <2>1, NextCases, <1>3, <1>4, <1>5, <1>8
  <2>2. QED BY <1>7, <2>1

\* No session has started.
LEMMA LifecycleInvInit == Init => LifecycleInv
<1> SUFFICES ASSUME Init PROVE LifecycleInv
  OBVIOUS
<1>1. LedgerTypeOK
  BY TypeInit DEF Init
<1>2. NoRequest \in RequestRow
  BY DEF NoRequest, NoIntent, RequestRow, IntentRow, IntentStatus
<1>3. LifecycleTypes
  BY <1>2 DEF Init, LifecycleTypes, Stages, NoSnapshot
<1>4. DraftTerms
  BY DEF Init, LedgerInit, DraftTerms, NoIntent
<1>5. \A s \in Sessions : Knows(s)
  BY DEF Init, Knows, Evaluating
<1> QED BY <1>1, <1>3, <1>4, <1>5 DEF LifecycleInv

\* The lifecycle invariant is inductive.
LEMMA LifecycleInvStep == LifecycleInv /\ [Next]_vars => LifecycleInv'
<1> SUFFICES ASSUME LifecycleInv, [Next]_vars PROVE LifecycleInv'
  OBVIOUS
<1>1. [LedgerNext]_ledger BY StepRefines
<1>2. LedgerTypeOK' BY <1>1, TypeStep DEF LifecycleInv
<1>3. DraftTerms' BY <1>1, DraftTermsStep
<1> QED BY <1>2, <1>3, TypesStep, KnowsStep DEF LifecycleInv

\* The locks protect what the transactions rely on, in every behaviour.
THEOREM LocksHold == Spec => []LifecycleInv
BY LifecycleInvInit, LifecycleInvStep, PTL DEF Spec

\* The lifecycle with its sessions, locks and separate reads implements the
\* atomic ledger.
THEOREM Refinement == Spec => LedgerSpec
<1>1. Init => LedgerInit BY DEF Init
<1>2. QED BY <1>1, StepRefines, LocksHold, PTL DEF Spec, LedgerSpec

\* Every property of the atomic ledger holds of the lifecycle.
THEOREM Safety == Spec => []LedgerInv
BY Refinement, LedgerInvariant, PTL

\* No interleaving of evaluations ever opens more than MaxOpen positions.
THEOREM OpenLimitHolds == Spec => []OpenLimit
<1>1. LedgerInv => OpenLimit BY DEF LedgerInv
<1>2. QED BY <1>1, Safety, PTL

\* However submissions, cancellations and retries race, an intent is decided at
\* most once and a cancelled one never.
THEOREM DecidedOnceHolds == Spec => []DecidedOnce
<1>1. LedgerInv => DecidedOnce BY DEF LedgerInv
<1>2. QED BY <1>1, Safety, PTL

\* Every position stems from one approved, long, unlevered intent of its size.
THEOREM PositionPerApprovalHolds == Spec => []PositionPerApproval
<1>1. LedgerInv => PositionPerApproval BY DEF LedgerInv
<1>2. QED BY <1>1, Safety, PTL

\* A signal and the live intent made from it always agree about each other.
THEOREM SignalClaimHolds == Spec => []SignalClaim
<1>1. LedgerInv => SignalClaim BY DEF LedgerInv
<1>2. QED BY <1>1, Safety, PTL

\* Whatever marks race a close, the realized result is that of the stored value.
THEOREM RealizedIsExactHolds == Spec => []RealizedIsExact
<1>1. LedgerInv => RealizedIsExact BY DEF LedgerInv
<1>2. QED BY <1>1, Safety, PTL

\* No step of any session ever rewrites a final row.
THEOREM FinalRowsHold == Spec => FinalRowsStay
BY Refinement, LedgerFinal, PTL

\* The inductive invariant of the audit ledger and the close reviews.
AuditInv ==
  IntentEvents /\ PositionEvents /\ ReviewIsTheClose /\ DOMAIN reviews = Positions

\* Every commit on an intent writes the events its new row calls for.
LEMMA IntentEventsStep ==
  LifecycleInv /\ LedgerInv /\ IntentEvents /\ [Next]_vars => IntentEvents'
<1> SUFFICES ASSUME LifecycleInv, LedgerInv, IntentEvents, [Next]_vars PROVE IntentEvents'
  OBVIOUS
<1>0. /\ LedgerTypeOK /\ LifecycleTypes /\ Blank /\ DecidedOnce
      /\ None \notin Signals
  BY LedgerAssumption DEF LifecycleInv, LedgerInv
<1>1. ASSUME NEW s \in Sessions, DecideRejected(s) PROVE IntentEvents'
  <2>1. PICK i \in Intents :
          /\ Subject(s, i)
          /\ intents' = [intents EXCEPT ![i] = [req[s].row EXCEPT !.status = "rejected"]]
          /\ decisions' = [decisions EXCEPT ![i] = Append(@, "rejected")]
          /\ audit' = audit \cup Evidence(s, i) \cup {<<"trade_decision_rejected", i>>}
    BY <1>1 DEF DecideRejected
  <2>2. /\ intents'[i].status = "rejected"
        /\ intents'[i].signal = req[s].row.signal
        /\ decisions'[i] # <<>>
        /\ \A j \in Intents : j # i =>
             intents'[j] = intents[j] /\ decisions'[j] = decisions[j]
    BY <1>0, <2>1 DEF LedgerTypeOK, LifecycleTypes, RequestRow, IntentRow
  <2>3. CASE req[s].intent = None
    <3>1. /\ intents[i].status = "none" /\ intents[i].signal = None
          /\ decisions[i] = <<>>
          /\ req[s].row.signal = None
      BY <1>0, <1>1, <2>1, <2>3
      DEF Subject, Blank, DecidedOnce, NoIntent, DecideRejected, LifecycleInv, Knows,
          Evaluating, ManualRequests
    <3>2. audit' = audit \cup {<<"trade_intent_created", i>>, <<"trade_decision_rejected", i>>}
      BY <2>1, <2>3 DEF Evidence
    <3>3. QED BY <2>2, <3>1, <3>2 DEF IntentEvents
  <2>4. CASE req[s].intent # None
    <3>1. /\ intents[i].status = "draft" /\ decisions[i] = <<>>
          /\ req[s].row = intents[i] /\ intents[i].signal \in Signals
      BY <1>0, <1>1, <2>1, <2>4
      DEF Subject, DecidedOnce, DecideRejected, LifecycleInv, Knows, Evaluating, DraftTerms
    <3>2. audit' = audit \cup {<<"trade_intent_submitted_for_review", i>>,
                               <<"trade_decision_rejected", i>>}
      BY <2>1, <2>4 DEF Evidence
    <3>3. QED BY <1>0, <2>2, <3>1, <3>2 DEF IntentEvents
  <2>5. QED BY <2>3, <2>4
<1>2. ASSUME NEW s \in Sessions, DecideApproved(s) PROVE IntentEvents'
  <2>1. PICK i \in Intents, p \in Positions :
          /\ Subject(s, i)
          /\ intents' = [intents EXCEPT ![i] = [req[s].row EXCEPT !.status = "approved"]]
          /\ decisions' = [decisions EXCEPT ![i] = Append(@, "approved")]
          /\ audit' = audit \cup Evidence(s, i)
                            \cup {<<"trade_decision_approved", i>>, <<"position_opened", p>>}
    BY <1>2 DEF DecideApproved
  <2>2. /\ intents'[i].status = "approved"
        /\ intents'[i].signal = req[s].row.signal
        /\ decisions'[i] # <<>>
        /\ \A j \in Intents : j # i =>
             intents'[j] = intents[j] /\ decisions'[j] = decisions[j]
    BY <1>0, <2>1 DEF LedgerTypeOK, LifecycleTypes, RequestRow, IntentRow
  <2>3. CASE req[s].intent = None
    <3>1. /\ intents[i].status = "none" /\ intents[i].signal = None
          /\ decisions[i] = <<>>
          /\ req[s].row.signal = None
      BY <1>0, <1>2, <2>1, <2>3
      DEF Subject, Blank, DecidedOnce, NoIntent, DecideApproved, LifecycleInv, Knows,
          Evaluating, ManualRequests
    <3>2. audit' = audit \cup {<<"trade_intent_created", i>>,
                               <<"trade_decision_approved", i>>, <<"position_opened", p>>}
      BY <2>1, <2>3 DEF Evidence
    <3>3. QED BY <2>2, <3>1, <3>2 DEF IntentEvents
  <2>4. CASE req[s].intent # None
    <3>1. /\ intents[i].status = "draft" /\ decisions[i] = <<>>
          /\ req[s].row = intents[i] /\ intents[i].signal \in Signals
      BY <1>0, <1>2, <2>1, <2>4
      DEF Subject, DecidedOnce, DecideApproved, LifecycleInv, Knows, Evaluating, DraftTerms
    <3>2. audit' = audit \cup {<<"trade_intent_submitted_for_review", i>>,
                               <<"trade_decision_approved", i>>, <<"position_opened", p>>}
      BY <2>1, <2>4 DEF Evidence
    <3>3. QED BY <1>0, <2>2, <3>1, <3>2 DEF IntentEvents
  <2>5. QED BY <2>3, <2>4
<1>3. ASSUME NEW s \in Sessions, CreateDraft(s) PROVE IntentEvents'
  <2>1. PICK i \in Intents :
          /\ intents[i].status = "none"
          /\ intents' = [intents EXCEPT ![i] =
               [status |-> "draft", side |-> "buy", leverage |-> 1,
                notional |-> signals[req[s].signal].notional, signal |-> req[s].signal]]
          /\ audit' = audit \cup {<<"signal_converted_to_draft_trade_intent", i>>}
    BY <1>3 DEF CreateDraft
  <2>2. intents[i] = NoIntent /\ decisions[i] = <<>> /\ decisions' = decisions
    BY <1>0, <1>3, <2>1 DEF Blank, DecidedOnce, CreateDraft
  <2>3. req[s].signal \in Signals
    BY <1>3 DEF CreateDraft, LifecycleInv, Knows
  <2>4. QED BY <1>0, <2>1, <2>2, <2>3 DEF IntentEvents, LedgerTypeOK, NoIntent
<1>4. ASSUME NEW s \in Sessions, WithdrawDraft(s) PROVE IntentEvents'
  <2>1. req[s].intent \in Intents /\ intents[req[s].intent].status = "draft"
    BY <1>4 DEF WithdrawDraft, LifecycleInv, Knows
  <2>2. /\ intents'[req[s].intent].status = "cancelled"
        /\ intents'[req[s].intent].signal = intents[req[s].intent].signal
        /\ \A j \in Intents : j # req[s].intent => intents'[j] = intents[j]
        /\ decisions' = decisions
        /\ audit' = audit \cup {<<"draft_trade_intent_cancelled", req[s].intent>>}
    BY <1>0, <1>4, <2>1 DEF WithdrawDraft, LedgerTypeOK, IntentRow
  <2>3. QED BY <2>1, <2>2 DEF IntentEvents
<1>5. ASSUME NEW s \in Sessions, CloseWithReview(s) PROVE IntentEvents'
  BY <1>5 DEF CloseWithReview, ReviewEvidence, IntentEvents
<1>6. ASSUME NEW s \in Sessions, CloseDirectly(s) PROVE IntentEvents'
  <2>1. /\ req[s].position \in Positions
        /\ positions[req[s].position].status = "open"
    BY <1>6 DEF CloseDirectly, LifecycleInv, Knows
  <2>2. \A j \in Intents :
          /\ intents'[j].signal = intents[j].signal
          /\ intents'[j].status # intents[j].status =>
               intents[j].status = "approved" /\ intents'[j].status = "closed"
    <3>1. /\ positions[req[s].position].intent \in Intents
          /\ intents[positions[req[s].position].intent].status \in {"approved", "closed"}
      BY <2>1 DEF LedgerInv, PositionPerApproval
    <3>2. QED BY <1>0, <1>6, <3>1 DEF CloseDirectly, LedgerTypeOK, IntentRow
  <2>3. /\ decisions' = decisions
        /\ audit' = audit \cup {<<"position_closed", req[s].position>>}
    BY <1>6 DEF CloseDirectly
  <2>4. QED BY <2>2, <2>3 DEF IntentEvents
<1>7. CASE UNCHANGED <<intents, decisions, audit>>
  BY <1>7 DEF IntentEvents
<1>8. ASSUME NEW s \in Sessions, Quiet(s) PROVE IntentEvents'
  BY <1>7, <1>8, QuietBook, QuietLedger DEF ledger, book
<1>9. ASSUME \/ \E b \in BaseCapitals : UpdateBaseCapital(b)
             \/ Tick \/ UNCHANGED vars
      PROVE  IntentEvents'
  BY <1>7, <1>9 DEF UpdateBaseCapital, Tick, vars, ledger, book
<1>10. ASSUME NEW p \in Positions, NEW v \in Valuations, MarkPosition(p, v)
       PROVE  IntentEvents'
  BY <1>10 DEF MarkPosition, IntentEvents
<1> QED
  <2>1. CASE Next
    BY <2>1, NextCases, <1>1, <1>2, <1>3, <1>4, <1>5, <1>6, <1>8, <1>9, <1>10 DEF Writes
  <2>2. QED BY <1>9, <2>1

\* What a close review leaves in the row of the position and of the others.
LEMMA ReviewedRow ==
  ASSUME LifecycleInv, DOMAIN reviews = Positions, NEW s \in Sessions, CloseWithReview(s),
         reviews[req[s].position] = <<>>
  PROVE  LET p == req[s].position IN
         /\ p \in Positions /\ positions[p].status = "open"
         /\ positions'[p].status = "closed"
         /\ \A q \in Positions : q # p => positions'[q] = positions[q]
         /\ reviews'[p] = <<positions'[p].realized>>
         /\ \A q \in Positions : q # p => reviews'[q] = reviews[q]
<1>1. /\ req[s].position \in Positions
      /\ positions[req[s].position].status = "open"
  BY DEF CloseWithReview, LifecycleInv, Knows
<1>2. QED BY <1>1 DEF CloseWithReview, LifecycleInv, LedgerTypeOK, PositionRow

\* What the direct path leaves in the row of the position and of the others.
LEMMA DirectlyClosedRow ==
  ASSUME LifecycleInv, NEW s \in Sessions, CloseDirectly(s)
  PROVE  LET p == req[s].position IN
         /\ p \in Positions /\ positions[p].status = "open"
         /\ positions'[p].status = "closed"
         /\ \A q \in Positions : q # p => positions'[q] = positions[q]
         /\ reviews' = reviews
<1>1. /\ req[s].position \in Positions
      /\ positions[req[s].position].status = "open"
  BY DEF CloseDirectly, LifecycleInv, Knows
<1>2. QED BY <1>1 DEF CloseDirectly, LifecycleInv, LedgerTypeOK, PositionRow

\* Every commit on a position writes the events its new row calls for, and an
\* open position has neither a review nor a closing event.
LEMMA PositionEventsStep ==
  LifecycleInv /\ DOMAIN reviews = Positions /\ PositionEvents /\ ReviewIsTheClose
  /\ [Next]_vars
    => PositionEvents' /\ ReviewIsTheClose'
<1> SUFFICES ASSUME LifecycleInv, DOMAIN reviews = Positions, PositionEvents,
                    ReviewIsTheClose, [Next]_vars
             PROVE  PositionEvents' /\ ReviewIsTheClose'
  OBVIOUS
<1>0. LedgerTypeOK
  BY DEF LifecycleInv
<1> USE DEF PositionEvents, ReviewIsTheClose, Closed
<1>1. CASE /\ \A p \in Positions : /\ positions'[p].status = positions[p].status
                                   /\ positions'[p].realized = positions[p].realized
           /\ reviews' = reviews
           /\ \A e \in {"position_opened", "paper_position_closed", "position_closed",
                        "paper_position_close_review_approved"}, p \in Positions :
                <<e, p>> \in audit' <=> <<e, p>> \in audit
           /\ \A p \in Positions : <<"position_marked_to_market", p>> \in audit' =>
                \/ <<"position_marked_to_market", p>> \in audit
                \/ positions[p].status = "open"
  BY <1>1
<1>2. ASSUME NEW s \in Sessions, DecideRejected(s) \/ CreateDraft(s) \/ WithdrawDraft(s)
      PROVE  PositionEvents' /\ ReviewIsTheClose'
  BY <1>1, <1>2 DEF DecideRejected, CreateDraft, WithdrawDraft, Evidence
<1>3. ASSUME NEW s \in Sessions, DecideApproved(s)
      PROVE  PositionEvents' /\ ReviewIsTheClose'
  <2>1. PICK i \in Intents, p \in Positions :
          /\ positions[p].status = "none"
          /\ positions' = [positions EXCEPT ![p] =
               [status |-> "open", intent |-> i, entry |-> req[s].row.notional,
                current |-> req[s].row.notional, realized |-> 0]]
          /\ audit' = audit \cup Evidence(s, i)
                            \cup {<<"trade_decision_approved", i>>, <<"position_opened", p>>}
    BY <1>3 DEF DecideApproved
  <2>2. /\ positions'[p].status = "open"
        /\ \A q \in Positions : q # p => positions'[q] = positions[q]
        /\ reviews' = reviews
    BY <1>0, <1>3, <2>1 DEF DecideApproved, LedgerTypeOK
  <2>3. /\ <<"position_opened", p>> \in audit'
        /\ \A q \in Positions : q # p =>
             (<<"position_opened", q>> \in audit' <=> <<"position_opened", q>> \in audit)
        /\ \A e \in {"paper_position_closed", "position_closed", "position_marked_to_market",
                     "paper_position_close_review_approved"}, q \in Positions :
             <<e, q>> \in audit' <=> <<e, q>> \in audit
    BY <2>1 DEF Evidence
  <2>4. QED BY <2>1, <2>2, <2>3
<1>4. ASSUME NEW s \in Sessions, CloseWithReview(s)
      PROVE  PositionEvents' /\ ReviewIsTheClose'
  <2>1. /\ req[s].position \in Positions
        /\ positions[req[s].position].status = "open"
    BY <1>4 DEF CloseWithReview, LifecycleInv, Knows
  <2>2. reviews[req[s].position] = <<>> /\ <<"position_closed", req[s].position>> \notin audit
    BY <2>1
  <2>3. /\ positions'[req[s].position].status = "closed"
        /\ \A q \in Positions : q # req[s].position => positions'[q] = positions[q]
    BY <1>4, <2>2, ReviewedRow
  <2>4. /\ reviews'[req[s].position] = <<positions'[req[s].position].realized>>
        /\ \A q \in Positions : q # req[s].position => reviews'[q] = reviews[q]
    BY <1>4, <2>2, ReviewedRow
  <2>5. audit' = audit \cup {<<"paper_position_close_review_approved", req[s].position>>,
                             <<"paper_position_closed", req[s].position>>}
    BY <1>4 DEF CloseWithReview, ReviewEvidence
  <2>6. /\ \A e \in {"paper_position_closed", "paper_position_close_review_approved"} :
             <<e, req[s].position>> \in audit'
        /\ \A e \in {"position_opened", "position_closed", "position_marked_to_market"},
             q \in Positions :
             <<e, q>> \in audit' <=> <<e, q>> \in audit
        /\ \A e \in {"paper_position_closed", "paper_position_close_review_approved"},
             q \in Positions :
               q # req[s].position => (<<e, q>> \in audit' <=> <<e, q>> \in audit)
    BY <2>5
  <2>7. <<positions'[req[s].position].realized>> # <<>>
    OBVIOUS
  <2>8. PositionEvents'
    <3>1. ASSUME NEW q \in Positions, q # req[s].position
          PROVE  /\ <<"position_opened", q>> \in audit' <=> positions'[q].status # "none"
                 /\ <<"position_marked_to_market", q>> \in audit' =>
                      positions'[q].status # "none"
                 /\ <<"paper_position_closed", q>> \in audit' <=> reviews'[q] # <<>>
                 /\ <<"paper_position_close_review_approved", q>> \in audit'
                      <=> reviews'[q] # <<>>
                 /\ q \in Closed' <=> \/ <<"paper_position_closed", q>> \in audit'
                                      \/ <<"position_closed", q>> \in audit'
      BY <2>3, <2>4, <2>6, <3>1
    <3>2. /\ <<"position_opened", req[s].position>> \in audit'
          /\ <<"paper_position_closed", req[s].position>> \in audit'
          /\ <<"paper_position_close_review_approved", req[s].position>> \in audit'
          /\ req[s].position \in Closed'
          /\ positions'[req[s].position].status # "none"
          /\ reviews'[req[s].position] # <<>>
      BY <2>1, <2>3, <2>4, <2>6, <2>7
    <3>3. QED BY <3>1, <3>2
  <2>9. ReviewIsTheClose'
    BY <2>1, <2>2, <2>3, <2>4, <2>6
  <2>10. QED BY <2>8, <2>9
<1>5. ASSUME NEW s \in Sessions, CloseDirectly(s)
      PROVE  PositionEvents' /\ ReviewIsTheClose'
  <2>1. /\ req[s].position \in Positions
        /\ positions[req[s].position].status = "open"
    BY <1>5 DEF CloseDirectly, LifecycleInv, Knows
  <2>2. reviews[req[s].position] = <<>>
    BY <2>1
  <2>3. /\ positions'[req[s].position].status = "closed"
        /\ \A q \in Positions : q # req[s].position => positions'[q] = positions[q]
        /\ reviews' = reviews
    BY <1>5, DirectlyClosedRow
  <2>4. audit' = audit \cup {<<"position_closed", req[s].position>>}
    BY <1>5 DEF CloseDirectly
  <2>5. QED BY <2>1, <2>2, <2>3, <2>4
<1>6. ASSUME NEW p \in Positions, NEW v \in Valuations, MarkPosition(p, v)
      PROVE  PositionEvents' /\ ReviewIsTheClose'
  <2>1. \A q \in Positions : /\ positions'[q].status = positions[q].status
                             /\ positions'[q].realized = positions[q].realized
    BY <1>0, <1>6 DEF MarkPosition, LedgerTypeOK, PositionRow
  <2>2. /\ reviews' = reviews
        /\ audit' = audit \cup {<<"position_marked_to_market", p>>}
        /\ positions[p].status = "open"
    BY <1>6 DEF MarkPosition, Markable
  <2>3. QED BY <1>1, <2>1, <2>2
<1>7. CASE UNCHANGED <<positions, reviews, audit>>
  BY <1>1, <1>7
<1>8. ASSUME NEW s \in Sessions, Quiet(s) PROVE PositionEvents' /\ ReviewIsTheClose'
  BY <1>7, <1>8, QuietBook, QuietLedger DEF ledger, book
<1>9. CASE \/ \E b \in BaseCapitals : UpdateBaseCapital(b)
           \/ Tick \/ UNCHANGED vars
  BY <1>7, <1>9 DEF UpdateBaseCapital, Tick, vars, ledger
<1> QED
  <2>1. CASE Next
    BY <2>1, NextCases, <1>2, <1>3, <1>4, <1>5, <1>6, <1>8, <1>9 DEF Writes
  <2>2. QED BY <1>9, <2>1

\* There is a list of reviews for every position.
LEMMA ReviewDomainStep ==
  DOMAIN reviews = Positions /\ [Next]_vars => DOMAIN reviews' = Positions
<1> SUFFICES ASSUME DOMAIN reviews = Positions, [Next]_vars
             PROVE  DOMAIN reviews' = Positions
  OBVIOUS
<1>1. ASSUME NEW s \in Sessions, Quiet(s) PROVE reviews' = reviews
  BY <1>1, QuietBook DEF book
<1>2. ASSUME NEW s \in Sessions, Writes(s) PROVE DOMAIN reviews' = DOMAIN reviews
  BY <1>2 DEF Writes, DecideRejected, DecideApproved, CreateDraft, WithdrawDraft,
              CloseWithReview, CloseDirectly
<1>3. CASE Next
  BY <1>1, <1>2, <1>3, NextCases DEF MarkPosition, UpdateBaseCapital, Tick, book
<1>4. CASE UNCHANGED vars
  BY <1>4 DEF vars
<1> QED BY <1>3, <1>4

\* The audit invariant holds in every behaviour.
LEMMA AuditInvariant == Spec => []AuditInv
<1>1. Init => AuditInv
  BY DEF Init, LedgerInit, AuditInv, IntentEvents, PositionEvents, ReviewIsTheClose, NoIntent,
         NoPosition, Closed
<1>2. LifecycleInv /\ LedgerInv /\ AuditInv /\ [Next]_vars => AuditInv'
  BY IntentEventsStep, PositionEventsStep, ReviewDomainStep DEF AuditInv
<1>3. QED BY <1>1, <1>2, LocksHold, Safety, PTL DEF Spec

\* The audit ledger says exactly what the rows say, in every reachable state.
THEOREM AuditLedgerTruthful == Spec => []LedgerMatchesRows
<1>1. AuditInv => LedgerMatchesRows
  BY DEF AuditInv, LedgerMatchesRows
<1>2. QED BY <1>1, AuditInvariant, PTL

\* A close review and its position never disagree, and never both paths close.
THEOREM ReviewsAgree == Spec => []ReviewIsTheClose
<1>1. AuditInv => ReviewIsTheClose
  BY DEF AuditInv
<1>2. QED BY <1>1, AuditInvariant, PTL

(***************************************************************************)
(* Shapes of the stored rest and of what an evaluation has read.           *)
(***************************************************************************)

\* The totals an evaluation reads are sums over positions.
EntriesOf(rows) == [p \in Positions |-> rows[p].entry]
ResultsOf(rows) == [p \in Positions |-> rows[p].realized]

LEMMA TotalsAreSums ==
  ASSUME NEW S \in SUBSET Positions
  PROVE  /\ EntryNotional(S) = SumOn(EntriesOf(positions), S)
         /\ RealizedPnl(S) = SumOn(ResultsOf(positions), S)
BY DEF EntryNotional, RealizedPnl, EntriesOf, ResultsOf, SumOn, SumFunctionOnSet,
       FoldFunctionOnSet, MapThenSumSet, MapThenFoldSet

\* Entries are natural numbers, results are integers, and so are their totals.
LEMMA TotalTypes ==
  ASSUME NEW rows \in [Positions -> PositionRow], NEW S \in SUBSET Positions
  PROVE  /\ IsFiniteSet(S)
         /\ \A p \in S : EntriesOf(rows)[p] \in Nat /\ EntriesOf(rows)[p] = rows[p].entry
         /\ \A p \in S : ResultsOf(rows)[p] \in Int /\ ResultsOf(rows)[p] = rows[p].realized
         /\ SumOn(EntriesOf(rows), S) \in Nat
         /\ SumOn(ResultsOf(rows), S) \in Int
<1>1. IsFiniteSet(S)
  BY LedgerAssumption, FS_Subset
<1>2. \A p \in S : EntriesOf(rows)[p] \in Nat /\ EntriesOf(rows)[p] = rows[p].entry
  BY DEF EntriesOf, PositionRow
<1>3. \A p \in S : ResultsOf(rows)[p] \in Int /\ ResultsOf(rows)[p] = rows[p].realized
  BY DEF ResultsOf, PositionRow
<1>4. SumOn(EntriesOf(rows), S) \in Nat
  BY <1>1, <1>2, SumOnType
<1>5. SumOn(ResultsOf(rows), S) \in Int
  BY <1>1, <1>3, SumOnType
<1> QED
  BY <1>1, <1>2, <1>3, <1>4, <1>5

\* What LifecycleTypes leaves out.
BookTypes ==
  /\ closedAt \in [Positions -> Nat]
  /\ reviews \in [Positions -> Seq(Int)]
  /\ audit \subseteq Events \X (Intents \cup Positions)
  /\ base \in Nat /\ granted \in Nat
  /\ snap \in [Sessions -> Snapshot]

\* A transaction that writes nothing, or ends, leaves a snapshot well shaped.
LEMMA BlankSnapshot == NoSnapshot \in Snapshot
BY DEF NoSnapshot, Snapshot

\* The reads of an evaluation fill in its snapshot.
LEMMA SnapshotStep ==
  ASSUME LifecycleInv, BookTypes, NEW s \in Sessions, Quiet(s)
  PROVE  snap' \in [Sessions -> Snapshot]
<1>1. snap \in [Sessions -> Snapshot] /\ positions \in [Positions -> PositionRow]
  BY DEF BookTypes, LifecycleInv, LedgerTypeOK
<1>2. CASE AcquirePortfolioLock(s)
  BY <1>1, <1>2 DEF AcquirePortfolioLock
<1>3. CASE ReadBaseCapital(s)
  <2>1. [snap[s] EXCEPT !.base = base] \in Snapshot
    BY <1>1 DEF Snapshot, BookTypes
  <2> QED
    BY <1>1, <1>3, <2>1 DEF ReadBaseCapital
<1>4. CASE ReadOpenBook(s)
  <2>1. EntryNotional(Open) \in Int /\ Cardinality(Open) \in Nat
    BY <1>1, OpenCount, TotalsAreSums, TotalTypes DEF Open
  <2>2. [snap[s] EXCEPT !.exposure = EntryNotional(Open), !.open = Cardinality(Open),
                        !.closedAtBook = Closed] \in Snapshot
    BY <1>1, <2>1 DEF Snapshot, Closed
  <2>3. snap' = [snap EXCEPT ![s] =
          [snap[s] EXCEPT !.exposure = EntryNotional(Open), !.open = Cardinality(Open),
                          !.closedAtBook = Closed]]
    BY <1>1, <1>4 DEF ReadOpenBook
  <2> QED
    BY <1>1, <2>2, <2>3
<1>5. CASE ReadRealizedPnl(s)
  <2> DEFINE d == RealizedPnl(ClosedWithin(s, Day))
             w == RealizedPnl(ClosedWithin(s, Week))
  <2>1. d \in Int /\ w \in Int
    <3>1. ClosedWithin(s, Day) \in SUBSET Positions /\ ClosedWithin(s, Week) \in SUBSET Positions
      BY DEF ClosedWithin, Closed
    <3> QED
      BY <1>1, <3>1, TotalsAreSums, TotalTypes
  <2> HIDE DEF d, w
  <2>2. [snap[s] EXCEPT !.daily = d, !.weekly = w] \in Snapshot
    BY <1>1, <2>1 DEF Snapshot
  <2>3. snap' = [snap EXCEPT ![s] = [snap[s] EXCEPT !.daily = d, !.weekly = w]]
    BY <1>1, <1>5 DEF ReadRealizedPnl, d, w
  <2> QED
    BY <1>1, <2>2, <2>3
<1>6. CASE Request(s)
  <2>1. LifecycleTypes
    BY DEF LifecycleInv
  <2> QED
    BY <1>1, <1>6, <2>1, RequestTypes
<1>7. CASE LockDraft(s) \/ LockSignal(s) \/ LockForCancel(s) \/ LockForReview(s) \/ LockForClose(s)
  BY <1>1, <1>7 DEF LockDraft, LockSignal, LockForCancel, LockForReview, LockForClose
<1>8. CASE Rollback(s)
  BY <1>1, <1>8, BlankSnapshot DEF Rollback, Release
<1> QED
  BY <1>2, <1>3, <1>4, <1>5, <1>6, <1>7, <1>8 DEF Quiet

\* Every commit records well-shaped results and events.
LEMMA BookTypesStep ==
  LifecycleInv /\ BookTypes /\ [Next]_vars => BookTypes'
<1> SUFFICES ASSUME LifecycleInv, BookTypes, [Next]_vars PROVE BookTypes'
  OBVIOUS
<1>0. LedgerTypeOK /\ LifecycleTypes /\ \A s \in Sessions : Knows(s)
  BY DEF LifecycleInv
<1> USE DEF BookTypes
<1>1. ASSUME NEW s \in Sessions, Quiet(s) PROVE BookTypes'
  <2>1. UNCHANGED <<closedAt, reviews, audit, base>>
    BY <1>1, QuietBook DEF book
  <2>2. granted' = granted
    BY <1>1 DEF Quiet, Request, AcquirePortfolioLock, LockDraft, ReadBaseCapital, ReadOpenBook,
       ReadRealizedPnl, LockSignal, LockForCancel, LockForReview, LockForClose, Rollback,
       CreateTradeIntent, SubmitDraftForReview, CancelDraft, ConvertSignal,
       RequestCloseReview, CloseRequested
  <2> QED
    BY <1>1, <2>1, <2>2, SnapshotStep
<1>2. ASSUME NEW s \in Sessions, Release(s) PROVE snap' \in [Sessions -> Snapshot]
  BY <1>2, BlankSnapshot DEF Release
<1>3. ASSUME NEW s \in Sessions, DecideRejected(s) PROVE BookTypes'
  <2>1. PICK i \in Intents :
          audit' = audit \cup Evidence(s, i) \cup {<<"trade_decision_rejected", i>>}
    BY <1>3 DEF DecideRejected
  <2>2. audit' \subseteq Events \X (Intents \cup Positions)
    BY <2>1 DEF Evidence, Events
  <2> QED
    BY <1>2, <1>3, <2>2 DEF DecideRejected
<1>4. ASSUME NEW s \in Sessions, DecideApproved(s) PROVE BookTypes'
  <2>1. PICK i \in Intents, p \in Positions :
          audit' = audit \cup Evidence(s, i)
                         \cup {<<"trade_decision_approved", i>>, <<"position_opened", p>>}
    BY <1>4 DEF DecideApproved
  <2>2. audit' \subseteq Events \X (Intents \cup Positions)
    BY <2>1 DEF Evidence, Events
  <2>3. granted' \in Nat
    BY <1>4 DEF DecideApproved, Snapshot
  <2> QED
    BY <1>2, <1>4, <2>2, <2>3 DEF DecideApproved
<1>5. ASSUME NEW s \in Sessions, CreateDraft(s) \/ WithdrawDraft(s) PROVE BookTypes'
  <2>1. PICK i \in Intents :
          \/ audit' = audit \cup {<<"signal_converted_to_draft_trade_intent", i>>}
          \/ audit' = audit \cup {<<"draft_trade_intent_cancelled", i>>}
    BY <1>0, <1>5 DEF CreateDraft, WithdrawDraft, Knows
  <2>2. audit' \subseteq Events \X (Intents \cup Positions)
    BY <2>1 DEF Events
  <2> QED
    BY <1>2, <1>5, <2>2 DEF CreateDraft, WithdrawDraft
<1>6. ASSUME NEW s \in Sessions, CloseWithReview(s) \/ CloseDirectly(s) PROVE BookTypes'
  <2> DEFINE p == req[s].position
             result == positions[p].current - positions[p].entry
  <2>1. p \in Positions /\ req[s].at \in Nat
    BY <1>0, <1>6 DEF CloseWithReview, CloseDirectly, Knows, LifecycleTypes, RequestRow
  <2>2. result \in Int
    BY <1>0, <2>1 DEF LedgerTypeOK, PositionRow
  <2>3. closedAt' = [closedAt EXCEPT ![p] = req[s].at]
    BY <1>6 DEF CloseWithReview, CloseDirectly
  <2>4. reviews' = reviews \/ reviews' = [reviews EXCEPT ![p] = Append(reviews[p], result)]
    BY <1>6 DEF CloseWithReview, CloseDirectly
  <2>5. audit' = audit \cup ReviewEvidence(p) \/ audit' = audit \cup {<<"position_closed", p>>}
    BY <1>6 DEF CloseWithReview, CloseDirectly
  <2>6. base' = base /\ granted' = granted /\ Release(s)
    BY <1>6 DEF CloseWithReview, CloseDirectly
  <2> HIDE DEF p, result
  <2>7. closedAt' \in [Positions -> Nat]
    BY <2>1, <2>3
  <2>8. reviews' \in [Positions -> Seq(Int)]
    <3>1. Append(reviews[p], result) \in Seq(Int)
      BY <2>1, <2>2
    <3> QED
      BY <2>1, <2>4, <3>1
  <2>9. audit' \subseteq Events \X (Intents \cup Positions)
    BY <2>1, <2>5 DEF ReviewEvidence, Events
  <2> QED
    BY <1>2, <2>6, <2>7, <2>8, <2>9
<1>7. ASSUME NEW p \in Positions, NEW v \in Valuations, MarkPosition(p, v) PROVE BookTypes'
  BY <1>7 DEF MarkPosition, local, Events
<1>8. ASSUME NEW b \in BaseCapitals, UpdateBaseCapital(b) PROVE BookTypes'
  BY <1>8, LifecycleAssumption DEF UpdateBaseCapital, local
<1>9. CASE Tick \/ UNCHANGED vars
  BY <1>9 DEF Tick, vars, local
<1> QED
  BY NextCases, <1>1, <1>3, <1>4, <1>5, <1>6, <1>7, <1>8, <1>9 DEF Writes

\* The shapes hold from the start.
LEMMA BookTypesInit == Init => BookTypes
BY BlankSnapshot, LifecycleAssumption DEF Init, BookTypes

\* And in every behaviour.
LEMMA BookHolds == Spec => []BookTypes
BY BookTypesInit, BookTypesStep, LocksHold, PTL DEF Spec

\* Every table, lock and session keeps the shape the code gives it; the totals
\* of an evaluation, read from whatever rows there are, are whole numbers.
THEOREM TypesHold == Spec => []TypeOK
<1>1. LifecycleInv /\ BookTypes => TypeOK
  BY DEF LifecycleInv, LifecycleTypes, BookTypes, TypeOK
<1> QED
  BY <1>1, BookHolds, LocksHold, PTL

(***************************************************************************)
(* Exposure and losses. An evaluation reads its totals in separate         *)
(* statements while closes go on, so neither total is the current one when *)
(* the verdict is written. What makes them safe is the direction of the    *)
(* error: only the holder of the portfolio lock opens a position, so the   *)
(* exposure read is never too low (ExposureInv), and closed rows are       *)
(* final, so the losses read are the real ones of positions that are       *)
(* closed still (LossInv).                                                 *)
(***************************************************************************)

\* A session about to decide is so because it just read the realized results
\* or because nothing happened to it; one about to read them has counted the
\* open book or nothing happened to it.
LEMMA EvaluationSteps ==
  ASSUME LifecycleInv, [Next]_vars, NEW t \in Sessions, pc'[t] \in {"readPnl", "decide"}
  PROVE  \/ pc'[t] = "readPnl" /\ ReadOpenBook(t)
         \/ pc'[t] = "decide" /\ ReadRealizedPnl(t)
         \/ pc'[t] = pc[t] /\ req'[t] = req[t] /\ snap'[t] = snap[t]
<1>1. LifecycleTypes
  BY DEF LifecycleInv
<1>2. ASSUME NEW s \in Sessions, Quiet(s), s # t PROVE Undisturbed(t)
  BY <1>2, QuietUndisturbed
<1>3. ASSUME NEW s \in Sessions, Writes(s), s # t PROVE Undisturbed(t)
  BY <1>3, WritesUndisturbed
<1>4. ASSUME Quiet(t) PROVE ReadOpenBook(t) \/ ReadRealizedPnl(t)
  BY <1>1, <1>4 DEF Quiet, Request, CreateTradeIntent, SubmitDraftForReview, CancelDraft,
     ConvertSignal, RequestCloseReview, CloseRequested, Call, AcquirePortfolioLock, LockDraft,
     ReadBaseCapital, LockSignal, LockForCancel, LockForReview, LockForClose, Rollback, Release,
     Goto, LifecycleTypes
<1>5. ~ Writes(t)
  <2>1. Writes(t) => Release(t)
    BY DEF Writes, DecideRejected, DecideApproved, CreateDraft, WithdrawDraft, CloseWithReview,
       CloseDirectly
  <2> QED
    BY <1>1, <2>1 DEF Release, LifecycleTypes
<1>6. CASE \/ \E p \in Positions, v \in Valuations : MarkPosition(p, v)
           \/ \E b \in BaseCapitals : UpdateBaseCapital(b)
           \/ Tick \/ UNCHANGED vars
  BY <1>6 DEF MarkPosition, UpdateBaseCapital, Tick, vars, local
<1>7. ReadOpenBook(t) => pc'[t] = "readPnl"
  BY <1>1 DEF ReadOpenBook, Goto, LifecycleTypes
<1>8. ReadRealizedPnl(t) => pc'[t] = "decide"
  BY <1>1 DEF ReadRealizedPnl, Goto, LifecycleTypes
<1> QED
  BY NextCases, <1>2, <1>3, <1>4, <1>5, <1>6, <1>7, <1>8 DEF Undisturbed

\* A close, by either path, writes to the open position it has locked only.
LEMMA ClosedRow ==
  ASSUME LifecycleInv, NEW s \in Sessions, CloseWithReview(s) \/ CloseDirectly(s)
  PROVE  LET p == req[s].position IN
         /\ p \in Positions /\ positions[p].status = "open"
         /\ positions'[p].status = "closed"
         /\ \A q \in Positions : q # p => positions'[q] = positions[q]
<1>1. /\ req[s].position \in Positions
      /\ positions[req[s].position].status = "open"
  BY DEF CloseWithReview, CloseDirectly, LifecycleInv, Knows
<1>2. CASE CloseWithReview(s)
  BY <1>1, <1>2 DEF CloseWithReview, LifecycleInv, LedgerTypeOK, PositionRow
<1>3. CASE CloseDirectly(s)
  BY <1>1, <1>3 DEF CloseDirectly, LifecycleInv, LedgerTypeOK, PositionRow
<1> QED
  BY <1>2, <1>3

\* Apart from an approval, no step opens a position or changes what one cost.
LEMMA OpenBookShrinks ==
  ASSUME LifecycleInv, [Next]_vars, \A s \in Sessions : ~ DecideApproved(s)
  PROVE  /\ Open' \subseteq Open /\ granted' = granted
         /\ \A p \in Open' : positions'[p].entry = positions[p].entry
<1>1. LedgerTypeOK /\ \A s \in Sessions : Knows(s)
  BY DEF LifecycleInv
<1>2. ASSUME positions' = positions
      PROVE  /\ Open' \subseteq Open
             /\ \A p \in Open' : positions'[p].entry = positions[p].entry
  BY <1>2 DEF Open
<1>3. ASSUME NEW s \in Sessions, CloseWithReview(s) \/ CloseDirectly(s)
      PROVE  /\ Open' \subseteq Open
             /\ \A p \in Open' : positions'[p].entry = positions[p].entry
  BY <1>3, ClosedRow DEF Open
<1>4. ASSUME NEW p \in Positions, NEW v \in Valuations, MarkPosition(p, v)
      PROVE  /\ Open' \subseteq Open
             /\ \A q \in Open' : positions'[q].entry = positions[q].entry
  BY <1>1, <1>4 DEF MarkPosition, LedgerTypeOK, PositionRow, Open
<1>5. ASSUME NEW s \in Sessions, Quiet(s) PROVE positions' = positions /\ granted' = granted
  <2>1. granted' = granted
    BY <1>5 DEF Quiet, Request, AcquirePortfolioLock, LockDraft, ReadBaseCapital, ReadOpenBook,
       ReadRealizedPnl, LockSignal, LockForCancel, LockForReview, LockForClose, Rollback,
       CreateTradeIntent, SubmitDraftForReview, CancelDraft, ConvertSignal,
       RequestCloseReview, CloseRequested
  <2> QED
    BY <1>5, <2>1, QuietLedger DEF ledger
<1>6. ASSUME NEW s \in Sessions, DecideRejected(s) \/ CreateDraft(s) \/ WithdrawDraft(s)
      PROVE  positions' = positions /\ granted' = granted
  BY <1>6 DEF DecideRejected, CreateDraft, WithdrawDraft
<1>7. CASE \/ \E b \in BaseCapitals : UpdateBaseCapital(b)
           \/ Tick \/ UNCHANGED vars
  <2>1. positions' = positions /\ granted' = granted
    BY <1>7 DEF UpdateBaseCapital, Tick, vars, ledger
  <2> QED
    BY <1>2, <2>1
<1>8. ASSUME NEW s \in Sessions, CloseWithReview(s) \/ CloseDirectly(s) PROVE granted' = granted
  BY <1>8 DEF CloseWithReview, CloseDirectly
<1>9. ASSUME NEW p \in Positions, NEW v \in Valuations, MarkPosition(p, v)
      PROVE  granted' = granted
  BY <1>9 DEF MarkPosition
<1> QED
  BY NextCases, <1>2, <1>3, <1>4, <1>5, <1>6, <1>7, <1>8, <1>9 DEF Writes

\* The open exposure is a total of entries, before and after a step.
LEMMA ExposureIsTotal ==
  ASSUME LedgerTypeOK, LedgerTypeOK'
  PROVE  /\ EntryNotional(Open) = SumOn(EntriesOf(positions), Open)
         /\ EntryNotional(Open)' = SumOn(EntriesOf(positions'), Open')
         /\ EntryNotional(Open) \in Nat /\ EntryNotional(Open)' \in Nat
<1>1. Open \in SUBSET Positions /\ Open' \in SUBSET Positions
  BY DEF Open
<1>2. EntryNotional(Open) = SumOn(EntriesOf(positions), Open)
  BY <1>1, TotalsAreSums
<1>3. EntryNotional(Open)' = SumOn(EntriesOf(positions'), Open')
  BY <1>1 DEF EntryNotional, EntriesOf, SumOn, SumFunctionOnSet, FoldFunctionOnSet,
              MapThenSumSet, MapThenFoldSet
<1>4. positions \in [Positions -> PositionRow] /\ positions' \in [Positions -> PositionRow]
  BY DEF LedgerTypeOK
<1> QED
  BY <1>1, <1>2, <1>3, <1>4, TotalTypes

\* When the open book shrinks, so does the exposure.
LEMMA ExposureShrinks ==
  ASSUME LedgerTypeOK, LedgerTypeOK', Open' \subseteq Open,
         \A p \in Open' : positions'[p].entry = positions[p].entry
  PROVE  EntryNotional(Open)' <= EntryNotional(Open)
<1>1. /\ Open \in SUBSET Positions /\ Open' \in SUBSET Positions
      /\ positions \in [Positions -> PositionRow] /\ positions' \in [Positions -> PositionRow]
  BY DEF Open, LedgerTypeOK
<1>2. /\ IsFiniteSet(Open) /\ IsFiniteSet(Open')
      /\ \A p \in Open : EntriesOf(positions)[p] \in Nat
      /\ \A p \in Open' : EntriesOf(positions')[p] = EntriesOf(positions)[p]
  BY <1>1, TotalTypes
<1>3. SumOn(EntriesOf(positions'), Open') = SumOn(EntriesOf(positions), Open')
  BY <1>2, SumOnSame
<1>4. SumOn(EntriesOf(positions), Open') <= SumOn(EntriesOf(positions), Open)
  BY <1>2, SumOnPart
<1> QED
  BY <1>3, <1>4, ExposureIsTotal

\* An approval adds the entry of the new position, its order's notional.
LEMMA ExposureGrows ==
  ASSUME LifecycleInv, LedgerTypeOK', NEW s \in Sessions, DecideApproved(s)
  PROVE  /\ EntryNotional(Open)' = EntryNotional(Open) + req[s].row.notional
         /\ req[s].row.notional \in Nat
<1>1. LedgerTypeOK /\ LifecycleTypes
  BY DEF LifecycleInv
<1>2. /\ Open \in SUBSET Positions /\ Open' \in SUBSET Positions
      /\ positions \in [Positions -> PositionRow] /\ positions' \in [Positions -> PositionRow]
  BY <1>1 DEF Open, LedgerTypeOK
<1>3. PICK p \in Positions, i \in Intents :
        /\ positions[p].status = "none"
        /\ positions' = [positions EXCEPT ![p] =
             [status |-> "open", intent |-> i, entry |-> req[s].row.notional,
              current |-> req[s].row.notional, realized |-> 0]]
  BY DEF DecideApproved
<1>4. /\ positions'[p].status = "open" /\ positions'[p].entry = req[s].row.notional
      /\ \A q \in Positions : q # p => positions'[q] = positions[q]
  BY <1>2, <1>3
<1>5. p \notin Open /\ Open' = Open \cup {p}
  BY <1>3, <1>4 DEF Open
<1>6. /\ IsFiniteSet(Open)
      /\ \A q \in Open' : EntriesOf(positions')[q] \in Nat
                          /\ EntriesOf(positions')[q] = positions'[q].entry
      /\ \A q \in Open : EntriesOf(positions)[q] = positions[q].entry
  BY <1>2, TotalTypes
<1>7. SumOn(EntriesOf(positions'), Open') =
        SumOn(EntriesOf(positions'), Open) + EntriesOf(positions')[p]
  <2>1. \A q \in Open \cup {p} : EntriesOf(positions')[q] \in Int
    BY <1>5, <1>6
  <2> QED
    BY <1>5, <1>6, <2>1, SumOnAdd
<1>8. SumOn(EntriesOf(positions'), Open) = SumOn(EntriesOf(positions), Open)
  <2>1. \A q \in Open : EntriesOf(positions')[q] = EntriesOf(positions)[q]
    BY <1>2, <1>4, <1>5, <1>6
  <2> QED
    BY <1>6, <2>1, SumOnSame
<1>9. EntriesOf(positions')[p] = req[s].row.notional /\ req[s].row.notional \in Nat
  BY <1>4, <1>5, <1>6
<1> QED
  BY <1>1, <1>7, <1>8, <1>9, ExposureIsTotal

\* The exposure limit, and that the exposure a session is about to check is
\* never below the current one.
ExposureInv ==
  /\ ExposureWithinGranted
  /\ \A s \in Sessions : pc[s] \in {"readPnl", "decide"} =>
       EntryNotional(Open) <= snap[s].exposure

\* Nothing but an approval raises the exposure, and an approval checked a total
\* at least as high, with its own order on top.
LEMMA ExposureStep ==
  ASSUME LifecycleInv, BookTypes, BookTypes', LedgerTypeOK', ExposureInv, [Next]_vars
  PROVE  ExposureInv'
<1> DEFINE before == EntryNotional(Open)
<1>0. LedgerTypeOK /\ LifecycleTypes
  BY DEF LifecycleInv
<1>1. EntryNotional(Open) \in Nat /\ EntryNotional(Open)' \in Nat
  BY <1>0, ExposureIsTotal
<1>2. ASSUME NEW s \in Sessions, DecideApproved(s) PROVE ExposureInv'
  <2>1. /\ EntryNotional(Open)' = EntryNotional(Open) + req[s].row.notional
        /\ req[s].row.notional \in Nat
    BY <1>2, ExposureGrows
  <2>2. EntryNotional(Open) <= snap[s].exposure
    BY <1>2 DEF DecideApproved, ExposureInv
  <2>3. 10 * (snap[s].exposure + req[s].row.notional) <= 6 * granted'
    BY <1>2 DEF DecideApproved, LevelOneRules, WithinExposure
  <2>4. snap[s].exposure \in Int /\ granted' \in Nat
    BY DEF BookTypes, Snapshot
  <2>5. 10 * EntryNotional(Open)' <= 6 * granted'
    BY <1>1, <2>1, <2>2, <2>3, <2>4
  <2>6. ASSUME NEW t \in Sessions PROVE pc'[t] \notin {"readPnl", "decide"}
    <3>1. CASE t = s
      BY <1>0, <1>2, <3>1 DEF DecideApproved, Release, LifecycleTypes
    <3>2. CASE t # s
      <4>1. portfolioLock = s
        BY <1>2 DEF DecideApproved, LifecycleInv, Knows, Evaluating
      <4>2. pc[t] \notin {"readPnl", "decide"}
        BY <3>2, <4>1 DEF LifecycleInv, Knows, Evaluating
      <4> QED
        BY <1>0, <1>2, <3>2, <4>2 DEF DecideApproved, Release, LifecycleTypes
    <3> QED
      BY <3>1, <3>2
  <2> QED
    BY <2>5, <2>6 DEF ExposureInv, ExposureWithinGranted
<1>3. CASE \A s \in Sessions : ~ DecideApproved(s)
  <2>1. /\ Open' \subseteq Open /\ granted' = granted
        /\ \A p \in Open' : positions'[p].entry = positions[p].entry
    BY <1>3, OpenBookShrinks
  <2>2. EntryNotional(Open)' <= EntryNotional(Open)
    BY <1>0, <2>1, ExposureShrinks
  <2>3. 10 * EntryNotional(Open)' <= 6 * granted'
    <3>1. 10 * EntryNotional(Open) <= 6 * granted /\ granted \in Nat
      BY DEF ExposureInv, ExposureWithinGranted, BookTypes
    <3> QED
      BY <1>1, <2>1, <2>2, <3>1
  <2>4. ASSUME NEW t \in Sessions, pc'[t] \in {"readPnl", "decide"}
        PROVE  EntryNotional(Open)' <= snap'[t].exposure
    <3>0. snap'[t].exposure \in Int /\ snap[t].exposure \in Int
      BY DEF BookTypes, Snapshot
    <3>1. CASE ReadOpenBook(t)
      <4>1. snap'[t].exposure = EntryNotional(Open)
        BY <3>1 DEF ReadOpenBook, BookTypes, Snapshot
      <4> QED
        BY <2>2, <4>1
    <3>2. CASE ReadRealizedPnl(t)
      <4>1. snap'[t].exposure = snap[t].exposure /\ pc[t] = "readPnl"
        BY <3>2 DEF ReadRealizedPnl, BookTypes, Snapshot
      <4>2. EntryNotional(Open) <= snap[t].exposure
        BY <4>1 DEF ExposureInv
      <4> QED
        BY <1>1, <2>2, <3>0, <4>1, <4>2
    <3>3. CASE pc'[t] = pc[t] /\ snap'[t] = snap[t]
      <4>1. EntryNotional(Open) <= snap[t].exposure
        BY <2>4, <3>3 DEF ExposureInv
      <4> QED
        BY <1>1, <2>2, <3>0, <3>3, <4>1
    <3> QED
      BY <2>4, <3>1, <3>2, <3>3, EvaluationSteps
  <2> QED
    BY <2>3, <2>4 DEF ExposureInv, ExposureWithinGranted
<1> QED
  BY <1>2, <1>3

\* Nothing is open at first.
LEMMA ExposureInit == Init => ExposureInv
<1> SUFFICES ASSUME Init PROVE ExposureInv
  OBVIOUS
<1>1. Open = {} /\ granted = 0 /\ LedgerTypeOK
  BY TypeInit DEF Init, LedgerInit, Open, NoPosition
<1>2. EntryNotional(Open) = 0
  BY <1>1, TotalsAreSums, SumOnEmpty
<1> QED
  BY <1>1, <1>2 DEF Init, ExposureInv, ExposureWithinGranted

\* Whatever opens, closes and moves capital while an evaluation reads, the open
\* exposure stays within 60% of the capital the last approval was checked
\* against.
THEOREM ExposureHolds == Spec => []ExposureWithinGranted
<1>1. LifecycleInv /\ LifecycleInv' /\ BookTypes /\ BookTypes' /\ ExposureInv /\ [Next]_vars
        => ExposureInv'
  BY ExposureStep DEF LifecycleInv
<1>2. ExposureInv => ExposureWithinGranted
  BY DEF ExposureInv
<1> QED
  BY <1>1, <1>2, ExposureInit, BookHolds, LocksHold, PTL DEF Spec

\* What a close leaves behind of a position is final: it stays closed, at the
\* time and with the result it was closed with.
LEMMA ClosedForGood ==
  ASSUME LifecycleInv, LedgerInv, BookTypes, [Next]_vars
  PROVE  /\ Closed \subseteq Closed'
         /\ \A p \in Closed : positions'[p] = positions[p] /\ closedAt'[p] = closedAt[p]
<1>1. [LedgerNext]_ledger
  BY StepRefines
<1>2. \A p \in Closed : positions'[p] = positions[p]
  <2>1. [Final]_ledger
    BY <1>1, FinalStep DEF LedgerInv
  <2> QED
    BY <2>1 DEF Final, ledger
<1>3. \A p \in Closed : closedAt'[p] = closedAt[p]
  <2>1. ASSUME NEW s \in Sessions, CloseWithReview(s) \/ CloseDirectly(s)
        PROVE  \A p \in Closed : closedAt'[p] = closedAt[p]
    <3>1. req[s].position \notin Closed
      BY <2>1, ClosedRow DEF Closed
    <3>2. closedAt' = [closedAt EXCEPT ![req[s].position] = req[s].at]
      BY <2>1 DEF CloseWithReview, CloseDirectly
    <3> QED
      BY <3>1, <3>2 DEF BookTypes, Closed
  <2>2. ASSUME NEW s \in Sessions, Quiet(s) PROVE closedAt' = closedAt
    BY <2>2, QuietBook DEF book
  <2>3. ASSUME NEW s \in Sessions,
               DecideRejected(s) \/ DecideApproved(s) \/ CreateDraft(s) \/ WithdrawDraft(s)
        PROVE  closedAt' = closedAt
    BY <2>3 DEF DecideRejected, DecideApproved, CreateDraft, WithdrawDraft
  <2>4. CASE \/ \E p \in Positions, v \in Valuations : MarkPosition(p, v)
             \/ \E b \in BaseCapitals : UpdateBaseCapital(b)
             \/ Tick \/ UNCHANGED vars
    BY <2>4 DEF MarkPosition, UpdateBaseCapital, Tick, vars
  <2> QED
    BY NextCases, <2>1, <2>2, <2>3, <2>4 DEF Writes
<1> QED
  BY <1>2, <1>3 DEF Closed

\* The totals of an evaluation are those of positions that are closed still,
\* and every position closed when the open book was read is closed still.
LossInv ==
  /\ LossesCounted
  /\ \A s \in Sessions : snap[s].closedAtBook \subseteq Closed

\* The positions a snapshot lists as closed are set when the open book is read.
LEMMA ClosedAtBookStep ==
  ASSUME LifecycleInv, LedgerInv, BookTypes, [Next]_vars, NEW t \in Sessions,
         snap[t].closedAtBook \subseteq Closed
  PROVE  snap'[t].closedAtBook \subseteq Closed'
<1>1. Closed \subseteq Closed' /\ snap \in [Sessions -> Snapshot] /\ LifecycleTypes
  BY ClosedForGood DEF BookTypes, LifecycleInv
<1>2. ASSUME NEW s \in Sessions, s # t, Quiet(s) \/ Writes(s) PROVE snap'[t] = snap[t]
  BY <1>2, QuietUndisturbed, WritesUndisturbed DEF Undisturbed
<1>3. ASSUME Quiet(t) PROVE snap'[t].closedAtBook \in {snap[t].closedAtBook, Closed, {}}
  <2>1. CASE Request(t)
    BY <1>1, <2>1, RequestTypes
  <2>2. CASE AcquirePortfolioLock(t)
    BY <1>1, <2>2 DEF AcquirePortfolioLock, Snapshot
  <2>3. CASE ReadBaseCapital(t) \/ ReadOpenBook(t) \/ ReadRealizedPnl(t)
    BY <1>1, <2>3 DEF ReadBaseCapital, ReadOpenBook, ReadRealizedPnl, Snapshot
  <2>4. CASE Rollback(t)
    BY <1>1, <2>4 DEF Rollback, Release, NoSnapshot
  <2>5. CASE LockDraft(t) \/ LockSignal(t) \/ LockForCancel(t) \/ LockForReview(t)
             \/ LockForClose(t)
    BY <2>5 DEF LockDraft, LockSignal, LockForCancel, LockForReview, LockForClose
  <2> QED
    BY <1>3, <2>1, <2>2, <2>3, <2>4, <2>5 DEF Quiet
<1>4. ASSUME Writes(t) PROVE snap'[t].closedAtBook = {}
  <2>1. Release(t)
    BY <1>4 DEF Writes, DecideRejected, DecideApproved, CreateDraft, WithdrawDraft,
                CloseWithReview, CloseDirectly
  <2> QED
    BY <1>1, <2>1 DEF Release, NoSnapshot
<1>5. CASE \/ \E p \in Positions, v \in Valuations : MarkPosition(p, v)
           \/ \E b \in BaseCapitals : UpdateBaseCapital(b)
           \/ Tick \/ UNCHANGED vars
  BY <1>1, <1>5 DEF MarkPosition, UpdateBaseCapital, Tick, vars, local
<1> QED
  BY NextCases, <1>1, <1>2, <1>3, <1>4, <1>5

\* The realized total of positions that are closed does not change.
LEMMA ResultsKept ==
  ASSUME LifecycleInv, LedgerTypeOK', NEW T \in SUBSET Positions,
         \A p \in T : positions'[p] = positions[p]
  PROVE  RealizedPnl(T)' = RealizedPnl(T)
<1>1. positions \in [Positions -> PositionRow] /\ positions' \in [Positions -> PositionRow]
  BY DEF LifecycleInv, LedgerTypeOK
<1>2. /\ IsFiniteSet(T)
      /\ \A p \in T : ResultsOf(positions')[p] = ResultsOf(positions)[p]
  BY <1>1, TotalTypes
<1>3. SumOn(ResultsOf(positions'), T) = SumOn(ResultsOf(positions), T)
  BY <1>2, SumOnSame
<1>4. RealizedPnl(T)' = SumOn(ResultsOf(positions'), T)
  BY DEF RealizedPnl, ResultsOf, SumOn, SumFunctionOnSet, FoldFunctionOnSet, MapThenSumSet,
         MapThenFoldSet
<1> QED
  BY <1>3, <1>4, TotalsAreSums

\* The losses an evaluation has read stay accounted for until it decides.
LEMMA LossesStep ==
  ASSUME LifecycleInv, LedgerInv, BookTypes, BookTypes', LedgerTypeOK', LossInv, [Next]_vars,
         NEW t \in Sessions, pc'[t] = "decide"
  PROVE  \E S \in SUBSET Closed' :
           /\ snap'[t].closedAtBook \subseteq S
           /\ snap'[t].daily =
                RealizedPnl({p \in S : req[t].at - closedAt[p] <= Day})'
           /\ snap'[t].weekly =
                RealizedPnl({p \in S : req[t].at - closedAt[p] <= Week})'
<1>1. /\ Closed \subseteq Closed'
      /\ \A p \in Closed : positions'[p] = positions[p] /\ closedAt'[p] = closedAt[p]
  BY ClosedForGood
<1>2. req'[t] = req[t] /\ \E S \in SUBSET Closed :
        /\ snap'[t].closedAtBook \subseteq S
        /\ snap'[t].daily = RealizedPnl({p \in S : req[t].at - closedAt[p] <= Day})
        /\ snap'[t].weekly = RealizedPnl({p \in S : req[t].at - closedAt[p] <= Week})
  <2>1. CASE ReadRealizedPnl(t)
    <3>1. /\ req' = req /\ snap'[t].closedAtBook = snap[t].closedAtBook
          /\ snap'[t].daily = RealizedPnl(ClosedWithin(t, Day))
          /\ snap'[t].weekly = RealizedPnl(ClosedWithin(t, Week))
      BY <2>1 DEF ReadRealizedPnl, BookTypes, Snapshot
    <3>2. ASSUME NEW w \in Nat
          PROVE  ClosedWithin(t, w) = {p \in Closed : req[t].at - closedAt[p] <= w}
      <4>1. \A p \in Closed : closedAt[p] \in Nat
        BY DEF BookTypes, Closed
      <4>2. req[t].at \in Nat
        BY DEF LifecycleInv, LifecycleTypes, RequestRow
      <4>3. \A p \in Closed : closedAt[p] + w >= req[t].at <=> req[t].at - closedAt[p] <= w
        BY <4>1, <4>2
      <4> QED
        BY <4>3 DEF ClosedWithin
    <3>3. Day \in Nat /\ Week \in Nat
      BY LifecycleAssumption
    <3>4. snap'[t].closedAtBook \subseteq Closed
      BY <3>1 DEF LossInv
    <3> QED
      BY <3>1, <3>2, <3>3, <3>4
  <2>2. CASE pc[t] = "decide" /\ req'[t] = req[t] /\ snap'[t] = snap[t]
    BY <2>2 DEF LossInv, LossesCounted
  <2> QED
    BY <2>1, <2>2, EvaluationSteps
<1>3. PICK S \in SUBSET Closed :
        /\ snap'[t].closedAtBook \subseteq S
        /\ snap'[t].daily = RealizedPnl({p \in S : req[t].at - closedAt[p] <= Day})
        /\ snap'[t].weekly = RealizedPnl({p \in S : req[t].at - closedAt[p] <= Week})
  BY <1>2
<1>4. PICK R \in SUBSET Positions : R = S
  BY DEF Closed
<1>5. PICK D \in SUBSET Positions : D = {p \in R : req[t].at - closedAt[p] <= Day}
  OBVIOUS
<1>6. PICK W \in SUBSET Positions : W = {p \in R : req[t].at - closedAt[p] <= Week}
  OBVIOUS
<1>7. /\ D = {p \in R : req'[t].at - closedAt'[p] <= Day}
      /\ W = {p \in R : req'[t].at - closedAt'[p] <= Week}
  BY <1>1, <1>2, <1>4, <1>5, <1>6
<1>8. RealizedPnl(D)' = RealizedPnl(D) /\ RealizedPnl(W)' = RealizedPnl(W)
  BY <1>1, <1>4, <1>5, <1>6, ResultsKept
<1>9. /\ R \subseteq Closed' /\ snap'[t].closedAtBook \subseteq R
      /\ snap'[t].daily = RealizedPnl({p \in R : req[t].at - closedAt[p] <= Day})'
      /\ snap'[t].weekly = RealizedPnl({p \in R : req[t].at - closedAt[p] <= Week})'
  BY <1>1, <1>3, <1>4, <1>5, <1>6, <1>7, <1>8
<1> QED
  BY <1>9

\* When a verdict is written its losses are those of positions really closed in
\* the two windows, with none of those left out that the book read before no longer had.
THEOREM LossesHold == Spec => []LossesCounted
<1>1. Init => LossInv
  BY DEF Init, LossInv, LossesCounted, NoSnapshot
<1>2. LifecycleInv /\ LifecycleInv' /\ LedgerInv /\ BookTypes /\ BookTypes' /\ LossInv /\ [Next]_vars
        => LossInv'
  <2> SUFFICES ASSUME LifecycleInv, LifecycleInv', LedgerInv, BookTypes, BookTypes', LossInv,
                      [Next]_vars
               PROVE  LossInv'
    OBVIOUS
  <2>1. \A t \in Sessions : snap'[t].closedAtBook \subseteq Closed'
    BY ClosedAtBookStep DEF LossInv
  <2>2. LedgerTypeOK'
    BY DEF LifecycleInv
  <2>3. LossesCounted'
    BY <2>2, LossesStep DEF LossesCounted
  <2> QED
    BY <2>1, <2>3 DEF LossInv
<1>3. LossInv => LossesCounted
  BY DEF LossInv
<1> QED
  BY <1>1, <1>2, <1>3, BookHolds, LocksHold, Safety, PTL DEF Spec
=============================================================================
