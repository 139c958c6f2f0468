------------------------ MODULE AgentExecution_proofs ------------------------
(***************************************************************************)
(* Proofs about AgentExecution for any number of requests and handlers.    *)
(***************************************************************************)
EXTENDS AgentExecution, TLAPS

Written == States \ {"preflight_failed", "executing"}
Runnable(x) == x.mode \in {"dry_run", "draft_only"} /\ x.risk \in {"low", "medium"}

\* The state machine, as far as the proofs need it.
LEMMA Transitions ==
  /\ States = {"draft", "pending_preflight", "preflight_failed", "blocked", "pending_approval",
               "approved", "ready_for_execution", "executing", "completed", "failed",
               "cancelled", "expired"}
  /\ \A s \in States : Final(s) => TRANSITIONS[s] = {}
  /\ \A s \in States : "approved" \in TRANSITIONS[s] => s = "pending_approval"
<1>1. States = {"draft", "pending_preflight", "preflight_failed", "blocked", "pending_approval",
               "approved", "ready_for_execution", "executing", "completed", "failed",
               "cancelled", "expired"}
  BY DEF States, TRANSITIONS
<1>2. \A s \in States : Final(s) => TRANSITIONS[s] = {}
  BY <1>1 DEF TRANSITIONS, Final
<1>3. \A s \in States : "approved" \in TRANSITIONS[s] => s = "pending_approval"
  BY <1>1 DEF TRANSITIONS
<1> QED
  BY <1>1, <1>2, <1>3

\* What a handler knows of its request: that it exists, that the state it will
\* write may be written from the one it read, which was not final, that an
\* approval was asked for, and that what it runs may be run.
HandlerFine(h) ==
  /\ pc[h] # "idle" => on[h] \in Requests /\ row[on[h]] # None
  /\ pc[h] \in {"write", "start", "verdict"} =>
       to[h] \in Written /\ before[h] \in States /\ ~Final(before[h])
  /\ pc[h] = "start" => to[h] = "pending_preflight"
  /\ pc[h] = "write" =>
       /\ to[h] # "pending_approval"
       /\ to[h] = "approved" => row[on[h]].requiresApproval
  /\ pc[h] = "verdict" =>
       /\ to[h] # "approved" /\ outcome[h] \in {"passed", "failed"}
       /\ to[h] = "pending_approval" => RiskNeedsApproval(on[h])
  /\ pc[h] \in {"run", "ran"} => Runnable(row[on[h]])

RequestFine(r) ==
  /\ runs[r] > 0 => row[r] # None /\ Runnable(row[r])
  /\ r \in approvals => row[r] # None
  /\ row[r] # None =>
       /\ row[r].state \in {"pending_approval", "approved"} => row[r].requiresApproval
       /\ r \in approvals => row[r].requiresApproval
       /\ row[r].requiresApproval => RiskNeedsApproval(r)

AgentInv ==
  TypeOK /\ (\A h \in Handlers : HandlerFine(h)) /\ (\A r \in Requests : RequestFine(r))

\* A request stays, of its mode and risk, and what it asked for stays asked.
Stays(r) ==
  row[r] # None =>
    /\ row'[r] # None /\ row'[r].mode = row[r].mode /\ row'[r].risk = row[r].risk
    /\ row[r].requiresApproval => row'[r].requiresApproval

\* A handler is moved, and no other one.
LEMMA Moved ==
  ASSUME TypeOK, NEW h \in Handlers, NEW stage \in Stages, NEW r \in Requests \cup {None},
         NEW s \in States \cup {None}, NEW o \in Modes \cup {"passed", "failed", None},
         s # None => r \in Requests /\ row[r] # None,
         Goto(h, stage, r, s, o)
  PROVE  /\ pc' \in [Handlers -> Stages] /\ on' \in [Handlers -> Requests \cup {None}]
         /\ to' \in [Handlers -> States \cup {None}]
         /\ outcome' \in [Handlers -> Modes \cup {"passed", "failed", None}]
         /\ before' \in [Handlers -> States \cup {None}]
         /\ pc'[h] = stage /\ on'[h] = r /\ to'[h] = s /\ outcome'[h] = o
         /\ s # None => before'[h] = row[r].state
         /\ \A g \in Handlers \ {h} :
              /\ pc'[g] = pc[g] /\ on'[g] = on[g] /\ to'[g] = to[g]
              /\ outcome'[g] = outcome[g] /\ before'[g] = before[g]
<1>1. s # None => row[r].state \in States
  BY DEF TypeOK, Row
<1>2. before' \in [Handlers -> States \cup {None}] /\ (s # None => before'[h] = row[r].state)
  BY <1>1 DEF Goto, TypeOK
<1>3. pc' \in [Handlers -> Stages] /\ on' \in [Handlers -> Requests \cup {None}]
  BY DEF Goto, TypeOK
<1>4. /\ to' \in [Handlers -> States \cup {None}]
      /\ outcome' \in [Handlers -> Modes \cup {"passed", "failed", None}]
  BY DEF Goto, TypeOK
<1>5. \A g \in Handlers \ {h} :
        /\ pc'[g] = pc[g] /\ on'[g] = on[g] /\ to'[g] = to[g]
        /\ outcome'[g] = outcome[g] /\ before'[g] = before[g]
  BY DEF Goto, TypeOK
<1>6. pc'[h] = stage /\ on'[h] = r /\ to'[h] = s /\ outcome'[h] = o
  BY DEF Goto, TypeOK
<1> QED
  BY <1>2, <1>3, <1>4, <1>5, <1>6

\* The handlers that do not move know what they knew.
LEMMA OthersFine ==
  ASSUME AgentInv, NEW g \in Handlers, \A r \in Requests : Stays(r),
         pc'[g] = pc[g], on'[g] = on[g], to'[g] = to[g], outcome'[g] = outcome[g],
         before'[g] = before[g]
  PROVE  HandlerFine(g)'
<1>1. HandlerFine(g)
  BY DEF AgentInv
<1>2. CASE pc[g] = "idle"
  BY <1>2 DEF HandlerFine
<1>3. CASE pc[g] # "idle"
  <2>1. on[g] \in Requests /\ row[on[g]] # None /\ Stays(on[g])
    BY <1>1, <1>3 DEF HandlerFine
  <2>2. Runnable(row[on[g]]) => Runnable(row[on[g]])'
    BY <2>1 DEF Stays, Runnable
  <2>3. RiskNeedsApproval(on[g]) => RiskNeedsApproval(on[g])'
    BY <2>1 DEF Stays, RiskNeedsApproval
  <2> QED
    BY <1>1, <2>1, <2>2, <2>3 DEF HandlerFine, Stays
<1> QED
  BY <1>2, <1>3

\* A step that moves one handler and leaves the tables alone.
LEMMA MovePreserves ==
  ASSUME AgentInv, NEW h \in Handlers, NEW stage \in Stages, NEW r \in Requests \cup {None},
         NEW s \in States \cup {None}, NEW o \in Modes \cup {"passed", "failed", None},
         s # None => r \in Requests /\ row[r] # None,
         Goto(h, stage, r, s, o), UNCHANGED tables, HandlerFine(h)'
  PROVE  AgentInv'
<1>1. TypeOK
  BY DEF AgentInv
<1>2. TypeOK'
  BY <1>1, Moved DEF TypeOK, tables
<1>3. \A q \in Requests : Stays(q)
  BY DEF Stays, tables
<1>4. \A q \in Requests : RequestFine(q)'
  BY DEF AgentInv, RequestFine, RiskNeedsApproval, Runnable, tables
<1>5. \A g \in Handlers \ {h} : HandlerFine(g)'
  BY <1>1, <1>3, Moved, OthersFine
<1> QED
  BY <1>2, <1>4, <1>5 DEF AgentInv

\* A step that writes one request's row and moves one handler.
LEMMA WritePreserves ==
  ASSUME AgentInv, NEW h \in Handlers, NEW r \in Requests, row[r] # None,
         NEW s \in Written, NEW new \in Row, Write(r, s, new),
         new.state = s, new.mode = row[r].mode, new.risk = row[r].risk,
         row[r].requiresApproval => new.requiresApproval,
         s \in {"pending_approval", "approved"} => new.requiresApproval,
         new.requiresApproval => RiskNeedsApproval(r),
         NEW stage \in {"idle", "check"}, NEW q \in {r, None}, Goto(h, stage, q, None, None),
         stage = "check" => q = r
  PROVE  AgentInv'
<1>1. TypeOK /\ None \notin Row
  BY ExecutionAssumption DEF AgentInv
<1>2. row'[r] = new /\ \A p \in Requests \ {r} : row'[p] = row[p]
  BY <1>1 DEF Write, TypeOK
<1>3. row' \in [Requests -> Row \cup {None}] /\ approvals' \subseteq Requests /\ runs' = runs
  BY <1>1 DEF Write, TypeOK
<1>4. \A p \in Requests : Stays(p)
  BY <1>1, <1>2 DEF Stays
<1>5. /\ pc' \in [Handlers -> Stages] /\ on' \in [Handlers -> Requests \cup {None}]
      /\ to' \in [Handlers -> States \cup {None}]
      /\ outcome' \in [Handlers -> Modes \cup {"passed", "failed", None}]
      /\ before' \in [Handlers -> States \cup {None}]
      /\ pc'[h] = stage /\ on'[h] = q
      /\ \A g \in Handlers \ {h} :
              /\ pc'[g] = pc[g] /\ on'[g] = on[g] /\ to'[g] = to[g]
              /\ outcome'[g] = outcome[g] /\ before'[g] = before[g]
  <2>1. stage \in Stages /\ q \in Requests \cup {None}
    BY DEF Stages
  <2> QED
    BY <1>1, <2>1, Moved
<1>6. TypeOK'
  BY <1>1, <1>3, <1>5 DEF TypeOK
<1>7. HandlerFine(h)'
  BY <1>1, <1>2, <1>5 DEF HandlerFine
<1>8. \A g \in Handlers \ {h} : HandlerFine(g)'
  BY <1>4, <1>5, OthersFine
<1>9. approvals' \subseteq IF s = "approved" THEN approvals \cup {r} ELSE approvals
  BY DEF Write
<1>10. RequestFine(r)'
  <2>1. RequestFine(r)
    BY DEF AgentInv
  <2>2. RiskNeedsApproval(r) => RiskNeedsApproval(r)'
    BY <1>2 DEF RiskNeedsApproval
  <2>3. Runnable(row[r]) => Runnable(row[r])'
    BY <1>2 DEF Runnable
  <2>4. row'[r] # None /\ row'[r].state = s
    BY <1>1, <1>2
  <2>5. r \in approvals' => new.requiresApproval
    BY <1>9, <2>1 DEF RequestFine
  <2> QED
    BY <1>2, <1>3, <2>1, <2>2, <2>3, <2>4, <2>5 DEF RequestFine
<1>11. \A p \in Requests \ {r} : RequestFine(p)'
  BY <1>2, <1>3, <1>9 DEF AgentInv, RequestFine, RiskNeedsApproval, Runnable
<1> QED
  BY <1>6, <1>7, <1>8, <1>10, <1>11 DEF AgentInv

\* A request's row keeps its shape when its state is written.
LEMMA StateWritten ==
  ASSUME NEW x \in Row, NEW s \in Written
  PROVE  LET new == [x EXCEPT !.state = s]
         IN  /\ new \in Row /\ new.state = s /\ new.mode = x.mode /\ new.risk = x.risk
             /\ new.requiresApproval = x.requiresApproval
BY DEF Row, Written

\* What the preflight finds.
LEMMA Verdicts ==
  ASSUME NEW r, NEW f
  PROVE  /\ Verdict(r, f) \in Written \ {"approved"}
         /\ Verdict(r, f) = "pending_approval" => RiskNeedsApproval(r)
BY Transitions DEF Verdict, Written

\* A state that may be written next is one, and the present one is not final.
LEMMA MayBeNext ==
  ASSUME TypeOK, NEW r \in Requests, row[r] # None, NEW s, CanTransition(r, s)
  PROVE  /\ row[r] \in Row /\ row[r].state \in States /\ ~Final(row[r].state)
         /\ s = "approved" => row[r].state = "pending_approval"
<1>1. row[r] \in Row /\ row[r].state \in States
  BY DEF TypeOK, Row
<1> QED
  BY <1>1, Transitions DEF CanTransition

LEMMA AgentStep ==
  ASSUME AgentInv, [Next]_vars
  PROVE  AgentInv'
<1>0. TypeOK /\ (\A h \in Handlers : HandlerFine(h)) /\ (\A r \in Requests : RequestFine(r))
      /\ None \notin States /\ None \notin Row
  BY ExecutionAssumption DEF AgentInv
<1>1. ASSUME NEW r \in Requests, NEW m \in Modes, NEW k \in Risks, CreateRequest(r, m, k)
      PROVE  AgentInv'
  <2> DEFINE new == [state |-> "draft", mode |-> m, risk |-> k, requiresApproval |-> FALSE,
                     preflight |-> "not_started", approvalRequestId |-> None]
  <2>1. new \in Row /\ new.state = "draft" /\ new.requiresApproval = FALSE
    BY Transitions DEF Row
  <2> HIDE DEF new
  <2>2. row[r] = None /\ row' = [row EXCEPT ![r] = new]
        /\ UNCHANGED <<pc, on, to, outcome, before, runs, approvals>>
    BY <1>1 DEF CreateRequest, new
  <2>3. row'[r] = new /\ \A p \in Requests \ {r} : row'[p] = row[p]
    BY <1>0, <2>2 DEF TypeOK
  <2>4. TypeOK'
    BY <1>0, <2>1, <2>2 DEF TypeOK
  <2>5. \A p \in Requests : Stays(p)
    BY <2>2, <2>3 DEF Stays
  <2>6. \A g \in Handlers : HandlerFine(g)'
    BY <2>2, <2>5, OthersFine
  <2>7. RequestFine(r)'
    BY <1>0, <2>1, <2>2, <2>3 DEF RequestFine
  <2>8. \A p \in Requests \ {r} : RequestFine(p)'
    BY <1>0, <2>2, <2>3 DEF RequestFine, RiskNeedsApproval, Runnable
  <2> QED
    BY <2>4, <2>6, <2>7, <2>8 DEF AgentInv
<1>2. ASSUME NEW h \in Handlers, NEW r \in Requests, NEW s \in Operations, ReadForOperation(h, r, s)
      PROVE  AgentInv'
  <2>1. row[r] # None /\ CanTransition(r, s) /\ Goto(h, "write", r, s, None) /\ UNCHANGED tables
    BY <1>2 DEF ReadForOperation
  <2>2. s \in Written /\ s # "pending_approval" /\ "write" \in Stages
    BY Transitions DEF Operations, Written, Stages
  <2>3. row[r].state \in States /\ ~Final(row[r].state)
        /\ (s = "approved" => row[r].requiresApproval)
    BY <1>0, <2>1, MayBeNext DEF RequestFine
  <2>4. pc'[h] = "write" /\ on'[h] = r /\ to'[h] = s /\ before'[h] = row[r].state
    BY <1>0, <2>1, <2>2, Moved DEF Written
  <2>5. HandlerFine(h)'
    BY <2>1, <2>2, <2>3, <2>4 DEF HandlerFine, tables
  <2> QED
    BY <2>1, <2>2, <2>5, MovePreserves DEF Written
<1>3. ASSUME NEW h \in Handlers, WriteState(h) PROVE AgentInv'
  <2> DEFINE r == on[h]
             s == to[h]
  <2>1. /\ pc[h] = "write" /\ Write(r, s, [row[r] EXCEPT !.state = s])
        /\ Goto(h, "idle", None, None, None)
    BY <1>3 DEF WriteState, Answer
  <2>2. /\ r \in Requests /\ row[r] # None /\ s \in Written /\ s # "pending_approval"
        /\ s = "approved" => row[r].requiresApproval
    BY <1>0, <2>1 DEF HandlerFine
  <2>3. row[r] \in Row /\ (row[r].requiresApproval => RiskNeedsApproval(r))
    BY <1>0, <2>2 DEF TypeOK, RequestFine
  <2> HIDE DEF r, s
  <2>4. LET new == [row[r] EXCEPT !.state = s]
        IN  /\ new \in Row /\ new.state = s /\ new.mode = row[r].mode
            /\ new.risk = row[r].risk /\ new.requiresApproval = row[r].requiresApproval
    BY <2>2, <2>3, StateWritten
  <2> QED
    BY <2>1, <2>2, <2>3, <2>4, WritePreserves
<1>4. ASSUME NEW h \in Handlers, NEW r \in Requests, ReadForPreflight(h, r) PROVE AgentInv'
  <2> DEFINE s == "pending_preflight"
  <2>1. row[r] # None /\ CanTransition(r, s) /\ Goto(h, "start", r, s, None) /\ UNCHANGED tables
    BY <1>4 DEF ReadForPreflight
  <2>2. s \in Written /\ "start" \in Stages
    BY Transitions DEF Written, Stages
  <2>3. row[r].state \in States /\ ~Final(row[r].state)
    BY <1>0, <2>1, MayBeNext
  <2>4. pc'[h] = "start" /\ on'[h] = r /\ to'[h] = s /\ before'[h] = row[r].state
    BY <1>0, <2>1, <2>2, Moved DEF Written
  <2>5. HandlerFine(h)'
    BY <2>1, <2>2, <2>3, <2>4 DEF HandlerFine, tables
  <2> QED
    BY <2>1, <2>2, <2>5, MovePreserves DEF Written
<1>5. ASSUME NEW h \in Handlers, StartPreflight(h) PROVE AgentInv'
  <2> DEFINE r == on[h]
             s == to[h]
  <2>1. /\ pc[h] = "start" /\ Write(r, s, [row[r] EXCEPT !.state = s])
        /\ Goto(h, "check", r, None, None)
    BY <1>5 DEF StartPreflight
  <2>2. r \in Requests /\ row[r] # None /\ s \in Written /\ s = "pending_preflight"
    BY <1>0, <2>1 DEF HandlerFine
  <2>3. row[r] \in Row /\ (row[r].requiresApproval => RiskNeedsApproval(r))
    BY <1>0, <2>2 DEF TypeOK, RequestFine
  <2> HIDE DEF r, s
  <2>4. LET new == [row[r] EXCEPT !.state = s]
        IN  /\ new \in Row /\ new.state = s /\ new.mode = row[r].mode
            /\ new.risk = row[r].risk /\ new.requiresApproval = row[r].requiresApproval
    BY <2>2, <2>3, StateWritten
  <2> QED
    BY <2>1, <2>2, <2>3, <2>4, WritePreserves
<1>6. ASSUME NEW h \in Handlers, NEW f \in {"passed", "failed"}, ReadForVerdict(h, f)
      PROVE  AgentInv'
  <2>0. PICK r \in Requests, s \in {Verdict(on[h], f)} : r = on[h] /\ s = Verdict(r, f) /\ row[r] # None
    BY <1>0, <1>6 DEF HandlerFine, ReadForVerdict
  <2>1. pc[h] = "check" /\ UNCHANGED tables
        /\ IF CanTransition(r, s) THEN Goto(h, "verdict", r, s, f) ELSE Goto(h, "idle", None, None, None)
    BY <1>6, <2>0 DEF ReadForVerdict, Answer
  <2>2. r \in Requests /\ row[r] # None
    BY <2>0
  <2>3. s \in Written \ {"approved"} /\ (s = "pending_approval" => RiskNeedsApproval(r))
    BY <2>0, Verdicts
  <2>4. CASE CanTransition(r, s) /\ Goto(h, "verdict", r, s, f)
    <3>1. row[r].state \in States /\ ~Final(row[r].state) /\ "verdict" \in Stages
      BY <1>0, <2>2, <2>4, MayBeNext DEF Stages
    <3>2. /\ pc'[h] = "verdict" /\ on'[h] = r /\ to'[h] = s /\ outcome'[h] = f
          /\ before'[h] = row[r].state
      BY <1>0, <2>2, <2>3, <2>4, <3>1, Moved DEF Written
    <3>3. RiskNeedsApproval(r) => RiskNeedsApproval(r)'
      BY <2>1 DEF tables, RiskNeedsApproval
    <3>4. HandlerFine(h)'
      BY <2>1, <2>2, <2>3, <3>1, <3>2, <3>3 DEF HandlerFine, tables, RiskNeedsApproval
    <3> QED
      BY <2>1, <2>2, <2>3, <2>4, <3>1, <3>4, MovePreserves DEF Written
  <2>5. CASE Goto(h, "idle", None, None, None)
    <3>1. pc'[h] = "idle"
      BY <1>0, <2>5, Moved DEF Stages
    <3>2. HandlerFine(h)'
      BY <3>1 DEF HandlerFine
    <3> QED
      BY <2>1, <2>5, <3>2, MovePreserves DEF Stages
  <2> QED
    BY <2>1, <2>4, <2>5
<1>7. ASSUME NEW h \in Handlers, WriteVerdict(h) PROVE AgentInv'
  <2> DEFINE r == on[h]
             s == to[h]
             f == outcome[h]
             new == WithVerdict(r, s, f)
  <2>1. pc[h] = "verdict" /\ Write(r, s, new) /\ Goto(h, "idle", None, None, None)
    BY <1>7 DEF WriteVerdict, Answer
  <2>2. /\ r \in Requests /\ row[r] # None /\ s \in Written /\ s # "approved"
        /\ s = "pending_approval" => RiskNeedsApproval(r)
        /\ f \in {"passed", "failed"}
    BY <1>0, <2>1 DEF HandlerFine
  <2>3. row[r] \in Row /\ (row[r].requiresApproval => RiskNeedsApproval(r))
    BY <1>0, <2>2 DEF TypeOK, RequestFine
  <2> HIDE DEF r, s, f
  <2>4. RiskNeedsApproval(r) \in BOOLEAN
    BY DEF RiskNeedsApproval
  <2>5. /\ new \in Row /\ new.state = s /\ new.mode = row[r].mode
        /\ new.risk = row[r].risk /\ new.requiresApproval = RiskNeedsApproval(r)
    BY <2>2, <2>3, <2>4 DEF WithVerdict, Row, Written
  <2> HIDE DEF new
  <2> QED
    BY <2>1, <2>2, <2>3, <2>5, WritePreserves
<1>8. ASSUME NEW h \in Handlers, NEW r \in Requests, NEW a \in Adapters, NEW force \in BOOLEAN,
             ReadForRun(h, r, a, force)
      PROVE  AgentInv'
  <2> DEFINE m == EffectiveMode(row[r], force)
  <2>1. /\ row[r] # None /\ m \in {"dry_run", "draft_only"} /\ Eligible(a, row[r])
        /\ Goto(h, "run", r, None, m) /\ UNCHANGED tables
    BY <1>8 DEF ReadForRun
  <2>2. row[r] \in Row
    BY <1>0, <2>1 DEF TypeOK
  <2>3. Runnable(row[r])
    BY <1>0, <2>1, <2>2 DEF Eligible, Adapters, ApprovalOnFile, Runnable, Row, Risks
  <2> HIDE DEF m
  <2>4. m \in Modes /\ "run" \in Stages
    BY <2>1 DEF Modes, Stages
  <2>5. pc'[h] = "run" /\ on'[h] = r
    BY <1>0, <2>1, <2>4, Moved
  <2>6. HandlerFine(h)'
    BY <2>1, <2>3, <2>5 DEF HandlerFine, tables, Runnable
  <2> QED
    BY <2>1, <2>4, <2>6, MovePreserves
<1>9. ASSUME NEW h \in Handlers, RunAdapter(h) PROVE AgentInv'
  <2>0. PICK r \in Requests, m \in {outcome[h]} : r = on[h] /\ m = outcome[h]
    BY <1>0, <1>9 DEF HandlerFine, RunAdapter
  <2>1. /\ pc[h] = "run" /\ Goto(h, "ran", r, None, m) /\ UNCHANGED <<row, approvals>>
        /\ \E n \in {0, 1} : runs' = [runs EXCEPT ![r] = @ + n]
    BY <1>9, <2>0 DEF RunAdapter
  <2>2. r \in Requests /\ row[r] # None /\ Runnable(row[r])
    BY <1>0, <2>0, <2>1 DEF HandlerFine
  <2>3. m \in Modes \cup {"passed", "failed", None} /\ "ran" \in Stages
    BY <1>0, <2>0 DEF TypeOK, Stages
  <2>4. /\ pc' \in [Handlers -> Stages] /\ on' \in [Handlers -> Requests \cup {None}]
        /\ to' \in [Handlers -> States \cup {None}]
        /\ outcome' \in [Handlers -> Modes \cup {"passed", "failed", None}]
        /\ before' \in [Handlers -> States \cup {None}]
        /\ pc'[h] = "ran" /\ on'[h] = r
        /\ \A g \in Handlers \ {h} :
              /\ pc'[g] = pc[g] /\ on'[g] = on[g] /\ to'[g] = to[g]
              /\ outcome'[g] = outcome[g] /\ before'[g] = before[g]
    BY <1>0, <2>1, <2>2, <2>3, Moved
  <2>5. runs' \in [Requests -> Nat] /\ \A p \in Requests \ {r} : runs'[p] = runs[p]
    BY <1>0, <2>1, <2>2 DEF TypeOK
  <2>6. TypeOK'
    BY <1>0, <2>1, <2>4, <2>5 DEF TypeOK
  <2>7. Runnable(row[r])'
    BY <2>1, <2>2 DEF Runnable
  <2>8. HandlerFine(h)'
    BY <2>1, <2>2, <2>4 DEF HandlerFine, Runnable
  <2>9. \A g \in Handlers \ {h} : HandlerFine(g)'
    BY <2>1, <2>4, OthersFine DEF Stays
  <2>10. RequestFine(r)'
    <3>1. row'[r] = row[r] /\ approvals' = approvals
      BY <2>1
    <3> QED
      BY <1>0, <2>2, <3>1 DEF RequestFine, Runnable, RiskNeedsApproval
  <2>11. \A p \in Requests \ {r} : RequestFine(p)'
    BY <1>0, <2>1, <2>5 DEF RequestFine, RiskNeedsApproval, Runnable
  <2> QED
    BY <2>6, <2>8, <2>9, <2>10, <2>11 DEF AgentInv
<1>10. ASSUME NEW h \in Handlers, UNCHANGED tables, Answer(h) PROVE AgentInv'
  <2>1. Goto(h, "idle", None, None, None) /\ "idle" \in Stages
    BY <1>10 DEF Answer, Stages
  <2>2. pc'[h] = "idle"
    BY <1>0, <2>1, Moved
  <2>3. HandlerFine(h)'
    BY <2>2 DEF HandlerFine
  <2> QED
    BY <1>10, <2>1, <2>3, MovePreserves
<1>11. ASSUME NEW h \in Handlers, ReadForCompletion(h) PROVE AgentInv'
  <2> DEFINE r == on[h]
  <2>1. pc[h] = "ran" /\ UNCHANGED tables
        /\ \/ CanTransition(r, "completed") /\ Goto(h, "write", r, "completed", None)
           \/ Answer(h)
    BY <1>11 DEF ReadForCompletion
  <2>2. r \in Requests /\ row[r] # None
    BY <1>0, <2>1 DEF HandlerFine
  <2> HIDE DEF r
  <2>3. CASE CanTransition(r, "completed") /\ Goto(h, "write", r, "completed", None)
    <3>1. /\ row[r].state \in States /\ ~Final(row[r].state)
          /\ "write" \in Stages /\ "completed" \in Written
      BY <1>0, <2>2, <2>3, MayBeNext, Transitions DEF Stages, Written
    <3>2. pc'[h] = "write" /\ on'[h] = r /\ to'[h] = "completed" /\ before'[h] = row[r].state
      BY <1>0, <2>2, <2>3, <3>1, Moved DEF Written
    <3>3. HandlerFine(h)'
      BY <2>1, <2>2, <3>1, <3>2 DEF HandlerFine, tables
    <3> QED
      BY <2>1, <2>2, <2>3, <3>1, <3>3, MovePreserves DEF Written
  <2> QED
    BY <1>10, <2>1, <2>3
<1>12. CASE UNCHANGED vars
  <2>1. \A g \in Handlers : HandlerFine(g)'
    BY <1>12, OthersFine DEF vars, Stays
  <2>2. TypeOK' /\ \A r \in Requests : RequestFine(r)'
    BY <1>0, <1>12 DEF vars, TypeOK, RequestFine, RiskNeedsApproval, Runnable
  <2> QED
    BY <2>1, <2>2 DEF AgentInv
<1> QED
  BY <1>1, <1>2, <1>3, <1>4, <1>5, <1>6, <1>7, <1>8, <1>9, <1>10, <1>11, <1>12 DEF Next, Abort

\* What the handlers know of their requests, and what is true of the requests,
\* holds however the handlers' reads and writes interleave.
THEOREM AgentInvariant == Spec => []AgentInv
<1>1. Init => AgentInv
  <2> SUFFICES ASSUME Init PROVE AgentInv
    OBVIOUS
  <2>1. TypeOK
    BY DEF Init, TypeOK, Stages
  <2>2. (\A h \in Handlers : HandlerFine(h)) /\ (\A r \in Requests : RequestFine(r))
    BY DEF Init, HandlerFine, RequestFine
  <2> QED
    BY <2>1, <2>2 DEF AgentInv
<1>2. AgentInv /\ [Next]_vars => AgentInv'
  BY AgentStep
<1> QED
  BY <1>1, <1>2, PTL DEF Spec

\* Every variable of the agent runtime keeps its shape.
THEOREM AgentTypes == Spec => []TypeOK
<1>1. AgentInv => TypeOK
  BY DEF AgentInv
<1> QED
  BY <1>1, AgentInvariant, PTL

\* A request of high or critical risk is never run without an approval (in fact
\* never), and one that asks for approval or real execution is never run.
THEOREM RunsWereAllowedHolds == Spec => []RunsWereAllowed
<1>1. AgentInv => RunsWereAllowed
  BY DEF AgentInv, RequestFine, Runnable, RunsWereAllowed
<1> QED
  BY <1>1, AgentInvariant, PTL

\* Nothing awaits or gets an approval the preflight did not ask for.
THEOREM ApprovalWasAskedHolds == Spec => []ApprovalWasAsked
<1>1. AgentInv => ApprovalWasAsked
  BY DEF AgentInv, RequestFine, ApprovalWasAsked
<1> QED
  BY <1>1, AgentInvariant, PTL

\* Only a handler at the end of a read and write changes a request, and it had
\* read a state that was not final.
LEMMA RowsAreWritten ==
  ASSUME AgentInv, [Next]_vars, NEW r \in Requests, row[r] # None, row'[r] # row[r]
  PROVE  \E h \in Handlers :
           on[h] = r /\ pc'[h] # pc[h] /\ before[h] # None /\ ~Final(before[h])
<1>0. TypeOK /\ (\A h \in Handlers : HandlerFine(h)) /\ None \notin States
  BY ExecutionAssumption DEF AgentInv
<1>1. ASSUME NEW h \in Handlers, pc[h] \in {"write", "start", "verdict"},
             NEW s, NEW new, Write(on[h], s, new), pc'[h] \in {"idle", "check"}
      PROVE  on[h] = r /\ pc'[h] # pc[h] /\ before[h] # None /\ ~Final(before[h])
  BY <1>0, <1>1 DEF Write, HandlerFine, TypeOK
<1>2. ASSUME NEW h \in Handlers, Answer(h) PROVE pc'[h] = "idle"
  BY <1>0, <1>2 DEF Answer, Goto, TypeOK
<1>3. ASSUME NEW h \in Handlers, WriteState(h) \/ WriteVerdict(h)
      PROVE  on[h] = r /\ pc'[h] # pc[h] /\ before[h] # None /\ ~Final(before[h])
  BY <1>1, <1>2, <1>3 DEF WriteState, WriteVerdict
<1>4. ASSUME NEW h \in Handlers, StartPreflight(h)
      PROVE  on[h] = r /\ pc'[h] # pc[h] /\ before[h] # None /\ ~Final(before[h])
  <2>1. pc'[h] = "check"
    BY <1>0, <1>4 DEF StartPreflight, Goto, TypeOK
  <2> QED
    BY <1>1, <1>4, <2>1 DEF StartPreflight
<1>5. ASSUME NEW q \in Requests, NEW m \in Modes, NEW k \in Risks, CreateRequest(q, m, k)
      PROVE  FALSE
  BY <1>0, <1>5 DEF CreateRequest, TypeOK
<1>6. ASSUME NEW h \in Handlers, NEW q \in Requests,
             \/ \E s \in Operations : ReadForOperation(h, q, s)
             \/ ReadForPreflight(h, q)
             \/ \E a \in Adapters, force \in BOOLEAN : ReadForRun(h, q, a, force)
      PROVE  FALSE
  BY <1>6 DEF ReadForOperation, ReadForPreflight, ReadForRun, tables
<1>7. ASSUME NEW h \in Handlers,
             \/ \E preflight \in {"passed", "failed"} : ReadForVerdict(h, preflight)
             \/ RunAdapter(h) \/ ReadForCompletion(h) \/ Abort(h)
      PROVE  FALSE
  BY <1>7 DEF ReadForVerdict, RunAdapter, ReadForCompletion, Abort, tables
<1>8. CASE UNCHANGED vars
  BY <1>8 DEF vars
<1> QED
  BY <1>3, <1>4, <1>5, <1>6, <1>7, <1>8 DEF Next

\* What is final is changed only by the write of one who read it before it was.
THEOREM FinalUnlessStaleHolds == Spec => FinalUnlessStale
<1>1. AgentInv /\ [Next]_vars =>
        [\A r \in Requests :
           row[r] # None /\ Final(row[r].state) /\ row'[r] # row[r]
             => \E h \in Handlers :
                  /\ on[h] = r /\ pc'[h] # pc[h]
                  /\ before[h] # None /\ ~Final(before[h])]_vars
  BY RowsAreWritten
<1> QED
  BY <1>1, AgentInvariant, PTL DEF Spec, FinalUnlessStale
=============================================================================
