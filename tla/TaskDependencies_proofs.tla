----------------------- MODULE TaskDependencies_proofs -----------------------
(***************************************************************************)
(* What TaskDependencies and CycleSearch promise, for any number of tasks, *)
(* dependencies and handlers.                                              *)
(***************************************************************************)
EXTENDS CycleSearch, FoldLemmas

LEMMA Ends == \A d \in Dependencies : d \in Dependency /\ d.pred \in Tasks /\ d.succ \in Tasks
<1>1. \A i \in DOMAIN Inferred : Inferred[i] \in Dependency
  BY DependencyAssumption
<1>2. Dependencies \subseteq Dependency
  BY <1>1, DependencyAssumption DEF Dependencies, InferredSet
<1> QED BY <1>2 DEF Dependency

\* Where no path leads back from an edge's successor to its predecessor, a cycle
\* through the edge is one without it.
LEMMA CycleWithout ==
  ASSUME NEW C \in SUBSET Dependencies, NEW d \in C, NEW K, C \ {d} \subseteq K,
         ~DetectCycle(K, d), Cyclic(C)
  PROVE  Cyclic(C \ {d})
<1>1. PICK R \in SUBSET Tasks :
        d.succ \in R /\ (\A n \in R : Successors(K, n) \subseteq R) /\ d.pred \notin R
  BY DEF DetectCycle
<1>2. PICK S \in (SUBSET Tasks) \ {{}} : \A n \in S : \E e \in C : e.pred \in S /\ e.succ = n
  BY DEF Cyclic
<1>3. \A e \in C \ {d} : e.pred \in R => e.succ \in R
  <2> SUFFICES ASSUME NEW e \in C \ {d}, e.pred \in R PROVE e.succ \in R
    OBVIOUS
  <2>1. e \in K
    OBVIOUS
  <2>2. e.succ \in Successors(K, e.pred)
    BY <2>1 DEF Successors
  <2> QED BY <1>1, <2>2
<1>4. CASE S \subseteq R
  <2>1. \A n \in S : \E e \in C \ {d} : e.pred \in S /\ e.succ = n
    BY <1>1, <1>2, <1>4
  <2> QED BY <1>2, <2>1 DEF Cyclic
<1>5. CASE ~(S \subseteq R)
  <2>1. S \ R \in (SUBSET Tasks) \ {{}}
    BY <1>2, <1>5
  <2>2. ASSUME NEW n \in S \ R PROVE \E e \in C \ {d} : e.pred \in S \ R /\ e.succ = n
    <3>1. PICK e \in C : e.pred \in S /\ e.succ = n
      BY <1>2
    <3>2. e # d
      BY <1>1, <3>1
    <3>3. e.pred \notin R
      BY <1>3, <3>1, <3>2
    <3> QED BY <3>1, <3>2, <3>3
  <2> QED BY <2>1, <2>2 DEF Cyclic
<1> QED BY <1>4, <1>5

(***************************************************************************)
(* The plan does not stall.  This needs no history: the tasks that wait    *)
(* and are not ready would wait for one another.                           *)
(***************************************************************************)

\* In an acyclic graph some waiting task is ready and the others are blocked,
\* whatever the tasks' statuses.
LEMMA PlanMoves == NothingStalls
<1> SUFFICES ASSUME ~Cyclic(Live), NEW st \in [Tasks -> TaskStatuses \ {"in_progress", "blocked"}]
             PROVE  LET waiting == {n \in Tasks : st[n] = "not_started"}
                    IN  /\ waiting # {} => \E n \in waiting : IsReady(st, n)
                        /\ \A n \in waiting : IsReady(st, n) # IsBlocked(st, n)
  BY DEF NothingStalls
<1> DEFINE waiting == {n \in Tasks : st[n] = "not_started"}
<1>1. \A n : Predecessors(n) \subseteq Tasks
  BY Ends DEF Predecessors, Live
<1>2. \A p \in Tasks : st[p] \in CompleteStatuses \/ p \in waiting
  BY DEF TaskStatuses, CompleteStatuses
<1>3. waiting # {} => \E n \in waiting : IsReady(st, n)
  <2> SUFFICES ASSUME waiting # {}, \A n \in waiting : ~IsReady(st, n) PROVE FALSE
    OBVIOUS
  <2>1. ASSUME NEW n \in waiting PROVE \E e \in Live : e.pred \in waiting /\ e.succ = n
    <3>1. PICK p \in Predecessors(n) : st[p] \notin CompleteStatuses
      BY DEF IsReady
    <3>2. p \in waiting
      BY <1>1, <1>2, <3>1
    <3> QED BY <3>1, <3>2 DEF Predecessors
  <2> QED BY <2>1 DEF Cyclic
<1>4. ASSUME NEW n \in waiting PROVE IsReady(st, n) # IsBlocked(st, n)
  <2>1. st[n] = "not_started"
    OBVIOUS
  <2> QED BY <2>1 DEF IsReady, IsBlocked
<1> QED BY <1>3, <1>4

\* Whatever happens to the dependencies, a project whose graph has no cycle can
\* go on.
THEOREM NothingStallsHolds == Spec => []NothingStalls
<1>1. NothingStalls
  BY PlanMoves
<1> QED BY <1>1, PTL

(***************************************************************************)
(* Cycles are races.                                                       *)
(***************************************************************************)

\* What a handler has read it keeps until it answers, and an edge is only
\* inserted where what was read has no path back.
Checked(h) ==
  /\ pc[h] \in {"idle", "reverse", "list", "update"} => facts[h] = {}
  /\ pc[h] = "materialize" => facts[h] = edges[h]
  /\ pc[h] # "idle" /\ pc[h] # "materialize" => dep[h] \in Dependencies
  /\ pc[h] \in {"reverse", "list", "insert"} => dep[h].pred # dep[h].succ /\ to[h] \in Statuses
  /\ pc[h] = "update" => to[h] \in Statuses /\ status[dep[h]] # None
  /\ pc[h] = "insert" => ~DetectCycle(facts[h], dep[h])

DependencyInv ==
  /\ TypeOK
  /\ \A h \in Handlers : Checked(h)
  /\ \A d \in Dependencies : status[d] # None => ~DetectCycle(known[d], d)

\* A list that could not be read has no path.
LEMMA NoPath == \A d \in Dependencies : d.pred # d.succ => ~DetectCycle({}, d)
<1> SUFFICES ASSUME NEW d \in Dependencies, d.pred # d.succ PROVE ~DetectCycle({}, d)
  OBVIOUS
<1>1. {d.succ} \in SUBSET Tasks
  BY Ends
<1>2. \A n : Successors({}, n) = {}
  BY DEF Successors
<1> QED BY <1>1, <1>2 DEF DetectCycle

LEMMA InvGivesCycles == DependencyInv => CyclesAreRaces
<1> SUFFICES ASSUME DependencyInv, NEW C \in SUBSET Live, NEW d \in C, C \ {d} \subseteq known[d],
                    Cyclic(C)
             PROVE  Cyclic(C \ {d})
  BY DEF CyclesAreRaces
<1>1. C \in SUBSET Dependencies /\ d \in Dependencies /\ status[d] # None
  BY DependencyAssumption DEF Live
<1>2. ~DetectCycle(known[d], d)
  BY <1>1 DEF DependencyInv
<1> QED BY <1>1, <1>2, CycleWithout

\* What a step of a handler leaves alone.
OthersAsBefore(h) ==
  \A g \in Handlers \ {h} :
    /\ pc'[g] = pc[g] /\ dep'[g] = dep[g] /\ to'[g] = to[g]
    /\ edges'[g] = edges[g] /\ facts'[g] = facts[g]
RowsStay == \A d \in Dependencies : status[d] # None => status'[d] # None

LEMMA OthersKeep ==
  ASSUME DependencyInv, NEW h \in Handlers, OthersAsBefore(h), RowsStay, TypeOK', Checked(h)',
         \A d \in Dependencies : status'[d] # None => ~DetectCycle(known'[d], d)
  PROVE  DependencyInv'
<1>1. ASSUME NEW g \in Handlers \ {h} PROVE Checked(g)'
  <2>1. Checked(g)
    BY DEF DependencyInv
  <2> QED BY <2>1 DEF OthersAsBefore, RowsStay, Checked
<1> QED BY <1>1 DEF DependencyInv

\* A step that leaves the table as it was.
LEMMA TableKeeps ==
  ASSUME DependencyInv, NEW h \in Handlers, UNCHANGED <<status, known>>, TypeOK', Checked(h)',
         OthersAsBefore(h)
  PROVE  DependencyInv'
BY OthersKeep DEF DependencyInv, RowsStay

LEMMA Answers ==
  ASSUME TypeOK, NEW h \in Handlers, Answer(h)
  PROVE  /\ pc' \in [Handlers -> {"idle", "reverse", "list", "insert", "materialize", "update"}]
         /\ dep' \in [Handlers -> Dependencies \cup {None}]
         /\ to' \in [Handlers -> Statuses \cup {None}]
         /\ edges' \in [Handlers -> SUBSET Dependencies]
         /\ queue' \in [Handlers -> SUBSET DOMAIN Inferred]
         /\ facts' \in [Handlers -> SUBSET Dependencies]
         /\ Checked(h)' /\ OthersAsBefore(h)
BY DEF TypeOK, Answer, Checked, OthersAsBefore

LEMMA OnlyAnswers ==
  ASSUME DependencyInv, NEW h \in Handlers, Answer(h), UNCHANGED <<status, known>>
  PROVE  DependencyInv'
<1>1. TypeOK
  BY DEF DependencyInv
<1>2. TypeOK'
  BY <1>1, Answers DEF TypeOK
<1> QED BY <1>1, <1>2, Answers, TableKeeps

(***************************************************************************)
(* One lemma per action.                                                   *)
(***************************************************************************)

LEMMA CheckDuplicateKeeps ==
  ASSUME DependencyInv, NEW h \in Handlers, NEW d \in Requested, NEW s \in {"active", "proposed"},
         CheckDuplicate(h, d, s)
  PROVE  DependencyInv'
<1>1. d \in Dependencies /\ s \in Statuses
  BY DEF Dependencies, Statuses
<1>2. TypeOK /\ Checked(h)
  BY DEF DependencyInv
<1>3. TypeOK'
  BY <1>1, <1>2 DEF TypeOK, CheckDuplicate
<1>4. Checked(h)'
  BY <1>1, <1>2 DEF TypeOK, CheckDuplicate, Checked
<1>5. OthersAsBefore(h)
  BY <1>2 DEF TypeOK, CheckDuplicate, OthersAsBefore
<1> QED BY <1>3, <1>4, <1>5, TableKeeps DEF CheckDuplicate

LEMMA ReadStatusKeeps ==
  ASSUME DependencyInv, NEW h \in Handlers, NEW d \in Touched, NEW s, ReadStatus(h, d, s)
  PROVE  DependencyInv'
<1>1. d \in Dependencies
  BY DependencyAssumption
<1>2. TypeOK /\ Checked(h)
  BY DEF DependencyInv
<1>3. s \in Statuses
  <2>1. status[d] \in Statuses
    BY <1>1, <1>2 DEF TypeOK, ReadStatus
  <2> QED BY <2>1 DEF ReadStatus, Allowed, VALID_TRANSITIONS, Statuses
<1>4. TypeOK'
  BY <1>1, <1>2, <1>3 DEF TypeOK, ReadStatus
<1>5. Checked(h)'
  BY <1>1, <1>2, <1>3 DEF TypeOK, ReadStatus, Checked
<1>6. OthersAsBefore(h)
  BY <1>2 DEF TypeOK, ReadStatus, OthersAsBefore
<1> QED BY <1>4, <1>5, <1>6, TableKeeps DEF ReadStatus

LEMMA CheckReverseKeeps ==
  ASSUME DependencyInv, NEW h \in Handlers, CheckReverse(h)
  PROVE  DependencyInv'
<1>1. CASE Answer(h)
  BY <1>1, OnlyAnswers DEF CheckReverse
<1>2. CASE pc' = [pc EXCEPT ![h] = "list"] /\ UNCHANGED <<dep, to, edges, queue, facts>>
  <2>1. TypeOK /\ Checked(h)
    BY DEF DependencyInv
  <2>2. TypeOK'
    BY <1>2, <2>1 DEF TypeOK, CheckReverse
  <2>3. Checked(h)'
    BY <1>2, <2>1 DEF TypeOK, CheckReverse, Checked
  <2>4. OthersAsBefore(h)
    BY <1>2, <2>1 DEF TypeOK, OthersAsBefore
  <2> QED BY <2>2, <2>3, <2>4, TableKeeps DEF CheckReverse
<1> QED BY <1>1, <1>2 DEF CheckReverse

LEMMA ListAndGoOnKeeps ==
  ASSUME DependencyInv, NEW h \in Handlers, ListAndGoOn(h)
  PROVE  DependencyInv'
<1>1. TypeOK /\ Checked(h)
  BY DEF DependencyInv
<1>2. Live \in SUBSET Dependencies
  BY DEF Live
<1>3. TypeOK'
  BY <1>1, <1>2 DEF TypeOK, ListAndGoOn
<1>4. ~DetectCycle(facts'[h], dep[h])
  <2>1. CASE ~DetectCycle(ListedEdges, dep[h]) /\ facts' = [facts EXCEPT ![h] = Live]
    BY <1>1, <2>1 DEF TypeOK, ListedEdges
  <2>2. CASE UNCHANGED facts
    BY <1>1, <2>2, NoPath DEF ListAndGoOn, Checked
  <2> QED BY <2>1, <2>2 DEF ListAndGoOn
<1>5. Checked(h)'
  BY <1>1, <1>4 DEF TypeOK, ListAndGoOn, Checked
<1>6. OthersAsBefore(h)
  BY <1>1 DEF TypeOK, ListAndGoOn, OthersAsBefore
<1> QED BY <1>3, <1>5, <1>6, TableKeeps DEF ListAndGoOn

\* What an insertion does to the table.
LEMMA Inserts ==
  ASSUME DependencyInv, NEW h \in Handlers, NEW d \in Dependencies, NEW s \in Statuses,
         Insert(h, d, s), ~DetectCycle(facts[h], d), d.pred # d.succ
  PROVE  /\ status' \in [Dependencies -> Statuses \cup {None}]
         /\ known' \in [Dependencies -> SUBSET Dependencies]
         /\ \A x \in Dependencies : status'[x] # None => x.pred # x.succ
         /\ \A x \in Dependencies : status'[x] # None => ~DetectCycle(known'[x], x)
         /\ RowsStay
<1>1. TypeOK /\ s # None
  BY DependencyAssumption DEF DependencyInv, Statuses
<1>2. CASE status[d] = None
  <2>1. status' = [status EXCEPT ![d] = s] /\ known' = [known EXCEPT ![d] = facts[h]]
    BY <1>2 DEF Insert
  <2> QED BY <1>1, <2>1 DEF TypeOK, DependencyInv, RowsStay
<1>3. CASE status[d] # None
  BY <1>1, <1>3 DEF Insert, TypeOK, DependencyInv, RowsStay
<1> QED BY <1>2, <1>3

LEMMA InsertDependencyKeeps ==
  ASSUME DependencyInv, NEW h \in Handlers, InsertDependency(h)
  PROVE  DependencyInv'
<1>1. TypeOK /\ Checked(h)
  BY DEF DependencyInv
<1>2. /\ dep[h] \in Dependencies /\ to[h] \in Statuses
      /\ ~DetectCycle(facts[h], dep[h]) /\ dep[h].pred # dep[h].succ
  BY <1>1 DEF Checked, InsertDependency
<1>3. Insert(h, dep[h], to[h]) /\ Answer(h)
  BY DEF InsertDependency
<1>4. TypeOK'
  BY <1>1, <1>2, <1>3, Inserts, Answers DEF TypeOK
<1>5. OthersAsBefore(h) /\ Checked(h)'
  BY <1>1, <1>3, Answers
<1> QED BY <1>2, <1>3, <1>4, <1>5, Inserts, OthersKeep

LEMMA InferKeeps ==
  ASSUME DependencyInv, NEW h \in Handlers, Infer(h)
  PROVE  DependencyInv'
<1>1. TypeOK /\ Checked(h)
  BY DEF DependencyInv
<1>2. Live \in SUBSET Dependencies
  BY DEF Live
<1>3. {i \in DOMAIN Inferred : status[Inferred[i]] = None} \in SUBSET DOMAIN Inferred
  OBVIOUS
<1>4. TypeOK'
  BY <1>1, <1>2, <1>3 DEF TypeOK, Infer
<1>5. Checked(h)'
  BY <1>1 DEF TypeOK, Infer, Checked
<1>6. OthersAsBefore(h)
  BY <1>1 DEF TypeOK, Infer, OthersAsBefore
<1> QED BY <1>4, <1>5, <1>6, TableKeeps DEF Infer

LEMMA SkipInferredKeeps ==
  ASSUME DependencyInv, NEW h \in Handlers, NEW i \in DOMAIN Inferred, SkipInferred(h, i)
  PROVE  DependencyInv'
<1>1. TypeOK /\ Checked(h)
  BY DEF DependencyInv
<1>2. TypeOK'
  BY <1>1 DEF TypeOK, SkipInferred
<1>3. Checked(h)' /\ OthersAsBefore(h)
  BY <1>1 DEF SkipInferred, Checked, OthersAsBefore
<1> QED BY <1>2, <1>3, TableKeeps DEF SkipInferred

LEMMA InsertInferredKeeps ==
  ASSUME DependencyInv, NEW h \in Handlers, NEW i \in DOMAIN Inferred, InsertInferred(h, i)
  PROVE  DependencyInv'
<1> DEFINE d == Inferred[i]
<1>1. TypeOK /\ Checked(h)
  BY DEF DependencyInv
<1>2. d \in Dependencies /\ d.pred # d.succ
  <2>1. d \in InferredSet
    BY DEF InferredSet
  <2> QED BY <2>1, DependencyAssumption DEF Dependencies
<1>3. "proposed" \in Statuses
  BY DEF Statuses
<1>4. /\ Insert(h, d, "proposed") /\ ~DetectCycle(edges[h], d)
      /\ edges' = [edges EXCEPT ![h] = edges[h] \cup {d}]
      /\ facts' = [facts EXCEPT ![h] = @ \cup {d}]
      /\ queue' = [queue EXCEPT ![h] = @ \ {i}] /\ pc[h] = "materialize"
      /\ UNCHANGED <<pc, dep, to>>
  BY DEF InsertInferred, IsNext, Pushed
<1>5. facts[h] = edges[h]
  BY <1>1, <1>4 DEF Checked
<1> HIDE DEF d
<1>6. TypeOK'
  BY <1>1, <1>2, <1>3, <1>4, <1>5, Inserts DEF TypeOK
<1>7. Checked(h)'
  BY <1>1, <1>4, <1>5 DEF TypeOK, Checked
<1>8. OthersAsBefore(h)
  BY <1>1, <1>4 DEF TypeOK, OthersAsBefore
<1> QED BY <1>2, <1>3, <1>4, <1>5, <1>6, <1>7, <1>8, Inserts, OthersKeep

LEMMA UpdateStatusKeeps ==
  ASSUME DependencyInv, NEW h \in Handlers, UpdateStatus(h)
  PROVE  DependencyInv'
<1>1. TypeOK /\ Checked(h)
  BY DEF DependencyInv
<1>2. dep[h] \in Dependencies /\ to[h] \in Statuses /\ status[dep[h]] # None /\ to[h] # None
  BY <1>1, DependencyAssumption DEF Checked, UpdateStatus, Statuses
<1>3. status' = [status EXCEPT ![dep[h]] = to[h]] /\ known' = known /\ Answer(h)
  BY DEF UpdateStatus
<1>4. TypeOK'
  BY <1>1, <1>2, <1>3, Answers DEF TypeOK
<1>5. OthersAsBefore(h) /\ Checked(h)'
  BY <1>1, <1>3, Answers
<1>6. RowsStay
  BY <1>1, <1>2, <1>3 DEF RowsStay, TypeOK
<1>7. \A d \in Dependencies : status'[d] # None => ~DetectCycle(known'[d], d)
  BY <1>1, <1>2, <1>3 DEF DependencyInv, TypeOK
<1> QED BY <1>4, <1>5, <1>6, <1>7, OthersKeep

\* In every reachable state an edge in the table has no path back among those
\* its handler knew when it inserted it.
THEOREM DependencyInvariant == Spec => []DependencyInv
<1>1. Init => DependencyInv
  <2> SUFFICES ASSUME Init PROVE DependencyInv
    OBVIOUS
  <2>1. TypeOK
    BY DEF Init, TypeOK
  <2>2. ASSUME NEW h \in Handlers PROVE Checked(h)
    BY DEF Init, Checked
  <2> QED BY <2>1, <2>2 DEF Init, DependencyInv
<1>2. DependencyInv /\ [Next]_vars => DependencyInv'
  <2> SUFFICES ASSUME DependencyInv, [Next]_vars PROVE DependencyInv'
    OBVIOUS
  <2>1. ASSUME NEW h \in Handlers, NEW d \in Requested, NEW s \in {"active", "proposed"},
               CheckDuplicate(h, d, s)
        PROVE  DependencyInv'
    BY <2>1, CheckDuplicateKeeps
  <2>2. ASSUME NEW h \in Handlers, NEW d \in Touched, NEW s \in Statuses \cup {"other"},
               ReadStatus(h, d, s)
        PROVE  DependencyInv'
    BY <2>2, ReadStatusKeeps
  <2>3. ASSUME NEW h \in Handlers, CheckReverse(h) PROVE DependencyInv'
    BY <2>3, CheckReverseKeeps
  <2>4. ASSUME NEW h \in Handlers, ListAndGoOn(h) PROVE DependencyInv'
    BY <2>4, ListAndGoOnKeeps
  <2>5. ASSUME NEW h \in Handlers, InsertDependency(h) PROVE DependencyInv'
    BY <2>5, InsertDependencyKeeps
  <2>6. ASSUME NEW h \in Handlers, Infer(h) PROVE DependencyInv'
    BY <2>6, InferKeeps
  <2>7. ASSUME NEW h \in Handlers, NEW i \in DOMAIN Inferred, SkipInferred(h, i) PROVE DependencyInv'
    BY <2>7, SkipInferredKeeps
  <2>8. ASSUME NEW h \in Handlers, NEW i \in DOMAIN Inferred, InsertInferred(h, i) PROVE DependencyInv'
    BY <2>8, InsertInferredKeeps
  <2>9. ASSUME NEW h \in Handlers, UpdateStatus(h) PROVE DependencyInv'
    BY <2>9, UpdateStatusKeeps
  <2>10. ASSUME NEW h \in Handlers, ListAndRefuse(h) \/ Materialized(h) \/ Crash(h)
         PROVE  DependencyInv'
    BY <2>10, OnlyAnswers DEF ListAndRefuse, Materialized, Crash
  <2>11. CASE UNCHANGED vars
    BY <2>11 DEF vars, DependencyInv, TypeOK, Checked
  <2> QED
    BY <2>1, <2>2, <2>3, <2>4, <2>5, <2>6, <2>7, <2>8, <2>9, <2>10, <2>11 DEF Next
<1> QED BY <1>1, <1>2, PTL DEF Spec

\* Every variable keeps its shape, and no row joins a task to itself.
THEOREM DependencyTypes == Spec => []TypeOK
<1>1. DependencyInv => TypeOK
  BY DEF DependencyInv
<1> QED BY <1>1, DependencyInvariant, PTL

\* For any project and any number of requests: a cycle is never closed by an
\* edge whose handler knew all the others.
THEOREM CyclesAreRacesHolds == Spec => []CyclesAreRaces
BY InvGivesCycles, DependencyInvariant, PTL

(***************************************************************************)
(* The search.                                                             *)
(***************************************************************************)

\* A search for a path to the target, in a list of edges between tasks.
Searches(list) ==
  [tried : SUBSET DOMAIN list, visited : SUBSET Tasks, path : Seq(Tasks), found : BOOLEAN]

\* The path is a path from the start that passes no task twice.
PathOk(list, start, s) ==
  /\ s.path # <<>> => s.path[1] = start
  /\ \A i \in 1..(Len(s.path) - 1) :
       \E j \in DOMAIN list : list[j].pred = s.path[i] /\ list[j].succ = s.path[i + 1]
  /\ \A i, j \in 1..Len(s.path) : s.path[i] = s.path[j] => i = j

\* The target ends the path of a search that has found it; else nothing the
\* path has passed is the target.
FoundOk(target, s) ==
  /\ target \notin s.visited
  /\ \A i \in 1..Len(s.path) : s.path[i] \in s.visited \/ (s.found /\ i = Len(s.path))
  /\ s.found => s.path # <<>> /\ s.path[Len(s.path)] = target

\* Until then the tasks that were tried have been visited, and only those on
\* the path have edges left to try.
VisitedOk(list, start, s) ==
  /\ start \in s.visited
  /\ \A i \in s.tried : list[i].succ \in s.visited
  /\ \A i \in DOMAIN list \ s.tried :
       list[i].pred \in s.visited => \E k \in 1..Len(s.path) : s.path[k] = list[i].pred

SearchOk(list, target, start, s) ==
  /\ s \in Searches(list)
  /\ PathOk(list, start, s) /\ FoundOk(target, s)
  /\ ~s.found => VisitedOk(list, start, s)

\* How many steps a search can still take.
Ahead(list, s) == 2 * Cardinality(DOMAIN list \ s.tried) + Len(s.path)

LEMMA AheadIsNat ==
  ASSUME NEW list \in Seq(Dependency), NEW s \in Searches(list)
  PROVE  /\ IsFiniteSet(DOMAIN list \ s.tried)
         /\ Cardinality(DOMAIN list \ s.tried) \in Nat /\ Ahead(list, s) \in Nat
<1>1. IsFiniteSet(DOMAIN list)
  <2>1. DOMAIN list = 1..Len(list) /\ Len(list) \in Nat
    OBVIOUS
  <2> QED BY <2>1, FS_Interval
<1>2. IsFiniteSet(DOMAIN list \ s.tried)
  BY <1>1, FS_Subset
<1>3. Cardinality(DOMAIN list \ s.tried) \in Nat
  BY <1>2, FS_CardinalityType
<1>4. Len(s.path) \in Nat
  BY DEF Searches
<1> QED BY <1>2, <1>3, <1>4 DEF Ahead

\* What a call of dfs for a task does to each part of a search.
Entered(s, target, n, t) ==
  /\ t.tried = s.tried
  /\ n = target => /\ t.path = Append(s.path, n) /\ t.found = TRUE
                   /\ t.visited = s.visited
  /\ n # target /\ n \in s.visited => t = s
  /\ n # target /\ n \notin s.visited =>
       /\ t.path = Append(s.path, n) /\ t.found = s.found
       /\ t.visited = s.visited \cup {n}

LEMMA EnterFields ==
  ASSUME NEW list, NEW s \in Searches(list), NEW target \in Tasks, NEW n \in Tasks
  PROVE  /\ Enter(s, target, n) \in Searches(list)
         /\ Entered(s, target, n, Enter(s, target, n))
<1> USE DEF Entered
<1> DEFINE t == Enter(s, target, n)
           goOn == Append(s.path, n)
<1>1. goOn \in Seq(Tasks)
  BY DEF Searches
<1> HIDE DEF goOn
<1>2. CASE n = target
  <2>1. t = [s EXCEPT !.path = goOn, !.found = TRUE]
    BY <1>2 DEF Enter, goOn
  <2> HIDE DEF t
  <2>2. /\ t \in Searches(list) /\ t.tried = s.tried /\ t.visited = s.visited
        /\ t.path = goOn /\ t.found = TRUE
    BY <1>1, <2>1 DEF Searches
  <2> QED BY <1>2, <2>2 DEF t, goOn
<1>3. CASE n # target /\ n \in s.visited
  <2>1. t = s
    BY <1>3 DEF Enter
  <2> HIDE DEF t
  <2> QED BY <1>3, <2>1 DEF t
<1>4. CASE n # target /\ n \notin s.visited
  <2>1. t = [s EXCEPT !.visited = @ \cup {n}, !.path = goOn]
    BY <1>4 DEF Enter, goOn
  <2> HIDE DEF t
  <2>2. /\ t \in Searches(list) /\ t.tried = s.tried /\ t.visited = s.visited \cup {n}
        /\ t.path = goOn /\ t.found = s.found
    BY <1>1, <2>1 DEF Searches
  <2> QED BY <1>4, <2>2 DEF t, goOn
<1> QED BY <1>2, <1>3, <1>4

\* A call that has tried all its edges returns.
LEMMA LeaveOk ==
  ASSUME NEW list \in Seq(Dependency), NEW target \in Tasks, NEW start \in Tasks,
         NEW s, SearchOk(list, target, start, s), ~Ended(s), Untried(list, s) = {}
  PROVE  /\ SearchOk(list, target, start, Leave(s))
         /\ Ahead(list, Leave(s)) < Ahead(list, s)
<1> DEFINE n == Len(s.path)
           t == Leave(s)
<1>1. s \in Searches(list) /\ ~s.found /\ n \in Nat /\ n # 0 /\ s.path \in Seq(Tasks)
  BY DEF SearchOk, Searches, Ended
<1>2. /\ t.tried = s.tried /\ t.visited = s.visited /\ t.found = s.found
      /\ t.path = SubSeq(s.path, 1, n - 1) /\ t \in [tried : {s.tried}, visited : {s.visited},
                                                     path : {t.path}, found : {s.found}]
  BY <1>1 DEF Leave, Searches
<1>3. /\ t.path \in Seq(Tasks) /\ Len(t.path) = n - 1
      /\ \A i \in 1..(n - 1) : t.path[i] = s.path[i]
  BY <1>1, <1>2
<1> HIDE DEF t, n
<1>4. t \in Searches(list)
  BY <1>1, <1>2, <1>3 DEF Searches
<1>5. PathOk(list, start, s) /\ FoundOk(target, s) /\ VisitedOk(list, start, s) /\ n = Len(s.path)
  BY <1>1 DEF SearchOk, n
<1>6. PathOk(list, start, t)
  <2>1. t.path # <<>> => t.path[1] = start
    <3> SUFFICES ASSUME t.path # <<>> PROVE t.path[1] = start
      OBVIOUS
    <3>1. n - 1 # 0
      BY <1>3
    <3> QED BY <1>1, <1>3, <1>5, <3>1 DEF PathOk
  <2>2. ASSUME NEW i \in 1..(n - 2)
        PROVE  \E j \in DOMAIN list : list[j].pred = t.path[i] /\ list[j].succ = t.path[i + 1]
    <3>1. i \in 1..(n - 1) /\ i + 1 \in 1..(n - 1)
      BY <1>1
    <3> QED BY <1>3, <1>5, <3>1 DEF PathOk
  <2>3. ASSUME NEW i \in 1..(n - 1), NEW j \in 1..(n - 1), t.path[i] = t.path[j] PROVE i = j
    <3>1. i \in 1..n /\ j \in 1..n
      BY <1>1
    <3> QED BY <1>3, <1>5, <2>3, <3>1 DEF PathOk
  <2>4. Len(t.path) - 1 = n - 2
    BY <1>1, <1>3
  <2> QED BY <1>3, <2>1, <2>2, <2>3, <2>4 DEF PathOk
<1>7. FoundOk(target, t)
  BY <1>1, <1>2, <1>3, <1>5 DEF FoundOk
<1>8. VisitedOk(list, start, t)
  <2>1. ASSUME NEW i \in DOMAIN list \ t.tried, list[i].pred \in t.visited
        PROVE  \E k \in 1..Len(t.path) : t.path[k] = list[i].pred
    <3>1. PICK k \in 1..n : s.path[k] = list[i].pred
      BY <1>2, <1>5, <2>1 DEF VisitedOk
    <3>2. k # n
      BY <1>2, <1>5, <2>1, <3>1 DEF Untried
    <3>3. k \in 1..(n - 1)
      BY <1>1, <3>2
    <3> QED BY <1>3, <3>1, <3>3
  <2> QED BY <1>2, <1>5, <2>1 DEF VisitedOk
<1>9. Ahead(list, t) < Ahead(list, s)
  <2>1. Cardinality(DOMAIN list \ s.tried) \in Nat
    BY <1>1, AheadIsNat
  <2> QED BY <1>1, <1>2, <1>3, <1>5, <2>1 DEF Ahead
<1> QED BY <1>2, <1>4, <1>6, <1>7, <1>8, <1>9 DEF SearchOk, t

\* The path goes on along an edge to a task it has not passed.
LEMMA PathGoesOn ==
  ASSUME NEW list \in Seq(Dependency), NEW start, NEW s, NEW t, PathOk(list, start, s),
         s.path \in Seq(Tasks), s.path # <<>>, NEW i \in DOMAIN list,
         list[i].pred = s.path[Len(s.path)], t.path = Append(s.path, list[i].succ),
         \A k \in 1..Len(s.path) : s.path[k] # list[i].succ
  PROVE  PathOk(list, start, t)
<1> DEFINE p == s.path
           q == t.path
           n == Len(p)
<1>1. n \in Nat /\ n # 0 /\ Len(q) = n + 1
  OBVIOUS
<1>2. \A k \in 1..n : q[k] = p[k]
  OBVIOUS
<1>3. q[n + 1] = list[i].succ /\ list[i].pred = p[n]
  OBVIOUS
<1>4. p[1] = start
  BY DEF PathOk
<1>5. \A k \in 1..(n - 1) : \E j \in DOMAIN list : list[j].pred = p[k] /\ list[j].succ = p[k + 1]
  BY DEF PathOk
<1>6. \A k, l \in 1..n : p[k] = p[l] => k = l
  BY DEF PathOk
<1>7. \A k \in 1..n : p[k] # list[i].succ
  OBVIOUS
<1> HIDE DEF n, p, q
<1>8. q[1] = start
  BY <1>1, <1>2, <1>4
<1>9. ASSUME NEW k \in 1..n
      PROVE  \E j \in DOMAIN list : list[j].pred = q[k] /\ list[j].succ = q[k + 1]
  <2>1. CASE k = n
    BY <1>1, <1>2, <1>3, <2>1
  <2>2. CASE k # n
    <3>1. k \in 1..(n - 1) /\ k + 1 \in 1..n
      BY <1>1, <2>2
    <3> QED BY <1>2, <1>5, <3>1
  <2> QED BY <2>1, <2>2
<1>10. ASSUME NEW k \in 1..(n + 1), NEW l \in 1..(n + 1), q[k] = q[l] PROVE k = l
  <2>1. CASE k = n + 1 /\ l # n + 1
    <3>1. l \in 1..n
      BY <1>1, <2>1
    <3> QED BY <1>2, <1>3, <1>7, <1>10, <2>1, <3>1
  <2>2. CASE l = n + 1 /\ k # n + 1
    <3>1. k \in 1..n
      BY <1>1, <2>2
    <3> QED BY <1>2, <1>3, <1>7, <1>10, <2>2, <3>1
  <2>3. CASE k # n + 1 /\ l # n + 1
    <3>1. k \in 1..n /\ l \in 1..n
      BY <1>1, <2>3
    <3> QED BY <1>2, <1>6, <1>10, <3>1
  <2> QED BY <2>1, <2>2, <2>3
<1>11. Len(t.path) - 1 = n /\ Len(t.path) = n + 1
  BY <1>1 DEF q
<1> QED BY <1>8, <1>9, <1>10, <1>11 DEF PathOk, q

\* An edge is followed to the target, to a task that was visited or to a new one.
LEMMA FollowOk ==
  ASSUME NEW list \in Seq(Dependency), NEW target \in Tasks, NEW start \in Tasks,
         NEW s, SearchOk(list, target, start, s), ~Ended(s), NEW i \in Untried(list, s)
  PROVE  LET t == Enter([s EXCEPT !.tried = @ \cup {i}], target, list[i].succ)
         IN  SearchOk(list, target, start, t) /\ Ahead(list, t) < Ahead(list, s)
<1> DEFINE m == list[i].succ
           n == Len(s.path)
           t == Enter([s EXCEPT !.tried = @ \cup {i}], target, m)
<1>1. s \in Searches(list) /\ ~s.found /\ s.path \in Seq(Tasks) /\ n \in Nat /\ n # 0
  BY DEF SearchOk, Searches, Ended
<1>2. PathOk(list, start, s) /\ FoundOk(target, s) /\ VisitedOk(list, start, s)
  BY <1>1 DEF SearchOk
<1>3. i \in DOMAIN list \ s.tried /\ list[i].pred = s.path[n] /\ m \in Tasks
  <2>1. i \in DOMAIN list \ s.tried /\ list[i].pred = s.path[n]
    BY DEF Untried
  <2>2. list[i] \in Dependency
    BY <2>1
  <2> QED BY <2>1, <2>2 DEF Dependency
<1>4. \A k \in 1..n : s.path[k] \in s.visited
  BY <1>1, <1>2 DEF FoundOk
<1> DEFINE u == [s EXCEPT !.tried = @ \cup {i}]
<1>u. /\ u \in Searches(list) /\ u.tried = s.tried \cup {i}
      /\ u.visited = s.visited /\ u.path = s.path /\ u.found = s.found
  BY <1>1, <1>3 DEF Searches
<1>t. t = Enter(u, target, m)
  OBVIOUS
<1> HIDE DEF u, t
<1>e. t \in Searches(list) /\ Entered(u, target, m, t)
  <2> HIDE DEF m
  <2> QED BY <1>3, <1>u, <1>t, EnterFields
<1>5. t.tried = s.tried \cup {i}
  BY <1>u, <1>e DEF Entered
<1>6. 2 * Cardinality(DOMAIN list \ t.tried) = 2 * Cardinality(DOMAIN list \ s.tried) - 2
  <2>1. DOMAIN list \ t.tried = (DOMAIN list \ s.tried) \ {i}
    BY <1>5
  <2>2. IsFiniteSet(DOMAIN list \ s.tried) /\ Cardinality(DOMAIN list \ s.tried) \in Nat
    BY <1>1, AheadIsNat
  <2>3. Cardinality((DOMAIN list \ s.tried) \ {i}) = Cardinality(DOMAIN list \ s.tried) - 1
    BY <1>3, <2>2, FS_RemoveElement
  <2> HIDE DEF t
  <2>4. Cardinality(DOMAIN list \ t.tried) = Cardinality(DOMAIN list \ s.tried) - 1
    BY <2>1, <2>3, Zenon
  <2> QED BY <2>2, <2>4
<1>7. Len(t.path) <= n + 1 => Ahead(list, t) < Ahead(list, s)
  <2>1. Cardinality(DOMAIN list \ s.tried) \in Nat
    BY <1>1, AheadIsNat
  <2>2. Len(t.path) \in Nat
    BY <1>e DEF Searches
  <2> HIDE DEF t
  <2> QED BY <1>1, <1>6, <2>1, <2>2 DEF Ahead
<1>8. CASE m = target
  <2>1. /\ t.path = Append(s.path, m) /\ t.found = TRUE /\ t.visited = s.visited
        /\ t \in Searches(list)
    BY <1>1, <1>8, <1>u, <1>e DEF Entered
  <2> HIDE DEF t
  <2>2. Len(t.path) = n + 1 /\ t.path[n + 1] = m /\ \A k \in 1..n : t.path[k] = s.path[k]
    BY <1>1, <1>3, <2>1
  <2>3. PathOk(list, start, t)
    <3>1. \A k \in 1..n : s.path[k] # m
      BY <1>2, <1>4, <1>8 DEF FoundOk
    <3> QED BY <1>1, <1>2, <1>3, <2>1, <3>1, PathGoesOn
  <2>4. FoundOk(target, t)
    <3>1. \A k \in 1..(n + 1) : k = n + 1 \/ k \in 1..n
      BY <1>1
    <3>2. t.path # <<>>
      BY <1>1, <2>2
    <3> QED BY <1>2, <1>4, <1>8, <2>1, <2>2, <3>1, <3>2 DEF FoundOk
  <2> QED BY <1>1, <1>7, <2>1, <2>2, <2>3, <2>4 DEF SearchOk, t
<1>9. CASE m # target /\ m \in s.visited
  <2>1. t.path = s.path /\ t.found = s.found /\ t.visited = s.visited /\ t \in Searches(list)
    BY <1>1, <1>9, <1>u, <1>e DEF Entered
  <2> HIDE DEF t
  <2>2. PathOk(list, start, t) /\ FoundOk(target, t)
    BY <1>2, <2>1 DEF PathOk, FoundOk
  <2>3. VisitedOk(list, start, t)
    BY <1>2, <1>5, <1>9, <2>1 DEF VisitedOk
  <2> QED BY <1>1, <1>7, <2>1, <2>2, <2>3 DEF SearchOk, t
<1>10. CASE m # target /\ m \notin s.visited
  <2>1. /\ t.path = Append(s.path, m) /\ t.found = FALSE /\ t.visited = s.visited \cup {m}
        /\ t \in Searches(list)
    BY <1>1, <1>10, <1>u, <1>e DEF Entered
  <2> HIDE DEF t
  <2>2. Len(t.path) = n + 1 /\ t.path[n + 1] = m /\ \A k \in 1..n : t.path[k] = s.path[k]
    BY <1>1, <1>3, <2>1
  <2>3. \A k \in 1..(n + 1) : k = n + 1 \/ k \in 1..n
    BY <1>1
  <2>4. PathOk(list, start, t)
    <3>1. \A k \in 1..n : s.path[k] # m
      BY <1>4, <1>10
    <3> QED BY <1>1, <1>2, <1>3, <2>1, <3>1, PathGoesOn
  <2>5. FoundOk(target, t)
    BY <1>2, <1>4, <1>10, <2>1, <2>2, <2>3 DEF FoundOk
  <2>6. VisitedOk(list, start, t)
    <3>1. \A j \in t.tried : list[j].succ \in t.visited
      BY <1>2, <1>5, <2>1 DEF VisitedOk
    <3>2. ASSUME NEW j \in DOMAIN list \ t.tried, list[j].pred \in t.visited
          PROVE  \E k \in 1..(n + 1) : t.path[k] = list[j].pred
      <4>1. CASE list[j].pred = m
        BY <1>1, <2>2, <4>1
      <4>2. CASE list[j].pred # m
        <5>1. PICK k \in 1..n : s.path[k] = list[j].pred
          BY <1>2, <1>5, <2>1, <3>2, <4>2 DEF VisitedOk
        <5>2. k \in 1..(n + 1)
          BY <1>1
        <5> QED BY <2>2, <5>1, <5>2
      <4> QED BY <4>1, <4>2
    <3> QED BY <1>2, <2>1, <2>2, <3>1, <3>2 DEF VisitedOk
  <2> QED BY <1>1, <1>7, <2>1, <2>2, <2>4, <2>5, <2>6 DEF SearchOk, t
<1> QED BY <1>8, <1>9, <1>10

\* A search that has not ended comes closer to its end with every step.
LEMMA StepOk ==
  ASSUME NEW list \in Seq(Dependency), NEW target \in Tasks, NEW start \in Tasks,
         NEW s, SearchOk(list, target, start, s)
  PROVE  LET t == SearchStep(list, target, s)
         IN  /\ SearchOk(list, target, start, t)
             /\ IF Ended(s) THEN t = s ELSE Ahead(list, t) < Ahead(list, s)
<1> DEFINE untried == Untried(list, s)
           next == CHOOSE i \in untried : \A j \in untried : i <= j
           t == SearchStep(list, target, s)
<1>1. CASE Ended(s)
  <2>1. t = s
    BY <1>1 DEF SearchStep
  <2> HIDE DEF t
  <2> QED BY <1>1, <2>1 DEF t
<1>2. CASE ~Ended(s) /\ untried = {}
  <2>1. t = Leave(s)
    BY <1>2 DEF SearchStep
  <2> QED BY <1>2, <2>1, LeaveOk
<1>3. CASE ~Ended(s) /\ untried # {}
  <2>1. next \in untried
    <3>1. untried \in SUBSET Nat
      BY DEF Untried
    <3>2. \E i \in untried : \A j \in untried : i <= j
      <4> HIDE DEF untried
      <4> QED BY <1>3, <3>1, SmallestNat
    <3> QED BY <3>2
  <2>2. t = Enter([s EXCEPT !.tried = @ \cup {next}], target, list[next].succ)
    BY <1>3 DEF SearchStep
  <2> HIDE DEF next
  <2> QED BY <1>3, <2>1, <2>2, FollowOk
<1> QED BY <1>1, <1>2, <1>3

\* At first the start is visited and nothing tried.
LEMMA StartOk ==
  ASSUME NEW list \in Seq(Dependency), NEW target \in Tasks, NEW start \in Tasks, start # target
  PROVE  LET s == Enter(NewSearch, target, start)
         IN  SearchOk(list, target, start, s) /\ Ahead(list, s) = Steps(list)
<1> DEFINE s == Enter(NewSearch, target, start)
<1>1. /\ s \in Searches(list) /\ s.tried = {} /\ s.visited = {start}
      /\ s.path = <<start>> /\ s.found = FALSE
  <2>1. NewSearch \in Searches(list)
    BY DEF NewSearch, Searches
  <2>2. Append(NewSearch.path, start) = <<start>>
    BY DEF NewSearch
  <2>3. NewSearch.tried = {} /\ NewSearch.visited = {} /\ NewSearch.found = FALSE
    BY DEF NewSearch
  <2>4. start # target /\ start \notin NewSearch.visited
    BY <2>3
  <2>5. s \in Searches(list) /\ Entered(NewSearch, target, start, s)
    BY <2>1, EnterFields
  <2> HIDE DEF s
  <2> QED BY <2>2, <2>3, <2>4, <2>5 DEF Entered
<1>2. Len(s.path) = 1 /\ s.path[1] = start
  BY <1>1
<1>3. Cardinality(DOMAIN list \ s.tried) = Len(list) /\ Len(list) \in Nat
  <2>1. DOMAIN list \ s.tried = 1..Len(list) /\ Len(list) \in Nat
    BY <1>1
  <2>2. Cardinality(1..Len(list)) = Len(list)
    BY <2>1, FS_Interval
  <2> QED BY <2>1, <2>2
<1> HIDE DEF s
<1>5. PathOk(list, start, s) /\ FoundOk(target, s) /\ VisitedOk(list, start, s)
  BY <1>1, <1>2 DEF PathOk, FoundOk, VisitedOk
<1>6. Ahead(list, s) = Steps(list)
  BY <1>2, <1>3 DEF Ahead, Steps
<1> QED BY <1>1, <1>5, <1>6 DEF SearchOk, s

\* The recursion of the search defines something.
LEMMA SearchExists ==
  ASSUME NEW list \in Seq(Dependency), NEW target \in Tasks, NEW start \in Tasks, start # target
  PROVE  LET search == Search(list, target, start)
         IN  search = [k \in Nat |-> IF k = 0 THEN Enter(NewSearch, target, start)
                                     ELSE SearchStep(list, target, search[k - 1])]
<1> DEFINE S == {s \in Searches(list) : SearchOk(list, target, start, s)}
           next == [s \in S |-> SearchStep(list, target, s)]
           first == Enter(NewSearch, target, start)
           Is(f) == f = [k \in Nat |-> IF k = 0 THEN first ELSE SearchStep(list, target, f[k - 1])]
<1>1. first \in S
  BY StartOk DEF SearchOk
<1>2. next \in [S -> S]
  <2>1. ASSUME NEW s \in S PROVE SearchStep(list, target, s) \in S
    BY StepOk DEF SearchOk
  <2> HIDE DEF S
  <2> QED BY <2>1
<1>3. PICK f \in [Nat -> S] : Iterates(f, first, next)
  <2> HIDE DEF S, next, first
  <2> QED BY <1>1, <1>2, IterationExists
<1>4. Is(f)
  <2>1. ASSUME NEW k \in Nat, k # 0 PROVE next[f[k - 1]] = SearchStep(list, target, f[k - 1])
    <3>1. k - 1 \in Nat
      BY <2>1
    <3>2. f[k - 1] \in S
      BY <1>3, <3>1
    <3> HIDE DEF S
    <3> QED BY <3>2
  <2> HIDE DEF next, first, S
  <2> QED BY <1>3, <2>1 DEF Iterates
<1>5. Search(list, target, start) = CHOOSE g : Is(g)
  <2> HIDE DEF S, next
  <2> QED BY DEF Search
<1> HIDE DEF Is
<1>6. Is(CHOOSE g : Is(g))
  BY <1>4
<1> QED BY <1>5, <1>6 DEF Is

\* After all its steps the search has ended.
LEMMA SearchEnds ==
  ASSUME NEW list \in Seq(Dependency), NEW target \in Tasks, NEW start \in Tasks, start # target
  PROVE  LET s == Search(list, target, start)[Steps(list)]
         IN  SearchOk(list, target, start, s) /\ Ended(s)
<1> DEFINE f == Search(list, target, start)
           Fine(k) == /\ SearchOk(list, target, start, f[k])
                      /\ Ended(f[k]) \/ Ahead(list, f[k]) + k <= Steps(list)
           C == {k \in Nat : ~Fine(k)}
<1>1. /\ f[0] = Enter(NewSearch, target, start)
      /\ \A k \in Nat : k # 0 => f[k] = SearchStep(list, target, f[k - 1])
  <2>1. f = [k \in Nat |-> IF k = 0 THEN Enter(NewSearch, target, start)
                           ELSE SearchStep(list, target, f[k - 1])]
    BY SearchExists
  <2> HIDE DEF f
  <2> QED BY <2>1
<1> HIDE DEF f
<1>2. Steps(list) \in Nat
  BY DEF Steps
<1>3. \A k \in Nat : Fine(k)
  <2>1. SUFFICES ASSUME C # {} PROVE FALSE
    OBVIOUS
  <2>2. PICK k \in C : \A l \in C : k <= l
    <3>1. C \in SUBSET Nat
      OBVIOUS
    <3> HIDE DEF C
    <3> QED BY <2>1, <3>1, SmallestNat
  <2>3. k # 0
    <3>1. SearchOk(list, target, start, f[0]) /\ Ahead(list, f[0]) = Steps(list)
      BY <1>1, StartOk
    <3>2. Fine(0)
      BY <1>2, <3>1
    <3> QED BY <3>2
  <2>4. Fine(k - 1) /\ k \in Nat /\ k - 1 \in Nat
    <3>1. k \in Nat
      OBVIOUS
    <3>2. k - 1 \in Nat /\ k - 1 \notin C
      <4> HIDE DEF C
      <4> QED BY <2>2, <2>3, <3>1
    <3> QED BY <3>1, <3>2
  <2>5. f[k] = SearchStep(list, target, f[k - 1])
    BY <1>1, <2>3, <2>4
  <2>6. SearchOk(list, target, start, f[k])
    BY <2>4, <2>5, StepOk
  <2>7. CASE Ended(f[k - 1])
    <3>1. f[k] = f[k - 1]
      BY <2>4, <2>5, <2>7, StepOk
    <3> QED BY <2>6, <2>7, <3>1
  <2>8. CASE ~Ended(f[k - 1])
    <3>1. Ahead(list, f[k]) < Ahead(list, f[k - 1])
      BY <2>4, <2>5, <2>8, StepOk
    <3>2. Ahead(list, f[k]) \in Nat /\ Ahead(list, f[k - 1]) \in Nat
      BY <2>4, <2>6, AheadIsNat DEF SearchOk
    <3>3. Ahead(list, f[k - 1]) + (k - 1) <= Steps(list)
      BY <2>4, <2>8
    <3>4. Ahead(list, f[k]) + k <= Steps(list)
      BY <1>2, <2>4, <3>1, <3>2, <3>3
    <3> QED BY <2>6, <3>4
  <2> QED BY <2>7, <2>8
<1>4. Fine(Steps(list))
  BY <1>2, <1>3
<1>5. Ended(f[Steps(list)])
  <2> DEFINE s == f[Steps(list)]
  <2>1. SUFFICES ASSUME ~Ended(s) PROVE FALSE
    OBVIOUS
  <2>2. Ahead(list, s) + Steps(list) <= Steps(list) /\ s \in Searches(list)
    BY <1>4, <2>1 DEF SearchOk
  <2>3. Len(s.path) \in Nat /\ Len(s.path) # 0
    BY <2>1, <2>2 DEF Searches, Ended
  <2>4. Cardinality(DOMAIN list \ s.tried) \in Nat
    BY <2>2, AheadIsNat
  <2> HIDE DEF s
  <2> QED BY <1>2, <2>2, <2>3, <2>4 DEF Ahead
<1> QED BY <1>4, <1>5 DEF f

\* The orders of a finite set of edges are lists of them.
LEMMA OrdersAreLists ==
  ASSUME NEW E \in SUBSET Dependencies, IsFiniteSet(E), NEW rows \in Orders(E), NEW d \in Dependencies
  PROVE  /\ Append(rows, d) \in Seq(Dependency)
         /\ \A j \in DOMAIN Append(rows, d) : Append(rows, d)[j] \in E \cup {d}
         /\ \A e \in E \cup {d} : \E j \in DOMAIN Append(rows, d) : Append(rows, d)[j] = e
<1> DEFINE n == Cardinality(E)
           list == Append(rows, d)
<1>1. n \in Nat
  BY FS_CardinalityType
<1>2. rows \in [1..n -> E] /\ \A e \in E : \E i \in 1..n : rows[i] = e
  BY DEF Orders
<1> HIDE DEF n
<1>3. rows \in Seq(E) /\ Len(rows) = n
  BY <1>1, <1>2
<1>4. list \in Seq(Dependencies)
  BY <1>3
<1>5. DOMAIN list = 1..(n + 1) /\ list[n + 1] = d /\ \A i \in 1..n : list[i] = rows[i]
  BY <1>1, <1>3
<1> HIDE DEF list
<1>6. \A j \in DOMAIN list : list[j] \in E \cup {d}
  <2> SUFFICES ASSUME NEW j \in 1..(n + 1) PROVE list[j] \in E \cup {d}
    BY <1>5
  <2>1. j = n + 1 \/ j \in 1..n
    BY <1>1
  <2> QED BY <1>2, <1>5, <2>1
<1>7. ASSUME NEW e \in E \cup {d} PROVE \E j \in DOMAIN list : list[j] = e
  <2>1. n + 1 \in 1..(n + 1) /\ \A i \in 1..n : i \in 1..(n + 1)
    BY <1>1
  <2> QED BY <1>2, <1>5, <1>7, <2>1
<1>8. list \in Seq(Dependency)
  <2>1. Dependencies \subseteq Dependency
    BY Ends
  <2> QED BY <1>4, <2>1
<1> QED BY <1>6, <1>7, <1>8 DEF list

\* What is closed under the edges and holds the start of a path that has passed
\* nothing twice and ends in the target holds the target.
LEMMA PathInClosed ==
  ASSUME NEW list \in Seq(Dependency), NEW target, NEW start, NEW s, NEW R,
         SearchOk(list, target, start, s), s.found, start \in R,
         \A j \in DOMAIN list :
           list[j].pred # target /\ list[j].pred \in R => list[j].succ \in R
  PROVE  target \in R
<1> DEFINE n == Len(s.path)
           C == {k \in Nat : k \in 1..n /\ s.path[k] \notin R}
<1>1. n \in Nat /\ n # 0 /\ PathOk(list, start, s) /\ s.path[n] = target /\ s.path[1] = start
  BY DEF SearchOk, Searches, FoundOk, PathOk
<1> HIDE DEF n
<1>2. SUFFICES ASSUME C # {} PROVE FALSE
  <2>1. n \in 1..n
    BY <1>1
  <2> QED BY <1>1, <2>1
<1>3. PICK k \in C : \A l \in C : k <= l
  <2>1. C \in SUBSET Nat
    OBVIOUS
  <2> HIDE DEF C
  <2> QED BY <1>2, <2>1, SmallestNat
<1>4. k \in 1..n /\ k # 1 /\ s.path[k] \notin R
  BY <1>1
<1>5. k - 1 \in 1..(n - 1) /\ k - 1 \in 1..n /\ k - 1 \in Nat /\ (k - 1) + 1 = k /\ ~(k <= k - 1)
  BY <1>1, <1>4
<1>6. s.path[k - 1] \in R
  <2>1. k - 1 \notin C
    <3> HIDE DEF C
    <3> QED BY <1>3, <1>5
  <2> QED BY <1>5, <2>1
<1>7. PICK j \in DOMAIN list : list[j].pred = s.path[k - 1] /\ list[j].succ = s.path[k]
  <2>1. \A i \in 1..(n - 1) :
          \E j \in DOMAIN list : list[j].pred = s.path[i] /\ list[j].succ = s.path[i + 1]
    BY <1>1 DEF PathOk, n
  <2> QED BY <1>5, <2>1
<1>8. s.path[k - 1] # target
  <2>1. \A i, l \in 1..n : s.path[i] = s.path[l] => i = l
    BY <1>1 DEF PathOk, n
  <2>2. n \in 1..n /\ k - 1 # n
    BY <1>1, <1>5
  <2> QED BY <1>1, <1>5, <2>1, <2>2
<1> QED BY <1>4, <1>6, <1>7, <1>8

\* The search is right, whatever the order of the edges.
LEMMA SearchIsRight ==
  ASSUME NEW E \in SUBSET Dependencies, IsFiniteSet(E), NEW rows \in Orders(E),
         NEW d \in Dependencies, d.pred # d.succ
  PROVE  LET result == DetectDependencyCycle(rows, d)
         IN  /\ result.hasCycle = DetectCycle(E, d)
             /\ result.hasCycle => CycleThrough(result.path, E, d)
<1> DEFINE list == Append(rows, d)
           s == Search(list, d.pred, d.succ)[Steps(list)]
           result == DetectDependencyCycle(rows, d)
<1> SUFFICES /\ result.hasCycle = DetectCycle(E, d)
             /\ result.hasCycle => CycleThrough(result.path, E, d)
  OBVIOUS
<1>1. list \in Seq(Dependency) /\ d.pred \in Tasks /\ d.succ \in Tasks
  BY Ends, OrdersAreLists
<1>2. SearchOk(list, d.pred, d.succ, s) /\ Ended(s)
  <2> HIDE DEF list
  <2> QED BY <1>1, SearchEnds
<1>3. /\ result.hasCycle = s.found
      /\ s.found => result.path = <<d.pred>> \o s.path
  BY DEF DetectDependencyCycle
<1>4. /\ \A j \in DOMAIN list : list[j] \in E \cup {d}
      /\ \A e \in E \cup {d} : \E j \in DOMAIN list : list[j] = e
  BY OrdersAreLists
<1> HIDE DEF s, list, result
<1>5. s \in Searches(list) /\ s.found \in BOOLEAN
  BY <1>2 DEF SearchOk, Searches
<1>6. CASE s.found
  <2>1. DetectCycle(E, d)
    <3> SUFFICES ASSUME NEW R \in SUBSET Tasks, d.succ \in R,
                        \A n \in R : Successors(E, n) \subseteq R
                 PROVE  d.pred \in R
      BY DEF DetectCycle
    <3>1. ASSUME NEW j \in DOMAIN list, list[j].pred # d.pred, list[j].pred \in R
          PROVE  list[j].succ \in R
      <4>1. list[j] \in E
        BY <1>4, <3>1
      <4>2. list[j].succ \in Successors(E, list[j].pred)
        BY <4>1 DEF Successors
      <4> QED BY <3>1, <4>2
    <3> QED BY <1>1, <1>2, <1>6, <3>1, PathInClosed
  <2>2. CycleThrough(result.path, E, d)
    <3> DEFINE p == s.path
               q == result.path
               n == Len(p)
    <3>1. p \in Seq(Tasks) /\ n \in Nat /\ n # 0
      BY <1>2, <1>6 DEF SearchOk, FoundOk, Searches
    <3>2. q = <<d.pred>> \o p
      BY <1>3, <1>6
    <3> HIDE DEF p, q
    <3>3. Len(q) = n + 1 /\ q[1] = d.pred /\ \A i \in 1..n : q[i + 1] = p[i]
      BY <1>1, <3>1, <3>2
    <3> HIDE DEF n
    <3>4. PathOk(list, d.succ, s) /\ FoundOk(d.pred, s) /\ p = s.path /\ n = Len(s.path)
      BY <1>2 DEF SearchOk, p, n
    <3>5. p[1] = d.succ /\ p[n] = d.pred
      BY <1>6, <3>1, <3>4 DEF PathOk, FoundOk
    <3>6. n # 1
      BY <3>5
    <3>7. q[2] = d.succ /\ q[n + 1] = d.pred /\ n + 1 > 2
      <4>1. 1 \in 1..n /\ n \in 1..n /\ 1 + 1 = 2
        BY <3>1
      <4> QED BY <3>1, <3>3, <3>5, <3>6, <4>1
    <3>8. ASSUME NEW i \in 1..n PROVE \E e \in E \cup {d} : e.pred = q[i] /\ e.succ = q[i + 1]
      <4>1. CASE i = 1
        BY <3>3, <3>7, <4>1
      <4>2. CASE i # 1
        <5>1. i - 1 \in 1..(n - 1) /\ i - 1 \in 1..n /\ (i - 1) + 1 = i
          BY <3>1, <4>2
        <5>2. PICK j \in DOMAIN list : list[j].pred = p[i - 1] /\ list[j].succ = p[(i - 1) + 1]
          BY <3>4, <5>1 DEF PathOk
        <5>3. p[i - 1] = q[i] /\ p[i] = q[i + 1]
          BY <3>3, <5>1
        <5> QED BY <1>4, <5>1, <5>2, <5>3
      <4> QED BY <4>1, <4>2
    <3>9. ASSUME NEW i \in 1..n, NEW j \in 1..n, q[i] = q[j] PROVE i = j
      <4>1. \A k, l \in 1..n : p[k] = p[l] => k = l
        BY <3>4 DEF PathOk
      <4>2. ASSUME NEW k \in 1..n, k # 1 PROVE k - 1 \in 1..n /\ k - 1 # n /\ q[k] = p[k - 1]
        <5>1. k - 1 \in 1..n /\ k - 1 # n /\ (k - 1) + 1 = k
          BY <3>1, <4>2
        <5> QED BY <3>3, <5>1
      <4>3. ASSUME NEW k \in 1..n, k # 1 PROVE q[k] # d.pred
        <5>1. n \in 1..n
          BY <3>1
        <5> QED BY <3>5, <4>1, <4>2, <4>3, <5>1
      <4>4. CASE i = 1 \/ j = 1
        BY <3>3, <3>9, <4>3, <4>4
      <4>5. CASE i # 1 /\ j # 1
        <5>1. p[i - 1] = p[j - 1] /\ i - 1 \in 1..n /\ j - 1 \in 1..n
          BY <3>9, <4>2, <4>5
        <5>2. i - 1 = j - 1
          BY <4>1, <5>1
        <5> QED BY <3>1, <5>2
      <4> QED BY <4>4, <4>5
    <3>10. Len(q) - 1 = n
      BY <3>1, <3>3
    <3> QED BY <3>3, <3>7, <3>8, <3>9, <3>10 DEF CycleThrough, q
  <2> QED BY <1>3, <1>5, <1>6, <2>1, <2>2 DEF DetectCycle
<1>7. CASE ~s.found
  <2>1. s.path = <<>> /\ VisitedOk(list, d.succ, s) /\ FoundOk(d.pred, s)
    BY <1>2, <1>7 DEF SearchOk, Ended
  <2>2. s.visited \in SUBSET Tasks /\ d.succ \in s.visited /\ d.pred \notin s.visited
    BY <1>5, <2>1 DEF Searches, VisitedOk, FoundOk
  <2>3. ASSUME NEW n \in s.visited, NEW e \in E, e.pred = n PROVE e.succ \in s.visited
    <3>1. PICK j \in DOMAIN list : list[j] = e
      BY <1>4
    <3>2. j \in s.tried
      <4>1. 1..Len(s.path) = {}
        BY <2>1
      <4> QED BY <2>1, <2>3, <3>1, <4>1 DEF VisitedOk
    <3> QED BY <2>1, <3>1, <3>2 DEF VisitedOk
  <2>4. ~DetectCycle(E, d)
    <3>1. \A n \in s.visited : Successors(E, n) \subseteq s.visited
      BY <2>3 DEF Successors
    <3> QED BY <2>2, <3>1 DEF DetectCycle
  <2> QED BY <1>3, <1>5, <1>7, <2>4 DEF DetectCycle
<1> QED BY <1>5, <1>6, <1>7

\* For any project and any number of requests: every check for a cycle finds one
\* exactly when there is one, whatever the order of the rows it was given, and
\* the path it reports is that cycle.
THEOREM SearchFindsCyclesHolds == Spec => []SearchFindsCycles
<1>1. DependencyInv => SearchFindsCycles
  <2> SUFFICES ASSUME DependencyInv, NEW h \in Handlers, NEW c \in Checks(h),
                      NEW rows \in Orders(c[1])
               PROVE  LET result == DetectDependencyCycle(rows, c[2])
                      IN  /\ result.hasCycle = DetectCycle(c[1], c[2])
                          /\ result.hasCycle => CycleThrough(result.path, c[1], c[2])
    BY DEF SearchFindsCycles
  <2>1. TypeOK /\ Checked(h)
    BY DEF DependencyInv
  <2>2. /\ c[1] \in SUBSET Dependencies /\ c[2] \in Dependencies
        /\ c[2].pred # c[2].succ
    <3>1. CASE pc[h] = "list"
      <4>1. c[1] = Live /\ c[2] = dep[h]
        BY <3>1 DEF Checks, ListedEdges
      <4> QED BY <2>1, <3>1, <4>1 DEF Checked, Live
    <3>2. CASE pc[h] = "materialize"
      <4>1. PICK i \in queue[h] : c[1] = edges[h] /\ c[2] = Inferred[i]
        BY <3>2 DEF Checks
      <4>2. queue[h] \subseteq DOMAIN Inferred /\ edges[h] \in SUBSET Dependencies
        BY <2>1 DEF TypeOK
      <4>3. c[2] \in InferredSet
        BY <4>1, <4>2 DEF InferredSet
      <4> QED BY <4>1, <4>2, <4>3, DependencyAssumption DEF Dependencies
    <3>3. pc[h] = "list" \/ pc[h] = "materialize"
      BY DEF Checks
    <3> QED BY <3>1, <3>2, <3>3
  <2>3. IsFiniteSet(c[1])
    <3>1. IsFiniteSet(Dependencies)
      <4>1. DOMAIN Inferred = 1..Len(Inferred) /\ Len(Inferred) \in Nat
        BY DependencyAssumption
      <4>2. IsFiniteSet(InferredSet)
        <5>1. Inferred \in Seq(InferredSet)
          <6>1. \A i \in 1..Len(Inferred) : Inferred[i] \in InferredSet
            BY <4>1 DEF InferredSet
          <6>2. Inferred \in [1..Len(Inferred) -> InferredSet]
            BY <6>1, DependencyAssumption
          <6> QED BY <4>1, <6>2
        <5> QED BY <4>1, <5>1 DEF IsFiniteSet, InferredSet
      <4> QED BY <4>2, FS_Union, DependencyAssumption DEF Dependencies
    <3> QED BY <2>2, <3>1, FS_Subset
  <2> QED BY <2>2, <2>3, SearchIsRight
<1> QED BY <1>1, DependencyInvariant, PTL
=============================================================================
