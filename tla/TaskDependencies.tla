-------------------------- MODULE TaskDependencies --------------------------
(***************************************************************************)
(* The dependency graph between the execution tasks of one project:        *)
(* createExecutionTaskDependency, the materialisation of inferred          *)
(* dependencies and the dependency status route.  Every statement is a     *)
(* transaction of its own, nothing is locked, and a handler works on with  *)
(* what it has read.                                                       *)
(*                                                                         *)
(* An operator named Faulty... is never used by the specification: it is   *)
(* the definition after it with a bug seeded in.                           *)
(***************************************************************************)
EXTENDS Integers, FiniteSets, Sequences

CONSTANTS
  None,       \* no row
  Tasks,      \* execution tasks of the project
  Types,      \* dependency types
  Requested,  \* dependencies that users ask for
  Touched,    \* those whose status users change
  Inferred,   \* sequence of those the task texts suggest, in the order of the rules
  Handlers    \* requests being served

Dependency == [pred : Tasks, succ : Tasks, type : Types]
InferredSet == {Inferred[i] : i \in DOMAIN Inferred}
Dependencies == Requested \cup InferredSet

ASSUME DependencyAssumption ==
  /\ Requested \subseteq Dependency /\ IsFiniteSet(Requested)
  /\ Touched \subseteq Dependencies
  /\ Inferred \in Seq(Dependency)
  /\ \A d \in InferredSet : d.pred # d.succ
  /\ None \notin {"active", "proposed", "resolved", "invalidated"} \cup Dependency

VARIABLES
  status,  \* status of each dependency's row
  pc,      \* where each handler is
  dep,     \* the dependency it is about
  to,      \* the status it will write
  edges,   \* its list of existing edges
  queue,   \* the places in Inferred of those it has still to try
  facts,   \* history: the edges there were when it read, and those it added
  known    \* history: facts of the handler that inserted each dependency

vars == <<status, pc, dep, to, edges, queue, facts, known>>
handlers == <<pc, dep, to, edges, queue, facts>>

Statuses == {"active", "proposed", "resolved", "invalidated"}

Init ==
  /\ status = [d \in Dependencies |-> None]
  /\ pc = [h \in Handlers |-> "idle"]
  /\ dep = [h \in Handlers |-> None]
  /\ to = [h \in Handlers |-> None]
  /\ edges = [h \in Handlers |-> {}]
  /\ queue = [h \in Handlers |-> {}]
  /\ facts = [h \in Handlers |-> {}]
  /\ known = [d \in Dependencies |-> {}]

Live == {d \in Dependencies : status[d] \in {"active", "proposed"}}
FaultyListedEdges == {d \in Dependencies : status[d] = "active"}
ListedEdges == Live

Successors(E, n) == {e.succ : e \in {x \in E : x.pred = n}}
\* detectDependencyCycle: its depth-first search from the new edge's successor
\* finds the predecessor, which is then in every set of tasks that holds the
\* successor and all that follows from its members.
DetectCycle(E, d) ==
  \A R \in SUBSET Tasks :
    d.succ \in R /\ (\A n \in R : Successors(E, n) \subseteq R) => d.pred \in R

\* What a handler works with is forgotten when it answers.
Answer(h) ==
  /\ pc' = [pc EXCEPT ![h] = "idle"]
  /\ dep' = [dep EXCEPT ![h] = None]
  /\ to' = [to EXCEPT ![h] = None]
  /\ edges' = [edges EXCEPT ![h] = {}]
  /\ queue' = [queue EXCEPT ![h] = {}]
  /\ facts' = [facts EXCEPT ![h] = {}]
Crash(h) == pc[h] # "idle" /\ Answer(h) /\ UNCHANGED <<status, known>>

(***************************************************************************)
(* Creating a dependency.                                                  *)
(***************************************************************************)

\* No row of any status has the same ends and type; otherwise that row is the answer.
CheckDuplicate(h, d, s) ==
  /\ pc[h] = "idle"
  /\ d.pred # d.succ
  /\ status[d] = None
  /\ pc' = [pc EXCEPT ![h] = "reverse"]
  /\ dep' = [dep EXCEPT ![h] = d]
  /\ to' = [to EXCEPT ![h] = s]
  /\ UNCHANGED <<status, edges, queue, facts, known>>

\* One live row the other way refuses it; two (of two types) are an ignored
\* error, as is a query that fails.
Reverse(d) == {e \in Live : e.pred = d.succ /\ e.succ = d.pred}
CheckReverse(h) ==
  /\ pc[h] = "reverse"
  /\ \/ Cardinality(Reverse(dep[h])) = 1 /\ Answer(h)
     \/ pc' = [pc EXCEPT ![h] = "list"] /\ UNCHANGED <<dep, to, edges, queue, facts>>
  /\ UNCHANGED <<status, known>>

\* The dependency would close a cycle, and only an event records the attempt.
ListAndRefuse(h) ==
  /\ pc[h] = "list"
  /\ DetectCycle(ListedEdges, dep[h])
  /\ Answer(h)
  /\ UNCHANGED <<status, known>>

\* A list that cannot be read is taken for an empty one.
ListAndGoOn(h) ==
  /\ pc[h] = "list"
  /\ \/ /\ ~DetectCycle(ListedEdges, dep[h])
        /\ facts' = [facts EXCEPT ![h] = Live]
     \/ UNCHANGED facts
  /\ pc' = [pc EXCEPT ![h] = "insert"]
  /\ UNCHANGED <<status, dep, to, edges, queue, known>>

\* The unique index lets one row in.
Insert(h, d, s) ==
  IF status[d] = None
  THEN /\ status' = [status EXCEPT ![d] = s]
       /\ known' = [known EXCEPT ![d] = facts[h]]
  ELSE UNCHANGED <<status, known>>
InsertDependency(h) ==
  /\ pc[h] = "insert"
  /\ Insert(h, dep[h], to[h])
  /\ Answer(h)

(***************************************************************************)
(* Materialising the inferred dependencies.                                *)
(***************************************************************************)

\* All rows are read once; those of any status are not proposed again.
Infer(h) ==
  /\ pc[h] = "idle"
  /\ pc' = [pc EXCEPT ![h] = "materialize"]
  /\ edges' = [edges EXCEPT ![h] = Live]
  /\ facts' = [facts EXCEPT ![h] = Live]
  /\ queue' = [queue EXCEPT ![h] = {i \in DOMAIN Inferred : status[Inferred[i]] = None}]
  /\ UNCHANGED <<status, dep, to, known>>

\* The list grows with each row this handler has inserted.
Pushed(h, d) == edges[h] \cup {d}

\* The dependencies are tried in the order of the rules.
IsNext(h, i) == pc[h] = "materialize" /\ i \in queue[h] /\ \A j \in queue[h] : i <= j

\* A dependency that closes a cycle, or whose insert fails, is skipped.
SkipInferred(h, i) ==
  /\ IsNext(h, i)
  /\ queue' = [queue EXCEPT ![h] = @ \ {i}]
  /\ UNCHANGED <<status, pc, dep, to, edges, facts, known>>

InsertInferred(h, i) ==
  /\ IsNext(h, i)
  /\ ~DetectCycle(edges[h], Inferred[i])
  /\ status[Inferred[i]] = None
  /\ Insert(h, Inferred[i], "proposed")
  /\ edges' = [edges EXCEPT ![h] = Pushed(h, Inferred[i])]
  /\ facts' = [facts EXCEPT ![h] = @ \cup {Inferred[i]}]
  /\ queue' = [queue EXCEPT ![h] = @ \ {i}]
  /\ UNCHANGED <<pc, dep, to>>

Materialized(h) ==
  /\ pc[h] = "materialize" /\ queue[h] = {}
  /\ Answer(h)
  /\ UNCHANGED <<status, known>>

(***************************************************************************)
(* The status route: the transition is checked on what was read, and the   *)
(* update names only the id.                                               *)
(***************************************************************************)

VALID_TRANSITIONS ==
  [proposed |-> {"active", "invalidated"}, active |-> {"resolved", "invalidated"},
   resolved |-> {"invalidated"}, invalidated |-> {}]

Allowed(d, s) == s \in VALID_TRANSITIONS[status[d]]

ReadStatus(h, d, s) ==
  /\ pc[h] = "idle"
  /\ status[d] # None
  /\ Allowed(d, s)
  /\ pc' = [pc EXCEPT ![h] = "update"]
  /\ dep' = [dep EXCEPT ![h] = d]
  /\ to' = [to EXCEPT ![h] = s]
  /\ UNCHANGED <<status, edges, queue, facts, known>>

UpdateStatus(h) ==
  /\ pc[h] = "update"
  /\ status' = [status EXCEPT ![dep[h]] = to[h]]
  /\ Answer(h)
  /\ UNCHANGED known

(***************************************************************************)
(* The graph that is computed from the rows for every page.                *)
(***************************************************************************)

TaskStatuses == {"not_started", "in_progress", "blocked", "completed", "cancelled"}
FaultyCompleteStatuses == {"completed"}
CompleteStatuses == {"completed", "cancelled"}
Predecessors(n) == {d.pred : d \in {x \in Live : x.succ = n}}
IsReady(st, n) ==
  st[n] = "not_started" /\ \A p \in Predecessors(n) : st[p] \in CompleteStatuses
IsBlocked(st, n) ==
  st[n] = "blocked" \/ \E p \in Predecessors(n) : st[p] \notin CompleteStatuses

Next ==
  \E h \in Handlers :
    \/ \E d \in Requested, s \in {"active", "proposed"} : CheckDuplicate(h, d, s)
    \/ \E d \in Touched, s \in Statuses \cup {"other"} : ReadStatus(h, d, s)
    \/ CheckReverse(h) \/ ListAndRefuse(h) \/ ListAndGoOn(h) \/ InsertDependency(h)
    \/ \E i \in DOMAIN Inferred : SkipInferred(h, i) \/ InsertInferred(h, i)
    \/ Infer(h) \/ Materialized(h)
    \/ UpdateStatus(h) \/ Crash(h)

Spec == Init /\ [][Next]_vars

(***************************************************************************)
(* Properties.                                                             *)
(***************************************************************************)

\* Every variable keeps its shape, and no row joins a task to itself.
TypeOK ==
  /\ status \in [Dependencies -> Statuses \cup {None}]
  /\ pc \in [Handlers -> {"idle", "reverse", "list", "insert", "materialize", "update"}]
  /\ dep \in [Handlers -> Dependencies \cup {None}]
  /\ to \in [Handlers -> Statuses \cup {None}]
  /\ edges \in [Handlers -> SUBSET Dependencies]
  /\ queue \in [Handlers -> SUBSET DOMAIN Inferred]
  /\ facts \in [Handlers -> SUBSET Dependencies]
  /\ known \in [Dependencies -> SUBSET Dependencies]
  /\ \A d \in Dependencies : status[d] # None => d.pred # d.succ

\* The edges close a cycle when some tasks all wait for one another.
Cyclic(E) ==
  \E S \in (SUBSET Tasks) \ {{}} : \A n \in S : \E e \in E : e.pred \in S /\ e.succ = n

\* A cycle of live dependencies is always the work of a race or of a list that
\* could not be read: none of its edges was inserted by a handler to which all
\* the others were known.
CyclesAreRaces ==
  \A C \in SUBSET Live :
    \A d \in C : C \ {d} \subseteq known[d] => (Cyclic(C) => Cyclic(C \ {d}))

\* Without a cycle the project cannot stall: whatever its tasks' statuses, when
\* none is under way and some have not started, one of them is ready, and every
\* other one is blocked.
NothingStalls ==
  ~Cyclic(Live) =>
    \A st \in [Tasks -> TaskStatuses \ {"in_progress", "blocked"}] :
      LET waiting == {n \in Tasks : st[n] = "not_started"}
      IN  /\ waiting # {} => \E n \in waiting : IsReady(st, n)
          /\ \A n \in waiting : IsReady(st, n) # IsBlocked(st, n)
=============================================================================
