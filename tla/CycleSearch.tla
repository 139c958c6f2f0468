----------------------------- MODULE CycleSearch -----------------------------
(***************************************************************************)
(* The depth-first search of detectDependencyCycle, which TaskDependencies *)
(* takes for what it is meant to find: whether a new edge closes a cycle.  *)
(* The search also reports the cycle it has found.  A task is on the path  *)
(* while its call of dfs has not returned, so that the path is the stack.  *)
(***************************************************************************)
EXTENDS TaskDependencies

\* A search is the edges its loops have tried, the tasks it has visited, the path
\* it is on and whether it has found the target.
NewSearch == [tried |-> {}, visited |-> {}, path |-> <<>>, found |-> FALSE]

FaultyEnter(search, target, n) ==
  IF n = target THEN [search EXCEPT !.found = TRUE]
  ELSE IF n \in search.visited THEN search
  ELSE [search EXCEPT !.visited = @ \cup {n}, !.path = Append(@, n)]
\* dfs is called for a task.
Enter(search, target, n) ==
  IF n = target THEN [search EXCEPT !.path = Append(@, n), !.found = TRUE]
  ELSE IF n \in search.visited THEN search
  ELSE [search EXCEPT !.visited = @ \cup {n}, !.path = Append(@, n)]

\* The edges that the loop of the last task on the path has still to try, by
\* their places in the list.
Untried(list, search) ==
  {i \in DOMAIN list \ search.tried : list[i].pred = search.path[Len(search.path)]}

\* A task from which the target was not found leaves the path.
Leave(search) == [search EXCEPT !.path = SubSeq(@, 1, Len(@) - 1)]

Ended(search) == search.found \/ search.path = <<>>

\* The next edge is followed, or the loop is at its end and dfs returns.
SearchStep(list, target, search) ==
  LET untried == Untried(list, search)
      next == CHOOSE i \in untried : \A j \in untried : i <= j
  IN  IF Ended(search) THEN search
      ELSE IF untried = {} THEN Leave(search)
      ELSE Enter([search EXCEPT !.tried = @ \cup {next}], target, list[next].succ)

\* What the search has come to after k steps.
Search(list, target, start) ==
  LET search[k \in Nat] ==
        IF k = 0 THEN Enter(NewSearch, target, start)
        ELSE SearchStep(list, target, search[k - 1])
  IN  search

\* Each edge is tried once at most, and each task it leads to left once.
Steps(list) == 2 * Len(list) + 1

\* The rows in their order, the new edge last.
DetectDependencyCycle(rows, d) ==
  LET list == Append(rows, d)
      search == Search(list, d.pred, d.succ)[Steps(list)]
  IN  [hasCycle |-> search.found,
       path |-> IF search.found THEN <<d.pred>> \o search.path ELSE <<>>]

\* A list of these edges, in some order.
Orders(E) ==
  {rows \in [1..Cardinality(E) -> E] : \A e \in E : \E i \in DOMAIN rows : rows[i] = e}

\* The checks a handler may be about to make: the edges it has and the new one.
Checks(h) ==
  CASE pc[h] = "list" -> {<<ListedEdges, dep[h]>>}
    [] pc[h] = "materialize" -> {<<edges[h], Inferred[i]>> : i \in queue[h]}
    [] OTHER -> {}

\* A path through these edges, from a task back to it by way of d, that passes
\* no other task twice.
CycleThrough(path, E, d) ==
  /\ Len(path) > 2 /\ path[1] = d.pred /\ path[2] = d.succ /\ path[Len(path)] = d.pred
  /\ \A i \in 1..(Len(path) - 1) :
       \E e \in E \cup {d} : e.pred = path[i] /\ e.succ = path[i + 1]
  /\ \A i, j \in 1..(Len(path) - 1) : path[i] = path[j] => i = j

\* In whatever order the rows come, the search finds a cycle exactly when there
\* is one to find, and what it reports is a cycle through the new edge.
SearchFindsCycles ==
  \A h \in Handlers : \A c \in Checks(h) : \A rows \in Orders(c[1]) :
    LET result == DetectDependencyCycle(rows, c[2])
    IN  /\ result.hasCycle = DetectCycle(c[1], c[2])
        /\ result.hasCycle => CycleThrough(result.path, c[1], c[2])
=============================================================================
