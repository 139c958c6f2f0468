------------------------- MODULE MCTaskDependencies -------------------------
(***************************************************************************)
(* Small instances of TaskDependencies for TLC.                            *)
(***************************************************************************)
EXTENDS CycleSearch, TLC

CONSTANTS a, b, c, FS, AR

D(p, s, t) == [pred |-> p, succ |-> s, type |-> t]
\* An edge and an approval the other way round, each asked for by a user.
Asked == {D(a, b, FS), D(b, a, AR)}
\* With the first of them these two, which the texts suggest, close a cycle.
Suggested == <<D(b, c, FS), D(c, a, FS)>>
Changed == {D(a, b, FS), D(b, c, FS)}

Symmetry == Permutations(Handlers)
=============================================================================
