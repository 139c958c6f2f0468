--------------------------- MODULE MCDemoSandbox ---------------------------
(* Instances of DemoSandbox for TLC. *)
EXTENDS DemoSandbox, TLC

\* The scenario in small: what is opened is partly closed again.
ShortPlan == <<Submit(1), Submit(2), CloseOf(1)>>
OneTrade == <<Submit(1)>>

Symmetry == Permutations(Loaders) \cup Permutations(Resetters) \cup Permutations(Traders)
=============================================================================
