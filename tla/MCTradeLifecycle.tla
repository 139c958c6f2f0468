-------------------------- MODULE MCTradeLifecycle --------------------------
(***************************************************************************)
(* Small instances of TradeLifecycle for TLC.                              *)
(***************************************************************************)
EXTENDS TradeLifecycle, TLC

\* Rows and sessions are interchangeable.
Symmetry == Permutations(Sessions) \cup Permutations(Intents)
              \cup Permutations(Positions) \cup Permutations(Signals)
=============================================================================
