--------------------------- MODULE MCMarkToMarket ---------------------------
(***************************************************************************)
(* Small instances of MarkToMarket for TLC.                                *)
(***************************************************************************)
EXTENDS MarkToMarket

CONSTANTS p1, p2, btc, server, h1, h2

BothOnOne == [p \in {p1, p2} |-> btc]
SameServer == [h \in {h1, h2} |-> server]
\* A bulk mark or a reviewed close beside a call of any kind.
OneIsBulk == [h \in {h1, h2} |-> IF h = h1 THEN {"mark_all", "review"} ELSE Kinds]
=============================================================================
