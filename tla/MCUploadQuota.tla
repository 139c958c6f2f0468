--------------------------- MODULE MCUploadQuota ---------------------------
(***************************************************************************)
(* Small instances of UploadQuota for TLC.                                 *)
(***************************************************************************)
EXTENDS UploadQuota, TLC

\* Requests are interchangeable, and so are viewers.
Symmetry == Permutations(Requests) \cup Permutations(Viewers)
=============================================================================
