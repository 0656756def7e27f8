----------------------------- MODULE MCCaptureShim -----------------------------
(* Values for the model-checking run of CaptureShim. *)
EXTENDS CaptureShim, TLC

CONSTANTS h1, h2, h3, p1, p2

\* The first and the last helper belong to one Discord, the second to another.
FirstAndLast == [h \in Helper |-> IF h = h2 THEN p2 ELSE p1]

\* Inodes differ in nothing but their names.
Inodes == Permutations(Inode)
================================================================================
