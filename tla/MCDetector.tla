----------------------------- MODULE MCDetector -----------------------------
(* Detector for TLC: handlers are interchangeable model values. *)
EXTENDS Detector, TLC

HandlerSymmetry == Permutations(Handlers)
=============================================================================
