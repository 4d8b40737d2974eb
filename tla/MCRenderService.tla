--------------------------- MODULE MCRenderService ---------------------------
(* Instances of RenderService small enough for TLC.                         *)
EXTENDS RenderService, TLC

(* Workers are interchangeable: every action treats them alike. *)
WorkerSymmetry == Permutations(Workers)

=============================================================================
