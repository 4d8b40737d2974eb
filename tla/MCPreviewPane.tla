--------------------------- MODULE MCPreviewPane ---------------------------
(* PreviewPane on small instances. *)
EXTENDS PreviewPane, TLC

(* Templates, object URLs and requests are interchangeable. *)
PaneSymmetry == Permutations(Names) \cup Permutations(URLs) \cup Permutations(Slots)

=============================================================================
