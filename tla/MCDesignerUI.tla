---------------------------- MODULE MCDesignerUI ----------------------------
(* The designer for TLC: template names are interchangeable, and so are    *)
(* the requests in flight.                                                 *)
EXTENDS DesignerUI, TLC

NameSlotSymmetry == Permutations(Names) \cup Permutations(Slots)

=============================================================================
