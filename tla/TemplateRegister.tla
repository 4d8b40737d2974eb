--------------------------- MODULE TemplateRegister ---------------------------
(***************************************************************************)
(* What saving and deleting a template promises (internal/api/designer.go, *)
(* README.md "Save is validated"): a template is one pair of a source and  *)
(* its defaults, replaced as a whole, and only by a pair that compiles.    *)
(* There are no files here, no temporary names and no order of writes.     *)
(***************************************************************************)
CONSTANTS Keys, Absent

VARIABLES
  text,    \* <<source, defaults>>, either may be Absent
  old,     \* the defaults a fault would bring back, until those of text
           \* are settled
  faulty   \* the process may crash, writing the defaults may fail

vars == <<text, old>>

Sources == SUBSET Keys
Supplied(def) == IF def = Absent THEN {} ELSE def

Init == text = <<{}, Absent>> /\ old = Absent

Settled == old = text[2]

(* The save gate: the source compiles against the defaults it comes with. *)
Save(src, def) ==
  /\ Settled
  /\ src \subseteq Supplied(def)
  /\ text' = <<src, def>>
  /\ old' = old

Delete ==
  /\ Settled
  /\ text[1] # Absent
  /\ text' = <<Absent, Absent>>
  /\ old' = old

(* The defaults are where no fault can take them back. *)
Settle ==
  /\ old' = text[2]
  /\ text' = text

(* A fault leaves the new source, or no source, with the defaults that     *)
(* stood before the save or the delete, and the designer is not told.      *)
LoseDefaults ==
  /\ faulty
  /\ text' = <<text[1], old>>
  /\ old' = old

Next ==
  \/ \E src \in Sources, def \in {Absent} \cup Sources : Save(src, def)
  \/ Delete
  \/ Settle
  \/ LoseDefaults

Spec == Init /\ [][Next]_vars

=============================================================================
