------------------------------ MODULE Viewport ------------------------------
(***************************************************************************)
(* Where the user of the designer looks: the zoom of                       *)
(* components/PreviewPane.vue, the split of views/TemplatesView.vue that   *)
(* localStorage keeps, the tab of components/EditorPane.vue and the jump   *)
(* of components/CodeEditor.vue to the place a diagnostic names.           *)
(*                                                                         *)
(* The split is counted in tenths of a percent.  A text is its number of   *)
(* lines, all of Width columns; diagnostics are of a text as it was when   *)
(* it was rendered.                                                        *)
(***************************************************************************)
EXTENDS Integers

CONSTANTS
  Positions, \* BOUND: where the divider is dragged, in thousandths
  Kept,      \* BOUND: what localStorage may hold at first, 0 for no number
  MaxLines,  \* BOUND
  Width,
  Places     \* BOUND: lines and columns that diagnostics name

ASSUME PositionsAssumption == Positions \subseteq 0..1000 /\ Kept \subseteq Nat
ASSUME TextAssumption == MaxLines \in Nat \ {0} /\ Width \in Nat /\ Places \subseteq Nat \X Nat

VARIABLES
  zoom,   \* percent, or Fit
  pct,    \* editorPct
  stored, \* typstpdf.designer.split
  drag,   \* the divider is being dragged
  source, \* the source tab is shown
  lines,  \* of the source
  caret,  \* <<line, column>> in the source editor
  loc     \* diagLoc: <<line, column>>, or NoLoc

split == <<pct, stored, drag>>
editor == <<source, lines, caret, loc>>
vars == <<zoom, split, editor>>

Fit == 0
NoLoc == <<0, 0>>
Start == <<1, 1>>
AtMost(n, m) == IF n < m THEN n ELSE m
AtLeast(n, m) == IF n < m THEN m ELSE n
Clamp(lo, n, hi) == AtMost(hi, AtLeast(lo, n))

-----------------------------------------------------------------------------
(* Zoom.                                                                   *)

ZOOM_STEPS == <<50, 75, 100, 125, 150, 200, 300>>
Current == IF zoom = Fit THEN 100 ELSE zoom

(* The index of the first step from z on, of the last if there is none. *)
StepAt(z) ==
  IF z > ZOOM_STEPS[7] THEN 7
  ELSE CHOOSE i \in 1..7 : ZOOM_STEPS[i] >= z /\ \A j \in 1..i - 1 : ZOOM_STEPS[j] < z

(* Variant: the step at the zoom, not the one beside it. *)
ZoomStepHere(dir) ==
  /\ zoom' = ZOOM_STEPS[StepAt(Current)]
  /\ UNCHANGED <<split, editor>>

ZoomStep(dir) ==
  /\ zoom' = ZOOM_STEPS[Clamp(1, StepAt(Current) + dir, 7)]
  /\ UNCHANGED <<split, editor>>

ZoomFit == zoom' = Fit /\ UNCHANGED <<split, editor>>

(* onWheel with Ctrl: by 1.1 or 1/1.1, rounded. *)
Wheel(dir) ==
  /\ zoom' = Clamp(25, IF dir = 1 THEN (11 * Current + 5) \div 10 ELSE (20 * Current + 11) \div 22, 400)
  /\ UNCHANGED <<split, editor>>

-----------------------------------------------------------------------------
(* Split.                                                                  *)

ReadPct(n) == IF n \in 30..75 THEN 10 * n ELSE 600

Drag(at) ==
  /\ drag' = TRUE
  /\ pct' = Clamp(320, at, 680)
  /\ UNCHANGED <<zoom, stored, editor>>

(* The divider is let go; localStorage takes the rounded percentage, or    *)
(* refuses it.                                                             *)
Drop(taken) ==
  /\ drag
  /\ drag' = FALSE
  /\ stored' = IF taken THEN (pct + 5) \div 10 ELSE stored
  /\ UNCHANGED <<zoom, pct, editor>>

(* The view is set up anew, after the jobs page or a reload: the tab and   *)
(* the zoom are the store's, and a reload loses these.  BOUND: not in the  *)
(* middle of a drag.                                                       *)
Remount(reloaded) ==
  /\ ~drag
  /\ pct' = ReadPct(stored)
  /\ zoom' = IF reloaded THEN Fit ELSE zoom
  /\ source' = (source \/ reloaded)
  /\ caret' = Start
  /\ loc' = IF reloaded THEN NoLoc ELSE loc
  /\ UNCHANGED <<stored, drag, lines>>

-----------------------------------------------------------------------------
(* Tabs and jumps.                                                         *)

(* A tab is an editor of its own, made when it is shown. *)
SetTab ==
  /\ source' = ~source
  /\ caret' = Start
  /\ UNCHANGED <<zoom, split, lines, loc>>

(* The text gets n lines, typed or replaced from outside; the editor       *)
(* (external) keeps the caret in it.                                       *)
EditText(n) ==
  /\ lines' = n
  /\ caret' \in IF source THEN (1..n) \X (1..Width + 1) ELSE {Start}
  /\ UNCHANGED <<zoom, split, source, loc>>

Diagnose(place) ==
  /\ loc' = place
  /\ UNCHANGED <<zoom, split, source, lines, caret>>

(* Variant: the line is taken from the diagnostic as it is. *)
JumpToStale ==
  /\ loc # NoLoc
  /\ source' = TRUE
  /\ caret' = IF source THEN <<loc[1], Clamp(1, loc[2], Width + 1)>> ELSE Start
  /\ UNCHANGED <<zoom, split, lines, loc>>

(* jumpToDiag and the watcher of jump.seq, which an editor that is yet to  *)
(* be made for the tab does not have.                                      *)
JumpToDiag ==
  /\ loc # NoLoc
  /\ source' = TRUE
  /\ caret' = IF source THEN <<Clamp(1, loc[1], lines), Clamp(1, loc[2], Width + 1)>> ELSE Start
  /\ UNCHANGED <<zoom, split, lines, loc>>

-----------------------------------------------------------------------------
Init ==
  /\ zoom = Fit
  /\ stored \in Kept /\ pct = ReadPct(stored) /\ drag = FALSE
  /\ source = TRUE /\ lines \in 1..MaxLines /\ caret = Start /\ loc = NoLoc

Next ==
  \/ \E dir \in {1, -1} : ZoomStep(dir) \/ Wheel(dir)
  \/ ZoomFit
  \/ \E at \in Positions : Drag(at)
  \/ \E b \in BOOLEAN : Drop(b) \/ Remount(b)
  \/ SetTab \/ JumpToDiag
  \/ \E n \in 1..MaxLines : EditText(n)
  \/ \E place \in Places \cup {NoLoc} : Diagnose(place)

Spec == Init /\ [][Next]_vars

-----------------------------------------------------------------------------
(* Properties.                                                             *)

(* Type correctness: the zoom is Fit or within the wheel's bounds, however *)
(* wheel and buttons alternate, and neither pane is dragged away.          *)
TypeOK ==
  /\ zoom \in {Fit} \cup 25..400
  /\ pct \in 300..750 /\ stored \in Nat /\ drag \in BOOLEAN
  /\ source \in BOOLEAN /\ lines \in 1..MaxLines
  /\ loc \in Places \cup {NoLoc}

(* The caret is where the editor has text, also after a jump to a place    *)
(* that was edited away since the diagnostic was made: jumps, edits, tabs  *)
(* and remounts together never ask the editor for a line it lacks, at      *)
(* which it would throw (CodeEditor.vue, the watcher of jump.seq).         *)
CaretInText == caret[1] \in 1..lines /\ caret[2] \in 1..Width + 1

(* From one zoom to another in a direction. *)
Moves(dir, from, to) == IF dir = 1 THEN to > from ELSE to < from

(* Zooming moves its way: the wheel until its bounds, the buttons between  *)
(* the first step and the last (beyond these, where the wheel leads, "in"  *)
(* makes the sheet smaller and "out" makes it larger).                     *)
ZoomMoves ==
  [][\A dir \in {1, -1} :
       /\ Wheel(dir) => Moves(dir, Current, zoom') \/ zoom' \in {25, 400}
       /\ ZoomStep(dir) /\ Current \in 50..300 => Moves(dir, Current, zoom') \/ zoom' \in {50, 300}]_vars

(* The split is where it was when the view comes back, but for rounding,   *)
(* unless the browser stores nothing.                                      *)
SplitComesBack ==
  [][\A at \in Positions, b \in BOOLEAN :
       Remount(b) /\ pct = Clamp(320, at, 680) /\ stored = (pct + 5) \div 10
         => pct' - pct \in -5..5]_vars

=============================================================================
