--------------------------- MODULE ViewportProofs ---------------------------
(* What TLAPS proves of Viewport, for any text, any drag and any history.  *)
EXTENDS Viewport, TLAPS

(* The inductive invariant. *)
Inv == TypeOK /\ CaretInText

(* Clamping ends within the bounds. *)
LEMMA ClampRange ==
  ASSUME NEW lo \in Int, NEW n \in Int, NEW hi \in Int, lo <= hi
  PROVE  /\ Clamp(lo, n, hi) \in lo..hi
         /\ n \in lo..hi => Clamp(lo, n, hi) = n
         /\ n > hi => Clamp(lo, n, hi) = hi
         /\ n < lo => Clamp(lo, n, hi) = lo
BY DEF Clamp, AtMost, AtLeast

(* zoomStep finds a step at or above the zoom, the step before it being    *)
(* below; beyond all steps it takes the last.                              *)
LEMMA StepAtIs ==
  ASSUME NEW z \in Nat
  PROVE  /\ StepAt(z) \in 1..7
         /\ z > 300 => StepAt(z) = 7
         /\ z <= 300 => /\ ZOOM_STEPS[StepAt(z)] >= z
                        /\ StepAt(z) > 1 => ZOOM_STEPS[StepAt(z) - 1] < z
<1> DEFINE P(i) == ZOOM_STEPS[i] >= z /\ \A j \in 1..i - 1 : ZOOM_STEPS[j] < z
<1>1. CASE z > 300
  BY <1>1 DEF StepAt, ZOOM_STEPS
<1>2. CASE z <= 300
  <2>1. \E i \in 1..7 : P(i)
    <3>1. CASE z <= 50   BY <3>1 DEF ZOOM_STEPS
    <3>2. CASE z \in 51..75   <4>1. P(2) BY <3>2 DEF ZOOM_STEPS <4> QED BY <4>1
    <3>3. CASE z \in 76..100  <4>1. P(3) BY <3>3 DEF ZOOM_STEPS <4> QED BY <4>1
    <3>4. CASE z \in 101..125 <4>1. P(4) BY <3>4 DEF ZOOM_STEPS <4> QED BY <4>1
    <3>5. CASE z \in 126..150 <4>1. P(5) BY <3>5 DEF ZOOM_STEPS <4> QED BY <4>1
    <3>6. CASE z \in 151..200 <4>1. P(6) BY <3>6 DEF ZOOM_STEPS <4> QED BY <4>1
    <3>7. CASE z \in 201..300 <4>1. P(7) BY <3>7 DEF ZOOM_STEPS <4> QED BY <4>1
    <3> QED BY <1>2, <3>1, <3>2, <3>3, <3>4, <3>5, <3>6, <3>7
  <2>2. StepAt(z) = CHOOSE i \in 1..7 : P(i)
    <3>1. ~(z > ZOOM_STEPS[7])
      BY <1>2 DEF ZOOM_STEPS
    <3> QED BY <3>1 DEF StepAt
  <2>3. StepAt(z) \in 1..7 /\ P(StepAt(z))
    BY <2>1, <2>2
  <2> QED BY <1>2, <2>3
<1> QED BY <1>1, <1>2

(* A step of the wheel is at least one percent, its way. *)
LEMMA WheelStep ==
  ASSUME NEW z \in 25..400
  PROVE  (11 * z + 5) \div 10 \in z + 1..500 /\ (20 * z + 11) \div 22 \in 1..z - 1
OBVIOUS

(* The zoom that the user sees is within the wheel's bounds. *)
LEMMA CurrentRange == TypeOK => Current \in 25..400
BY DEF TypeOK, Current, Fit

(* Where the buttons lead. *)
LEMMA ZoomStepLeads ==
  ASSUME TypeOK, NEW dir \in {1, -1}, ZoomStep(dir)
  PROVE  /\ zoom' \in 50..300
         /\ Current \in 50..300 => Moves(dir, Current, zoom') \/ zoom' \in {50, 300}
<1> DEFINE z == Current
           s == StepAt(z)
           i == Clamp(1, s + dir, 7)
<1>0. z \in 25..400 /\ zoom' = ZOOM_STEPS[i]
  BY CurrentRange DEF ZoomStep
<1> HIDE DEF z
<1>1. s \in 1..7 /\ (z > 300 => s = 7)
      /\ (z <= 300 => ZOOM_STEPS[s] >= z /\ (s > 1 => ZOOM_STEPS[s - 1] < z))
  BY <1>0, StepAtIs
<1>2. i \in 1..7 /\ (s + dir \in 1..7 => i = s + dir) /\ (s + dir > 7 => i = 7) /\ (s + dir < 1 => i = 1)
  BY <1>1 DEF Clamp, AtMost, AtLeast
<1> HIDE DEF s, i
<1>3. ZOOM_STEPS[i] \in 50..300
  BY <1>2 DEF ZOOM_STEPS
<1>4. ASSUME z \in 50..300, dir = 1 PROVE ZOOM_STEPS[i] > z \/ ZOOM_STEPS[i] = 300
  BY <1>1, <1>2, <1>4 DEF ZOOM_STEPS
<1>5. ASSUME z \in 50..300, dir = -1 PROVE ZOOM_STEPS[i] < z \/ ZOOM_STEPS[i] = 50
  BY <1>1, <1>2, <1>5 DEF ZOOM_STEPS
<1>6. z \in 50..300 => Moves(dir, z, ZOOM_STEPS[i]) \/ ZOOM_STEPS[i] \in {50, 300}
  <2>1. CASE dir = 1  BY <1>4, <2>1 DEF Moves
  <2>2. CASE dir = -1 BY <1>5, <2>2 DEF Moves
  <2> QED BY <2>1, <2>2
<1> QED BY <1>0, <1>3, <1>6 DEF z

(* Every step keeps the invariant. *)
LEMMA InvStep == Inv /\ [Next]_vars => Inv'
<1> SUFFICES ASSUME Inv, [Next]_vars PROVE Inv'
  OBVIOUS
<1> USE PositionsAssumption, TextAssumption
<1>1. Current \in 25..400
  BY CurrentRange DEF Inv
<1>2. ASSUME NEW dir \in {1, -1}, ZoomStep(dir) PROVE Inv'
  <2>1. zoom' \in 50..300
    BY <1>2, ZoomStepLeads DEF Inv
  <2> QED BY <1>2, <2>1 DEF Inv, TypeOK, CaretInText, ZoomStep, split, editor
<1>3. ASSUME NEW dir \in {1, -1}, Wheel(dir) PROVE Inv'
  <2>1. (11 * Current + 5) \div 10 \in Int /\ (20 * Current + 11) \div 22 \in Int
    BY <1>1, WheelStep
  <2>2. zoom' \in 25..400
    BY <1>3, <2>1 DEF Wheel, Clamp, AtMost, AtLeast
  <2> QED BY <1>3, <2>2 DEF Inv, TypeOK, CaretInText, Wheel, split, editor
<1>4. CASE ZoomFit
  BY <1>4 DEF Inv, TypeOK, CaretInText, ZoomFit, split, editor
<1>5. ASSUME NEW at \in Positions, Drag(at) PROVE Inv'
  <2>1. pct' \in 320..680
    BY <1>5 DEF Drag, Clamp, AtMost, AtLeast
  <2> QED BY <1>5, <2>1 DEF Inv, TypeOK, CaretInText, Drag, editor
<1>6. ASSUME NEW b \in BOOLEAN, Drop(b) PROVE Inv'
  <2>1. stored' \in Nat
    <3>1. pct \in 300..750 /\ stored \in Nat
      BY DEF Inv, TypeOK
    <3>2. (pct + 5) \div 10 \in Nat
      BY <3>1
    <3> QED BY <1>6, <3>1, <3>2 DEF Drop
  <2> QED BY <2>1, <1>6 DEF Inv, TypeOK, CaretInText, Drop, editor
<1>7. ASSUME NEW b \in BOOLEAN, Remount(b) PROVE Inv'
  <2>1. pct' \in 300..750
    BY <1>7 DEF Inv, TypeOK, Remount, ReadPct
  <2> QED BY <1>7, <2>1 DEF Inv, TypeOK, CaretInText, Remount, Start
<1>8. CASE SetTab
  BY <1>8 DEF Inv, TypeOK, CaretInText, SetTab, split, Start
<1>9. CASE JumpToDiag
  <2>1. loc[1] \in Int /\ loc[2] \in Int
    BY DEF Inv, TypeOK, NoLoc
  <2>2. Clamp(1, loc[1], lines) \in 1..lines /\ Clamp(1, loc[2], Width + 1) \in 1..Width + 1
    BY <2>1 DEF Inv, TypeOK, Clamp, AtMost, AtLeast
  <2>3. CaretInText'
    BY <1>9, <2>2 DEF Inv, TypeOK, CaretInText, JumpToDiag, Start
  <2> QED BY <1>9, <2>3 DEF Inv, TypeOK, JumpToDiag, split
<1>10. ASSUME NEW n \in 1..MaxLines, EditText(n) PROVE Inv'
  BY <1>10 DEF Inv, TypeOK, CaretInText, EditText, split, Start
<1>11. ASSUME NEW place \in Places \cup {NoLoc}, Diagnose(place) PROVE Inv'
  BY <1>11 DEF Inv, TypeOK, CaretInText, Diagnose, split
<1>12. CASE UNCHANGED vars
  BY <1>12 DEF Inv, TypeOK, CaretInText, vars, split, editor
<1> QED
  BY <1>2, <1>3, <1>4, <1>5, <1>6, <1>7, <1>8, <1>9, <1>10, <1>11, <1>12 DEF Next

(* The invariant holds, so do the types and the bounds of zoom and split,  *)
(* and the caret is in the text.                                           *)
THEOREM InvHolds == Spec => []Inv
<1>1. Init => Inv
  <2> SUFFICES ASSUME Init PROVE Inv
    OBVIOUS
  <2>1. pct \in 300..750
    BY PositionsAssumption DEF Init, ReadPct
  <2>2. stored \in Nat /\ lines \in 1..MaxLines /\ 1 \in 1..lines /\ 1 \in 1..Width + 1
    BY PositionsAssumption, TextAssumption DEF Init
  <2> QED BY <2>1, <2>2 DEF Init, Inv, TypeOK, CaretInText, Start
<1> QED BY <1>1, InvStep, PTL DEF Spec

(* Types, and the bounds of zoom and split. *)
THEOREM TypeCorrect == Spec => []TypeOK
BY InvHolds, PTL DEF Inv

(* No jump and no edit takes the caret out of the text. *)
THEOREM CaretStays == Spec => []CaretInText
BY InvHolds, PTL DEF Inv

(* Wheel and buttons move the zoom their way. *)
THEOREM ZoomGoesItsWay == Spec => ZoomMoves
<1>1. ASSUME TypeOK, NEW dir \in {1, -1}, Wheel(dir)
      PROVE  Moves(dir, Current, zoom') \/ zoom' \in {25, 400}
  <2> DEFINE up == (11 * Current + 5) \div 10
             down == (20 * Current + 11) \div 22
  <2>1. Current \in 25..400 /\ up \in Current + 1..500 /\ down \in 1..Current - 1
    BY <1>1, CurrentRange, WheelStep
  <2> HIDE DEF up, down
  <2>2. zoom' = Clamp(25, IF dir = 1 THEN up ELSE down, 400)
    BY <1>1 DEF Wheel, up, down
  <2>3. CASE dir = 1
    <3>1. zoom' \in 25..400 /\ (up <= 400 => zoom' = up) /\ (up > 400 => zoom' = 400)
      BY <2>1, <2>2, <2>3 DEF Clamp, AtMost, AtLeast
    <3> QED BY <2>1, <2>3, <3>1 DEF Moves
  <2>4. CASE dir = -1
    <3>1. zoom' \in 25..400 /\ (down >= 25 => zoom' = down) /\ (down < 25 => zoom' = 25)
      BY <2>1, <2>2, <2>4 DEF Clamp, AtMost, AtLeast
    <3> QED BY <2>1, <2>4, <3>1 DEF Moves
  <2> QED BY <2>3, <2>4
<1>2. ASSUME TypeOK, NEW dir \in {1, -1}, ZoomStep(dir), Current \in 50..300
      PROVE  Moves(dir, Current, zoom') \/ zoom' \in {50, 300}
  BY <1>2, ZoomStepLeads
<1>3. TypeOK =>
        [\A dir \in {1, -1} :
           /\ Wheel(dir) => Moves(dir, Current, zoom') \/ zoom' \in {25, 400}
           /\ ZoomStep(dir) /\ Current \in 50..300 => Moves(dir, Current, zoom') \/ zoom' \in {50, 300}]_vars
  BY <1>1, <1>2
<1> QED BY <1>3, TypeCorrect, PTL DEF ZoomMoves

(* The split that was dragged and stored comes back when the view is set   *)
(* up anew, but for rounding: ReadPct takes every percentage Drag can      *)
(* leave.                                                                  *)
THEOREM SplitReturns == Spec => SplitComesBack
<1>1. ASSUME NEW at \in Positions, NEW b \in BOOLEAN, Remount(b),
             pct = Clamp(320, at, 680), stored = (pct + 5) \div 10
      PROVE  pct' - pct \in -5..5
  <2>1. at \in Int
    BY PositionsAssumption
  <2>2. pct \in 320..680
    BY <1>1, <2>1 DEF Clamp, AtMost, AtLeast
  <2>3. stored \in 32..68 /\ 10 * stored \in pct - 5..pct + 5
    BY <1>1, <2>2
  <2>4. pct' = 10 * stored
    BY <1>1, <2>3 DEF Remount, ReadPct
  <2> QED BY <2>2, <2>3, <2>4
<1>2. [\A at \in Positions, b \in BOOLEAN :
         Remount(b) /\ pct = Clamp(320, at, 680) /\ stored = (pct + 5) \div 10
           => pct' - pct \in -5..5]_vars
  BY <1>1
<1> QED BY <1>2, PTL DEF SplitComesBack

=============================================================================
