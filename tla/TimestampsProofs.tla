-------------------------- MODULE TimestampsProofs --------------------------
(***************************************************************************)
(* What comparing texts keeps of the order of times, proved for every      *)
(* radix and precision of the fraction, every clock and every flag.  All   *)
(* of it comes from the head of the text: it has at least one element, the *)
(* first is the second, and the order of texts looks at it first.          *)
(***************************************************************************)
EXTENDS Timestamps, FiniteSetTheorems, WellFoundedInduction, TLAPS

(* A second is at least one tick.                                         *)
LEMMA SecondType == Second \in Nat \ {0}
  BY PowerAssumption, FractionAssumption DEF Second

(* The second of a time is a number.                                       *)
LEMMA SecType == ASSUME NEW t \in Int PROVE Sec(t) \in Int
  BY SecondType DEF Sec

(* The least-number principle, for sets. *)
LEMMA LeastNumber ==
  ASSUME NEW T \in SUBSET Nat, T # {}
  PROVE  \E m \in T : \A k \in T : m <= k
<1> DEFINE LT == OpToRel(<, Nat)
<1>1. \E x \in T : \A y \in T : ~(<<y, x>> \in LT)
  BY NatLessThanWellFounded, WFMin
<1>2. \A x, y \in T : y < x => <<y, x>> \in LT
  BY DEF OpToRel
<1> HIDE DEF LT
<1>3. PICK m \in T : \A y \in T : ~(<<y, m>> \in LT)
  BY <1>1
<1>4. ASSUME NEW k \in T PROVE m <= k
  <2>1. ~(k < m)
    BY <1>2, <1>3
  <2>2. QED
    BY <2>1
<1>5. QED
  BY <1>4

(* The number of digits shown is one: a bounded set of naturals that is    *)
(* not empty has a largest element, the least of its upper bounds.         *)
LEMMA MaxExists ==
  ASSUME NEW S \in SUBSET Nat, S # {}, NEW b \in Nat, \A x \in S : x <= b
  PROVE  Max(S) \in S
<1> DEFINE U == {m \in Nat : \A x \in S : x <= m}
<1>1. PICK m \in U : \A k \in U : m <= k
  <2>1. U \in SUBSET Nat /\ b \in U
    OBVIOUS
  <2>2. QED
    BY <2>1, LeastNumber
<1>2. m \in S
  <2>1. SUFFICES ASSUME m \notin S PROVE FALSE
    OBVIOUS
  <2>2. \A x \in S : x <= m - 1
    BY <2>1
  <2>3. m - 1 \in Nat
    <3>1. PICK e \in S : TRUE
      OBVIOUS
    <3>2. e \in Nat /\ e <= m - 1 /\ m \in Nat
      BY <2>2, <3>1
    <3>3. QED
      BY <3>2
  <2>4. m - 1 \in U
    BY <2>2, <2>3
  <2>5. QED
    BY <1>1, <2>4
<1>3. QED
  BY <1>1, <1>2 DEF Max

(* So the text of every time is defined.                                   *)
LEMMA ShownType == ASSUME NEW t \in Int PROVE Shown(t) \in Nat
<1> DEFINE S == {0} \cup {i \in 1..Digits : Digit(t, i) # 0}
<1>1. S \in SUBSET Nat /\ S # {} /\ \A x \in S : x <= Digits
  BY FractionAssumption
<1>2. Max(S) \in S
  BY <1>1, MaxExists, FractionAssumption
<1>3. QED
  BY <1>1, <1>2 DEF Shown

(* The text begins with the second. *)
LEMMA TextHead ==
  ASSUME NEW t \in Int
  PROVE  Len(ts(t)) \in Nat \ {0} /\ ts(t)[1] = Sec(t)
<1> DEFINE n == Shown(t)
           D == {Digit(t, i) : i \in 1..n} \cup {Dot, Zed, Sec(t)}
           ds == [i \in 1..n |-> Digit(t, i)]
           rest == IF n = 0 THEN <<>> ELSE <<Dot>> \o ds
<1>1. ds \in Seq(D)
  <2>1. n \in Nat /\ \A i \in 1..n : Digit(t, i) \in D
    BY ShownType
  <2> HIDE DEF n, D
  <2> QED BY <2>1
<1>2. rest \in Seq(D)
  <2>1. <<Dot>> \in Seq(D)
    OBVIOUS
  <2> HIDE DEF D, ds, n
  <2>2. <<Dot>> \o ds \in Seq(D)
    BY <1>1, <2>1
  <2>3. QED
    BY <2>2
<1>3. ts(t) = <<Sec(t)>> \o rest \o <<Zed>>
  BY DEF ts
<1>4. <<Sec(t)>> \in Seq(D) /\ <<Zed>> \in Seq(D)
  OBVIOUS
<1> HIDE DEF D, rest
<1>5. QED
  BY <1>2, <1>3, <1>4

(* A text of an earlier second sorts first. *)
LEMMA EarlierSecondIsLess ==
  ASSUME NEW s \in Int, NEW t \in Int, Sec(s) < Sec(t)
  PROVE  Less(ts(s), ts(t))
<1>1. 1 \in 1..Len(ts(t)) /\ 1 - 1 <= Len(ts(s))
  BY TextHead
<1>2. \A k \in 1..(1 - 1) : ts(s)[k] = ts(t)[k]
  OBVIOUS
<1>3. ts(s)[1] < ts(t)[1]
  BY TextHead
<1>4. QED
  BY <1>1, <1>2, <1>3 DEF Less

(* A text that sorts first is of no later second. *)
LEMMA LessIsNoLaterSecond ==
  ASSUME NEW s \in Int, NEW t \in Int, Less(ts(s), ts(t))
  PROVE  Sec(s) <= Sec(t)
<1>1. PICK i \in 1..Len(ts(t)) :
        /\ i - 1 <= Len(ts(s))
        /\ \A k \in 1..(i - 1) : ts(s)[k] = ts(t)[k]
        /\ i <= Len(ts(s)) => ts(s)[i] < ts(t)[i]
  BY DEF Less
<1>2. /\ ts(s)[1] = Sec(s) /\ Sec(s) \in Int /\ Len(ts(s)) \in Nat \ {0}
      /\ ts(t)[1] = Sec(t) /\ Sec(t) \in Int /\ Len(ts(t)) \in Nat \ {0}
  BY TextHead, SecType
<1>3. CASE i = 1
  BY <1>1, <1>2, <1>3
<1>4. CASE i # 1
  <2>1. 1 \in 1..(i - 1)
    BY <1>2, <1>4
  <2>2. ts(s)[1] = ts(t)[1]
    BY <1>1, <2>1
  <2>3. QED
    BY <1>2, <2>2
<1>5. QED
  BY <1>3, <1>4

-----------------------------------------------------------------------------
(* The texts are in a strict total order, whatever it has to do with time: *)
(* ORDER BY created_at means something, and a job can be named by its      *)
(* rank.                                                                   *)

(* A digit of a time is a digit. *)
LEMMA DigitType == ASSUME NEW t \in Int, NEW i \in 1..Digits PROVE Digit(t, i) \in Int
<1> DEFINE b == Base^(Digits - i)
<1>1. Digits - i \in 0..Digits
  BY FractionAssumption
<1>2. b \in Nat \ {0}
  BY <1>1, PowerAssumption
<1>3. Digit(t, i) = (t \div b) % Base
  BY DEF Digit
<1> HIDE DEF b
<1> QED BY <1>2, <1>3, FractionAssumption

(* No more digits are shown than there are. *)
LEMMA ShownBound == ASSUME NEW t \in Int PROVE Shown(t) \in 0..Digits
<1> DEFINE S == {0} \cup {i \in 1..Digits : Digit(t, i) # 0}
<1>1. S \in SUBSET Nat /\ S # {} /\ \A x \in S : x <= Digits
  BY FractionAssumption
<1>2. Max(S) \in S
  BY <1>1, MaxExists, FractionAssumption
<1> QED BY <1>1, <1>2, FractionAssumption DEF Shown

(* A text is a sequence of characters, which are numbers here. *)
LEMMA TextType == ASSUME NEW t \in Int PROVE ts(t) \in Seq(Int)
<1> DEFINE n == Shown(t)
           ds == [i \in 1..n |-> Digit(t, i)]
           rest == IF n = 0 THEN <<>> ELSE <<Dot>> \o ds
<1>1. ds \in Seq(Int)
  <2>1. n \in Nat /\ \A i \in 1..n : Digit(t, i) \in Int
    BY ShownBound, DigitType, FractionAssumption
  <2> HIDE DEF n
  <2> QED BY <2>1
<1>2. <<Dot>> \in Seq(Int) /\ <<Zed>> \in Seq(Int) /\ <<Sec(t)>> \in Seq(Int)
  BY SecType, FractionAssumption DEF Dot, Zed
<1>3. rest \in Seq(Int)
  <2> HIDE DEF ds, n
  <2>1. <<Dot>> \o ds \in Seq(Int)
    BY <1>1, <1>2
  <2> QED BY <2>1
<1>4. ts(t) = <<Sec(t)>> \o rest \o <<Zed>>
  BY DEF ts
<1> HIDE DEF rest
<1> QED BY <1>2, <1>3, <1>4

(* No text is less than itself. *)
LEMMA LessIrreflexive == ASSUME NEW a \in Seq(Int) PROVE ~Less(a, a)
BY DEF Less

(* The order of texts is transitive: what decides is where the first of    *)
(* the two comparisons is decided.                                         *)
LEMMA LessTransitive ==
  ASSUME NEW a \in Seq(Int), NEW b \in Seq(Int), NEW c \in Seq(Int), Less(a, b), Less(b, c)
  PROVE  Less(a, c)
<1>1. PICK i \in 1..Len(b) : /\ i - 1 <= Len(a)
                             /\ \A k \in 1..(i - 1) : a[k] = b[k]
                             /\ i <= Len(a) => a[i] < b[i]
  BY DEF Less
<1>2. PICK j \in 1..Len(c) : /\ j - 1 <= Len(b)
                             /\ \A k \in 1..(j - 1) : b[k] = c[k]
                             /\ j <= Len(b) => b[j] < c[j]
  BY DEF Less
<1>0. /\ Len(a) \in Nat /\ Len(b) \in Nat /\ Len(c) \in Nat
      /\ \A k \in 1..Len(a) : a[k] \in Int
      /\ \A k \in 1..Len(b) : b[k] \in Int
      /\ \A k \in 1..Len(c) : c[k] \in Int
  OBVIOUS
<1>3. CASE i < j
  <2>1. i \in 1..Len(c) /\ i \in 1..(j - 1)
    BY <1>0, <1>3
  <2>2. \A k \in 1..(i - 1) : a[k] = c[k]
    BY <1>1, <1>2, <1>3
  <2>3. i <= Len(a) => a[i] < c[i]
    BY <1>1, <1>2, <2>1
  <2> QED BY <1>1, <2>1, <2>2, <2>3 DEF Less
<1>4. CASE i = j
  <2>1. \A k \in 1..(j - 1) : a[k] = c[k]
    BY <1>1, <1>2, <1>4
  <2>2. j <= Len(a) => a[j] < c[j]
    BY <1>0, <1>1, <1>2, <1>4
  <2> QED BY <1>1, <1>2, <1>4, <2>1, <2>2 DEF Less
<1>5. CASE j < i
  <2>0. /\ i \in Nat /\ i <= Len(b) /\ i - 1 <= Len(a) /\ j \in Nat /\ 1 <= j
        /\ Len(a) \in Nat /\ Len(b) \in Nat
    BY <1>0, <1>1
  <2>1. j \in 1..(i - 1) /\ j <= Len(b) /\ j - 1 <= Len(a)
    BY <2>0, <1>5
  <2>2. \A k \in 1..(j - 1) : a[k] = c[k]
    BY <1>1, <1>2, <1>5
  <2>3. a[j] < c[j]
    BY <1>1, <1>2, <2>1
  <2> QED BY <1>2, <2>1, <2>2, <2>3 DEF Less
<1> QED BY <1>3, <1>4, <1>5

(* Of two texts one is less, or they are the same: they differ at a first  *)
(* place, and that decides.                                                *)
LEMMA LessTotal ==
  ASSUME NEW a \in Seq(Int), NEW b \in Seq(Int), a # b
  PROVE  Less(a, b) \/ Less(b, a)
<1> DEFINE D == {i \in Nat \ {0} :
                   /\ i <= Len(a) \/ i <= Len(b)
                   /\ i <= Len(a) /\ i <= Len(b) => a[i] # b[i]}
<1>0. /\ Len(a) \in Nat /\ Len(b) \in Nat
      /\ \A k \in 1..Len(a) : a[k] \in Int
      /\ \A k \in 1..Len(b) : b[k] \in Int
  OBVIOUS
<1>1. D # {}
  <2>1. SUFFICES ASSUME D = {} PROVE a = b
    OBVIOUS
  <2>2. Len(a) = Len(b)
    <3>1. Len(a) \notin D /\ Len(b) \notin D /\ Len(a) \in Nat /\ Len(b) \in Nat
      BY <1>0, <2>1
    <3>2. Len(a) # 0 => Len(a) <= Len(b)
      BY <3>1
    <3>3. Len(b) # 0 => Len(b) <= Len(a)
      BY <3>1
    <3> QED BY <3>1, <3>2, <3>3
  <2>3. \A i \in 1..Len(a) : a[i] = b[i]
    BY <1>0, <2>1, <2>2
  <2> QED BY <2>2, <2>3
<1>2. PICK m \in D : \A k \in D : m <= k
  <2>1. D \in SUBSET Nat
    OBVIOUS
  <2> HIDE DEF D
  <2> QED BY <1>1, <2>1, LeastNumber
<1>3. \A k \in 1..(m - 1) : k <= Len(a) /\ k <= Len(b) /\ a[k] = b[k]
  BY <1>0, <1>2
<1>4. m - 1 <= Len(a) /\ m - 1 <= Len(b)
  BY <1>0, <1>2, <1>3
<1>5. CASE m > Len(a)
  <2>1. m \in 1..Len(b)
    BY <1>0, <1>2, <1>5
  <2> QED BY <1>0, <1>3, <1>4, <1>5, <2>1 DEF Less
<1>6. CASE m > Len(b)
  <2>1. m \in 1..Len(a)
    BY <1>0, <1>2, <1>6
  <2> QED BY <1>0, <1>3, <1>4, <1>6, <2>1 DEF Less
<1>7. CASE m <= Len(a) /\ m <= Len(b)
  <2>1. m \in 1..Len(a) /\ m \in 1..Len(b) /\ a[m] # b[m]
    BY <1>0, <1>2, <1>7
  <2>2. a[m] < b[m] \/ b[m] < a[m]
    BY <1>0, <2>1
  <2> QED BY <1>3, <1>4, <2>1, <2>2 DEF Less
<1> QED BY <1>0, <1>5, <1>6, <1>7

(* The order of the texts of times (ts, and SQLite's comparison of them)   *)
(* is a strict total order of those texts.                                 *)
THEOREM TextOrder ==
  \A s, t, u \in Int :
    /\ ~Less(ts(t), ts(t))
    /\ Less(ts(s), ts(t)) /\ Less(ts(t), ts(u)) => Less(ts(s), ts(u))
    /\ Less(ts(s), ts(t)) \/ Less(ts(t), ts(s)) \/ ts(s) = ts(t)
BY TextType, LessIrreflexive, LessTransitive, LessTotal

-----------------------------------------------------------------------------
(* The rows hold times, and a row that is being worked on has a creation   *)
(* time.                                                                   *)
TimesOf(j) ==
  /\ job[j].at \in {Null} \cup Nat
  /\ job[j].attempts \in 0..MaxAttempts
  /\ job[j].status \in {"queued", "running"} => job[j].created \in Nat
RowType == [status : {"none", "queued", "running", "finished", "purged"},
            created : Int, attempts : Nat, at : Int]
RowsTyped == job \in [Jobs -> RowType]
TimesInv == now \in Nat /\ RowsTyped /\ \A j \in Jobs : TimesOf(j)

(* A row whose columns change keeps its type, and so does the table.       *)
LEMMA RowUpdates ==
  ASSUME RowsTyped, NEW j \in Jobs, NEW x \in Nat
  PROVE  /\ [job EXCEPT ![j].status = "queued", ![j].created = x] \in [Jobs -> RowType]
         /\ [job EXCEPT ![j].status = "queued", ![j].at = x] \in [Jobs -> RowType]
         /\ [job EXCEPT ![j].status = "finished", ![j].at = x,
                         ![j].created = Null] \in [Jobs -> RowType]
<1>1. job[j] \in RowType
  BY DEF RowsTyped
<1>2. /\ [job[j] EXCEPT !.status = "queued", !.created = x] \in RowType
      /\ [job[j] EXCEPT !.status = "queued", !.at = x] \in RowType
      /\ [job[j] EXCEPT !.status = "finished", !.at = x, !.created = Null] \in RowType
  <2>1. x \in Int /\ Null \in Int
    BY DEF Null
  <2>2. ASSUME NEW r \in RowType, NEW y \in Int
        PROVE  [r EXCEPT !.status = "queued", !.created = y] \in RowType
    BY DEF RowType
  <2>3. ASSUME NEW r \in RowType, NEW y \in Int
        PROVE  [r EXCEPT !.status = "queued", !.at = y] \in RowType
    BY DEF RowType
  <2>4. ASSUME NEW r \in RowType, NEW y \in Int, NEW c \in Int
        PROVE  [r EXCEPT !.status = "finished", !.at = y, !.created = c] \in RowType
    BY DEF RowType
  <2>5. QED
    BY <1>1, <2>1, <2>2, <2>3, <2>4
<1>3. ASSUME NEW r \in RowType PROVE [job EXCEPT ![j] = r] \in [Jobs -> RowType]
  BY DEF RowsTyped
<1>4. [job EXCEPT ![j].status = "queued", ![j].created = x]
        = [job EXCEPT ![j] = [job[j] EXCEPT !.status = "queued", !.created = x]]
  BY <1>1 DEF RowsTyped, RowType
<1>5. [job EXCEPT ![j].status = "queued", ![j].at = x]
        = [job EXCEPT ![j] = [job[j] EXCEPT !.status = "queued", !.at = x]]
  BY <1>1 DEF RowsTyped, RowType
<1>6. [job EXCEPT ![j].status = "finished", ![j].at = x, ![j].created = Null]
        = [job EXCEPT ![j] = [job[j] EXCEPT !.status = "finished", !.at = x, !.created = Null]]
  BY <1>1 DEF RowsTyped, RowType
<1>7. QED
  BY <1>2, <1>3, <1>4, <1>5, <1>6

(* The times are times at the start ...                                    *)
LEMMA InitTimes == Init => TimesInv
  BY FlagsAssumption DEF Init, TimesInv, RowsTyped, RowType, TimesOf, NoRow, Null

(* ... and after every step; only Fail computes one.                       *)
LEMMA NextTimes == TimesInv /\ [Next]_vars => TimesInv'
<1> SUFFICES ASSUME TimesInv, [Next]_vars PROVE TimesInv'
  OBVIOUS
<1> USE FlagsAssumption DEF TimesInv
<1>1. CASE Advance
  BY <1>1 DEF Advance, Clock, RowsTyped, RowType, TimesOf
<1>2. ASSUME NEW j \in Jobs, Enqueue(j) PROVE TimesInv'
  <2>1. RowsTyped' /\ now' \in Nat
    BY <1>2, RowUpdates DEF Enqueue, RowsTyped
  <2>2. ASSUME NEW k \in Jobs PROVE TimesOf(k)'
    BY <1>2 DEF Enqueue, RowsTyped, RowType, TimesOf
  <2>3. QED
    BY <2>1, <2>2
<1>3. ASSUME NEW j \in Jobs, Claim(j) PROVE TimesInv'
  <2>1. RowsTyped' /\ now' \in Nat
    BY <1>3 DEF Claim, RowsTyped, RowType, Null
  <2>2. ASSUME NEW k \in Jobs PROVE TimesOf(k)'
    BY <1>3 DEF Claim, Runnable, RowsTyped, RowType, TimesOf
  <2>3. QED
    BY <2>1, <2>2
<1>4. ASSUME NEW j \in Jobs, Fail(j) PROVE TimesInv'
  <2> DEFINE backoff == 2^job[j].attempts
             later == now + backoff * Second
  <2>1. later \in Nat
    <3>1. backoff \in Nat
      BY PowerAssumption DEF TimesOf
    <3> HIDE DEF backoff
    <3>2. QED
      BY <3>1, SecondType
  <2>2. job' = [job EXCEPT ![j].status = "queued", ![j].at = later] /\ now' = now
    BY <1>4 DEF Fail
  <2>3. job[j].status = "running"
    BY <1>4 DEF Fail
  <2> HIDE DEF later
  <2>4. RowsTyped' /\ now' \in Nat
    BY <2>1, <2>2, RowUpdates DEF RowsTyped
  <2>5. ASSUME NEW k \in Jobs PROVE TimesOf(k)'
    BY <2>1, <2>2, <2>3 DEF RowsTyped, RowType, TimesOf
  <2>6. QED
    BY <2>4, <2>5
<1>5. ASSUME NEW j \in Jobs, Finish(j) PROVE TimesInv'
  <2>1. RowsTyped' /\ now' \in Nat
    BY <1>5, RowUpdates DEF Finish, RowsTyped
  <2>2. ASSUME NEW k \in Jobs PROVE TimesOf(k)'
    BY <1>5 DEF Finish, RowsTyped, RowType, TimesOf
  <2>3. QED
    BY <2>1, <2>2
<1>6. CASE PurgeBefore
  BY <1>6 DEF PurgeBefore, RowsTyped, RowType, TimesOf, NoRow, Null
<1>7. CASE UNCHANGED vars
  BY <1>7 DEF vars, RowsTyped, RowType, TimesOf
<1>8. QED
  BY <1>1, <1>2, <1>3, <1>4, <1>5, <1>6, <1>7 DEF Next

(* The times behind the texts stay times. *)
THEOREM TimesAreTimes == Spec => []TimesInv
<1>1. QED
  BY InitTimes, NextTimes, PTL DEF Spec

(* Only Claim turns a queued row into a running one. *)
LEMMA OnlyClaimClaims ==
  ASSUME TimesInv, [Next]_vars, NEW j \in Jobs, Claimed(j)
  PROVE  Claim(j)
<1>1. CASE Advance
  BY <1>1 DEF Advance, Claimed
<1>2. ASSUME NEW k \in Jobs, Enqueue(k) \/ Fail(k) \/ Finish(k) PROVE FALSE
  BY <1>2 DEF Enqueue, Fail, Finish, Claimed, TimesInv, TimesOf, RowsTyped, RowType
<1>3. ASSUME NEW k \in Jobs, Claim(k) PROVE k = j
  BY <1>3 DEF Claim, Claimed, TimesInv, TimesOf, RowsTyped, RowType
<1>4. CASE PurgeBefore
  BY <1>4 DEF PurgeBefore, Claimed, NoRow
<1>5. CASE UNCHANGED vars
  BY <1>5 DEF vars, Claimed
<1>6. QED
  BY <1>1, <1>2, <1>3, <1>4, <1>5 DEF Next

(* Claim never takes a job past a runnable one created in an earlier       *)
(* second: that one's text would sort first.                               *)
THEOREM FairQueue == Spec => FairToTheSecond
<1>1. ASSUME TimesInv, [Next]_vars, NEW j \in Jobs, NEW k \in Jobs, Claimed(j), Runnable(k)
      PROVE  Sec(job[j].created) <= Sec(job[k].created)
  <2>1. ~Less(ts(job[k].created), ts(job[j].created))
    BY <1>1, OnlyClaimClaims DEF Claim, Before
  <2>2. job[j].created \in Int /\ job[k].created \in Int
    BY <1>1 DEF TimesInv, TimesOf, RowsTyped, RowType
  <2>3. QED
    BY <2>1, <2>2, EarlierSecondIsLess, SecType
<1>2. TimesInv /\ [Next]_vars =>
        [\A j, k \in Jobs : Claimed(j) /\ Runnable(k)
           => Sec(job[j].created) <= Sec(job[k].created)]_vars
  BY <1>1
<1>3. QED
  BY <1>2, TimesAreTimes, PTL DEF Spec, FairToTheSecond

(* Whenever a job is runnable one is the first of the runnable ones, which *)
(* is the one Claim's ORDER BY created_at LIMIT 1 returns: the texts go in *)
(* no circle.                                                              *)
THEOREM ClaimFindsAFirst ==
  ASSUME IsFiniteSet(Jobs)
  PROVE  Spec => []((\E j \in Jobs : Runnable(j)) =>
                      \E j \in Jobs : Runnable(j) /\ \A k \in Jobs : Runnable(k) => ~Before(k, j))
<1>1. ASSUME TimesInv, NEW i \in Jobs, Runnable(i)
      PROVE  \E j \in Jobs : Runnable(j) /\ \A k \in Jobs : Runnable(k) => ~Before(k, j)
  <2> DEFINE R == {j \in Jobs : Runnable(j)}
             Ahead(j) == {k \in R : Before(k, j)}
             N == {Cardinality(Ahead(j)) : j \in R}
  <2>1. \A j \in R : job[j].created \in Int
    BY <1>1 DEF Runnable, TimesInv, TimesOf, RowsTyped, RowType
  <2>2. \A j \in R : IsFiniteSet(Ahead(j)) /\ Cardinality(Ahead(j)) \in Nat
    <3> SUFFICES ASSUME NEW j \in R PROVE IsFiniteSet(Ahead(j)) /\ Cardinality(Ahead(j)) \in Nat
      OBVIOUS
    <3>1. Ahead(j) \in SUBSET Jobs
      OBVIOUS
    <3> HIDE DEF Ahead
    <3> QED BY <3>1, FS_Subset, FS_CardinalityType
  <2>3. PICK j \in R : \A k \in R : Cardinality(Ahead(j)) <= Cardinality(Ahead(k))
    <3>1. N \in SUBSET Nat /\ N # {}
      BY <1>1, <2>2
    <3>2. PICK m \in N : \A n \in N : m <= n
      <4> HIDE DEF N
      <4> QED BY <3>1, LeastNumber
    <3>3. PICK j \in R : m = Cardinality(Ahead(j))
      OBVIOUS
    <3> HIDE DEF Ahead, R
    <3>4. \A k \in R : Cardinality(Ahead(j)) <= Cardinality(Ahead(k))
      BY <3>2, <3>3
    <3> QED BY <3>4
  <2>4. ASSUME NEW k \in R, Before(k, j) PROVE FALSE
    <3>1. Ahead(k) \in SUBSET Ahead(j)
      BY <2>1, <2>4, TextOrder DEF Before
    <3>2. k \in Ahead(j) /\ k \notin Ahead(k)
      BY <2>1, <2>4, TextOrder DEF Before
    <3>3. Cardinality(Ahead(k)) # Cardinality(Ahead(j)) /\ Cardinality(Ahead(k)) <= Cardinality(Ahead(j))
      <4> HIDE DEF Ahead
      <4> QED BY <2>2, <3>1, <3>2, FS_Subset
    <3> HIDE DEF Ahead
    <3> QED BY <2>2, <2>3, <3>3
  <2> QED BY <2>4
<1>2. TimesInv => ((\E j \in Jobs : Runnable(j)) =>
                     \E j \in Jobs : Runnable(j) /\ \A k \in Jobs : Runnable(k) => ~Before(k, j))
  BY <1>1
<1> QED BY <1>2, TimesAreTimes, PTL

(* A retry starts in no earlier second than its backoff allows.            *)
THEOREM BackoffHolds == Spec => BackoffToTheSecond
<1>1. ASSUME TimesInv, [Next]_vars, NEW j \in Jobs, Claimed(j)
      PROVE  Sec(job[j].at) <= Sec(now)
  <2>1. job[j].at = Null \/ ~Less(ts(now), ts(job[j].at))
    BY <1>1, OnlyClaimClaims DEF Claim, Runnable
  <2>2. job[j].at \in Int /\ now \in Nat
    BY <1>1 DEF TimesInv, TimesOf, RowsTyped, RowType
  <2>3. CASE job[j].at = Null
    <3>1. Sec(Null) = -1
      BY SecondType DEF Sec, Null
    <3>2. Sec(now) >= 0
      BY <2>2, SecondType DEF Sec
    <3>3. QED
      BY <2>2, <2>3, <3>1, <3>2, SecType
  <2>4. CASE ~Less(ts(now), ts(job[j].at))
    BY <2>2, <2>4, EarlierSecondIsLess, SecType
  <2>5. QED
    BY <2>1, <2>3, <2>4
<1>2. TimesInv /\ [Next]_vars =>
        [\A j \in Jobs : Claimed(j) => Sec(job[j].at) <= Sec(now)]_vars
  BY <1>1
<1>3. QED
  BY <1>2, TimesAreTimes, PTL DEF Spec, BackoffToTheSecond

(* A retry is held back no longer than the second of its run_after.        *)
THEOREM DueJobsRun == Spec => []DueIsRunnable
<1>1. TimesInv => DueIsRunnable
  <2>1. SUFFICES ASSUME TimesInv, NEW j \in Jobs, job[j].status = "queued",
                        Sec(job[j].at) < Sec(now)
                 PROVE  ~Less(ts(now), ts(job[j].at))
    BY DEF DueIsRunnable, Runnable
  <2>2. job[j].at \in Int /\ now \in Int
    BY <2>1 DEF TimesInv, TimesOf, RowsTyped, RowType
  <2>3. QED
    BY <2>1, <2>2, LessIsNoLaterSecond, SecType
<1>2. QED
  BY <1>1, TimesAreTimes, PTL

(* Retention deletes no job that finished in a later second than the       *)
(* cutoff.                                                                 *)
THEOREM RetentionHolds == Spec => RetentionToTheSecond
<1>1. ASSUME TimesInv, [Next]_vars, NEW j \in Jobs,
             job[j].status = "finished", job'[j].status = "purged"
      PROVE  Sec(job[j].at) + Retention <= Sec(now)
  <2>1. PurgeBefore /\ Expired(j)
    <3>1. CASE Advance
      BY <1>1, <3>1 DEF Advance
    <3>2. ASSUME NEW k \in Jobs, Enqueue(k) \/ Claim(k) \/ Fail(k) \/ Finish(k) PROVE FALSE
      BY <1>1, <3>2 DEF Enqueue, Claim, Fail, Finish, TimesInv, TimesOf, RowsTyped, RowType
    <3>3. CASE UNCHANGED vars
      BY <1>1, <3>3 DEF vars
    <3>4. CASE PurgeBefore
      BY <1>1, <3>4 DEF PurgeBefore
    <3>5. QED
      BY <1>1, <3>1, <3>2, <3>3, <3>4 DEF Next
  <2> DEFINE cutoff == now - Retention * Second
  <2>2. cutoff \in Nat /\ job[j].at \in Int
    BY <1>1, <2>1, SecondType, FlagsAssumption DEF PurgeBefore, TimesInv, TimesOf, RowsTyped, RowType
  <2>3. now = cutoff + Retention * Second
    BY <1>1, SecondType, FlagsAssumption DEF TimesInv, TimesOf, RowsTyped, RowType
  <2>4. Sec(job[j].at) <= Sec(cutoff)
    BY <2>1, <2>2, LessIsNoLaterSecond DEF Expired
  <2> HIDE DEF cutoff
  <2>5. Sec(now) = Sec(cutoff) + Retention
    BY <2>2, <2>3, SecondType, FlagsAssumption DEF Sec
  <2>6. QED
    BY <2>2, <2>4, <2>5, SecType, FlagsAssumption
<1>2. TimesInv /\ [Next]_vars =>
        [\A j \in Jobs : job[j].status = "finished" /\ job'[j].status = "purged"
           => Sec(job[j].at) + Retention <= Sec(now)]_vars
  BY <1>1
<1>3. QED
  BY <1>2, TimesAreTimes, PTL DEF Spec, RetentionToTheSecond

=============================================================================
