----------------------------- MODULE Timestamps -----------------------------
(***************************************************************************)
(* Times in the jobs table are RFC3339Nano texts (ts, internal/store       *)
(* /store.go), and Claim and PurgeBefore compare and sort them as texts.   *)
(* The format trims trailing zeros from the fraction, so within a second   *)
(* the order of the texts is not the order of the times.  This module has  *)
(* the real times of a few jobs and the three comparisons made on texts.   *)
(*                                                                         *)
(* A time is a count of ticks.  The part of the text down to the seconds   *)
(* has a fixed width and compares as the number of the second; the         *)
(* fraction has Digits digits of radix Base, few enough for TLC (nine of   *)
(* radix ten in the code).  "." sorts before the digits and "Z" after.     *)
(***************************************************************************)
EXTENDS Integers, FiniteSetsExt, Sequences

CONSTANTS
  Jobs,
  Base, Digits,   \* BOUND: the fraction of a second
  Seconds,        \* BOUND: the clock shows 0..Seconds-1 and a fraction
  MaxAttempts,
  Retention       \* the -retention flag, in seconds

ASSUME FractionAssumption == Base \in Nat \ {0, 1} /\ Digits \in Nat
(* Arithmetic, named because the provers know nothing of powers. *)
ASSUME PowerAssumption ==
  /\ \A n \in 0..Digits : Base^n \in Nat \ {0}
  /\ \A n \in 0..MaxAttempts : 2^n \in Nat
ASSUME FlagsAssumption == Seconds \in Nat \ {0} /\ MaxAttempts \in Nat \ {0} /\ Retention \in Nat

Second == Base^Digits
Sec(t) == t \div Second
Clock == 0..(Seconds * Second - 1)
Dot == -1
Zed == Base

(* Format(RFC3339Nano). *)
Digit(t, i) == (t \div Base^(Digits - i)) % Base
Shown(t) == Max({0} \cup {i \in 1..Digits : Digit(t, i) # 0})
(* Variant: an hour of twelve instead of twenty-four, here of two seconds. *)
tsTwelve(t) ==
  <<Sec(t) % 2>>
  \o (IF Shown(t) = 0 THEN <<>> ELSE <<Dot>> \o [i \in 1..Shown(t) |-> Digit(t, i)])
  \o <<Zed>>

ts(t) ==
  <<Sec(t)>>
  \o (IF Shown(t) = 0 THEN <<>> ELSE <<Dot>> \o [i \in 1..Shown(t) |-> Digit(t, i)])
  \o <<Zed>>

(* SQLite's order of texts: byte by byte, a prefix first. *)
Less(a, b) ==
  \E i \in 1..Len(b) :
    /\ i - 1 <= Len(a)
    /\ \A k \in 1..(i - 1) : a[k] = b[k]
    /\ i <= Len(a) => a[i] < b[i]

VARIABLES
  now,   \* what time.Now returns next
  job    \* the rows: status, attempts and the times behind the texts

vars == <<now, job>>

(* at: run_after of a queued job (Null: NULL), finished_at of a finished.  *)
(* A column is Null here as soon as nothing reads it again: created_at     *)
(* when the job has finished, run_after while it runs.                     *)
(* Statuses: "none", "queued", "running", "finished", "purged".           *)
Null == -1
NoRow == [status |-> "none", created |-> Null, attempts |-> 0, at |-> Null]

Init ==
  /\ now = 0
  /\ job = [j \in Jobs |-> NoRow]

(* Time passes, and a wall clock may be set back. *)
Advance ==
  /\ now' \in Clock
  /\ UNCHANGED job

Enqueue(j) ==
  /\ job[j].status = "none"
  /\ job' = [job EXCEPT ![j].status = "queued", ![j].created = now]
  /\ UNCHANGED now

(* Variants: no run_after, run_after compared the wrong way round. *)
RunnableAlways(j) == job[j].status = "queued"
RunnableBackwards(j) ==
  /\ job[j].status = "queued"
  /\ job[j].at = Null \/ ~Less(ts(job[j].at), ts(now))

(* Claim: WHERE run_after IS NULL OR run_after <= now ORDER BY created_at. *)
Runnable(j) ==
  /\ job[j].status = "queued"
  /\ job[j].at = Null \/ ~Less(ts(now), ts(job[j].at))

Before(j, k) == Less(ts(job[j].created), ts(job[k].created))

Claim(j) ==
  /\ Runnable(j)
  /\ job[j].attempts < MaxAttempts
  /\ \A k \in Jobs : Runnable(k) => ~Before(k, j)
  /\ job' = [job EXCEPT ![j].status = "running", ![j].attempts = @ + 1,
                        ![j].at = Null]
  /\ UNCHANGED now

(* Fail with attempts left: run_after lies 2^attempts seconds ahead. *)
Fail(j) ==
  /\ job[j].status = "running"
  /\ job[j].attempts < MaxAttempts
  /\ job' = [job EXCEPT ![j].status = "queued",
                        ![j].at = now + 2^job[j].attempts * Second]
  /\ UNCHANGED now

(* Complete, or Fail for good. *)
Finish(j) ==
  /\ job[j].status = "running"
  /\ job' = [job EXCEPT ![j].status = "finished", ![j].at = now,
                        ![j].created = Null]
  /\ UNCHANGED now

(* Variant: what is newer than the cutoff. *)
ExpiredNewer(j) ==
  /\ job[j].status = "finished"
  /\ Less(ts(now - Retention * Second), ts(job[j].at))

(* PurgeBefore(now - retention): every row with finished_at < cutoff. *)
Expired(j) ==
  /\ job[j].status = "finished"
  /\ Less(ts(job[j].at), ts(now - Retention * Second))

PurgeBefore ==
  /\ now >= Retention * Second
  /\ job' = [j \in Jobs |-> IF Expired(j) THEN [NoRow EXCEPT !.status = "purged"]
                                          ELSE job[j]]
  /\ UNCHANGED now

Next ==
  \/ Advance
  \/ \E j \in Jobs : Enqueue(j) \/ Claim(j) \/ Fail(j) \/ Finish(j)
  \/ PurgeBefore

Spec == Init /\ [][Next]_vars

-----------------------------------------------------------------------------

Claimed(j) == job[j].status = "queued" /\ job'[j].status = "running"

(* Despite the texts, Claim never takes a job past a runnable one that was *)
(* created in an earlier second: what trimming disturbs stays within one.  *)
FairToTheSecond ==
  [][\A j, k \in Jobs : Claimed(j) /\ Runnable(k)
       => Sec(job[j].created) <= Sec(job[k].created)]_vars

(* A retry never starts in an earlier second than its backoff allows ...   *)
BackoffToTheSecond ==
  [][\A j \in Jobs : Claimed(j) => Sec(job[j].at) <= Sec(now)]_vars

(* ... and is never held back once the second of its run_after is over.    *)
DueIsRunnable ==
  \A j \in Jobs : job[j].status = "queued" /\ Sec(job[j].at) < Sec(now) => Runnable(j)

(* Retention never deletes a job that finished in a later second than the  *)
(* cutoff.                                                                 *)
RetentionToTheSecond ==
  [][\A j \in Jobs : job[j].status = "finished" /\ job'[j].status = "purged"
       => Sec(job[j].at) + Retention <= Sec(now)]_vars

=============================================================================
