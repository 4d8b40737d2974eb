--------------------------- MODULE JobsPageProofs ---------------------------
(***************************************************************************)
(* What the jobs page keeps for any keys, with any number of requests in   *)
(* flight and in whatever order their answers come: the key dialog, the    *)
(* Refresh button, and the order of what the page shows.                   *)
(***************************************************************************)
EXTENDS JobsPage, TLAPS

(* What a listing that is shown, or on its way, says of its job.           *)
Verdicts == Statuses \cup {"none"}

(* Finished jobs stay finished until they are deleted, so a listing that   *)
(* says so is still right, or its job is gone.                             *)
Over(k) == k \in Keys /\ server[k] \in {"finished", "purged"}
ShownIsTrue == listing.status = "finished" => Over(listing.key)
AnswersAreTrue == \A c \in Slots : calls[c].answer = "finished" => Over(calls[c].key)

(* A listing on its way that does not know of another is alone, and was    *)
(* asked for after the one that is shown.                                  *)
AloneUnlessTold == \A c \in Lists : ~calls[c].overlaps => Lists = {c}
AloneIsNewer ==
  \A c \in Lists :
    /\ ~calls[c].overlaps /\ calls[c].answer \in Verdicts
    /\ listing.status = "finished" /\ listing.key = calls[c].key
    => calls[c].answer \in {"finished", "none"}

Inv ==
  /\ TypeOK /\ PromptUnlessCancelled /\ LoadingEnds
  /\ ShownIsTrue /\ AnswersAreTrue /\ AloneUnlessTold /\ AloneIsNewer

(* Asking for the key keeps it asked for. *)
LEMMA AskKeyPrompts ==
  ASSUME TypeOK, PromptUnlessCancelled, AskKey
  PROVE  /\ {needsKey', dialog', cancelled'} \subseteq BOOLEAN
         /\ PromptUnlessCancelled'
BY DEF TypeOK, PromptUnlessCancelled, AskKey

(* What sending a listing does to the requests: the new one waits, and     *)
(* knows of the others as they know of it.                                 *)
LEMMA RefreshStep ==
  ASSUME Inv, Refresh, mounted' = TRUE, UNCHANGED <<listing, server>>
  PROVE  /\ calls' \in [Slots -> Call] /\ loading' = TRUE
         /\ LoadingEnds' /\ ShownIsTrue' /\ AnswersAreTrue'
         /\ AloneUnlessTold' /\ AloneIsNewer'
<1>1. PICK c \in Slots \ InFlight :
        calls' = [x \in Slots |->
          IF x = c THEN [kind |-> "list", key |-> apiKey, answer |-> Waiting, live |-> TRUE,
                         overlaps |-> Lists # {}]
          ELSE IF x \in Lists THEN [calls[x] EXCEPT !.overlaps = TRUE] ELSE calls[x]]
  BY DEF Refresh
<1>2. calls' \in [Slots -> Call]
  BY ZenonT(60), <1>1 DEF Inv, TypeOK, Call, Answers, Waiting
<1>3. c \notin Lists
  BY DEF Lists
<1>4. Lists' = Lists \cup {c}
  BY <1>1 DEF Inv, TypeOK, Call, Lists, InFlight
<1>5. \A x \in Lists : calls'[x] = [calls[x] EXCEPT !.overlaps = TRUE] /\ calls'[x].overlaps
  BY <1>1, <1>3 DEF Inv, TypeOK, Call, Lists, InFlight
<1>6. calls'[c].overlaps = (Lists # {}) /\ calls'[c].answer = Waiting
  BY <1>1
<1>7. AloneUnlessTold'
  BY <1>4, <1>5, <1>6 DEF AloneUnlessTold
<1>8. AloneIsNewer'
  BY <1>4, <1>5, <1>6 DEF AloneIsNewer, Verdicts, Statuses, Server!Statuses, Waiting
<1>9. AnswersAreTrue'
  BY <1>1 DEF Inv, TypeOK, Call, AnswersAreTrue, Over, Waiting
<1>10. LoadingEnds' /\ ShownIsTrue' /\ loading' = TRUE
  BY <1>4 DEF Inv, LoadingEnds, ShownIsTrue, Over, Refresh
<1> QED BY <1>2, <1>7, <1>8, <1>9, <1>10

(* The steps of the page. *)
LEMMA PageStep ==
  ASSUME Inv, Visit \/ Leave \/ Tick \/ RefreshButton \/ OpenPDF
  PROVE  Inv'
<1> USE DEF world, session, page
<1>1. CASE Visit \/ Tick \/ RefreshButton
  <2>1. Refresh /\ mounted' = TRUE /\ UNCHANGED <<listing, error, world, session>>
    BY <1>1 DEF Visit, Tick, RefreshButton, Inv, TypeOK
  <2>2. /\ calls' \in [Slots -> Call] /\ loading' = TRUE
        /\ LoadingEnds' /\ ShownIsTrue' /\ AnswersAreTrue'
        /\ AloneUnlessTold' /\ AloneIsNewer'
    BY <2>1, RefreshStep
  <2>3. TypeOK' /\ PromptUnlessCancelled'
    BY <2>1, <2>2 DEF Inv, TypeOK, PromptUnlessCancelled
  <2> QED BY <2>2, <2>3 DEF Inv
<1>2. CASE Leave
  <2>1. calls' \in [Slots -> Call] /\ \A c \in Slots : calls'[c].answer = calls[c].answer
                                        /\ calls'[c].key = calls[c].key /\ ~calls'[c].live
    BY <1>2 DEF Leave, Inv, TypeOK, Call
  <2>2. Lists' = {}
    BY <2>1 DEF Lists, InFlight
  <2>3. TypeOK'
    BY <1>2, <2>1 DEF Leave, Inv, TypeOK, NotListed, Listing
  <2> QED BY <1>2, <2>1, <2>2, <2>3
          DEF Leave, Inv, PromptUnlessCancelled, LoadingEnds, ShownIsTrue, AnswersAreTrue, Over,
              AloneUnlessTold, AloneIsNewer, NotListed
<1>3. CASE OpenPDF
  <2>1. PICK c \in Slots \ InFlight :
          calls' = [calls EXCEPT ![c] = [Free EXCEPT !.kind = "pdf", !.key = apiKey]]
    BY <1>3 DEF OpenPDF
  <2>2. calls'[c] = [kind |-> "pdf", key |-> apiKey, answer |-> Waiting, live |-> FALSE,
                     overlaps |-> FALSE]
    BY <2>1 DEF Inv, TypeOK, Free
  <2>3. \A x \in Slots \ {c} : calls'[x] = calls[x]
    BY <2>1 DEF Inv, TypeOK
  <2>4. Lists' = Lists /\ c \notin Lists
    BY <2>2, <2>3 DEF Lists, InFlight
  <2>5. UNCHANGED <<world, page, session>>
    BY <1>3 DEF OpenPDF
  <2>6. calls'[c] \in Call /\ DOMAIN calls' = Slots
    <3>1. apiKey \in Keys \cup {NoKey} /\ DOMAIN calls = Slots
      BY DEF Inv, TypeOK
    <3>2. calls'[c] \in Call
      BY <2>2, <3>1 DEF Call, Answers
    <3> QED BY <2>1, <3>1, <3>2
  <2>7. calls' \in [Slots -> Call]
    BY <2>1, <2>3, <2>6 DEF Inv, TypeOK
  <2>8. TypeOK'
    BY <2>5, <2>7 DEF Inv, TypeOK
  <2>9. AnswersAreTrue'
    BY <2>2, <2>3, <2>5 DEF Inv, AnswersAreTrue, Over, Waiting
  <2>10. AloneUnlessTold' /\ AloneIsNewer'
    BY <2>3, <2>4, <2>5 DEF Inv, AloneUnlessTold, AloneIsNewer, Lists, InFlight
  <2> QED BY <2>4, <2>5, <2>8, <2>9, <2>10
          DEF Inv, PromptUnlessCancelled, LoadingEnds, ShownIsTrue, Over
<1> QED BY <1>1, <1>2, <1>3

(* The steps of the key dialog touch neither page nor requests, except     *)
(* loading the page again.                                                 *)
LEMMA KeyStep ==
  ASSUME Inv, KeyButton \/ CancelKey \/ Reload \/ \E k \in Keys \cup {NoKey} : SaveKey(k)
  PROVE  Inv'
<1> USE DEF world, page
<1>1. CASE KeyButton
  <2>1. {needsKey', dialog', cancelled'} \subseteq BOOLEAN /\ PromptUnlessCancelled'
    BY <1>1, AskKeyPrompts DEF KeyButton, Inv
  <2> QED BY <1>1, <2>1 DEF KeyButton, Inv, TypeOK, LoadingEnds, ShownIsTrue, Over, AnswersAreTrue,
              AloneUnlessTold, AloneIsNewer, Lists, InFlight
<1>2. CASE CancelKey
  BY <1>2 DEF CancelKey, Inv, TypeOK, PromptUnlessCancelled, LoadingEnds, ShownIsTrue,
              AnswersAreTrue, Over, AloneUnlessTold, AloneIsNewer, Lists, InFlight
<1>3. ASSUME NEW k \in Keys \cup {NoKey}, SaveKey(k) PROVE Inv'
  BY <1>3 DEF SaveKey, Inv, TypeOK, PromptUnlessCancelled, LoadingEnds, ShownIsTrue,
              AnswersAreTrue, Over, AloneUnlessTold, AloneIsNewer, Lists, InFlight
<1>4. CASE Reload
  <2>1. \A c \in Slots : calls'[c] = Free
    BY <1>4 DEF Reload
  <2>2. Lists' = {}
    BY <2>1 DEF Lists, InFlight, Free
  <2>3. TypeOK'
    BY <1>4 DEF Reload, Inv, TypeOK, Free, Call, Answers, Waiting
  <2>4. LoadingEnds'
    BY <1>4 DEF Reload, Inv, LoadingEnds
  <2> QED BY <1>4, <2>1, <2>2, <2>3, <2>4
          DEF Reload, Inv, PromptUnlessCancelled, ShownIsTrue, AnswersAreTrue, Over,
              AloneUnlessTold, AloneIsNewer, Free, Waiting
<1> QED BY <1>1, <1>2, <1>3, <1>4

(* The steps of the server.  A finished job is never another again, and    *)
(* what is said of it is what it is.                                       *)
LEMMA ServerStep ==
  ASSUME Inv,
         Steady \/ Advance \/ (\E k \in Keys : DisableKey(k)) \/ \E c \in Slots : Serve(c)
  PROVE  Inv'
<1> USE DEF world, page, session
<1>1. CASE Steady
  BY <1>1 DEF Steady, Inv, TypeOK, PromptUnlessCancelled, LoadingEnds, ShownIsTrue,
              AnswersAreTrue, Over, AloneUnlessTold, AloneIsNewer, Lists, InFlight
<1>2. CASE Advance
  <2>1. server' \in [Keys -> Statuses \cup {"none", "purged"}]
    BY <1>2 DEF Advance, Server!Next, Statuses
  <2>2. \A x : Over(x) => Over(x)'
    BY <1>2 DEF Advance, Server!Next, Server!Moves, Over
  <2> QED BY <1>2, <2>1, <2>2
          DEF Advance, Inv, TypeOK, PromptUnlessCancelled, LoadingEnds, ShownIsTrue,
              AnswersAreTrue, Over, AloneUnlessTold, AloneIsNewer, Lists, InFlight
<1>3. ASSUME NEW k \in Keys, DisableKey(k) PROVE Inv'
  BY <1>3 DEF DisableKey, Inv, TypeOK, PromptUnlessCancelled, LoadingEnds, ShownIsTrue,
              AnswersAreTrue, Over, AloneUnlessTold, AloneIsNewer, Lists, InFlight
<1>4. ASSUME NEW c \in Slots, Serve(c) PROVE Inv'
  <2>1. PICK a \in Answers :
          /\ \/ a \in {"error", "unauthorized"}
             \/ calls[c].key \in valid /\ a = Shown(server[calls[c].key])
          /\ calls' = [calls EXCEPT ![c].answer = a]
    BY <1>4 DEF Serve
  <2>2. /\ \A x \in Slots \ {c} : calls'[x] = calls[x]
        /\ calls'[c] = [calls[c] EXCEPT !.answer = a]
        /\ calls'[c].answer = a /\ calls'[c].key = calls[c].key
        /\ calls'[c].overlaps = calls[c].overlaps
    BY <2>1 DEF Inv, TypeOK, Call
  <2>3. Lists' = Lists
    BY <2>2 DEF Inv, TypeOK, Call, Lists, InFlight
  <2>4. TypeOK'
    BY <1>4, <2>1 DEF Serve, Inv, TypeOK, Call
  <2>5. a = "finished" => Over(calls[c].key)
    BY <2>1 DEF Inv, TypeOK, Over, Shown, Server!Shown
  <2>6. AnswersAreTrue'
    BY <1>4, <2>2, <2>5 DEF Serve, Inv, AnswersAreTrue, Over
  <2>7. AloneUnlessTold'
    BY <2>2, <2>3 DEF Inv, AloneUnlessTold, Lists, InFlight
  <2>8. AloneIsNewer'
    <3>1. SUFFICES ASSUME listing.status = "finished", listing.key = calls[c].key,
                          a \in Verdicts
                   PROVE  a \in {"finished", "none"}
      BY <1>4, <2>2, <2>3 DEF Serve, Inv, AloneIsNewer, Lists, InFlight
    <3> QED BY <2>1, <3>1
            DEF Inv, ShownIsTrue, Over, Verdicts, Statuses, Server!Statuses, Shown, Server!Shown
  <2> QED BY <1>4, <2>3, <2>4, <2>6, <2>7, <2>8
          DEF Serve, Inv, PromptUnlessCancelled, LoadingEnds, ShownIsTrue, Over
<1> QED BY <1>1, <1>2, <1>3, <1>4

(* What an answer does to the page.                                        *)
LEMMA ListedPage ==
  ASSUME TypeOK, NEW c \in Slots, c \in InFlight, calls[c].answer # Waiting, Listed(c)
  PROVE  /\ listing' \in Listing /\ loading' \in BOOLEAN /\ error' \in BOOLEAN
         /\ \/ listing' = listing
            \/ /\ c \in Lists /\ calls[c].answer \in Verdicts
               /\ listing' = [key |-> calls[c].key, status |-> calls[c].answer]
         /\ IF c \in Lists THEN loading' = FALSE ELSE loading' = loading
<1>1. calls[c] \in Call
  BY DEF TypeOK
<1>2. CASE ~calls[c].live \/ calls[c].kind = "pdf"
  BY <1>2 DEF Listed, TypeOK, Lists
<1>3. CASE calls[c].live /\ calls[c].kind # "pdf"
  <2>1. c \in Lists
    BY <1>1, <1>3 DEF Lists, InFlight, Call
  <2>2. loading' = FALSE
    BY <1>3 DEF Listed
  <2>3. CASE calls[c].answer = "error"
    BY <1>3, <2>1, <2>2, <2>3 DEF Listed, TypeOK
  <2>4. CASE calls[c].answer = "unauthorized"
    BY <1>3, <2>1, <2>2, <2>4 DEF Listed, TypeOK
  <2>5. CASE calls[c].answer \notin {"error", "unauthorized"}
    <3>1. listing' = [key |-> calls[c].key, status |-> calls[c].answer] /\ error' = FALSE
      BY <1>3, <2>5 DEF Listed
    <3>2. calls[c].answer \in Verdicts /\ calls[c].key \in Keys \cup {NoKey}
      BY <1>1, <2>5 DEF Call, Answers, Verdicts, Waiting
    <3> QED BY <2>1, <2>2, <3>1, <3>2 DEF Listing, Verdicts
  <2> QED BY <2>3, <2>4, <2>5
<1> QED BY <1>2, <1>3

(* An answer leaves the invariant as it is: one that is shown while others *)
(* are on their way is known to overlap them.                              *)
LEMMA ArriveStep == ASSUME Inv, NEW c \in Slots, Arrive(c) PROVE Inv'
<1> USE DEF world
<1>1. /\ listing' \in Listing /\ loading' \in BOOLEAN /\ error' \in BOOLEAN
      /\ \/ listing' = listing
         \/ /\ c \in Lists /\ calls[c].answer \in Verdicts
            /\ listing' = [key |-> calls[c].key, status |-> calls[c].answer]
      /\ IF c \in Lists THEN loading' = FALSE ELSE loading' = loading
  BY ListedPage DEF Arrive, Inv
<1>2. \A x \in Slots \ {c} : calls'[x] = calls[x]
  BY DEF Arrive, Inv, TypeOK
<1>3. calls'[c] = Free /\ calls' \in [Slots -> Call]
  BY DEF Arrive, Inv, TypeOK, Free, Call, Answers, Waiting
<1>4. Lists' = Lists \ {c}
  BY <1>2, <1>3 DEF Lists, InFlight, Free
<1>5. {needsKey', dialog', cancelled'} \subseteq BOOLEAN /\ PromptUnlessCancelled'
  <2>1. CASE AskKey
    BY <2>1, AskKeyPrompts DEF Inv
  <2>2. CASE UNCHANGED <<needsKey, dialog, cancelled>>
    BY <2>2 DEF Inv, TypeOK, PromptUnlessCancelled
  <2> QED BY <2>1, <2>2 DEF Arrive
<1>6. TypeOK'
  BY <1>1, <1>3, <1>5 DEF Arrive, Inv, TypeOK
<1>7. LoadingEnds'
  BY <1>1, <1>4 DEF Arrive, Inv, LoadingEnds
<1>8. ShownIsTrue'
  BY <1>1 DEF Arrive, Inv, ShownIsTrue, AnswersAreTrue, Over
<1>9. AnswersAreTrue'
  BY <1>2, <1>3 DEF Arrive, Inv, AnswersAreTrue, Over, Free, Waiting
<1>10. AloneUnlessTold'
  BY <1>2, <1>4 DEF Inv, AloneUnlessTold, Lists, InFlight
<1>11. AloneIsNewer'
  <2>1. CASE listing' = listing
    BY <1>2, <1>4, <2>1 DEF Inv, AloneIsNewer, Lists, InFlight
  <2>2. CASE c \in Lists
    <3>1. \A x \in Lists' : calls'[x].overlaps
      <4>1. \A x \in Lists' : x \in Lists \ {c} /\ x \in Slots
        BY <1>4 DEF Lists, InFlight
      <4> QED BY <1>2, <2>2, <4>1 DEF Inv, AloneUnlessTold
    <3> QED BY <3>1 DEF AloneIsNewer
  <2> QED BY <1>1, <2>1, <2>2
<1> QED BY <1>5, <1>6, <1>7, <1>8, <1>9, <1>10, <1>11 DEF Inv

(* Every step keeps the invariant. *)
LEMMA InvStep == Inv /\ [Next]_vars => Inv'
<1> SUFFICES ASSUME Inv, [Next]_vars PROVE Inv'
  OBVIOUS
<1>1. CASE UNCHANGED vars
  BY <1>1 DEF vars, world, page, session, Inv, TypeOK, PromptUnlessCancelled, LoadingEnds,
              ShownIsTrue, AnswersAreTrue, Over, AloneUnlessTold, AloneIsNewer, Lists, InFlight
<1>2. ASSUME NEW c \in Slots, Arrive(c) PROVE Inv'
  BY <1>2, ArriveStep
<1> QED BY <1>1, <1>2, PageStep, KeyStep, ServerStep DEF Next

(* The invariant holds: in particular, what is shown as finished is.       *)
THEOREM InvHolds == Spec => []Inv
<1>1. Init => Inv
  <2> SUFFICES ASSUME Init PROVE Inv
    OBVIOUS
  <2>1. \A c \in Slots : calls[c] = Free
    BY DEF Init
  <2>2. Lists = {}
    BY <2>1 DEF Lists, InFlight, Free
  <2>3. TypeOK
    BY DEF Init, TypeOK, NotListed, Listing, Free, Call, Answers, Waiting, Server!Init
  <2> QED BY <2>1, <2>2, <2>3
          DEF Init, Inv, PromptUnlessCancelled, LoadingEnds, ShownIsTrue, AnswersAreTrue, Over,
              AloneUnlessTold, AloneIsNewer, NotListed, Free, Waiting
<1> QED BY <1>1, InvStep, PTL DEF Spec

(* Type correctness. *)
THEOREM TypeCorrect == Spec => []TypeOK
BY InvHolds, PTL DEF Inv

(* A key that is needed is asked for, unless the user closed the dialog.   *)
THEOREM KeyIsAskedFor == Spec => []PromptUnlessCancelled
BY InvHolds, PTL DEF Inv

(* loading is set only while a listing is on its way to this page.         *)
THEOREM RefreshComesBack == Spec => []LoadingEnds
BY InvHolds, PTL DEF Inv

(* A job shown finished is shown unfinished again only by a listing that   *)
(* overlapped another.                                                     *)
THEOREM ShownInOrder == Spec => NoRegress
<1>1. ASSUME Inv, [Next]_vars, listing.status = "finished", listing'.key = listing.key,
             listing'.status \notin {"finished", "none"}
      PROVE  \E c \in Lists : calls[c].overlaps /\ calls'[c] = Free
  <2>1. listing' # listing /\ listing.key # NoKey
    BY <1>1, KeysAssumption DEF Inv, ShownIsTrue, Over
  <2>2. \E c \in Slots : Arrive(c)
    <3>1. ~UNCHANGED listing
      BY <2>1
    <3>2. ~Leave
      <4>1. Leave => listing' = NotListed
        BY Zenon DEF Leave
      <4> QED BY <1>1, <2>1, <4>1 DEF NotListed
    <3> QED BY <1>1, <3>1, <3>2
            DEF Next, vars, page, Visit, Tick, RefreshButton, OpenPDF, KeyButton, CancelKey,
                Reload, SaveKey, Steady, Advance, DisableKey, Serve
  <2>3. PICK c \in Slots : Arrive(c)
    BY <2>2
  <2>4. /\ c \in Lists /\ calls[c].answer \in Verdicts
        /\ listing' = [key |-> calls[c].key, status |-> calls[c].answer]
    BY <1>1, <2>1, <2>3, ListedPage DEF Arrive, Inv
  <2>5. calls'[c] = Free
    BY <1>1, <2>3 DEF Arrive, Inv, TypeOK
  <2>6. calls[c].overlaps
    BY <1>1, <2>4 DEF Inv, AloneIsNewer
  <2> QED BY <2>4, <2>5, <2>6
<1>2. Inv /\ [Next]_vars =>
        [listing.status = "finished" /\ listing'.key = listing.key
           /\ listing'.status \notin {"finished", "none"}
           => \E c \in Lists : calls[c].overlaps /\ calls'[c] = Free]_vars
  BY <1>1
<1> QED BY <1>2, InvHolds, PTL DEF Spec, NoRegress

=============================================================================
