------------------------------ MODULE JobsPage ------------------------------
(***************************************************************************)
(* The jobs page of the designer and the API key it is read with:          *)
(* views/JobsView.vue, the key dialog of App.vue, state/session.ts and the *)
(* 401 of api.ts.  The page polls every five seconds, whether the answer   *)
(* before has come or not; a page left and visited again is a new one,     *)
(* deaf to the answers the old one waits for.  The key is shared: any      *)
(* answer may ask for another.                                             *)
(*                                                                         *)
(* The server lists the jobs of the key that asks, and is a JobListing,    *)
(* which RenderService implements.  A listing is a key and the status of   *)
(* one job.                                                                *)
(***************************************************************************)
EXTENDS Integers

CONSTANTS
  Keys,    \* API keys
  NoKey,   \* the empty string
  Renders, \* BOUND: the keys whose jobs go on
  Slots    \* BOUND: requests in flight

ASSUME KeysAssumption == NoKey \notin Keys /\ Renders \subseteq Keys

VARIABLES
  server,    \* key -> the status of its job
  valid,     \* the keys the server takes
  flaky,     \* requests may fail
  mounted,   \* the jobs page is there
  listing,   \* jobs
  loading,
  error,
  apiKey,
  needsKey,
  dialog,    \* the key dialog is open
  cancelled, \* the user closed the dialog without a key
  calls

Server == INSTANCE JobListing
Statuses == Server!Statuses
Shown(s) == Server!Shown(s)

NotListed == [key |-> NoKey, status |-> "none"]
Listing == [key : Keys \cup {NoKey}, status : Statuses \cup {"none"}]

(* A request and its answer, when the server has given one: a listing (a   *)
(* PDF counts as one), or what went wrong.                                 *)
Waiting == "waiting"
Answers == {Waiting, "unauthorized", "error"} \cup Statuses \cup {"none"}
Call == [kind : {"free", "list", "pdf"}, key : Keys \cup {NoKey}, answer : Answers,
         live : BOOLEAN, overlaps : BOOLEAN]
Free == [kind |-> "free", key |-> NoKey, answer |-> Waiting, live |-> FALSE, overlaps |-> FALSE]

world == <<server, valid, flaky>>
page == <<mounted, listing, loading, error>>
session == <<apiKey, needsKey, dialog, cancelled>>
vars == <<world, page, session, calls>>

InFlight == {c \in Slots : calls[c].kind # "free"}
(* The listings that the page waits for. *)
Lists == {c \in InFlight : calls[c].kind = "list" /\ calls[c].live}

Init ==
  /\ Server!Init
  /\ valid \in SUBSET Keys
  /\ flaky = TRUE
  /\ mounted = FALSE /\ listing = NotListed /\ loading = FALSE /\ error = FALSE
  /\ apiKey \in Keys \cup {NoKey}
  /\ needsKey = FALSE /\ dialog = FALSE /\ cancelled = FALSE
  /\ calls = [c \in Slots |-> Free]

-----------------------------------------------------------------------------
(* The page.                                                               *)

(* refresh, up to its request: neither loading nor a request in flight     *)
(* keeps it from being sent.                                               *)
Refresh ==
  /\ loading' = TRUE
  /\ \E c \in Slots \ InFlight :
       calls' = [x \in Slots |->
         IF x = c THEN [kind |-> "list", key |-> apiKey, answer |-> Waiting, live |-> TRUE,
                        overlaps |-> Lists # {}]
         ELSE IF x \in Lists THEN [calls[x] EXCEPT !.overlaps = TRUE] ELSE calls[x]]

Visit ==
  /\ ~mounted
  /\ mounted' = TRUE
  /\ Refresh
  /\ UNCHANGED <<world, session, listing, error>>

Leave ==
  /\ mounted
  /\ mounted' = FALSE /\ listing' = NotListed /\ loading' = FALSE /\ error' = FALSE
  /\ calls' = [c \in Slots |-> [calls[c] EXCEPT !.live = FALSE, !.overlaps = FALSE]]
  /\ UNCHANGED <<world, session>>

(* Variant: polling ends with the first listing. *)
TickOnce ==
  /\ mounted /\ listing = NotListed
  /\ Refresh
  /\ UNCHANGED <<world, session, mounted, listing, error>>

(* The five seconds of the interval. *)
Tick ==
  /\ mounted
  /\ Refresh
  /\ UNCHANGED <<world, session, mounted, listing, error>>

RefreshButton ==
  /\ mounted /\ ~loading /\ ~dialog
  /\ Refresh
  /\ UNCHANGED <<world, session, mounted, listing, error>>

(* openPDF: a window, or nothing at all. *)
OpenPDF ==
  /\ mounted /\ listing.status = "finished" /\ ~dialog
  /\ \E c \in Slots \ InFlight :
       calls' = [calls EXCEPT ![c] = [Free EXCEPT !.kind = "pdf", !.key = apiKey]]
  /\ UNCHANGED <<world, page, session>>

-----------------------------------------------------------------------------
(* The key.                                                                *)

(* needsKey = true: the watcher sees a change only. *)
AskKey ==
  /\ needsKey' = TRUE
  /\ dialog' = (dialog \/ ~needsKey)
  /\ cancelled' = (cancelled /\ needsKey)

KeyButton ==
  /\ ~dialog
  /\ AskKey
  /\ UNCHANGED <<world, page, calls, apiKey>>

(* Variant: needsKey is left as it is. *)
SaveKeyAsking(k) ==
  /\ dialog
  /\ apiKey' = k
  /\ dialog' = FALSE
  /\ UNCHANGED <<world, page, calls, needsKey, cancelled>>

(* saveKey: nothing is asked for again. *)
SaveKey(k) ==
  /\ dialog
  /\ apiKey' = k
  /\ needsKey' = FALSE /\ dialog' = FALSE
  /\ UNCHANGED <<world, page, calls, cancelled>>

(* Cancel, or Escape. *)
CancelKey ==
  /\ dialog
  /\ dialog' = FALSE /\ cancelled' = TRUE
  /\ UNCHANGED <<world, page, calls, apiKey, needsKey>>

(* The page is loaded again: what localStorage did not take is gone.       *)
Reload ==
  /\ ~mounted
  /\ apiKey' \in {apiKey, NoKey}
  /\ needsKey' = FALSE /\ dialog' = FALSE /\ cancelled' = FALSE
  /\ calls' = [c \in Slots |-> Free]
  /\ UNCHANGED <<world, page>>

-----------------------------------------------------------------------------
(* The server and the network.                                             *)

(* Jobs are created, start, are retried, end, are deleted. *)
Advance ==
  /\ Server!Next
  /\ server' # server
  /\ \A k \in Keys \ Renders : server'[k] = server[k]
  /\ UNCHANGED <<valid, flaky, page, session, calls>>

DisableKey(k) ==
  /\ k \in valid
  /\ valid' = valid \ {k}
  /\ UNCHANGED <<server, flaky, page, session, calls>>

Steady ==
  /\ flaky
  /\ flaky' = FALSE
  /\ UNCHANGED <<server, valid, page, session, calls>>

Serve(c) ==
  /\ c \in InFlight /\ calls[c].answer = Waiting
  /\ \E a \in Answers :
       /\ \/ a = "error" /\ flaky
          \/ a = "unauthorized" /\ calls[c].key \notin valid
          \/ calls[c].key \in valid /\ a = Shown(server[calls[c].key])
       /\ calls' = [calls EXCEPT ![c].answer = a]
  /\ UNCHANGED <<world, page, session>>

(* Variant: what fails leaves loading behind. *)
ListedLoading(c) ==
  IF ~calls[c].live \/ calls[c].kind = "pdf" THEN UNCHANGED <<listing, loading, error>>
  ELSE CASE calls[c].answer = "error" -> error' = TRUE /\ UNCHANGED <<listing, loading>>
         [] calls[c].answer = "unauthorized" -> UNCHANGED <<listing, loading, error>>
         [] OTHER -> /\ listing' = [key |-> calls[c].key, status |-> calls[c].answer]
                     /\ loading' = FALSE /\ error' = FALSE

(* Variant: jobs outlives the page, and the answers to a page left count.  *)
ListedByAny(c) ==
  IF calls[c].kind = "pdf" THEN UNCHANGED <<listing, loading, error>>
  ELSE /\ loading' = FALSE
       /\ CASE calls[c].answer = "error" -> error' = TRUE /\ UNCHANGED listing
            [] calls[c].answer = "unauthorized" -> UNCHANGED <<listing, error>>
            [] OTHER -> /\ listing' = [key |-> calls[c].key, status |-> calls[c].answer]
                        /\ error' = FALSE

(* The rest of refresh. *)
Listed(c) ==
  IF ~calls[c].live \/ calls[c].kind = "pdf" THEN UNCHANGED <<listing, loading, error>>
  ELSE /\ loading' = FALSE
       /\ CASE calls[c].answer = "error" -> error' = TRUE /\ UNCHANGED listing
            [] calls[c].answer = "unauthorized" -> UNCHANGED <<listing, error>>
            [] OTHER -> /\ listing' = [key |-> calls[c].key, status |-> calls[c].answer]
                        /\ error' = FALSE

Arrive(c) ==
  /\ c \in InFlight /\ calls[c].answer # Waiting
  /\ calls' = [calls EXCEPT ![c] = Free]
  /\ IF calls[c].answer = "unauthorized" THEN AskKey ELSE UNCHANGED <<needsKey, dialog, cancelled>>
  /\ Listed(c)
  /\ UNCHANGED <<world, mounted, apiKey>>

Next ==
  \/ Visit \/ Leave \/ Tick \/ RefreshButton \/ OpenPDF
  \/ KeyButton \/ CancelKey \/ Reload
  \/ \E k \in Keys \cup {NoKey} : SaveKey(k)
  \/ Steady \/ Advance
  \/ \E k \in Keys : DisableKey(k)
  \/ \E c \in Slots : Serve(c) \/ Arrive(c)

(* The interval runs while the page is there (strongly fair, as it is the  *)
(* bound on requests that disables Tick now and then, not the code), every *)
(* request is answered, and the answer is handled.                         *)
Fairness == SF_vars(Tick) /\ \A c \in Slots : WF_vars(Serve(c)) /\ WF_vars(Arrive(c))

Spec == Init /\ [][Next]_vars /\ Fairness

-----------------------------------------------------------------------------
(* Properties.                                                             *)

(* Type correctness. *)
TypeOK ==
  /\ server \in [Keys -> Statuses \cup {"none", "purged"}] /\ valid \subseteq Keys
  /\ listing \in Listing /\ apiKey \in Keys \cup {NoKey}
  /\ {flaky, mounted, loading, error, needsKey, dialog, cancelled} \subseteq BOOLEAN
  /\ calls \in [Slots -> Call]

(* A key that is needed is asked for, unless the user closed the dialog    *)
(* (and then nothing but a reload brings it back).                         *)
PromptUnlessCancelled == needsKey /\ ~dialog => cancelled

(* The Refresh button comes back: loading is set only while the page waits *)
(* for a listing, and an answer to a page that was left cannot clear it.   *)
LoadingEnds == loading => mounted /\ Lists # {}

(* A job that the page has shown finished is not shown unfinished again,   *)
(* unless the listing shown overlapped another.  (It may be gone.)         *)
NoRegress ==
  [][listing.status = "finished" /\ listing'.key = listing.key
       /\ listing'.status \notin {"finished", "none"}
     => \E c \in Lists : calls[c].overlaps /\ calls'[c] = Free]_vars

(* Polling catches up: on a page that stays, with a key that stays valid   *)
(* and a server where nothing goes on, the jobs shown are in the end those *)
(* of the key in use, whichever key, failures and answers were before.     *)
CatchesUp ==
  <>[](mounted /\ ~flaky /\ apiKey \in valid) /\ <>[][FALSE]_<<server, apiKey>>
    => <>[](\E k \in Keys : apiKey = k /\ listing = [key |-> k, status |-> Shown(server[k])])

=============================================================================
