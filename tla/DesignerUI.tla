----------------------------- MODULE DesignerUI -----------------------------
(***************************************************************************)
(* The documents of the template designer in the browser: open, edit, undo,*)
(* save, create and delete of web/designer/src/state/designer.ts, the      *)
(* guards of views/TemplatesView.vue, which is mounted anew each time the  *)
(* user comes back from the jobs page, the hash route of router.ts, and    *)
(* the undo history of components/CodeEditor.vue, with one user.  A step   *)
(* is one event: something the user does, a hashchange, the server taking  *)
(* a request, or an answer arriving, in any order.                         *)
(*                                                                         *)
(* A text stands for source, defaults and example together (what snapshot  *)
(* compares), named by the template it was written for and a number that   *)
(* each edit makes fresh.  Renders are in PreviewPane; the busy flag, which *)
(* keeps Save off, is cleared by the end of any render and so keeps        *)
(* nothing off for good.  Of the jobs page there is only that it is        *)
(* another view (JobsPage), of the history one step.  No answer is lost.   *)
(* The ghosts raced and crossed only record what happened.                 *)
(***************************************************************************)
EXTENDS Integers

CONSTANTS
  Names,      \* template names
  None,       \* no name, no text, no document; as a URL: #/templates
  JobsURL,    \* the URL of the jobs page
  MaxEdits,   \* BOUND: texts the user writes
  Slots       \* BOUND: requests in flight

ASSUME BoundAssumption == MaxEdits \in Nat

URLs == Names \cup {None, JobsURL}
Text == Names \X (0..MaxEdits)
Doc == [name : Names, text : Text]

ASSUME NoneAssumption ==
  /\ None \notin Names \cup Text \cup {"discard", "delete"}
  /\ JobsURL \notin Names \cup {None}

(* A request in flight; why: the user followed a link, asked for it in a   *)
(* dialog or with a button, or the view was mounted.                       *)
Kinds == {"free", "list", "open", "save", "delete"}
Phases == {"sent", "served", "refused", "list"}
Whys == {"watch", "asked", "mount"}
Call == [kind : Kinds, phase : Phases, name : Names \cup {None},
         text : Text \cup {None}, why : Whys]
Request(kind, name, text, why) ==
  [kind |-> kind, phase |-> "sent", name |-> name, text |-> text, why |-> why]
Free == Request("free", None, None, "watch")
List == Request("list", None, None, "watch")

VARIABLES
  store,     \* the templates on the server, None: no such file
  doc,       \* doc.value, None: no document
  saved,     \* savedSnapshot
  undo,      \* the text an undo brings back, None: no history
  hash,      \* location.hash
  route,     \* the route the watchers last saw
  modal,     \* the dialog that is open: None, "discard" or "delete"
  wanted,    \* pendingOpen
  calls,     \* requests in flight
  edits,     \* texts written so far
  raced,     \* the user once acted before everything had settled
  crossed    \* an undo once brought back the text of another template

vars == <<store, doc, saved, undo, hash, route, modal, wanted,
          calls, edits, raced, crossed>>

NameOf(d) == IF d = None THEN None ELSE d.name
(* Variant: what was never saved is not dirty. *)
dirtyOnceSaved == doc # None /\ saved # None /\ doc.text # saved
dirty == doc # None /\ doc.text # saved
IsFree(c) == calls[c].kind = "free"
Settled == hash = route /\ \A c \in Slots : IsFree(c)
Mounted == route # JobsURL

Open(n, why) == Request("open", n, None, why)
(* Variant: saved under the name in the URL. *)
SaveCallByRoute == Request("save", route, doc.text, "asked")
SaveCall == Request("save", doc.name, doc.text, "asked")

(* Send a request in any free slot. *)
Send(call) == \E c \in Slots : IsFree(c) /\ calls' = [calls EXCEPT ![c] = call]
Answer(c, call) == calls' = [calls EXCEPT ![c] = call]

(* Another document in an editor that stays mounted is one more change of  *)
(* its text, and goes into its history.                                    *)
Replace(d) ==
  /\ doc' = d
  /\ undo' = IF ~Mounted \/ doc = None THEN None
             ELSE IF doc.text = d.text THEN undo ELSE doc.text

(* The page is loaded; TemplatesView, if that is the view, asks for the    *)
(* list first.                                                             *)
Init ==
  /\ store = [n \in Names |-> <<n, 0>>]
  /\ doc = None /\ saved = None /\ undo = None
  /\ \E u \in URLs :
       /\ hash = u /\ route = u
       /\ IF u = JobsURL
          THEN calls = [s \in Slots |-> Free]
          ELSE \E c \in Slots : calls = [s \in Slots |-> IF s = c THEN List ELSE Free]
  /\ modal = None /\ wanted = None
  /\ edits = 0
  /\ raced = FALSE /\ crossed = FALSE

-----------------------------------------------------------------------------
(* The user.                                                               *)

Acts == raced' = (raced \/ ~Settled)

(* Typing, or a button that rewrites a part of the document. *)
Edit ==
  /\ doc # None /\ Mounted /\ modal = None
  /\ edits < MaxEdits
  /\ edits' = edits + 1
  /\ Replace([doc EXCEPT !.text = <<doc.name, edits + 1>>])
  /\ Acts
  /\ UNCHANGED <<store, saved, hash, route, modal, wanted, calls, crossed>>

(* Ctrl+Z in the editor. *)
Undo ==
  /\ doc # None /\ Mounted /\ modal = None
  /\ undo # None
  /\ doc' = [doc EXCEPT !.text = undo]
  /\ undo' = None
  /\ crossed' = (crossed \/ undo[1] # doc.name)
  /\ Acts
  /\ UNCHANGED <<store, saved, hash, route, modal, wanted, calls, edits>>

(* To another tab and back: a new editor, without a history. *)
SwitchTab ==
  /\ undo # None
  /\ undo' = None
  /\ Acts
  /\ UNCHANGED <<store, doc, saved, hash, route, modal, wanted, calls, edits,
                 crossed>>

(* A link, or the browser's back and forward, which no dialog keeps off. *)
Navigate(u) ==
  /\ hash # u
  /\ hash' = u
  /\ Acts
  /\ UNCHANGED <<store, doc, saved, undo, route, modal, wanted, calls, edits,
                 crossed>>

(* The button or Ctrl+S, which no dialog keeps from the window. *)
Save ==
  /\ dirty /\ Mounted
  /\ Send(SaveCall)
  /\ Acts
  /\ UNCHANGED <<store, doc, saved, undo, hash, route, modal, wanted, edits, crossed>>

(* TemplateRail create: a scaffold that is unsaved until its first save    *)
(* takes the place of the document.                                        *)
Create(n) ==
  /\ Mounted /\ modal = None
  /\ edits < MaxEdits
  /\ edits' = edits + 1
  /\ Replace([name |-> n, text |-> <<n, edits + 1>>])
  /\ saved' = None
  /\ hash' = n
  /\ Acts
  /\ UNCHANGED <<store, route, modal, wanted, calls, crossed>>

(* confirmDiscard: the URL and the request, at once. *)
Discard ==
  /\ modal = "discard"
  /\ modal' = None
  /\ wanted' = None
  /\ hash' = wanted
  /\ Send(Open(wanted, "asked"))
  /\ Acts
  /\ UNCHANGED <<store, doc, saved, undo, route, edits, crossed>>

(* Delete, confirmed in its dialog, which stays open meanwhile; one at a   *)
(* time (BOUND).                                                           *)
Delete ==
  /\ doc # None /\ Mounted
  /\ modal = None
  /\ \A c \in Slots : calls[c].kind # "delete"
  /\ modal' = "delete"
  /\ Send(Request("delete", doc.name, None, "asked"))
  /\ Acts
  /\ UNCHANGED <<store, doc, saved, undo, hash, route, wanted, edits, crossed>>

(* Cancel, or Keep editing: dialog and pendingOpen, and nothing else. *)
Cancel ==
  /\ modal # None
  /\ modal' = None
  /\ wanted' = None
  /\ Acts
  /\ UNCHANGED <<store, doc, saved, undo, hash, route, calls, edits, crossed>>

-----------------------------------------------------------------------------
(* The browser.                                                            *)

(* hashchange: to the jobs page, and TemplatesView goes with its dialogs   *)
(* and its editor; from it, and a new one asks for the list; or from one   *)
(* template to another, and watch(selected) opens it, unless there are     *)
(* unsaved edits: then the URL goes back to the document and the user is   *)
(* asked.                                                                  *)
HashChange ==
  /\ hash # route
  /\ route' = hash
  /\ \/ /\ hash = JobsURL
        /\ modal' = None /\ wanted' = None /\ undo' = None
        /\ UNCHANGED <<hash, calls>>
     \/ /\ route = JobsURL
        /\ Send(List)
        /\ UNCHANGED <<hash, modal, wanted, undo>>
     \/ /\ JobsURL \notin {hash, route}
        /\ hash \in {None, NameOf(doc)}
        /\ UNCHANGED <<hash, modal, wanted, undo, calls>>
     \/ /\ JobsURL \notin {hash, route}
        /\ hash \notin {None, NameOf(doc)}
        /\ IF dirty
           THEN wanted' = hash /\ hash' = doc.name /\ modal' = "discard" /\ UNCHANGED calls
           ELSE Send(Open(hash, "watch")) /\ UNCHANGED <<hash, modal, wanted>>
        /\ UNCHANGED undo
  /\ UNCHANGED <<store, doc, saved, edits, raced, crossed>>

(* The rest of onMounted, when the list is there, be the view still there  *)
(* or not: open the template of the URL, or go to the first of the list.   *)
Listed(c) ==
  /\ calls[c].kind = "list"
  /\ \/ route \in Names /\ Answer(c, Open(route, "mount")) /\ UNCHANGED hash
     \/ /\ route \notin Names
        /\ Answer(c, Free)
        /\ \/ \E n \in Names : store[n] # None /\ hash' = n
           \/ (\A n \in Names : store[n] = None) /\ UNCHANGED hash
  /\ UNCHANGED <<store, doc, saved, undo, route, modal, wanted, edits, raced, crossed>>

(* open: the document is replaced, then rendered.  A 404 changes nothing. *)
Opened(c) ==
  /\ calls[c].kind = "open"
  /\ calls[c].phase = "served"
  /\ Answer(c, Free)
  /\ IF calls[c].text = None
     THEN UNCHANGED <<doc, undo, saved>>
     ELSE /\ Replace([name |-> calls[c].name, text |-> calls[c].text])
          /\ saved' = calls[c].text
  /\ UNCHANGED <<store, hash, route, modal, wanted, edits, raced, crossed>>

(* save: the snapshot is taken of the document there is by now. *)
Saved(c) ==
  /\ calls[c].kind = "save"
  /\ calls[c].phase = "served"
  /\ saved' = IF doc = None THEN None ELSE doc.text
  /\ Answer(c, Free)
  /\ UNCHANGED <<store, doc, undo, hash, route, modal, wanted, edits, raced, crossed>>

(* save: rejected, and only said so. *)
Rejected(c) ==
  /\ calls[c].kind = "save"
  /\ calls[c].phase = "refused"
  /\ Answer(c, Free)
  /\ UNCHANGED <<store, doc, saved, undo, hash, route, modal, wanted, edits, raced, crossed>>

(* remove: whatever document there is by now is closed. *)
Removed(c) ==
  /\ calls[c].kind = "delete"
  /\ calls[c].phase = "served"
  /\ doc' = None
  /\ undo' = None
  /\ Answer(c, [calls[c] EXCEPT !.phase = "list"])
  /\ UNCHANGED <<store, saved, hash, route, modal, wanted, edits, raced, crossed>>

(* confirmDelete: a 404 leaves the dialog open; otherwise it closes and    *)
(* the URL names no template, whichever view there is by now.              *)
RemoveEnds(c) ==
  /\ calls[c].kind = "delete"
  /\ \/ calls[c].phase = "refused" /\ UNCHANGED <<modal, hash>>
     \/ /\ calls[c].phase = "list"
        /\ modal' = IF modal = "delete" THEN None ELSE modal
        /\ hash' = None
  /\ Answer(c, Free)
  /\ UNCHANGED <<store, doc, saved, undo, route, wanted, edits, raced, crossed>>

-----------------------------------------------------------------------------
(* The server takes the requests that depend on its files in any order.    *)

Serve(c) ==
  /\ calls[c].phase = "sent"
  /\ \/ /\ calls[c].kind = "open"
        /\ Answer(c, [kind |-> "open", phase |-> "served", name |-> calls[c].name,
                      text |-> store[calls[c].name], why |-> calls[c].why])
        /\ UNCHANGED store
     \/ /\ calls[c].kind = "save"
        /\ store' = [store EXCEPT ![calls[c].name] = calls[c].text]
        /\ Answer(c, [calls[c] EXCEPT !.phase = "served"])
     \/ /\ calls[c].kind = "delete"
        /\ store[calls[c].name] # None
        /\ store' = [store EXCEPT ![calls[c].name] = None]
        /\ Answer(c, [calls[c] EXCEPT !.phase = "served"])
  /\ UNCHANGED <<doc, saved, undo, hash, route, modal, wanted, edits, raced, crossed>>

(* The save gate rejects, or there is nothing to delete. *)
Refuse(c) ==
  /\ calls[c].phase = "sent"
  /\ \/ calls[c].kind = "save"
     \/ calls[c].kind = "delete" /\ store[calls[c].name] = None
  /\ Answer(c, [calls[c] EXCEPT !.phase = "refused"])
  /\ UNCHANGED <<store, doc, saved, undo, hash, route, modal, wanted, edits,
                 raced, crossed>>

UserStep ==
  \/ Edit \/ Undo \/ SwitchTab \/ Save \/ Discard \/ Delete \/ Cancel
  \/ \E u \in URLs : Navigate(u)
  \/ \E n \in Names : Create(n)

BrowserStep ==
  \/ HashChange
  \/ \E c \in Slots : \/ Listed(c) \/ Opened(c) \/ Saved(c) \/ Rejected(c)
                      \/ Removed(c) \/ RemoveEnds(c)

ServerStep == \E c \in Slots : Serve(c) \/ Refuse(c)

Next == UserStep \/ BrowserStep \/ ServerStep

Spec == Init /\ [][Next]_vars

-----------------------------------------------------------------------------
(* Properties.                                                             *)

(* Type correctness of the store, the route, the dialogs and the requests. *)
TypeOK ==
  /\ store \in [Names -> Text \cup {None}]
  /\ doc \in Doc \cup {None}
  /\ {saved, undo} \subseteq Text \cup {None}
  /\ {hash, route} \subseteq URLs
  /\ wanted \in Names \cup {None}
  /\ modal \in {None, "discard", "delete"}
  /\ calls \in [Slots -> Call]
  /\ {raced, crossed} \subseteq BOOLEAN
  /\ edits \in 0..MaxEdits

Unsaved == doc # None /\ doc.text # store[doc.name]

(* No text is ever saved under another template's name, although the URL,  *)
(* the document and the answers under way may name three different ones,   *)
(* unless it was brought into the document by an undo (the history of the  *)
(* editor reaches back into the template before, CodeEditor.vue:51-59).    *)
SavedUnderOwnName == ~crossed => \A n \in Names : store[n] # None => store[n][1] = n

(* For a user who waits for everything to settle, a document that looks    *)
(* saved is the one on the server.                                         *)
CleanMeansSaved == ~raced /\ Settled /\ Unsaved => dirty

(* For a user who waits, no document with unsaved edits is replaced by     *)
(* following a link, unless the discard dialog was confirmed.  (Coming     *)
(* back from the jobs page does replace it: onMounted opens without asking.)*)
WaitingLosesNothing ==
  [][\A c \in Slots : ~raced /\ Opened(c) /\ Unsaved /\ doc' # doc => calls[c].why # "watch"]_vars

=============================================================================
