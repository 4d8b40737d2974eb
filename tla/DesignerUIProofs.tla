--------------------------- MODULE DesignerUIProofs ---------------------------
(***************************************************************************)
(* What the designer keeps for any templates, any number of edits and of   *)
(* requests in flight: whose text is saved under which name, and what a    *)
(* user who waits can rely on.                                             *)
(***************************************************************************)
EXTENDS DesignerUI, TLAPS

-----------------------------------------------------------------------------
(* Types.                                                                  *)

(* A dialog and a request that need a name have one. *)
Named ==
  /\ modal = "discard" => wanted \in Names
  /\ \A c \in Slots :
       /\ calls[c].kind \in {"open", "save", "delete"} => calls[c].name \in Names
       /\ calls[c].kind = "save" => calls[c].text \in Text
Typed == TypeOK /\ Named

(* What a request may look like. *)
Good(k) ==
  /\ k \in Call
  /\ k.kind \in {"open", "save", "delete"} => k.name \in Names
  /\ k.kind = "save" => k.text \in Text

(* The requests are as they were, but for that of slot c. *)
Only(c, k) == calls'[c] = k /\ \A x \in Slots \ {c} : calls'[x] = calls[x]

(* Sending takes a free slot. *)
LEMMA SendStep ==
  ASSUME Typed, NEW k, Good(k), Send(k)
  PROVE  /\ calls' \in [Slots -> Call] /\ \A x \in Slots : Good(calls'[x])
         /\ \E c \in Slots : calls[c].kind = "free" /\ Only(c, k)
<1>1. PICK c \in Slots : IsFree(c) /\ calls' = [calls EXCEPT ![c] = k]
  BY DEF Send
<1>2. calls' \in [Slots -> Call] /\ calls'[c] = k /\ \A x \in Slots \ {c} : calls'[x] = calls[x]
  BY <1>1 DEF Typed, TypeOK, Good
<1>3. \A x \in Slots : Good(calls'[x])
  BY <1>2 DEF Typed, TypeOK, Named, Good
<1> QED BY <1>1, <1>2, <1>3 DEF IsFree, Only

(* An answer takes the place of its request. *)
LEMMA AnswerStep ==
  ASSUME Typed, NEW c \in Slots, NEW k, Good(k), Answer(c, k)
  PROVE  /\ calls' \in [Slots -> Call] /\ \A x \in Slots : Good(calls'[x])
         /\ Only(c, k)
<1>1. calls' \in [Slots -> Call] /\ calls'[c] = k /\ \A x \in Slots \ {c} : calls'[x] = calls[x]
  BY DEF Answer, Typed, TypeOK, Good
<1>2. \A x \in Slots : Good(calls'[x])
  BY <1>1 DEF Typed, TypeOK, Named, Good
<1> QED BY <1>1, <1>2 DEF Only

(* The requests that are sent. *)
LEMMA Requests ==
  /\ Good(Free) /\ Good(List)
  /\ \A n \in Names, w \in Whys : Good(Open(n, w))
  /\ \A n \in Names : Good(Request("delete", n, None, "asked"))
BY DEF Good, Free, List, Open, Request, Call, Kinds, Phases, Whys

(* The request of Save. *)
LEMMA SaveCallGood ==
  ASSUME TypeOK, doc # None
  PROVE  Good(SaveCall) /\ doc.name \in Names /\ doc.text \in Text
<1>1. doc.name \in Names /\ doc.text \in Text
  BY DEF TypeOK, Doc
<1> QED BY <1>1 DEF Good, SaveCall, Request, Call, Kinds, Phases, Whys

(* A request in another phase, or with the text that was read. *)
LEMMA Phased ==
  ASSUME Typed, NEW c \in Slots, NEW p \in Phases
  PROVE  /\ Good(calls[c]) /\ Good([calls[c] EXCEPT !.phase = p])
         /\ [calls[c] EXCEPT !.phase = p] =
              [kind |-> calls[c].kind, phase |-> p, name |-> calls[c].name,
               text |-> calls[c].text, why |-> calls[c].why]
<1>1. calls[c] \in Call /\ Good(calls[c])
  BY DEF Typed, TypeOK, Named, Good
<1>2. [calls[c] EXCEPT !.phase = p] =
        [kind |-> calls[c].kind, phase |-> p, name |-> calls[c].name,
         text |-> calls[c].text, why |-> calls[c].why]
  BY <1>1 DEF Call
<1> QED BY <1>1, <1>2 DEF Good, Call

(* What was read. *)
LEMMA Read ==
  ASSUME Typed, NEW c \in Slots, calls[c].kind = "open"
  PROVE  Good([kind |-> "open", phase |-> "served", name |-> calls[c].name,
               text |-> store[calls[c].name], why |-> calls[c].why])
<1>1. calls[c] \in Call /\ calls[c].name \in Names
  BY DEF Typed, TypeOK, Named
<1>2. store[calls[c].name] \in Text \cup {None}
  BY <1>1 DEF Typed, TypeOK
<1> QED BY <1>1, <1>2 DEF Good, Call, Kinds, Phases

(* A document of another text. *)
LEMMA Rewritten ==
  ASSUME TypeOK, doc # None, NEW t \in Text
  PROVE  [doc EXCEPT !.text = t] = [name |-> doc.name, text |-> t]
         /\ [doc EXCEPT !.text = t] \in Doc
BY DEF TypeOK, Doc

(* The editor's history is of texts. *)
LEMMA ReplaceStep ==
  ASSUME TypeOK, NEW d \in Doc, Replace(d)
  PROVE  doc' = d /\ undo' \in Text \cup {None}
<1>1. doc' = d /\ (undo' = None \/ undo' = undo \/ (doc # None /\ undo' = doc.text))
  BY DEF Replace
<1> QED BY <1>1 DEF TypeOK, Doc

(* Each request is good, if those that changed are. *)
LEMMA NamedBy ==
  ASSUME \A x \in Slots : Good(calls'[x]), modal' = "discard" => wanted' \in Names
  PROVE  Named'
BY DEF Named, Good

(* The user's steps. *)
LEMMA UserTyped == ASSUME Typed, UserStep PROVE Typed'
<1>1. \A x \in Slots : Good(calls[x])
  BY DEF Typed, TypeOK, Named, Good
<1>2. raced \in BOOLEAN /\ crossed \in BOOLEAN /\ edits \in 0..MaxEdits
  BY DEF Typed, TypeOK
<1>3. CASE Edit
  <2>1. <<doc.name, edits + 1>> \in Text /\ edits + 1 \in 0..MaxEdits
    BY <1>2, <1>3, BoundAssumption DEF Edit, Typed, TypeOK, Doc, Text
  <2>2. doc' \in Doc /\ undo' \in Text \cup {None}
    BY <1>3, <2>1, Rewritten, ReplaceStep DEF Edit, Typed
  <2> QED BY <1>3, <2>1, <2>2 DEF Edit, Acts, Typed, TypeOK, Named
<1>4. CASE Undo
  <2>1. undo \in Text
    BY <1>4 DEF Undo, Typed, TypeOK
  <2>2. doc' \in Doc /\ undo' = None
    BY <1>4, <2>1, Rewritten DEF Undo, Typed
  <2> QED BY <1>4, <2>2 DEF Undo, Acts, Typed, TypeOK, Named
<1>5. CASE SwitchTab
  BY <1>5 DEF SwitchTab, Acts, Typed, TypeOK, Named
<1>6. ASSUME NEW u \in URLs, Navigate(u) PROVE Typed'
  BY <1>6 DEF Navigate, Acts, Typed, TypeOK, Named
<1>7. CASE Save
  <2>1. Send(SaveCall) /\ doc # None
    BY <1>7 DEF Save, dirty
  <2>2. calls' \in [Slots -> Call] /\ \A x \in Slots : Good(calls'[x])
    BY <2>1, SaveCallGood, SendStep DEF Typed
  <2>3. Named'
    BY <1>7, <2>2, NamedBy DEF Save, Typed, Named
  <2> QED BY <1>7, <2>2, <2>3 DEF Save, Acts, Typed, TypeOK
<1>8. ASSUME NEW n \in Names, Create(n) PROVE Typed'
  <2>1. <<n, edits + 1>> \in Text /\ edits + 1 \in 0..MaxEdits
    BY <1>2, <1>8, BoundAssumption DEF Create, Text
  <2>2. [name |-> n, text |-> <<n, edits + 1>>] \in Doc
    BY <2>1 DEF Doc
  <2>3. doc' \in Doc /\ undo' \in Text \cup {None}
    BY <1>8, <2>2, ReplaceStep DEF Create, Typed
  <2> QED BY <1>8, <2>1, <2>3 DEF Create, Acts, Typed, TypeOK, Named, URLs
<1>9. CASE Discard
  <2>1. wanted \in Names /\ Good(Open(wanted, "asked")) /\ Send(Open(wanted, "asked"))
    BY <1>9, Requests DEF Discard, Typed, Named, Whys
  <2>2. calls' \in [Slots -> Call] /\ \A x \in Slots : Good(calls'[x])
    BY <2>1, SendStep
  <2>3. hash' \in URLs /\ modal' = None /\ wanted' = None
    BY <1>9, <2>1 DEF Discard, URLs
  <2>4. Named'
    BY <2>2, <2>3, NamedBy, NoneAssumption
  <2> QED BY <1>9, <2>2, <2>3, <2>4 DEF Discard, Acts, Typed, TypeOK
<1>10. CASE Delete
  <2>1. doc.name \in Names /\ Send(Request("delete", doc.name, None, "asked"))
    BY <1>10, SaveCallGood DEF Delete, Typed
  <2>2. calls' \in [Slots -> Call] /\ \A x \in Slots : Good(calls'[x])
    BY <2>1, Requests, SendStep
  <2>3. Named'
    BY <1>10, <2>2, NamedBy DEF Delete
  <2> QED BY <1>10, <2>2, <2>3 DEF Delete, Acts, Typed, TypeOK
<1>11. CASE Cancel
  BY <1>1, <1>11, NamedBy, NoneAssumption DEF Cancel, Acts, Typed, TypeOK, Named
<1> QED BY <1>3, <1>4, <1>5, <1>6, <1>7, <1>8, <1>9, <1>10, <1>11 DEF UserStep

(* The browser's steps. *)
LEMMA BrowserTyped == ASSUME Typed, BrowserStep PROVE Typed'
<1>1. CASE HashChange
  <2>1. CASE calls' = calls /\ modal' = modal /\ wanted' = wanted /\ hash' = hash
    BY <1>1, <2>1 DEF HashChange, Typed, TypeOK, Named
  <2>2. CASE modal' = None /\ wanted' = None /\ undo' = None /\ UNCHANGED <<hash, calls>>
    BY <1>1, <2>2, NoneAssumption DEF HashChange, Typed, TypeOK, Named
  <2>3. CASE Send(List) /\ UNCHANGED <<hash, modal, wanted, undo>>
    <3>1. calls' \in [Slots -> Call] /\ \A x \in Slots : Good(calls'[x])
      BY <2>3, Requests, SendStep
    <3>2. Named'
      BY <2>3, <3>1, NamedBy DEF Typed, Named
    <3> QED BY <1>1, <2>3, <3>1, <3>2 DEF HashChange, Typed, TypeOK
  <2>4. CASE /\ hash \notin {None, JobsURL} /\ UNCHANGED undo
             /\ IF dirty
                THEN wanted' = hash /\ hash' = doc.name /\ modal' = "discard" /\ UNCHANGED calls
                ELSE Send(Open(hash, "watch")) /\ UNCHANGED <<hash, modal, wanted>>
    <3>1. hash \in Names
      BY <2>4 DEF Typed, TypeOK, URLs
    <3>2. CASE dirty
      <4>1. doc.name \in Names
        BY <3>2, SaveCallGood DEF dirty, Typed
      <4> QED BY <1>1, <2>4, <3>1, <3>2, <4>1 DEF HashChange, Typed, TypeOK, Named, URLs
    <3>3. CASE ~dirty
      <4>1. calls' \in [Slots -> Call] /\ \A x \in Slots : Good(calls'[x])
        BY <2>4, <3>1, <3>3, Requests, SendStep DEF Whys
      <4>2. Named'
        BY <2>4, <3>3, <4>1, NamedBy DEF Typed, Named
      <4> QED BY <1>1, <2>4, <3>3, <4>1, <4>2 DEF HashChange, Typed, TypeOK
    <3> QED BY <3>2, <3>3
  <2> QED BY <1>1, <2>1, <2>2, <2>3, <2>4 DEF HashChange
<1>2. ASSUME NEW c \in Slots, Listed(c) PROVE Typed'
  <2>1. CASE route \in Names /\ Answer(c, Open(route, "mount")) /\ UNCHANGED hash
    <3>1. calls' \in [Slots -> Call] /\ \A x \in Slots : Good(calls'[x])
      BY <2>1, Requests, AnswerStep DEF Whys
    <3>2. Named'
      BY <1>2, <3>1, NamedBy DEF Listed, Typed, Named
    <3> QED BY <1>2, <2>1, <3>1, <3>2 DEF Listed, Typed, TypeOK
  <2>2. CASE Answer(c, Free) /\ (hash' \in Names \/ hash' = hash)
    <3>1. calls' \in [Slots -> Call] /\ \A x \in Slots : Good(calls'[x])
      BY <2>2, Requests, AnswerStep
    <3>2. Named'
      BY <1>2, <3>1, NamedBy DEF Listed, Typed, Named
    <3> QED BY <1>2, <2>2, <3>1, <3>2 DEF Listed, Typed, TypeOK, URLs
  <2> QED BY <1>2, <2>1, <2>2 DEF Listed
<1>3. ASSUME NEW c \in Slots, Opened(c) PROVE Typed'
  <2>1. calls' \in [Slots -> Call] /\ \A x \in Slots : Good(calls'[x])
    BY <1>3, Requests, AnswerStep DEF Opened
  <2>2. Named'
    BY <1>3, <2>1, NamedBy DEF Opened, Typed, Named
  <2>3. CASE calls[c].text = None
    BY <1>3, <2>1, <2>2, <2>3 DEF Opened, Typed, TypeOK
  <2>4. CASE calls[c].text # None
    <3>1. calls[c].name \in Names /\ calls[c].text \in Text
      BY <1>3, <2>4 DEF Opened, Typed, TypeOK, Named, Call
    <3>2. [name |-> calls[c].name, text |-> calls[c].text] \in Doc
      BY <3>1 DEF Doc
    <3>3. doc' \in Doc /\ undo' \in Text \cup {None} /\ saved' \in Text
      BY <1>3, <2>4, <3>1, <3>2, ReplaceStep DEF Opened, Typed
    <3> QED BY <1>3, <2>1, <2>2, <3>3 DEF Opened, Typed, TypeOK
  <2> QED BY <2>3, <2>4
<1>4. ASSUME NEW c \in Slots, Saved(c) \/ Rejected(c) PROVE Typed'
  <2>1. calls' \in [Slots -> Call] /\ \A x \in Slots : Good(calls'[x])
    BY <1>4, Requests, AnswerStep DEF Saved, Rejected
  <2>2. Named'
    BY <1>4, <2>1, NamedBy DEF Saved, Rejected, Typed, Named
  <2>3. saved' \in Text \cup {None}
    BY <1>4 DEF Saved, Rejected, Typed, TypeOK, Doc
  <2> QED BY <1>4, <2>1, <2>2, <2>3 DEF Saved, Rejected, Typed, TypeOK
<1>5. ASSUME NEW c \in Slots, Removed(c) PROVE Typed'
  <2>1. calls' \in [Slots -> Call] /\ \A x \in Slots : Good(calls'[x])
    BY <1>5, Phased, AnswerStep DEF Removed, Phases
  <2>2. Named'
    BY <1>5, <2>1, NamedBy DEF Removed, Typed, Named
  <2> QED BY <1>5, <2>1, <2>2 DEF Removed, Typed, TypeOK
<1>6. ASSUME NEW c \in Slots, RemoveEnds(c) PROVE Typed'
  <2>1. calls' \in [Slots -> Call] /\ \A x \in Slots : Good(calls'[x])
    BY <1>6, Requests, AnswerStep DEF RemoveEnds
  <2>2. modal' \in {modal, None} /\ hash' \in {hash, None} /\ wanted' = wanted
    BY <1>6 DEF RemoveEnds
  <2>3. Named'
    BY <2>1, <2>2, NoneAssumption, NamedBy DEF Typed, TypeOK, Named
  <2> QED BY <1>6, <2>1, <2>2, <2>3 DEF RemoveEnds, Typed, TypeOK, URLs
<1> QED BY <1>1, <1>2, <1>3, <1>4, <1>5, <1>6 DEF BrowserStep

(* The server's steps. *)
LEMMA ServerTyped == ASSUME Typed, ServerStep PROVE Typed'
<1>1. PICK c \in Slots : Serve(c) \/ Refuse(c)
  BY DEF ServerStep
<1>2. calls' \in [Slots -> Call] /\ \A x \in Slots : Good(calls'[x])
  BY <1>1, Phased, Read, AnswerStep DEF Serve, Refuse, Phases
<1>3. Named'
  BY <1>1, <1>2, NamedBy DEF Serve, Refuse, Typed, Named
<1>4. store' \in [Names -> Text \cup {None}]
  BY <1>1 DEF Serve, Refuse, Typed, TypeOK, Named
<1> QED BY <1>1, <1>2, <1>3, <1>4 DEF Serve, Refuse, Typed, TypeOK

-----------------------------------------------------------------------------
(* Whose texts.                                                            *)

(* Until an undo brought back the text of another template, a text goes    *)
(* under the name of the template it was written for, in the document, on  *)
(* the server and in the requests.                                         *)
OwnDoc == doc # None => doc.text[1] = doc.name
OwnStore == \A n \in Names : store[n] # None => store[n][1] = n
OwnCall(k) == k.kind \in {"open", "save"} /\ k.text # None => k.text[1] = k.name
OwnCalls == \A c \in Slots : OwnCall(calls[c])
OwnTexts == ~crossed => OwnDoc /\ OwnStore /\ OwnCalls

(* Requests of their own text stay so. *)
LEMMA OwnCallsStep ==
  ASSUME OwnCalls, NEW k, OwnCall(k), \E c \in Slots : Only(c, k)
  PROVE  OwnCalls'
BY DEF OwnCalls, OwnCall, Only

(* Every step keeps them. *)
LEMMA OwnStep == ASSUME Typed, OwnTexts, Next PROVE OwnTexts'
<1> SUFFICES ASSUME ~crossed' PROVE OwnDoc' /\ OwnStore' /\ OwnCalls'
  BY DEF OwnTexts
<1>1. CASE UserStep
  <2>1. ~crossed
    <3>1. CASE Undo
      BY <3>1 DEF Undo
    <3>2. CASE ~Undo
      <4>1. crossed' = crossed
        BY <1>1, <3>2 DEF UserStep, Edit, SwitchTab, Save, Discard, Delete, Cancel, Navigate, Create
      <4> QED BY <4>1
    <3> QED BY <3>1, <3>2
  <2>2. OwnDoc /\ OwnStore /\ OwnCalls
    BY <2>1 DEF OwnTexts
  <2>3. UNCHANGED store
    BY <1>1 DEF UserStep, Edit, Undo, SwitchTab, Save, Discard, Delete, Cancel, Navigate, Create
  <2>4. OwnStore'
    BY <2>2, <2>3 DEF OwnStore
  <2>5. CASE Edit
    <3>1. doc' = [doc EXCEPT !.text = <<doc.name, edits + 1>>] /\ doc # None /\ UNCHANGED calls
      BY <2>5 DEF Edit, Replace
    <3>2. doc'.text[1] = doc'.name
      BY <3>1 DEF Typed, TypeOK, Doc
    <3> QED BY <2>2, <2>4, <3>1, <3>2 DEF OwnDoc, OwnCalls
  <2>6. CASE Undo
    <3>1. doc' = [doc EXCEPT !.text = undo] /\ doc # None /\ undo[1] = doc.name /\ UNCHANGED calls
      BY <2>6 DEF Undo
    <3>2. doc'.text[1] = doc'.name
      BY <3>1 DEF Typed, TypeOK, Doc
    <3> QED BY <2>2, <2>4, <3>1, <3>2 DEF OwnDoc, OwnCalls
  <2>7. ASSUME NEW n \in Names, Create(n) PROVE OwnDoc' /\ OwnCalls'
    BY <2>2, <2>7 DEF Create, Replace, OwnDoc, OwnCalls
  <2>8. CASE SwitchTab \/ Cancel \/ \E u \in URLs : Navigate(u)
    <3>1. UNCHANGED <<doc, calls>>
      BY <2>8 DEF SwitchTab, Cancel, Navigate
    <3> QED BY <2>2, <2>4, <3>1 DEF OwnDoc, OwnCalls
  <2>9. CASE Save
    <3>1. doc # None /\ Send(SaveCall) /\ UNCHANGED doc
      BY <2>9 DEF Save, dirty
    <3>2. OwnCall(SaveCall)
      BY <2>2, <3>1 DEF OwnCall, OwnDoc, SaveCall, Request
    <3> QED BY <2>2, <2>4, <3>1, <3>2, SaveCallGood, SendStep, OwnCallsStep DEF OwnDoc, Typed
  <2>10. CASE Discard
    <3>1. wanted \in Names /\ Send(Open(wanted, "asked")) /\ UNCHANGED doc
      BY <2>10 DEF Discard, Typed, Named
    <3>2. OwnCall(Open(wanted, "asked")) /\ Good(Open(wanted, "asked"))
      BY <3>1, Requests DEF OwnCall, Open, Request, Whys
    <3> QED BY <2>2, <2>4, <3>1, <3>2, SendStep, OwnCallsStep DEF OwnDoc
  <2>11. CASE Delete
    <3>1. doc.name \in Names /\ Send(Request("delete", doc.name, None, "asked")) /\ UNCHANGED doc
      BY <2>11, SaveCallGood DEF Delete, Typed
    <3>2. /\ OwnCall(Request("delete", doc.name, None, "asked"))
          /\ Good(Request("delete", doc.name, None, "asked"))
      BY <3>1, Requests DEF OwnCall, Request
    <3> QED BY <2>2, <2>4, <3>1, <3>2, SendStep, OwnCallsStep DEF OwnDoc
  <2> QED BY <1>1, <2>4, <2>5, <2>6, <2>7, <2>8, <2>9, <2>10, <2>11 DEF UserStep
<1>2. ASSUME BrowserStep \/ ServerStep PROVE ~crossed
  BY <1>2 DEF BrowserStep, ServerStep, HashChange, Listed, Opened, Saved, Rejected, Removed,
         RemoveEnds, Serve, Refuse
<1>3. CASE HashChange
  <2>1. OwnDoc /\ OwnStore /\ OwnCalls /\ UNCHANGED <<doc, store>>
    BY <1>2, <1>3 DEF BrowserStep, OwnTexts, HashChange
  <2>2. UNCHANGED calls \/ Send(List) \/ (hash \in Names /\ Send(Open(hash, "watch")))
    <3>1. hash \in URLs
      BY DEF Typed, TypeOK
    <3>2. CASE /\ JobsURL \notin {hash, route}
               /\ hash \notin {None, NameOf(doc)}
      <4>1. hash \in Names
        BY <3>1, <3>2 DEF URLs
      <4>2. dirty \/ ~dirty
        OBVIOUS
      <4> QED BY <1>3, <3>2, <4>1, <4>2 DEF HashChange
    <3>3. CASE ~(/\ JobsURL \notin {hash, route}
                 /\ hash \notin {None, NameOf(doc)})
      BY <1>3, <3>3 DEF HashChange
    <3> QED BY <3>2, <3>3
  <2>3. OwnCall(List) /\ Good(List)
    BY Requests DEF OwnCall, List, Request
  <2>4. hash \in Names => OwnCall(Open(hash, "watch")) /\ Good(Open(hash, "watch"))
    BY Requests DEF OwnCall, Open, Request, Whys
  <2>5. OwnCalls'
    BY <2>1, <2>2, <2>3, <2>4, SendStep, OwnCallsStep DEF OwnCalls
  <2> QED BY <2>1, <2>5 DEF OwnDoc, OwnStore
<1>4. ASSUME NEW c \in Slots,
             \/ Listed(c) \/ Opened(c) \/ Saved(c) \/ Rejected(c) \/ Removed(c) \/ RemoveEnds(c)
             \/ Serve(c) \/ Refuse(c)
      PROVE  OwnDoc' /\ OwnStore' /\ OwnCalls'
  <2>1. OwnDoc /\ OwnStore /\ OwnCalls
    BY <1>2, <1>4 DEF BrowserStep, ServerStep, OwnTexts
  <2>2. OwnCall(Free) /\ Good(Free)
    BY Requests DEF OwnCall, Free, Request
  <2>3. \A p \in Phases : OwnCall([calls[c] EXCEPT !.phase = p]) /\ Good([calls[c] EXCEPT !.phase = p])
    BY <2>1, Phased DEF OwnCalls, OwnCall
  <2>4. CASE Listed(c)
    <3>1. UNCHANGED <<doc, store>> /\ (Answer(c, Free) \/ (route \in Names /\ Answer(c, Open(route, "mount"))))
      <4>1. UNCHANGED doc /\ UNCHANGED store
        BY <2>4 DEF Listed
      <4>2. Answer(c, Free) \/ (route \in Names /\ Answer(c, Open(route, "mount")))
        BY <2>4 DEF Listed
      <4> QED BY <4>1, <4>2
    <3>2. route \in Names => OwnCall(Open(route, "mount")) /\ Good(Open(route, "mount"))
      BY Requests DEF OwnCall, Open, Request, Whys
    <3>3. OwnCalls'
      BY <2>1, <2>2, <3>1, <3>2, AnswerStep, OwnCallsStep
    <3> QED BY <2>1, <3>1, <3>3 DEF OwnDoc, OwnStore
  <2>5. CASE Opened(c)
    <3>1. Answer(c, Free) /\ UNCHANGED store /\ calls[c].kind = "open"
      BY <2>5 DEF Opened
    <3>2. OwnCalls' /\ OwnStore'
      BY <2>1, <2>2, <3>1, AnswerStep, OwnCallsStep DEF OwnStore
    <3>3. \/ doc' = doc
          \/ /\ calls[c].text # None
             /\ doc' = [name |-> calls[c].name, text |-> calls[c].text]
      <4>1. CASE calls[c].text = None
        BY <2>5, <4>1 DEF Opened
      <4>2. CASE calls[c].text # None
        BY <2>5, <4>2 DEF Opened, Replace
      <4> QED BY <4>1, <4>2
    <3> QED BY <2>1, <3>1, <3>2, <3>3 DEF OwnDoc, OwnCalls, OwnCall
  <2>6. CASE Saved(c) \/ Rejected(c) \/ RemoveEnds(c)
    <3>1. Answer(c, Free) /\ UNCHANGED <<doc, store>>
      BY <2>6 DEF Saved, Rejected, RemoveEnds
    <3> QED BY <2>1, <2>2, <3>1, AnswerStep, OwnCallsStep DEF OwnDoc, OwnStore
  <2>7. CASE Removed(c)
    <3>1. Answer(c, [calls[c] EXCEPT !.phase = "list"]) /\ doc' = None /\ UNCHANGED store
      BY <2>7 DEF Removed
    <3> QED BY <2>1, <2>3, <3>1, AnswerStep, OwnCallsStep DEF OwnDoc, OwnStore, Phases
  <2>8. CASE Refuse(c)
    <3>1. Answer(c, [calls[c] EXCEPT !.phase = "refused"]) /\ UNCHANGED <<doc, store>>
      BY <2>8 DEF Refuse
    <3> QED BY <2>1, <2>3, <3>1, AnswerStep, OwnCallsStep DEF OwnDoc, OwnStore, Phases
  <2>9. CASE Serve(c)
    <3>1. UNCHANGED doc
      BY <2>9 DEF Serve
    <3>2. CASE calls[c].kind = "open"
      <4> DEFINE k == [kind |-> "open", phase |-> "served", name |-> calls[c].name,
                       text |-> store[calls[c].name], why |-> calls[c].why]
      <4>1. Answer(c, k) /\ UNCHANGED store
        BY <2>9, <3>2 DEF Serve
      <4>2. OwnCall(k) /\ Good(k)
        BY <2>1, <3>2, Read DEF OwnCall, OwnStore, Typed, Named
      <4> QED BY <2>1, <3>1, <4>1, <4>2, AnswerStep, OwnCallsStep DEF OwnDoc, OwnStore
    <3>3. CASE calls[c].kind \in {"save", "delete"}
      <4>1. Answer(c, [calls[c] EXCEPT !.phase = "served"])
        BY <2>9, <3>3 DEF Serve
      <4>2. OwnCalls'
        BY <2>1, <2>3, <4>1, AnswerStep, OwnCallsStep DEF Phases
      <4>3. \/ /\ calls[c].kind = "save"
               /\ store' = [store EXCEPT ![calls[c].name] = calls[c].text]
            \/ store' = [store EXCEPT ![calls[c].name] = None]
        BY <2>9, <3>3 DEF Serve
      <4>4. OwnStore'
        BY <2>1, <4>3 DEF OwnStore, OwnCalls, OwnCall, Typed, TypeOK
      <4> QED BY <2>1, <3>1, <4>2, <4>4 DEF OwnDoc
    <3> QED BY <2>9, <3>2, <3>3 DEF Serve
  <2> QED BY <1>4, <2>4, <2>5, <2>6, <2>7, <2>8, <2>9
<1> QED BY <1>1, <1>3, <1>4 DEF Next, BrowserStep, ServerStep

-----------------------------------------------------------------------------
(* A user who waits.                                                       *)

(* Until the user acts before everything has settled, a save or a delete   *)
(* is the only thing under way, what was read is what is there, a link is  *)
(* followed from no unsaved edits, and what the designer takes for saved   *)
(* is what the server has, or an answer is on its way.                     *)
Sole(c) == hash = route /\ \A x \in Slots \ {c} : IsFree(x)
SavingOf(c) ==
  /\ Sole(c)
  /\ doc # None /\ calls[c].name = doc.name /\ calls[c].text = doc.text
  /\ calls[c].phase = "served" => store[doc.name] = doc.text
Saving == \A c \in Slots : calls[c].kind = "save" => SavingOf(c)
Deleting == \A c \in Slots : calls[c].kind = "delete" => Sole(c)
OpeningOf(c) ==
  /\ calls[c].phase = "served" /\ calls[c].text # None => store[calls[c].name] = calls[c].text
  /\ calls[c].why = "watch" => ~dirty
Opening == \A c \in Slots : calls[c].kind = "open" => OpeningOf(c)
Agree == doc # None /\ saved # None => store[doc.name] = saved
Writing == \E c \in Slots : calls[c].kind \in {"save", "delete"} /\ calls[c].phase = "served"
Known == Agree \/ Writing
Calm == Saving /\ Deleting /\ Opening /\ Known
Waiting == ~raced => Calm

NoWrites == \A c \in Slots : calls[c].kind \notin {"save", "delete"}

(* Beside a read, and while a hashchange is due, nothing is written. *)
LEMMA Reading ==
  ASSUME Calm, hash # route \/ \E c \in Slots : calls[c].kind \in {"list", "open"}
  PROVE  NoWrites /\ Agree
<1>1. NoWrites
  BY DEF Calm, Saving, SavingOf, Deleting, Sole, IsFree, NoWrites
<1> QED BY <1>1 DEF Calm, Known, NoWrites, Writing

(* So it is when nothing is under way. *)
LEMMA Idle ==
  ASSUME Calm, Settled
  PROVE  Agree /\ \A c \in Slots : calls[c].kind = "free"
BY DEF Calm, Known, Writing, Settled, IsFree

(* Reads that begin or end. *)
LEMMA ReadingStep ==
  ASSUME NoWrites, NEW c \in Slots, NEW k, Only(c, k), k.kind \notin {"save", "delete"},
         Opening, UNCHANGED <<store, doc, saved>>, Agree,
         k.kind = "open" =>
           /\ k.phase = "served" /\ k.text # None => store[k.name] = k.text
           /\ k.why = "watch" => ~dirty
  PROVE  Calm'
<1>1. Saving' /\ Deleting'
  BY DEF NoWrites, Only, Saving, Deleting
<1>2. dirty' = dirty
  BY DEF dirty
<1>3. Opening'
  BY <1>2 DEF Only, Opening, OpeningOf
<1>4. Known'
  BY DEF Agree, Known
<1> QED BY <1>1, <1>3, <1>4 DEF Calm

(* Nothing is under way any more. *)
LEMMA Ended ==
  ASSUME NEW c \in Slots, Sole(c), Only(c, Free), Agree'
  PROVE  Calm'
<1>1. \A x \in Slots : calls'[x].kind = "free"
  BY DEF Sole, Only, IsFree, Free, Request
<1> QED BY <1>1 DEF Calm, Saving, Deleting, Opening, Known

(* The user's steps. *)
LEMMA UserWaiting == ASSUME Typed, Waiting, UserStep PROVE Waiting'
<1> SUFFICES ASSUME ~raced' PROVE Calm'
  BY DEF Waiting
<1>1. raced' = (raced \/ ~Settled) /\ UNCHANGED store
  BY DEF UserStep, Edit, Undo, SwitchTab, Save, Discard, Delete, Cancel, Navigate, Create, Acts
<1>2. Settled /\ Calm /\ hash = route
  BY <1>1 DEF Waiting, Settled
<1>3. Agree /\ NoWrites /\ \A c \in Slots : calls[c].kind = "free"
  BY <1>2, Idle DEF NoWrites
<1>4. ASSUME UNCHANGED calls, Agree' PROVE Calm'
  BY <1>3, <1>4 DEF Calm, Saving, Deleting, Opening, Known
<1>5. CASE Edit
  <2>1. doc # None /\ doc' = [doc EXCEPT !.text = <<doc.name, edits + 1>>] /\ UNCHANGED <<saved, calls>>
    BY <1>5 DEF Edit, Replace
  <2>2. doc'.name = doc.name
    BY <2>1 DEF Typed, TypeOK, Doc
  <2> QED BY <1>1, <1>3, <1>4, <2>1, <2>2 DEF Agree
<1>6. CASE Undo
  <2>1. doc # None /\ doc' = [doc EXCEPT !.text = undo] /\ UNCHANGED <<saved, calls>>
    BY <1>6 DEF Undo
  <2>2. doc'.name = doc.name
    BY <2>1 DEF Typed, TypeOK, Doc
  <2> QED BY <1>1, <1>3, <1>4, <2>1, <2>2 DEF Agree
<1>7. CASE SwitchTab \/ Cancel \/ \E u \in URLs : Navigate(u)
  <2>1. UNCHANGED <<doc, saved, calls>>
    BY <1>7 DEF SwitchTab, Cancel, Navigate
  <2> QED BY <1>1, <1>3, <1>4, <2>1 DEF Agree
<1>8. ASSUME NEW n \in Names, Create(n) PROVE Calm'
  <2>1. saved' = None /\ UNCHANGED calls
    BY <1>8 DEF Create
  <2> QED BY <1>4, <2>1 DEF Agree
<1>9. CASE Save
  <2>1. doc # None /\ Send(SaveCall) /\ UNCHANGED <<doc, saved, hash, route>>
    BY <1>9 DEF Save, dirty
  <2>2. PICK c \in Slots : Only(c, SaveCall)
    BY <2>1, SaveCallGood, SendStep DEF Typed
  <2>3. \A x \in Slots \ {c} : calls'[x].kind = "free"
    BY <1>3, <2>2 DEF Only
  <2>4. /\ calls'[c].kind = "save" /\ calls'[c].phase = "sent"
        /\ calls'[c].name = doc.name /\ calls'[c].text = doc.text
    BY <2>2 DEF Only, SaveCall, Request
  <2>5. Sole(c)' /\ SavingOf(c)'
    BY <1>2, <2>1, <2>3, <2>4 DEF Sole, SavingOf, IsFree
  <2>6. Saving' /\ Deleting' /\ Opening'
    BY <2>3, <2>4, <2>5 DEF Saving, Deleting, Opening
  <2> QED BY <1>1, <1>3, <2>1, <2>6 DEF Calm, Known, Agree
<1>10. CASE Discard
  <2>1. /\ wanted \in Names /\ Send(Open(wanted, "asked"))
        /\ UNCHANGED <<doc, saved>>
    BY <1>10 DEF Discard, Typed, Named
  <2>2. PICK c \in Slots : Only(c, Open(wanted, "asked"))
    BY <2>1, Requests, SendStep DEF Whys
  <2> QED BY <1>1, <1>2, <1>3, <2>1, <2>2, ReadingStep DEF Open, Request, Calm
<1>11. CASE Delete
  <2>1. /\ doc.name \in Names /\ Send(Request("delete", doc.name, None, "asked"))
        /\ UNCHANGED <<doc, saved, hash, route>>
    BY <1>11, SaveCallGood DEF Delete, Typed
  <2>2. PICK c \in Slots : Only(c, Request("delete", doc.name, None, "asked"))
    BY <2>1, Requests, SendStep
  <2>3. calls'[c].kind = "delete" /\ \A x \in Slots \ {c} : calls'[x].kind = "free"
    BY <1>3, <2>2 DEF Only, Request
  <2>4. Sole(c)'
    BY <1>2, <2>1, <2>3 DEF Sole, IsFree
  <2>5. Saving' /\ Deleting' /\ Opening'
    BY <2>3, <2>4 DEF Saving, Deleting, Opening
  <2> QED BY <1>1, <1>3, <2>1, <2>5 DEF Calm, Known, Agree
<1> QED BY <1>5, <1>6, <1>7, <1>8, <1>9, <1>10, <1>11 DEF UserStep

(* A hashchange, the list, and a template that arrives. *)
LEMMA ReadsWaiting ==
  ASSUME Typed, Calm, HashChange \/ \E c \in Slots : Listed(c) \/ Opened(c)
  PROVE  Calm'
<1>1. CASE HashChange
  <2>1. NoWrites /\ Agree /\ UNCHANGED <<store, doc, saved>>
    BY <1>1, Reading DEF HashChange
  <2>2. CASE UNCHANGED calls
    <3>1. dirty' = dirty
      BY <2>1 DEF dirty
    <3> QED BY <2>1, <2>2, <3>1
            DEF NoWrites, Calm, Saving, Deleting, Opening, OpeningOf, Known, Agree
  <2>3. CASE Send(List)
    <3>1. PICK c \in Slots : Only(c, List)
      BY <2>3, Requests, SendStep
    <3> QED BY <2>1, <3>1, ReadingStep DEF List, Request, Calm
  <2>4. CASE hash \in Names /\ ~dirty /\ Send(Open(hash, "watch"))
    <3>1. PICK c \in Slots : Only(c, Open(hash, "watch"))
      BY <2>4, Requests, SendStep DEF Whys
    <3> QED BY <2>1, <2>4, <3>1, ReadingStep DEF Open, Request, Calm
  <2>5. hash \in URLs
    BY DEF Typed, TypeOK
  <2>6. CASE JobsURL \notin {hash, route} /\ hash \notin {None, NameOf(doc)}
    <3>1. hash \in Names
      BY <2>5, <2>6 DEF URLs
    <3>2. UNCHANGED calls \/ (~dirty /\ Send(Open(hash, "watch")))
      BY <1>1, <2>6 DEF HashChange
    <3> QED BY <2>2, <2>4, <3>1, <3>2
  <2>7. CASE ~(JobsURL \notin {hash, route} /\ hash \notin {None, NameOf(doc)})
    <3>1. UNCHANGED calls \/ Send(List)
      BY <1>1, <2>7 DEF HashChange
    <3> QED BY <2>2, <2>3, <3>1
  <2> QED BY <2>6, <2>7
<1>2. ASSUME NEW c \in Slots, Listed(c) PROVE Calm'
  <2>1. calls[c].kind = "list"
    BY <1>2 DEF Listed
  <2>2. UNCHANGED store /\ UNCHANGED doc /\ UNCHANGED saved
    BY <1>2 DEF Listed
  <2>3. NoWrites /\ Agree
    BY <2>1, Reading
  <2>4. Answer(c, Free) \/ (route \in Names /\ Answer(c, Open(route, "mount")))
    BY <1>2 DEF Listed
  <2>5. CASE Answer(c, Free)
    <3>1. Only(c, Free)
      BY <2>5, Requests, AnswerStep
    <3> QED BY <2>2, <2>3, <3>1, ReadingStep DEF Free, Request, Calm
  <2>6. CASE route \in Names /\ Answer(c, Open(route, "mount"))
    <3>1. Only(c, Open(route, "mount"))
      BY <2>6, Requests, AnswerStep DEF Whys
    <3> QED BY <2>2, <2>3, <3>1, ReadingStep DEF Open, Request, Calm
  <2> QED BY <2>4, <2>5, <2>6
<1>3. ASSUME NEW c \in Slots, Opened(c) PROVE Calm'
  <2>1. /\ calls[c].kind = "open" /\ calls[c].phase = "served" /\ Answer(c, Free)
        /\ UNCHANGED store
    BY <1>3 DEF Opened
  <2>2. NoWrites /\ Agree /\ OpeningOf(c)
    BY <2>1, Reading DEF Calm, Opening
  <2>3. Only(c, Free)
    BY <2>1, Requests, AnswerStep
  <2>4. CASE calls[c].text = None
    <3>1. UNCHANGED <<doc, saved>>
      BY <1>3, <2>4 DEF Opened
    <3> QED BY <2>1, <2>2, <2>3, <3>1, ReadingStep DEF Free, Request, Calm
  <2>5. CASE calls[c].text # None
    <3>1. doc' = [name |-> calls[c].name, text |-> calls[c].text] /\ saved' = calls[c].text
      BY <1>3, <2>5 DEF Opened, Replace
    <3>2. store[calls[c].name] = calls[c].text
      BY <2>1, <2>2, <2>5 DEF OpeningOf
    <3>3. ~dirty' /\ Agree'
      BY <2>1, <3>1, <3>2 DEF dirty, Agree
    <3>4. Saving' /\ Deleting'
      BY <2>2, <2>3 DEF NoWrites, Only, Saving, Deleting, Free, Request
    <3>5. Opening'
      BY <2>1, <2>3, <3>3 DEF Only, Calm, Opening, OpeningOf, Free, Request
    <3> QED BY <3>3, <3>4, <3>5 DEF Calm, Known
  <2> QED BY <2>4, <2>5
<1> QED BY <1>1, <1>2, <1>3

(* The answers to a save and to a delete. *)
LEMMA WritesWaiting ==
  ASSUME Typed, Calm, NEW c \in Slots, Saved(c) \/ Rejected(c) \/ Removed(c) \/ RemoveEnds(c)
  PROVE  Calm'
<1>1. Sole(c) /\ UNCHANGED store
  BY DEF Calm, Saving, SavingOf, Deleting, Saved, Rejected, Removed, RemoveEnds
<1>2. calls[c].phase # "served" => Agree
  BY <1>1 DEF Calm, Known, Writing, Sole, IsFree
<1>3. CASE Saved(c)
  <2>1. /\ calls[c].kind = "save" /\ calls[c].phase = "served" /\ Answer(c, Free) /\ UNCHANGED doc
        /\ saved' = IF doc = None THEN None ELSE doc.text
    BY <1>3 DEF Saved
  <2>2. store[doc.name] = doc.text
    BY <2>1 DEF Calm, Saving, SavingOf
  <2>3. Agree' /\ Only(c, Free)
    BY <1>1, <2>1, <2>2, Requests, AnswerStep DEF Agree
  <2> QED BY <1>1, <2>3, Ended
<1>4. CASE Rejected(c) \/ RemoveEnds(c)
  <2>1. calls[c].phase # "served" /\ Answer(c, Free) /\ UNCHANGED <<doc, saved>>
    BY <1>4 DEF Rejected, RemoveEnds
  <2>2. Agree' /\ Only(c, Free)
    BY <1>1, <1>2, <2>1, Requests, AnswerStep DEF Agree
  <2> QED BY <1>1, <2>2, Ended
<1>5. CASE Removed(c)
  <2>1. /\ calls[c].kind = "delete" /\ doc' = None /\ UNCHANGED <<hash, route>>
        /\ Answer(c, [calls[c] EXCEPT !.phase = "list"])
    BY <1>5 DEF Removed
  <2>2. /\ calls'[c].kind = "delete" /\ \A x \in Slots \ {c} : calls'[x] = calls[x]
    <3>1. "list" \in Phases
      BY DEF Phases
    <3>2. Only(c, [calls[c] EXCEPT !.phase = "list"])
      BY <2>1, <3>1, Phased, AnswerStep
    <3>3. [calls[c] EXCEPT !.phase = "list"].kind = "delete"
      BY <2>1, <3>1, Phased
    <3> QED BY <3>2, <3>3 DEF Only
  <2>3. Sole(c)' /\ \A x \in Slots \ {c} : calls'[x].kind = "free"
    BY <1>1, <2>1, <2>2 DEF Sole, IsFree
  <2> QED BY <2>1, <2>2, <2>3 DEF Calm, Saving, Deleting, Opening, Known, Agree
<1> QED BY <1>3, <1>4, <1>5

(* The server's steps. *)
LEMMA ServerWaiting == ASSUME Typed, Calm, ServerStep PROVE Calm'
<1>1. PICK c \in Slots : Serve(c) \/ Refuse(c)
  BY DEF ServerStep
<1>2. calls[c].phase = "sent" /\ UNCHANGED <<doc, saved, hash, route>>
  BY <1>1 DEF Serve, Refuse
<1>3. CASE calls[c].kind = "open"
  <2> DEFINE k == [kind |-> "open", phase |-> "served", name |-> calls[c].name,
                   text |-> store[calls[c].name], why |-> calls[c].why]
  <2>1. Answer(c, k) /\ UNCHANGED store
    BY <1>1, <1>3 DEF Serve, Refuse
  <2>2. Only(c, k) /\ NoWrites /\ Agree /\ OpeningOf(c)
    BY <1>3, <2>1, Read, AnswerStep, Reading DEF Calm, Opening
  <2>3. /\ k.kind = "open" /\ k.text = store[k.name] /\ k.why = calls[c].why
    OBVIOUS
  <2>4. k.why = "watch" => ~dirty
    BY <2>2, <2>3 DEF OpeningOf
  <2> HIDE DEF k
  <2> QED BY <1>2, <2>1, <2>2, <2>3, <2>4, ReadingStep DEF Calm
<1>4. CASE calls[c].kind \in {"save", "delete"}
  <2>1. Sole(c) /\ (calls[c].kind = "save" => SavingOf(c))
    BY <1>4 DEF Calm, Saving, SavingOf, Deleting
  <2>2. Agree
    BY <1>2, <2>1 DEF Calm, Known, Writing, Sole, IsFree
  <2>3. PICK p \in {"served", "refused"} :
          /\ Answer(c, [calls[c] EXCEPT !.phase = p])
          /\ p = "refused" => UNCHANGED store
          /\ p = "served" /\ calls[c].kind = "save" =>
               store' = [store EXCEPT ![calls[c].name] = calls[c].text]
    BY <1>1, <1>4 DEF Serve, Refuse
  <2>4. /\ calls'[c].kind = calls[c].kind /\ calls'[c].phase = p
        /\ calls'[c].name = calls[c].name /\ calls'[c].text = calls[c].text
        /\ \A x \in Slots \ {c} : calls'[x] = calls[x]
    <3> DEFINE k == [calls[c] EXCEPT !.phase = p]
    <3>1. p \in Phases
      BY DEF Phases
    <3>2. k = [kind |-> calls[c].kind, phase |-> p, name |-> calls[c].name,
               text |-> calls[c].text, why |-> calls[c].why]
      BY <3>1, Phased
    <3>3. Only(c, k)
      BY <2>3, <3>1, Phased, AnswerStep
    <3> HIDE DEF k
    <3> QED BY <3>2, <3>3 DEF Only
  <2>5. Sole(c)' /\ \A x \in Slots \ {c} : calls'[x].kind = "free"
    BY <1>2, <2>1, <2>4 DEF Sole, IsFree
  <2>6. calls[c].kind = "save" => SavingOf(c)'
    <3>1. calls[c].name \in Names
      BY <1>4 DEF Typed, Named
    <3> QED BY <1>2, <2>1, <2>3, <2>4, <2>5, <3>1 DEF SavingOf, Typed, TypeOK
  <2>7. Saving' /\ Deleting' /\ Opening'
    BY <1>4, <2>4, <2>5, <2>6 DEF Saving, Deleting, Opening
  <2>8. Known'
    <3>1. CASE p = "served"
      BY <1>4, <2>4, <3>1 DEF Known, Writing
    <3>2. CASE p = "refused"
      BY <1>2, <2>2, <2>3, <3>2 DEF Known, Agree
    <3> QED BY <3>1, <3>2
  <2> QED BY <2>7, <2>8 DEF Calm
<1> QED BY <1>1, <1>3, <1>4 DEF Serve, Refuse

-----------------------------------------------------------------------------

Inv == Typed /\ OwnTexts /\ Waiting

(* Every step keeps the invariant. *)
LEMMA InvStep == Inv /\ [Next]_vars => Inv'
<1> SUFFICES ASSUME Inv, [Next]_vars PROVE Inv'
  OBVIOUS
<1>1. CASE Next
  <2>1. Typed' /\ OwnTexts'
    BY <1>1, UserTyped, BrowserTyped, ServerTyped, OwnStep DEF Inv, Next
  <2>2. CASE UserStep
    BY <2>1, <2>2, UserWaiting DEF Inv
  <2>3. CASE BrowserStep \/ ServerStep
    <3>1. raced' = raced
      BY <2>3 DEF BrowserStep, ServerStep, HashChange, Listed, Opened, Saved, Rejected, Removed,
             RemoveEnds, Serve, Refuse
    <3>2. ASSUME Calm PROVE Calm'
      BY <2>3, <3>2, ReadsWaiting, WritesWaiting, ServerWaiting DEF Inv, BrowserStep
    <3> QED BY <2>1, <3>1, <3>2 DEF Inv, Waiting
  <2> QED BY <1>1, <2>2, <2>3 DEF Next
<1>2. CASE UNCHANGED vars
  BY <1>2
     DEF vars, Inv, Typed, TypeOK, Named, OwnTexts, OwnDoc, OwnStore, OwnCalls, OwnCall, Waiting,
         Calm, Saving, SavingOf, Deleting, Opening, OpeningOf, Sole, Known, Agree, Writing, IsFree,
         dirty
<1> QED BY <1>1, <1>2

(* The invariant holds from the start. *)
THEOREM InvHolds == Spec => []Inv
<1>1. Init => Inv
  <2> SUFFICES ASSUME Init PROVE Inv
    OBVIOUS
  <2>1. PICK u \in URLs : hash = u /\ route = u
    BY DEF Init
  <2>2. calls \in [Slots -> {Free, List}]
    BY DEF Init
  <2>3. \A c \in Slots : Good(calls[c]) /\ calls[c].kind \in {"free", "list"}
    BY <2>2, Requests DEF Free, List, Request
  <2>4. store \in [Names -> Text \cup {None}] /\ \A n \in Names : store[n][1] = n
    BY BoundAssumption DEF Init, Text
  <2>5. Typed
    <3>1. calls \in [Slots -> Call] /\ Named
      BY <2>2, <2>3, NoneAssumption DEF Init, Named, Good
    <3>2. edits \in 0..MaxEdits /\ {saved, undo} \subseteq Text \cup {None}
      BY BoundAssumption DEF Init
    <3>3. {raced, crossed} \subseteq BOOLEAN /\ doc = None /\ wanted = None /\ modal = None
      BY DEF Init
    <3> QED BY <2>1, <2>4, <3>1, <3>2, <3>3 DEF Typed, TypeOK
  <2>6. OwnTexts
    BY <2>3, <2>4 DEF Init, OwnTexts, OwnDoc, OwnStore, OwnCalls, OwnCall
  <2>7. Waiting
    BY <2>3 DEF Init, Waiting, Calm, Saving, Deleting, Opening, Known, Agree
  <2> QED BY <2>5, <2>6, <2>7 DEF Inv
<1> QED BY <1>1, InvStep, PTL DEF Spec

(* Type correctness. *)
THEOREM TypeCorrect == Spec => []TypeOK
<1>1. Inv => TypeOK
  BY DEF Inv, Typed
<1> QED BY <1>1, InvHolds, PTL

(* No text is saved under another template's name, unless an undo brought  *)
(* it into the document.                                                   *)
THEOREM NamesKeepTheirTexts == Spec => []SavedUnderOwnName
<1>1. Inv => SavedUnderOwnName
  BY DEF Inv, OwnTexts, OwnStore, SavedUnderOwnName
<1> QED BY <1>1, InvHolds, PTL

(* For a user who waits, what looks saved is saved. *)
THEOREM CleanIsSaved == Spec => []CleanMeansSaved
<1>1. ASSUME Inv, ~raced, Settled, Unsaved PROVE dirty
  <2>1. Agree
    BY <1>1, Idle DEF Inv, Waiting
  <2>2. doc # None /\ doc.text \in Text /\ doc.text # store[doc.name]
    BY <1>1, SaveCallGood DEF Unsaved, Inv, Typed
  <2>3. doc.text # None
    BY <2>2, NoneAssumption
  <2>4. CASE saved # None
    BY <2>1, <2>2, <2>4 DEF Agree, dirty
  <2>5. CASE saved = None
    BY <2>2, <2>3, <2>5 DEF dirty
  <2> QED BY <2>4, <2>5
<1>2. Inv => CleanMeansSaved
  BY <1>1 DEF CleanMeansSaved
<1> QED BY <1>2, InvHolds, PTL

(* For a user who waits, following a link loses nothing. *)
THEOREM LinksLoseNothing == Spec => WaitingLosesNothing
<1>1. ASSUME Inv, [Next]_vars
      PROVE  [\A c \in Slots : ~raced /\ Opened(c) /\ Unsaved /\ doc' # doc =>
                              calls[c].why # "watch"]_vars
  <2> SUFFICES ASSUME NEW c \in Slots, ~raced, Opened(c), Unsaved PROVE calls[c].why # "watch"
    OBVIOUS
  <2>1. Calm /\ calls[c].kind = "open"
    BY <1>1 DEF Inv, Waiting, Opened
  <2>2. Agree
    BY <2>1, Reading
  <2>3. ~(calls[c].why = "watch" /\ dirty)
    BY <2>1 DEF Calm, Opening, OpeningOf
  <2>4. dirty
    <3>1. doc # None /\ doc.text # None /\ doc.text # store[doc.name]
      BY <1>1, SaveCallGood, NoneAssumption DEF Unsaved, Inv, Typed
    <3> QED BY <2>2, <3>1 DEF Agree, dirty
  <2> QED BY <2>3, <2>4
<1> QED BY <1>1, InvHolds, PTL DEF Spec, WaitingLosesNothing

=============================================================================
