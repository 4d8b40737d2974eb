-------------------------- MODULE PreviewPaneProofs --------------------------
(***************************************************************************)
(* What the preview keeps for any templates, any number of requests in     *)
(* flight and any order and outcome of their answers: which object URLs    *)
(* are alive, when busy is set, and what the pane shows in the end.        *)
(***************************************************************************)
EXTENDS PreviewPane, FiniteSetTheorems, TLAPS

-----------------------------------------------------------------------------
(* Requests.                                                               *)

(* Sending takes a slot that was free. *)
LEMMA SendStep ==
  ASSUME TypeOK, NEW kind, NEW of, [kind |-> kind, of |-> of] \in Call, Send(kind, of)
  PROVE  /\ calls' \in [Slots -> Call]
         /\ \E c \in Slots : /\ calls[c].kind = "free"
                             /\ calls'[c] = [kind |-> kind, of |-> of]
                             /\ \A x \in Slots \ {c} : calls'[x] = calls[x]
<1>1. PICK c \in Slots \ InFlight : calls' = [calls EXCEPT ![c] = [kind |-> kind, of |-> of]]
  BY DEF Send
<1>2. calls[c].kind = "free"
  BY <1>1 DEF InFlight
<1> QED BY <1>1, <1>2 DEF TypeOK

(* An answer frees its slot. *)
LEMMA AnsweredStep ==
  ASSUME TypeOK, NEW c \in Slots, Answered(c)
  PROVE  /\ calls' \in [Slots -> Call] /\ calls'[c].kind = "free"
         /\ \A x \in Slots \ {c} : calls'[x] = calls[x]
BY DEF Answered, TypeOK, Free, Call, Kinds

NoRender == \A c \in Slots : calls[c].kind # "render"
(* A render of the view is in flight, and no other render is. *)
Only(c, of) ==
  /\ calls[c] = [kind |-> "render", of |-> of]
  /\ \A x \in Slots \ {c} : calls[x].kind # "render"

(* render: what went wrong is said at once, or a request is sent; and it   *)
(* is the only one unless the pane is excused.                             *)
LEMMA RenderStep ==
  ASSUME TypeOK, NEW d \in Doc, NEW m \in Modes, Render(d, m), data' = data
  PROVE  LET of == [doc |-> d, data |-> data, mode |-> m] IN
         /\ calls' \in [Slots -> Call] /\ diag' \in Diags /\ about' \in View \cup {None}
         /\ busy' \in BOOLEAN /\ excused' \in BOOLEAN
         /\ busy' => \E c \in Slots : calls'[c].kind = "render"
         /\ ~excused' => \/ diag' = "json" /\ about' = of /\ NoRender'
                         \/ \E c \in Slots : Only(c, of)'
<1> DEFINE of == [doc |-> d, data |-> data, mode |-> m]
<1>1. of \in View
  BY DEF TypeOK, View
<1>2. excused' = (\E c \in InFlight : calls[c].kind \in {"render", "export"})
  BY DEF Render
<1>3. excused' \in BOOLEAN /\ (~excused' => NoRender)
  BY <1>2 DEF InFlight, NoRender
<1>4. CASE data = "example" /\ d[2] \in BadJSON
  <2>1. diag' = "json" /\ about' = of /\ busy' = FALSE /\ UNCHANGED calls
    BY <1>4 DEF Render
  <2> QED BY <1>1, <1>3, <2>1 DEF TypeOK, Diags, NoRender
<1>5. CASE ~(data = "example" /\ d[2] \in BadJSON)
  <2>1. busy' = TRUE /\ Send("render", of) /\ UNCHANGED verdict
    BY <1>5 DEF Render
  <2> HIDE DEF of
  <2>2. /\ calls' \in [Slots -> Call]
        /\ \E c \in Slots : /\ calls[c].kind = "free"
                            /\ calls'[c] = [kind |-> "render", of |-> of]
                            /\ \A x \in Slots \ {c} : calls'[x] = calls[x]
    <3>1. [kind |-> "render", of |-> of] \in Call
      BY <1>1 DEF Call
    <3> QED BY <2>1, <3>1, SendStep
  <2>3. PICK c \in Slots : /\ calls'[c] = [kind |-> "render", of |-> of]
                           /\ \A x \in Slots \ {c} : calls'[x] = calls[x]
    BY <2>2
  <2>4. calls'[c].kind = "render"
    BY <2>3
  <2>5. ~excused' => \A x \in Slots \ {c} : calls'[x].kind # "render"
    BY <1>3, <2>3 DEF NoRender
  <2>6. ~excused' => Only(c, of)'
    BY <2>3, <2>5 DEF Only, of
  <2> QED BY <1>3, <2>1, <2>2, <2>4, <2>6 DEF TypeOK, verdict, of
<1> QED BY <1>4, <1>5

-----------------------------------------------------------------------------
(* Object URLs.                                                            *)

(* Releasing leaves the exports.  *)
LEMMA ReleaseStep ==
  ASSUME TypeOK, UrlsAccounted, Release, UNCHANGED expiring
  PROVE  /\ UrlsAccounted' /\ live' \cup pageURLs' \cup expiring' \cup PdfURLs' \subseteq URLs
         /\ view' = None
BY DEF TypeOK, UrlsAccounted, Release, PdfURLs

(* A successful render puts its own URLs in their place, at least one.     *)
LEMMA RenderedStep ==
  ASSUME TypeOK, UrlsAccounted, NEW of \in View, Rendered(of), UNCHANGED expiring
  PROVE  /\ UrlsAccounted' /\ live' \cup pageURLs' \cup expiring' \cup PdfURLs' \subseteq URLs
         /\ view' = of
         /\ IF of.mode = "html" THEN pageURLs' # {} ELSE pdfURL' # None
<1>1. PICK made \in SUBSET (URLs \ live) :
        /\ Cardinality(made) \in 1..(IF of.mode = "html" THEN MaxPages ELSE 1)
        /\ live' = (live \ (pageURLs \cup PdfURLs)) \cup made
        /\ view' = of
        /\ IF of.mode = "html" THEN pageURLs' = made /\ pdfURL' = None
                               ELSE pageURLs' = {} /\ pdfURL' \in made
  BY DEF Rendered
<1>2. live \ (pageURLs \cup PdfURLs) = expiring /\ expiring \subseteq live /\ live \subseteq URLs
  BY DEF TypeOK, UrlsAccounted
<1>3. CASE of.mode = "html"
  <2>1. Cardinality(made) >= 1
    BY <1>1, <1>3, BoundAssumption
  <2>2. made # {}
    BY <2>1, FS_EmptySet
  <2> QED BY <1>1, <1>2, <1>3, <2>2 DEF UrlsAccounted, PdfURLs
<1>4. CASE of.mode # "html"
  <2>1. Cardinality(made) = 1 /\ pdfURL' \in made /\ pageURLs' = {}
    BY <1>1, <1>4
  <2>2. IsFiniteSet(made)
    BY <1>1, BoundAssumption, FS_Subset
  <2>3. made = {pdfURL'}
    BY <2>1, <2>2, FS_Singleton
  <2>4. pdfURL' # None
    BY <1>1, <2>1, NoneAssumption
  <2> QED BY <1>1, <1>2, <1>4, <2>1, <2>3, <2>4 DEF UrlsAccounted, PdfURLs
<1> QED BY <1>3, <1>4

-----------------------------------------------------------------------------
(* What the pane shows.                                                    *)

(* Unless excused or about to render, the pane shows the document, and     *)
(* nothing is about to replace it, or just that render is in flight.       *)
Settling ==
  doc # None /\ ~excused /\ ~timer =>
    (Shown = Wanted /\ NoRender) \/ \E c \in Slots : Only(c, Wanted)

(* It stays so while document, settings, previews, diagnostics and renders *)
(* in flight stay.                                                         *)
LEMMA SettlingKept ==
  ASSUME Settling, UNCHANGED <<doc, data, mode, pageURLs, pdfURL, view>>,
         ~excused' => UNCHANGED verdict /\ ~excused, timer => timer',
         \A c \in Slots : calls[c].kind = "render" \/ calls'[c].kind = "render"
                            => calls'[c] = calls[c]
  PROVE  Settling'
<1> SUFFICES ASSUME doc' # None, ~excused', ~timer'
             PROVE  (Shown = Wanted /\ NoRender)' \/ \E c \in Slots : Only(c, Wanted)'
  BY DEF Settling
<1>1. Wanted' = Wanted /\ Shown' = Shown
  BY DEF Wanted, Shown, verdict
<1>2. CASE Shown = Wanted /\ NoRender
  BY <1>1, <1>2 DEF NoRender
<1>3. ASSUME NEW c \in Slots, Only(c, Wanted) PROVE Only(c, Wanted)'
  <2>1. calls[c].kind = "render"
    BY <1>3 DEF Only
  <2> QED BY <1>1, <1>3, <2>1 DEF Only
<1> QED BY <1>2, <1>3 DEF Settling

(* Rendering what is wanted settles it. *)
LEMMA SettlingByRender ==
  ASSUME TypeOK, NEW d \in Doc, NEW m \in Modes, Render(d, m),
         doc' = d, mode' = m, data' = data
  PROVE  Settling'
<1>1. Wanted' = [doc |-> d, data |-> data, mode |-> m]
  BY DEF Wanted
<1>2. CASE diag' = "json" /\ about' = Wanted' /\ NoRender'
  BY <1>2 DEF Settling, Shown
<1> QED BY <1>1, <1>2, RenderStep DEF Settling

Inv == TypeOK /\ UrlsAccounted /\ BusyEnds /\ Settling

(* Requests that keep or clear busy. *)
Clearing == {"render", "export", "save", "relist"}
(* A request whose end clears busy keeps BusyEnds.                         *)
LEMMA BusyBy ==
  ASSUME \E c \in Slots : calls'[c].kind \in Clearing
  PROVE  BusyEnds'
BY DEF BusyEnds, InFlight, Clearing

-----------------------------------------------------------------------------
(* The user's steps.                                                       *)

(* A change of the document or of its data waits for the timer, or excuses *)
(* the pane.                                                               *)
LEMMA WatchStep ==
  ASSUME Inv, Watch, UNCHANGED <<auto, mode, previews, verdict, busy, mounted, calls>>,
         doc' \in Doc, data' \in Datas, edits' \in 0..MaxEdits
  PROVE  Inv'
<1>1. TypeOK'
  BY DEF Inv, TypeOK, Watch, previews, verdict, PdfURLs
<1>2. UrlsAccounted' /\ BusyEnds'
  BY DEF Inv, UrlsAccounted, BusyEnds, previews, PdfURLs, InFlight
<1>3. Settling'
  BY DEF Inv, TypeOK, Settling, Watch
<1> QED BY <1>1, <1>2, <1>3 DEF Inv

(* An edit or another choice of data sets the timer or excuses the pane.   *)
LEMMA EditStep == ASSUME Inv, Edit \/ \E d \in Datas : SetData(d) PROVE Inv'
<1>1. CASE Edit
  <2>1. doc' \in Doc /\ edits' \in 0..MaxEdits
    BY <1>1, BoundAssumption DEF Edit, Inv, TypeOK, Doc
  <2> QED BY <1>1, <2>1, WatchStep DEF Edit, Inv, TypeOK
<1>2. ASSUME NEW d \in Datas, SetData(d) PROVE Inv'
  <2>1. doc' \in Doc /\ edits' \in 0..MaxEdits
    BY <1>2 DEF SetData, Inv, TypeOK
  <2> QED BY <1>2, <2>1, WatchStep DEF SetData
<1> QED BY <1>1, <1>2

(* A render for the user, the timer or a new document. *)
LEMMA RendersStep ==
  ASSUME Inv, NEW d \in Doc, NEW m \in Modes, Render(d, m), doc' = d, mode' = m,
         UNCHANGED <<data, auto, mounted, edits, previews>>, timer' \in BOOLEAN
  PROVE  Inv'
<1>1. TypeOK'
  BY RenderStep DEF Inv, TypeOK, previews, PdfURLs
<1>2. UrlsAccounted'
  BY DEF Inv, UrlsAccounted, previews, PdfURLs
<1>3. BusyEnds'
  BY RenderStep, BusyBy DEF Inv, BusyEnds, Clearing
<1> QED BY <1>1, <1>2, <1>3, SettlingByRender DEF Inv

(* The controls that render at once.                                       *)
LEMMA RenderingStep ==
  ASSUME Inv, RenderNow \/ (\E m \in Modes : SetMode(m)) \/ \E n \in Names : Create(n)
  PROVE  Inv'
<1>1. CASE RenderNow
  <2>1. doc \in Doc /\ mode \in Modes /\ timer \in BOOLEAN
    BY <1>1 DEF RenderNow, Inv, TypeOK
  <2> QED BY <1>1, <2>1, RendersStep DEF RenderNow, settings
<1>2. ASSUME NEW m \in Modes, SetMode(m) PROVE Inv'
  <2>1. doc \in Doc /\ timer \in BOOLEAN
    BY <1>2 DEF SetMode, Inv, TypeOK
  <2> QED BY <1>2, <2>1, RendersStep DEF SetMode
<1>3. ASSUME NEW n \in Names, Create(n) PROVE Inv'
  <2>1. <<n, 0>> \in Doc /\ mode \in Modes
    BY BoundAssumption DEF Doc, Inv, TypeOK
  <2>2. timer' \in BOOLEAN
    BY <1>3 DEF Create, Inv, TypeOK
  <2> QED BY <1>3, <2>1, <2>2, RendersStep DEF Create, settings
<1> QED BY <1>1, <1>2, <1>3

(* A request that is no render. *)
LEMMA SendsStep ==
  ASSUME Inv, NEW kind, NEW of, [kind |-> kind, of |-> of] \in Call, kind \notin {"free", "render"},
         Send(kind, of),
         UNCHANGED <<doc, settings, previews, verdict, timer>>,
         excused' \in BOOLEAN, ~excused' => ~excused,
         busy' = busy \/ (busy' = TRUE /\ kind \in Clearing)
  PROVE  Inv'
<1>1. /\ calls' \in [Slots -> Call]
      /\ \E c \in Slots : /\ calls[c].kind = "free"
                          /\ calls'[c] = [kind |-> kind, of |-> of]
                          /\ \A x \in Slots \ {c} : calls'[x] = calls[x]
  BY SendStep DEF Inv
<1>2. PICK c \in Slots : /\ calls[c].kind = "free"
                         /\ calls'[c].kind = kind
                         /\ \A x \in Slots \ {c} : calls'[x] = calls[x]
  BY <1>1
<1>3. TypeOK'
  BY <1>1 DEF Inv, TypeOK, settings, previews, verdict, PdfURLs
<1>4. UrlsAccounted'
  BY DEF Inv, UrlsAccounted, previews, PdfURLs
<1>5. BusyEnds'
  BY <1>2 DEF Inv, BusyEnds, InFlight, Clearing
<1>6. Settling'
  BY <1>2, SettlingKept DEF Inv, settings, previews
<1> QED BY <1>3, <1>4, <1>5, <1>6 DEF Inv

(* The other requests change no preview.                                   *)
LEMMA RequestStep ==
  ASSUME Inv, ExportPDF \/ Save \/ (\E n \in Names : Ask("open", n)) \/ Ask("delete", None)
  PROVE  Inv'
<1>1. CASE ExportPDF
  <2>1. CASE UNCHANGED <<busy, calls, excused>>
    <3>1. UNCHANGED vars
      BY <1>1, <2>1 DEF ExportPDF, vars
    <3> QED BY <3>1
            DEF vars, Inv, TypeOK, UrlsAccounted, BusyEnds, Settling, settings, previews,
                verdict, PdfURLs, InFlight, Shown, Wanted, NoRender, Only
  <2>2. CASE /\ busy' = TRUE /\ Send("export", None)
             /\ excused' = (excused \/ InFlight # {})
    <3>1. excused' \in BOOLEAN /\ (~excused' => ~excused)
      BY <2>2 DEF Inv, TypeOK
    <3> QED BY <1>1, <2>2, <3>1, SendsStep DEF ExportPDF, Call, Kinds, Clearing
  <2> QED BY <1>1, <2>1, <2>2 DEF ExportPDF
<1>2. CASE Save
  BY <1>2, SendsStep DEF Save, Call, Kinds, Clearing, Inv, TypeOK
<1>3. ASSUME NEW n \in Names, Ask("open", n) PROVE Inv'
  BY <1>3, SendsStep DEF Ask, Call, Kinds, Inv, TypeOK
<1>4. CASE Ask("delete", None)
  BY <1>4, SendsStep DEF Ask, Call, Kinds, Inv, TypeOK
<1> QED BY <1>1, <1>2, <1>3, <1>4

(* Auto switched, the pane left and come back to.                          *)
LEMMA PaneStep == ASSUME Inv, SetAuto \/ Leave \/ Return PROVE Inv'
<1>1. CASE SetAuto \/ Return
  <2>1. /\ UNCHANGED <<doc, data, mode, previews, verdict, busy, timer, calls, edits, excused>>
        /\ auto' \in BOOLEAN /\ mounted' \in BOOLEAN
    BY <1>1 DEF SetAuto, Return, Inv, TypeOK
  <2> QED BY <2>1
          DEF Inv, TypeOK, UrlsAccounted, BusyEnds, Settling, previews, verdict, PdfURLs,
              InFlight, Shown, Wanted, NoRender, Only
<1>2. CASE Leave
  <2>1. /\ UrlsAccounted' /\ live' \cup pageURLs' \cup expiring' \cup PdfURLs' \subseteq URLs
        /\ view' = None
    BY <1>2, ReleaseStep DEF Leave, Inv
  <2>2. TypeOK'
    BY <1>2, <2>1 DEF Leave, Inv, TypeOK, verdict
  <2>3. BusyEnds' /\ Settling'
    BY <1>2 DEF Leave, Inv, BusyEnds, InFlight, Settling
  <2> QED BY <2>1, <2>2, <2>3 DEF Inv
<1> QED BY <1>1, <1>2

-----------------------------------------------------------------------------
(* The browser's steps.                                                    *)

(* The debounce timer renders the document there is.                       *)
LEMMA TimerStep == ASSUME Inv, TimerFires PROVE Inv'
<1>1. CASE doc = None
  <2>1. UNCHANGED <<doc, settings, previews, verdict, busy, calls, excused>> /\ timer' = FALSE
    BY <1>1 DEF TimerFires
  <2> QED BY <1>1, <2>1
          DEF Inv, TypeOK, UrlsAccounted, BusyEnds, Settling, settings, previews, verdict,
              PdfURLs, InFlight
<1>2. CASE doc # None
  <2>1. doc \in Doc /\ mode \in Modes
    BY <1>2 DEF Inv, TypeOK
  <2> QED BY <1>2, <2>1, RendersStep DEF TimerFires, settings
<1> QED BY <1>1, <1>2

(* An export's URL is revoked when its time is over.                       *)
LEMMA ExpireStep == ASSUME Inv, NEW u \in URLs, Expire(u) PROVE Inv'
<1>1. UrlsAccounted' /\ live' \cup pageURLs' \cup expiring' \cup PdfURLs' \subseteq URLs
  BY DEF Expire, Inv, TypeOK, UrlsAccounted, PdfURLs
<1>2. TypeOK'
  BY <1>1 DEF Expire, Inv, TypeOK, settings, verdict
<1>3. BusyEnds'
  BY DEF Expire, Inv, BusyEnds, InFlight
<1>4. Settling'
  BY SettlingKept DEF Expire, Inv, settings
<1> QED BY <1>1, <1>2, <1>3, <1>4 DEF Inv

(* An answer that is no render's, or comes too late to count, changes no   *)
(* preview.                                                                *)
LEMMA AnswersStep ==
  ASSUME Inv, NEW c \in Slots, calls[c].kind # "render", calls'[c].kind # "render",
         calls' \in [Slots -> Call], \A x \in Slots \ {c} : calls'[x] = calls[x],
         UNCHANGED <<doc, settings, pageURLs, pdfURL, view, timer>>,
         excused' \in BOOLEAN, ~excused' => ~excused /\ UNCHANGED verdict
  PROVE  Settling'
BY SettlingKept DEF Inv, settings

(* A render answers: the old pages go, or what went wrong is said.         *)
LEMMA RenderEndsStep ==
  ASSUME Inv, NEW c \in Slots, NEW outcome \in Outcomes, RenderEnds(c, outcome)
  PROVE  Inv'
<1> DEFINE of == calls[c].of
<1>1. /\ calls' \in [Slots -> Call] /\ calls'[c].kind = "free"
      /\ \A x \in Slots \ {c} : calls'[x] = calls[x]
  BY AnsweredStep DEF RenderEnds, Inv
<1>2. busy' = FALSE /\ UNCHANGED <<doc, settings, expiring, timer>>
  BY DEF RenderEnds
<1>3. excused' = (excused \/ outcome = "unauthorized") /\ excused' \in BOOLEAN
  BY DEF RenderEnds, Inv, TypeOK
<1>4. of \in View /\ calls[c] = [kind |-> "render", of |-> of]
  BY DEF RenderEnds, Inv, TypeOK, Call, Kinds
<1>5. outcome = "ok" =>
        /\ diag' = "none" /\ about' = None /\ view' = of
        /\ IF of.mode = "html" THEN pageURLs' # {} ELSE pdfURL' # None
  BY <1>2, <1>4, RenderedStep DEF RenderEnds, Inv
<1>6. /\ UrlsAccounted' /\ live' \cup pageURLs' \cup expiring' \cup PdfURLs' \subseteq URLs
      /\ view' \in View \cup {None}
  <2>1. CASE outcome = "ok"
    BY <1>2, <1>4, <2>1, RenderedStep DEF RenderEnds, Inv
  <2>2. CASE outcome # "ok"
    <3>1. UNCHANGED <<live, pageURLs, pdfURL, view, expiring>>
      BY <1>2, <2>2 DEF RenderEnds
    <3> QED BY <3>1 DEF Inv, TypeOK, UrlsAccounted, PdfURLs
  <2> QED BY <2>1, <2>2
<1>7. /\ outcome \in {"compile", "error"} => diag' = outcome /\ about' = of
      /\ outcome = "unauthorized" => UNCHANGED verdict
  BY DEF RenderEnds
<1>8. TypeOK'
  <2>1. diag' \in Diags /\ about' \in View \cup {None}
    BY <1>4, <1>5, <1>7 DEF Outcomes, Diags, verdict, Inv, TypeOK
  <2> QED BY <1>1, <1>2, <1>3, <1>6, <2>1 DEF Inv, TypeOK, settings
<1>9. BusyEnds'
  BY <1>2 DEF BusyEnds
<1>10. Settling'
  <2>1. SUFFICES ASSUME doc' # None, ~excused', ~timer'
                 PROVE  (Shown = Wanted /\ NoRender)'
    BY DEF Settling
  <2>2. \E x \in Slots : Only(x, Wanted)
    <3>1. doc # None /\ ~excused /\ ~timer
      BY <1>2, <1>3, <2>1
    <3>2. calls[c].kind = "render"
      BY DEF RenderEnds
    <3> QED BY <3>1, <3>2 DEF Inv, Settling, NoRender
  <2>3. of = Wanted /\ \A x \in Slots \ {c} : calls[x].kind # "render"
    BY <1>4, <2>2 DEF Only
  <2>4. NoRender'
    BY <1>1, <2>3 DEF NoRender
  <2>5. Wanted' = Wanted /\ mode' = mode /\ of.mode = mode
    BY <1>2, <2>3 DEF Wanted, settings
  <2>6. outcome # "unauthorized"
    BY <1>3, <2>1
  <2>7. CASE outcome = "ok"
    BY <1>5, <2>3, <2>4, <2>5, <2>7 DEF Shown, Inv, TypeOK, Modes
  <2>8. CASE outcome \in {"compile", "error"}
    BY <1>7, <2>3, <2>4, <2>5, <2>8 DEF Shown
  <2> QED BY <2>6, <2>7, <2>8 DEF Outcomes
<1> QED BY <1>6, <1>8, <1>9, <1>10 DEF Inv

(* An export answers: a URL whose 30 seconds begin, or a diagnostic.       *)
LEMMA ExportEndsStep ==
  ASSUME Inv, NEW c \in Slots, NEW outcome \in Outcomes, ExportEnds(c, outcome)
  PROVE  Inv'
<1>1. /\ calls' \in [Slots -> Call] /\ calls'[c].kind = "free"
      /\ \A x \in Slots \ {c} : calls'[x] = calls[x]
  BY AnsweredStep DEF ExportEnds, Inv
<1>2. /\ busy' = FALSE /\ UNCHANGED <<doc, settings, pageURLs, pdfURL, view, timer>>
      /\ calls[c].kind = "export"
  BY DEF ExportEnds
<1>3. excused' \in BOOLEAN /\ (~excused' => ~excused /\ UNCHANGED verdict)
  BY DEF ExportEnds, Inv, TypeOK
<1>4. UrlsAccounted' /\ live' \cup pageURLs' \cup expiring' \cup PdfURLs' \subseteq URLs
  <2>1. CASE outcome = "ok"
    <3>1. PICK u \in URLs \ live : live' = live \cup {u} /\ expiring' = expiring \cup {u}
      BY <2>1 DEF ExportEnds
    <3> QED BY <1>2, <3>1 DEF Inv, TypeOK, UrlsAccounted, PdfURLs
  <2>2. CASE outcome # "ok"
    <3>1. UNCHANGED <<live, expiring>>
      BY <2>2 DEF ExportEnds
    <3> QED BY <1>2, <3>1 DEF Inv, TypeOK, UrlsAccounted, PdfURLs
  <2> QED BY <2>1, <2>2
<1>5. diag' \in Diags /\ about' \in View \cup {None}
  BY DEF ExportEnds, Inv, TypeOK, Diags, verdict
<1>6. TypeOK'
  BY <1>1, <1>2, <1>3, <1>4, <1>5 DEF Inv, TypeOK, settings
<1>7. BusyEnds'
  BY <1>2 DEF BusyEnds
<1>8. Settling'
  BY <1>1, <1>2, <1>3, AnswersStep
<1> QED BY <1>4, <1>6, <1>7, <1>8 DEF Inv

(* A save answers.                                                         *)
LEMMA SaveEndsStep ==
  ASSUME Inv, NEW c \in Slots, NEW outcome \in Outcomes, SaveEnds(c, outcome)
  PROVE  Inv'
<1>1. /\ calls' \in [Slots -> Call] /\ calls'[c].kind \in {"free", "relist"}
      /\ outcome = "ok" => calls'[c].kind = "relist"
      /\ \A x \in Slots \ {c} : calls'[x] = calls[x]
  <2>1. CASE outcome = "ok"
    <3>1. calls' = [calls EXCEPT ![c].kind = "relist"]
      BY <2>1 DEF SaveEnds
    <3>2. calls[c] = [kind |-> "save", of |-> None]
      BY DEF SaveEnds, Inv, TypeOK, Call
    <3>3. calls'[c] = [kind |-> "relist", of |-> None] /\ calls'[c] \in Call
      BY <3>1, <3>2 DEF Inv, TypeOK, Call, Kinds
    <3> QED BY <3>1, <3>3 DEF Inv, TypeOK
  <2>2. CASE outcome # "ok"
    BY <2>2, AnsweredStep DEF SaveEnds, Inv
  <2> QED BY <2>1, <2>2
<1>2. /\ busy' = (busy /\ outcome = "ok") /\ calls[c].kind = "save"
      /\ UNCHANGED <<doc, settings, previews, timer>>
  BY DEF SaveEnds
<1>3. excused' \in BOOLEAN /\ (~excused' => ~excused)
  BY DEF SaveEnds, Inv, TypeOK
<1>4. /\ outcome = "ok" => diag' = "none" /\ about' = None
      /\ outcome = "compile" => diag' = "rejected" /\ about' = None
      /\ outcome \notin {"ok", "compile"} => UNCHANGED verdict
  BY DEF SaveEnds
<1>5. TypeOK'
  <2>1. diag' \in Diags /\ about' \in View \cup {None}
    BY <1>4 DEF Inv, TypeOK, Diags, verdict
  <2>2. busy' \in BOOLEAN
    BY <1>2 DEF Inv, TypeOK
  <2> QED BY <1>1, <1>2, <1>3, <2>1, <2>2 DEF Inv, TypeOK, settings, previews, PdfURLs
<1>6. UrlsAccounted'
  BY <1>2 DEF Inv, UrlsAccounted, previews, PdfURLs
<1>7. BusyEnds'
  <2>1. CASE outcome = "ok"
    BY <1>1, <2>1, BusyBy DEF Clearing
  <2>2. CASE outcome # "ok"
    BY <1>2, <2>2 DEF BusyEnds
  <2> QED BY <2>1, <2>2
<1>8. Settling'
  <2>1. SUFFICES ASSUME doc' # None, ~excused', ~timer'
                 PROVE  (Shown = Wanted /\ NoRender)' \/ \E x \in Slots : Only(x, Wanted)'
    BY DEF Settling
  <2>2. outcome # "compile" /\ (outcome = "ok" => diag = "none")
    BY <2>1 DEF SaveEnds
  <2>3. Shown' = Shown /\ Wanted' = Wanted
    BY <1>2, <1>4, <2>2 DEF Shown, Wanted, settings, previews, verdict
  <2>4. CASE Shown = Wanted /\ NoRender
    BY <1>1, <2>3, <2>4 DEF NoRender
  <2>5. ASSUME NEW x \in Slots, Only(x, Wanted) PROVE Only(x, Wanted)'
    <3>1. x # c
      BY <1>2, <2>5 DEF Only
    <3> QED BY <1>1, <2>3, <2>5, <3>1 DEF Only
  <2> QED BY <1>2, <1>3, <2>1, <2>4, <2>5 DEF Inv, Settling
<1> QED BY <1>5, <1>6, <1>7, <1>8 DEF Inv

(* The list is read, nothing came of a request, or the document is gone.   *)
LEMMA OtherEndsStep ==
  ASSUME Inv, NEW c \in Slots, Relisted(c) \/ NotDone(c) \/ Removed(c)
  PROVE  Inv'
<1>1. /\ calls' \in [Slots -> Call] /\ calls'[c].kind = "free"
      /\ \A x \in Slots \ {c} : calls'[x] = calls[x]
  BY AnsweredStep DEF Relisted, NotDone, Removed, Inv
<1>2. calls[c].kind \in {"relist", "open", "delete"} /\ (calls[c].kind = "relist" => busy' = FALSE)
      /\ (busy' = FALSE \/ busy' = busy) /\ UNCHANGED <<settings, verdict, timer, excused>>
  BY DEF Relisted, NotDone, Removed
<1>3. BusyEnds'
  BY <1>1, <1>2 DEF Inv, BusyEnds, InFlight
<1>4. CASE Relisted(c) \/ NotDone(c)
  <2>1. UNCHANGED <<doc, previews>>
    BY <1>4 DEF Relisted, NotDone
  <2>2. TypeOK' /\ UrlsAccounted'
    BY <1>1, <1>2, <2>1
       DEF Inv, TypeOK, UrlsAccounted, settings, previews, verdict, PdfURLs
  <2>3. Settling'
    BY <1>1, <1>2, <2>1, AnswersStep DEF Inv, TypeOK, previews
  <2> QED BY <1>3, <2>2, <2>3 DEF Inv
<1>5. CASE Removed(c)
  <2>1. doc' = None /\ Release /\ UNCHANGED expiring
    BY <1>5 DEF Removed
  <2>2. /\ UrlsAccounted' /\ live' \cup pageURLs' \cup expiring' \cup PdfURLs' \subseteq URLs
        /\ view' = None
    BY <2>1, ReleaseStep DEF Inv
  <2>3. TypeOK'
    BY <1>1, <1>2, <2>1, <2>2 DEF Inv, TypeOK, settings, verdict
  <2> QED BY <1>3, <2>1, <2>2, <2>3 DEF Inv, Settling
<1> QED BY <1>4, <1>5

(* A template is there: it takes the document's place and is rendered.     *)
LEMMA OpenedStep == ASSUME Inv, NEW c \in Slots, Opened(c) PROVE Inv'
<1> DEFINE d == <<calls[c].of, 0>>
           of == [Wanted EXCEPT !.doc = d]
<1>1. calls[c].kind = "open" /\ calls[c].of \in Names
  BY DEF Opened, Inv, TypeOK, Call, Kinds
<1>2. d \in Doc
  BY <1>1, BoundAssumption DEF Doc
<1>3. doc' = d /\ timer' = (timer \/ (auto /\ d # doc)) /\ UNCHANGED <<settings, previews>>
      /\ excused' = (\E x \in InFlight : calls[x].kind \in {"render", "export"})
  BY DEF Opened
<1>4. excused' \in BOOLEAN /\ timer' \in BOOLEAN /\ (~excused' => NoRender)
  BY <1>3 DEF InFlight, NoRender, Inv, TypeOK
<1>5. of = Wanted' /\ of \in View
  <2>1. of = [doc |-> d, data |-> data, mode |-> mode]
    BY DEF Wanted
  <2>2. [doc |-> d, data |-> data, mode |-> mode] \in View
    BY <1>2 DEF View, Inv, TypeOK
  <2> QED BY <1>3, <2>1, <2>2 DEF Wanted, settings
<1>6. UrlsAccounted'
  BY <1>3 DEF Inv, UrlsAccounted, previews, PdfURLs
<1> HIDE DEF d, of
<1>7. CASE data = "example" /\ 0 \in BadJSON
  <2>1. diag' = "json" /\ about' = of /\ busy' = FALSE /\ Answered(c)
    BY <1>7 DEF Opened, d, of
  <2>2. /\ calls' \in [Slots -> Call] /\ calls'[c].kind = "free"
        /\ \A x \in Slots \ {c} : calls'[x] = calls[x]
    BY <2>1, AnsweredStep DEF Inv
  <2>3. TypeOK'
    BY <1>2, <1>3, <1>4, <1>5, <2>1, <2>2 DEF Inv, TypeOK, settings, previews, Diags, PdfURLs
  <2>4. BusyEnds'
    BY <2>1 DEF BusyEnds
  <2>5. Settling'
    BY <1>4, <1>5, <2>1, <2>2 DEF Settling, Shown, NoRender
  <2> QED BY <1>6, <2>3, <2>4, <2>5 DEF Inv
<1>8. CASE ~(data = "example" /\ 0 \in BadJSON)
  <2>1. /\ diag' = "none" /\ about' = None /\ busy' = TRUE
        /\ calls' = [calls EXCEPT ![c] = [kind |-> "render", of |-> of]]
    BY <1>8 DEF Opened, d, of
  <2>2. [kind |-> "render", of |-> of] \in Call
    BY <1>5 DEF Call
  <2>3. /\ calls' \in [Slots -> Call] /\ calls'[c] = [kind |-> "render", of |-> of]
        /\ \A x \in Slots \ {c} : calls'[x] = calls[x]
    BY <2>1, <2>2 DEF Inv, TypeOK
  <2>4. TypeOK'
    BY <1>2, <1>3, <1>4, <2>1, <2>3 DEF Inv, TypeOK, settings, previews, Diags, PdfURLs
  <2>5. BusyEnds'
    BY <2>3, BusyBy DEF Clearing
  <2>6. Settling'
    BY <1>4, <1>5, <2>3 DEF Settling, Only, NoRender
  <2> QED BY <1>6, <2>4, <2>5, <2>6 DEF Inv
<1> QED BY <1>7, <1>8

-----------------------------------------------------------------------------

(* Every step keeps the invariant. *)
LEMMA InvStep == Inv /\ [Next]_vars => Inv'
<1> SUFFICES ASSUME Inv, [Next]_vars PROVE Inv'
  OBVIOUS
<1>1. CASE UserStep
  BY <1>1, EditStep, RenderingStep, RequestStep, PaneStep DEF UserStep
<1>2. CASE BrowserStep
  BY <1>2, TimerStep, ExpireStep, RenderEndsStep, ExportEndsStep, SaveEndsStep, OtherEndsStep,
     OpenedStep DEF BrowserStep
<1>3. CASE UNCHANGED vars
  BY <1>3
     DEF vars, Inv, TypeOK, UrlsAccounted, BusyEnds, Settling, settings, previews, verdict,
         PdfURLs, InFlight, Shown, Wanted, NoRender, Only
<1> QED BY <1>1, <1>2, <1>3 DEF Next

(* The invariant holds. *)
THEOREM InvHolds == Spec => []Inv
<1>1. Init => Inv
  <2> SUFFICES ASSUME Init PROVE Inv
    OBVIOUS
  <2>1. calls \in [Slots -> Call]
    <3>1. Free \in Call
      BY DEF Free, Call, Kinds
    <3> QED BY <3>1 DEF Init
  <2>2. live \cup pageURLs \cup expiring \cup PdfURLs \subseteq URLs
    BY DEF Init, PdfURLs
  <2>3. /\ doc = None /\ data \in Datas /\ mode \in Modes /\ view = None
        /\ diag \in Diags /\ about = None
        /\ {auto, busy, timer, mounted, excused} \subseteq BOOLEAN
        /\ edits \in 0..MaxEdits
    <3>1. edits = 0 /\ 0 \in 0..MaxEdits
      BY BoundAssumption DEF Init
    <3>2. {auto, busy, timer, mounted, excused} \subseteq BOOLEAN
      BY DEF Init
    <3>3. doc = None /\ data \in Datas /\ mode \in Modes /\ view = None /\ diag \in Diags /\ about = None
      BY DEF Init, Datas, Modes, Diags
    <3> QED BY <3>1, <3>2, <3>3
  <2>4. TypeOK
    BY <2>1, <2>2, <2>3 DEF TypeOK
  <2>5. UrlsAccounted /\ BusyEnds /\ Settling
    BY DEF Init, UrlsAccounted, BusyEnds, Settling, PdfURLs
  <2> QED BY <2>4, <2>5 DEF Inv
<1> QED BY <1>1, InvStep, PTL DEF Spec

(* Type correctness. *)
THEOREM TypeCorrect == Spec => []TypeOK
BY InvHolds, PTL DEF Inv

(* Exactly the object URLs in use are alive. *)
THEOREM NoUrlLeaks == Spec => []UrlsAccounted
BY InvHolds, PTL DEF Inv

(* busy is set only while something that clears it is in flight. *)
THEOREM BusyIsCleared == Spec => []BusyEnds
BY InvHolds, PTL DEF Inv

(* Once everything has ended the pane shows the document, or what went     *)
(* wrong with it.                                                          *)
THEOREM PreviewSettles == Spec => []PreviewIsCurrent
<1>1. ASSUME Settling, Quiet, doc # None, ~excused PROVE Shown = Wanted
  <2>1. ~timer /\ \A c \in Slots : calls[c].kind = "free"
    BY <1>1 DEF Quiet, InFlight
  <2>2. ~\E c \in Slots : Only(c, Wanted)
    BY <2>1 DEF Only
  <2> QED BY <1>1, <2>1, <2>2 DEF Settling
<1>2. Inv => PreviewIsCurrent
  BY <1>1 DEF Inv, PreviewIsCurrent
<1> QED BY <1>2, InvHolds, PTL

=============================================================================
