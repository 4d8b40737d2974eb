---------------------------- MODULE PreviewPane ----------------------------
(***************************************************************************)
(* The live preview of the designer: render, exportPDF, save and open of   *)
(* web/designer/src/state/designer.ts as far as they touch the preview,    *)
(* the controls of components/PreviewPane.vue, the requests of api.ts and  *)
(* the object URLs they leave in the browser.  The pane can be left for    *)
(* the jobs page and come back while the store, its timer and its requests *)
(* live on.                                                                *)
(*                                                                         *)
(* A document is its template's name and a number fresh for each edit.     *)
(* Which template is open and what is saved is DesignerUI's matter.  An    *)
(* answer comes in any order with any outcome.  The ghost excused records  *)
(* the reasons for which the pane may show something else.                 *)
(***************************************************************************)
EXTENDS Integers, FiniteSets

CONSTANTS
  Names,     \* template names
  None,
  MaxEdits,  \* BOUND: edits
  BadJSON,   \* the edits whose example is not JSON
  URLs,      \* BOUND: object URLs alive at once
  MaxPages,  \* BOUND: pages of a document
  Slots      \* BOUND: requests in flight

ASSUME NoneAssumption == None \notin Names \cup URLs
ASSUME BoundAssumption ==
  MaxEdits \in Nat /\ MaxPages \in Nat /\ BadJSON \subseteq 0..MaxEdits /\ IsFiniteSet(URLs)

Doc == Names \X (0..MaxEdits)

(* What a render is of: a document, the example or defaults only, and HTML *)
(* (a page per URL) or PDF.                                                *)
Datas == {"example", "empty"}
Modes == {"html", "pdf"}
View == [doc : Doc, data : Datas, mode : Modes]

Outcomes == {"ok", "compile", "error", "unauthorized"}
Kinds == {"free", "render", "export", "save", "relist", "open", "delete"}
Call == [kind : {"render"}, of : View] \cup [kind : {"open"}, of : Names]
          \cup [kind : Kinds \ {"render", "open"}, of : {None}]
Free == [kind |-> "free", of |-> None]

(* diagnostics.value: empty, what went wrong with a view, or a rejected    *)
(* save.                                                                   *)
Diags == {"none", "compile", "json", "error", "rejected"}

VARIABLES
  doc, data, mode, auto,  \* doc, dataMode, previewMode, autoPreview
  live,      \* object URLs made and not revoked
  pageURLs,  \* the URLs of the HTML preview
  pdfURL,    \* the URL of the PDF preview, or None
  view,      \* the view that these show
  expiring,  \* exported URLs whose 30 seconds are running
  diag,      \* diagnostics
  about,     \* the view that diagnostics are about
  busy,
  timer,     \* the debounce timer is set
  mounted,   \* the pane is there
  calls,     \* requests in flight
  edits,
  excused    \* the pane may show something else than the document

settings == <<data, mode, auto, mounted, edits>>
previews == <<live, pageURLs, pdfURL, view, expiring>>
verdict == <<diag, about>>
vars == <<doc, settings, previews, verdict, busy, timer, calls, excused>>

InFlight == {c \in Slots : calls[c].kind # "free"}
PdfURLs == {pdfURL} \ {None}
Wanted == [doc |-> doc, data |-> data, mode |-> mode]
Quiet == InFlight = {} /\ ~timer

(* What the pane shows. *)
Shown ==
  IF diag # "none" THEN about
  ELSE IF mode = "html" /\ pageURLs # {} THEN view
  ELSE IF mode = "pdf" /\ pdfURL # None THEN view
  ELSE None

Init ==
  /\ doc = None
  /\ data = "example" /\ mode = "html" /\ auto = TRUE
  /\ live = {} /\ pageURLs = {} /\ pdfURL = None /\ view = None /\ expiring = {}
  /\ diag = "none" /\ about = None
  /\ busy = FALSE /\ timer = FALSE /\ mounted = TRUE
  /\ calls = [c \in Slots |-> Free]
  /\ edits = 0
  /\ excused = FALSE

-----------------------------------------------------------------------------
(* What the actions share.                                                 *)

Send(kind, of) == \E c \in Slots \ InFlight : calls' = [calls EXCEPT ![c] = [kind |-> kind, of |-> of]]
Answered(c) == calls' = [calls EXCEPT ![c] = Free]

(* releasePreviews. *)
Release ==
  /\ live' = live \ (pageURLs \cup PdfURLs)
  /\ pageURLs' = {} /\ pdfURL' = None /\ view' = None

(* render() of document d in mode m: an example that is not JSON ends it   *)
(* before there is a request.  Renders that overlap may end in any order.  *)
Render(d, m) ==
  LET of == [doc |-> d, data |-> data, mode |-> m] IN
  /\ excused' = (\E c \in InFlight : calls[c].kind \in {"render", "export"})
  /\ IF data = "example" /\ d[2] \in BadJSON
     THEN diag' = "json" /\ about' = of /\ busy' = FALSE /\ UNCHANGED calls
     ELSE busy' = TRUE /\ Send("render", of) /\ UNCHANGED verdict

(* The watcher of the document and of dataMode. *)
Watch ==
  /\ timer' = (timer \/ auto)
  /\ excused' = (excused \/ ~auto)

-----------------------------------------------------------------------------
(* The user.                                                               *)

Edit ==
  /\ doc # None /\ mounted
  /\ edits < MaxEdits
  /\ edits' = edits + 1
  /\ doc' = <<doc[1], edits + 1>>
  /\ Watch
  /\ UNCHANGED <<data, mode, auto, previews, verdict, busy, mounted,
                 calls>>

SetData(d) ==
  /\ doc # None /\ mounted /\ d # data
  /\ data' = d
  /\ Watch
  /\ UNCHANGED <<doc, mode, auto, previews, verdict, busy, mounted,
                 calls, edits>>

(* Variant: no watch(previewMode, render). *)
SetModeOnly(m) ==
  /\ doc # None /\ mounted /\ m # mode
  /\ mode' = m
  /\ UNCHANGED <<doc, data, auto, previews, verdict, busy, timer,
                 mounted, calls, edits, excused>>

(* HTML or PDF: rendered at once. *)
SetMode(m) ==
  /\ doc # None /\ mounted /\ m # mode
  /\ mode' = m
  /\ Render(doc, m)
  /\ UNCHANGED <<doc, data, auto, previews, timer, mounted, edits>>

SetAuto ==
  /\ doc # None /\ mounted
  /\ auto' = ~auto
  /\ UNCHANGED <<doc, data, mode, previews, verdict, busy, timer,
                 mounted, calls, edits, excused>>

(* Ctrl+Enter, which unlike the button does not look at busy. *)
RenderNow ==
  /\ doc # None /\ mounted
  /\ Render(doc, mode)
  /\ UNCHANGED <<doc, settings, previews, timer>>

(* exportPDF, of the document in any mode. *)
ExportPDF ==
  /\ doc # None /\ mounted /\ ~busy
  /\ IF data = "example" /\ doc[2] \in BadJSON
     THEN UNCHANGED <<busy, calls, excused>>
     ELSE /\ busy' = TRUE
          /\ Send("export", None)
          /\ excused' = (excused \/ InFlight # {})
  /\ UNCHANGED <<doc, settings, previews, verdict, timer>>

Save ==
  /\ doc # None /\ mounted /\ ~busy
  /\ busy' = TRUE
  /\ Send("save", None)
  /\ UNCHANGED <<doc, settings, previews, verdict, timer, excused>>

(* Another template is asked for, or the open one deleted. *)
Ask(kind, n) ==
  /\ mounted
  /\ kind = "delete" => doc # None
  /\ Send(kind, n)
  /\ UNCHANGED <<doc, settings, previews, verdict, busy, timer, excused>>

(* create: the seed of a new template, rendered at once. *)
Create(n) ==
  /\ mounted
  /\ doc' = <<n, 0>>
  /\ timer' = (timer \/ (auto /\ doc' # doc))
  /\ Render(<<n, 0>>, mode)
  /\ UNCHANGED <<settings, previews>>

(* To the jobs page, and back: the store still has the document, and no    *)
(* preview of it until something renders.                                  *)
Leave ==
  /\ mounted
  /\ mounted' = FALSE
  /\ Release
  /\ excused' = TRUE
  /\ UNCHANGED <<doc, data, mode, auto, expiring, verdict, busy, timer, calls, edits>>

Return ==
  /\ ~mounted
  /\ mounted' = TRUE
  /\ UNCHANGED <<doc, data, mode, auto, previews, verdict, busy,
                 timer, calls, edits, excused>>

-----------------------------------------------------------------------------
(* The browser.                                                            *)

TimerFires ==
  /\ timer
  /\ timer' = FALSE
  /\ IF doc = None THEN UNCHANGED <<busy, calls, verdict, excused>> ELSE Render(doc, mode)
  /\ UNCHANGED <<doc, settings, previews>>

(* The 30 seconds of an exported URL are over. *)
Expire(u) ==
  /\ u \in expiring
  /\ expiring' = expiring \ {u}
  /\ live' = live \ {u}
  /\ UNCHANGED <<doc, settings, pageURLs, pdfURL, view, verdict, busy, timer, calls, excused>>

(* Variant: the preview before is not released. *)
RenderedOver(of) ==
  \E made \in SUBSET (URLs \ live) :
    /\ Cardinality(made) \in 1..(IF of.mode = "html" THEN MaxPages ELSE 1)
    /\ live' = live \cup made
    /\ view' = of
    /\ IF of.mode = "html" THEN pageURLs' = made /\ pdfURL' = None
                           ELSE pageURLs' = {} /\ pdfURL' \in made

(* The previews of a render that succeeded take the place of those before. *)
Rendered(of) ==
  \E made \in SUBSET (URLs \ live) :
    /\ Cardinality(made) \in 1..(IF of.mode = "html" THEN MaxPages ELSE 1)
    /\ live' = (live \ (pageURLs \cup PdfURLs)) \cup made
    /\ view' = of
    /\ IF of.mode = "html" THEN pageURLs' = made /\ pdfURL' = None
                           ELSE pageURLs' = {} /\ pdfURL' \in made

(* render: a 401 is left to the key dialog; the rest is said in the pane. *)
RenderEnds(c, outcome) ==
  /\ calls[c].kind = "render"
  /\ Answered(c)
  /\ busy' = FALSE
  /\ IF outcome = "ok"
     THEN Rendered(calls[c].of) /\ diag' = "none" /\ about' = None
     ELSE UNCHANGED <<live, pageURLs, pdfURL, view>>
  /\ CASE outcome \in {"compile", "error"} -> diag' = outcome /\ about' = calls[c].of
       [] outcome = "unauthorized" -> UNCHANGED verdict
       [] OTHER -> TRUE
  /\ excused' = (excused \/ outcome = "unauthorized")
  /\ UNCHANGED <<doc, settings, expiring, timer>>

(* Variant: what fails leaves busy behind. *)
ExportEndsBusy(c, outcome) ==
  /\ calls[c].kind = "export"
  /\ Answered(c)
  /\ busy' = (outcome # "ok")
  /\ IF outcome = "ok"
     THEN \E u \in URLs \ live : live' = live \cup {u} /\ expiring' = expiring \cup {u}
     ELSE UNCHANGED <<live, expiring>>
  /\ IF outcome = "compile" THEN diag' = "compile" /\ about' = None ELSE UNCHANGED verdict
  /\ excused' = (excused \/ outcome = "compile")
  /\ UNCHANGED <<doc, settings, pageURLs, pdfURL, view, timer>>

(* exportPDF: a download, a diagnostic, or nothing at all. *)
ExportEnds(c, outcome) ==
  /\ calls[c].kind = "export"
  /\ Answered(c)
  /\ busy' = FALSE
  /\ IF outcome = "ok"
     THEN \E u \in URLs \ live : live' = live \cup {u} /\ expiring' = expiring \cup {u}
     ELSE UNCHANGED <<live, expiring>>
  /\ IF outcome = "compile" THEN diag' = "compile" /\ about' = None ELSE UNCHANGED verdict
  /\ excused' = (excused \/ outcome = "compile")
  /\ UNCHANGED <<doc, settings, pageURLs, pdfURL, view, timer>>

(* save: accepted, it clears the diagnostics of the preview and reads the  *)
(* list before busy ends; rejected, it puts its own in their place.        *)
SaveEnds(c, outcome) ==
  /\ calls[c].kind = "save"
  /\ IF outcome = "ok" THEN calls' = [calls EXCEPT ![c].kind = "relist"] ELSE Answered(c)
  /\ busy' = (busy /\ outcome = "ok")
  /\ CASE outcome = "ok" -> diag' = "none" /\ about' = None
       [] outcome = "compile" -> diag' = "rejected" /\ about' = None
       [] OTHER -> UNCHANGED verdict
  /\ excused' = (excused \/ outcome = "compile" \/ (outcome = "ok" /\ diag # "none"))
  /\ UNCHANGED <<doc, settings, previews, timer>>

Relisted(c) ==
  /\ calls[c].kind = "relist"
  /\ Answered(c)
  /\ busy' = FALSE
  /\ UNCHANGED <<doc, settings, previews, verdict, timer, excused>>

(* open: the document is replaced and rendered; another text sets the      *)
(* timer, too.                                                             *)
Opened(c) ==
  /\ calls[c].kind = "open"
  /\ LET d == <<calls[c].of, 0>>
         of == [Wanted EXCEPT !.doc = d]
     IN /\ doc' = d
        /\ timer' = (timer \/ (auto /\ d # doc))
        /\ IF data = "example" /\ 0 \in BadJSON
           THEN diag' = "json" /\ about' = of /\ busy' = FALSE /\ Answered(c)
           ELSE /\ diag' = "none" /\ about' = None
                /\ busy' = TRUE
                /\ calls' = [calls EXCEPT ![c] = [kind |-> "render", of |-> of]]
  /\ excused' = (\E x \in InFlight : calls[x].kind \in {"render", "export"})
  /\ UNCHANGED <<settings, previews>>

(* remove. *)
Removed(c) ==
  /\ calls[c].kind = "delete"
  /\ Answered(c)
  /\ doc' = None
  /\ Release
  /\ UNCHANGED <<settings, expiring, verdict, busy, timer, excused>>

(* A 404, no network, no key: open and remove change nothing. *)
NotDone(c) ==
  /\ calls[c].kind \in {"open", "delete"}
  /\ Answered(c)
  /\ UNCHANGED <<doc, settings, previews, verdict, busy, timer, excused>>

UserStep ==
  \/ Edit \/ SetAuto \/ RenderNow \/ ExportPDF \/ Save \/ Leave \/ Return
  \/ \E d \in Datas : SetData(d)
  \/ \E m \in Modes : SetMode(m)
  \/ \E n \in Names : Create(n) \/ Ask("open", n)
  \/ Ask("delete", None)

BrowserStep ==
  \/ TimerFires
  \/ \E u \in URLs : Expire(u)
  \/ \E c \in Slots : \/ Opened(c) \/ Removed(c) \/ NotDone(c) \/ Relisted(c)
                      \/ \E o \in Outcomes : RenderEnds(c, o) \/ ExportEnds(c, o) \/ SaveEnds(c, o)

Next == UserStep \/ BrowserStep

Spec == Init /\ [][Next]_vars

-----------------------------------------------------------------------------
(* Properties.                                                             *)

(* Type correctness. *)
TypeOK ==
  /\ doc \in Doc \cup {None}
  /\ data \in Datas /\ mode \in Modes
  /\ live \cup pageURLs \cup expiring \cup PdfURLs \subseteq URLs
  /\ view \in View \cup {None}
  /\ diag \in Diags /\ about \in View \cup {None}
  /\ {auto, busy, timer, mounted, excused} \subseteq BOOLEAN
  /\ calls \in [Slots -> Call]
  /\ edits \in 0..MaxEdits

(* No object URL leaks and none is used or revoked after it was revoked:   *)
(* those alive are exactly the pages shown, the PDF shown and the exports  *)
(* whose time runs, and none of them is two of these.                      *)
UrlsAccounted ==
  /\ live = pageURLs \cup PdfURLs \cup expiring
  /\ pageURLs = {} \/ pdfURL = None
  /\ (pageURLs \cup PdfURLs) \cap expiring = {}

(* The buttons that busy disables come back: busy is set only while a      *)
(* request that will clear it is in flight.                                *)
BusyEnds == busy => \E c \in InFlight : calls[c].kind \in {"render", "export", "save", "relist"}

(* Once everything has ended the pane shows the document as it is, with    *)
(* the data and in the mode chosen, or what went wrong with just that.     *)
PreviewIsCurrent ==
  Quiet /\ mounted /\ doc # None /\ ~excused => Shown = Wanted

=============================================================================
