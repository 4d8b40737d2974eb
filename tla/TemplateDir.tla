----------------------------- MODULE TemplateDir -----------------------------
(***************************************************************************)
(* One template in the templates directory: the designer saves and deletes *)
(* it (internal/api/designer.go) while renders of it read it               *)
(* (internal/render/render.go) and stamp the document with its version     *)
(* (TemplateVersion, internal/worker/worker.go).  Nothing locks the        *)
(* directory; a step is one system call.                                   *)
(*                                                                         *)
(* A template source is the set of keys it reads, a defaults file the set  *)
(* of keys it supplies.  The shared partials under components/ cannot be   *)
(* changed through the designer and are part of the source here.  The      *)
(* example file lives in another directory that no render reads.           *)
(***************************************************************************)
EXTENDS Integers

CONSTANTS
  Keys,      \* keys a template may read
  Savers,    \* goroutines serving PUT and DELETE .../templates/{name}
  Renders,   \* goroutines rendering the template
  Body,      \* the keys the rendered request supplies
  MaxSaves,  \* BOUND: designer calls
  Faults,    \* of BOOLEAN: with TRUE the process may crash and file
             \* operations of a save or a delete may fail
  Absent,    \* no file of that name
  Empty,     \* a file opened with O_TRUNC and not yet written
  Torn       \* a file written by two savers at once, bytes of both

ASSUME KeysAssumption == Body \subseteq Keys
ASSUME ContentAssumption ==
  /\ Absent # Empty /\ Absent # Torn /\ Empty # Torn
  /\ \A S \in SUBSET Keys : S \notin {Absent, Empty, Torn}
ASSUME BoundAssumption == MaxSaves \in Nat /\ Faults \subseteq BOOLEAN

(* The names in the directory, in the lexical order WalkDir visits them:   *)
(* <t>.defaults.json, <t>.defaults.json.tmp, <t>.typ, <t>.typ.tmp.         *)
Def == 1
DefTmp == 2
Typ == 3
TypTmp == 4
Names == {Def, DefTmp, Typ, TypTmp}
(* Variant: written in place. *)
TmpNone(n) == n
Tmp(n) == n + 1

Source == SUBSET Keys
Content == {Absent, Empty, Torn} \cup Source

VARIABLES
  file,    \* name -> content
  sv,      \* what each saver is doing
  rn,      \* what each render is doing
  saves,   \* designer calls so far
  faulty   \* there may be faults

vars == <<file, sv, rn, saves, faulty>>

(* A saver: pc "open", "write", "rename" of writeAtomic, "remove" of       *)
(* writeOrRemove, "unlinkTyp" and "unlinkDef" of designerDelete; what it   *)
(* was asked to save, which of the two files it is at, and the name its    *)
(* open file has by now, 0 for none.                                       *)
SaverPCs == {"idle", "open", "write", "rename", "remove", "unlinkTyp", "unlinkDef"}
Saver == [pc : SaverPCs, src : Source, def : {Absent} \cup Source,
          at : {Def, Typ}, fd : Names \cup {0}]
Asked(pc, src, def) == [pc |-> pc, src |-> src, def |-> def, at |-> Typ, fd |-> 0]
IdleSaver == Asked("idle", {}, Absent)
At(v, pc, fd) == [pc |-> pc, src |-> v.src, def |-> v.def, at |-> v.at, fd |-> fd]

(* A render: the defaults it read, the keys of its data.json, the names it *)
(* has still to copy, the source it staged, the source and defaults hashed *)
(* into the version it stamps, and whether it was alone with the directory *)
(* from beginning to end.                                                  *)
RenderPCs == {"idle", "defaults", "list", "copy", "stampTyp", "stampDef",
              "done", "failed", "unknown"}
Render == [pc : RenderPCs, used : Content, data : Source, left : SUBSET Names,
           src : Content, vsrc : Content, vdef : Content, calm : BOOLEAN]
Begun(pc, calm) == [pc |-> pc, used |-> Absent, data |-> {}, left |-> {},
                    src |-> Absent, vsrc |-> Absent, vdef |-> Absent, calm |-> calm]
IdleRender == Begun("idle", TRUE)

(* The three parts of a render: merging the defaults, copying the          *)
(* templates, hashing the version.                                         *)
Merged(v, pc, used, data) ==
  [pc |-> pc, used |-> used, data |-> data, left |-> v.left, src |-> v.src,
   vsrc |-> v.vsrc, vdef |-> v.vdef, calm |-> v.calm]
Copied(v, pc, left, src) ==
  [pc |-> pc, used |-> v.used, data |-> v.data, left |-> left, src |-> src,
   vsrc |-> v.vsrc, vdef |-> v.vdef, calm |-> v.calm]
Stamped(v, pc, vsrc, vdef) ==
  [pc |-> pc, used |-> v.used, data |-> v.data, left |-> v.left, src |-> v.src,
   vsrc |-> vsrc, vdef |-> vdef, calm |-> v.calm]

Exists(n) == file[n] # Absent
Supplied(d) == IF d = Absent THEN {} ELSE d

Init ==
  /\ file = [n \in Names |-> IF n = Typ THEN {} ELSE Absent]
  /\ sv = [s \in Savers |-> IdleSaver]
  /\ rn = [r \in Renders |-> IdleRender]
  /\ saves = 0
  /\ faulty \in Faults

-----------------------------------------------------------------------------
(* The designer.                                                           *)

(* Renders under way are no longer alone with the directory; one that      *)
(* starts while a saver is at work never is.                               *)
Disturb == rn' = [r \in Renders |-> [rn[r] EXCEPT !.calm = FALSE]]

(* Variant: no save gate. *)
PutUngated(s, src, def) ==
  /\ sv[s].pc = "idle"
  /\ saves < MaxSaves
  /\ sv' = [sv EXCEPT ![s] = Asked("open", src, def)]
  /\ saves' = saves + 1
  /\ Disturb
  /\ UNCHANGED file

(* designerPut up to the save gate: the source compiles against the        *)
(* defaults of the same request, or nothing is written.                    *)
Put(s, src, def) ==
  /\ sv[s].pc = "idle"
  /\ saves < MaxSaves
  /\ src \subseteq Supplied(def)
  /\ sv' = [sv EXCEPT ![s] = Asked("open", src, def)]
  /\ saves' = saves + 1
  /\ Disturb
  /\ UNCHANGED file

(* writeAtomic: os.WriteFile opens the temporary name, which two savers of *)
(* the same template share, with O_CREATE and O_TRUNC ...                  *)
Open(s) ==
  /\ sv[s].pc = "open"
  /\ file' = [file EXCEPT ![Tmp(sv[s].at)] = Empty]
  /\ sv' = [sv EXCEPT ![s] = At(sv[s], "write", Tmp(sv[s].at))]
  /\ UNCHANGED <<rn, saves>>

(* ... writes from offset 0, possibly over what another saver wrote and    *)
(* renamed meanwhile, or into a file that has lost its name ...            *)
Write(s) ==
  /\ sv[s].pc = "write"
  /\ LET n == sv[s].fd
         c == IF sv[s].at = Typ THEN sv[s].src ELSE sv[s].def
     IN IF n = 0
        THEN UNCHANGED file
        ELSE \E b \in {c} \cup (IF file[n] = Empty THEN {} ELSE {Torn}) :
               file' = [file EXCEPT ![n] = b]
  /\ sv' = [sv EXCEPT ![s] = At(sv[s], "rename", 0)]
  /\ UNCHANGED <<rn, saves>>

(* Variant: the defaults are not saved. *)
NextFileNone(v) == IdleSaver

(* Where designerPut goes next: after the source the defaults, written or  *)
(* removed; after the defaults the answer.                                 *)
NextFile(v) ==
  IF v.at = Def THEN IdleSaver
  ELSE [pc |-> IF v.def = Absent THEN "remove" ELSE "open",
        src |-> v.src, def |-> v.def, at |-> Def, fd |-> v.fd]

(* What the savers have open when name n becomes name m, or none (0). *)
Moved(n, m) ==
  [q \in Savers |-> [sv[q] EXCEPT !.fd = IF @ = n THEN m ELSE IF @ = m THEN 0 ELSE @]]

(* ... and renames whatever the temporary name stands for by then.  When   *)
(* it is gone: a source is answered with a 500, defaults are only logged.  *)
Rename(s) ==
  /\ sv[s].pc = "rename"
  /\ LET f == sv[s].at IN
     IF Exists(Tmp(f))
     THEN /\ file' = [file EXCEPT ![f] = file[Tmp(f)], ![Tmp(f)] = Absent]
          /\ sv' = [Moved(Tmp(f), f) EXCEPT ![s] = NextFile(sv[s])]
     ELSE /\ sv' = [sv EXCEPT ![s] = IdleSaver]
          /\ UNCHANGED file
  /\ UNCHANGED <<rn, saves>>

(* writeOrRemove and designerDelete: os.Remove, which is content when      *)
(* there are no defaults.                                                  *)
RemoveDefaults(s) ==
  /\ sv[s].pc \in {"remove", "unlinkDef"}
  /\ file' = [file EXCEPT ![Def] = Absent]
  /\ sv' = [Moved(Def, 0) EXCEPT ![s] = IdleSaver]
  /\ UNCHANGED <<rn, saves>>

(* A file operation failed.  Of the source: a 500, and the defaults are    *)
(* not touched.  Of the defaults: logged, or not even that, and the        *)
(* request is answered with a 200.  A temporary file stays as it is.       *)
SaveFails(s) ==
  /\ faulty
  /\ sv[s].pc # "idle"
  /\ sv' = [sv EXCEPT ![s] = IdleSaver]
  /\ UNCHANGED <<file, rn, saves>>

(* designerDelete: the check for the source, then two removals. *)
Delete(s) ==
  /\ sv[s].pc = "idle"
  /\ saves < MaxSaves
  /\ Exists(Typ)
  /\ sv' = [sv EXCEPT ![s] = Asked("unlinkTyp", {}, Absent)]
  /\ saves' = saves + 1
  /\ Disturb
  /\ UNCHANGED file

(* A source already gone is a 500, and the defaults stay. *)
UnlinkTyp(s) ==
  /\ sv[s].pc = "unlinkTyp"
  /\ sv' = [Moved(Typ, 0) EXCEPT
       ![s] = Asked(IF Exists(Typ) THEN "unlinkDef" ELSE "idle", {}, Absent)]
  /\ file' = [file EXCEPT ![Typ] = Absent]
  /\ UNCHANGED <<rn, saves>>

(* The process dies and starts again; no temporary file is cleaned up. *)
Crash ==
  /\ faulty
  /\ \E s \in Savers : sv[s].pc # "idle"
  /\ sv' = [s \in Savers |-> IdleSaver]
  /\ rn' = [r \in Renders |-> IdleRender]
  /\ UNCHANGED <<file, saves>>

-----------------------------------------------------------------------------
(* Render and TemplateVersion.                                             *)

(* The check for the source; without it a 404 and no render. *)
StartRender(r) ==
  /\ rn[r].pc \in {"idle", "unknown", "done", "failed"}
  /\ rn' = [rn EXCEPT ![r] =
       Begun(IF Exists(Typ) THEN "defaults" ELSE "unknown",
             \A s \in Savers : sv[s].pc = "idle")]
  /\ UNCHANGED <<file, sv, saves>>

(* applyDefaults: read and merged before the render waits for its turn. *)
ApplyDefaults(r) ==
  /\ rn[r].pc = "defaults"
  /\ rn' = [rn EXCEPT ![r] =
       IF file[Def] \in {Empty, Torn}
       THEN Merged(rn[r], "failed", file[Def], {})
       ELSE Merged(rn[r], "list", file[Def], Supplied(file[Def]) \cup Body)]
  /\ UNCHANGED <<file, sv, saves>>

(* copyTree: WalkDir reads the names of the directory once ... *)
List(r) ==
  /\ rn[r].pc = "list"
  /\ rn' = [rn EXCEPT ![r] = Copied(rn[r], "copy", {n \in Names : Exists(n)}, Absent)]
  /\ UNCHANGED <<file, sv, saves>>

(* ... and copies the files one after the other in lexical order; one that *)
(* is gone by its turn fails the render, whatever the file was.            *)
Copy(r) ==
  /\ rn[r].pc = "copy"
  /\ \E n \in rn[r].left :
       /\ \A m \in rn[r].left : n <= m
       /\ rn' = [rn EXCEPT ![r] =
            Copied(rn[r], IF Exists(n) THEN "copy" ELSE "failed", rn[r].left \ {n},
                   IF n = Typ THEN file[Typ] ELSE rn[r].src)]
  /\ UNCHANGED <<file, sv, saves>>

(* The outcomes of compiling src against data: typst hard-errors on a      *)
(* missing key, or when there is no source; an empty one is a page, a      *)
(* mixture of two may or may not be one.                                   *)
Outcomes(src, data) ==
  IF src = Absent THEN {"failed"}
  ELSE IF src = Empty THEN {"stampTyp"}
  ELSE IF src = Torn THEN {"stampTyp", "failed"}
  ELSE IF src \subseteq data THEN {"stampTyp"} ELSE {"failed"}

Compile(r) ==
  /\ rn[r].pc = "copy"
  /\ rn[r].left = {}
  /\ \E next \in Outcomes(rn[r].src, rn[r].data) : rn' = [rn EXCEPT ![r].pc = next]
  /\ UNCHANGED <<file, sv, saves>>

(* TemplateVersion reads both files again; no source, no version. *)
StampTyp(r) ==
  /\ rn[r].pc = "stampTyp"
  /\ rn' = [rn EXCEPT ![r] =
       Stamped(rn[r], IF Exists(Typ) THEN "stampDef" ELSE "done", file[Typ], Absent)]
  /\ UNCHANGED <<file, sv, saves>>

(* Variant: the version covers the source only. *)
StampDefNot(r) ==
  /\ rn[r].pc = "stampDef"
  /\ rn' = [rn EXCEPT ![r].pc = "done"]
  /\ UNCHANGED <<file, sv, saves>>

StampDef(r) ==
  /\ rn[r].pc = "stampDef"
  /\ rn' = [rn EXCEPT ![r] = Stamped(rn[r], "done", rn[r].vsrc, file[Def])]
  /\ UNCHANGED <<file, sv, saves>>

-----------------------------------------------------------------------------

SaverStep(s) ==
  \/ \E src \in Source, def \in {Absent} \cup Source : Put(s, src, def)
  \/ Open(s) \/ Write(s) \/ Rename(s) \/ RemoveDefaults(s) \/ SaveFails(s)
  \/ Delete(s) \/ UnlinkTyp(s)

RenderStep(r) ==
  \/ StartRender(r) \/ ApplyDefaults(r) \/ List(r) \/ Copy(r) \/ Compile(r)
  \/ StampTyp(r) \/ StampDef(r)

Next ==
  /\ \/ \E s \in Savers : SaverStep(s)
     \/ \E r \in Renders : RenderStep(r)
     \/ Crash
  /\ UNCHANGED faulty

Spec == Init /\ [][Next]_vars

-----------------------------------------------------------------------------
(* Properties.                                                             *)

(* Type correctness: files hold what savers can leave in them, and every   *)
(* goroutine is at a point of its handler.                                 *)
TypeOK ==
  /\ file \in [Names -> Content]
  /\ sv \in [Savers -> Saver]
  /\ rn \in [Renders -> Render]
  /\ saves \in 0..MaxSaves
  /\ faulty \in Faults

(* As long as the saves of a template do not overlap, no render of it sees *)
(* a half-written source or half-written defaults, and no version is that  *)
(* of one: not during a save, and not after a crash in the middle of one.  *)
NeverTorn ==
  \A r \in Renders :
    {Empty, Torn} \cap {rn[r].src, rn[r].used, rn[r].vsrc, rn[r].vdef} = {}

(* A render that no save or delete overlaps stamps exactly what it was     *)
(* rendered from, although Render and TemplateVersion read the files       *)
(* independently of each other.                                            *)
UndisturbedStamp ==
  \A r \in Renders : rn[r].pc = "done" /\ rn[r].calm =>
    rn[r].vsrc = rn[r].src /\ rn[r].vdef = rn[r].used

(* The save gate pays off: without faults, a render of a saved template    *)
(* that no save or delete overlaps does not fail, whatever keys the        *)
(* request leaves out.                                                     *)
UndisturbedRenderSucceeds ==
  ~faulty => \A r \in Renders : rn[r].calm => rn[r].pc # "failed"

(* README.md:175, "Save is validated": without faults and between saves,   *)
(* the source on disk compiles against the defaults on disk, although each *)
(* save writes them one after the other.  (A deleted template has nothing  *)
(* left to compile.)                                                       *)
SavedTemplateCompiles ==
  ~faulty /\ (\A s \in Savers : sv[s].pc = "idle") /\ Exists(Typ) =>
    file[Def] \notin {Empty, Torn} /\ Outcomes(file[Typ], Supplied(file[Def])) = {"stampTyp"}

-----------------------------------------------------------------------------
(* The abstract promise, see TemplateRegister.                             *)

(* A saver that has put its source in place, or removed the old one, and   *)
(* has yet to do the same with the defaults.                               *)
Midway(s) == sv[s].pc # "idle" /\ (sv[s].at = Def \/ sv[s].pc = "unlinkDef")

(* A save takes effect when the source is renamed; the defaults that are   *)
(* on their way then belong to it already, and those still on disk are the *)
(* old ones.                                                               *)
Register == INSTANCE TemplateRegister WITH
  old <- file[Def],
  text <- <<file[Typ],
            IF \E s \in Savers : Midway(s)
            THEN sv[CHOOSE s \in Savers : Midway(s)].def
            ELSE file[Def]>>

(* As long as saves do not overlap, a template is one pair of a source and *)
(* defaults that were saved together, whole and gated, through every write *)
(* and rename; a fault may leave the new source with the defaults that     *)
(* stood before the save, and never with any others.                       *)
ImplementsRegister == Register!Spec

=============================================================================
