-------------------------- MODULE TemplateDirProofs --------------------------
(***************************************************************************)
(* The theorems about TemplateDir, for any keys, any number of renders and *)
(* any number of designer calls.  What concerns the files themselves is    *)
(* proved for one designer at a time (OneDesigner): with two, run          *)
(* claim_gate shows what happens.                                          *)
(***************************************************************************)
EXTENDS TemplateDir, TLAPS

OneDesigner == \A s, t \in Savers : s = t

Whole(c) == c \notin {Empty, Torn}

(* What a render that no save overlaps knows of the files. *)
Steady(v) ==
  v.calm =>
    /\ \A s \in Savers : sv[s].pc = "idle"
    /\ v.pc \in {"defaults", "list", "copy", "stampTyp", "stampDef"} => Exists(Typ)
    /\ v.pc \in {"list", "copy", "stampTyp", "stampDef"} => v.used = file[Def]
    /\ v.pc \in {"list", "copy"} => v.data = Supplied(v.used) \cup Body
    /\ v.pc = "copy" => /\ \A n \in v.left : Exists(n)
                        /\ Typ \in v.left \/ v.src = file[Typ]
    /\ v.pc \in {"stampTyp", "stampDef"} => v.src = file[Typ]
    /\ v.pc = "stampDef" => v.vsrc = file[Typ]
    /\ v.pc = "done" => v.vsrc = v.src /\ v.vdef = v.used

SteadyRenders == \A r \in Renders : Steady(rn[r])

(* What the saver is about to put where. *)
Wanted(v) == IF v.at = Typ THEN v.src ELSE v.def

(* Only temporary names are ever half-written, and the saver replaces what *)
(* a crashed one left there before it renames it.                          *)
WholeFiles ==
  /\ Whole(file[Typ]) /\ Whole(file[Def])
  /\ \A s \in Savers :
       /\ sv[s].pc \in {"open", "write", "rename"} => Wanted(sv[s]) # Absent
       /\ sv[s].pc = "write" => sv[s].fd = Tmp(sv[s].at) /\ file[Tmp(sv[s].at)] = Empty
       /\ sv[s].pc = "rename" => file[Tmp(sv[s].at)] = Wanted(sv[s])

(* A save passes from one pair of files to the next: in between, the       *)
(* source is the new one and the defaults are on their way.  Without       *)
(* faults both pairs compile.                                              *)
Gated ==
  /\ \A s \in Savers :
       /\ sv[s].pc \in {"open", "write", "rename", "remove"} =>
            /\ sv[s].src \subseteq Supplied(sv[s].def)
            /\ sv[s].at = Def => file[Typ] = sv[s].src
       /\ sv[s].pc = "remove" => sv[s].at = Def /\ sv[s].def = Absent
       /\ sv[s].pc = "unlinkTyp" => sv[s].at = Typ /\ Exists(Typ)
       /\ sv[s].pc = "unlinkDef" => ~Exists(Typ) /\ sv[s].def = Absent
  /\ ~faulty /\ (\A s \in Savers : sv[s].pc = "idle") /\ Exists(Typ) =>
       file[Typ] \subseteq Supplied(file[Def])

(* The invariant of one designer at a time. *)
SavesInv == TypeOK /\ SteadyRenders /\ NeverTorn /\ WholeFiles /\ Gated
              /\ UndisturbedRenderSucceeds

-----------------------------------------------------------------------------
(* Types.                                                                  *)

(* The names of the directory and of the steps, as the proofs use them. *)
LEMMA NamesAreNumbers ==
  /\ Names = {1, 2, 3, 4} /\ Def = 1 /\ Typ = 3 /\ Tmp(Def) = 2 /\ Tmp(Typ) = 4
  /\ \A f \in {Def, Typ} : Tmp(f) \in Names
  /\ Absent \in Content /\ Empty \in Content /\ Torn \in Content
  /\ \A S \in Source : S \in Content /\ S \notin {Absent, Empty, Torn}
  /\ Absent # Empty /\ Absent # Torn /\ Empty # Torn
BY ContentAssumption DEF Names, Def, DefTmp, Typ, TypTmp, Tmp, Content, Source

(* The steps of a saver keep its record a saver. *)
LEMMA SaverTypes ==
  /\ \A pc \in SaverPCs, src \in Source, def \in {Absent} \cup Source :
       Asked(pc, src, def) \in Saver
  /\ IdleSaver \in Saver
  /\ \A v \in Saver, pc \in SaverPCs, fd \in Names \cup {0} : At(v, pc, fd) \in Saver
  /\ \A v \in Saver : NextFile(v) \in Saver
<1>1. \A pc \in SaverPCs, src \in Source, def \in {Absent} \cup Source :
        Asked(pc, src, def) \in Saver
  BY DEF Asked, Saver
<1>2. IdleSaver \in Saver
  BY <1>1 DEF IdleSaver, SaverPCs, Source
<1>3. \A v \in Saver, pc \in SaverPCs, fd \in Names \cup {0} : At(v, pc, fd) \in Saver
  BY DEF At, Saver
<1>4. \A v \in Saver : NextFile(v) \in Saver
  BY <1>2 DEF NextFile, Saver, SaverPCs
<1> QED BY <1>1, <1>2, <1>3, <1>4

(* What renaming and removing files does to the savers' open files. *)
LEMMA MovedTypes ==
  ASSUME TypeOK, NEW n \in Names \cup {0}, NEW m \in Names \cup {0}
  PROVE  /\ Moved(n, m) \in [Savers -> Saver]
         /\ \A q \in Savers : /\ Moved(n, m)[q].pc = sv[q].pc
                              /\ Moved(n, m)[q].src = sv[q].src
                              /\ Moved(n, m)[q].def = sv[q].def
                              /\ Moved(n, m)[q].at = sv[q].at
BY DEF TypeOK, Moved, Saver

(* The steps of a render keep its record a render. *)
LEMMA RenderTypes ==
  /\ \A pc \in RenderPCs, b \in BOOLEAN : Begun(pc, b) \in Render
  /\ IdleRender \in Render
  /\ \A v \in Render, pc \in RenderPCs, used \in Content, data \in Source :
       Merged(v, pc, used, data) \in Render
  /\ \A v \in Render, pc \in RenderPCs, left \in SUBSET Names, src \in Content :
       Copied(v, pc, left, src) \in Render
  /\ \A v \in Render, pc \in RenderPCs, vsrc \in Content, vdef \in Content :
       Stamped(v, pc, vsrc, vdef) \in Render
<1>1. \A pc \in RenderPCs, b \in BOOLEAN : Begun(pc, b) \in Render
  BY NamesAreNumbers DEF Begun, Render, Source
<1>2. IdleRender \in Render
  BY <1>1 DEF IdleRender, RenderPCs
<1>3. \A v \in Render, pc \in RenderPCs, used \in Content, data \in Source :
        Merged(v, pc, used, data) \in Render
  BY DEF Merged, Render
<1>4. \A v \in Render, pc \in RenderPCs, left \in SUBSET Names, src \in Content :
        Copied(v, pc, left, src) \in Render
  BY DEF Copied, Render
<1>5. \A v \in Render, pc \in RenderPCs, vsrc \in Content, vdef \in Content :
        Stamped(v, pc, vsrc, vdef) \in Render
  BY DEF Stamped, Render
<1> QED BY <1>1, <1>2, <1>3, <1>4, <1>5

(* Disturbing the renders keeps everything of them but calm. *)
LEMMA DisturbTypes ==
  ASSUME TypeOK, Disturb
  PROVE  /\ rn' \in [Renders -> Render]
         /\ \A r \in Renders :
              /\ rn'[r].calm = FALSE
              /\ rn'[r].pc = rn[r].pc /\ rn'[r].src = rn[r].src /\ rn'[r].used = rn[r].used
              /\ rn'[r].vsrc = rn[r].vsrc /\ rn'[r].vdef = rn[r].vdef
BY DEF TypeOK, Disturb, Render

(* Savers keep the types. *)
LEMMA SaverKeepsTypes ==
  ASSUME TypeOK, NEW s \in Savers, SaverStep(s), UNCHANGED faulty
  PROVE  TypeOK'
<1> USE NamesAreNumbers, SaverTypes DEF TypeOK
<1>0. sv[s] \in Saver /\ sv[s].at \in {Def, Typ} /\ sv[s].fd \in Names \cup {0}
      /\ sv[s].src \in Source /\ sv[s].def \in {Absent} \cup Source
  BY DEF Saver
<1>1. ASSUME NEW src \in Source, NEW def \in {Absent} \cup Source, Put(s, src, def)
      PROVE  TypeOK'
  <2>1. sv' \in [Savers -> Saver]
    BY <1>1 DEF Put, SaverPCs
  <2>2. saves' \in 0..MaxSaves
    BY <1>1, BoundAssumption DEF Put
  <2>3. rn' \in [Renders -> Render]
    BY <1>1, DisturbTypes DEF Put
  <2> QED BY <1>1, <2>1, <2>2, <2>3 DEF Put
<1>2. CASE Open(s)
  BY <1>0, <1>2 DEF Open, SaverPCs
<1>3. CASE Write(s)
  <2>1. file' \in [Names -> Content]
    BY <1>0, <1>3 DEF Write, Content
  <2> QED BY <1>0, <1>3, <2>1 DEF Write, SaverPCs
<1>4. CASE Rename(s)
  <2>1. Moved(Tmp(sv[s].at), sv[s].at) \in [Savers -> Saver]
    BY <1>0, MovedTypes
  <2> QED BY <1>0, <1>4, <2>1 DEF Rename
<1>5. CASE RemoveDefaults(s)
  <2>1. Moved(Def, 0) \in [Savers -> Saver]
    BY MovedTypes
  <2> QED BY <1>5, <2>1 DEF RemoveDefaults
<1>6. CASE SaveFails(s)
  BY <1>6 DEF SaveFails
<1>7. CASE Delete(s)
  <2>1. sv' \in [Savers -> Saver]
    BY <1>7 DEF Delete, SaverPCs, Source
  <2>2. saves' \in 0..MaxSaves
    BY <1>7, BoundAssumption DEF Delete
  <2>3. rn' \in [Renders -> Render]
    BY <1>7, DisturbTypes DEF Delete
  <2> QED BY <1>7, <2>1, <2>2, <2>3 DEF Delete
<1>8. CASE UnlinkTyp(s)
  <2>1. Moved(Typ, 0) \in [Savers -> Saver]
    BY MovedTypes
  <2> QED BY <1>8, <2>1 DEF UnlinkTyp, SaverPCs, Source
<1> QED BY <1>1, <1>2, <1>3, <1>4, <1>5, <1>6, <1>7, <1>8 DEF SaverStep

(* Renders keep the types. *)
LEMMA RenderKeepsTypes ==
  ASSUME TypeOK, NEW r \in Renders, RenderStep(r), UNCHANGED faulty
  PROVE  TypeOK'
<1> USE NamesAreNumbers, RenderTypes DEF TypeOK
<1>0. /\ rn[r] \in Render /\ rn[r].vsrc \in Content /\ rn[r].src \in Content
      /\ rn[r].left \in SUBSET Names
      /\ \A n \in Names : file[n] \in Content
      /\ {} \in Source
  BY DEF Render, Source
<1>1. CASE StartRender(r)
  BY <1>1 DEF StartRender, RenderPCs
<1>2. CASE ApplyDefaults(r)
  <2>1. file[Def] \notin {Empty, Torn} => Supplied(file[Def]) \cup Body \in Source
    BY <1>0, KeysAssumption DEF Supplied, Source, Content
  <2> QED BY <1>0, <1>2, <2>1 DEF ApplyDefaults, RenderPCs
<1>3. CASE List(r)
  BY <1>0, <1>3 DEF List, RenderPCs
<1>4. CASE Copy(r)
  <2>1. PICK n \in Names :
          rn' = [rn EXCEPT ![r] =
            Copied(rn[r], IF Exists(n) THEN "copy" ELSE "failed", rn[r].left \ {n},
                   IF n = Typ THEN file[Typ] ELSE rn[r].src)]
    BY <1>0, <1>4 DEF Copy
  <2>2. (IF Exists(n) THEN "copy" ELSE "failed") \in RenderPCs
    BY DEF RenderPCs
  <2>3. (IF n = Typ THEN file[Typ] ELSE rn[r].src) \in Content
    BY <1>0
  <2>4. rn[r].left \ {n} \in SUBSET Names
    BY <1>0
  <2>5. rn' \in [Renders -> Render]
    BY <2>1, <2>2, <2>3, <2>4, <1>0
  <2> QED BY <1>4, <2>5 DEF Copy
<1>5. CASE Compile(r)
  <2>1. \A n \in Outcomes(rn[r].src, rn[r].data) : n \in RenderPCs
    BY DEF Outcomes, RenderPCs
  <2>2. PICK next \in RenderPCs : rn' = [rn EXCEPT ![r].pc = next]
    BY <1>5, <2>1 DEF Compile
  <2>3. rn' \in [Renders -> Render]
    BY <2>2, <1>0 DEF Render
  <2> QED BY <1>5, <2>3 DEF Compile
<1>6. CASE StampTyp(r)
  BY <1>0, <1>6 DEF StampTyp, RenderPCs
<1>7. CASE StampDef(r)
  BY <1>0, <1>7 DEF StampDef, RenderPCs
<1> QED BY <1>1, <1>2, <1>3, <1>4, <1>5, <1>6, <1>7 DEF RenderStep

(* Type correctness (see TypeOK), however many designers there are. *)
THEOREM TypeCorrect == Spec => []TypeOK
<1>1. Init => TypeOK
  BY NamesAreNumbers, SaverTypes, RenderTypes, BoundAssumption DEF Init, TypeOK, Source
<1>2. TypeOK /\ [Next]_vars => TypeOK'
  <2> SUFFICES ASSUME TypeOK, [Next]_vars PROVE TypeOK'
    OBVIOUS
  <2>1. ASSUME NEW s \in Savers, SaverStep(s), UNCHANGED faulty PROVE TypeOK'
    BY <2>1, SaverKeepsTypes
  <2>2. ASSUME NEW r \in Renders, RenderStep(r), UNCHANGED faulty PROVE TypeOK'
    BY <2>2, RenderKeepsTypes
  <2>3. ASSUME Crash, UNCHANGED faulty PROVE TypeOK'
    BY <2>3, SaverTypes, RenderTypes DEF Crash, TypeOK
  <2>4. CASE UNCHANGED vars
    BY <2>4 DEF vars, TypeOK
  <2> QED BY <2>1, <2>2, <2>3, <2>4 DEF Next
<1> QED BY <1>1, <1>2, PTL DEF Spec

-----------------------------------------------------------------------------
(* Renders that no save overlaps, however many designers there are.        *)

(* While a saver is at work no render is calm, so savers disturb nothing   *)
(* that is.                                                                *)
LEMMA SaverKeepsSteady ==
  ASSUME TypeOK, SteadyRenders, NEW s \in Savers, SaverStep(s)
  PROVE  SteadyRenders'
<1>1. CASE \E src \in Source, def \in {Absent} \cup Source : Put(s, src, def)
  <2>1. Disturb
    BY <1>1 DEF Put
  <2> QED BY <2>1, DisturbTypes DEF SteadyRenders, Steady
<1>2. CASE Delete(s)
  <2>1. Disturb
    BY <1>2 DEF Delete
  <2> QED BY <2>1, DisturbTypes DEF SteadyRenders, Steady
<1>3. CASE \/ Open(s) \/ Write(s) \/ Rename(s) \/ RemoveDefaults(s) \/ SaveFails(s)
           \/ UnlinkTyp(s)
  <2>1. sv[s].pc # "idle" /\ rn' = rn
    BY <1>3 DEF Open, Write, Rename, RemoveDefaults, SaveFails, UnlinkTyp
  <2>2. \A r \in Renders : ~rn[r].calm
    BY <2>1 DEF SteadyRenders, Steady
  <2> QED BY <2>1, <2>2 DEF SteadyRenders, Steady
<1> QED BY <1>1, <1>2, <1>3 DEF SaverStep

(* A render goes on as the files are. *)
LEMMA RenderKeepsSteady ==
  ASSUME TypeOK, SteadyRenders, NEW r \in Renders, RenderStep(r)
  PROVE  SteadyRenders'
<1> DEFINE v == rn[r]
           w == rn'[r]
<1>0. /\ file' = file /\ sv' = sv
      /\ \A q \in Renders : q # r => rn'[q] = rn[q]
      /\ v \in Render
  BY DEF RenderStep, StartRender, ApplyDefaults, List, Copy, Compile, StampTyp, StampDef, TypeOK
<1>a. Steady(v)
  BY DEF SteadyRenders
<1> SUFFICES Steady(rn[r])'
  BY <1>0 DEF SteadyRenders, Steady, Exists
<1>1. CASE StartRender(r)
  <2>1. w = Begun(IF Exists(Typ) THEN "defaults" ELSE "unknown",
                  \A s \in Savers : sv[s].pc = "idle")
    BY <1>1 DEF StartRender, TypeOK
  <2>2. w.calm = (\A s \in Savers : sv[s].pc = "idle") /\ w.pc \in {"defaults", "unknown"}
        /\ (w.pc = "defaults" => Exists(Typ))
    BY <2>1 DEF Begun
  <2> QED BY <1>0, <2>2 DEF Steady, Exists
<1>2. CASE ApplyDefaults(r)
  <2>1. w = IF file[Def] \in {Empty, Torn}
            THEN Merged(v, "failed", file[Def], {})
            ELSE Merged(v, "list", file[Def], Supplied(file[Def]) \cup Body)
    BY <1>2 DEF ApplyDefaults, TypeOK
  <2>2. v.pc = "defaults"
    BY <1>2 DEF ApplyDefaults
  <2> QED BY <1>0, <1>a, <2>1, <2>2 DEF Steady, Exists, Merged
<1>3. CASE List(r)
  <2>1. w = Copied(v, "copy", {n \in Names : Exists(n)}, Absent)
    BY <1>3 DEF List, TypeOK
  <2>2. v.pc = "list" /\ Typ \in Names
    BY <1>3, NamesAreNumbers DEF List
  <2> QED BY <1>0, <1>a, <2>1, <2>2 DEF Steady, Exists, Copied
<1>4. CASE Copy(r)
  <2>1. PICK n \in v.left :
          w = Copied(v, IF Exists(n) THEN "copy" ELSE "failed", v.left \ {n},
                     IF n = Typ THEN file[Typ] ELSE v.src)
    BY <1>4 DEF Copy, TypeOK
  <2>2. v.pc = "copy"
    BY <1>4 DEF Copy
  <2> QED BY <1>0, <1>a, <2>1, <2>2 DEF Steady, Exists, Copied
<1>5. CASE Compile(r)
  <2>1. PICK next \in {"failed", "stampTyp"} : rn' = [rn EXCEPT ![r].pc = next]
    BY <1>5 DEF Compile, Outcomes
  <2>2. /\ w.pc \in {"failed", "stampTyp"} /\ w.calm = v.calm
        /\ w.used = v.used /\ w.src = v.src
    BY <2>1, <1>0 DEF TypeOK, Render
  <2>3. v.pc = "copy" /\ v.left = {}
    BY <1>5 DEF Compile
  <2> QED BY <1>0, <1>a, <2>2, <2>3 DEF Steady, Exists
<1>6. CASE StampTyp(r)
  <2>1. w = Stamped(v, IF Exists(Typ) THEN "stampDef" ELSE "done", file[Typ], Absent)
    BY <1>6 DEF StampTyp, TypeOK
  <2>2. v.pc = "stampTyp"
    BY <1>6 DEF StampTyp
  <2> QED BY <1>0, <1>a, <2>1, <2>2 DEF Steady, Exists, Stamped
<1>7. CASE StampDef(r)
  <2>1. w = Stamped(v, "done", v.vsrc, file[Def])
    BY <1>7 DEF StampDef, TypeOK
  <2>2. v.pc = "stampDef"
    BY <1>7 DEF StampDef
  <2> QED BY <1>0, <1>a, <2>1, <2>2 DEF Steady, Exists, Stamped
<1> QED BY <1>1, <1>2, <1>3, <1>4, <1>5, <1>6, <1>7 DEF RenderStep

(* What calm renders know of the files stays true. *)
LEMMA SteadyHolds == Spec => [](TypeOK /\ SteadyRenders)
<1>1. Init => SteadyRenders
  BY DEF Init, SteadyRenders, Steady, IdleRender, Begun, IdleSaver, Asked
<1>2. TypeOK /\ SteadyRenders /\ [Next]_vars => SteadyRenders'
  <2> SUFFICES ASSUME TypeOK, SteadyRenders, [Next]_vars PROVE SteadyRenders'
    OBVIOUS
  <2>1. ASSUME NEW s \in Savers, SaverStep(s) PROVE SteadyRenders'
    BY <2>1, SaverKeepsSteady
  <2>2. ASSUME NEW r \in Renders, RenderStep(r) PROVE SteadyRenders'
    BY <2>2, RenderKeepsSteady
  <2>3. CASE Crash
    BY <2>3 DEF Crash, SteadyRenders, Steady, IdleRender, Begun, IdleSaver, Asked
  <2>4. CASE UNCHANGED vars
    BY <2>4 DEF vars, SteadyRenders, Steady, Exists
  <2> QED BY <2>1, <2>2, <2>3, <2>4 DEF Next
<1> QED BY <1>1, <1>2, TypeCorrect, PTL DEF Spec

(* A render that no save or delete overlaps stamps exactly what it was     *)
(* rendered from (Render and TemplateVersion read the files each on its    *)
(* own), however many designers and renders there are.                     *)
THEOREM StampIsExact == Spec => []UndisturbedStamp
<1>1. SteadyRenders => UndisturbedStamp
  BY DEF SteadyRenders, Steady, UndisturbedStamp
<1> QED BY <1>1, SteadyHolds, PTL

-----------------------------------------------------------------------------
(* One designer at a time.                                                 *)

(* What a step of the only saver leaves to prove of its files: it is the   *)
(* only one any part of the invariant can be about.                        *)
LEMMA OnlySaver ==
  ASSUME OneDesigner, TypeOK, TypeOK', NEW s \in Savers,
         Whole(file'[Typ]), Whole(file'[Def]),
         sv'[s].pc \in {"open", "write", "rename"} => Wanted(sv'[s]) # Absent,
         sv'[s].pc = "write" =>
           sv'[s].fd = Tmp(sv'[s].at) /\ file'[Tmp(sv'[s].at)] = Empty,
         sv'[s].pc = "rename" => file'[Tmp(sv'[s].at)] = Wanted(sv'[s])
  PROVE  WholeFiles'
<1>1. \A q \in Savers : q = s
  BY DEF OneDesigner
<1> QED BY <1>1 DEF WholeFiles, Wanted, Whole

(* Saves leave whole files behind, and open files they own. *)
LEMMA SaverKeepsWhole ==
  ASSUME OneDesigner, TypeOK, TypeOK', WholeFiles, NEW s \in Savers, SaverStep(s)
  PROVE  WholeFiles'
<1> USE NamesAreNumbers
<1> DEFINE v == sv[s]
           w == sv'[s]
<1>0. /\ v \in Saver /\ v.at \in {Def, Typ} /\ v.src \in Source /\ v.def \in {Absent} \cup Source
      /\ Whole(file[Typ]) /\ Whole(file[Def])
      /\ v.pc \in {"open", "write", "rename"} => Wanted(v) # Absent
      /\ v.pc = "write" => v.fd = Tmp(v.at) /\ file[Tmp(v.at)] = Empty
      /\ v.pc = "rename" => file[Tmp(v.at)] = Wanted(v)
  BY DEF TypeOK, Saver, WholeFiles
<1>a. Wanted(v) \in {Absent} \cup Source
  BY <1>0 DEF Wanted
<1>1. ASSUME NEW src \in Source, NEW def \in {Absent} \cup Source, Put(s, src, def)
      PROVE  WholeFiles'
  <2>1. w = Asked("open", src, def) /\ file' = file
    BY <1>1 DEF Put, TypeOK
  <2> QED BY <1>0, <2>1, OnlySaver DEF Asked, Wanted
<1>2. CASE Open(s)
  <2>1. w = At(v, "write", Tmp(v.at)) /\ file' = [file EXCEPT ![Tmp(v.at)] = Empty]
    BY <1>2 DEF Open, TypeOK
  <2>2. /\ file'[Tmp(v.at)] = Empty /\ file'[Typ] = file[Typ] /\ file'[Def] = file[Def]
        /\ w.pc = "write" /\ w.fd = Tmp(v.at) /\ w.at = v.at /\ Wanted(w) = Wanted(v)
        /\ v.pc = "open"
    BY <1>0, <1>2, <2>1 DEF Open, TypeOK, At, Wanted
  <2> QED BY <1>0, <2>2, OnlySaver
<1>3. CASE Write(s)
  <2>1. v.pc = "write" /\ v.fd = Tmp(v.at) /\ file[Tmp(v.at)] = Empty
    BY <1>0, <1>3 DEF Write
  <2>2. file' = [file EXCEPT ![Tmp(v.at)] = Wanted(v)] /\ w = At(v, "rename", 0)
    BY <1>0, <1>3, <2>1 DEF Write, Wanted, TypeOK
  <2>3. /\ file'[Tmp(v.at)] = Wanted(v) /\ file'[Typ] = file[Typ] /\ file'[Def] = file[Def]
        /\ w.pc = "rename" /\ w.at = v.at /\ Wanted(w) = Wanted(v)
    BY <1>0, <2>2 DEF TypeOK, At, Wanted
  <2> QED BY <1>0, <2>1, <2>3, OnlySaver
<1>4. CASE Rename(s)
  <2>1. v.pc = "rename" /\ Exists(Tmp(v.at))
    BY <1>0, <1>4 DEF Rename, Exists
  <2>2. /\ file' = [file EXCEPT ![v.at] = file[Tmp(v.at)], ![Tmp(v.at)] = Absent]
        /\ sv' = [Moved(Tmp(v.at), v.at) EXCEPT ![s] = NextFile(v)]
    BY <1>4, <2>1 DEF Rename
  <2>3. w = NextFile(v)
    BY <2>2, <1>0, MovedTypes
  <2>4. file'[v.at] = Wanted(v) /\ Whole(file'[Typ]) /\ Whole(file'[Def])
    BY <1>0, <1>a, <2>1, <2>2 DEF TypeOK, Whole
  <2>5. w.pc \in {"idle", "open", "remove"}
        /\ (w.pc = "open" => Wanted(w) # Absent)
    BY <1>0, <2>3 DEF NextFile, IdleSaver, Asked, Wanted
  <2> QED BY <2>4, <2>5, OnlySaver
<1>5. CASE RemoveDefaults(s) \/ UnlinkTyp(s)
  <2>1. w.pc \in {"idle", "unlinkDef"}
    BY <1>5, MovedTypes DEF RemoveDefaults, UnlinkTyp, IdleSaver, Asked
  <2>2. Whole(file'[Typ]) /\ Whole(file'[Def])
    BY <1>0, <1>5 DEF RemoveDefaults, UnlinkTyp, TypeOK, Whole
  <2> QED BY <2>1, <2>2, OnlySaver
<1>6. CASE SaveFails(s) \/ Delete(s)
  <2>1. w.pc \in {"idle", "unlinkTyp"} /\ file' = file
    BY <1>6 DEF SaveFails, Delete, IdleSaver, Asked, TypeOK
  <2> QED BY <1>0, <2>1, OnlySaver
<1> QED BY <1>1, <1>2, <1>3, <1>4, <1>5, <1>6 DEF SaverStep

(* Renders read only names that are whole. *)
LEMMA RenderReadsWhole ==
  ASSUME TypeOK, NeverTorn, WholeFiles, NEW r \in Renders, RenderStep(r)
  PROVE  NeverTorn' /\ WholeFiles'
<1>0. /\ file' = file /\ sv' = sv
      /\ \A q \in Renders : q # r => rn'[q] = rn[q]
      /\ rn[r] \in Render
      /\ Whole(file[Typ]) /\ Whole(file[Def])
      /\ {Empty, Torn} \cap {rn[r].src, rn[r].used, rn[r].vsrc, rn[r].vdef} = {}
      /\ Whole(Absent)
  BY NamesAreNumbers DEF RenderStep, StartRender, ApplyDefaults, List, Copy, Compile,
       StampTyp, StampDef, TypeOK, NeverTorn, WholeFiles, Whole
<1>1. WholeFiles'
  BY <1>0 DEF WholeFiles, Wanted, Whole
<1>2. {Empty, Torn} \cap {rn'[r].src, rn'[r].used, rn'[r].vsrc, rn'[r].vdef} = {}
  <2> USE DEF Whole, TypeOK
  <2>1. CASE StartRender(r)
    BY <1>0, <2>1 DEF StartRender, Begun
  <2>2. CASE ApplyDefaults(r)
    BY <1>0, <2>2 DEF ApplyDefaults, Merged
  <2>3. CASE List(r)
    BY <1>0, <2>3 DEF List, Copied
  <2>4. CASE Copy(r)
    BY <1>0, <2>4 DEF Copy, Copied
  <2>5. CASE Compile(r)
    <3>1. PICK next : rn' = [rn EXCEPT ![r].pc = next]
      BY <2>5 DEF Compile
    <3> QED BY <1>0, <3>1 DEF Render
  <2>6. CASE StampTyp(r)
    BY <1>0, <2>6 DEF StampTyp, Stamped
  <2>7. CASE StampDef(r)
    BY <1>0, <2>7 DEF StampDef, Stamped
  <2> QED BY <2>1, <2>2, <2>3, <2>4, <2>5, <2>6, <2>7 DEF RenderStep
<1>3. \A q \in Renders : {Empty, Torn} \cap {rn'[q].src, rn'[q].used, rn'[q].vsrc, rn'[q].vdef} = {}
  BY <1>0, <1>2 DEF NeverTorn
<1> QED BY <1>1, <1>3 DEF NeverTorn

(* Savers change of the renders at most calm. *)
LEMMA SaverLeavesRenders ==
  ASSUME TypeOK, NEW s \in Savers, SaverStep(s)
  PROVE  \A r \in Renders :
           /\ rn'[r].pc = rn[r].pc /\ rn'[r].src = rn[r].src /\ rn'[r].used = rn[r].used
           /\ rn'[r].vsrc = rn[r].vsrc /\ rn'[r].vdef = rn[r].vdef
           /\ rn'[r].calm => rn[r].calm
<1>1. Disturb \/ rn' = rn
  BY DEF SaverStep, Put, Open, Write, Rename, RemoveDefaults, SaveFails, Delete, UnlinkTyp
<1> QED BY <1>1, DisturbTypes

(* As long as the saves of a template do not overlap, no render of it sees *)
(* a half-written file, in the middle of a save or after a crash in one    *)
(* (writeAtomic and the shared temporary name).                            *)
THEOREM NothingTorn == ASSUME OneDesigner PROVE Spec => []NeverTorn
<1>1. Init => NeverTorn /\ WholeFiles
  BY NamesAreNumbers DEF Init, NeverTorn, WholeFiles, Whole, IdleRender, Begun, IdleSaver, Asked,
       Source
<1>2. TypeOK /\ TypeOK' /\ NeverTorn /\ WholeFiles /\ [Next]_vars => NeverTorn' /\ WholeFiles'
  <2> SUFFICES ASSUME TypeOK, TypeOK', NeverTorn, WholeFiles, [Next]_vars
               PROVE  NeverTorn' /\ WholeFiles'
    OBVIOUS
  <2>1. ASSUME NEW s \in Savers, SaverStep(s) PROVE NeverTorn' /\ WholeFiles'
    <3>1. WholeFiles'
      BY <2>1, SaverKeepsWhole
    <3>2. NeverTorn'
      BY <2>1, SaverLeavesRenders DEF NeverTorn
    <3> QED BY <3>1, <3>2
  <2>2. ASSUME NEW r \in Renders, RenderStep(r) PROVE NeverTorn' /\ WholeFiles'
    BY <2>2, RenderReadsWhole
  <2>3. CASE Crash
    BY <2>3, NamesAreNumbers DEF Crash, NeverTorn, WholeFiles, Whole, IdleRender, Begun,
         IdleSaver, Asked
  <2>4. CASE UNCHANGED vars
    BY <2>4 DEF vars, NeverTorn, WholeFiles, Wanted, Whole
  <2> QED BY <2>1, <2>2, <2>3, <2>4 DEF Next
<1>3. NeverTorn /\ WholeFiles => NeverTorn
  OBVIOUS
<1> QED BY <1>1, <1>2, <1>3, TypeCorrect, PTL DEF Spec

(* What a step of the only saver leaves to prove of the gate. *)
LEMMA OnlySaverGated ==
  ASSUME OneDesigner, NEW s \in Savers,
         sv'[s].pc \in {"open", "write", "rename", "remove"} =>
           /\ sv'[s].src \subseteq Supplied(sv'[s].def)
           /\ sv'[s].at = Def => file'[Typ] = sv'[s].src,
         sv'[s].pc = "remove" => sv'[s].at = Def /\ sv'[s].def = Absent,
         sv'[s].pc = "unlinkTyp" => sv'[s].at = Typ /\ file'[Typ] # Absent,
         sv'[s].pc = "unlinkDef" => file'[Typ] = Absent /\ sv'[s].def = Absent,
         ~faulty' /\ sv'[s].pc = "idle" =>
           file'[Typ] = Absent \/ file'[Typ] \subseteq Supplied(file'[Def])
  PROVE  Gated'
<1>1. \A q \in Savers : q = s
  BY DEF OneDesigner
<1> QED BY <1>1 DEF Gated, Exists, Supplied

(* A save takes the files from what was saved before to what it was asked  *)
(* to save.                                                                *)
LEMMA SaverKeepsGated ==
  ASSUME OneDesigner, TypeOK, WholeFiles, Gated, NEW s \in Savers, SaverStep(s), UNCHANGED faulty
  PROVE  Gated'
<1> USE NamesAreNumbers
<1> DEFINE v == sv[s]
           w == sv'[s]
<1>0. /\ v \in Saver /\ v.at \in {Def, Typ} /\ v.src \in Source /\ v.def \in {Absent} \cup Source
      /\ v.pc \in {"open", "write", "rename"} => Wanted(v) # Absent
      /\ v.pc = "write" => v.fd = Tmp(v.at)
      /\ v.pc = "rename" => file[Tmp(v.at)] = Wanted(v)
      /\ v.pc \in {"open", "write", "rename", "remove"} =>
           /\ v.src \subseteq Supplied(v.def)
           /\ v.at = Def => file[Typ] = v.src
      /\ v.pc = "remove" => v.at = Def /\ v.def = Absent
      /\ v.pc = "unlinkDef" => file[Typ] = Absent
      /\ v.pc = "unlinkTyp" => file[Typ] # Absent
  BY DEF TypeOK, Saver, WholeFiles, Gated, Exists
<1>1. ASSUME NEW src \in Source, NEW def \in {Absent} \cup Source, Put(s, src, def)
      PROVE  Gated'
  <2>1. w = Asked("open", src, def) /\ src \subseteq Supplied(def)
    BY <1>1 DEF Put, TypeOK
  <2>2. /\ w.pc = "open" /\ w.src \subseteq Supplied(w.def) /\ w.at = Typ
    BY <2>1 DEF Asked
  <2> QED BY <2>2, OnlySaverGated
<1>2. CASE Open(s)
  <2>1. w = At(v, "write", Tmp(v.at)) /\ file' = [file EXCEPT ![Tmp(v.at)] = Empty]
    BY <1>2 DEF Open, TypeOK
  <2>2. /\ file'[Typ] = file[Typ] /\ v.pc = "open"
        /\ w.pc = "write" /\ w.at = v.at /\ w.src = v.src /\ w.def = v.def
    BY <1>0, <1>2, <2>1 DEF Open, TypeOK, At
  <2> QED BY <1>0, <2>2, OnlySaverGated
<1>3. CASE Write(s)
  <2>1. /\ v.pc = "write" /\ w = At(v, "rename", 0)
        /\ \E b : file' = [file EXCEPT ![Tmp(v.at)] = b]
    BY <1>0, <1>3 DEF Write, TypeOK
  <2>2. /\ file'[Typ] = file[Typ]
        /\ w.pc = "rename" /\ w.at = v.at /\ w.src = v.src /\ w.def = v.def
    BY <1>0, <2>1 DEF TypeOK, At
  <2> QED BY <1>0, <2>1, <2>2, OnlySaverGated
<1>4. CASE Rename(s)
  <2>1. v.pc = "rename" /\ Exists(Tmp(v.at))
    BY <1>0, <1>4 DEF Rename, Exists
  <2>2. /\ file' = [file EXCEPT ![v.at] = file[Tmp(v.at)], ![Tmp(v.at)] = Absent]
        /\ sv' = [Moved(Tmp(v.at), v.at) EXCEPT ![s] = NextFile(v)]
    BY <1>4, <2>1 DEF Rename
  <2>3. w = NextFile(v)
    BY <2>2, <1>0, MovedTypes
  <2>4. CASE v.at = Typ
    <3>1. file'[Typ] = v.src
      BY <1>0, <2>1, <2>2, <2>4 DEF TypeOK, Wanted
    <3>2. /\ w.pc = (IF v.def = Absent THEN "remove" ELSE "open")
          /\ w.at = Def /\ w.src = v.src /\ w.def = v.def
      BY <2>3, <2>4 DEF NextFile
    <3> QED BY <1>0, <2>1, <3>1, <3>2, OnlySaverGated
  <2>5. CASE v.at = Def
    <3>1. file'[Typ] = v.src /\ file'[Def] = v.def
      BY <1>0, <2>1, <2>2, <2>5 DEF TypeOK, Wanted
    <3>2. w.pc = "idle"
      BY <2>3, <2>5 DEF NextFile, IdleSaver, Asked
    <3> QED BY <1>0, <2>1, <3>1, <3>2, OnlySaverGated
  <2> QED BY <1>0, <2>4, <2>5
<1>5. CASE RemoveDefaults(s)
  <2>1. w.pc = "idle" /\ v.pc \in {"remove", "unlinkDef"}
    BY <1>5, MovedTypes DEF RemoveDefaults, IdleSaver, Asked
  <2>2. file'[Typ] = file[Typ] /\ file'[Def] = Absent
    BY <1>5 DEF RemoveDefaults, TypeOK
  <2> QED BY <1>0, <2>1, <2>2, OnlySaverGated DEF Supplied
<1>6. CASE SaveFails(s)
  <2>1. faulty' /\ w.pc = "idle"
    BY <1>6 DEF SaveFails, TypeOK, IdleSaver, Asked
  <2> QED BY <2>1, OnlySaverGated
<1>7. CASE Delete(s)
  <2>1. w.pc = "unlinkTyp" /\ w.at = Typ /\ file'[Typ] # Absent
    BY <1>7 DEF Delete, TypeOK, Asked, Exists
  <2> QED BY <2>1, OnlySaverGated
<1>8. CASE UnlinkTyp(s)
  <2>1. w.pc \in {"idle", "unlinkDef"} /\ w.def = Absent /\ file'[Typ] = Absent
    BY <1>8, MovedTypes DEF UnlinkTyp, TypeOK, Asked
  <2> QED BY <2>1, OnlySaverGated
<1> QED BY <1>1, <1>2, <1>3, <1>4, <1>5, <1>6, <1>7, <1>8 DEF SaverStep

(* Without faults a calm render finds its files, and they compile. *)
LEMMA CalmDoesNotFail ==
  ASSUME TypeOK, SteadyRenders, WholeFiles, Gated, ~faulty, UndisturbedRenderSucceeds,
         NEW r \in Renders, RenderStep(r), faulty' = faulty
  PROVE  UndisturbedRenderSucceeds'
<1> DEFINE v == rn[r]
           w == rn'[r]
<1>0. /\ \A q \in Renders : q # r => rn'[q] = rn[q]
      /\ v \in Render /\ Steady(v) /\ (v.calm => v.pc # "failed")
      /\ Whole(file[Typ]) /\ Whole(file[Def])
  BY DEF RenderStep, StartRender, ApplyDefaults, List, Copy, Compile, StampTyp, StampDef, TypeOK,
       SteadyRenders, WholeFiles, UndisturbedRenderSucceeds
<1> SUFFICES ASSUME w.calm PROVE w.pc # "failed"
  BY <1>0 DEF UndisturbedRenderSucceeds
<1>1. CASE StartRender(r)
  BY <1>1 DEF StartRender, TypeOK, Begun
<1>2. CASE ApplyDefaults(r)
  BY <1>0, <1>2 DEF ApplyDefaults, TypeOK, Merged, Whole
<1>3. CASE List(r)
  BY <1>3 DEF List, TypeOK, Copied
<1>4. CASE Copy(r)
  <2>1. PICK n \in v.left :
          w = Copied(v, IF Exists(n) THEN "copy" ELSE "failed", v.left \ {n},
                     IF n = Typ THEN file[Typ] ELSE v.src)
    BY <1>4 DEF Copy, TypeOK
  <2>2. v.calm /\ v.pc = "copy"
    BY <1>4, <2>1 DEF Copy, Copied
  <2>3. Exists(n)
    BY <1>0, <2>2 DEF Steady
  <2> QED BY <2>1, <2>3 DEF Copied
<1>5. CASE Compile(r)
  <2>1. PICK next \in Outcomes(v.src, v.data) : rn' = [rn EXCEPT ![r].pc = next]
    BY <1>5 DEF Compile
  <2>2. w.pc = next /\ w.calm = v.calm
    BY <2>1, <1>0 DEF TypeOK, Render
  <2>3. v.pc = "copy" /\ v.left = {}
    BY <1>5 DEF Compile
  <2>4. /\ \A s \in Savers : sv[s].pc = "idle"
        /\ Exists(Typ) /\ v.src = file[Typ] /\ v.data = Supplied(file[Def]) \cup Body
    BY <1>0, <2>2, <2>3 DEF Steady
  <2>5. file[Typ] \subseteq Supplied(file[Def])
    BY <2>4 DEF Gated
  <2>6. v.src \subseteq v.data /\ v.src \notin {Absent, Empty, Torn}
    BY <1>0, <2>4, <2>5 DEF Exists, Whole
  <2> QED BY <2>1, <2>2, <2>6 DEF Outcomes
<1>6. CASE StampTyp(r)
  BY <1>6 DEF StampTyp, TypeOK, Stamped
<1>7. CASE StampDef(r)
  BY <1>7 DEF StampDef, TypeOK, Stamped
<1> QED BY <1>1, <1>2, <1>3, <1>4, <1>5, <1>6, <1>7 DEF RenderStep

(* The invariant of one designer at a time holds. *)
THEOREM SavesInvHolds == ASSUME OneDesigner PROVE Spec => []SavesInv
<1>1. Init => Gated /\ WholeFiles /\ UndisturbedRenderSucceeds
  BY NamesAreNumbers DEF Init, Gated, WholeFiles, Whole, UndisturbedRenderSucceeds, IdleRender,
       Begun, IdleSaver, Asked, Source, Exists, Supplied
<1>2. /\ TypeOK /\ TypeOK' /\ SteadyRenders /\ WholeFiles /\ Gated /\ UndisturbedRenderSucceeds
      /\ [Next]_vars
      => WholeFiles' /\ Gated' /\ UndisturbedRenderSucceeds'
  <2> SUFFICES ASSUME TypeOK, TypeOK', SteadyRenders, WholeFiles, Gated,
                      UndisturbedRenderSucceeds, [Next]_vars
               PROVE  WholeFiles' /\ Gated' /\ UndisturbedRenderSucceeds'
    OBVIOUS
  <2>0. faulty' = faulty
    BY DEF Next, vars
  <2>1. ASSUME NEW s \in Savers, SaverStep(s)
        PROVE  WholeFiles' /\ Gated' /\ UndisturbedRenderSucceeds'
    <3>1. WholeFiles'
      BY <2>1, SaverKeepsWhole
    <3>2. Gated'
      BY <2>0, <2>1, SaverKeepsGated
    <3>3. UndisturbedRenderSucceeds'
      BY <2>0, <2>1, SaverLeavesRenders DEF UndisturbedRenderSucceeds
    <3> QED BY <3>1, <3>2, <3>3
  <2>2. ASSUME NEW r \in Renders, RenderStep(r)
        PROVE  WholeFiles' /\ Gated' /\ UndisturbedRenderSucceeds'
    <3>1. file' = file /\ sv' = sv
      BY <2>2 DEF RenderStep, StartRender, ApplyDefaults, List, Copy, Compile, StampTyp, StampDef
    <3>2. WholeFiles' /\ Gated'
      BY <3>1, <2>0 DEF WholeFiles, Wanted, Whole, Gated, Exists, Supplied
    <3>3. UndisturbedRenderSucceeds'
      <4>1. CASE faulty
        BY <4>1, <2>0 DEF UndisturbedRenderSucceeds
      <4>2. CASE ~faulty
        BY <4>2, <2>0, <2>2, CalmDoesNotFail
      <4> QED BY <4>1, <4>2
    <3> QED BY <3>2, <3>3
  <2>3. CASE Crash
    <3>1. faulty
      BY <2>3 DEF Crash
    <3>2. WholeFiles'
      BY <2>3 DEF Crash, WholeFiles, Whole, IdleSaver, Asked
    <3>3. Gated'
      BY <2>3, <3>1, <2>0 DEF Crash, Gated, IdleSaver, Asked
    <3> QED BY <3>1, <3>2, <3>3, <2>0 DEF UndisturbedRenderSucceeds
  <2>4. CASE UNCHANGED vars
    BY <2>4 DEF vars, WholeFiles, Wanted, Whole, Gated, Exists, Supplied,
         UndisturbedRenderSucceeds
  <2> QED BY <2>1, <2>2, <2>3, <2>4 DEF Next
<1>3. TypeOK /\ SteadyRenders /\ NeverTorn /\ WholeFiles /\ Gated /\ UndisturbedRenderSucceeds
        => SavesInv
  BY DEF SavesInv
<1> QED BY <1>1, <1>2, <1>3, TypeCorrect, SteadyHolds, NothingTorn, PTL DEF Spec

(* Without faults, a render of a saved template that no save or delete     *)
(* overlaps does not fail (applyDefaults, copyTree and compile find what   *)
(* the save gate has let through).                                         *)
THEOREM QuietRenderSucceeds == ASSUME OneDesigner PROVE Spec => []UndisturbedRenderSucceeds
<1>1. SavesInv => UndisturbedRenderSucceeds
  BY DEF SavesInv
<1> QED BY <1>1, SavesInvHolds, PTL

(* Without faults, between saves the source on disk compiles against the   *)
(* defaults on disk, although designerPut writes one after the other.      *)
THEOREM GateKeepsItsWord == ASSUME OneDesigner PROVE Spec => []SavedTemplateCompiles
<1>1. SavesInv => SavedTemplateCompiles
  BY NamesAreNumbers DEF SavesInv, SavedTemplateCompiles, WholeFiles, Whole, Gated, Outcomes, Exists
<1> QED BY <1>1, SavesInvHolds, PTL

-----------------------------------------------------------------------------
(* Refinement of TemplateRegister.                                         *)

(* The pair of the register, see Register. *)
Kept ==
  <<file[Typ],
    IF \E s \in Savers : Midway(s)
    THEN sv[CHOOSE s \in Savers : Midway(s)].def
    ELSE file[Def]>>

(* With one saver the pair depends on that saver alone. *)
LEMMA KeptByOne ==
  ASSUME OneDesigner, NEW s \in Savers
  PROVE  /\ Midway(s) => Kept = <<file[Typ], sv[s].def>>
         /\ ~Midway(s) => Kept = <<file[Typ], file[Def]>>
         /\ Midway(s)' => Kept' = <<file'[Typ], sv'[s].def>>
         /\ ~Midway(s)' => Kept' = <<file'[Typ], file'[Def]>>
<1>1. \A q \in Savers : q = s
  BY DEF OneDesigner
<1> QED BY <1>1 DEF Kept

(* Renaming the source is the save, unlinking it is the delete; renaming   *)
(* or removing the defaults settles them, a fault between the two brings   *)
(* back the old ones, and every other step of a saver changes no pair.     *)
LEMMA SaverRefines ==
  ASSUME OneDesigner, TypeOK, WholeFiles, Gated, NEW s \in Savers, SaverStep(s)
  PROVE  Register!Next \/ (Kept' = Kept /\ file'[Def] = file[Def])
<1> USE NamesAreNumbers
<1> DEFINE v == sv[s]
           w == sv'[s]
<1>0. /\ v \in Saver /\ v.at \in {Def, Typ} /\ v.src \in Source /\ v.def \in {Absent} \cup Source
      /\ v.pc = "write" => v.fd = Tmp(v.at)
      /\ v.pc = "rename" => file[Tmp(v.at)] = Wanted(v)
      /\ v.pc \in {"open", "write", "rename"} => Wanted(v) # Absent
      /\ v.pc \in {"open", "write", "rename", "remove"} =>
           /\ v.src \subseteq Supplied(v.def)
           /\ v.at = Def => file[Typ] = v.src
      /\ v.pc = "remove" => v.at = Def /\ v.def = Absent
      /\ v.pc = "unlinkTyp" => v.at = Typ /\ file[Typ] # Absent
      /\ v.pc = "unlinkDef" => v.def = Absent
      /\ file[Def] \in {Absent} \cup Source
  BY DEF TypeOK, Saver, WholeFiles, Whole, Gated, Exists, Content
<1>1. ASSUME NEW src \in Source, NEW def \in {Absent} \cup Source, Put(s, src, def)
      PROVE  Kept' = Kept /\ file' = file
  <2>1. v.pc = "idle" /\ w.pc = "open" /\ w.at = Typ /\ file' = file
    BY <1>1 DEF Put, TypeOK, Asked
  <2>2. ~Midway(s) /\ ~Midway(s)'
    BY <2>1 DEF Midway
  <2> QED BY <2>1, <2>2, KeptByOne
<1>2. CASE Open(s)
  <2>1. w = At(v, "write", Tmp(v.at)) /\ file' = [file EXCEPT ![Tmp(v.at)] = Empty]
    BY <1>2 DEF Open, TypeOK
  <2>2. v.pc = "open" /\ w.pc = "write" /\ w.at = v.at /\ w.def = v.def
    BY <1>2, <2>1 DEF Open, At
  <2>3. file'[Typ] = file[Typ] /\ file'[Def] = file[Def]
    BY <1>0, <2>1 DEF TypeOK
  <2>4. Midway(s)' <=> Midway(s)
    BY <2>2 DEF Midway
  <2> QED BY <2>2, <2>3, <2>4, KeptByOne
<1>3. CASE Write(s)
  <2>1. v.pc = "write" /\ w = At(v, "rename", 0) /\ \E b : file' = [file EXCEPT ![Tmp(v.at)] = b]
    BY <1>0, <1>3 DEF Write, TypeOK
  <2>2. w.pc = "rename" /\ w.at = v.at /\ w.def = v.def
    BY <2>1 DEF At
  <2>3. file'[Typ] = file[Typ] /\ file'[Def] = file[Def]
    BY <1>0, <2>1 DEF TypeOK
  <2>4. Midway(s)' <=> Midway(s)
    BY <2>1, <2>2 DEF Midway
  <2> QED BY <2>2, <2>3, <2>4, KeptByOne
<1>4. CASE Rename(s)
  <2>1. v.pc = "rename" /\ Exists(Tmp(v.at))
    BY <1>0, <1>4 DEF Rename, Exists
  <2>2. /\ file' = [file EXCEPT ![v.at] = file[Tmp(v.at)], ![Tmp(v.at)] = Absent]
        /\ sv' = [Moved(Tmp(v.at), v.at) EXCEPT ![s] = NextFile(v)]
    BY <1>4, <2>1 DEF Rename
  <2>3. w = NextFile(v)
    BY <2>2, <1>0, MovedTypes
  <2>4. CASE v.at = Typ
    <3>1. file'[Typ] = v.src
      BY <1>0, <2>1, <2>2, <2>4 DEF TypeOK, Wanted
    <3>2. w.pc \in {"remove", "open"} /\ w.at = Def /\ w.def = v.def
      BY <2>3, <2>4 DEF NextFile
    <3>3. Kept' = <<v.src, v.def>>
      BY <3>1, <3>2, KeptByOne DEF Midway
    <3>4. ~Midway(s) /\ file'[Def] = file[Def]
      BY <2>1, <2>2, <2>4 DEF Midway, TypeOK
    <3>5. Kept = <<file[Typ], file[Def]>>
      BY <3>4, KeptByOne
    <3>6. Register!Save(v.src, v.def)
      BY <1>0, <2>1, <3>3, <3>4, <3>5
         DEF Register!Save, Register!Settled, Register!Supplied, Supplied, Kept
    <3> QED BY <1>0, <3>6 DEF Register!Next, Register!Sources, Source
  <2>5. CASE v.at = Def
    <3>1. file'[Typ] = file[Typ] /\ file'[Def] = v.def
      BY <1>0, <2>1, <2>2, <2>5 DEF TypeOK, Wanted
    <3>2. w.pc = "idle"
      BY <2>3, <2>5 DEF NextFile, IdleSaver, Asked
    <3>3. Midway(s) /\ ~Midway(s)'
      BY <2>1, <2>5, <3>2 DEF Midway
    <3>4. Kept = <<file[Typ], v.def>> /\ Kept' = Kept
      BY <3>1, <3>3, KeptByOne
    <3>5. Register!Settle
      BY <3>1, <3>4 DEF Register!Settle, Kept
    <3> QED BY <3>5 DEF Register!Next
  <2> QED BY <1>0, <2>4, <2>5
<1>5. CASE RemoveDefaults(s)
  <2>1. w.pc = "idle" /\ v.pc \in {"remove", "unlinkDef"}
    BY <1>5, MovedTypes DEF RemoveDefaults, IdleSaver, Asked
  <2>2. file'[Typ] = file[Typ] /\ file'[Def] = Absent
    BY <1>5 DEF RemoveDefaults, TypeOK
  <2>3. Midway(s) /\ ~Midway(s)'
    BY <1>0, <2>1 DEF Midway
  <2>4. Kept = <<file[Typ], Absent>> /\ Kept' = Kept
    BY <1>0, <2>1, <2>2, <2>3, KeptByOne
  <2>5. Register!Settle
    BY <2>2, <2>4 DEF Register!Settle, Kept
  <2> QED BY <2>5 DEF Register!Next
<1>6. CASE SaveFails(s)
  <2>1. faulty /\ file' = file /\ w.pc = "idle"
    BY <1>6 DEF SaveFails, TypeOK, IdleSaver, Asked
  <2>2. Kept' = <<file[Typ], file[Def]>>
    BY <2>1, KeptByOne DEF Midway
  <2>3. CASE Midway(s)
    <3>1. Kept[1] = file[Typ]
      BY <2>3, KeptByOne
    <3>2. Register!LoseDefaults
      BY <2>1, <2>2, <3>1 DEF Register!LoseDefaults, Kept
    <3> QED BY <3>2 DEF Register!Next
  <2>4. CASE ~Midway(s)
    BY <2>1, <2>2, <2>4, KeptByOne
  <2> QED BY <2>3, <2>4
<1>7. CASE Delete(s)
  <2>1. v.pc = "idle" /\ w.pc = "unlinkTyp" /\ w.at = Typ /\ file' = file
    BY <1>7 DEF Delete, TypeOK, Asked
  <2>2. ~Midway(s) /\ ~Midway(s)'
    BY <2>1 DEF Midway
  <2> QED BY <2>1, <2>2, KeptByOne
<1>8. CASE UnlinkTyp(s)
  <2>1. v.pc = "unlinkTyp" /\ Exists(Typ)
    BY <1>0, <1>8 DEF UnlinkTyp, Exists
  <2>2. w = Asked("unlinkDef", {}, Absent) /\ file'[Typ] = Absent
    BY <1>8, <2>1, MovedTypes DEF UnlinkTyp, TypeOK
  <2>3. Midway(s)' /\ w.def = Absent
    BY <2>2 DEF Midway, Asked
  <2>4. Kept' = <<Absent, Absent>>
    BY <2>2, <2>3, KeptByOne
  <2>5. ~Midway(s) /\ file'[Def] = file[Def]
    BY <1>0, <1>8, <2>1 DEF Midway, UnlinkTyp, TypeOK
  <2>6. Kept = <<file[Typ], file[Def]>>
    BY <2>5, KeptByOne
  <2>7. Register!Delete
    BY <1>0, <2>1, <2>4, <2>5, <2>6 DEF Register!Delete, Register!Settled, Kept
  <2> QED BY <2>7 DEF Register!Next
<1> QED BY <1>1, <1>2, <1>3, <1>4, <1>5, <1>6, <1>7, <1>8 DEF SaverStep

(* As long as saves do not overlap, a template is one pair of a source and *)
(* defaults that were saved together; only a fault ever parts them, and    *)
(* then the defaults are those that stood before the save (designerPut,    *)
(* designerDelete, writeAtomic, writeOrRemove).                            *)
THEOREM RegisterRefinement == ASSUME OneDesigner PROVE Spec => ImplementsRegister
<1>1. Init => Register!Init
  <2> SUFFICES ASSUME Init PROVE Kept = <<{}, Absent>> /\ file[Def] = Absent
    BY DEF Register!Init, Kept
  <2>1. \A s \in Savers : ~Midway(s)
    BY DEF Init, Midway, IdleSaver, Asked
  <2> QED BY <2>1, NamesAreNumbers DEF Init, Kept
<1>2. SavesInv /\ [Next]_vars => Register!Next \/ (Kept' = Kept /\ file'[Def] = file[Def])
  <2> SUFFICES ASSUME SavesInv, [Next]_vars
               PROVE  Register!Next \/ (Kept' = Kept /\ file'[Def] = file[Def])
    OBVIOUS
  <2>1. ASSUME NEW s \in Savers, SaverStep(s)
        PROVE  Register!Next \/ (Kept' = Kept /\ file'[Def] = file[Def])
    BY <2>1, SaverRefines DEF SavesInv
  <2>2. ASSUME NEW r \in Renders, RenderStep(r) PROVE Kept' = Kept /\ file' = file
    <3>1. file' = file /\ sv' = sv
      BY <2>2 DEF RenderStep, StartRender, ApplyDefaults, List, Copy, Compile, StampTyp, StampDef
    <3> QED BY <3>1 DEF Kept, Midway
  <2>3. CASE Crash
    <3>1. PICK s \in Savers : sv[s].pc # "idle"
      BY <2>3 DEF Crash
    <3>2. faulty /\ file' = file /\ sv'[s].pc = "idle"
      BY <2>3 DEF Crash, IdleSaver, Asked
    <3>3. Kept' = <<file[Typ], file[Def]>>
      BY <3>2, KeptByOne DEF Midway
    <3>4. CASE Midway(s)
      <4>1. Kept[1] = file[Typ]
        BY <3>4, KeptByOne
      <4>2. Register!LoseDefaults
        BY <3>2, <3>3, <4>1 DEF Register!LoseDefaults, Kept
      <4> QED BY <4>2 DEF Register!Next
    <3>5. CASE ~Midway(s)
      BY <3>2, <3>3, <3>5, KeptByOne
    <3> QED BY <3>4, <3>5
  <2>4. CASE UNCHANGED vars
    BY <2>4 DEF vars, Kept, Midway
  <2> QED BY <2>1, <2>2, <2>3, <2>4 DEF Next
<1>3. SavesInv /\ [Next]_vars => [Register!Next]_<<Kept, file[Def]>>
  BY <1>2
<1> QED BY <1>1, <1>3, SavesInvHolds, PTL
        DEF Spec, Register!Spec, Register!vars, ImplementsRegister, Kept

=============================================================================
