-------------------------- MODULE EditorPaneProofs --------------------------
(***************************************************************************)
(* What the key audit, its one-click fix and the page form keep, for any   *)
(* keys, any fields and a source of any size.                              *)
(***************************************************************************)
EXTENDS EditorPane, FiniteSetTheorems, TLAPS

(* A text that is no object, and would not be one if it parsed, has no     *)
(* keys.                                                                   *)
Keyless ==
  defaults.kind \in {"other", "blank"} => defaults.keys = {} /\ defaults.page = "absent"
Inv == TypeOK /\ Keyless

(* The audit finds keys of the source, or what it takes for them.          *)
LEMMA UsedType == ASSUME TypeOK PROVE Used \subseteq Seen
BY DEF TypeOK, Used, Seen, Stem, Keys, Forms

(* The fix, in one record.                                                 *)
LEMMA AddMissingStep ==
  ASSUME Inv, AddMissing
  PROVE  /\ Readable(defaults)
         /\ defaults' \in Json /\ defaults'.kind = "object"
         /\ defaults'.keys = defaults.keys \cup (missingKeys \ {PageKey})
         /\ defaults'.page = IF PageKey \in missingKeys THEN "odd" ELSE defaults.page
         /\ defaults'.fields = defaults.fields
         /\ UNCHANGED <<source, example>>
<1>1. Readable(defaults)
  BY DEF AddMissing, missingKeys
<1>2. missingKeys \ {PageKey} \subseteq Seen \ {PageKey}
  BY UsedType DEF Inv, missingKeys
<1>3. defaults \in Json /\ UNCHANGED <<source, example>>
  BY DEF AddMissing, Inv, TypeOK
<1> DEFINE K == defaults.keys \cup (missingKeys \ {PageKey})
           p == IF PageKey \in missingKeys THEN "odd" ELSE defaults.page
<1>4. K \in SUBSET (Seen \ {PageKey}) /\ p \in {"absent", "odd", "object"}
      /\ defaults.fields \in [Fields -> {"unset", "set"}]
  BY <1>2, <1>3 DEF Json
<1>5. defaults' = [kind |-> "object", keys |-> K, page |-> p, fields |-> defaults.fields]
  BY DEF AddMissing
<1> HIDE DEF K, p
<1>6. /\ defaults' \in Json /\ defaults'.kind = "object" /\ defaults'.keys = K
      /\ defaults'.page = p /\ defaults'.fields = defaults.fields
  BY <1>4, <1>5 DEF Json, Kinds
<1> QED BY <1>1, <1>3, <1>6 DEF K, p

(* The form, in one record.                                                *)
LEMMA SetPageStep ==
  ASSUME Inv, NEW f \in Fields, SetPage(f)
  PROVE  /\ defaults.kind # "broken"
         /\ defaults' \in Json /\ defaults'.kind = "object"
         /\ defaults'.keys = defaults.keys /\ defaults'.page = "object"
         /\ \A g \in Fields \ {f} : defaults'.fields[g] = defaults.fields[g]
         /\ UNCHANGED <<source, example>>
<1>1. defaults' = [defaults EXCEPT !.kind = "object", !.page = "object", !.fields[f] = "set"]
  BY DEF SetPage
<1>2. defaults \in Json /\ UNCHANGED <<source, example>> /\ defaults.kind # "broken"
  BY DEF SetPage, Inv, TypeOK
<1>3. /\ defaults' = [kind |-> "object", keys |-> defaults.keys, page |-> "object",
                      fields |-> [defaults.fields EXCEPT ![f] = "set"]]
      /\ defaults.keys \in SUBSET (Seen \ {PageKey})
      /\ defaults.fields \in [Fields -> {"unset", "set"}]
  BY <1>1, <1>2 DEF Json
<1> QED BY <1>2, <1>3 DEF Json, Kinds

(* Every step keeps the invariant. *)
LEMMA InvStep == Inv /\ [Next]_vars => Inv'
<1> SUFFICES ASSUME Inv, [Next]_vars PROVE Inv'
  OBVIOUS
<1> USE DEF source
<1>1. CASE TypeSource
  BY <1>1 DEF TypeSource, Inv, TypeOK, Keyless, Toggle, Wirings
<1>2. CASE TypeDefaults
  <2>1. \A S \in SUBSET (Seen \ {PageKey}), k \in Keys \ {PageKey} :
          Toggle(S, k) \in SUBSET (Seen \ {PageKey})
    BY DEF Toggle, Seen
  <2>2. \A e \in Edited(defaults) :
          /\ e \in Json
          /\ e.kind \in {"other", "blank"} => e.keys = {} /\ e.page = "absent"
    <3> TAKE e \in Edited(defaults)
    <3>1. CASE \E k \in Kinds \ {"broken"} : e = [Blank EXCEPT !.kind = k]
      BY <3>1 DEF Blank, Nothing, Json, Kinds
    <3>2. CASE /\ defaults.kind = "object"
               /\ \/ \E k \in Keys \ {PageKey} : e = [defaults EXCEPT !.keys = Toggle(@, k)]
                  \/ \E p \in {"absent", "odd", "object"} :
                       e = [defaults EXCEPT !.page = p, !.fields = Nothing]
                  \/ e = [defaults EXCEPT !.kind = "broken"]
      <4> DEFINE O == [kind |-> "object", keys |-> defaults.keys, page |-> defaults.page,
                       fields |-> defaults.fields]
      <4>1. defaults = O /\ defaults \in Json
        BY <3>2 DEF Inv, TypeOK, Json
      <4>2. ASSUME NEW k \in Keys \ {PageKey}, e = [defaults EXCEPT !.keys = Toggle(@, k)]
            PROVE  e \in Json /\ e.kind = "object"
        BY <2>1, <3>2, <4>1, <4>2 DEF Json
      <4>3. ASSUME NEW p \in {"absent", "odd", "object"},
                   e = [defaults EXCEPT !.page = p, !.fields = Nothing]
            PROVE  e \in Json /\ e.kind = "object"
        BY <3>2, <4>1, <4>3 DEF Json, Nothing
      <4>4. e = [defaults EXCEPT !.kind = "broken"] => e \in Json /\ e.kind = "broken"
        BY <4>1 DEF Json, Kinds
      <4> QED BY <3>2, <4>2, <4>3, <4>4
    <3>3. CASE defaults.kind = "broken" /\ e = [defaults EXCEPT !.kind = "object"]
      BY <3>3 DEF Inv, TypeOK, Json, Kinds
    <3> QED BY <3>1, <3>2, <3>3 DEF Edited
  <2> QED BY <1>2, <2>2 DEF TypeDefaults, Inv, TypeOK, Keyless
<1>3. CASE TypeExample
  BY <1>3 DEF TypeExample, Inv, TypeOK, Keyless, Toggle, Keys
<1>4. ASSUME NEW form \in {"field", "at"}, NEW k \in Keys, CompleteKey(form, k) PROVE Inv'
  BY <1>4 DEF CompleteKey, Inv, TypeOK, Keyless, Forms
<1>5. CASE AddMissing
  BY <1>5, AddMissingStep DEF Inv, TypeOK, Keyless
<1>6. CASE ApplyBranded
  BY <1>6 DEF ApplyBranded, Inv, TypeOK, Keyless, Wirings
<1>7. ASSUME NEW f \in Fields, SetPage(f) PROVE Inv'
  BY <1>7, SetPageStep DEF Inv, TypeOK, Keyless
<1>8. CASE UNCHANGED vars
  BY <1>8 DEF vars, Inv, TypeOK, Keyless
<1> QED BY <1>1, <1>2, <1>3, <1>4, <1>5, <1>6, <1>7, <1>8 DEF Next

(* The invariant holds. *)
THEOREM InvHolds == Spec => []Inv
<1>1. Init => Inv
  BY DEF Init, Inv, TypeOK, Keyless, Wirings, Blank, Nothing, Json, Kinds
<1> QED BY <1>1, InvStep, PTL DEF Spec

(* Type correctness. *)
THEOREM TypeCorrect == Spec => []TypeOK
BY InvHolds, PTL DEF Inv

(* Nothing is flagged after the fix, and it breaks nothing but page.       *)
THEOREM FixRepairs == Spec => FixHelps
<1>1. ASSUME Inv, AddMissing PROVE missingKeys' = {}
  <2>1. Used' = Used
    BY <1>1 DEF AddMissing, Used, source
  <2>2. Used \subseteq Have(defaults)'
    BY <1>1, AddMissingStep DEF Have, missingKeys
  <2> QED BY <2>1, <2>2 DEF missingKeys
<1>2. ASSUME Inv, AddMissing, Accepted, PageKey \notin missingKeys PROVE Accepted'
  <2>1. Required' = Required /\ wiring' = wiring
    BY <1>2, AddMissingStep DEF source, Required
  <2>2. Have(defaults) \subseteq Have(defaults)'
    BY <1>2, AddMissingStep DEF Have
  <2>3. Readable(defaults)' /\ defaults'.page = defaults.page
    BY <1>2, AddMissingStep DEF Readable
  <2> QED BY <1>2, <2>1, <2>2, <2>3 DEF Accepted
<1>3. Inv => [AddMissing => /\ missingKeys' = {}
                            /\ (Accepted /\ PageKey \notin missingKeys => Accepted')]_vars
  BY <1>1, <1>2
<1> QED BY <1>3, InvHolds, PTL DEF FixHelps

(* No control loses what was typed.                                        *)
THEOREM ControlsLoseNothing == Spec => ControlsKeep
<1> DEFINE Changed == {f \in Fields : defaults'.fields[f] # defaults.fields[f]}
           Kept == /\ defaults.kind # "broken"
                   /\ Have(defaults) \subseteq Have(defaults')
                   /\ defaults.page = "object" =>
                        defaults'.page = "object" /\ Cardinality(Changed) <= 1
<1>1. ASSUME Inv, AddMissing PROVE Kept
  <2>1. defaults.kind # "broken"
    BY <1>1, AddMissingStep DEF Readable
  <2>2. Have(defaults) \subseteq Have(defaults')
    BY <1>1, AddMissingStep DEF Have
  <2>3. defaults.page = "object" => PageKey \notin missingKeys
    BY <1>1, <2>1 DEF Inv, TypeOK, Json, Kinds, Keyless, Have, missingKeys
  <2>4. Cardinality(Changed) = 0
    <3>1. Changed = {}
      BY <1>1, AddMissingStep
    <3> QED BY <3>1, FS_EmptySet
  <2> QED BY <1>1, <2>1, <2>2, <2>3, <2>4, AddMissingStep
<1>2. ASSUME Inv, NEW f \in Fields, SetPage(f) PROVE Kept
  <2>1. Have(defaults) \subseteq Have(defaults')
    BY <1>2, SetPageStep DEF Have
  <2>2. Cardinality(Changed) <= 1
    <3>1. Changed \subseteq {f}
      BY <1>2, SetPageStep
    <3>2. IsFiniteSet({f}) /\ Cardinality({f}) = 1
      BY FS_Singleton
    <3>3. Cardinality(Changed) \in Nat /\ Cardinality(Changed) <= Cardinality({f})
      BY <3>1, <3>2, FS_Subset, FS_CardinalityType
    <3> QED BY <3>2, <3>3
  <2> QED BY <1>2, <2>1, <2>2, SetPageStep
<1>3. Inv => [AddMissing \/ (\E f \in Fields : SetPage(f)) => Kept]_vars
  BY <1>1, <1>2
<1>4. Inv => [AddMissing \/ (\E f \in Fields : SetPage(f)) =>
       /\ defaults.kind # "broken"
       /\ Have(defaults) \subseteq Have(defaults')
       /\ defaults.page = "object" =>
            /\ defaults'.page = "object"
            /\ Cardinality({f \in Fields : defaults'.fields[f] # defaults.fields[f]}) <= 1]_vars
  BY <1>3
<1> QED BY <1>4, InvHolds, PTL DEF ControlsKeep

=============================================================================
