----------------------------- MODULE EditorPane -----------------------------
(***************************************************************************)
(* What the designer says and does about the payload keys of the open      *)
(* template: the audit of the keys that the defaults do not supply and its *)
(* one-click fix, the page form and the wiring of components/page.typ      *)
(* (state/designer.ts, components/PageSetupForm.vue), and the completion   *)
(* of keys (editor/typst.ts).                                              *)
(*                                                                         *)
(* A source is the set of its references to keys and whether it loads the  *)
(* data and applies the page component; a JSON text is what parsing makes  *)
(* of it.  The type of a key's value is left out, except of page: a        *)
(* placeholder is never the list that a source may want to loop over.      *)
(***************************************************************************)
EXTENDS Naturals, FiniteSets

CONSTANTS
  Plain,      \* keys that are identifiers
  Methods,    \* keys with the name of a method of a dictionary
  Hyphenated, \* keys with a hyphen, identifiers of Typst and not of \w
  PageKey,    \* the key page
  Fields,     \* of the page object
  MaxRefs     \* BOUND: references to keys in the source

ASSUME KeysAssumption == (Plain \cup {PageKey}) \cap (Methods \cup Hyphenated) = {}

Keys == Plain \cup Methods \cup Hyphenated \cup {PageKey}
(* What a regular expression without hyphens sees of a hyphenated key. *)
Stem(k) == <<"stem", k>>
Seen == Keys \cup {Stem(k) : k \in Hyphenated}

(* d.key, d.at("key") and d.at("key", default: ..) in the source. *)
Forms == {"field", "at", "atOr"}
Wirings == {"none", "mentioned", "wired"}

(* JSON texts: of an object, of something else, no JSON, or blank. *)
Kinds == {"object", "other", "broken", "blank"}
Json == [kind : Kinds, keys : SUBSET (Seen \ {PageKey}), page : {"absent", "odd", "object"},
         fields : [Fields -> {"unset", "set"}]]
Nothing == [f \in Fields |-> "unset"]
Blank == [kind |-> "blank", keys |-> {}, page |-> "absent", fields |-> Nothing]

VARIABLES
  refs,     \* the references to keys in the source
  anchored, \* the source has the line that loads data.json into d
  wiring,   \* of components/page.typ: only its name is there, or it is applied
  defaults,
  example   \* the keys of the object that the example is, none if it is none

source == <<refs, anchored, wiring>>
vars == <<source, defaults, example>>

Have(json) ==
  IF json.kind # "object" THEN {}
  ELSE json.keys \cup IF json.page = "absent" THEN {} ELSE {PageKey}
(* JSON.parse(defaults || '{}') is an object. *)
Readable(json) == json.kind \in {"object", "blank"}

(* The keys that the audit finds in the source. *)
Used ==
  {r[2] : r \in {x \in refs : x[1] # "field" \/ x[2] \notin Methods \cup Hyphenated}}
  \cup {Stem(r[2]) : r \in {x \in refs : x[1] = "field" /\ x[2] \in Hyphenated}}

missingKeys == IF Readable(defaults) THEN Used \ Have(defaults) ELSE {}
usesBranded == wiring # "none"

(* dataKeys. *)
DataKeys == Have(defaults) \cup example

Init ==
  /\ refs = {} /\ anchored = TRUE /\ wiring = "none"
  /\ defaults = Blank /\ example = {}

-----------------------------------------------------------------------------
(* The user types, in one tab or another.                                  *)

Toggle(set, x) == IF x \in set THEN set \ {x} ELSE set \cup {x}

TypeSource ==
  /\ \/ \E r \in Forms \X Keys : refs' = Toggle(refs, r) /\ UNCHANGED <<anchored, wiring>>
     \/ anchored' = ~anchored /\ UNCHANGED <<refs, wiring>>
     \/ wiring' \in Wirings \ {wiring} /\ UNCHANGED <<refs, anchored>>
  /\ Cardinality(refs') <= MaxRefs
  /\ UNCHANGED <<defaults, example>>

(* A JSON text edited: a key more or less, another page, or the text       *)
(* becomes or ceases to be JSON.                                           *)
Edited(json) ==
  {[Blank EXCEPT !.kind = k] : k \in Kinds \ {"broken"}}
  \cup IF json.kind = "object"
       THEN {[json EXCEPT !.keys = Toggle(@, k)] : k \in Keys \ {PageKey}}
            \cup {[json EXCEPT !.page = p, !.fields = Nothing] : p \in {"absent", "odd", "object"}}
            \cup {[json EXCEPT !.kind = "broken"]}
       ELSE IF json.kind = "broken" THEN {[json EXCEPT !.kind = "object"]} ELSE {}

TypeDefaults ==
  /\ defaults' \in Edited(defaults)
  /\ UNCHANGED <<source, example>>

(* BOUND: the other keys of an example make no difference. *)
TypeExample ==
  /\ example' \in {{}} \cup {Toggle(example, k) : k \in Plain \cup Hyphenated}
  /\ UNCHANGED <<source, defaults>>

(* typstCompletions: after d. or d.at(" the keys of the two JSON texts. *)
CompleteKey(form, k) ==
  /\ k \in DataKeys \cap Keys
  /\ refs' = refs \cup {<<form, k>>}
  /\ Cardinality(refs') <= MaxRefs
  /\ UNCHANGED <<anchored, wiring, defaults, example>>

-----------------------------------------------------------------------------
(* The controls.                                                           *)

(* Variant: the defaults are written anew. *)
AddMissingAnew ==
  /\ missingKeys # {}
  /\ defaults' = [Blank EXCEPT !.kind = "object", !.keys = missingKeys \ {PageKey},
                               !.page = IF PageKey \in missingKeys THEN "odd" ELSE "absent"]
  /\ UNCHANGED <<source, example>>

(* Variant: one key at a time. *)
AddOneMissing ==
  /\ \E k \in missingKeys \ {PageKey} :
       defaults' = [defaults EXCEPT !.kind = "object", !.keys = @ \cup {k}]
  /\ UNCHANGED <<source, example>>

(* addMissingDefaults: a text for every missing key, for page too. *)
AddMissing ==
  /\ missingKeys # {}
  /\ defaults' = [kind |-> "object", keys |-> defaults.keys \cup (missingKeys \ {PageKey}),
                   page |-> IF PageKey \in missingKeys THEN "odd" ELSE defaults.page,
                   fields |-> defaults.fields]
  /\ UNCHANGED <<source, example>>

(* setPage: what parses and is no object is replaced.                      *)
SetPage(f) ==
  /\ defaults.kind # "broken"
  /\ defaults' = [defaults EXCEPT !.kind = "object", !.page = "object", !.fields[f] = "set"]
  /\ UNCHANGED <<source, example>>

(* applyBrandedToSource: after the line that loads the data, or with one. *)
ApplyBranded ==
  /\ ~usesBranded
  /\ wiring' = "wired" /\ anchored' = TRUE
  /\ UNCHANGED <<refs, defaults, example>>

Next ==
  \/ TypeSource \/ TypeDefaults \/ TypeExample
  \/ \E form \in {"field", "at"}, k \in Keys : CompleteKey(form, k)
  \/ AddMissing \/ ApplyBranded
  \/ \E f \in Fields : SetPage(f)

Spec == Init /\ [][Next]_vars

-----------------------------------------------------------------------------
(* Properties.                                                             *)

(* The keys without which compiling against the defaults fails, and what   *)
(* the save gate makes of the template as far as keys and page go (what    *)
(* Typst does with a source; external).                                    *)
Required == {r[2] : r \in {x \in refs : x[1] # "atOr"}}
Accepted ==
  /\ Readable(defaults)
  /\ Required \subseteq Have(defaults)
  /\ wiring = "wired" => defaults.page # "odd"

(* Type correctness. *)
TypeOK ==
  /\ refs \subseteq Forms \X Keys /\ anchored \in BOOLEAN /\ wiring \in Wirings
  /\ defaults \in Json /\ example \subseteq Keys

(* The one-click fix leaves nothing flagged, and a template that the gate  *)
(* takes stays one, unless page is flagged: page becomes a text, which the *)
(* page component cannot read.                                             *)
FixHelps ==
  [][AddMissing =>
       missingKeys' = {} /\ (Accepted /\ PageKey \notin missingKeys => Accepted')]_vars

(* A control never loses what was typed: it keeps every key of the         *)
(* defaults, keeps the page object but for one field, and writes nothing   *)
(* over a text that does not parse.                                        *)
ControlsKeep ==
  [][AddMissing \/ (\E f \in Fields : SetPage(f)) =>
       /\ defaults.kind # "broken"
       /\ Have(defaults) \subseteq Have(defaults')
       /\ defaults.page = "object" =>
            /\ defaults'.page = "object"
            /\ Cardinality({f \in Fields : defaults'.fields[f] # defaults.fields[f]}) <= 1]_vars

=============================================================================
