------------------------------ MODULE SchemaMeaning ------------------------------
(***************************************************************************)
(* What the schema subset means, defined apart from the way the code       *)
(* evaluates it, and what that evaluation has to do with it.               *)
(***************************************************************************)
EXTENDS Schema

(* What a schema means, keyword by keyword, each asserting something of the  *)
(* value whatever the others say; equality is of numbers by their value.     *)
CanonicalGiven(canonical, v) ==
  CASE IsNumber(v) -> [number |-> NumberOf(v)]
    [] Is(v, {"array"}) -> [array |-> [i \in DOMAIN v.array |-> canonical[v.array[i]]]]
    [] Is(v, {"object"}) -> [object |-> [k \in DOMAIN v.object |-> canonical[At(v, k)]]]
    [] OTHER -> v

Canonical[v \in Json] == CanonicalGiven(Canonical, v)

(* What one keyword asserts, given what schemas mean of the parts of v.      *)
Asserted(v, s, key, conforms) ==
  LET arg == At(s, key)
      names == IF Is(v, {"object"}) THEN DOMAIN v.object ELSE {}
      listed == IF Has(s, "properties") THEN DOMAIN At(s, "properties").object ELSE {}
      size == CASE Is(v, {"string"}) -> Length[v.string]
                [] Is(v, {"array"}) -> Len(v.array)
                [] OTHER -> 0
      sized == CASE Is(v, {"string"}) -> {"minLength", "maxLength"}
                 [] Is(v, {"array"}) -> {"minItems", "maxItems"}
                 [] OTHER -> {}
  IN CASE key = "type" ->
            \/ Is(arg, {"null"})
            \/ \E t \in DOMAIN KindsOf :
                 /\ [string |-> t] \in {arg} \cup ToSet(TypesOf(s))
                 /\ Is(v, KindsOf[t])
       [] key = "const" -> Canonical[v] = Canonical[arg]
       [] key = "enum" -> Canonical[v] \in {Canonical[e] : e \in ToSet(arg.array)}
       [] key \in Bounds -> IsNumber(v) =>
            LET n == NumberOf(v) b == NumberOf(arg)
            IN /\ key = "minimum" => n >= b
               /\ key = "maximum" => n <= b
               /\ key = "exclusiveMinimum" => n > b
               /\ key = "exclusiveMaximum" => n < b
       [] key \in {"minLength", "minItems"} -> key \in sized => size >= arg.integer
       [] key \in {"maxLength", "maxItems"} -> key \in sized => size <= arg.integer
       [] key = "pattern" -> Is(v, {"string"}) => <<arg.string, v.string>> \in Found
       [] key = "items" -> Is(v, {"array"}) => \A e \in ToSet(v.array) : conforms[e][arg]
       [] key = "required" ->
            Is(v, {"object"}) => \A name \in ToSet(arg.array) : name.string \in names
       [] key = "properties" -> \A name \in names \cap listed :
                                  conforms[At(v, name)][At(arg, name)]
       [] key = "additionalProperties" ->
            \A name \in names \ listed :
              IF Is(arg, {"boolean"}) THEN arg.boolean ELSE conforms[At(v, name)][arg]
       [] OTHER -> key \in Keywords

Conforms[v \in Json] ==
  [s \in Json |-> \A key \in DOMAIN s.object : Asserted(v, s, key, Conforms)]

(* G0 and V2 decide by what the schemas mean: what they let through conforms *)
(* in every keyword at every depth, and what they find invalid does not      *)
(* (schema.py; early returns, equality and dispatch on kinds in between).    *)
DecidesByMeaning ==
  /\ verdict = "NONE" => /\ gate = "VALID" => Conforms[value][input]
                         /\ gate = "INVALID" => ~Conforms[value][input]
  /\ verdict = "VALID" => Conforms[value][output]
  /\ verdict = "INVALID" => ~Conforms[value][output]

(* Where an evaluation raises, an integer beyond a double occurs somewhere,  *)
(* or an object within what should be a type, or a pattern that compilation  *)
(* overflows on: whatever else instance_errors relies on, schema_errors has  *)
(* looked at (schema.py:25 and 88).                                          *)
RaisesForCause ==
  "RAISED" \in {gate, verdict} =>
    \E v \in UNION {Occurring[w] : w \in {input, output, value}} :
      \/ Huge(v)
      \/ /\ Is(v, {"object"}) /\ Has(v, "type")
         /\ \E t \in Occurring[At(v, "type")] : Is(t, {"object"})
      \/ /\ Is(v, {"object"}) /\ Has(v, "pattern")
         /\ At(v, "pattern") \in [string : Overflowing]

(* A tool whose output schema is beyond the subset is never executed, so V2  *)
(* meets no result that it cannot judge (gates.py:246 looks at both).        *)
OutputJudgeable == verdict # "UNSUPPORTED"

(* "Validate a JSON value against a schema already accepted by               *)
(* schema_errors": an accepted schema decides about every JSON value.        *)
AcceptedDecides == Accepted({input, output}) => "RAISED" \notin {gate, verdict}
=============================================================================
