--------------------------------- MODULE Schema ---------------------------------
(***************************************************************************)
(* The JSON Schema subset and its three uses: G0 judges the arguments of a *)
(* request, V2 the output of its result, and the finish check, which does  *)
(* what V2 does with the schema of the task.                               *)
(*                                                                         *)
(* A JSON value is a record with one field, named after its kind, as       *)
(* freeze_json leaves it.  A float is one with an integral value; text is  *)
(* a name whose length and matches are tables.  A schema is a JSON value   *)
(* like any other.  The code collects messages; here only whether there    *)
(* are any is told, and whether the evaluation raises instead.             *)
(***************************************************************************)
EXTENDS Integers, Sequences, SequencesExt

CONSTANTS MaxDouble,    \* the largest integer that still converts to a double
          MaxPrinted,   \* the largest integer that still converts to text
          Length,       \* the length of each text
          Patterns,     \* the texts that compile as a regular expression
          Overflowing,  \* the texts whose compilation raises more than a re.error
          Found,        \* the pairs of a pattern and a text it is found in
          Json,         \* JSON values, with every part of one among them
          Height,       \* how deep each of them nests
          Schemas,      \* the schemas that tools declare
          Values        \* the arguments and the outputs

VARIABLES input, output,  \* the schemas of the registered tool
          value,          \* what is judged: the arguments, then the result's output
          gate, verdict   \* what G0 and V2 say of it

vars == <<input, output, value, gate, verdict>>

Kind(v) == CHOOSE k \in DOMAIN v : TRUE
Is(v, kinds) == Kind(v) \in kinds
Has(v, key) == key \in DOMAIN v.object
At(v, key) == v.object[key]
Null == [null |-> 0]

Elements(v) ==
  CASE Is(v, {"array"}) -> ToSet(v.array)
    [] Is(v, {"object"}) -> {At(v, key) : key \in DOMAIN v.object}
    [] OTHER -> {}

(* freeze_json admits nothing else, and no value within itself.             *)
ASSUME SchemaAssumption ==
  /\ MaxDouble \in Nat /\ MaxPrinted \in Nat /\ MaxDouble <= MaxPrinted
  /\ \A t \in DOMAIN Length : Length[t] \in Nat
  /\ Patterns \subseteq DOMAIN Length
  /\ Overflowing \subseteq DOMAIN Length \ Patterns
  /\ Schemas \subseteq Json /\ Values \subseteq Json
  /\ Height \in [Json -> Nat]
  /\ \A v \in Json :
       /\ \/ v \in [null : {0}] \cup [boolean : BOOLEAN] \cup [integer : Int] \cup [float : Int]
                   \cup [string : DOMAIN Length] \cup [array : Seq(Json)]
          \/ Is(v, {"object"}) /\ v \in [object : [DOMAIN v.object -> Json]]
       /\ \A e \in Elements(v) : Height[e] < Height[v]

Bounds  == {"minimum", "maximum", "exclusiveMinimum", "exclusiveMaximum"}
Lengths == {"minLength", "maxLength", "minItems", "maxItems"}
Keywords ==
  {"type", "properties", "required", "additionalProperties", "items", "enum", "const",
   "pattern", "title", "description", "examples", "default", "$comment"} \cup Bounds
     \cup Lengths

(* _matches_type: the kinds of value that each type name admits.  A boolean  *)
(* is no number, and a float is no integer.                                  *)
KindsOf ==
  [object |-> {"object"}, array |-> {"array"}, string |-> {"string"},
   integer |-> {"integer"}, number |-> {"integer", "float"}, boolean |-> {"boolean"},
   null |-> {"null"}]

TypeNames == {[string |-> t] : t \in DOMAIN KindsOf}

(* A null type counts as no type.                                            *)
Typed(s) == Has(s, "type") /\ ~Is(At(s, "type"), {"null"})
TypesOf(s) ==
  IF Is(At(s, "type"), {"array"}) THEN At(s, "type").array ELSE <<At(s, "type")>>

(* math.isfinite converts to a double, and raises when it cannot.            *)
Huge(v) == Is(v, {"integer"}) /\ v.integer \notin -MaxDouble..MaxDouble

IsNumber(v) == Is(v, {"integer", "float"})
NumberOf(v) == IF Is(v, {"integer"}) THEN v.integer ELSE v.float

-----------------------------------------------------------------------------
PropertiesOf(s) ==
  IF Has(s, "properties") /\ Is(At(s, "properties"), {"object"})
  THEN At(s, "properties").object ELSE <<>>

(* Mutated: a schema under additionalProperties is taken as it is.           *)
ChildrenListed(s) ==
  {PropertiesOf(s)[name] : name \in DOMAIN PropertiesOf(s)}
    \cup {At(s, key) : key \in {"items"} \cap DOMAIN s.object}

(* The schemas that schema_errors calls itself for.                          *)
Children(s) ==
  {PropertiesOf(s)[name] : name \in DOMAIN PropertiesOf(s)}
    \cup {At(s, key) : key \in {"items"} \cap DOMAIN s.object}
    \cup {e \in {At(s, key) : key \in {"additionalProperties"} \cap DOMAIN s.object} :
            ~Is(e, {"boolean"})}

Reached[s \in Json] ==
  {s} \cup IF Is(s, {"object"}) THEN UNION {Reached[c] : c \in Children(s)} ELSE {}

(* What instance_errors takes for granted where it reads a schema; without   *)
(* it, a lookup, a comparison or a loop of it raises.                        *)
WellFormed(s) ==
  /\ Is(s, {"object"})
  /\ Typed(s) => TypesOf(s) # <<>> /\ ToSet(TypesOf(s)) \subseteq TypeNames
  /\ Has(s, "properties") => Is(At(s, "properties"), {"object"})
  /\ Has(s, "required") =>
       /\ Is(At(s, "required"), {"array"})
       /\ \A name \in ToSet(At(s, "required").array) : Is(name, {"string"})
  /\ Has(s, "enum") => Is(At(s, "enum"), {"array"})
  /\ \A key \in Bounds \cap DOMAIN s.object : IsNumber(At(s, key))
  /\ \A key \in Lengths \cap DOMAIN s.object :
       Is(At(s, key), {"integer"}) /\ At(s, key).integer >= 0
  /\ Has(s, "pattern") =>
       Is(At(s, "pattern"), {"string"}) /\ At(s, "pattern").string \in Patterns

(* Whatever occurs in a value, itself included.  An array is hashed with all *)
(* that it holds, and no object can be.                                      *)
Occurring[v \in Json] == {v} \cup UNION {Occurring[e] : e \in Elements(v)}

Unhashable(v) == \E e \in Occurring[v] : Is(e, {"object"})
Unprintable(v) == Is(v, {"integer"}) /\ v.integer \notin -MaxPrinted..MaxPrinted

(* What cannot be hashed cannot be looked up among the type names, and an    *)
(* invalid type is printed for the message; a huge bound cannot be tested    *)
(* for being finite; and only re.error and TypeError of a pattern are caught.*)
SchemaRaises(s) ==
  /\ Is(s, {"object"})
  /\ \/ /\ Typed(s)
        /\ \E i \in DOMAIN TypesOf(s) :
             /\ Unhashable(TypesOf(s)[i])
             /\ \A j \in 1..(i - 1) : TypesOf(s)[j] \in TypeNames
     \/ /\ Typed(s)
        /\ TypesOf(s) = <<>> \/ ~ (ToSet(TypesOf(s)) \subseteq TypeNames)
        /\ \E n \in Occurring[At(s, "type")] : Unprintable(n)
     \/ \E key \in Bounds \cap DOMAIN s.object : Huge(At(s, key))
     \/ /\ Has(s, "pattern")
        /\ Is(At(s, "pattern"), {"string"}) /\ At(s, "pattern").string \in Overflowing

(* schema_errors looks at one schema to the end and finds nothing.           *)
Supported(s) ==
  /\ WellFormed(s) /\ DOMAIN s.object \subseteq Keywords
  /\ ~SchemaRaises(s)

-----------------------------------------------------------------------------
(* Mutated: booleans compare as the numbers 0 and 1, as they do in Python.   *)
SameNumberLoosely(left, right) ==
  LET number(v) == IF Is(v, {"boolean"}) THEN IF v.boolean THEN 1 ELSE 0 ELSE NumberOf(v)
      scalar == {"boolean", "integer", "float"}
  IN Is(left, scalar) /\ Is(right, scalar) /\ number(left) = number(right)

SameNumber(left, right) ==
  IsNumber(left) /\ IsNumber(right) /\ NumberOf(left) = NumberOf(right)

Equal[left \in Json] == [right \in Json |->
  \/ SameNumber(left, right)
  \/ /\ Is(left, {"array"}) /\ Is(right, {"array"})
     /\ Len(left.array) = Len(right.array)
     /\ \A i \in DOMAIN left.array : Equal[left.array[i]][right.array[i]]
  \/ /\ Is(left, {"object"}) /\ Is(right, {"object"})
     /\ DOMAIN left.object = DOMAIN right.object
     /\ \A key \in DOMAIN left.object : Equal[At(left, key)][At(right, key)]
  \/ left = right]

Admitted(v, s) ==
  Typed(s) => \E t \in ToSet(TypesOf(s)) \cap TypeNames : Kind(v) \in KindsOf[t.string]

(* The pairs of a value and a schema that instance_errors calls itself for;  *)
(* a value of the wrong type is not looked into.                             *)
Parts(v, s) ==
  IF ~WellFormed(s) \/ ~Admitted(v, s) THEN {}
  ELSE IF Is(v, {"array"}) /\ Has(s, "items")
  THEN {<<item, At(s, "items")>> : item \in ToSet(v.array)}
  ELSE IF Is(v, {"object"})
  THEN {<<At(v, name), PropertiesOf(s)[name]>> :
          name \in DOMAIN v.object \cap DOMAIN PropertiesOf(s)}
       \cup IF Has(s, "additionalProperties") /\ Is(At(s, "additionalProperties"), {"object"})
            THEN {<<At(v, name), At(s, "additionalProperties")>> :
                    name \in DOMAIN v.object \ DOMAIN PropertiesOf(s)}
            ELSE {}
  ELSE {}

Judged[v \in Json] ==
  [s \in Json |-> {<<v, s>>} \cup UNION {Judged[p[1]][p[2]] : p \in Parts(v, s)}]

Within(n, s, least, most) ==
  /\ Has(s, least) => n >= NumberOf(At(s, least))
  /\ Has(s, most) => n <= NumberOf(At(s, most))

(* instance_errors at one value, apart from what it finds in its parts.      *)
Fits(v, s) ==
  /\ Admitted(v, s)
  /\ Has(s, "const") => Equal[v][At(s, "const")]
  /\ Has(s, "enum") => \E item \in ToSet(At(s, "enum").array) : Equal[v][item]
  /\ IsNumber(v) =>
       /\ Within(NumberOf(v), s, "minimum", "maximum")
       /\ Has(s, "exclusiveMinimum") => NumberOf(v) > NumberOf(At(s, "exclusiveMinimum"))
       /\ Has(s, "exclusiveMaximum") => NumberOf(v) < NumberOf(At(s, "exclusiveMaximum"))
  /\ Is(v, {"string"}) =>
       /\ Within(Length[v.string], s, "minLength", "maxLength")
       /\ Has(s, "pattern") => <<At(s, "pattern").string, v.string>> \in Found
  /\ Is(v, {"array"}) => Within(Len(v.array), s, "minItems", "maxItems")
  /\ Is(v, {"object"}) =>
       /\ Has(s, "required") =>
            \A name \in ToSet(At(s, "required").array) : Has(v, name.string)
       /\ Has(s, "additionalProperties") /\ At(s, "additionalProperties") = [boolean |-> FALSE]
            => DOMAIN v.object \subseteq DOMAIN PropertiesOf(s)

-----------------------------------------------------------------------------
(* schema_errors of some schemas, then instance_errors where they are        *)
(* accepted.                                                                 *)
Accepted(schemas) == \A s \in UNION {Reached[t] : t \in schemas} : Supported(s)

Evaluate(v, s, schemas) ==
  IF \E t \in UNION {Reached[u] : u \in schemas} : SchemaRaises(t) THEN "RAISED"
  ELSE IF ~Accepted(schemas) THEN "UNSUPPORTED"
  ELSE IF \E p \in Judged[v][s] : Huge(p[1]) \/ ~WellFormed(p[2]) THEN "RAISED"
  ELSE IF \A p \in Judged[v][s] : Fits(p[1], p[2]) THEN "VALID"
  ELSE "INVALID"

(* Mutated: G0 leaves the output schema for V2 to look at.                   *)
G0InputOnly == Evaluate(value, input, {input})

(* G0: both schemas of the tool are judged before the arguments are.         *)
G0 == Evaluate(value, input, {input, output})

(* The arguments of a ToolCallRequest are an object.                         *)
Init ==
  /\ input \in Schemas /\ output \in Schemas
  /\ value \in {v \in Values : Is(v, {"object"})}
  /\ gate = "NONE" /\ verdict = "NONE"

(* static_check; a gate that raises cannot decide, and denies.               *)
Check ==
  /\ gate = "NONE"
  /\ gate' = G0
  /\ UNCHANGED <<input, output, value, verdict>>

(* The executor returns any JSON value, and V2 judges it.                    *)
Verify ==
  /\ gate = "VALID" /\ verdict = "NONE"
  /\ value' \in Values
  /\ verdict' = Evaluate(value', output, {output})
  /\ UNCHANGED <<input, output, gate>>

Settled == (gate \notin {"NONE", "VALID"} \/ verdict # "NONE") /\ UNCHANGED vars

Next == Check \/ Verify \/ Settled

Spec == Init /\ [][Next]_vars
=============================================================================
