-------------------------------- MODULE MCSchema --------------------------------
(***************************************************************************)
(* Small instances of Schema: one schema or more for every keyword, alone, *)
(* nested, ill-formed and unknown, and values of every kind.               *)
(***************************************************************************)
EXTENDS SchemaMeaning

Obj(f)  == [object |-> f]
Arr(e)  == [array |-> e]
Text(t) == [string |-> t]
Num(n)  == [integer |-> n]
Float(n) == [float |-> n]
Bool(b) == [boolean |-> b]

Beyond == MaxDouble + 1
Giant  == MaxPrinted + 1

MCLength ==
  [abc |-> 3, a |-> 1, bracket |-> 1, integer |-> 7, number |-> 6, null |-> 4, string |-> 6,
   boolean |-> 7, array |-> 5, flood |-> 13]
MCFound  == {<<"a", "abc">>, <<"a", "a">>, <<"abc", "abc">>}

Named == Obj([properties |-> Obj([a |-> Obj([type |-> Text("integer")])]),
              required |-> Arr(<<Text("a")>>)])

MCSchemas == {
  Obj(<<>>),
  Obj([type |-> Text("integer"), minimum |-> Num(0), exclusiveMaximum |-> Num(2)]),
  Obj([type |-> Arr(<<Text("number"), Text("null")>>), maximum |-> Float(1),
       exclusiveMinimum |-> Num(0)]),
  Obj([type |-> Null, const |-> Num(1)]),
  Obj([enum |-> Arr(<<Bool(TRUE), Arr(<<Num(0), Num(1)>>), Obj([a |-> Float(1)])>>)]),
  Obj([type |-> Text("string"), minLength |-> Num(1), maxLength |-> Num(2),
       pattern |-> Text("a")]),
  Obj([items |-> Obj([type |-> Text("boolean")]), minItems |-> Num(1), maxItems |-> Num(2)]),
  Named,
  Obj([properties |-> Obj([a |-> Obj(<<>>)]), additionalProperties |-> Bool(FALSE)]),
  Obj([additionalProperties |-> Named, title |-> Text("abc")]),
  Obj([type |-> Text("abc")]),
  Obj([type |-> Arr(<<Text("array"), Obj(<<>>)>>)]),
  Obj([type |-> Arr(<<Text("abc"), Obj(<<>>)>>)]),
  Obj([type |-> Arr(<<Arr(<<Obj(<<>>)>>)>>)]),
  Obj([type |-> Arr(<<Arr(<<Text("integer")>>)>>)]),
  Obj([type |-> Num(Beyond)]),
  Obj([type |-> Arr(<<Text("integer"), Num(Giant)>>)]),
  Obj([properties |-> Arr(<<>>)]),
  Obj([required |-> Text("a")]),
  Obj([additionalProperties |-> Obj([format |-> Text("abc")])]),
  Obj([additionalProperties |-> Obj([type |-> Text("abc")])]),
  Obj([items |-> Text("abc")]),
  Obj([items |-> Obj([enum |-> Null])]),
  Obj([maximum |-> Num(Beyond)]),
  Obj([minimum |-> Text("a")]),
  Obj([minLength |-> Bool(TRUE)]),
  Obj([maxItems |-> Num(-1)]),
  Obj([pattern |-> Text("bracket")]),
  Obj([pattern |-> Text("flood")]) }

MCValues == {
  Null, Bool(TRUE), Num(-1), Num(1), Num(2), Float(1), Num(Beyond), Text("a"), Text("abc"),
  Arr(<<>>), Arr(<<Num(0), Num(1)>>), Arr(<<Float(0), Bool(TRUE)>>), Arr(<<Bool(TRUE)>>),
  Arr(<<Num(Beyond)>>), Obj(<<>>), Obj([a |-> Num(1)]), Obj([a |-> Bool(TRUE)]),
  Obj([b |-> Obj([a |-> Num(1)])]), Obj([b |-> Obj([a |-> Num(Beyond)])]),
  Obj([a |-> Num(2), b |-> Null]) }

RECURSIVE PartsOf(_)
PartsOf(v) == {v} \cup UNION {PartsOf(e) : e \in Elements(v)}

RECURSIVE HeightOf(_)
HeightOf(v) == 1 + Max({0} \cup {HeightOf(e) : e \in Elements(v)})

MCJson   == UNION {PartsOf(v) : v \in MCSchemas \cup MCValues}
MCHeight == [v \in MCJson |-> HeightOf(v)]
=============================================================================
