------------------------------ MODULE SchemaProofs ------------------------------
(***************************************************************************)
(* What G0 and V2 decide, for every set of schemas and values: proved by   *)
(* induction over how deep a value nests.                                  *)
(***************************************************************************)
EXTENDS SchemaMeaning, WellFoundedInduction, TLAPS

(* A nonempty set has a member of least measure.                             *)
LEMMA LeastMeasure ==
  ASSUME NEW S, NEW R \in [S -> Nat], NEW P \in SUBSET S, P # {}
  PROVE  \E x \in P : \A y \in P : ~(R[y] < R[x])
<1> DEFINE values == {R[x] : x \in P}
           below == OpToRel(<, Nat)
<1>1. IsWellFoundedOn(below, Nat)
  BY NatLessThanWellFounded
<1>2. values \subseteq Nat /\ values # {}
  OBVIOUS
<1>3. PICK n \in values : \A m \in values : ~(<<m, n>> \in below)
  <2> HIDE DEF values, below
  <2> QED
    BY <1>1, <1>2, WFMin
<1>4. PICK x \in P : n = R[x]
  BY <1>3
<1>5. ASSUME NEW y \in P, R[y] < R[x] PROVE FALSE
  <2>1. R[y] \in values /\ R[y] \in Nat /\ n \in Nat
    BY <1>2, <1>3
  <2>2. ~(<<R[y], n>> \in {p \in Nat \X Nat : p[1] < p[2]})
    BY <1>3, <2>1 DEF OpToRel
  <2> QED
    BY <1>4, <1>5, <2>1, <2>2
<1> QED
  BY <1>5

-----------------------------------------------------------------------------
(* A definition that looks only at what has a smaller measure has a          *)
(* solution.  Solved(B, S, R, n, f): f solves it up to measure n.            *)
Solved(B, S, R, n, f) == \A x \in S : R[x] < n => f[x] = B[f][x]

Contracting(B, S, T, R) ==
  /\ T # {} /\ R \in [S -> Nat] /\ B \in [[S -> T] -> [S -> T]]
  /\ \A f, g \in [S -> T] : \A x \in S :
       (\A y \in S : R[y] < R[x] => f[y] = g[y]) => B[f][x] = B[g][x]

SolutionsAgree(B, S, T, R) ==
  \A n \in Nat : \A f, g \in [S -> T] :
    Solved(B, S, R, n, f) /\ Solved(B, S, R, n, g)
      => \A x \in S : R[x] < n => f[x] = g[x]

LEMMA SolvedOnce ==
  ASSUME NEW S, NEW T, NEW R, NEW B, Contracting(B, S, T, R)
  PROVE  SolutionsAgree(B, S, T, R)
<1>a. T # {} /\ R \in [S -> Nat] /\ B \in [[S -> T] -> [S -> T]]
  BY DEF Contracting
<1> USE <1>a
<1>0. SUFFICES ASSUME NEW n \in Nat, NEW f \in [S -> T], NEW g \in [S -> T],
                      Solved(B, S, R, n, f), Solved(B, S, R, n, g)
               PROVE  \A x \in S : R[x] < n => f[x] = g[x]
  BY DEF SolutionsAgree
<1> DEFINE P == {x \in S : R[x] < n /\ f[x] # g[x]}
<1>1. SUFFICES ASSUME P # {} PROVE FALSE
  OBVIOUS
<1>2. PICK x \in P : \A y \in P : ~(R[y] < R[x])
  <2>1. P \in SUBSET S
    OBVIOUS
  <2> HIDE DEF P
  <2> QED
    BY <1>1, <2>1, LeastMeasure
<1>3. \A y \in S : R[y] < R[x] => f[y] = g[y]
  BY <1>2
<1>4. B[f][x] = B[g][x]
  BY <1>2, <1>3 DEF Contracting
<1> QED
  BY <1>0, <1>2, <1>4 DEF Solved

LEMMA SolvedUpTo ==
  ASSUME NEW S, NEW T, NEW R, NEW B, Contracting(B, S, T, R)
  PROVE  \A n \in Nat : \E f \in [S -> T] : Solved(B, S, R, n, f)
<1>a. T # {} /\ R \in [S -> Nat] /\ B \in [[S -> T] -> [S -> T]]
  BY DEF Contracting
<1> USE <1>a
<1> DEFINE P == {n \in Nat : ~ \E f \in [S -> T] : Solved(B, S, R, n, f)}
<1>1. SUFFICES ASSUME P # {} PROVE FALSE
  OBVIOUS
<1>2. PICK n \in P : \A m \in P : ~([k \in Nat |-> k][m] < [k \in Nat |-> k][n])
  <2>1. P \in SUBSET Nat /\ [k \in Nat |-> k] \in [Nat -> Nat]
    OBVIOUS
  <2> HIDE DEF P
  <2> QED
    BY <1>1, <2>1, LeastMeasure
<1>3. n # 0
  <2>1. PICK t \in T : TRUE
    OBVIOUS
  <2>2. [x \in S |-> t] \in [S -> T] /\ Solved(B, S, R, 0, [x \in S |-> t])
    BY DEF Solved
  <2> QED
    BY <2>2
<1>4. PICK f \in [S -> T] : Solved(B, S, R, n - 1, f)
  BY <1>2, <1>3
<1> DEFINE g == B[f]
<1>5. g \in [S -> T]
  OBVIOUS
<1>6. ASSUME NEW x \in S, R[x] < n PROVE g[x] = B[g][x]
  <2>1. \A y \in S : R[y] < R[x] => g[y] = f[y]
    BY <1>2, <1>4, <1>6 DEF Solved
  <2> HIDE DEF g
  <2> QED
    BY <1>5, <2>1 DEF Contracting, g
<1>7. Solved(B, S, R, n, g)
  BY <1>6 DEF Solved
<1> QED
  BY <1>2, <1>5, <1>7

LEMMA Recursion ==
  ASSUME NEW S, NEW T, NEW R, NEW B, Contracting(B, S, T, R)
  PROVE  \E f \in [S -> T] : f = B[f]
<1>a. T # {} /\ R \in [S -> Nat] /\ B \in [[S -> T] -> [S -> T]]
  BY DEF Contracting
<1> USE <1>a
<1>0. SolutionsAgree(B, S, T, R)
  BY SolvedOnce
<1> DEFINE upTo[n \in Nat] == CHOOSE f \in [S -> T] : Solved(B, S, R, n, f)
           F == [x \in S |-> upTo[R[x] + 1][x]]
<1>1. \A n \in Nat : upTo[n] \in [S -> T] /\ Solved(B, S, R, n, upTo[n])
  BY SolvedUpTo
<1> HIDE DEF upTo
<1>2. \A x \in S : R[x] + 1 \in Nat /\ upTo[R[x] + 1] \in [S -> T]
  BY <1>1
<1>3. F \in [S -> T]
  BY <1>2
<1>4. ASSUME NEW x \in S PROVE F[x] = B[F][x]
  <2> DEFINE f == upTo[R[x] + 1]
  <2>1. f \in [S -> T] /\ Solved(B, S, R, R[x] + 1, f)
    BY <1>1, <1>2
  <2>2. F[x] = f[x] /\ f[x] = B[f][x]
    BY <2>1 DEF Solved
  <2>3. ASSUME NEW y \in S, R[y] < R[x] PROVE f[y] = F[y]
    <3> DEFINE g == upTo[R[y] + 1]
    <3>1. g \in [S -> T] /\ Solved(B, S, R, R[y] + 1, g)
      BY <1>1, <1>2
    <3>2. Solved(B, S, R, R[y] + 1, f)
      BY <2>1, <2>3 DEF Solved
    <3>3. F[y] = g[y]
      OBVIOUS
    <3>4. R[y] < R[y] + 1 /\ R[y] + 1 \in Nat
      OBVIOUS
    <3>5. \A z \in S : R[z] < R[y] + 1 => f[z] = g[z]
      <4> DEFINE k == R[y] + 1
      <4>1. k \in Nat /\ f \in [S -> T] /\ g \in [S -> T]
            /\ Solved(B, S, R, k, f) /\ Solved(B, S, R, k, g)
        BY <2>1, <3>1, <3>2, <3>4
      <4> HIDE DEF f, g, k
      <4>2. \A z \in S : R[z] < k => f[z] = g[z]
        BY <1>0, <4>1 DEF SolutionsAgree
      <4> QED
        BY <4>2 DEF k
    <3> HIDE DEF f, g, F
    <3> QED
      BY <3>3, <3>4, <3>5
  <2> HIDE DEF f, F
  <2> QED
    BY <1>3, <2>1, <2>2, <2>3 DEF Contracting
<1>5. F = B[F]
  <2> HIDE DEF F
  <2>1. B[F] \in [S -> T]
    BY <1>3
  <2> QED
    BY <1>3, <1>4, <2>1
<1> QED
  BY <1>3, <1>5
-----------------------------------------------------------------------------
(* What a JSON value is, kind by kind.                                       *)
LEMMA JsonKinds ==
  ASSUME NEW v \in Json
  PROVE  \/ Kind(v) = "null" /\ v = Null
         \/ Kind(v) = "boolean" /\ v = [boolean |-> v.boolean] /\ v.boolean \in BOOLEAN
         \/ Kind(v) = "integer" /\ v = [integer |-> v.integer] /\ v.integer \in Int
         \/ Kind(v) = "float" /\ v = [float |-> v.float] /\ v.float \in Int
         \/ Kind(v) = "string" /\ v = [string |-> v.string] /\ v.string \in DOMAIN Length
         \/ Kind(v) = "array" /\ v = [array |-> v.array] /\ v.array \in Seq(Json)
         \/ /\ Kind(v) = "object" /\ v = [object |-> v.object]
            /\ v.object \in [DOMAIN v.object -> Json]
<1>1. \/ v \in [null : {0}] \cup [boolean : BOOLEAN] \cup [integer : Int] \cup [float : Int]
             \cup [string : DOMAIN Length] \cup [array : Seq(Json)]
      \/ Is(v, {"object"}) /\ v \in [object : [DOMAIN v.object -> Json]]
  BY SchemaAssumption
<1>2. CASE v \in [null : {0}]
  <2>1. v = Null /\ DOMAIN v = {"null"}
    BY <1>2 DEF Null
  <2> QED
    BY <2>1 DEF Kind
<1>3. CASE v \in [boolean : BOOLEAN]
  <2>1. v = [boolean |-> v.boolean] /\ v.boolean \in BOOLEAN /\ DOMAIN v = {"boolean"}
    BY <1>3
  <2> QED
    BY <2>1 DEF Kind
<1>4. CASE v \in [integer : Int]
  <2>1. v = [integer |-> v.integer] /\ v.integer \in Int /\ DOMAIN v = {"integer"}
    BY <1>4
  <2> QED
    BY <2>1 DEF Kind
<1>5. CASE v \in [float : Int]
  <2>1. v = [float |-> v.float] /\ v.float \in Int /\ DOMAIN v = {"float"}
    BY <1>5
  <2> QED
    BY <2>1 DEF Kind
<1>6. CASE v \in [string : DOMAIN Length]
  <2>1. v = [string |-> v.string] /\ v.string \in DOMAIN Length /\ DOMAIN v = {"string"}
    BY <1>6
  <2> QED
    BY <2>1 DEF Kind
<1>7. CASE v \in [array : Seq(Json)]
  <2>1. v = [array |-> v.array] /\ v.array \in Seq(Json) /\ DOMAIN v = {"array"}
    BY <1>7
  <2> QED
    BY <2>1 DEF Kind
<1>8. CASE Is(v, {"object"}) /\ v \in [object : [DOMAIN v.object -> Json]]
  BY <1>8 DEF Is
<1> QED
  BY <1>1, <1>2, <1>3, <1>4, <1>5, <1>6, <1>7, <1>8

LEMMA ArrayTyped ==
  ASSUME NEW v \in Json, Kind(v) = "array"
  PROVE  /\ v = [array |-> v.array] /\ v.array \in Seq(Json) /\ Len(v.array) \in Nat
         /\ Elements(v) = ToSet(v.array)
         /\ \A i \in DOMAIN v.array :
              v.array[i] \in Json /\ Height[v.array[i]] < Height[v]
         /\ \A e \in ToSet(v.array) : e \in Json /\ Height[e] < Height[v]
<1>1. v = [array |-> v.array] /\ v.array \in Seq(Json)
  BY JsonKinds
<1>2. Elements(v) = ToSet(v.array)
  BY DEF Elements, Is
<1>3. \A e \in ToSet(v.array) : Height[e] < Height[v]
  BY <1>2, SchemaAssumption
<1>4. \A i \in DOMAIN v.array : v.array[i] \in Json /\ v.array[i] \in ToSet(v.array)
  BY <1>1 DEF ToSet
<1>5. Len(v.array) \in Nat
  BY <1>1
<1> QED
  BY <1>1, <1>2, <1>3, <1>4, <1>5 DEF ToSet

LEMMA ObjectTyped ==
  ASSUME NEW v \in Json, Kind(v) = "object"
  PROVE  /\ v = [object |-> v.object] /\ v.object \in [DOMAIN v.object -> Json]
         /\ Elements(v) = {At(v, key) : key \in DOMAIN v.object}
         /\ \A key \in DOMAIN v.object : At(v, key) \in Json /\ Height[At(v, key)] < Height[v]
<1>1. v = [object |-> v.object] /\ v.object \in [DOMAIN v.object -> Json]
  BY JsonKinds
<1>2. Elements(v) = {At(v, key) : key \in DOMAIN v.object}
  BY DEF Elements, Is
<1>3. \A e \in Elements(v) : Height[e] < Height[v]
  BY SchemaAssumption
<1> QED
  BY <1>1, <1>2, <1>3 DEF At

LEMMA ElementsTyped ==
  ASSUME NEW v \in Json
  PROVE  /\ Elements(v) \subseteq Json
         /\ \A e \in Elements(v) : Height[e] < Height[v]
<1>1. CASE Kind(v) = "array"
  BY <1>1, ArrayTyped
<1>2. CASE Kind(v) = "object"
  BY <1>2, ObjectTyped
<1>3. CASE Kind(v) \notin {"array", "object"}
  <2>1. Elements(v) = {}
    BY <1>3 DEF Elements, Is
  <2> QED
    BY <2>1
<1> QED
  BY <1>1, <1>2, <1>3

LEMMA HeightTyped == Height \in [Json -> Nat]
BY SchemaAssumption

LEMMA PropertiesTyped ==
  ASSUME NEW s \in Json, Kind(s) = "object"
  PROVE  \A name \in DOMAIN PropertiesOf(s) :
           PropertiesOf(s)[name] \in Json /\ Height[PropertiesOf(s)[name]] < Height[s]
<1>1. CASE Has(s, "properties") /\ Kind(At(s, "properties")) = "object"
  <2> DEFINE p == At(s, "properties")
  <2>1. p \in Json /\ Height[p] < Height[s]
    BY <1>1, ObjectTyped DEF Has
  <2>2. PropertiesOf(s) = p.object
    BY <1>1 DEF PropertiesOf, Is
  <2> HIDE DEF p
  <2>3. Kind(p) = "object"
    BY <1>1 DEF p
  <2>4. \A name \in DOMAIN p.object :
          At(p, name) \in Json /\ Height[At(p, name)] < Height[p]
    BY <2>1, <2>3, ObjectTyped
  <2>5. Height[p] \in Nat /\ Height[s] \in Nat
        /\ \A name \in DOMAIN p.object : Height[At(p, name)] \in Nat
    BY <2>1, <2>4, HeightTyped
  <2> QED
    BY <2>1, <2>2, <2>4, <2>5 DEF At
<1>2. CASE ~(Has(s, "properties") /\ Kind(At(s, "properties")) = "object")
  <2>1. PropertiesOf(s) = << >>
    BY <1>2 DEF PropertiesOf, Is
  <2>2. DOMAIN << >> = {}
    OBVIOUS
  <2> QED
    BY <2>1, <2>2
<1> QED
  BY <1>1, <1>2

LEMMA ChildrenTyped ==
  ASSUME NEW s \in Json, Kind(s) = "object"
  PROVE  \A c \in Children(s) : c \in Json /\ Height[c] < Height[s]
<1>1. \A key \in DOMAIN s.object : At(s, key) \in Json /\ Height[At(s, key)] < Height[s]
  BY ObjectTyped
<1>2. \A name \in DOMAIN PropertiesOf(s) :
        PropertiesOf(s)[name] \in Json /\ Height[PropertiesOf(s)[name]] < Height[s]
  BY PropertiesTyped
<1> QED
  BY <1>1, <1>2 DEF Children

LEMMA PartsTyped ==
  ASSUME NEW v \in Json, NEW s \in Json
  PROVE  \A p \in Parts(v, s) :
           /\ p[1] \in Elements(v) /\ p[1] \in Json /\ Height[p[1]] < Height[v]
           /\ WellFormed(s) /\ p[2] \in Children(s) /\ p[2] \in Json
<1>1. SUFFICES ASSUME NEW p \in Parts(v, s)
               PROVE  p[1] \in Elements(v) /\ WellFormed(s) /\ p[2] \in Children(s)
  BY ElementsTyped, ChildrenTyped DEF WellFormed, Is
<1>2. WellFormed(s) /\ Admitted(v, s)
  BY DEF Parts
<1>3. CASE Is(v, {"array"}) /\ Has(s, "items")
  <2>1. Parts(v, s) = {<<item, At(s, "items")>> : item \in ToSet(v.array)}
    BY <1>2, <1>3 DEF Parts
  <2>2. p[1] \in ToSet(v.array) /\ p[2] = At(s, "items")
    BY <2>1
  <2>3. p[2] \in Children(s)
    BY <1>3, <2>2 DEF Children, Has
  <2> QED
    BY <1>2, <1>3, <2>2, <2>3, ArrayTyped DEF Is
<1>4. CASE ~(Is(v, {"array"}) /\ Has(s, "items"))
  <2>1. Is(v, {"object"})
    BY <1>2, <1>4 DEF Parts
  <2>2. \/ /\ Has(s, "additionalProperties") /\ Is(At(s, "additionalProperties"), {"object"})
           /\ \E name \in DOMAIN v.object : p = <<At(v, name), At(s, "additionalProperties")>>
        \/ \E name \in DOMAIN v.object \cap DOMAIN PropertiesOf(s) :
             p = <<At(v, name), PropertiesOf(s)[name]>>
    BY <1>2, <1>4, <2>1 DEF Parts
  <2>3. \A name \in DOMAIN v.object : At(v, name) \in Elements(v)
    BY <2>1, ObjectTyped DEF Is
  <2>4. ASSUME Has(s, "additionalProperties"), Is(At(s, "additionalProperties"), {"object"})
        PROVE  At(s, "additionalProperties") \in Children(s)
    BY <2>4 DEF Children, Has, Is
  <2>5. \A name \in DOMAIN PropertiesOf(s) : PropertiesOf(s)[name] \in Children(s)
    BY DEF Children
  <2> QED
    BY <1>2, <2>2, <2>3, <2>4, <2>5
<1> QED
  BY <1>3, <1>4

-----------------------------------------------------------------------------
(* The recursive functions satisfy the equations that define them.           *)
LEMMA ReachedIs ==
  \A s \in Json :
    Reached[s] = {s} \cup IF Is(s, {"object"}) THEN UNION {Reached[c] : c \in Children(s)} ELSE {}
<1> DEFINE T == SUBSET Json
           Body(f) == [s \in Json |->
             {s} \cup IF Is(s, {"object"}) THEN UNION {f[c] : c \in Children(s)} ELSE {}]
           B == [f \in [Json -> T] |-> Body(f)]
<1>1. ASSUME NEW f \in [Json -> T] PROVE Body(f) \in [Json -> T]
  <2>1. ASSUME NEW s \in Json, Is(s, {"object"})
        PROVE  {s} \cup UNION {f[c] : c \in Children(s)} \in T
    BY <2>1, ChildrenTyped DEF Is
  <2>2. ASSUME NEW s \in Json PROVE Body(f)[s] \in T
    BY <2>1
  <2>3. Body(f) = [s \in Json |-> Body(f)[s]]
    OBVIOUS
  <2> HIDE DEF Body
  <2> QED
    BY <2>2, <2>3
<1>2. B \in [[Json -> T] -> [Json -> T]] /\ \A f \in [Json -> T] : B[f] = Body(f)
  BY <1>1
<1>3. ASSUME NEW f \in [Json -> T], NEW g \in [Json -> T], NEW s \in Json,
             \A y \in Json : Height[y] < Height[s] => f[y] = g[y]
      PROVE  Body(f)[s] = Body(g)[s]
  <2>1. CASE Is(s, {"object"})
    <3>1. \A c \in Children(s) : f[c] = g[c]
      BY <1>3, <2>1, ChildrenTyped DEF Is
    <3>2. {f[c] : c \in Children(s)} = {g[c] : c \in Children(s)}
      BY <3>1
    <3> QED
      BY <3>2
  <2>2. CASE ~Is(s, {"object"})
    BY <2>2
  <2> QED
    BY <2>1, <2>2
<1>4. Contracting(B, Json, T, Height)
  <2>1. T # {}
    OBVIOUS
  <2> HIDE DEF B, Body, T
  <2> QED
    BY <1>2, <1>3, <2>1, HeightTyped DEF Contracting
<1>5. \E f \in [Json -> T] : f = B[f]
  <2> HIDE DEF B, T
  <2> QED
    BY <1>4, Recursion
<1>6. \E f : f = Body(f)
  <2> HIDE DEF B, Body, T
  <2> QED
    BY <1>2, <1>5
<1>7. Reached = CHOOSE f : f = Body(f)
  BY DEF Reached
<1>8. Reached = Body(Reached)
  <2> HIDE DEF Body
  <2> QED
    BY <1>6, <1>7, Zenon
<1> QED
  BY <1>8

LEMMA OccurringIs ==
  \A v \in Json : Occurring[v] = {v} \cup UNION {Occurring[e] : e \in Elements(v)}
<1> DEFINE T == SUBSET Json
           Body(f) == [v \in Json |-> {v} \cup UNION {f[e] : e \in Elements(v)}]
           B == [f \in [Json -> T] |-> Body(f)]
<1>1. ASSUME NEW f \in [Json -> T] PROVE Body(f) \in [Json -> T]
  <2>1. ASSUME NEW v \in Json PROVE Body(f)[v] \in T
    BY ElementsTyped
  <2>2. Body(f) = [v \in Json |-> Body(f)[v]]
    OBVIOUS
  <2> HIDE DEF Body
  <2> QED
    BY <2>1, <2>2
<1>2. B \in [[Json -> T] -> [Json -> T]] /\ \A f \in [Json -> T] : B[f] = Body(f)
  BY <1>1
<1>3. ASSUME NEW f \in [Json -> T], NEW g \in [Json -> T], NEW v \in Json,
             \A y \in Json : Height[y] < Height[v] => f[y] = g[y]
      PROVE  Body(f)[v] = Body(g)[v]
  <2>1. \A e \in Elements(v) : f[e] = g[e]
    BY <1>3, ElementsTyped
  <2>2. {f[e] : e \in Elements(v)} = {g[e] : e \in Elements(v)}
    BY <2>1
  <2> QED
    BY <2>2
<1>4. Contracting(B, Json, T, Height)
  <2>1. T # {}
    OBVIOUS
  <2> HIDE DEF B, Body, T
  <2> QED
    BY <1>2, <1>3, <2>1, HeightTyped DEF Contracting
<1>5. \E f \in [Json -> T] : f = B[f]
  <2> HIDE DEF B, T
  <2> QED
    BY <1>4, Recursion
<1>6. \E f : f = Body(f)
  <2> HIDE DEF B, Body, T
  <2> QED
    BY <1>2, <1>5
<1>7. Occurring = CHOOSE f : f = Body(f)
  BY DEF Occurring
<1>8. Occurring = Body(Occurring)
  <2> HIDE DEF Body
  <2> QED
    BY <1>6, <1>7, Zenon
<1> QED
  BY <1>8

LEMMA JudgedIs ==
  \A v, s \in Json :
    Judged[v][s] = {<<v, s>>} \cup UNION {Judged[p[1]][p[2]] : p \in Parts(v, s)}
<1> DEFINE T == [Json -> SUBSET (Json \X Json)]
           JudgedIn(f, v, s) == {<<v, s>>} \cup UNION {f[p[1]][p[2]] : p \in Parts(v, s)}
           Body(f) == [v \in Json |-> [s \in Json |-> JudgedIn(f, v, s)]]
           B == [f \in [Json -> T] |-> Body(f)]
<1>1. ASSUME NEW f \in [Json -> T] PROVE Body(f) \in [Json -> T]
  <2>1. ASSUME NEW v \in Json, NEW s \in Json
        PROVE  JudgedIn(f, v, s) \in SUBSET (Json \X Json)
    <3>1. ASSUME NEW p \in Parts(v, s) PROVE f[p[1]][p[2]] \in SUBSET (Json \X Json)
      <4>1. p[1] \in Json /\ p[2] \in Json
        BY PartsTyped
      <4> QED
        BY <4>1
    <3> QED
      BY <3>1
  <2> HIDE DEF JudgedIn
  <2> QED
    BY <2>1
<1>2. B \in [[Json -> T] -> [Json -> T]] /\ \A f \in [Json -> T] : B[f] = Body(f)
  <2> HIDE DEF Body, T
  <2> QED
    BY <1>1
<1>3. ASSUME NEW f \in [Json -> T], NEW g \in [Json -> T], NEW v \in Json,
             \A y \in Json : Height[y] < Height[v] => f[y] = g[y]
      PROVE  Body(f)[v] = Body(g)[v]
  <2>1. ASSUME NEW s \in Json PROVE JudgedIn(f, v, s) = JudgedIn(g, v, s)
    <3>1. \A p \in Parts(v, s) : f[p[1]][p[2]] = g[p[1]][p[2]]
      BY <1>3, PartsTyped
    <3>2. {f[p[1]][p[2]] : p \in Parts(v, s)} = {g[p[1]][p[2]] : p \in Parts(v, s)}
      BY <3>1
    <3> QED
      BY <3>2
  <2> HIDE DEF JudgedIn
  <2> QED
    BY <2>1
<1>4. Contracting(B, Json, T, Height)
  <2>1. T # {}
    <3>1. [s \in Json |-> {}] \in T
      OBVIOUS
    <3> QED
      BY <3>1
  <2> HIDE DEF B, Body, T
  <2> QED
    BY <1>2, <1>3, <2>1, HeightTyped DEF Contracting
<1>5. \E f \in [Json -> T] : f = B[f]
  <2> HIDE DEF B, T
  <2> QED
    BY <1>4, Recursion
<1>6. \E f : f = Body(f)
  <2> HIDE DEF B, Body, T
  <2> QED
    BY <1>2, <1>5
<1>7. Judged = CHOOSE f : f = Body(f)
  BY DEF Judged
<1>8. Judged = Body(Judged)
  <2> HIDE DEF Body
  <2> QED
    BY <1>6, <1>7, Zenon
<1>9. ASSUME NEW v \in Json, NEW s \in Json PROVE Judged[v][s] = JudgedIn(Judged, v, s)
  <2> HIDE DEF JudgedIn
  <2> QED
    BY <1>8
<1> QED
  BY <1>9

LEMMA EqualIs ==
  \A left, right \in Json : Equal[left][right] <=>
    \/ SameNumber(left, right)
    \/ /\ Is(left, {"array"}) /\ Is(right, {"array"})
       /\ Len(left.array) = Len(right.array)
       /\ \A i \in DOMAIN left.array : Equal[left.array[i]][right.array[i]]
    \/ /\ Is(left, {"object"}) /\ Is(right, {"object"})
       /\ DOMAIN left.object = DOMAIN right.object
       /\ \A key \in DOMAIN left.object : Equal[At(left, key)][At(right, key)]
    \/ left = right
<1> DEFINE T == [Json -> BOOLEAN]
           EqualIn(f, left, right) ==
             \/ SameNumber(left, right)
             \/ /\ Is(left, {"array"}) /\ Is(right, {"array"})
                /\ Len(left.array) = Len(right.array)
                /\ \A i \in DOMAIN left.array : f[left.array[i]][right.array[i]]
             \/ /\ Is(left, {"object"}) /\ Is(right, {"object"})
                /\ DOMAIN left.object = DOMAIN right.object
                /\ \A key \in DOMAIN left.object : f[At(left, key)][At(right, key)]
             \/ left = right
           Body(f) == [left \in Json |-> [right \in Json |-> EqualIn(f, left, right)]]
           B == [f \in [Json -> T] |-> Body(f)]
<1>1. ASSUME NEW f \in [Json -> T] PROVE Body(f) \in [Json -> T]
  <2>1. ASSUME NEW left \in Json, NEW right \in Json PROVE EqualIn(f, left, right) \in BOOLEAN
    OBVIOUS
  <2> HIDE DEF EqualIn
  <2> QED
    BY <2>1
<1>2. B \in [[Json -> T] -> [Json -> T]] /\ \A f \in [Json -> T] : B[f] = Body(f)
  <2> HIDE DEF Body, T
  <2> QED
    BY <1>1
<1>3. ASSUME NEW f \in [Json -> T], NEW g \in [Json -> T], NEW left \in Json,
             \A y \in Json : Height[y] < Height[left] => f[y] = g[y]
      PROVE  Body(f)[left] = Body(g)[left]
  <2>1. ASSUME NEW right \in Json PROVE EqualIn(f, left, right) = EqualIn(g, left, right)
    <3>1. ASSUME Is(left, {"array"}), NEW i \in DOMAIN left.array
          PROVE  f[left.array[i]] = g[left.array[i]]
      BY <1>3, <3>1, ArrayTyped DEF Is
    <3>2. ASSUME Is(left, {"object"}), NEW key \in DOMAIN left.object
          PROVE  f[At(left, key)] = g[At(left, key)]
      BY <1>3, <3>2, ObjectTyped DEF Is
    <3> QED
      BY <3>1, <3>2
  <2> HIDE DEF EqualIn
  <2> QED
    BY <2>1
<1>4. Contracting(B, Json, T, Height)
  <2>1. T # {}
    <3>1. [s \in Json |-> TRUE] \in T
      OBVIOUS
    <3> QED
      BY <3>1
  <2> HIDE DEF B, Body, T
  <2> QED
    BY <1>2, <1>3, <2>1, HeightTyped DEF Contracting
<1>5. \E f \in [Json -> T] : f = B[f]
  <2> HIDE DEF B, T
  <2> QED
    BY <1>4, Recursion
<1>6. \E f : f = Body(f)
  <2> HIDE DEF B, Body, T
  <2> QED
    BY <1>2, <1>5
<1>7. Equal = CHOOSE f : f = Body(f)
  BY DEF Equal
<1>8. Equal = Body(Equal)
  <2> HIDE DEF Body
  <2> QED
    BY <1>6, <1>7, Zenon
<1>9. ASSUME NEW left \in Json, NEW right \in Json
      PROVE  Equal[left][right] = EqualIn(Equal, left, right)
  <2> HIDE DEF EqualIn
  <2> QED
    BY <1>8
<1> QED
  BY <1>9

LEMMA AssertedOfParts ==
  ASSUME NEW v \in Json, NEW s, NEW key, NEW f, NEW g,
         \A y \in Json : Height[y] < Height[v] => f[y] = g[y]
  PROVE  Asserted(v, s, key, f) <=> Asserted(v, s, key, g)
<1>1. ASSUME Is(v, {"array"}), NEW e \in ToSet(v.array) PROVE f[e] = g[e]
  BY <1>1, ArrayTyped DEF Is
<1>2. ASSUME Is(v, {"object"}), NEW name \in DOMAIN v.object PROVE f[At(v, name)] = g[At(v, name)]
  BY <1>2, ObjectTyped DEF Is
<1>3. CASE key = "items"
  BY <1>1, <1>3 DEF Asserted, Bounds
<1>4. CASE key = "properties"
  BY <1>2, <1>4 DEF Asserted, Bounds
<1>5. CASE key = "additionalProperties"
  BY <1>2, <1>5 DEF Asserted, Bounds
<1>6. CASE key \notin {"items", "properties", "additionalProperties"}
  BY <1>6 DEF Asserted
<1> QED
  BY <1>3, <1>4, <1>5, <1>6

LEMMA ConformsIs ==
  \A v, s \in Json :
    Conforms[v][s] <=> \A key \in DOMAIN s.object : Asserted(v, s, key, Conforms)
<1> DEFINE T == [Json -> BOOLEAN]
           ConformsIn(f, v, s) == \A key \in DOMAIN s.object : Asserted(v, s, key, f)
           Body(f) == [v \in Json |-> [s \in Json |-> ConformsIn(f, v, s)]]
           B == [f \in [Json -> T] |-> Body(f)]
<1>1. ASSUME NEW f \in [Json -> T] PROVE Body(f) \in [Json -> T]
  <2>1. ASSUME NEW v \in Json, NEW s \in Json PROVE ConformsIn(f, v, s) \in BOOLEAN
    OBVIOUS
  <2> HIDE DEF ConformsIn
  <2> QED
    BY <2>1
<1>2. B \in [[Json -> T] -> [Json -> T]] /\ \A f \in [Json -> T] : B[f] = Body(f)
  <2> HIDE DEF Body, T
  <2> QED
    BY <1>1
<1>3. ASSUME NEW f \in [Json -> T], NEW g \in [Json -> T], NEW v \in Json,
             \A y \in Json : Height[y] < Height[v] => f[y] = g[y]
      PROVE  Body(f)[v] = Body(g)[v]
  <2>1. ASSUME NEW s \in Json PROVE ConformsIn(f, v, s) = ConformsIn(g, v, s)
    <3>1. ASSUME NEW key PROVE Asserted(v, s, key, f) <=> Asserted(v, s, key, g)
      BY <1>3, AssertedOfParts
    <3> QED
      BY <3>1
  <2> HIDE DEF ConformsIn
  <2> QED
    BY <2>1
<1>4. Contracting(B, Json, T, Height)
  <2>1. T # {}
    <3>1. [s \in Json |-> TRUE] \in T
      OBVIOUS
    <3> QED
      BY <3>1
  <2> HIDE DEF B, Body, T
  <2> QED
    BY <1>2, <1>3, <2>1, HeightTyped DEF Contracting
<1>5. \E f \in [Json -> T] : f = B[f]
  <2> HIDE DEF B, T
  <2> QED
    BY <1>4, Recursion
<1>6. \E f : f = Body(f)
  <2> HIDE DEF B, Body, T
  <2> QED
    BY <1>2, <1>5
<1>7. Conforms = CHOOSE f : f = Body(f)
  BY DEF Conforms
<1>8. Conforms = Body(Conforms)
  <2> HIDE DEF Body
  <2> QED
    BY <1>6, <1>7, Zenon
<1>9. ASSUME NEW v \in Json, NEW s \in Json
      PROVE  Conforms[v][s] = ConformsIn(Conforms, v, s)
  <2> HIDE DEF ConformsIn
  <2> QED
    BY <1>8
<1> QED
  BY <1>9

-----------------------------------------------------------------------------
(* Canonical has no set of values given in advance, so its equation is       *)
(* proved on its own, in the same way.                                       *)
CanonicalUpTo(n, f) == \A v \in Json : Height[v] < n => f[v] = CanonicalGiven(f, v)

LEMMA CanonicalOfParts ==
  ASSUME NEW v \in Json, NEW f, NEW g, \A y \in Json : Height[y] < Height[v] => f[y] = g[y]
  PROVE  CanonicalGiven(f, v) = CanonicalGiven(g, v)
<1>1. CASE Kind(v) = "array"
  <2>1. \A i \in DOMAIN v.array : f[v.array[i]] = g[v.array[i]]
    BY <1>1, ArrayTyped
  <2>2. [i \in DOMAIN v.array |-> f[v.array[i]]] = [i \in DOMAIN v.array |-> g[v.array[i]]]
    BY <2>1
  <2> QED
    BY <1>1, <2>2 DEF CanonicalGiven, Is, IsNumber
<1>2. CASE Kind(v) = "object"
  <2>1. \A k \in DOMAIN v.object : f[At(v, k)] = g[At(v, k)]
    BY <1>2, ObjectTyped
  <2>2. [k \in DOMAIN v.object |-> f[At(v, k)]] = [k \in DOMAIN v.object |-> g[At(v, k)]]
    BY <2>1
  <2> QED
    BY <1>2, <2>2 DEF CanonicalGiven, Is, IsNumber
<1>3. CASE Kind(v) \notin {"array", "object"}
  BY <1>3 DEF CanonicalGiven, Is, IsNumber
<1> QED
  BY <1>1, <1>2, <1>3

LEMMA CanonicalOnce ==
  \A n \in Nat : \A f, g :
    CanonicalUpTo(n, f) /\ CanonicalUpTo(n, g)
      => \A v \in Json : Height[v] < n => f[v] = g[v]
<1> SUFFICES ASSUME NEW n \in Nat, NEW f, NEW g, CanonicalUpTo(n, f), CanonicalUpTo(n, g)
             PROVE  \A v \in Json : Height[v] < n => f[v] = g[v]
  OBVIOUS
<1> DEFINE P == {v \in Json : Height[v] < n /\ f[v] # g[v]}
<1>1. SUFFICES ASSUME P # {} PROVE FALSE
  OBVIOUS
<1>2. PICK v \in P : \A w \in P : ~(Height[w] < Height[v])
  <2>1. P \in SUBSET Json
    OBVIOUS
  <2> HIDE DEF P
  <2> QED
    BY <1>1, <2>1, HeightTyped, LeastMeasure
<1>3. \A w \in Json : Height[w] < Height[v] => f[w] = g[w]
  BY <1>2, HeightTyped
<1>4. CanonicalGiven(f, v) = CanonicalGiven(g, v)
  BY <1>2, <1>3, CanonicalOfParts
<1> QED
  BY <1>2, <1>4 DEF CanonicalUpTo

LEMMA CanonicalFound ==
  \A n \in Nat : \E f : CanonicalUpTo(n, f)
<1> DEFINE P == {n \in Nat : ~ \E f : CanonicalUpTo(n, f)}
           same == [k \in Nat |-> k]
<1>1. SUFFICES ASSUME P # {} PROVE FALSE
  OBVIOUS
<1>2. PICK n \in P : \A m \in P : ~(same[m] < same[n])
  <2>1. P \in SUBSET Nat /\ same \in [Nat -> Nat]
    OBVIOUS
  <2> HIDE DEF P, same
  <2> QED
    BY <1>1, <2>1, LeastMeasure
<1>3. n # 0
  <2>1. CanonicalUpTo(0, same)
    BY HeightTyped DEF CanonicalUpTo
  <2> QED
    BY <1>2, <2>1
<1>4. PICK f : CanonicalUpTo(n - 1, f)
  BY <1>2, <1>3
<1> DEFINE g == [v \in Json |-> CanonicalGiven(f, v)]
<1>5. ASSUME NEW v \in Json, Height[v] < n PROVE g[v] = CanonicalGiven(g, v)
  <2>1. \A w \in Json : Height[w] < Height[v] => g[w] = f[w]
    BY <1>2, <1>4, <1>5, HeightTyped DEF CanonicalUpTo
  <2>2. g[v] = CanonicalGiven(f, v)
    OBVIOUS
  <2> HIDE DEF g
  <2> QED
    BY <2>1, <2>2, CanonicalOfParts
<1>6. CanonicalUpTo(n, g)
  <2> HIDE DEF g
  <2> QED
    BY <1>5 DEF CanonicalUpTo
<1> QED
  BY <1>2, <1>6

LEMMA CanonicalIs == \A v \in Json : Canonical[v] = CanonicalGiven(Canonical, v)
<1> DEFINE upTo[n \in Nat] == CHOOSE f : CanonicalUpTo(n, f)
           F == [v \in Json |-> upTo[Height[v] + 1][v]]
           Body(f) == [v \in Json |-> CanonicalGiven(f, v)]
<1>1. \A n \in Nat : CanonicalUpTo(n, upTo[n])
  BY CanonicalFound
<1> HIDE DEF upTo
<1>2. ASSUME NEW v \in Json PROVE F[v] = CanonicalGiven(F, v)
  <2> DEFINE f == upTo[Height[v] + 1]
  <2>1. CanonicalUpTo(Height[v] + 1, f)
    BY <1>1, HeightTyped
  <2>2. F[v] = f[v] /\ f[v] = CanonicalGiven(f, v)
    BY <2>1, HeightTyped DEF CanonicalUpTo
  <2>3. ASSUME NEW w \in Json, Height[w] < Height[v] PROVE f[w] = F[w]
    <3> DEFINE g == upTo[Height[w] + 1]
               k == Height[w] + 1
    <3>1. k \in Nat /\ Height[w] < k /\ CanonicalUpTo(k, g)
      BY <1>1, HeightTyped
    <3>2. CanonicalUpTo(k, f)
      BY <2>1, <2>3, HeightTyped DEF CanonicalUpTo
    <3>3. F[w] = g[w]
      OBVIOUS
    <3> HIDE DEF f, g, k, F
    <3> QED
      BY <3>1, <3>2, <3>3, CanonicalOnce
  <2> HIDE DEF f, F
  <2> QED
    BY <2>2, <2>3, CanonicalOfParts
<1>3. F = Body(F)
  <2>1. F = [v \in Json |-> F[v]]
    OBVIOUS
  <2> HIDE DEF F
  <2> QED
    BY <1>2, <2>1
<1>4. \E f : f = Body(f)
  <2> HIDE DEF F, Body
  <2> QED
    BY <1>3
<1>5. Canonical = CHOOSE f : f = Body(f)
  BY DEF Canonical
<1>6. Canonical = Body(Canonical)
  <2> HIDE DEF Body
  <2> QED
    BY <1>4, <1>5, Zenon
<1> QED
  BY <1>6

-----------------------------------------------------------------------------
(* What the canonical form of a value looks like, kind by kind.              *)
LEMMA CanonicalKinds ==
  ASSUME NEW v \in Json
  PROVE  /\ IsNumber(v) => Canonical[v] = [number |-> NumberOf(v)]
         /\ Kind(v) = "array" =>
              Canonical[v] = [array |-> [i \in DOMAIN v.array |-> Canonical[v.array[i]]]]
         /\ Kind(v) = "object" =>
              Canonical[v] = [object |-> [k \in DOMAIN v.object |-> Canonical[At(v, k)]]]
         /\ ~IsNumber(v) /\ Kind(v) \notin {"array", "object"} => Canonical[v] = v
         /\ DOMAIN Canonical[v] = {IF IsNumber(v) THEN "number" ELSE Kind(v)}
<1>1. Canonical[v] = CanonicalGiven(Canonical, v)
  BY CanonicalIs
<1>2. CASE IsNumber(v)
  <2>1. Kind(v) \notin {"array", "object"}
    BY <1>2 DEF IsNumber, Is
  <2>2. Canonical[v] = [number |-> NumberOf(v)]
    BY <1>1, <1>2, <2>1 DEF CanonicalGiven, Is
  <2> QED
    BY <1>2, <2>1, <2>2
<1>3. CASE Kind(v) = "array"
  <2>1. ~IsNumber(v)
    BY <1>3 DEF IsNumber, Is
  <2>2. Canonical[v] = [array |-> [i \in DOMAIN v.array |-> Canonical[v.array[i]]]]
    BY <1>1, <1>3, <2>1 DEF CanonicalGiven, Is
  <2> QED
    BY <1>3, <2>1, <2>2
<1>4. CASE Kind(v) = "object"
  <2>1. ~IsNumber(v)
    BY <1>4 DEF IsNumber, Is
  <2>2. Canonical[v] = [object |-> [k \in DOMAIN v.object |-> Canonical[At(v, k)]]]
    BY <1>1, <1>4, <2>1 DEF CanonicalGiven, Is
  <2> QED
    BY <1>4, <2>1, <2>2
<1>5. CASE ~IsNumber(v) /\ Kind(v) \notin {"array", "object"}
  <2>1. Canonical[v] = v
    BY <1>1, <1>5 DEF CanonicalGiven, Is
  <2>2. DOMAIN v = {Kind(v)}
    BY <1>5, JsonKinds DEF Null, IsNumber, Is
  <2> QED
    BY <1>5, <2>1, <2>2
<1> QED
  BY <1>2, <1>3, <1>4, <1>5

(* Equality as schema.py evaluates it, case by case and element by element,  *)
(* is equality of what two values mean, numbers by their value and booleans  *)
(* apart from them (schema.py:77).                                           *)
THEOREM EqualMeans ==
  \A left, right \in Json : Equal[left][right] <=> Canonical[left] = Canonical[right]
<1> DEFINE Agreed(l, r) == Equal[l][r] <=> Canonical[l] = Canonical[r]
           P == {l \in Json : ~ \A r \in Json : Agreed(l, r)}
<1>1. SUFFICES ASSUME P # {} PROVE FALSE
  OBVIOUS
<1>2. PICK left \in P : \A l \in P : ~(Height[l] < Height[left])
  <2>1. P \in SUBSET Json
    OBVIOUS
  <2> HIDE DEF P
  <2> QED
    BY <1>1, <2>1, HeightTyped, LeastMeasure
<1>3. \A l \in Json : Height[l] < Height[left] => \A r \in Json : Agreed(l, r)
  BY <1>2
<1>4. SUFFICES ASSUME NEW right \in Json PROVE Agreed(left, right)
  BY <1>2
<1>0. left \in Json
  BY <1>2
<1> HIDE DEF P
<1> USE <1>0
<1>5. ASSUME left = right PROVE Agreed(left, right)
  <2>1. Equal[left][right]
    BY <1>5, EqualIs
  <2> QED
    BY <1>5, <2>1
<1>6. CASE IsNumber(left) /\ IsNumber(right)
  <2>1. Kind(left) \notin {"array", "object"}
    BY <1>6 DEF IsNumber, Is
  <2>2. Equal[left][right] <=> SameNumber(left, right) \/ left = right
    BY <2>1, EqualIs DEF Is
  <2>3. Canonical[left] = [number |-> NumberOf(left)]
        /\ Canonical[right] = [number |-> NumberOf(right)]
    BY <1>6, CanonicalKinds
  <2>4. Canonical[left] = Canonical[right] <=> NumberOf(left) = NumberOf(right)
    BY <2>3
  <2> QED
    BY <1>6, <2>2, <2>4 DEF SameNumber
<1>7. CASE Kind(left) = "array" /\ Kind(right) = "array"
  <2> DEFINE l == left.array
             r == right.array
             cl == [i \in DOMAIN l |-> Canonical[l[i]]]
             cr == [i \in DOMAIN r |-> Canonical[r[i]]]
  <2>1. Canonical[left] = [array |-> cl] /\ Canonical[right] = [array |-> cr]
    BY <1>7, CanonicalKinds
  <2>2. l \in Seq(Json) /\ r \in Seq(Json)
    BY <1>7, ArrayTyped
  <2>3. DOMAIN l = DOMAIN r <=> Len(l) = Len(r)
    BY <2>2
  <2>4. cl = cr <=> DOMAIN l = DOMAIN r /\ \A i \in DOMAIN l : Canonical[l[i]] = Canonical[r[i]]
    OBVIOUS
  <2>5. ASSUME NEW i \in DOMAIN l, DOMAIN l = DOMAIN r
        PROVE  Equal[l[i]][r[i]] <=> Canonical[l[i]] = Canonical[r[i]]
    <3>1. l[i] \in Json /\ Height[l[i]] < Height[left] /\ r[i] \in Json
      BY <1>7, <2>5, ArrayTyped
    <3> QED
      BY <1>3, <3>1
  <2>6. Equal[left][right] <=>
          \/ Len(l) = Len(r) /\ \A i \in DOMAIN l : Equal[l[i]][r[i]]
          \/ left = right
    <3>1. ~IsNumber(left)
      BY <1>7 DEF IsNumber, Is
    <3> QED
      BY <1>7, <3>1, EqualIs DEF SameNumber, Is
  <2>7. Canonical[left] = Canonical[right] <=> cl = cr
    <3> HIDE DEF cl, cr
    <3> QED
      BY <2>1
  <2> HIDE DEF l, r, cl, cr
  <2> QED
    BY <1>5, <2>3, <2>4, <2>5, <2>6, <2>7
<1>8. CASE Kind(left) = "object" /\ Kind(right) = "object"
  <2> DEFINE l == DOMAIN left.object
             r == DOMAIN right.object
             cl == [k \in l |-> Canonical[At(left, k)]]
             cr == [k \in r |-> Canonical[At(right, k)]]
  <2>1. Canonical[left] = [object |-> cl] /\ Canonical[right] = [object |-> cr]
    BY <1>8, CanonicalKinds
  <2>2. cl = cr <=> l = r /\ \A k \in l : Canonical[At(left, k)] = Canonical[At(right, k)]
    <3> HIDE DEF l, r
    <3> QED
      OBVIOUS
  <2>3. ASSUME NEW k \in l, l = r
        PROVE  Equal[At(left, k)][At(right, k)] <=> Canonical[At(left, k)] = Canonical[At(right, k)]
    <3>1. At(left, k) \in Json /\ Height[At(left, k)] < Height[left] /\ At(right, k) \in Json
      BY <1>8, <2>3, ObjectTyped
    <3> QED
      BY <1>3, <3>1
  <2>4. Equal[left][right] <=>
          \/ l = r /\ \A k \in l : Equal[At(left, k)][At(right, k)]
          \/ left = right
    <3>1. ~IsNumber(left)
      BY <1>8 DEF IsNumber, Is
    <3> QED
      BY <1>8, <3>1, EqualIs DEF SameNumber, Is
  <2>5. Canonical[left] = Canonical[right] <=> cl = cr
    <3> HIDE DEF cl, cr
    <3> QED
      BY <2>1
  <2> HIDE DEF l, r, cl, cr
  <2> QED
    BY <1>5, <2>2, <2>3, <2>4, <2>5
<1>9. CASE /\ ~(IsNumber(left) /\ IsNumber(right))
           /\ ~(Kind(left) = "array" /\ Kind(right) = "array")
           /\ ~(Kind(left) = "object" /\ Kind(right) = "object")
  <2>1. Equal[left][right] <=> left = right
    BY <1>9, EqualIs DEF SameNumber, Is
  <2>2. ASSUME Canonical[left] = Canonical[right] PROVE left = right
    <3>1. (IF IsNumber(left) THEN "number" ELSE Kind(left))
            = (IF IsNumber(right) THEN "number" ELSE Kind(right))
      BY <2>2, CanonicalKinds
    <3>2. Kind(left) # "number" /\ Kind(right) # "number"
      BY JsonKinds
    <3>3. /\ ~IsNumber(left) /\ ~IsNumber(right)
          /\ Kind(left) \notin {"array", "object"} /\ Kind(right) \notin {"array", "object"}
      BY <1>9, <3>1, <3>2
    <3> QED
      BY <2>2, <3>3, CanonicalKinds
  <2> QED
    BY <1>5, <2>1, <2>2
<1> QED
  BY <1>6, <1>7, <1>8, <1>9

-----------------------------------------------------------------------------
(* What is reached and judged occurs in the schemas and the value.           *)
LEMMA OccursBelow ==
  ASSUME NEW v \in Json
  PROVE  /\ v \in Occurring[v]
         /\ \A e \in Elements(v) : Occurring[e] \subseteq Occurring[v]
BY OccurringIs

(* What occurs in a JSON value is a JSON value.                              *)
LEMMA OccurringJson == \A v \in Json : Occurring[v] \subseteq Json
<1> DEFINE P == {v \in Json : ~(Occurring[v] \subseteq Json)}
<1>1. SUFFICES ASSUME P # {} PROVE FALSE
  OBVIOUS
<1>2. PICK v \in P : \A w \in P : ~(Height[w] < Height[v])
  <2>1. P \in SUBSET Json
    OBVIOUS
  <2> HIDE DEF P
  <2> QED
    BY <1>1, <2>1, HeightTyped, LeastMeasure
<1>3. v \in Json /\ ~(Occurring[v] \subseteq Json)
  OBVIOUS
<1>4. \A e \in Elements(v) : Occurring[e] \subseteq Json
  BY <1>2, <1>3, ElementsTyped
<1> QED
  BY <1>3, <1>4, OccurringIs

LEMMA ChildrenOccur ==
  ASSUME NEW s \in Json, Kind(s) = "object"
  PROVE  \A c \in Children(s) : Occurring[c] \subseteq Occurring[s]
<1>1. \A key \in DOMAIN s.object : At(s, key) \in Elements(s) /\ At(s, key) \in Json
  BY ObjectTyped
<1>2. \A key \in DOMAIN s.object : Occurring[At(s, key)] \subseteq Occurring[s]
  BY <1>1, OccursBelow
<1>3. ASSUME NEW name \in DOMAIN PropertiesOf(s)
      PROVE  Occurring[PropertiesOf(s)[name]] \subseteq Occurring[s]
  <2> DEFINE p == At(s, "properties")
  <2>1. CASE Has(s, "properties") /\ Kind(p) = "object"
    <3>1. PropertiesOf(s) = p.object
      BY <2>1 DEF PropertiesOf, Is
    <3>2. p \in Json /\ Occurring[p] \subseteq Occurring[s]
      BY <1>1, <1>2, <2>1 DEF Has
    <3> HIDE DEF p
    <3>3. At(p, name) \in Elements(p)
      BY <2>1, <3>1, <3>2, ObjectTyped
    <3> QED
      BY <3>1, <3>2, <3>3, OccursBelow DEF At
  <2>2. CASE ~(Has(s, "properties") /\ Kind(p) = "object")
    <3>1. PropertiesOf(s) = << >> /\ DOMAIN << >> = {}
      BY <2>2 DEF PropertiesOf, Is
    <3> QED
      BY <3>1
  <2> QED
    BY <2>1, <2>2
<1> QED
  BY <1>2, <1>3 DEF Children

LEMMA ReachedOccurs ==
  \A s \in Json : s \in Reached[s] /\ Reached[s] \subseteq Json /\ Reached[s] \subseteq Occurring[s]
<1> DEFINE P == {s \in Json : ~(Reached[s] \subseteq Json /\ Reached[s] \subseteq Occurring[s])}
<1>1. ASSUME P # {} PROVE FALSE
  <2>1. P \in SUBSET Json
    OBVIOUS
  <2>2. PICK s \in P : \A t \in P : ~(Height[t] < Height[s])
    <3> HIDE DEF P
    <3> QED
      BY <1>1, <2>1, HeightTyped, LeastMeasure
  <2>3. s \in Json /\ ~(Reached[s] \subseteq Json /\ Reached[s] \subseteq Occurring[s])
    OBVIOUS
  <2>4. \A c \in Json : Height[c] < Height[s] =>
          Reached[c] \subseteq Json /\ Reached[c] \subseteq Occurring[c]
    BY <2>2
  <2> HIDE DEF P
  <2>5. CASE Is(s, {"object"})
    <3>1. \A c \in Children(s) : Reached[c] \subseteq Json /\ Reached[c] \subseteq Occurring[s]
      BY <2>3, <2>4, <2>5, ChildrenTyped, ChildrenOccur DEF Is
    <3>2. Reached[s] = {s} \cup UNION {Reached[c] : c \in Children(s)}
      BY <2>3, <2>5, ReachedIs
    <3> QED
      BY <2>3, <3>1, <3>2, OccursBelow
  <2>6. CASE ~Is(s, {"object"})
    BY <2>3, <2>6, ReachedIs, OccursBelow
  <2> QED
    BY <2>5, <2>6
<1> QED
  BY <1>1, ReachedIs

LEMMA ReachedWithin ==
  \A s \in Json : \A t \in Reached[s] : Occurring[t] \subseteq Occurring[s]
<1> DEFINE Inside(s) == \A t \in Reached[s] : Occurring[t] \subseteq Occurring[s]
           P == {s \in Json : ~Inside(s)}
<1>1. SUFFICES ASSUME P # {} PROVE FALSE
  OBVIOUS
<1>2. PICK s \in P : \A t \in P : ~(Height[t] < Height[s])
  <2>1. P \in SUBSET Json
    OBVIOUS
  <2> HIDE DEF P
  <2> QED
    BY <1>1, <2>1, HeightTyped, LeastMeasure
<1>3. s \in Json /\ ~Inside(s)
  OBVIOUS
<1>4. \A c \in Json : Height[c] < Height[s] => Inside(c)
  BY <1>2
<1> HIDE DEF P
<1>5. CASE Is(s, {"object"})
  <2>1. Reached[s] = {s} \cup UNION {Reached[c] : c \in Children(s)}
    BY <1>3, <1>5, ReachedIs
  <2>2. \A c \in Children(s) : Inside(c) /\ Occurring[c] \subseteq Occurring[s]
    BY <1>3, <1>4, <1>5, ChildrenTyped, ChildrenOccur DEF Is
  <2> QED
    BY <1>3, <2>1, <2>2
<1>6. CASE ~Is(s, {"object"})
  BY <1>3, <1>6, ReachedIs
<1> QED
  BY <1>5, <1>6

LEMMA ReachedBelow ==
  ASSUME NEW s \in Json, Kind(s) = "object"
  PROVE  \A c \in Children(s) : Reached[c] \subseteq Reached[s]
BY ReachedIs DEF Is

JudgedWell(v) ==
  \A s \in Json : \A p \in Judged[v][s] :
    /\ p[1] \in Json /\ p[1] \in Occurring[v]
    /\ p[2] \in Json /\ p[2] \in Reached[s]

LEMMA JudgedOccurs == \A v \in Json : JudgedWell(v)
<1> DEFINE P == {v \in Json : ~JudgedWell(v)}
<1>1. SUFFICES ASSUME P # {} PROVE FALSE
  OBVIOUS
<1>2. PICK v \in P : \A w \in P : ~(Height[w] < Height[v])
  <2>1. P \in SUBSET Json
    OBVIOUS
  <2> HIDE DEF P
  <2> QED
    BY <1>1, <2>1, HeightTyped, LeastMeasure
<1>3. v \in Json /\ ~JudgedWell(v)
  OBVIOUS
<1>4. \A w \in Json : Height[w] < Height[v] => JudgedWell(w)
  BY <1>2
<1> HIDE DEF P
<1>5. ASSUME NEW s \in Json, NEW p \in Judged[v][s]
      PROVE  p[1] \in Json /\ p[1] \in Occurring[v] /\ p[2] \in Json /\ p[2] \in Reached[s]
  <2>1. CASE p = <<v, s>>
    BY <1>3, <2>1, OccursBelow, ReachedOccurs
  <2>2. CASE p # <<v, s>>
    <3>1. Judged[v][s] = {<<v, s>>} \cup UNION {Judged[q[1]][q[2]] : q \in Parts(v, s)}
      BY <1>3, JudgedIs
    <3>2. PICK q \in Parts(v, s) : p \in Judged[q[1]][q[2]]
      BY <2>2, <3>1
    <3>3. /\ q[1] \in Elements(v) /\ q[1] \in Json /\ Height[q[1]] < Height[v]
          /\ WellFormed(s) /\ q[2] \in Children(s) /\ q[2] \in Json
      BY <1>3, PartsTyped
    <3>4. JudgedWell(q[1])
      BY <1>4, <3>3
    <3>5. Occurring[q[1]] \subseteq Occurring[v]
      BY <1>3, <3>3, OccursBelow
    <3>6. Kind(s) = "object"
      BY <3>3 DEF WellFormed, Is
    <3>7. Reached[q[2]] \subseteq Reached[s]
      BY <3>3, <3>6, ReachedBelow
    <3> QED
      BY <3>2, <3>3, <3>4, <3>5, <3>7 DEF JudgedWell
  <2> QED
    BY <2>1, <2>2
<1> QED
  BY <1>3, <1>5 DEF JudgedWell

-----------------------------------------------------------------------------
(* What each keyword asserts is what instance_errors looks at for it.        *)
LEMMA TypeMeans ==
  ASSUME NEW v \in Json, NEW s \in Json, WellFormed(s), NEW f, Has(s, "type")
  PROVE  Asserted(v, s, "type", f) <=> Admitted(v, s)
<1> DEFINE arg == At(s, "type")
<1>1. Kind(s) = "object"
  BY DEF WellFormed, Is
<1>2. arg \in Json
  BY <1>1, ObjectTyped DEF Has
<1>3. Asserted(v, s, "type", f) <=>
        \/ Kind(arg) = "null"
        \/ \E t \in DOMAIN KindsOf :
             /\ [string |-> t] = arg \/ [string |-> t] \in ToSet(TypesOf(s))
             /\ Kind(v) \in KindsOf[t]
  BY DEF Asserted, Bounds, Is
<1> HIDE DEF arg
<1>4. CASE Kind(arg) = "null"
  <2>1. ~Typed(s)
    BY <1>4 DEF Typed, Is, arg
  <2> QED
    BY <1>3, <1>4, <2>1 DEF Admitted
<1>5. CASE Kind(arg) # "null"
  <2>1. Typed(s)
    BY <1>5 DEF Typed, Is, arg
  <2>2. ASSUME NEW t \in DOMAIN KindsOf, [string |-> t] = arg
        PROVE  [string |-> t] \in ToSet(TypesOf(s))
    <3>1. DOMAIN arg = {"string"}
      BY <2>2
    <3>2. Kind(arg) = "string"
      BY <3>1 DEF Kind
    <3>3. TypesOf(s) = <<arg>>
      BY <3>2 DEF TypesOf, Is, arg
    <3> QED
      BY <2>2, <3>3 DEF ToSet
  <2>3. Admitted(v, s) <=>
          \E t \in DOMAIN KindsOf : [string |-> t] \in ToSet(TypesOf(s)) /\ Kind(v) \in KindsOf[t]
    <3>1. \A t \in TypeNames : \E u \in DOMAIN KindsOf : t = [string |-> u] /\ t.string = u
      BY DEF TypeNames
    <3>2. \A u \in DOMAIN KindsOf : [string |-> u] \in TypeNames /\ [string |-> u].string = u
      BY DEF TypeNames
    <3> HIDE DEF TypeNames
    <3> QED
      BY <2>1, <3>1, <3>2 DEF Admitted
  <2> QED
    BY <1>3, <1>5, <2>2, <2>3
<1> QED
  BY <1>4, <1>5

LEMMA EqualityMeans ==
  ASSUME NEW v \in Json, NEW s \in Json, WellFormed(s), NEW f
  PROVE  /\ Has(s, "const") =>
              (Asserted(v, s, "const", f) <=> Equal[v][At(s, "const")])
         /\ Has(s, "enum") =>
              (Asserted(v, s, "enum", f)
                 <=> \E item \in ToSet(At(s, "enum").array) : Equal[v][item])
<1>1. Kind(s) = "object"
  BY DEF WellFormed, Is
<1>2. ASSUME Has(s, "const") PROVE Asserted(v, s, "const", f) <=> Equal[v][At(s, "const")]
  <2>1. At(s, "const") \in Json
    BY <1>1, <1>2, ObjectTyped DEF Has
  <2>2. Asserted(v, s, "const", f) <=> Canonical[v] = Canonical[At(s, "const")]
    BY DEF Asserted, Bounds
  <2> QED
    BY <2>1, <2>2, EqualMeans
<1>3. ASSUME Has(s, "enum")
      PROVE  Asserted(v, s, "enum", f)
               <=> \E item \in ToSet(At(s, "enum").array) : Equal[v][item]
  <2>1. At(s, "enum") \in Json /\ Kind(At(s, "enum")) = "array"
    BY <1>1, <1>3, ObjectTyped DEF Has, WellFormed, Is
  <2>2. \A item \in ToSet(At(s, "enum").array) : item \in Json
    BY <2>1, ArrayTyped
  <2>3. Asserted(v, s, "enum", f)
          <=> \E item \in ToSet(At(s, "enum").array) : Canonical[v] = Canonical[item]
    BY DEF Asserted, Bounds
  <2> QED
    BY <2>2, <2>3, EqualMeans
<1> QED
  BY <1>2, <1>3

LEMMA BoundsMean ==
  ASSUME NEW v, NEW s, NEW f
  PROVE  /\ Asserted(v, s, "minimum", f) <=>
              (IsNumber(v) => NumberOf(v) >= NumberOf(At(s, "minimum")))
         /\ Asserted(v, s, "maximum", f) <=>
              (IsNumber(v) => NumberOf(v) <= NumberOf(At(s, "maximum")))
         /\ Asserted(v, s, "exclusiveMinimum", f) <=>
              (IsNumber(v) => NumberOf(v) > NumberOf(At(s, "exclusiveMinimum")))
         /\ Asserted(v, s, "exclusiveMaximum", f) <=>
              (IsNumber(v) => NumberOf(v) < NumberOf(At(s, "exclusiveMaximum")))
<1>1. Asserted(v, s, "minimum", f) <=>
        (IsNumber(v) => NumberOf(v) >= NumberOf(At(s, "minimum")))
  BY DEF Asserted, Bounds
<1>2. Asserted(v, s, "maximum", f) <=>
        (IsNumber(v) => NumberOf(v) <= NumberOf(At(s, "maximum")))
  BY DEF Asserted, Bounds
<1>3. Asserted(v, s, "exclusiveMinimum", f) <=>
        (IsNumber(v) => NumberOf(v) > NumberOf(At(s, "exclusiveMinimum")))
  BY DEF Asserted, Bounds
<1>4. Asserted(v, s, "exclusiveMaximum", f) <=>
        (IsNumber(v) => NumberOf(v) < NumberOf(At(s, "exclusiveMaximum")))
  BY DEF Asserted, Bounds
<1> QED
  BY <1>1, <1>2, <1>3, <1>4

LEMMA LengthsMean ==
  ASSUME NEW v, NEW s, WellFormed(s), NEW f
  PROVE  /\ Has(s, "minLength") => (Asserted(v, s, "minLength", f) <=>
              (Is(v, {"string"}) => Length[v.string] >= NumberOf(At(s, "minLength"))))
         /\ Has(s, "maxLength") => (Asserted(v, s, "maxLength", f) <=>
              (Is(v, {"string"}) => Length[v.string] <= NumberOf(At(s, "maxLength"))))
         /\ Has(s, "minItems") => (Asserted(v, s, "minItems", f) <=>
              (Is(v, {"array"}) => Len(v.array) >= NumberOf(At(s, "minItems"))))
         /\ Has(s, "maxItems") => (Asserted(v, s, "maxItems", f) <=>
              (Is(v, {"array"}) => Len(v.array) <= NumberOf(At(s, "maxItems"))))
<1>1. \A key \in Lengths \cap DOMAIN s.object : NumberOf(At(s, key)) = At(s, key).integer
  BY DEF WellFormed, NumberOf, Is
<1>2. ASSUME Has(s, "minLength")
      PROVE  Asserted(v, s, "minLength", f) <=>
               (Is(v, {"string"}) => Length[v.string] >= NumberOf(At(s, "minLength")))
  <2>1. NumberOf(At(s, "minLength")) = At(s, "minLength").integer
    BY <1>1, <1>2 DEF Has, Lengths
  <2>2. Asserted(v, s, "minLength", f) <=>
          (Is(v, {"string"}) => Length[v.string] >= At(s, "minLength").integer)
    BY DEF Asserted, Bounds, Is
  <2> QED
    BY <2>1, <2>2
<1>3. ASSUME Has(s, "maxLength")
      PROVE  Asserted(v, s, "maxLength", f) <=>
               (Is(v, {"string"}) => Length[v.string] <= NumberOf(At(s, "maxLength")))
  <2>1. NumberOf(At(s, "maxLength")) = At(s, "maxLength").integer
    BY <1>1, <1>3 DEF Has, Lengths
  <2>2. Asserted(v, s, "maxLength", f) <=>
          (Is(v, {"string"}) => Length[v.string] <= At(s, "maxLength").integer)
    BY DEF Asserted, Bounds, Is
  <2> QED
    BY <2>1, <2>2
<1>4. ASSUME Has(s, "minItems")
      PROVE  Asserted(v, s, "minItems", f) <=>
               (Is(v, {"array"}) => Len(v.array) >= NumberOf(At(s, "minItems")))
  <2>1. NumberOf(At(s, "minItems")) = At(s, "minItems").integer
    BY <1>1, <1>4 DEF Has, Lengths
  <2>2. Asserted(v, s, "minItems", f) <=>
          (Is(v, {"array"}) => Len(v.array) >= At(s, "minItems").integer)
    BY DEF Asserted, Bounds, Is
  <2> QED
    BY <2>1, <2>2
<1>5. ASSUME Has(s, "maxItems")
      PROVE  Asserted(v, s, "maxItems", f) <=>
               (Is(v, {"array"}) => Len(v.array) <= NumberOf(At(s, "maxItems")))
  <2>1. NumberOf(At(s, "maxItems")) = At(s, "maxItems").integer
    BY <1>1, <1>5 DEF Has, Lengths
  <2>2. Asserted(v, s, "maxItems", f) <=>
          (Is(v, {"array"}) => Len(v.array) <= At(s, "maxItems").integer)
    BY DEF Asserted, Bounds, Is
  <2> QED
    BY <2>1, <2>2
<1> QED
  BY <1>2, <1>3, <1>4, <1>5

LEMMA OthersMean ==
  ASSUME NEW v, NEW s, NEW f
  PROVE  /\ Asserted(v, s, "pattern", f) <=>
              (Is(v, {"string"}) => <<At(s, "pattern").string, v.string>> \in Found)
         /\ Asserted(v, s, "items", f) <=>
              (Is(v, {"array"}) => \A e \in ToSet(v.array) : f[e][At(s, "items")])
         /\ Asserted(v, s, "required", f) <=>
              (Is(v, {"object"}) =>
                 \A name \in ToSet(At(s, "required").array) : Has(v, name.string))
         /\ \A key \in {"title", "description", "examples", "default", "$comment"} :
              Asserted(v, s, key, f)
<1>1. Asserted(v, s, "pattern", f) <=>
        (Is(v, {"string"}) => <<At(s, "pattern").string, v.string>> \in Found)
  BY DEF Asserted, Bounds
<1>2. Asserted(v, s, "items", f) <=>
        (Is(v, {"array"}) => \A e \in ToSet(v.array) : f[e][At(s, "items")])
  BY DEF Asserted, Bounds
<1>3. Asserted(v, s, "required", f) <=>
        (Is(v, {"object"}) =>
           \A name \in ToSet(At(s, "required").array) : Has(v, name.string))
  BY DEF Asserted, Bounds, Has
<1>4. \A key \in {"title", "description", "examples", "default", "$comment"} :
        Asserted(v, s, key, f)
  BY DEF Asserted, Bounds, Keywords
<1> QED
  BY <1>1, <1>2, <1>3, <1>4

LEMMA PropertiesMean ==
  ASSUME NEW v \in Json, NEW s \in Json, WellFormed(s), NEW f
  PROVE  /\ Has(s, "properties") =>
              (Asserted(v, s, "properties", f) <=>
                 (Is(v, {"object"}) =>
                    \A name \in DOMAIN v.object \cap DOMAIN PropertiesOf(s) :
                      f[At(v, name)][PropertiesOf(s)[name]]))
         /\ ~Has(s, "properties") => DOMAIN PropertiesOf(s) = {}
         /\ Asserted(v, s, "additionalProperties", f) <=>
              (Is(v, {"object"}) =>
                 \A name \in DOMAIN v.object \ DOMAIN PropertiesOf(s) :
                   IF Is(At(s, "additionalProperties"), {"boolean"})
                   THEN At(s, "additionalProperties").boolean
                   ELSE f[At(v, name)][At(s, "additionalProperties")])
<1>1. Has(s, "properties") => PropertiesOf(s) = At(s, "properties").object
  BY DEF PropertiesOf, WellFormed
<1>2. ~Has(s, "properties") => DOMAIN PropertiesOf(s) = {}
  <2>1. DOMAIN << >> = {}
    OBVIOUS
  <2> QED
    BY <2>1 DEF PropertiesOf
<1>3. DOMAIN PropertiesOf(s) =
        IF Has(s, "properties") THEN DOMAIN At(s, "properties").object ELSE {}
  BY <1>1, <1>2
<1> DEFINE listed == IF Has(s, "properties") THEN DOMAIN At(s, "properties").object ELSE {}
           names == IF Is(v, {"object"}) THEN DOMAIN v.object ELSE {}
<1>4. Asserted(v, s, "properties", f) <=>
        \A name \in names \cap listed : f[At(v, name)][At(At(s, "properties"), name)]
  BY DEF Asserted, Bounds
<1>5. Asserted(v, s, "additionalProperties", f) <=>
        \A name \in names \ listed :
          IF Is(At(s, "additionalProperties"), {"boolean"})
          THEN At(s, "additionalProperties").boolean
          ELSE f[At(v, name)][At(s, "additionalProperties")]
  BY DEF Asserted, Bounds
<1>6. \A name : At(At(s, "properties"), name) = At(s, "properties").object[name]
  BY DEF At
<1>7. listed = DOMAIN PropertiesOf(s)
  BY <1>3
<1> HIDE DEF listed
<1> QED
  BY <1>1, <1>2, <1>4, <1>5, <1>6, <1>7

-----------------------------------------------------------------------------
(* instance_errors finds nothing where every keyword holds, and looks into   *)
(* the parts of a value for the keywords about them.                         *)
Closed(v, s) ==
  Is(v, {"object"}) /\ Has(s, "additionalProperties")
    /\ At(s, "additionalProperties") = [boolean |-> FALSE]
    => DOMAIN v.object \subseteq DOMAIN PropertiesOf(s)

Holds(v, s, f, key) == Has(s, key) => Asserted(v, s, key, f)

LEMMA KeywordByKeyword ==
  ASSUME NEW v \in Json, NEW s \in Json, Supported(s), Admitted(v, s), NEW f
  PROVE  (\A key \in DOMAIN s.object : Asserted(v, s, key, f)) <=>
           /\ Holds(v, s, f, "const") /\ Holds(v, s, f, "enum")
           /\ Holds(v, s, f, "minimum") /\ Holds(v, s, f, "maximum")
           /\ Holds(v, s, f, "exclusiveMinimum") /\ Holds(v, s, f, "exclusiveMaximum")
           /\ Holds(v, s, f, "minLength") /\ Holds(v, s, f, "maxLength")
           /\ Holds(v, s, f, "minItems") /\ Holds(v, s, f, "maxItems")
           /\ Holds(v, s, f, "pattern") /\ Holds(v, s, f, "required")
           /\ Holds(v, s, f, "items") /\ Holds(v, s, f, "properties")
           /\ Holds(v, s, f, "additionalProperties")
<1>1. DOMAIN s.object \subseteq Keywords /\ WellFormed(s)
  BY DEF Supported
<1>2. Holds(v, s, f, "type")
  BY <1>1, TypeMeans DEF Holds
<1>3. \A key \in {"title", "description", "examples", "default", "$comment"} :
        Asserted(v, s, key, f)
  BY OthersMean
<1> QED
  BY <1>1, <1>2, <1>3 DEF Holds, Has, Keywords, Bounds, Lengths

LEMMA FitsByKeyword ==
  ASSUME NEW v \in Json, NEW s \in Json, Supported(s), Admitted(v, s), NEW f
  PROVE  Fits(v, s) <=>
           /\ Holds(v, s, f, "const") /\ Holds(v, s, f, "enum")
           /\ Holds(v, s, f, "minimum") /\ Holds(v, s, f, "maximum")
           /\ Holds(v, s, f, "exclusiveMinimum") /\ Holds(v, s, f, "exclusiveMaximum")
           /\ Holds(v, s, f, "minLength") /\ Holds(v, s, f, "maxLength")
           /\ Holds(v, s, f, "minItems") /\ Holds(v, s, f, "maxItems")
           /\ Holds(v, s, f, "pattern") /\ Holds(v, s, f, "required")
           /\ Closed(v, s)
<1>1. WellFormed(s)
  BY DEF Supported
<1>2. (Has(s, "const") => Equal[v][At(s, "const")]) <=> Holds(v, s, f, "const")
  BY <1>1, EqualityMeans DEF Holds
<1>3. (Has(s, "enum") => \E item \in ToSet(At(s, "enum").array) : Equal[v][item])
        <=> Holds(v, s, f, "enum")
  BY <1>1, EqualityMeans DEF Holds
<1>4. (IsNumber(v) =>
         /\ Within(NumberOf(v), s, "minimum", "maximum")
         /\ Has(s, "exclusiveMinimum") => NumberOf(v) > NumberOf(At(s, "exclusiveMinimum"))
         /\ Has(s, "exclusiveMaximum") => NumberOf(v) < NumberOf(At(s, "exclusiveMaximum")))
      <=> /\ Holds(v, s, f, "minimum") /\ Holds(v, s, f, "maximum")
          /\ Holds(v, s, f, "exclusiveMinimum") /\ Holds(v, s, f, "exclusiveMaximum")
  BY BoundsMean DEF Holds, Within
<1>5. (Is(v, {"string"}) =>
         /\ Within(Length[v.string], s, "minLength", "maxLength")
         /\ Has(s, "pattern") => <<At(s, "pattern").string, v.string>> \in Found)
      <=> Holds(v, s, f, "minLength") /\ Holds(v, s, f, "maxLength") /\ Holds(v, s, f, "pattern")
  BY <1>1, LengthsMean, OthersMean DEF Holds, Within
<1>6. (Is(v, {"array"}) => Within(Len(v.array), s, "minItems", "maxItems"))
        <=> Holds(v, s, f, "minItems") /\ Holds(v, s, f, "maxItems")
  BY <1>1, LengthsMean DEF Holds, Within
<1>7. (Is(v, {"object"}) =>
         /\ Has(s, "required") =>
              \A name \in ToSet(At(s, "required").array) : Has(v, name.string)
         /\ Has(s, "additionalProperties") /\ At(s, "additionalProperties") = [boolean |-> FALSE]
              => DOMAIN v.object \subseteq DOMAIN PropertiesOf(s))
      <=> Holds(v, s, f, "required") /\ Closed(v, s)
  BY OthersMean DEF Holds, Closed
<1> QED
  BY <1>2, <1>3, <1>4, <1>5, <1>6, <1>7 DEF Fits

LEMMA PartsByKeyword ==
  ASSUME NEW v \in Json, NEW s \in Json, Supported(s), Admitted(v, s), NEW f,
         \A c \in Children(s) : Kind(c) = "object"
  PROVE  Closed(v, s) /\ (\A p \in Parts(v, s) : f[p[1]][p[2]]) <=>
           /\ Holds(v, s, f, "items") /\ Holds(v, s, f, "properties")
           /\ Holds(v, s, f, "additionalProperties")
<1> DEFINE Ok(p) == f[p[1]][p[2]]
<1>1. WellFormed(s) /\ Kind(s) = "object"
  BY DEF Supported, WellFormed, Is
<1>2. CASE Is(v, {"array"})
  <2>1. ~Is(v, {"object"})
    BY <1>2 DEF Is
  <2>2. Holds(v, s, f, "properties") /\ Holds(v, s, f, "additionalProperties") /\ Closed(v, s)
    BY <1>1, <2>1, PropertiesMean DEF Holds, Closed
  <2>3. CASE Has(s, "items")
    <3>1. Parts(v, s) = {<<item, At(s, "items")>> : item \in ToSet(v.array)}
      BY <1>1, <1>2, <2>3 DEF Parts
    <3>2. (\A p \in Parts(v, s) : f[p[1]][p[2]])
            <=> \A item \in ToSet(v.array) : f[item][At(s, "items")]
      <4>1. \A item : Ok(<<item, At(s, "items")>>) = f[item][At(s, "items")]
        OBVIOUS
      <4> HIDE DEF Ok
      <4>2. (\A p \in Parts(v, s) : Ok(p))
              <=> \A item \in ToSet(v.array) : f[item][At(s, "items")]
        BY <3>1, <4>1
      <4> QED
        BY <4>2 DEF Ok
    <3>3. Holds(v, s, f, "items") <=> \A item \in ToSet(v.array) : f[item][At(s, "items")]
      BY <1>2, <2>3, OthersMean DEF Holds
    <3> QED
      BY <2>2, <3>2, <3>3
  <2>4. CASE ~Has(s, "items")
    <3>1. Parts(v, s) = {}
      BY <1>1, <1>2, <2>1, <2>4 DEF Parts
    <3> QED
      BY <2>2, <2>4, <3>1 DEF Holds
  <2> QED
    BY <2>3, <2>4
<1>3. CASE Is(v, {"object"})
  <2> DEFINE names == DOMAIN v.object
             listed == DOMAIN PropertiesOf(s)
             extra == At(s, "additionalProperties")
  <2>1. ~Is(v, {"array"})
    BY <1>3 DEF Is
  <2>2. Holds(v, s, f, "items")
    BY <2>1, OthersMean DEF Holds
  <2>3. Holds(v, s, f, "properties") <=>
          \A name \in names \cap listed : f[At(v, name)][PropertiesOf(s)[name]]
    BY <1>1, <1>3, PropertiesMean DEF Holds
  <2>4. CASE Has(s, "additionalProperties") /\ Is(extra, {"object"})
    <3>1. Parts(v, s) =
            {<<At(v, name), PropertiesOf(s)[name]>> : name \in names \cap listed}
              \cup {<<At(v, name), extra>> : name \in names \ listed}
      BY <1>1, <1>3, <2>1, <2>4 DEF Parts
    <3>2. (\A p \in Parts(v, s) : f[p[1]][p[2]]) <=>
            /\ \A name \in names \cap listed : f[At(v, name)][PropertiesOf(s)[name]]
            /\ \A name \in names \ listed : f[At(v, name)][extra]
      <4>1. \A name : /\ Ok(<<At(v, name), PropertiesOf(s)[name]>>)
                          = f[At(v, name)][PropertiesOf(s)[name]]
                      /\ Ok(<<At(v, name), extra>>) = f[At(v, name)][extra]
        OBVIOUS
      <4> HIDE DEF names, listed, extra, Ok
      <4>2. (\A p \in Parts(v, s) : Ok(p)) <=>
              /\ \A name \in names \cap listed : f[At(v, name)][PropertiesOf(s)[name]]
              /\ \A name \in names \ listed : f[At(v, name)][extra]
        BY <3>1, <4>1
      <4> QED
        BY <4>2 DEF Ok
    <3>3. ~Is(extra, {"boolean"}) /\ Kind(extra) = "object"
      BY <2>4 DEF Is
    <3>4. Holds(v, s, f, "additionalProperties") <=>
            \A name \in names \ listed : f[At(v, name)][extra]
      BY <1>1, <1>3, <2>4, <3>3, PropertiesMean DEF Holds
    <3>5. extra # [boolean |-> FALSE]
      <4>1. ASSUME extra = [boolean |-> FALSE] PROVE DOMAIN extra = {"boolean"}
        BY <4>1
      <4> QED
        BY <3>3, <4>1 DEF Kind
    <3>6. Closed(v, s)
      BY <3>5 DEF Closed
    <3> QED
      BY <2>2, <2>3, <3>2, <3>4, <3>6
  <2>5. CASE ~(Has(s, "additionalProperties") /\ Is(extra, {"object"}))
    <3>1. Parts(v, s) = {<<At(v, name), PropertiesOf(s)[name]>> : name \in names \cap listed}
      BY <1>1, <1>3, <2>1, <2>5 DEF Parts
    <3>2. (\A p \in Parts(v, s) : f[p[1]][p[2]]) <=>
            \A name \in names \cap listed : f[At(v, name)][PropertiesOf(s)[name]]
      <4>1. \A name : Ok(<<At(v, name), PropertiesOf(s)[name]>>)
                        = f[At(v, name)][PropertiesOf(s)[name]]
        OBVIOUS
      <4> HIDE DEF names, listed, Ok
      <4>2. (\A p \in Parts(v, s) : Ok(p)) <=>
              \A name \in names \cap listed : f[At(v, name)][PropertiesOf(s)[name]]
        BY <3>1, <4>1
      <4> QED
        BY <4>2 DEF Ok
    <3>3. Closed(v, s) <=> Holds(v, s, f, "additionalProperties")
      <4>1. CASE ~Has(s, "additionalProperties")
        BY <4>1 DEF Closed, Holds
      <4>2. CASE Has(s, "additionalProperties")
        <5>1. Is(extra, {"boolean"})
          BY <2>5, <4>2 DEF Children, Has, Is
        <5>2. extra \in Json
          BY <1>1, <4>2, ObjectTyped DEF Has
        <5>3. extra = [boolean |-> extra.boolean] /\ extra.boolean \in BOOLEAN
          BY <5>1, <5>2, JsonKinds DEF Is
        <5>4. Holds(v, s, f, "additionalProperties") <=>
                \A name \in names \ listed : extra.boolean
          BY <1>1, <1>3, <4>2, <5>1, PropertiesMean DEF Holds
        <5>5. Closed(v, s) <=> (extra = [boolean |-> FALSE] => names \subseteq listed)
          BY <1>3, <4>2 DEF Closed
        <5>6. extra = [boolean |-> FALSE] <=> ~extra.boolean
          <6> HIDE DEF extra
          <6> QED
            BY <5>3
        <5> HIDE DEF names, listed, extra
        <5> QED
          BY <5>4, <5>5, <5>6
      <4> QED
        BY <4>1, <4>2
    <3> QED
      BY <2>2, <2>3, <3>2, <3>3
  <2> QED
    BY <2>4, <2>5
<1>4. CASE ~Is(v, {"array"}) /\ ~Is(v, {"object"})
  <2>1. Parts(v, s) = {}
    BY <1>1, <1>4 DEF Parts
  <2> QED
    BY <1>1, <1>4, <2>1, PropertiesMean, OthersMean DEF Holds, Closed
<1> QED
  BY <1>2, <1>3, <1>4

-----------------------------------------------------------------------------
(* A value conforms to an accepted schema exactly when instance_errors finds *)
(* nothing in it, at any depth.                                              *)
JudgesByMeaning(v) ==
  \A s \in Json :
    (\A t \in Reached[s] : Supported(t))
      => (Conforms[v][s] <=> \A p \in Judged[v][s] : Fits(p[1], p[2]))

LEMMA MeaningStep ==
  ASSUME NEW v \in Json, \A w \in Json : Height[w] < Height[v] => JudgesByMeaning(w)
  PROVE  JudgesByMeaning(v)
<1>1. SUFFICES ASSUME NEW s \in Json, \A t \in Reached[s] : Supported(t)
               PROVE  Conforms[v][s] <=> \A p \in Judged[v][s] : Fits(p[1], p[2])
  BY DEF JudgesByMeaning
<1>2. Supported(s) /\ WellFormed(s) /\ Kind(s) = "object"
  BY <1>1, ReachedOccurs DEF Supported, WellFormed, Is
<1>3. \A c \in Children(s) : c \in Json /\ \A t \in Reached[c] : Supported(t)
  BY <1>1, <1>2, ChildrenTyped, ReachedBelow
<1>4. \A c \in Children(s) : Kind(c) = "object"
  BY <1>3, ReachedOccurs DEF Supported, WellFormed, Is
<1>5. Conforms[v][s] <=> \A key \in DOMAIN s.object : Asserted(v, s, key, Conforms)
  BY ConformsIs
<1>6. Judged[v][s] = {<<v, s>>} \cup UNION {Judged[p[1]][p[2]] : p \in Parts(v, s)}
  BY JudgedIs
<1> DEFINE Fitting(p) == Fits(p[1], p[2])
<1>7. Fitting(<<v, s>>) <=> Fits(v, s)
  OBVIOUS
<1>8. CASE ~Admitted(v, s)
  <2>1. Has(s, "type")
    BY <1>8 DEF Admitted, Typed
  <2>2. ~Asserted(v, s, "type", Conforms)
    BY <1>2, <1>8, <2>1, TypeMeans
  <2>3. ~Conforms[v][s]
    BY <1>5, <2>1, <2>2 DEF Has
  <2>4. ~Fits(v, s)
    BY <1>8 DEF Fits
  <2>5. <<v, s>> \in Judged[v][s] /\ ~Fitting(<<v, s>>)
    BY <1>6, <1>7, <2>4
  <2> HIDE DEF Fitting
  <2>6. ~ \A p \in Judged[v][s] : Fitting(p)
    BY <2>5
  <2> QED
    BY <2>3, <2>6 DEF Fitting
<1>9. CASE Admitted(v, s)
  <2>1. Conforms[v][s] <=> Fits(v, s) /\ \A p \in Parts(v, s) : Conforms[p[1]][p[2]]
    <3>1. Closed(v, s) /\ (\A p \in Parts(v, s) : Conforms[p[1]][p[2]]) <=>
            /\ Holds(v, s, Conforms, "items") /\ Holds(v, s, Conforms, "properties")
            /\ Holds(v, s, Conforms, "additionalProperties")
      BY <1>2, <1>4, <1>9, PartsByKeyword
    <3>2. Fits(v, s) => Closed(v, s)
      BY DEF Fits, Closed
    <3> QED
      BY <1>2, <1>5, <1>9, <3>1, <3>2, KeywordByKeyword, FitsByKeyword
  <2>2. ASSUME NEW p \in Parts(v, s)
        PROVE  Conforms[p[1]][p[2]] <=> \A q \in Judged[p[1]][p[2]] : Fitting(q)
    <3>1. p[1] \in Json /\ Height[p[1]] < Height[v] /\ p[2] \in Children(s) /\ p[2] \in Json
      BY PartsTyped
    <3>2. JudgesByMeaning(p[1])
      BY <3>1
    <3>3. \A t \in Reached[p[2]] : Supported(t)
      BY <1>3, <3>1
    <3> QED
      BY <3>1, <3>2, <3>3 DEF JudgesByMeaning
  <2> HIDE DEF Fitting
  <2>3. (\A p \in Judged[v][s] : Fitting(p)) <=>
          Fits(v, s) /\ \A p \in Parts(v, s) : \A q \in Judged[p[1]][p[2]] : Fitting(q)
    BY <1>6, <1>7
  <2>4. Conforms[v][s] <=> \A p \in Judged[v][s] : Fitting(p)
    BY <2>1, <2>2, <2>3
  <2> QED
    BY <2>4 DEF Fitting
<1> QED
  BY <1>8, <1>9

(* What instance_errors finds by going into the parts of a value decides     *)
(* whether the value conforms, for every schema that schema_errors accepts   *)
(* (schema.py:88).                                                           *)
THEOREM MeaningHolds == \A v \in Json : JudgesByMeaning(v)
<1> DEFINE P == {v \in Json : ~JudgesByMeaning(v)}
<1>1. SUFFICES ASSUME P # {} PROVE FALSE
  OBVIOUS
<1>2. PICK v \in P : \A w \in P : ~(Height[w] < Height[v])
  <2>1. P \in SUBSET Json
    OBVIOUS
  <2> HIDE DEF P
  <2> QED
    BY <1>1, <2>1, HeightTyped, LeastMeasure
<1>3. v \in Json /\ ~JudgesByMeaning(v)
  OBVIOUS
<1>4. \A w \in Json : Height[w] < Height[v] => JudgesByMeaning(w)
  BY <1>2
<1> HIDE DEF P
<1> QED
  BY <1>3, <1>4, MeaningStep

-----------------------------------------------------------------------------
(* What an evaluation can come to.                                           *)
Cause(v) ==
  \/ Huge(v)
  \/ /\ Is(v, {"object"}) /\ Has(v, "type")
     /\ \E t \in Occurring[At(v, "type")] : Is(t, {"object"})
  \/ /\ Is(v, {"object"}) /\ Has(v, "pattern")
     /\ At(v, "pattern") \in [string : Overflowing]

LEMMA SchemaRaisesForCause ==
  ASSUME NEW s \in Json, SchemaRaises(s)
  PROVE  \E v \in Occurring[s] : Cause(v)
<1>1. Kind(s) = "object"
  BY DEF SchemaRaises, Is
<1>2. \A key \in DOMAIN s.object :
        At(s, key) \in Elements(s) /\ At(s, key) \in Json
        /\ Occurring[At(s, key)] \subseteq Occurring[s] /\ At(s, key) \in Occurring[s]
  BY <1>1, ObjectTyped, OccursBelow
<1>3. ASSUME Typed(s), NEW i \in DOMAIN TypesOf(s), Unhashable(TypesOf(s)[i])
      PROVE  \E v \in Occurring[s] : Cause(v)
  <2> DEFINE kind == At(s, "type")
  <2>1. kind \in Json /\ Has(s, "type")
    BY <1>2, <1>3 DEF Typed, Has
  <2>2. PICK t \in Occurring[TypesOf(s)[i]] : Is(t, {"object"})
    BY <1>3 DEF Unhashable
  <2>3. t \in Occurring[kind]
    <3>1. CASE Is(kind, {"array"})
      <4>1. TypesOf(s)[i] \in ToSet(kind.array)
        BY <1>3, <3>1 DEF TypesOf, ToSet
      <4>2. TypesOf(s)[i] \in Elements(kind)
        BY <2>1, <3>1, <4>1, ArrayTyped DEF Is
      <4> QED
        BY <2>1, <2>2, <4>2, OccursBelow
    <3>2. CASE ~Is(kind, {"array"})
      <4>1. TypesOf(s)[i] = kind
        BY <1>3, <3>2 DEF TypesOf
      <4> QED
        BY <2>2, <4>1
    <3> QED
      BY <3>1, <3>2
  <2>4. Cause(s)
    BY <1>1, <2>1, <2>2, <2>3 DEF Cause, Is
  <2> QED
    BY <2>4, OccursBelow
<1>4. ASSUME Typed(s), NEW n \in Occurring[At(s, "type")], Unprintable(n)
      PROVE  \E v \in Occurring[s] : Cause(v)
  <2>1. n \in Occurring[s]
    BY <1>2, <1>4 DEF Typed, Has
  <2>2. n \in Json
    BY <2>1, OccurringJson
  <2>3. Huge(n)
    <3>1. n.integer \in Int /\ Is(n, {"integer"}) /\ n.integer \notin -MaxPrinted..MaxPrinted
      BY <1>4, <2>2, JsonKinds DEF Unprintable, Is
    <3> QED
      BY <3>1, SchemaAssumption DEF Huge
  <2> QED
    BY <2>1, <2>3 DEF Cause
<1>5. ASSUME NEW key \in Bounds \cap DOMAIN s.object, Huge(At(s, key))
      PROVE  \E v \in Occurring[s] : Cause(v)
  BY <1>2, <1>5 DEF Cause
<1>6. ASSUME Has(s, "pattern"), Is(At(s, "pattern"), {"string"}),
             At(s, "pattern").string \in Overflowing
      PROVE  \E v \in Occurring[s] : Cause(v)
  <2>1. At(s, "pattern") = [string |-> At(s, "pattern").string]
    BY <1>2, <1>6, JsonKinds DEF Has, Is
  <2>2. At(s, "pattern") \in [string : Overflowing]
    BY <1>6, <2>1
  <2>3. Cause(s)
    BY <1>1, <1>6, <2>2 DEF Cause, Is
  <2> QED
    BY <2>3, OccursBelow
<1> QED
  BY <1>3, <1>4, <1>5, <1>6 DEF SchemaRaises

LEMMA EvaluateMeans ==
  ASSUME NEW v \in Json, NEW schemas \in SUBSET Json, NEW s \in schemas
  PROVE  LET result == Evaluate(v, s, schemas)
         IN /\ result \in {"RAISED", "UNSUPPORTED", "VALID", "INVALID"}
            /\ result = "VALID" => Accepted(schemas) /\ Conforms[v][s]
            /\ result = "INVALID" => ~Conforms[v][s]
            /\ result = "UNSUPPORTED" => ~Accepted(schemas)
            /\ result = "RAISED" => \E w \in UNION {Occurring[u] : u \in schemas \cup {v}} : Cause(w)
<1> DEFINE result == Evaluate(v, s, schemas)
           reached == UNION {Reached[u] : u \in schemas}
<1>1. result \in {"RAISED", "UNSUPPORTED", "VALID", "INVALID"}
  BY DEF Evaluate
<1>2. Accepted(schemas) <=> \A t \in reached : Supported(t)
  BY DEF Accepted
<1>3. ASSUME Accepted(schemas)
      PROVE  Conforms[v][s] <=> \A p \in Judged[v][s] : Fits(p[1], p[2])
  <2>1. \A t \in Reached[s] : Supported(t)
    BY <1>2, <1>3
  <2> QED
    BY <2>1, MeaningHolds DEF JudgesByMeaning
<1>4. ASSUME NEW t \in reached, SchemaRaises(t)
      PROVE  \E w \in UNION {Occurring[u] : u \in schemas \cup {v}} : Cause(w)
  <2>1. PICK u \in schemas : t \in Reached[u]
    BY <1>4
  <2>2. t \in Json /\ t \in Occurring[u] /\ u \in Json
    BY <2>1, ReachedOccurs
  <2>3. PICK w \in Occurring[t] : Cause(w)
    BY <1>4, <2>2, SchemaRaisesForCause
  <2>4. Occurring[t] \subseteq Occurring[u]
    BY <2>1, <2>2, ReachedWithin
  <2> QED
    BY <2>1, <2>3, <2>4
<1>5. ASSUME Accepted(schemas), NEW p \in Judged[v][s], Huge(p[1]) \/ ~WellFormed(p[2])
      PROVE  \E w \in UNION {Occurring[u] : u \in schemas \cup {v}} : Cause(w)
  <2>1. p[1] \in Occurring[v] /\ p[2] \in Reached[s]
    BY JudgedOccurs DEF JudgedWell
  <2>2. WellFormed(p[2])
    BY <1>2, <1>5, <2>1 DEF Supported
  <2>3. Cause(p[1])
    BY <1>5, <2>2 DEF Cause
  <2> QED
    BY <2>1, <2>3
<1>6. /\ result = "VALID" => Accepted(schemas) /\ \A p \in Judged[v][s] : Fits(p[1], p[2])
      /\ result = "INVALID" => Accepted(schemas) /\ ~ \A p \in Judged[v][s] : Fits(p[1], p[2])
      /\ result = "UNSUPPORTED" => ~Accepted(schemas)
      /\ result = "RAISED" =>
           \/ \E t \in reached : SchemaRaises(t)
           \/ Accepted(schemas) /\ \E p \in Judged[v][s] : Huge(p[1]) \/ ~WellFormed(p[2])
  BY DEF Evaluate
<1> HIDE DEF result, reached
<1>7. result = "RAISED" => \E w \in UNION {Occurring[u] : u \in schemas \cup {v}} : Cause(w)
  BY <1>4, <1>5, <1>6
<1>8. result = "VALID" => Accepted(schemas) /\ Conforms[v][s]
  BY <1>3, <1>6
<1>9. result = "INVALID" => ~Conforms[v][s]
  BY <1>3, <1>6
<1> QED
  BY <1>1, <1>6, <1>7, <1>8, <1>9 DEF result

-----------------------------------------------------------------------------
(* The invariant: what is judged is JSON, a result is judged only after the  *)
(* gate let its request through, and that gate accepted both schemas.        *)
JudgedInv ==
  /\ input \in Json /\ output \in Json /\ value \in Json
  /\ gate = "VALID" => Accepted({input, output})
  /\ verdict # "NONE" => gate = "VALID"
  /\ DecidesByMeaning
  /\ RaisesForCause
  /\ OutputJudgeable

LEMMA JudgedInit == Init => JudgedInv
<1> SUFFICES ASSUME Init PROVE JudgedInv
  OBVIOUS
<1>1. input \in Json /\ output \in Json /\ value \in Json
  BY SchemaAssumption DEF Init
<1> QED
  BY <1>1 DEF Init, JudgedInv, DecidesByMeaning, RaisesForCause, OutputJudgeable

LEMMA JudgedCheck == JudgedInv /\ Check => JudgedInv'
<1> SUFFICES ASSUME JudgedInv, Check PROVE JudgedInv'
  OBVIOUS
<1> DEFINE schemas == {input, output}
<1>1. /\ input \in Json /\ output \in Json /\ value \in Json
      /\ input' = input /\ output' = output /\ value' = value
      /\ verdict = "NONE" /\ verdict' = "NONE"
  BY DEF JudgedInv, Check
<1>2. gate' = Evaluate(value, input, schemas)
  BY DEF Check, G0
<1>3. schemas \in SUBSET Json /\ input \in schemas
  BY <1>1
<1>4. /\ gate' \in {"RAISED", "UNSUPPORTED", "VALID", "INVALID"}
      /\ gate' = "VALID" => Accepted(schemas) /\ Conforms[value][input]
      /\ gate' = "INVALID" => ~Conforms[value][input]
      /\ gate' = "RAISED" =>
           \E w \in UNION {Occurring[u] : u \in schemas \cup {value}} : Cause(w)
  <2> HIDE DEF schemas
  <2> QED
    BY <1>1, <1>2, <1>3, EvaluateMeans
<1>5. schemas \cup {value} = {input, output, value}
  OBVIOUS
<1>6. RaisesForCause'
  BY <1>1, <1>4, <1>5 DEF RaisesForCause, Cause
<1>7. DecidesByMeaning'
  BY <1>1, <1>4 DEF DecidesByMeaning
<1>8. OutputJudgeable'
  BY <1>1 DEF OutputJudgeable
<1> QED
  BY <1>1, <1>4, <1>6, <1>7, <1>8 DEF JudgedInv, Accepted

LEMMA JudgedVerify == JudgedInv /\ Verify => JudgedInv'
<1> SUFFICES ASSUME JudgedInv, Verify PROVE JudgedInv'
  OBVIOUS
<1> DEFINE schemas == {output}
<1>1. /\ input \in Json /\ output \in Json /\ value' \in Json
      /\ input' = input /\ output' = output /\ gate' = gate
      /\ gate = "VALID" /\ Accepted({input, output})
  BY SchemaAssumption DEF JudgedInv, Verify
<1>2. verdict' = Evaluate(value', output, schemas)
  BY DEF Verify
<1>3. schemas \in SUBSET Json /\ output \in schemas
  BY <1>1
<1>4. /\ verdict' \in {"RAISED", "UNSUPPORTED", "VALID", "INVALID"}
      /\ verdict' = "VALID" => Accepted(schemas) /\ Conforms[value'][output]
      /\ verdict' = "INVALID" => ~Conforms[value'][output]
      /\ verdict' = "UNSUPPORTED" => ~Accepted(schemas)
      /\ verdict' = "RAISED" =>
           \E w \in UNION {Occurring[u] : u \in schemas \cup {value'}} : Cause(w)
  <2> HIDE DEF schemas
  <2> QED
    BY <1>1, <1>2, <1>3, EvaluateMeans
<1>5. Accepted(schemas)
  BY <1>1 DEF Accepted
<1>6. UNION {Occurring[u] : u \in schemas \cup {value'}}
        \subseteq UNION {Occurring[u] : u \in {input, output, value'}}
  OBVIOUS
<1>7. RaisesForCause'
  <2> HIDE DEF schemas
  <2>1. ASSUME verdict' = "RAISED"
        PROVE  \E w \in UNION {Occurring[u] : u \in {input, output, value'}} : Cause(w)
    BY <1>4, <1>6, <2>1
  <2> QED
    BY <1>1, <2>1 DEF RaisesForCause, Cause
<1>8. DecidesByMeaning'
  BY <1>1, <1>4 DEF DecidesByMeaning
<1>9. OutputJudgeable'
  BY <1>4, <1>5 DEF OutputJudgeable
<1> QED
  BY <1>1, <1>7, <1>8, <1>9 DEF JudgedInv, Accepted

LEMMA JudgedStep == JudgedInv /\ [Next]_vars => JudgedInv'
<1> SUFFICES ASSUME JudgedInv, [Next]_vars PROVE JudgedInv'
  OBVIOUS
<1>1. CASE Check
  BY <1>1, JudgedCheck
<1>2. CASE Verify
  BY <1>2, JudgedVerify
<1>3. CASE UNCHANGED vars
  BY <1>3 DEF vars, JudgedInv, DecidesByMeaning, RaisesForCause, OutputJudgeable, Accepted
<1> QED
  BY <1>1, <1>2, <1>3 DEF Next, Settled

LEMMA JudgedAlways == Spec => []JudgedInv
BY JudgedInit, JudgedStep, PTL DEF Spec

(* Whatever the schemas of a tool and the values, G0 and V2 let a value      *)
(* through only if it conforms to its schema in every keyword at every depth *)
(* and find it invalid only if it does not (schema.py, gates.py:246,         *)
(* verification.py:181).                                                     *)
THEOREM DecidesByMeaningThm == Spec => []DecidesByMeaning
<1>1. JudgedInv => DecidesByMeaning
  BY DEF JudgedInv
<1> QED
  BY <1>1, JudgedAlways, PTL

(* An evaluation that raises met an integer beyond a double, an object in a  *)
(* type or a pattern that compilation overflows on: whatever else            *)
(* instance_errors takes for granted of a schema, schema_errors has looked   *)
(* at (schema.py:25 and 88).                                                 *)
THEOREM RaisesForCauseThm == Spec => []RaisesForCause
<1>1. JudgedInv => RaisesForCause
  BY DEF JudgedInv
<1> QED
  BY <1>1, JudgedAlways, PTL

(* V2 meets no output schema beyond the subset: G0 looked at it before the   *)
(* tool was executed (gates.py:246).                                         *)
THEOREM OutputJudgeableThm == Spec => []OutputJudgeable
<1>1. JudgedInv => OutputJudgeable
  BY DEF JudgedInv
<1> QED
  BY <1>1, JudgedAlways, PTL


-----------------------------------------------------------------------------
(* With accepted schemas, only an integer beyond a double in the value makes *)
(* an evaluation raise.                                                      *)
LEMMA AcceptedRaises ==
  ASSUME NEW v \in Json, NEW schemas \in SUBSET Json, NEW s \in schemas,
         Accepted(schemas), Evaluate(v, s, schemas) = "RAISED"
  PROVE  \E w \in Occurring[v] : Huge(w)
<1> DEFINE reached == UNION {Reached[u] : u \in schemas}
<1>1. \A t \in reached : Supported(t)
  BY DEF Accepted
<1>2. \/ \E t \in reached : SchemaRaises(t)
      \/ \E p \in Judged[v][s] : Huge(p[1]) \/ ~WellFormed(p[2])
  BY DEF Evaluate
<1>3. PICK p \in Judged[v][s] : Huge(p[1]) \/ ~WellFormed(p[2])
  BY <1>1, <1>2 DEF Supported
<1>4. p[1] \in Occurring[v] /\ p[2] \in Reached[s]
  BY JudgedOccurs DEF JudgedWell
<1>5. Huge(p[1])
  BY <1>1, <1>3, <1>4 DEF Supported
<1> QED
  BY <1>4, <1>5

AcceptedRaisesForHuge ==
  Accepted({input, output}) /\ "RAISED" \in {gate, verdict}
    => \E v \in Occurring[value] : Huge(v)

LEMMA HugeStep == JudgedInv /\ AcceptedRaisesForHuge /\ [Next]_vars => AcceptedRaisesForHuge'
<1> SUFFICES ASSUME JudgedInv, AcceptedRaisesForHuge, [Next]_vars PROVE AcceptedRaisesForHuge'
  OBVIOUS
<1>1. CASE Check
  <2> DEFINE schemas == {input, output}
  <2>1. /\ input' = input /\ output' = output /\ value' = value /\ verdict' = "NONE"
        /\ gate' = Evaluate(value, input, schemas)
        /\ input \in Json /\ output \in Json /\ value \in Json
    BY <1>1 DEF Check, G0, JudgedInv
  <2>2. schemas \in SUBSET Json /\ input \in schemas
    BY <2>1
  <2>3. ASSUME Accepted(schemas), gate' = "RAISED" PROVE \E v \in Occurring[value] : Huge(v)
    <3> HIDE DEF schemas
    <3> QED
      BY <2>1, <2>2, <2>3, AcceptedRaises
  <2> QED
    BY <2>1, <2>3 DEF AcceptedRaisesForHuge, Accepted
<1>2. CASE Verify
  <2> DEFINE schemas == {output}
  <2>1. /\ input' = input /\ output' = output /\ gate' = "VALID" /\ value' \in Json
        /\ verdict' = Evaluate(value', output, schemas) /\ output \in Json
        /\ Accepted({input, output})
    BY <1>2, SchemaAssumption DEF Verify, JudgedInv
  <2>2. schemas \in SUBSET Json /\ output \in schemas /\ Accepted(schemas)
    BY <2>1 DEF Accepted
  <2>3. ASSUME verdict' = "RAISED" PROVE \E v \in Occurring[value'] : Huge(v)
    <3> HIDE DEF schemas
    <3> QED
      BY <2>1, <2>2, <2>3, AcceptedRaises
  <2> QED
    BY <2>1, <2>3 DEF AcceptedRaisesForHuge, Accepted
<1>3. CASE UNCHANGED vars
  BY <1>3 DEF vars, AcceptedRaisesForHuge, Accepted
<1> QED
  BY <1>1, <1>2, <1>3 DEF Next, Settled

(* "Validate a JSON value against a schema already accepted by               *)
(* schema_errors": accepted schemas decide about every value but those in    *)
(* which an integer beyond a double occurs (schema.py:22 and 89), and that   *)
(* exception is the only one.                                                *)
THEOREM AcceptedRaisesForHugeThm == Spec => []AcceptedRaisesForHuge
<1>1. Init => AcceptedRaisesForHuge
  BY DEF Init, AcceptedRaisesForHuge
<1> QED
  BY <1>1, HugeStep, JudgedAlways, PTL DEF Spec
=============================================================================
