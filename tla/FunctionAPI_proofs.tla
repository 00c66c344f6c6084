------------------------- MODULE FunctionAPI_proofs -------------------------
(***************************************************************************)
(* Proofs about FunctionAPI, for any functions that clients of either      *)
(* version send: what the webhook makes of them keeps its defaults through *)
(* the conversions.  None stands for what is not set: that it differs from *)
(* the objects that are is a hypothesis of the theorems (NoneIsNoObject).  *)
(***************************************************************************)
EXTENDS FunctionAPI, FiniteSetTheorems, TLAPS

\* What is not set is no object and no list: no function.
NoneIsNoObject == None # [x \in DOMAIN None |-> None[x]]

-----------------------------------------------------------------------------
(* Lists.                                                                  *)

LEMMA EmptyList ==
  IsList(<<>>) /\ IsRefs(<<>>)
<1>1. Len(<<>>) = 0 /\ DOMAIN <<>> = {} /\ 1..0 = {}
  OBVIOUS
<1>2. <<>> = [i \in {} |-> <<>>[i]]
  OBVIOUS
<1> QED
  BY <1>1, <1>2 DEF IsList, IsRefs

\* What maps the numbers up to n is a list.
LEMMA MadeList ==
  ASSUME NEW n \in Nat, NEW l, l = [i \in 1..n |-> l[i]]
  PROVE  IsList(l) /\ Len(l) = n /\ DOMAIN l = 1..n /\ (l = <<>> <=> n = 0)
<1>1. Len(l) = n
  OBVIOUS
<1>2. n = 0 => l = <<>>
  OBVIOUS
<1> QED
  BY <1>1, <1>2 DEF IsList

\* A list has a first element or none; converted one by one it is as empty as it was.
LEMMA ListConverted ==
  ASSUME NEW l, IsList(l), NEW m, DOMAIN m = DOMAIN l, m = [i \in DOMAIN m |-> m[i]]
  PROVE  IsList(m) /\ Len(m) = Len(l) /\ (l = <<>> <=> m = <<>>) /\ (l # <<>> <=> 1 \in DOMAIN l)
<1>1. PICK n \in Nat : n = Len(l)
  BY DEF IsList
<1>2. l = [i \in 1..n |-> l[i]] /\ m = [i \in 1..n |-> m[i]]
  BY <1>1 DEF IsList
<1>3. /\ DOMAIN l = 1..n /\ (l = <<>> <=> n = 0)
      /\ IsList(m) /\ Len(m) = n /\ (m = <<>> <=> n = 0)
  BY <1>2, MadeList
<1> QED
  BY <1>1, <1>3

\* The indices that are kept up to one.
Upto(kept, i) == {j \in kept : j <= i}

\* OutputsTo takes the outputs by the ranks of the indices that are kept: each index has one,
\* and one is the last.  If all are kept, nothing changes place.
LEMMA NthKept ==
  ASSUME NEW n \in Nat, NEW kept, kept \subseteq 1..n
  PROVE  /\ Cardinality(kept) \in Nat
         /\ \A k \in 1..Cardinality(kept) : Nth(kept, k) \in kept
         /\ kept # {} => \E i \in kept : \A j \in kept : j <= i
         /\ kept = 1..n => /\ Cardinality(kept) = n
                           /\ \A k \in 1..n : Nth(kept, k) = k
<1> DEFINE N == Cardinality(kept)
           rank == [i \in kept |-> Cardinality(Upto(kept, i))]
<1>1. IsFiniteSet(kept) /\ N \in Nat
  <2>1. IsFiniteSet(1..n) /\ kept \in SUBSET (1..n)
    BY FS_Interval
  <2>2. IsFiniteSet(kept)
    BY <2>1, FS_Subset
  <2> QED
    BY <2>2, FS_CardinalityType
<1>2. ASSUME NEW i \in kept
      PROVE  /\ IsFiniteSet(Upto(kept, i)) /\ Cardinality(Upto(kept, i)) \in 1..N
             /\ Cardinality(Upto(kept, i)) = N => Upto(kept, i) = kept
  <2>1. Upto(kept, i) \in SUBSET kept
    BY DEF Upto
  <2>2. i \in Upto(kept, i)
    BY DEF Upto
  <2>3. /\ IsFiniteSet(Upto(kept, i)) /\ Cardinality(Upto(kept, i)) <= N
        /\ N = Cardinality(Upto(kept, i)) => Upto(kept, i) = kept
    BY <1>1, <2>1, FS_Subset
  <2>4. Cardinality(Upto(kept, i)) \in Nat /\ Cardinality(Upto(kept, i)) # 0
    BY <2>2, <2>3, FS_CardinalityType, FS_EmptySet
  <2> QED
    BY <1>1, <2>3, <2>4
<1>3. ASSUME NEW i \in kept, NEW j \in kept, i < j
      PROVE  Cardinality(Upto(kept, i)) # Cardinality(Upto(kept, j))
  <2>1. Upto(kept, i) \in SUBSET Upto(kept, j) /\ j \in Upto(kept, j) /\ j \notin Upto(kept, i)
    <3>1. i \in Int /\ j \in Int /\ \A k \in kept : k \in Int
      OBVIOUS
    <3> HIDE DEF N, rank
    <3>2. \A k \in kept : k <= i => k <= j
      BY <1>3, <3>1
    <3>3. j <= j /\ ~(j <= i)
      BY <1>3, <3>1
    <3> QED
      BY <3>2, <3>3 DEF Upto
  <2> QED
    BY <1>2, <2>1, FS_Subset
<1>4. rank \in Injection(kept, 1..N)
  <2>1. rank \in [kept -> 1..N]
    BY <1>2
  <2>2. \A i, j \in kept : rank[i] = rank[j] => i = j
    BY <1>3
  <2> HIDE DEF rank
  <2> QED
    BY <2>1, <2>2 DEF Injection, IsInjective
<1>5. IsFiniteSet(1..N) /\ Cardinality(1..N) = N
  <2>1. IF 1 > N THEN N = 0 ELSE N - 1 + 1 = N
    BY <1>1
  <2> HIDE DEF N
  <2> QED
    BY <1>1, <2>1, FS_Interval
<1>6. rank \in Surjection(kept, 1..N)
  BY <1>4, <1>5, FS_Injection
<1>7. \A k \in 1..N : \E i \in kept : Cardinality(Upto(kept, i)) = k
  BY <1>6 DEF Surjection
<1>8. \A k : Nth(kept, k) = CHOOSE i \in kept : Cardinality(Upto(kept, i)) = k
  BY DEF Nth, Upto
<1>9. \A k \in 1..N : Nth(kept, k) \in kept /\ Cardinality(Upto(kept, Nth(kept, k))) = k
  BY <1>7, <1>8
<1>10. kept # {} => \E i \in kept : \A j \in kept : j <= i
  <2> SUFFICES ASSUME kept # {} PROVE \E i \in kept : \A j \in kept : j <= i
    OBVIOUS
  <2>1. N \in 1..N
    BY <1>1, FS_EmptySet
  <2>2. PICK i \in kept : Cardinality(Upto(kept, i)) = N
    BY <1>7, <2>1
  <2>3. Upto(kept, i) = kept
    BY <1>2, <2>2
  <2> QED
    BY <2>3 DEF Upto
<1>11. ASSUME kept = 1..n PROVE N = n /\ \A k \in 1..n : Nth(kept, k) = k
  <2>1. N = n
    <3>1. IF 1 > n THEN n = 0 ELSE n - 1 + 1 = n
      OBVIOUS
    <3> QED
      BY <1>11, <3>1, FS_Interval
  <2>2. \A i \in kept : Cardinality(Upto(kept, i)) = i
    <3> SUFFICES ASSUME NEW i \in kept PROVE Cardinality(Upto(kept, i)) = i
      OBVIOUS
    <3>1. Upto(kept, i) = 1..i /\ i \in Int /\ ~(1 > i) /\ i - 1 + 1 = i
      BY <1>11 DEF Upto
    <3> QED
      BY <3>1, FS_Interval
  <2> QED
    BY <1>9, <2>1, <2>2
<1> QED
  BY <1>1, <1>9, <1>10, <1>11

-----------------------------------------------------------------------------
(* The parameters of a build, a map or a list.                             *)

\* The sequences of the elements of a finite set have all of them, each once.
LEMMA SeqsOfSet ==
  ASSUME NEW S, IsFiniteSet(S), NEW f \in SetToSeqs(S)
  PROVE  /\ Cardinality(S) \in Nat /\ f \in [1..Cardinality(S) -> S] /\ IsFiniteSet(DOMAIN f)
         /\ \A i, j \in DOMAIN f : f[i] = f[j] => i = j
         /\ \A n \in S : \E i \in DOMAIN f : f[i] = n
         /\ \A i \in DOMAIN f : f[i] \in S /\ i <= i
<1> DEFINE N == Cardinality(S)
<1>1. N \in Nat
  BY FS_CardinalityType
<1>2. /\ f \in [1..N -> S]
      /\ \A i, j \in 1..N : i # j => f[i] # f[j]
  BY DEF SetToSeqs
<1>3. IsFiniteSet(1..N) /\ Cardinality(1..N) = N
  <2>1. IF 1 > N THEN N = 0 ELSE N - 1 + 1 = N
    BY <1>1
  <2> HIDE DEF N
  <2> QED
    BY <1>1, <2>1, FS_Interval
<1>4. f \in Injection(1..N, S)
  BY <1>2 DEF Injection, IsInjective
<1>5. f \in Surjection(1..N, S)
  BY <1>3, <1>4, FS_Injection
<1>6. \A n \in S : \E i \in 1..N : f[i] = n
  BY <1>5 DEF Surjection
<1> QED
  BY <1>1, <1>2, <1>3, <1>6

\* Of the parameters with a value and one name, one is the last.
LEMMA LastThere ==
  ASSUME NEW l, IsParamList(l), NEW i \in Valued(l)
  PROVE  \E j \in Valued(l) : l[j].name = l[i].name /\ IsLast(l, j)
<1> DEFINE kept == {j \in Valued(l) : l[j].name = l[i].name}
<1>1. PICK n \in Nat : DOMAIN l = 1..n
  BY DEF IsParamList, IsList
<1>2. kept \subseteq 1..n /\ kept # {}
  BY <1>1 DEF Valued
<1>3. PICK j \in kept : \A k \in kept : k <= j
  <2> HIDE DEF kept
  <2> QED
    BY <1>2, NthKept
<1> QED
  BY <1>3 DEF IsLast

\* The map of any of the lists a map becomes is the map.
LEMMA ParamsBack ==
  ASSUME NEW m, IsParamMap(m), NEW l \in ParamLists(m)
  PROVE  IsParamList(l) /\ ParamMap(l) = m
<1>1. PICK f \in SetToSeqs(DOMAIN m) : l = [i \in DOMAIN f |-> [name |-> f[i], value |-> m[f[i]]]]
  BY DEF ParamLists
<1>2. IsFiniteSet(DOMAIN m) /\ m = [n \in DOMAIN m |-> m[n]] /\ \A n \in DOMAIN m : m[n] # None
  BY DEF IsParamMap
<1>3. /\ \A i \in DOMAIN f : f[i] \in DOMAIN m /\ i <= i
      /\ IsFiniteSet(DOMAIN f)
      /\ \A i, j \in DOMAIN f : f[i] = f[j] => i = j
      /\ \A n \in DOMAIN m : \E i \in DOMAIN f : f[i] = n
  BY <1>2, SeqsOfSet
<1>4. DOMAIN l = DOMAIN f /\ \A i \in DOMAIN f : l[i].name = f[i] /\ l[i].value = m[f[i]]
  BY <1>1
<1>5. Valued(l) = DOMAIN f
  BY <1>2, <1>3, <1>4 DEF Valued
<1>6. \A i \in DOMAIN f : IsLast(l, i)
  BY <1>3, <1>4, <1>5 DEF IsLast
<1>13. IsList(l)
  <2>1. PICK n \in Nat : DOMAIN f = 1..n
    BY <1>2, SeqsOfSet
  <2>2. l = [i \in 1..n |-> l[i]]
    BY <1>1, <2>1
  <2> QED
    BY <2>2, MadeList
<1>14. \A i \in DOMAIN l : l[i] = [name |-> l[i].name, value |-> l[i].value]
  BY <1>1
<1>7. IsParamList(l)
  BY <1>3, <1>4, <1>5, <1>6, <1>13, <1>14 DEF IsParamList
<1> DEFINE LastOf(n) == CHOOSE i \in Valued(l) : l[i].name = n /\ IsLast(l, i)
<1>8. \A n \in DOMAIN m : LastOf(n) \in Valued(l) /\ l[LastOf(n)].name = n
  BY <1>3, <1>4, <1>5, <1>6
<1>9. \A n \in DOMAIN m : l[LastOf(n)].value = m[n]
  BY <1>4, <1>5, <1>8
<1>10. {l[i].name : i \in Valued(l)} = DOMAIN m
  <2>1. {l[i].name : i \in Valued(l)} = {f[i] : i \in DOMAIN f}
    BY <1>4, <1>5
  <2>2. \A n : n \in {f[i] : i \in DOMAIN f} <=> n \in DOMAIN m
    BY <1>3
  <2> QED
    BY <2>1, <2>2
<1>11. ParamMap(l) = [n \in {l[i].name : i \in Valued(l)} |-> l[LastOf(n)].value]
  BY DEF ParamMap
<1> HIDE DEF LastOf
<1>12. ParamMap(l) = [n \in DOMAIN m |-> m[n]]
  BY <1>9, <1>10, <1>11
<1> QED
  BY <1>2, <1>7, <1>12

\* The map of a list is one.
LEMMA MapMade ==
  ASSUME NEW l, IsParamList(l)
  PROVE  IsParamMap(ParamMap(l))
<1> DEFINE LastOf(n) == CHOOSE i \in Valued(l) : l[i].name = n /\ IsLast(l, i)
           Names == {l[i].name : i \in Valued(l)}
           f == [i \in Valued(l) |-> l[i].name]
<1>1. IsFiniteSet(Names)
  <2>1. IsFiniteSet(Valued(l))
    <3>1. PICK n \in Nat : DOMAIN l = 1..n
      BY DEF IsParamList, IsList
    <3> QED
      BY <3>1, FS_Interval, FS_Subset DEF Valued
  <2>2. f \in Surjection(Valued(l), Names)
    BY DEF Surjection
  <2> HIDE DEF Names, f
  <2> QED
    BY <2>1, <2>2, FS_Surjection
<1>2. \A n \in Names : LastOf(n) \in Valued(l)
  <2> SUFFICES ASSUME NEW n \in Names PROVE LastOf(n) \in Valued(l)
    OBVIOUS
  <2>1. \E i \in Valued(l) : l[i].name = n /\ IsLast(l, i)
    BY LastThere
  <2> QED
    BY <2>1
<1>3. \A n \in Names : l[LastOf(n)].value # None
  BY <1>2 DEF Valued
<1>4. PICK m : m = ParamMap(l)
  OBVIOUS
<1>5. m = [n \in Names |-> l[LastOf(n)].value]
  BY <1>4 DEF ParamMap
<1> HIDE DEF LastOf, Names
<1>6. DOMAIN m = Names /\ \A n \in Names : m[n] = l[LastOf(n)].value
  BY <1>5
<1> QED
  BY <1>1, <1>3, <1>4, <1>5, <1>6 DEF IsParamMap

\* No parameters.
LEMMA NoneListed ==
  IsParamList(<<>>) /\ IsParamMap(NoParams)
<1>1. DOMAIN <<>> = {}
  OBVIOUS
<1>2. IsParamList(<<>>)
  BY <1>1, EmptyList DEF IsParamList, Valued
<1> QED
  BY <1>2, MapMade DEF NoParams
-----------------------------------------------------------------------------
(* What Default fills in, and that it fills it in once.                    *)

FilledHttp(t) ==
    t.http # None =>
        /\ t.http.port # None /\ (t.http.port = 0 => t.dapr # <<>>)
        /\ t.http.route # None /\ t.http.route.gateway # None
FilledTriggers(t) == t # None /\ (t.http # None \/ t.dapr # <<>>) /\ FilledHttp(t)

FilledWasm(h) ==
    IsWasm(h) =>
        /\ h.notes.wasm # None
        /\ h.build # None => h.build.shipwright # None /\ h.build.shipwright.strategy # None
        /\ h.serving # None =>
              /\ h.serving.wasm # None
              /\ h.serving.template # None => h.serving.template.runtimeClass # None

Filled(h) ==
    /\ h.version \notin {None, ""}
    /\ h.serving # None => FilledTriggers(h.serving.triggers)
    /\ FilledWasm(h)

\* DefaultTriggers fills in triggers, port and gateway.
LEMMA TriggersFilled ==
  ASSUME NoneIsNoObject, NEW t, IsTriggers(t)
  PROVE  IsTriggers(DefaultTriggers(t)) /\ FilledTriggers(DefaultTriggers(t))
<1> DEFINE g == Given(t, NoTriggers)
           u == IF g.dapr = <<>> /\ g.http = None
                THEN [g EXCEPT !.http = [port |-> None, route |-> None, engine |-> None]] ELSE g
<1>1. g = [http |-> g.http, dapr |-> g.dapr, inputs |-> g.inputs] /\ IsHttp(g.http) /\ IsRefs(g.dapr)
  BY EmptyList DEF Given, NoTriggers, IsTriggers, IsHttp
<1> HIDE DEF g
<1>2. /\ u = [http |-> u.http, dapr |-> u.dapr, inputs |-> u.inputs] /\ IsHttp(u.http) /\ IsRefs(u.dapr)
      /\ u.http # None \/ u.dapr # <<>>
  BY <1>1 DEF IsHttp, IsRoute, NoneIsNoObject
<1>3. DefaultTriggers(t) = IF u.http = None THEN u ELSE [u EXCEPT !.http = DefaultHttp(u)]
  BY DEF DefaultTriggers, g
<1> HIDE DEF u
<1>4. CASE u.http = None
  BY <1>2, <1>3, <1>4 DEF IsTriggers, FilledTriggers, FilledHttp, NoneIsNoObject
<1>5. CASE u.http # None
  <2> DEFINE r == u.http.route
             route == DefaultRoute(r)
             port == IF u.http.port \in {None} \cup (IF u.dapr = <<>> THEN {0} ELSE {})
                     THEN DefaultFuncPort ELSE u.http.port
  <2>1. DefaultHttp(u) = [port |-> port, route |-> route, engine |-> u.http.engine]
    <3>1. u.http = [port |-> u.http.port, route |-> r, engine |-> u.http.engine]
      BY <1>2, <1>5 DEF IsHttp
    <3>2. DefaultHttp(u) = [u.http EXCEPT !.port = port, !.route = route]
      BY DEF DefaultHttp
    <3> HIDE DEF port, route, r
    <3> QED
      BY <3>1, <3>2
  <2>2. /\ route = [gateway |-> route.gateway, hosts |-> route.hosts] /\ route.gateway # None
        /\ route # None
    BY <1>2, <1>5, DefaultsAssumption DEF IsHttp, IsRoute, DefaultRoute, Given, NoneIsNoObject
  <2>3. port # None /\ (port = 0 => u.dapr # <<>>)
    BY DefaultsAssumption DEF DefaultFuncPort
  <2> HIDE DEF route, port
  <2>4. DefaultTriggers(t) = [http |-> DefaultHttp(u), dapr |-> u.dapr, inputs |-> u.inputs]
    BY <1>2, <1>3, <1>5
  <2> QED
    BY <1>2, <2>1, <2>2, <2>3, <2>4 DEF IsTriggers, IsHttp, IsRoute, FilledTriggers, FilledHttp, NoneIsNoObject
<1> QED
  BY <1>4, <1>5

\* Filled in triggers stay as they are.
LEMMA FilledTriggersStay ==
  ASSUME NEW t, IsTriggers(t), FilledTriggers(t)
  PROVE  DefaultTriggers(t) = t
<1>1. DefaultTriggers(t) = IF t.http = None THEN t ELSE [t EXCEPT !.http = DefaultHttp(t)]
  BY DEF DefaultTriggers, FilledTriggers, Given
<1>2. CASE t.http = None
  BY <1>1, <1>2
<1>3. CASE t.http # None
  <2>1. /\ t.http.port \notin {None} \cup (IF t.dapr = <<>> THEN {0} ELSE {})
        /\ t.http.route # None /\ t.http.route.gateway # None
    BY <1>3 DEF FilledTriggers, FilledHttp
  <2>2. DefaultRoute(t.http.route) = t.http.route
    BY <2>1, <1>3 DEF DefaultRoute, Given, IsTriggers, IsHttp, IsRoute, FilledTriggers
  <2>3. DefaultHttp(t) = t.http
    BY <2>1, <2>2, <1>3 DEF DefaultHttp, IsTriggers, IsHttp, FilledTriggers
  <2> QED
    BY <1>1, <1>3, <2>3 DEF IsTriggers, FilledTriggers
<1> QED
  BY <1>2, <1>3

\* Default leaves nothing to fill in, and an object an object.
LEMMA DefaultFills ==
  ASSUME NoneIsNoObject, NEW h, IsFunction2(h)
  PROVE  IsFunction2(Default(h)) /\ Filled(Default(h)) /\ Default(h).status = h.status
<1> DEFINE version == IF h.version \in {None, ""} THEN "latest" ELSE h.version
           serving == DefaultServing(h.serving)
<1>0. PICK k : k = [h EXCEPT !.version = version, !.serving = serving]
  OBVIOUS
<1>1. version \notin {None, ""}
  BY DefaultsAssumption
<1>2. IsServing2(serving) /\ (serving # None => FilledTriggers(serving.triggers))
  <2>1. CASE h.serving = None
    BY <2>1 DEF DefaultServing, IsServing2
  <2>2. CASE h.serving # None
    <3>1. IsTriggers(DefaultTriggers(h.serving.triggers)) /\ FilledTriggers(DefaultTriggers(h.serving.triggers))
      BY <2>2, TriggersFilled DEF IsFunction2, IsServing2
    <3>2. serving = [h.serving EXCEPT !.triggers = DefaultTriggers(h.serving.triggers)]
      BY <2>2 DEF DefaultServing
    <3> HIDE DEF serving
    <3> QED
      BY <2>2, <3>1, <3>2 DEF IsFunction2, IsServing2
  <2> QED
    BY <2>1, <2>2
<1>3. Default(h) = HandleWorkloadRuntime(k)
  BY <1>0 DEF Default
<1> HIDE DEF version, serving
<1>4. /\ k = [notes |-> h.notes, version |-> version, image |-> h.image, credentials |-> h.credentials,
             runtime |-> h.runtime, build |-> h.build, serving |-> serving, status |-> h.status]
      /\ IsNotes(h.notes) /\ IsBuild2(h.build)
  BY <1>0 DEF IsFunction2
<1>5. CASE ~IsWasm(k)
  <2>1. Default(h) = k
    BY <1>3, <1>5 DEF HandleWorkloadRuntime
  <2>2. /\ k.notes = h.notes /\ k.version = version /\ k.build = h.build /\ k.serving = serving
        /\ k.image = h.image /\ k.credentials = h.credentials /\ k.runtime = h.runtime /\ k.status = h.status
    BY <1>4
  <2>3. IsFunction2(k)
    BY <1>2, <1>4, <2>2 DEF IsFunction2
  <2>4. Filled(k)
    BY <1>1, <1>2, <1>5, <2>2 DEF Filled, FilledWasm
  <2> QED
    BY <2>1, <2>2, <2>3, <2>4
<1>6. CASE IsWasm(k)
  <2> DEFINE notes == [h.notes EXCEPT !.wasm = Given(@, WasmVariant)]
             build == WasmBuild(h.build)
             wasm == WasmServing(serving)
  <2>1. Default(h) = [notes |-> notes, version |-> version, image |-> h.image, credentials |-> h.credentials,
                      runtime |-> h.runtime, build |-> build, serving |-> wasm, status |-> h.status]
    BY <1>3, <1>4, <1>6 DEF HandleWorkloadRuntime
  <2>2. IsNotes(notes) /\ notes.wasm # None
    BY <1>4, DefaultsAssumption DEF IsNotes, Given
  <2>3. IsBuild2(build) /\ (build # None => build.shipwright # None /\ build.shipwright.strategy # None)
    <3>1. CASE h.build = None
      BY <3>1 DEF WasmBuild, IsBuild2
    <3>2. CASE h.build # None /\ h.build.shipwright = None
      <4>1. build = [h.build EXCEPT !.shipwright = [strategy |-> "wasmedge", timeout |-> None, params |-> <<>>]]
        BY <3>2 DEF WasmBuild
      <4> HIDE DEF build
      <4> QED
        BY <1>4, <3>2, <4>1, DefaultsAssumption, NoneListed DEF IsBuild2, IsEngine, NoneIsNoObject
    <3>3. CASE h.build # None /\ h.build.shipwright # None
      <4> DEFINE e == h.build.shipwright
                 strategy == Given(e.strategy, "wasmedge")
      <4>1. build = [h.build EXCEPT !.shipwright = [strategy |-> strategy, timeout |-> e.timeout, params |-> e.params]]
        BY <1>4, <3>3 DEF WasmBuild, IsBuild2, IsEngine
      <4>2. strategy # None
        BY DefaultsAssumption DEF Given
      <4> HIDE DEF strategy, build
      <4>3. PICK f : f = [strategy |-> strategy, timeout |-> e.timeout, params |-> e.params]
        OBVIOUS
      <4>4. f # None /\ f.strategy # None /\ IsEngine(f)
        <5>1. IsEngine(e)
          BY <1>4, <3>3 DEF IsBuild2
        <5> HIDE DEF e
        <5> QED
          BY <3>3, <4>2, <4>3, <5>1 DEF IsEngine, NoneIsNoObject, e
      <4>5. build = [h.build EXCEPT !.shipwright = f]
        BY <4>1, <4>3
      <4> HIDE DEF e
      <4> QED
        BY <1>4, <3>3, <4>4, <4>5 DEF IsBuild2
    <3> QED
      BY <3>1, <3>2, <3>3
  <2>4. /\ IsServing2(wasm)
        /\ wasm # None => /\ FilledTriggers(wasm.triggers) /\ wasm.wasm # None
                          /\ wasm.template # None => wasm.template.runtimeClass # None
    <3>1. CASE serving = None
      BY <3>1 DEF WasmServing, IsServing2
    <3>2. CASE serving # None
      <4> DEFINE variant == Given(serving.wasm, WasmVariant)
                 template == WasmTemplate(serving.template)
      <4>1. wasm = [serving EXCEPT !.wasm = variant, !.template = template]
        BY <3>2 DEF WasmServing
      <4>2. variant # None /\ IsTemplate(template) /\ (template # None => template.runtimeClass # None)
        BY <1>2, <3>2, DefaultsAssumption DEF Given, WasmTemplate, IsServing2, IsTemplate
      <4> HIDE DEF wasm, variant, template
      <4> QED
        BY <1>2, <3>2, <4>1, <4>2 DEF IsServing2
    <3> QED
      BY <3>1, <3>2
  <2> HIDE DEF notes, build, wasm
  <2> DEFINE d == Default(h)
  <2>5. /\ d.notes = notes /\ d.version = version /\ d.build = build /\ d.serving = wasm
        /\ d.image = h.image /\ d.credentials = h.credentials /\ d.runtime = h.runtime /\ d.status = h.status
    BY <2>1
  <2>6. d = [notes |-> d.notes, version |-> d.version, image |-> d.image, credentials |-> d.credentials,
             runtime |-> d.runtime, build |-> d.build, serving |-> d.serving, status |-> d.status]
    BY <2>1, <2>5
  <2> HIDE DEF d
  <2>7. IsFunction2(d)
    BY <2>2, <2>3, <2>4, <2>5, <2>6 DEF IsFunction2
  <2>8. Filled(d)
    BY <1>1, <2>2, <2>3, <2>4, <2>5 DEF Filled, FilledWasm
  <2> QED
    BY <2>5, <2>7, <2>8 DEF d
<1> QED
  BY <1>5, <1>6

\* And what has nothing to fill in stays as it is.
LEMMA FilledStays ==
  ASSUME NEW h, IsFunction2(h), Filled(h)
  PROVE  Default(h) = h
<1>1. DefaultServing(h.serving) = h.serving
  BY FilledTriggersStay DEF DefaultServing, IsFunction2, IsServing2, Filled
<1>2. Default(h) = HandleWorkloadRuntime(h)
  BY <1>1 DEF Default, IsFunction2, Filled
<1>3. CASE ~IsWasm(h)
  BY <1>2, <1>3 DEF HandleWorkloadRuntime
<1>4. CASE IsWasm(h)
  <2>1. [h.notes EXCEPT !.wasm = Given(@, WasmVariant)] = h.notes
    BY <1>4 DEF Given, IsFunction2, IsNotes, Filled, FilledWasm
  <2>2. WasmBuild(h.build) = h.build
    BY <1>4 DEF WasmBuild, Given, IsFunction2, IsBuild2, IsEngine, Filled, FilledWasm
  <2>3. WasmServing(h.serving) = h.serving
    <3>1. CASE h.serving = None
      BY <3>1 DEF WasmServing
    <3>2. CASE h.serving # None
      <4>1. WasmTemplate(h.serving.template) = h.serving.template
        BY <1>4, <3>2 DEF WasmTemplate, Given, IsFunction2, IsServing2, IsTemplate, Filled, FilledWasm
      <4>2. Given(h.serving.wasm, WasmVariant) = h.serving.wasm
        BY <1>4, <3>2 DEF Given, Filled, FilledWasm
      <4> QED
        BY <3>2, <4>1, <4>2 DEF WasmServing, IsFunction2, IsServing2
    <3> QED
      BY <3>1, <3>2
  <2> QED
    BY <1>2, <1>4, <2>1, <2>2, <2>3 DEF HandleWorkloadRuntime, IsFunction2
<1> QED
  BY <1>3, <1>4

\* The two together: nothing is left to fill in exactly where Default changes nothing.
LEMMA DefaultFixed ==
  ASSUME NoneIsNoObject, NEW h, IsFunction2(h)
  PROVE  Default(h) = h <=> Filled(h)
BY DefaultFills, FilledStays

-----------------------------------------------------------------------------
(* The conversions: objects become objects, and nothing that was filled in *)
(* has to be filled in again.                                              *)

\* References to components get the types of the section.
LEMMA RefsTyped ==
  ASSUME NEW s, NEW l, IsList(l), NEW m, m = Typed(s, l)
  PROVE  /\ IsRefs(m) /\ (l = <<>> <=> m = <<>>)
         /\ \A i \in DOMAIN m : m[i].type = getDaprComponent(s, m[i].component)
<1>1. DOMAIN m = DOMAIN l /\ m = [i \in DOMAIN m |-> m[i]]
  BY DEF Typed
<1>2. IsList(m) /\ (l = <<>> <=> m = <<>>)
  BY <1>1, ListConverted
<1>3. \A i \in DOMAIN m :
        /\ m[i] = [type |-> m[i].type, component |-> m[i].component, topic |-> m[i].topic, name |-> m[i].name]
        /\ m[i].type = getDaprComponent(s, m[i].component)
  BY DEF Typed
<1> QED
  BY <1>2, <1>3 DEF IsRefs

\* What TriggersTo makes of a serving section: an http trigger or dapr triggers, or none.
LEMMA TriggersMade ==
  ASSUME NEW s, NEW port, NEW route, IsList(s.inputs), IsRoute(route),
         NEW t, t = TriggersTo(s, port, route)
  PROVE  /\ IsTriggers(t) /\ t.inputs = <<>>
         /\ \A i \in DOMAIN t.dapr : t.dapr[i].type = getDaprComponent(s, t.dapr[i].component)
         /\ t.http = IF s.runtime = "knative" THEN [port |-> port, route |-> route, engine |-> None] ELSE None
         /\ s.runtime # "async" => t.dapr = <<>>
         /\ s.runtime = "async" /\ s.inputs # <<>> => t.dapr # <<>>
<1> DEFINE http == IF s.runtime = "knative" THEN [port |-> port, route |-> route, engine |-> None] ELSE None
<1>1. PICK inputs : inputs = Typed(s, s.inputs)
  OBVIOUS
<1>2. /\ IsRefs(inputs) /\ (s.inputs # <<>> => inputs # <<>>)
      /\ \A i \in DOMAIN inputs : inputs[i].type = getDaprComponent(s, inputs[i].component)
  BY <1>1, RefsTyped
<1>3. PICK dapr : dapr = IF s.runtime = "async" THEN inputs ELSE <<>>
  OBVIOUS
<1>4. t = [http |-> http, dapr |-> dapr, inputs |-> <<>>]
  BY <1>1, <1>3 DEF TriggersTo, NoTriggers
<1>5. IsHttp(http)
  BY DEF IsHttp
<1>6. IsRefs(dapr) /\ \A i \in DOMAIN dapr : dapr[i].type = getDaprComponent(s, dapr[i].component)
  BY <1>2, <1>3, EmptyList
<1> HIDE DEF http
<1>7. t.http = http /\ t.dapr = dapr /\ t.inputs = <<>>
  BY <1>4
<1> QED
  BY <1>2, <1>3, <1>4, <1>5, <1>6, <1>7 DEF IsTriggers, http

\* They are set.
LEMMA TriggersSet ==
  ASSUME NoneIsNoObject, NEW s, NEW port, NEW route
  PROVE  TriggersTo(s, port, route) # None
<1>0. PICK t : t = TriggersTo(s, port, route)
  OBVIOUS
<1>1. t = [http |-> t.http, dapr |-> t.dapr, inputs |-> t.inputs]
  BY <1>0 DEF TriggersTo, NoTriggers
<1> QED
  BY <1>0, <1>1 DEF NoneIsNoObject

\* Of the outputs, those are left whose component the section defines: all, or some.
LEMMA OutputsMade ==
  ASSUME NEW s, IsList(s.outputs), NEW m, m = OutputsTo(s)
  PROVE  /\ IsRefs(m)
         /\ \A i \in DOMAIN m : m[i].type # None /\ m[i].type = getDaprComponent(s, m[i].component)
         /\ (\A i \in DOMAIN s.outputs : getDaprComponent(s, s.outputs[i].component) # None) =>
               m = Typed(s, s.outputs)
<1> DEFINE Defined(i) == getDaprComponent(s, s.outputs[i].component) # None
<1>1. PICK n \in Nat : DOMAIN s.outputs = 1..n
  BY DEF IsList
<1>2. PICK kept : kept = {i \in DOMAIN s.outputs : Defined(i)}
  OBVIOUS
<1>3. kept \subseteq 1..n
  BY <1>1, <1>2
<1>4. PICK k : k = Cardinality(kept)
  OBVIOUS
<1>5. k \in Nat /\ \A i \in 1..k : Nth(kept, i) \in kept
  BY <1>3, <1>4, NthKept
<1>7. PICK chosen : chosen = [i \in 1..k |-> s.outputs[Nth(kept, i)]]
  OBVIOUS
<1>6. m = Typed(s, chosen)
  BY <1>2, <1>4, <1>7 DEF OutputsTo
<1>8. IsList(chosen) /\ DOMAIN chosen = 1..k
  <2>1. chosen = [i \in 1..k |-> chosen[i]]
    BY <1>7
  <2>2. IsList(chosen)
    BY <1>5, <2>1, MadeList
  <2> QED
    BY <1>7, <2>2
<1>9. /\ IsRefs(m)
      /\ \A i \in DOMAIN m : m[i].type = getDaprComponent(s, m[i].component)
  BY <1>6, <1>8, RefsTyped
<1>10. \A i \in DOMAIN m : m[i].type # None
  <2> SUFFICES ASSUME NEW i \in 1..k PROVE m[i].type # None
    BY <1>6, <1>8 DEF Typed
  <2>1. Defined(Nth(kept, i))
    BY <1>2, <1>5
  <2>2. chosen[i] = s.outputs[Nth(kept, i)]
    BY <1>7
  <2> QED
    BY <1>6, <1>8, <2>1, <2>2 DEF Typed
<1>11. ASSUME \A i \in DOMAIN s.outputs : Defined(i)
       PROVE  m = Typed(s, s.outputs)
  <2>1. kept = 1..n
    BY <1>1, <1>2, <1>11
  <2>2. k = n /\ \A i \in 1..n : Nth(kept, i) = i
    BY <1>3, <1>4, <2>1, NthKept
  <2>3. s.outputs = [i \in 1..n |-> s.outputs[i]]
    BY <1>1 DEF IsList
  <2>4. chosen = s.outputs
    BY <1>7, <2>2, <2>3
  <2> QED
    BY <1>6, <2>4
<1> QED
  BY <1>9, <1>10, <1>11

\* Scale options get the parts they have at v1beta2.
LEMMA ScaleMade ==
  ASSUME NoneIsNoObject, NEW s, NEW c, c = ScaleTo(s)
  PROVE  /\ IsScale(c)
         /\ c = None <=> s.scale = None
         /\ c # None => /\ c.keda = None <=> s.scale.keda = None
                        /\ c.keda # None => /\ c.keda.http = None
                                            /\ c.keda.job = None <=> s.scale.keda.job = None
                                            /\ c.keda.object = None <=> s.scale.keda.object = None
                                            /\ c.keda.object # None => c.keda.object.fallback = None
<1>1. CASE s.scale = None
  BY <1>1 DEF ScaleTo, IsScale
<1>2. CASE s.scale # None
  <2> DEFINE k == s.scale.keda
  <2>1. PICK object : object = IF k.object = None THEN None
                               ELSE [polling |-> k.object.polling, cooldown |-> k.object.cooldown,
                                     advanced |-> k.object.advanced, fallback |-> None]
    OBVIOUS
  <2>2. PICK job : job = IF k.job = None THEN None
                         ELSE [polling |-> k.object.polling, strategy |-> k.job.strategy,
                               limits |-> k.job.limits, restart |-> k.job.restart]
    OBVIOUS
  <2>3. PICK keda : keda = IF k = None THEN None
                           ELSE [http |-> None, triggers |-> s.triggers, object |-> object, job |-> job]
    OBVIOUS
  <2>4. /\ c.keda = keda /\ c = [min |-> c.min, max |-> c.max, keda |-> c.keda]
    <3>1. CASE k = None
      BY <1>2, <2>3, <3>1 DEF ScaleTo
    <3>2. CASE k # None
      BY <1>2, <2>1, <2>2, <2>3, <3>2 DEF ScaleTo
    <3> QED
      BY <3>1, <3>2
  <2>5. c # None
    BY <2>4 DEF NoneIsNoObject
  <2>6. /\ object = None <=> k.object = None
        /\ object # None => /\ object = [polling |-> object.polling, cooldown |-> object.cooldown,
                                         advanced |-> object.advanced, fallback |-> object.fallback]
                            /\ object.fallback = None
    BY <2>1 DEF NoneIsNoObject
  <2>7. job = None <=> k.job = None
    BY <2>2 DEF NoneIsNoObject
  <2>8. /\ keda = None <=> k = None
        /\ keda # None => /\ keda.http = None /\ keda.object = object /\ keda.job = job
                          /\ keda = [http |-> keda.http, object |-> keda.object, job |-> keda.job,
                                     triggers |-> keda.triggers]
    BY <2>3 DEF NoneIsNoObject
  <2> QED
    BY <1>2, <2>4, <2>5, <2>6, <2>7, <2>8 DEF IsScale
<1> QED
  BY <1>1, <1>2

\* Hooks have both lists.
LEMMA HooksMade ==
  ASSUME NoneIsNoObject, NEW plugins, NEW k, k = HooksTo(plugins)
  PROVE  /\ IsHooks(k) /\ (k = None <=> plugins = None)
         /\ k # None => k.policy = "Override"
<1>1. CASE plugins = None
  BY <1>1 DEF HooksTo, IsHooks
<1>2. CASE plugins # None
  <2>1. PICK order : order = Given(plugins.order, <<>>)
    OBVIOUS
  <2>2. k = [policy |-> "Override", pre |-> Given(plugins.pre, order),
             post |-> Given(plugins.post, Reverse(order))]
    BY <1>2, <2>1 DEF HooksTo
  <2>3. order # None
    <3>1. <<>> = [i \in DOMAIN <<>> |-> <<>>[i]]
      BY EmptyList DEF IsList
    <3> QED
      BY <2>1, <3>1 DEF Given, NoneIsNoObject
  <2>5. Reverse(order) # None
    <3>1. PICK r : r = Reverse(order)
      OBVIOUS
    <3>2. r = [i \in DOMAIN r |-> r[i]]
      BY <3>1 DEF Reverse
    <3> QED
      BY <3>1, <3>2 DEF NoneIsNoObject
  <2>4. k # None /\ k.policy = "Override" /\ k.pre # None /\ k.post # None
    BY <2>2, <2>3, <2>5 DEF Given, NoneIsNoObject
  <2> QED
    BY <1>2, <2>2, <2>4 DEF IsHooks
<1> QED
  BY <1>1, <1>2

\* The serving section field by field.
LEMMA ServingFields ==
  ASSUME NEW s, NEW port, NEW route, NEW notes, NEW u, u = convertServingTo(s, port, route, notes)
  PROVE  /\ u.triggers = TriggersTo(s, port, route) /\ u.outputs = OutputsTo(s) /\ u.scale = ScaleTo(s)
         /\ u.workload = WorkloadTo(s) /\ u.hooks = HooksTo(notes.plugins) /\ u.tracing = notes.tracing
         /\ u.components = s.components /\ u.states = s.states /\ u.annotations = s.annotations
         /\ u.wasm = s.wasm /\ u.template = s.template /\ u.kept = s.kept
         /\ u = [triggers |-> u.triggers, outputs |-> u.outputs, scale |-> u.scale, workload |-> u.workload,
                 hooks |-> u.hooks, tracing |-> u.tracing, components |-> u.components, states |-> u.states,
                 annotations |-> u.annotations, wasm |-> u.wasm, template |-> u.template, kept |-> u.kept]
<1>1. PICK t, outputs, scale : t = TriggersTo(s, port, route) /\ outputs = OutputsTo(s) /\ scale = ScaleTo(s)
  OBVIOUS
<1>2. PICK workload, hooks : workload = WorkloadTo(s) /\ hooks = HooksTo(notes.plugins)
  OBVIOUS
<1>3. u = [triggers |-> t, outputs |-> outputs, scale |-> scale, workload |-> workload,
           hooks |-> hooks, tracing |-> notes.tracing, components |-> s.components, states |-> s.states,
           annotations |-> s.annotations, wasm |-> s.wasm, template |-> s.template, kept |-> s.kept]
  BY <1>1, <1>2 DEF convertServingTo
<1>4. /\ u.triggers = t /\ u.outputs = outputs /\ u.scale = scale /\ u.workload = workload
      /\ u.hooks = hooks /\ u.tracing = notes.tracing
      /\ u.components = s.components /\ u.states = s.states /\ u.annotations = s.annotations
      /\ u.wasm = s.wasm /\ u.template = s.template /\ u.kept = s.kept
  BY <1>3
<1>5. u = [triggers |-> u.triggers, outputs |-> u.outputs, scale |-> u.scale, workload |-> u.workload,
           hooks |-> u.hooks, tracing |-> u.tracing, components |-> u.components, states |-> u.states,
           annotations |-> u.annotations, wasm |-> u.wasm, template |-> u.template, kept |-> u.kept]
  BY <1>3, <1>4
<1> QED
  BY <1>1, <1>2, <1>4, <1>5

\* It is one, and what the defaults are filled into is set.
LEMMA ServingMade ==
  ASSUME NoneIsNoObject, NEW s, IsList(s.inputs), IsList(s.outputs), IsTemplate(s.template),
         NEW port, NEW route, IsRoute(route), NEW notes, IsTracing(notes.tracing), ~UnreadableNotes(notes),
         NEW u, u = convertServingTo(s, port, route, notes)
  PROVE  IsServing2(u) /\ u # None /\ u.triggers # None
<1>1. /\ u.triggers = TriggersTo(s, port, route) /\ u.outputs = OutputsTo(s) /\ u.scale = ScaleTo(s)
      /\ u.hooks = HooksTo(notes.plugins) /\ u.tracing = notes.tracing /\ u.template = s.template
      /\ u = [triggers |-> u.triggers, outputs |-> u.outputs, scale |-> u.scale, workload |-> u.workload,
              hooks |-> u.hooks, tracing |-> u.tracing, components |-> u.components, states |-> u.states,
              annotations |-> u.annotations, wasm |-> u.wasm, template |-> u.template, kept |-> u.kept]
  BY ServingFields
<1>2. IsTriggers(u.triggers) /\ u.triggers # None
  <2>1. PICK t : t = TriggersTo(s, port, route)
    OBVIOUS
  <2>2. IsTriggers(t) /\ t # None
    BY <2>1, TriggersMade, TriggersSet
  <2> QED
    BY <1>1, <2>1, <2>2
<1>3. IsRefs(u.outputs)
  BY <1>1, OutputsMade
<1>4. IsScale(u.scale)
  BY <1>1, ScaleMade
<1>5. IsHooks(u.hooks)
  BY <1>1, HooksMade
<1>6. u # None
  BY <1>1 DEF NoneIsNoObject
<1>7. IsServing2(u)
  BY <1>1, <1>2, <1>3, <1>4, <1>5 DEF IsServing2, UnreadableNotes
<1> QED
  BY <1>2, <1>6, <1>7

\* A source stays one; only its bundle changes.
LEMMA BundleConverted ==
  ASSUME NoneIsNoObject, NEW x, IsSource(x), NEW y, y = convertBundle(x)
  PROVE  /\ IsSource(y) /\ (y = None <=> x = None)
         /\ x # None => /\ y.url = x.url /\ y.credentials = x.credentials
                        /\ y.bundle = IF x.bundle = None THEN None ELSE x.credentials
<1>1. CASE x = None \/ x.bundle = None
  BY <1>1 DEF convertBundle
<1>2. CASE x # None /\ x.bundle # None
  <2>1. y = [url |-> x.url, bundle |-> x.credentials, credentials |-> x.credentials]
    BY <1>2 DEF convertBundle, IsSource
  <2>2. y # None
    BY <2>1 DEF NoneIsNoObject
  <2> QED
    BY <1>2, <2>1, <2>2 DEF IsSource
<1> QED
  BY <1>1, <1>2

\* What v1beta1 functions become.
LEMMA ConvertedTo ==
  ASSUME NoneIsNoObject, NEW o, IsFunction1(o), ~ConvertFails(o), NEW h \in ConvertTo(o)
  PROVE  /\ IsFunction2(h)
         /\ h.notes = o.notes /\ h.version = o.version /\ h.runtime = o.runtime
         /\ o.serving = None => h.serving = None
         /\ h.serving # None => /\ o.serving # None
                                /\ h.serving.triggers = TriggersTo(o.serving, o.port, o.route)
                                /\ h.serving.wasm = o.serving.wasm
                                /\ h.serving.template = o.serving.template
         /\ h.build # None =>
               /\ o.build # None
               /\ o.build.shipwright = None => h.build.shipwright = None
               /\ o.build.shipwright # None =>
                     \E params : h.build.shipwright = [strategy |-> o.build.shipwright.strategy,
                                                      timeout |-> o.build.shipwright.timeout, params |-> params]
<1>1. PICK b \in IF o.build = None THEN {None} ELSE convertBuildTo(o.build) :
         h = [notes |-> o.notes, version |-> o.version, image |-> o.image,
              credentials |-> o.credentials, runtime |-> o.runtime, build |-> b,
              serving |-> IF o.serving = None THEN None
                          ELSE convertServingTo(o.serving, o.port, o.route, o.notes),
              status |-> StatusTo(o.status)]
  BY DEF ConvertTo
<1> DEFINE s == IF o.serving = None THEN None ELSE convertServingTo(o.serving, o.port, o.route, o.notes)
           status == StatusTo(o.status)
<1>2. /\ IsServing2(s)
      /\ s # None => /\ o.serving # None
                     /\ s.triggers = TriggersTo(o.serving, o.port, o.route)
                     /\ s.wasm = o.serving.wasm /\ s.template = o.serving.template
  <2>1. CASE o.serving = None
    BY <2>1 DEF IsServing2
  <2>2. CASE o.serving # None
    <3>1. s = convertServingTo(o.serving, o.port, o.route, o.notes)
      BY <2>2
    <3>2. /\ IsTracing(o.notes.tracing) /\ ~UnreadableNotes(o.notes) /\ IsRoute(o.route)
          /\ IsList(o.serving.inputs) /\ IsList(o.serving.outputs) /\ IsTemplate(o.serving.template)
      BY <2>2 DEF IsFunction1, IsNotes, ConvertFails
    <3>3. PICK u : u = convertServingTo(o.serving, o.port, o.route, o.notes)
      OBVIOUS
    <3>4. /\ IsServing2(u) /\ u.triggers = TriggersTo(o.serving, o.port, o.route)
          /\ u.wasm = o.serving.wasm /\ u.template = o.serving.template
      BY <3>2, <3>3, ServingMade, ServingFields
    <3>5. s = u
      BY <3>1, <3>3
    <3> HIDE DEF s
    <3> QED
      BY <2>2, <3>4, <3>5
  <2> QED
    BY <2>1, <2>2
<1>3. /\ IsBuild2(b)
      /\ b # None =>
            /\ o.build # None
            /\ o.build.shipwright = None => b.shipwright = None
            /\ o.build.shipwright # None =>
                  \E params : b.shipwright = [strategy |-> o.build.shipwright.strategy,
                                             timeout |-> o.build.shipwright.timeout, params |-> params]
  <2>1. CASE o.build = None
    BY <1>1, <2>1 DEF IsBuild2
  <2>2. CASE o.build # None
    <3>1. PICK params \in ParamLists(o.build.params) :
             b = [source |-> convertBundle(o.build.source), tool |-> o.build.tool, limits |-> o.build.limits,
                  timeout |-> None, kept |-> o.build.kept,
                  shipwright |-> IF o.build.shipwright = None THEN None
                                 ELSE [strategy |-> o.build.shipwright.strategy,
                                       timeout |-> o.build.shipwright.timeout, params |-> params]]
      BY <1>1, <2>2 DEF convertBuildTo
    <3>2. /\ b.source = convertBundle(o.build.source)
          /\ b.shipwright = IF o.build.shipwright = None THEN None
                            ELSE [strategy |-> o.build.shipwright.strategy,
                                  timeout |-> o.build.shipwright.timeout, params |-> params]
          /\ b = [source |-> b.source, tool |-> b.tool, limits |-> b.limits, timeout |-> b.timeout,
                  kept |-> b.kept, shipwright |-> b.shipwright]
      BY <3>1
    <3>3. IsParamList(params)
      BY <2>2, ParamsBack DEF IsFunction1
    <3>4. IsEngine(b.shipwright)
      BY <3>2, <3>3 DEF IsEngine
    <3>5. IsSource(b.source)
      BY <2>2, <3>2, BundleConverted DEF IsFunction1
    <3> QED
      BY <2>2, <3>2, <3>4, <3>5 DEF IsBuild2
  <2> QED
    BY <2>1, <2>2
<1> HIDE DEF s, status
<1>4. /\ h = [notes |-> o.notes, version |-> o.version, image |-> o.image,
             credentials |-> o.credentials, runtime |-> o.runtime, build |-> b,
             serving |-> s, status |-> status]
  BY <1>1 DEF s, status
<1>5. /\ h.notes = o.notes /\ h.version = o.version /\ h.runtime = o.runtime /\ h.build = b /\ h.serving = s
      /\ h = [notes |-> h.notes, version |-> h.version, image |-> h.image, credentials |-> h.credentials,
              runtime |-> h.runtime, build |-> h.build, serving |-> h.serving, status |-> h.status]
  BY <1>4
<1>6. IsFunction2(h)
  BY <1>2, <1>3, <1>5 DEF IsFunction2, IsFunction1
<1>7. o.serving = None => s = None
  BY DEF s
<1> QED
  BY <1>2, <1>3, <1>5, <1>6, <1>7

\* References lose their types, and get those of the section again.
LEMMA InputsListed ==
  ASSUME NEW l, IsRefs(l), NEW m, m = InputsOf(l)
  PROVE  /\ IsList(m) /\ DOMAIN m = DOMAIN l /\ (l = <<>> <=> m = <<>>)
         /\ \A i \in DOMAIN l : m[i].component = l[i].component
<1>1. IsList(l) /\ DOMAIN m = DOMAIN l /\ m = [i \in DOMAIN m |-> m[i]]
  BY DEF InputsOf, IsRefs
<1>2. \A i \in DOMAIN l : m[i].component = l[i].component
  BY DEF InputsOf
<1> QED
  BY <1>1, <1>2, ListConverted

LEMMA RefsBack ==
  ASSUME NEW l, IsRefs(l), NEW s, \A i \in DOMAIN l : l[i].type = getDaprComponent(s, l[i].component)
  PROVE  Typed(s, InputsOf(l)) = l
<1>1. PICK m : m = InputsOf(l)
  OBVIOUS
<1>2. PICK k : k = Typed(s, m)
  OBVIOUS
<1>3. /\ DOMAIN m = DOMAIN l
      /\ \A i \in DOMAIN l : m[i].component = l[i].component /\ m[i].topic = l[i].topic /\ m[i].name = l[i].name
  BY <1>1 DEF InputsOf
<1>4. \A i \in DOMAIN l : k[i] = [type |-> l[i].type, component |-> l[i].component,
                                 topic |-> l[i].topic, name |-> l[i].name]
  BY <1>2, <1>3 DEF Typed
<1>5. \A i \in DOMAIN l : k[i] = l[i]
  BY <1>4 DEF IsRefs
<1>6. DOMAIN k = DOMAIN l /\ k = [i \in DOMAIN k |-> k[i]]
  BY <1>2, <1>3 DEF Typed
<1>7. l = [i \in DOMAIN l |-> l[i]]
  BY DEF IsRefs, IsList
<1>8. k = l
  BY <1>5, <1>6, <1>7
<1> QED
  BY <1>1, <1>2, <1>8

\* Scale options that v1beta1 can express come back.
LEMMA ScaleThere ==
  ASSUME NoneIsNoObject, NEW s, IsScale(s.scale), ExpressibleScale(s),
         NEW o, o.scale = ScaleFrom(s), o.triggers = KedaTriggersFrom(s)
  PROVE  ScaleTo(o) = s.scale /\ WorkloadTo(o) = s.workload
<1>1. CASE s.scale = None
  BY <1>1 DEF ScaleFrom, ScaleTo, WorkloadTo, ExpressibleScale
<1>2. CASE s.scale # None
  <2>1. PICK c : c = s.scale
    OBVIOUS
  <2>2. PICK k : k = c.keda
    OBVIOUS
  <2>3. c # None /\ c = [min |-> c.min, max |-> c.max, keda |-> k]
    BY <1>2, <2>1, <2>2 DEF IsScale
  <2>4. PICK j : j = IF k = None THEN None
                     ELSE [object |-> IF k.object = None THEN None
                                      ELSE [workload |-> s.workload, min |-> c.min,
                                            max |-> c.max, polling |-> k.object.polling,
                                            cooldown |-> k.object.cooldown,
                                            advanced |-> k.object.advanced],
                           job |-> IF k.job = None THEN None
                                   ELSE [max |-> c.max, polling |-> k.job.polling,
                                         strategy |-> k.job.strategy, limits |-> k.job.limits,
                                         restart |-> k.job.restart]]
    OBVIOUS
  <2>5. o.scale = [min |-> c.min, max |-> c.max, keda |-> j]
    BY <1>2, <2>1, <2>2, <2>4 DEF ScaleFrom
  <2>6. o.scale # None /\ o.scale.min = c.min /\ o.scale.max = c.max /\ o.scale.keda = j
    BY <2>5 DEF NoneIsNoObject
  <2>7. CASE k = None
    <3>1. j = None
      BY <2>4, <2>7
    <3>2. ScaleTo(o) = [max |-> Given(None, Given(None, c.max)), min |-> Given(None, c.min), keda |-> None]
      BY <2>6, <3>1 DEF ScaleTo
    <3>3. ScaleTo(o) = [min |-> c.min, max |-> c.max, keda |-> k]
      BY <2>7, <3>2 DEF Given
    <3>4. WorkloadTo(o) = "" /\ s.workload = ""
      BY <1>2, <2>1, <2>2, <2>6, <2>7, <3>1 DEF WorkloadTo, ExpressibleScale
    <3> QED
      BY <2>1, <2>3, <3>3, <3>4
  <2>8. CASE k # None
    <3>1. /\ k.http = None /\ k.job = None /\ (s.workload = "" <=> k.object = None)
          /\ k.object # None => k.object.fallback = None
      BY <1>2, <2>1, <2>2, <2>8 DEF ExpressibleScale
    <3>2. PICK x : x = IF k.object = None THEN None
                       ELSE [workload |-> s.workload, min |-> c.min, max |-> c.max,
                             polling |-> k.object.polling, cooldown |-> k.object.cooldown,
                             advanced |-> k.object.advanced]
      OBVIOUS
    <3>3. j = [object |-> x, job |-> None]
      BY <2>4, <2>8, <3>1, <3>2
    <3>4. j # None /\ j.object = x /\ j.job = None
      BY <3>3 DEF NoneIsNoObject
    <3>5. PICK y : y = IF x = None THEN None
                       ELSE [polling |-> x.polling, cooldown |-> x.cooldown, advanced |-> x.advanced,
                             fallback |-> None]
      OBVIOUS
    <3>6. y = k.object
      <4>1. CASE k.object = None
        BY <3>2, <3>5, <4>1
      <4>2. CASE k.object # None
        <5>1. /\ x # None /\ x.polling = k.object.polling /\ x.cooldown = k.object.cooldown
              /\ x.advanced = k.object.advanced
          BY <3>2, <4>2 DEF NoneIsNoObject
        <5>2. k.object = [polling |-> k.object.polling, cooldown |-> k.object.cooldown,
                          advanced |-> k.object.advanced, fallback |-> None]
          BY <1>2, <2>1, <2>2, <2>8, <3>1, <4>2 DEF IsScale
        <5> QED
          BY <3>5, <5>1, <5>2
      <4> QED
        BY <4>1, <4>2
    <3>7. x # None => x.min = c.min /\ x.max = c.max /\ x.workload = s.workload
      BY <3>2
    <3>8. x = None <=> k.object = None
      BY <3>2 DEF NoneIsNoObject
    <3>9. o.triggers = k.triggers
      BY <1>2, <2>1, <2>2, <2>8 DEF KedaTriggersFrom
    <3>10. PICK z : z = [http |-> None, triggers |-> k.triggers, object |-> y, job |-> None]
      OBVIOUS
    <3>11. ScaleTo(o) = [max |-> Given(None, Given(IF x = None THEN None ELSE x.max, c.max)),
                         min |-> Given(IF x = None THEN None ELSE x.min, c.min), keda |-> z]
      BY <2>6, <3>4, <3>5, <3>9, <3>10 DEF ScaleTo
    <3>12. ScaleTo(o) = [max |-> c.max, min |-> c.min, keda |-> z]
      BY <3>7, <3>11 DEF Given
    <3>13. z = k
      BY <1>2, <2>1, <2>2, <2>8, <3>1, <3>6, <3>10 DEF IsScale
    <3>14. WorkloadTo(o) = s.workload
      BY <2>6, <3>1, <3>4, <3>7, <3>8 DEF WorkloadTo, WorkloadOfObject
    <3> QED
      BY <2>1, <2>3, <3>12, <3>13, <3>14
  <2> QED
    BY <2>7, <2>8
<1> QED
  BY <1>1, <1>2

\* TriggersTo field by field.
LEMMA TriggersFields ==
  ASSUME NEW s, NEW port, NEW route
  PROVE  TriggersTo(s, port, route) =
            [http |-> IF s.runtime = "knative" THEN [port |-> port, route |-> route, engine |-> None] ELSE None,
             dapr |-> IF s.runtime = "async" THEN Typed(s, s.inputs) ELSE <<>>, inputs |-> <<>>]
<1>1. PICK http : http = IF s.runtime = "knative" THEN [port |-> port, route |-> route, engine |-> None] ELSE None
  OBVIOUS
<1>2. PICK dapr : dapr = IF s.runtime = "async" THEN Typed(s, s.inputs) ELSE <<>>
  OBVIOUS
<1>3. TriggersTo(s, port, route) = [[http |-> None, dapr |-> <<>>, inputs |-> <<>>] EXCEPT !.http = http, !.dapr = dapr]
  BY <1>1, <1>2 DEF TriggersTo, NoTriggers
<1>4. TriggersTo(s, port, route) = [http |-> http, dapr |-> dapr, inputs |-> <<>>]
  BY <1>3
<1> QED
  BY <1>1, <1>2, <1>4

\* Triggers that v1beta1 can express come back: either kind.
LEMMA TriggersBack ==
  ASSUME NoneIsNoObject, NEW s, IsTriggers(s.triggers), FilledTriggers(s.triggers),
         s.triggers.inputs = <<>>,
         s.triggers.http # None => s.triggers.http.engine = None /\ s.triggers.dapr = <<>>,
         \A i \in DOMAIN s.triggers.dapr :
            s.triggers.dapr[i].type = getDaprComponent(s, s.triggers.dapr[i].component),
         NEW o, o.runtime = RuntimeFrom(s.triggers), o.inputs = InputsFrom(s.triggers), o.components = s.components,
         NEW port, port = IF s.triggers.http = None THEN None ELSE s.triggers.http.port,
         NEW route, route = IF s.triggers.http = None THEN None ELSE s.triggers.http.route
  PROVE  TriggersTo(o, port, route) = s.triggers
<1>1. PICK t : t = s.triggers
  OBVIOUS
<1>2. /\ t # None /\ t = [http |-> t.http, dapr |-> t.dapr, inputs |-> <<>>] /\ IsRefs(t.dapr)
      /\ t.http # None => t.http = [port |-> port, route |-> route, engine |-> None]
      /\ t.http # None \/ t.dapr # <<>>
  BY <1>1 DEF IsTriggers, FilledTriggers, IsHttp
<1>3. \A name : getDaprComponent(o, name) = getDaprComponent(s, name)
  BY DEF getDaprComponent
<1>4. PICK u : u = Typed(o, o.inputs)
  OBVIOUS
<1>5. PICK http, dapr : /\ http = IF o.runtime = "knative" THEN [port |-> port, route |-> route, engine |-> None] ELSE None
                        /\ dapr = IF o.runtime = "async" THEN u ELSE <<>>
  OBVIOUS
<1>8. TriggersTo(o, port, route) = [http |-> http, dapr |-> dapr, inputs |-> <<>>]
  BY <1>4, <1>5, TriggersFields
<1>6. CASE t.http # None
  <2>1. o.runtime = "knative" /\ t.dapr = <<>>
    BY <1>1, <1>2, <1>6 DEF RuntimeFrom
  <2> QED
    BY <1>1, <1>2, <1>5, <1>6, <1>8, <2>1
<1>7. CASE t.http = None
  <2>1. o.runtime = "async" /\ o.inputs = InputsOf(t.dapr)
    BY <1>1, <1>2, <1>7 DEF RuntimeFrom, InputsFrom
  <2>2. \A i \in DOMAIN t.dapr : t.dapr[i].type = getDaprComponent(o, t.dapr[i].component)
    BY <1>1, <1>3
  <2>3. u = t.dapr
    BY <1>2, <1>4, <2>1, <2>2, RefsBack
  <2> QED
    BY <1>1, <1>2, <1>5, <1>7, <1>8, <2>1, <2>3
<1> QED
  BY <1>6, <1>7

\* Outputs whose components the section defines come back.
LEMMA OutputsBack ==
  ASSUME NEW s, IsRefs(s.outputs),
         \A i \in DOMAIN s.outputs : /\ s.outputs[i].type = getDaprComponent(s, s.outputs[i].component)
                                     /\ s.outputs[i].type # None,
         NEW o, o.outputs = OutputsFrom(s.outputs), o.components = s.components
  PROVE  OutputsTo(o) = s.outputs
<1>1. \A name : getDaprComponent(o, name) = getDaprComponent(s, name)
  BY DEF getDaprComponent
<1>2. PICK m : m = InputsOf(s.outputs)
  OBVIOUS
<1>3. /\ IsList(m) /\ DOMAIN m = DOMAIN s.outputs
      /\ \A i \in DOMAIN s.outputs : m[i].component = s.outputs[i].component
  BY <1>2, InputsListed
<1>4. o.outputs = m
  BY <1>2 DEF OutputsFrom
<1>5. \A i \in DOMAIN o.outputs : getDaprComponent(o, o.outputs[i].component) # None
  BY <1>1, <1>3, <1>4
<1>6. OutputsTo(o) = Typed(o, o.outputs)
  BY <1>3, <1>4, <1>5, OutputsMade
<1>7. Typed(o, InputsOf(s.outputs)) = s.outputs
  BY <1>1, RefsBack
<1> QED
  BY <1>2, <1>4, <1>6, <1>7

\* Hooks that replace those of the ConfigMap come back from the annotation.
LEMMA HooksBack ==
  ASSUME NoneIsNoObject, NEW k, k # None, IsHooks(k), k.policy = "Override"
  PROVE  HooksTo(PluginsFrom(k)) = k
<1>1. PICK pre, post : /\ pre = (IF k.pre = <<>> THEN None ELSE k.pre)
                       /\ post = (IF k.post = <<>> THEN None ELSE k.post)
  OBVIOUS
<1>2. PICK p : p = [order |-> None, pre |-> pre, post |-> post]
  OBVIOUS
<1>3. PluginsFrom(k) = p
  BY <1>1, <1>2 DEF PluginsFrom
<1>4. p # None /\ p.order = None /\ p.pre = pre /\ p.post = post
  BY <1>2 DEF NoneIsNoObject
<1>5. Reverse(<<>>) = <<>>
  BY DEF Reverse
<1>6. HooksTo(p) = [policy |-> "Override", pre |-> Given(pre, <<>>), post |-> Given(post, <<>>)]
  BY <1>4, <1>5 DEF HooksTo, Given
<1>7. Given(pre, <<>>) = k.pre /\ Given(post, <<>>) = k.post
  BY <1>1 DEF Given, IsHooks
<1> QED
  BY <1>3, <1>6, <1>7 DEF IsHooks

\* The serving section at v1beta1 has lists.
LEMMA ServingRead ==
  ASSUME NoneIsNoObject, NEW s, s # None, IsServing2(s), NEW o, o = convertServingFrom(s)
  PROVE  /\ IsList(o.inputs) /\ IsList(o.outputs) /\ IsTemplate(o.template)
         /\ o = [runtime |-> o.runtime, inputs |-> o.inputs, outputs |-> o.outputs, scale |-> o.scale,
                 triggers |-> o.triggers, components |-> o.components, states |-> o.states,
                 annotations |-> o.annotations, wasm |-> o.wasm, template |-> o.template, kept |-> o.kept]
<1>1. PICK inputs, outputs : inputs = InputsFrom(s.triggers) /\ outputs = OutputsFrom(s.outputs)
  OBVIOUS
<1>2. PICK runtime, scale, triggers : /\ runtime = RuntimeFrom(s.triggers) /\ scale = ScaleFrom(s)
                                      /\ triggers = KedaTriggersFrom(s)
  OBVIOUS
<1>3. o = [runtime |-> runtime, inputs |-> inputs, outputs |-> outputs, scale |-> scale, triggers |-> triggers,
           components |-> s.components, states |-> s.states, annotations |-> s.annotations,
           wasm |-> s.wasm, template |-> s.template, kept |-> s.kept]
  BY <1>1, <1>2 DEF convertServingFrom
<1>4. IsTemplate(s.template) /\ IsTriggers(s.triggers) /\ IsRefs(s.outputs)
  BY DEF IsServing2
<1>5. IsList(inputs)
  <2>1. CASE RuntimeFrom(s.triggers) = "async"
    <3>1. inputs = InputsOf(s.triggers.dapr)
      BY <1>1, <2>1 DEF InputsFrom
    <3>2. CASE s.triggers # None
      BY <1>4, <3>1, <3>2, InputsListed DEF IsTriggers
    <3>3. CASE s.triggers = None
      BY <2>1, <3>3, RuntimesAssumption DEF RuntimeFrom
    <3> QED
      BY <3>2, <3>3
  <2>2. CASE RuntimeFrom(s.triggers) # "async"
    BY <1>1, <2>2, EmptyList DEF InputsFrom
  <2> QED
    BY <2>1, <2>2
<1>6. IsList(outputs)
  BY <1>1, <1>4, InputsListed DEF OutputsFrom
<1>7. o.inputs = inputs /\ o.outputs = outputs /\ o.template = s.template
  BY <1>3
<1>8. o = [runtime |-> o.runtime, inputs |-> o.inputs, outputs |-> o.outputs, scale |-> o.scale,
           triggers |-> o.triggers, components |-> o.components, states |-> o.states,
           annotations |-> o.annotations, wasm |-> o.wasm, template |-> o.template, kept |-> o.kept]
  BY <1>3
<1> QED
  BY <1>4, <1>5, <1>6, <1>7, <1>8

\* What v1beta2 functions become.
LEMMA ConvertedFrom ==
  ASSUME NoneIsNoObject, NEW h, IsFunction2(h), NEW o, o = ConvertFrom(h)
  PROVE  /\ IsFunction1(o)
         /\ o.notes.wasm = h.notes.wasm /\ o.version = h.version /\ o.runtime = h.runtime
         /\ h.serving = None => o.serving = None
         /\ h.serving # None =>
               LET t == h.serving.triggers IN
               /\ o.serving = convertServingFrom(h.serving)
               /\ t # None /\ t.http # None => o.port = t.http.port /\ o.route = t.http.route
         /\ h.build = None => o.build = None
         /\ h.build # None =>
               o.build.shipwright =
                 IF h.build.shipwright = None THEN None
                 ELSE [strategy |-> h.build.shipwright.strategy, timeout |-> h.build.shipwright.timeout]
<1> DEFINE s == h.serving
           http == IF s = None \/ s.triggers = None THEN None ELSE s.triggers.http
           notes == IF s = None THEN h.notes ELSE NotesFrom(h.notes, s)
           route == IF http = None THEN None ELSE http.route
           build == IF h.build = None THEN None ELSE convertBuildFrom(h.build)
           serving == IF s = None THEN None ELSE convertServingFrom(s)
<1>1. /\ o.notes = notes /\ o.version = h.version /\ o.runtime = h.runtime /\ o.route = route
      /\ o.port = (IF http = None THEN None ELSE http.port)
      /\ o.build = build /\ o.serving = serving
  BY DEF ConvertFrom
<1>2. IsNotes(notes) /\ notes.wasm = h.notes.wasm
  <2>1. CASE s = None
    BY <2>1 DEF IsFunction2
  <2>2. CASE s # None
    <3>1. PICK n : n = NotesFrom(h.notes, s)
      OBVIOUS
    <3>2. /\ n.wasm = h.notes.wasm /\ n.tracing \in {s.tracing, h.notes.tracing}
          /\ n = [plugins |-> n.plugins, tracing |-> n.tracing, wasm |-> n.wasm]
      BY <3>1 DEF NotesFrom, Given, IsFunction2, IsNotes
    <3>3. IsTracing(s.tracing) /\ IsTracing(h.notes.tracing)
      BY <2>2 DEF IsFunction2, IsServing2, IsNotes
    <3> QED
      BY <2>2, <3>1, <3>2, <3>3 DEF IsNotes
  <2> QED
    BY <2>1, <2>2
<1>3. IsRoute(route)
  BY DEF IsRoute, IsFunction2, IsServing2, IsTriggers, IsHttp
<1>4. serving # None => IsList(serving.inputs) /\ IsList(serving.outputs) /\ IsTemplate(serving.template)
  BY ServingRead DEF IsFunction2
<1>5. h.build # None =>
        build.shipwright = IF h.build.shipwright = None THEN None
                           ELSE [strategy |-> h.build.shipwright.strategy, timeout |-> h.build.shipwright.timeout]
  BY DEF convertBuildFrom
<1>6. build # None => IsSource(build.source) /\ IsParamMap(build.params)
  <2> SUFFICES ASSUME build # None PROVE IsSource(build.source) /\ IsParamMap(build.params)
    OBVIOUS
  <2>1. /\ h.build # None /\ build.params = ParamsFrom(h.build.shipwright)
        /\ build.source = convertBundle(h.build.source)
    BY DEF convertBuildFrom
  <2>3. IsSource(build.source)
    BY <2>1, BundleConverted DEF IsFunction2, IsBuild2
  <2>2. h.build.shipwright # None => IsParamMap(ParamMap(h.build.shipwright.params))
    BY <2>1, MapMade DEF IsFunction2, IsBuild2, IsEngine
  <2> HIDE DEF build
  <2> QED
    BY <2>1, <2>2, <2>3, NoneListed DEF ParamsFrom
<1>7. IsFunction1(o)
  BY <1>1, <1>2, <1>3, <1>4, <1>6 DEF IsFunction1
<1> QED
  BY <1>1, <1>2, <1>5, <1>7

\* A function that was filled in, converted to v1beta1 and back, is.  An http trigger at
\* port 0, which only functions with dapr triggers keep, is no such function.
LEMMA FilledConverted ==
  ASSUME NoneIsNoObject, NEW d, IsFunction2(d), Filled(d),
         d.serving # None /\ d.serving.triggers.http # None => d.serving.triggers.http.port # 0,
         ~ConvertFails(ConvertFrom(d)), NEW h \in ConvertTo(ConvertFrom(d))
  PROVE  Filled(h)
<1>0. PICK o : o = ConvertFrom(d)
  OBVIOUS
<1>1. IsFunction1(o) /\ ~ConvertFails(o) /\ h \in ConvertTo(o)
  BY <1>0, ConvertedFrom
<1>2. h.version = d.version /\ h.runtime = d.runtime /\ h.notes.wasm = d.notes.wasm
  <2>1. o.version = d.version /\ o.runtime = d.runtime /\ o.notes.wasm = d.notes.wasm
    BY <1>0, ConvertedFrom
  <2>2. h.version = o.version /\ h.runtime = o.runtime /\ h.notes = o.notes
    BY <1>1, ConvertedTo
  <2> QED
    BY <2>1, <2>2
<1>3. h.serving # None => /\ FilledTriggers(h.serving.triggers)
                          /\ d.serving # None
                          /\ h.serving.wasm = d.serving.wasm /\ h.serving.template = d.serving.template
  <2> SUFFICES ASSUME h.serving # None
               PROVE  /\ FilledTriggers(h.serving.triggers)
                      /\ d.serving # None
                      /\ h.serving.wasm = d.serving.wasm /\ h.serving.template = d.serving.template
    OBVIOUS
  <2>1. /\ o.serving # None /\ h.serving.triggers = TriggersTo(o.serving, o.port, o.route)
        /\ h.serving.wasm = o.serving.wasm /\ h.serving.template = o.serving.template
    BY <1>1, ConvertedTo
  <2>2. d.serving # None /\ o.serving = convertServingFrom(d.serving)
    BY <1>0, <2>1, ConvertedFrom
  <2>3. /\ o.serving.wasm = d.serving.wasm /\ o.serving.template = d.serving.template
        /\ o.serving.runtime = RuntimeFrom(d.serving.triggers) /\ o.serving.inputs = InputsFrom(d.serving.triggers)
    BY <2>2 DEF convertServingFrom
  <2>4. PICK t : t = h.serving.triggers
    OBVIOUS
  <2>5. /\ IsTriggers(t)
        /\ t.http = IF o.serving.runtime = "knative" THEN [port |-> o.port, route |-> o.route, engine |-> None] ELSE None
        /\ o.serving.runtime = "async" /\ o.serving.inputs # <<>> => t.dapr # <<>>
        /\ t # None
    BY <1>1, <2>1, <2>4, TriggersMade, TriggersSet DEF IsFunction1
  <2>6. FilledTriggers(d.serving.triggers) /\ IsTriggers(d.serving.triggers)
    BY <2>2 DEF Filled, IsFunction2, IsServing2
  <2>7. CASE d.serving.triggers.http # None
    <3>1. t.http = [port |-> d.serving.triggers.http.port, route |-> d.serving.triggers.http.route, engine |-> None]
      BY <1>0, <2>2, <2>3, <2>5, <2>6, <2>7, ConvertedFrom DEF RuntimeFrom, FilledTriggers
    <3>2. t.http # None /\ FilledHttp(t)
      BY <2>2, <2>6, <2>7, <3>1 DEF FilledTriggers, FilledHttp, NoneIsNoObject
    <3> QED
      BY <2>1, <2>2, <2>3, <2>4, <2>5, <3>2 DEF FilledTriggers
  <2>8. CASE d.serving.triggers.http = None
    <3>1. RuntimeFrom(d.serving.triggers) = "async" /\ d.serving.triggers.dapr # <<>>
      BY <2>6, <2>8 DEF RuntimeFrom, FilledTriggers
    <3>2. PICK m : m = InputsOf(d.serving.triggers.dapr)
      OBVIOUS
    <3>3. m # <<>>
      BY <2>6, <3>1, <3>2, InputsListed DEF IsTriggers, FilledTriggers
    <3>4. t.http = None /\ t.dapr # <<>>
      BY <2>3, <2>5, <3>1, <3>2, <3>3 DEF InputsFrom
    <3> QED
      BY <2>1, <2>2, <2>3, <2>4, <2>5, <3>4 DEF FilledTriggers, FilledHttp
  <2> QED
    BY <2>1, <2>2, <2>3, <2>7, <2>8
<1>4. IsWasm(h) /\ h.build # None => h.build.shipwright # None /\ h.build.shipwright.strategy # None
  <2> SUFFICES ASSUME IsWasm(h), h.build # None
               PROVE  h.build.shipwright # None /\ h.build.shipwright.strategy # None
    OBVIOUS
  <2>1. o.build # None /\ d.build # None
    <3>1. o.build # None
      BY <1>1, ConvertedTo
    <3> QED
      BY <1>0, <3>1, ConvertedFrom
  <2>2. d.build.shipwright # None /\ d.build.shipwright.strategy # None
    BY <1>2, <2>1 DEF Filled, FilledWasm, IsWasm
  <2>3. o.build.shipwright = [strategy |-> d.build.shipwright.strategy, timeout |-> d.build.shipwright.timeout]
    BY <1>0, <2>1, <2>2, ConvertedFrom
  <2>4. PICK params : h.build.shipwright = [strategy |-> o.build.shipwright.strategy,
                                            timeout |-> o.build.shipwright.timeout, params |-> params]
    <3>1. o.build.shipwright # None
      BY <2>3 DEF NoneIsNoObject
    <3> QED
      BY <1>1, <3>1, ConvertedTo
  <2> QED
    BY <2>2, <2>3, <2>4 DEF NoneIsNoObject
<1> QED
  BY <1>2, <1>3, <1>4 DEF Filled, FilledWasm, IsWasm

LEMMA BuildSet ==
  ASSUME NoneIsNoObject, NEW o, o.build # None, NEW g \in ConvertTo(o)
  PROVE  g.build # None
<1>1. PICK b \in convertBuildTo(o.build) : g.build = b
  BY DEF ConvertTo
<1>2. b = [source |-> b.source, tool |-> b.tool, limits |-> b.limits, timeout |-> b.timeout,
           kept |-> b.kept, shipwright |-> b.shipwright]
  BY DEF convertBuildTo
<1> QED
  BY <1>1, <1>2 DEF NoneIsNoObject

\* Of a function that came from v1beta1, Default leaves no http trigger at port 0.
LEMMA NoPortZero ==
  ASSUME NoneIsNoObject, NEW o, IsFunction1(o), ~ConvertFails(o), NEW g \in ConvertTo(o),
         NEW d, d = Default(g), d.serving # None,
         d.serving.triggers.http # None
  PROVE  d.serving.triggers.http.port # 0
<1> DEFINE k == [g EXCEPT !.version = IF g.version \in {None, ""} THEN "latest" ELSE g.version,
                          !.serving = DefaultServing(g.serving)]
<1>1. IsFunction2(g) /\ IsFunction2(d) /\ Filled(d)
  BY ConvertedTo, DefaultFills
<1>2. k.serving = DefaultServing(g.serving)
  BY <1>1 DEF IsFunction2
<1>3. IF IsWasm(k) THEN d.serving = WasmServing(k.serving) ELSE d.serving = k.serving
  <2>1. d = HandleWorkloadRuntime(k)
    BY DEF Default
  <2>2. "serving" \in DOMAIN k
    BY <1>1 DEF IsFunction2
  <2> HIDE DEF k
  <2> QED
    BY <2>1, <2>2 DEF HandleWorkloadRuntime
<1> HIDE DEF k
<1>4. k.serving # None /\ d.serving.triggers = k.serving.triggers
  <2>1. CASE IsWasm(k)
    <3>1. k.serving # None /\ d.serving = [k.serving EXCEPT !.wasm = Given(@, WasmVariant), !.template = WasmTemplate(@)]
      BY <1>3, <2>1 DEF WasmServing
    <3>2. g.serving # None /\ k.serving = [g.serving EXCEPT !.triggers = DefaultTriggers(@)]
      BY <1>2, <3>1 DEF DefaultServing
    <3>3. "triggers" \in DOMAIN g.serving
      BY <1>1, <3>2 DEF IsFunction2, IsServing2
    <3>4. "triggers" \in DOMAIN k.serving
      BY <3>2, <3>3
    <3> QED
      BY <3>1, <3>4
  <2>2. CASE ~IsWasm(k)
    BY <1>3, <2>2
  <2> QED
    BY <2>1, <2>2
<1>5. g.serving # None /\ k.serving.triggers = DefaultTriggers(g.serving.triggers)
  BY <1>1, <1>2, <1>4 DEF DefaultServing, IsFunction2, IsServing2
<1>6. PICK t : t = g.serving.triggers
  OBVIOUS
<1>7. /\ IsTriggers(t) /\ t # None
      /\ t.http = None \/ t.dapr = <<>>
  <2>1. o.serving # None /\ t = TriggersTo(o.serving, o.port, o.route)
    BY <1>5, <1>6, ConvertedTo
  <2>2. IsList(o.serving.inputs) /\ IsRoute(o.route)
    BY <2>1 DEF IsFunction1
  <2>3. /\ IsTriggers(t)
        /\ t.http = IF o.serving.runtime = "knative" THEN [port |-> o.port, route |-> o.route, engine |-> None] ELSE None
        /\ o.serving.runtime # "async" => t.dapr = <<>>
    BY <2>1, <2>2, TriggersMade
  <2> QED
    BY <2>1, <2>3, TriggersSet
<1>8. DefaultTriggers(t).http # None => DefaultTriggers(t).dapr = <<>>
  <2>1. CASE t.dapr # <<>>
    BY <1>7, <2>1 DEF DefaultTriggers, Given
  <2>2. CASE t.dapr = <<>>
    <3>1. PICK u : u = IF t.http = None THEN [t EXCEPT !.http = [port |-> None, route |-> None, engine |-> None]] ELSE t
      OBVIOUS
    <3>2. u.dapr = <<>>
      BY <1>7, <2>2, <3>1 DEF IsTriggers
    <3>3. DefaultTriggers(t) = IF u.http = None THEN u ELSE [u EXCEPT !.http = DefaultHttp(u)]
      BY <1>7, <2>2, <3>1 DEF DefaultTriggers, Given
    <3> QED
      BY <3>2, <3>3
  <2> QED
    BY <2>1, <2>2
<1> QED
  BY <1>1, <1>4, <1>5, <1>6, <1>8 DEF Filled, FilledTriggers, FilledHttp

\* Whatever the webhook admits of v1beta1 is stored filled in.
LEMMA AdmittedFilled ==
  ASSUME NoneIsNoObject, NEW o, IsFunction1(o), ~ConvertFails(o),
         NEW p \in Admitted(o), ~ConvertFails(p), NEW h \in ConvertTo(p)
  PROVE  IsFunction1(p) /\ IsFunction2(h) /\ Filled(h)
<1>1. PICK g \in ConvertTo(o) : p = IF Default(g) = g THEN o ELSE ConvertFrom(Default(g))
  BY DEF Admitted
<1>2. IsFunction2(g) /\ IsFunction2(Default(g)) /\ Filled(Default(g))
  BY ConvertedTo, DefaultFills
<1>3. CASE Default(g) = g
  <2>1. h \in ConvertTo(o) /\ Filled(g)
    BY <1>1, <1>2, <1>3
  <2>2. IsFunction2(h) /\ h.version = g.version /\ h.notes = g.notes /\ h.runtime = g.runtime /\ h.serving = g.serving
    <3>1. h.serving = g.serving
      BY <2>1 DEF ConvertTo
    <3> QED
      BY <2>1, <3>1, ConvertedTo
  <2>3. IsWasm(h) /\ h.build # None => h.build.shipwright # None /\ h.build.shipwright.strategy # None
    <3> SUFFICES ASSUME IsWasm(h), h.build # None
                 PROVE  h.build.shipwright # None /\ h.build.shipwright.strategy # None
      OBVIOUS
    <3>1. o.build # None /\ (o.build.shipwright = None => h.build.shipwright = None)
      BY <2>1, ConvertedTo
    <3>2. g.build # None
      BY <3>1, BuildSet
    <3> QED
      <4>1. g.build.shipwright # None /\ g.build.shipwright.strategy # None
        BY <2>1, <2>2, <3>2 DEF Filled, FilledWasm, IsWasm
      <4>2. o.build.shipwright # None /\ o.build.shipwright.strategy # None
        <5>1. o.build.shipwright # None
          BY <3>2, <4>1, ConvertedTo
        <5>2. PICK params : g.build.shipwright = [strategy |-> o.build.shipwright.strategy,
                                                  timeout |-> o.build.shipwright.timeout, params |-> params]
          BY <3>2, <5>1, ConvertedTo
        <5> QED
          BY <4>1, <5>1, <5>2
      <4>3. PICK params : h.build.shipwright = [strategy |-> o.build.shipwright.strategy,
                                                timeout |-> o.build.shipwright.timeout, params |-> params]
        BY <2>1, <4>2, ConvertedTo
      <4> QED
        BY <4>2, <4>3 DEF NoneIsNoObject
  <2>4. Filled(h)
    BY <2>1, <2>2, <2>3 DEF Filled, FilledWasm, IsWasm
  <2> QED
    BY <1>1, <1>3, <2>2, <2>4
<1>4. CASE Default(g) # g
  <2>1. PICK d : d = Default(g)
    OBVIOUS
  <2>2. p = ConvertFrom(d) /\ IsFunction2(d) /\ Filled(d)
    BY <1>1, <1>2, <1>4, <2>1
  <2>3. d.serving # None /\ d.serving.triggers.http # None => d.serving.triggers.http.port # 0
    BY <2>1, NoPortZero
  <2>4. IsFunction1(p)
    BY <2>2, ConvertedFrom
  <2> QED
    BY <2>2, <2>3, <2>4, FilledConverted, ConvertedTo
<1> QED
  BY <1>3, <1>4

\* Annotations that were written back say what hooks and tracing say.
LEMMA NotesBack ==
  ASSUME NoneIsNoObject, NEW notes, IsNotes(notes), NEW s, IsHooks(s.hooks),
         IF s.hooks = None THEN notes.plugins = None ELSE s.hooks.policy = "Override",
         s.tracing = None => notes.tracing = None,
         NEW n, n = NotesFrom(notes, s)
  PROVE  HooksTo(n.plugins) = s.hooks /\ n.tracing = s.tracing /\ n.wasm = notes.wasm
<1>1. /\ n.plugins = (IF s.hooks = None THEN notes.plugins ELSE PluginsFrom(s.hooks))
      /\ n.tracing = Given(s.tracing, notes.tracing) /\ n.wasm = notes.wasm
  BY DEF NotesFrom, IsNotes
<1>2. n.tracing = s.tracing
  BY <1>1 DEF Given
<1>3. HooksTo(n.plugins) = s.hooks
  BY <1>1, HooksBack DEF HooksTo
<1> QED
  BY <1>1, <1>2, <1>3

\* A serving section that v1beta1 can express comes back.
LEMMA ServingThere ==
  ASSUME NoneIsNoObject, NEW s, s # None, IsServing2(s), FilledTriggers(s.triggers),
         NEW notes, IsNotes(notes), ExpressibleServing(s, notes),
         NEW port, port = IF s.triggers.http = None THEN None ELSE s.triggers.http.port,
         NEW route, route = IF s.triggers.http = None THEN None ELSE s.triggers.http.route
  PROVE  convertServingTo(convertServingFrom(s), port, route, NotesFrom(notes, s)) = s
<1>1. PICK o : o = convertServingFrom(s)
  OBVIOUS
<1>2. PICK n : n = NotesFrom(notes, s)
  OBVIOUS
<1>3. PICK u : u = convertServingTo(o, port, route, n)
  OBVIOUS
<1>4. /\ o.runtime = RuntimeFrom(s.triggers) /\ o.inputs = InputsFrom(s.triggers)
      /\ o.outputs = OutputsFrom(s.outputs) /\ o.scale = ScaleFrom(s) /\ o.triggers = KedaTriggersFrom(s)
      /\ o.components = s.components /\ o.states = s.states /\ o.annotations = s.annotations
      /\ o.wasm = s.wasm /\ o.template = s.template /\ o.kept = s.kept
  BY <1>1 DEF convertServingFrom
<1>5. /\ IsTriggers(s.triggers) /\ IsRefs(s.outputs) /\ IsScale(s.scale) /\ IsHooks(s.hooks)
      /\ s = [triggers |-> s.triggers, outputs |-> s.outputs, scale |-> s.scale, workload |-> s.workload,
              hooks |-> s.hooks, tracing |-> s.tracing, components |-> s.components, states |-> s.states,
              annotations |-> s.annotations, wasm |-> s.wasm, template |-> s.template, kept |-> s.kept]
  BY DEF IsServing2
<1>6. TriggersTo(o, port, route) = s.triggers
  BY <1>4, <1>5, TriggersBack DEF ExpressibleServing
<1>7. OutputsTo(o) = s.outputs
  BY <1>4, <1>5, OutputsBack DEF ExpressibleServing
<1>8. ScaleTo(o) = s.scale /\ WorkloadTo(o) = s.workload
  BY <1>4, <1>5, ScaleThere DEF ExpressibleServing
<1>9. HooksTo(n.plugins) = s.hooks /\ n.tracing = s.tracing
  BY <1>2, <1>5, NotesBack DEF ExpressibleServing
<1>10. u = [triggers |-> s.triggers, outputs |-> s.outputs, scale |-> s.scale, workload |-> s.workload,
            hooks |-> s.hooks, tracing |-> s.tracing, components |-> s.components, states |-> s.states,
            annotations |-> s.annotations, wasm |-> s.wasm, template |-> s.template, kept |-> s.kept]
  BY <1>3, <1>4, <1>6, <1>7, <1>8, <1>9 DEF convertServingTo
<1> QED
  BY <1>1, <1>2, <1>3, <1>5, <1>10

\* A build section that v1beta1 can express comes back but for the order of its parameters.
LEMMA BuildThere ==
  ASSUME NoneIsNoObject, NEW b, b # None, IsBuild2(b), b.source # None, ExpressibleBuild(b),
         NEW o, o = convertBuildFrom(b), NEW g \in convertBuildTo(o)
  PROVE  /\ g.source = b.source /\ g.tool = b.tool /\ g.kept = b.kept
         /\ g = [source |-> g.source, tool |-> g.tool, limits |-> g.limits, timeout |-> g.timeout,
                 kept |-> g.kept, shipwright |-> g.shipwright]
         /\ g.shipwright = None <=> b.shipwright = None
         /\ b.shipwright # None =>
               /\ g.shipwright = [strategy |-> b.shipwright.strategy, timeout |-> b.shipwright.timeout,
                                  params |-> g.shipwright.params]
               /\ g.shipwright.params \in ParamLists(ParamMap(b.shipwright.params))
               /\ IsParamList(b.shipwright.params)
               /\ ParamMap(g.shipwright.params) = ParamMap(b.shipwright.params)
<1>1. PICK x, y : x = convertBundle(b.source) /\ y = convertBundle(x)
  OBVIOUS
<1>2. /\ IsSource(x) /\ x # None /\ x.url = b.source.url /\ x.credentials = b.source.credentials
      /\ x.bundle = IF b.source.bundle = None THEN None ELSE b.source.credentials
  BY <1>1, BundleConverted DEF IsBuild2
<1>3. x.bundle = b.source.bundle
  BY <1>2 DEF ExpressibleBuild
<1>4. x = b.source
  BY <1>2, <1>3 DEF IsBuild2, IsSource
<1>5. y = b.source
  BY <1>1, <1>4
<1>6. PICK e : e = IF b.shipwright = None THEN None
                   ELSE [strategy |-> b.shipwright.strategy, timeout |-> b.shipwright.timeout]
  OBVIOUS
<1>7. /\ o.source = x /\ o.tool = b.tool /\ o.limits = b.limits /\ o.kept = b.kept
      /\ o.shipwright = e /\ o.params = ParamsFrom(b.shipwright)
  BY <1>1, <1>6 DEF convertBuildFrom
<1>8. PICK l \in ParamLists(o.params) :
        g = [source |-> y, tool |-> o.tool, limits |-> o.limits, timeout |-> None, kept |-> o.kept,
             shipwright |-> IF e = None THEN None
                            ELSE [strategy |-> e.strategy, timeout |-> e.timeout, params |-> l]]
  BY <1>1, <1>7 DEF convertBuildTo
<1>9. PICK f : f = IF e = None THEN None ELSE [strategy |-> e.strategy, timeout |-> e.timeout, params |-> l]
  OBVIOUS
<1>10. /\ g.source = y /\ g.tool = o.tool /\ g.kept = o.kept /\ g.shipwright = f
       /\ g = [source |-> g.source, tool |-> g.tool, limits |-> g.limits, timeout |-> g.timeout,
               kept |-> g.kept, shipwright |-> g.shipwright]
  BY <1>8, <1>9
<1>11. CASE b.shipwright = None
  BY <1>5, <1>6, <1>7, <1>9, <1>10, <1>11
<1>12. CASE b.shipwright # None
  <2>1. e # None /\ e.strategy = b.shipwright.strategy /\ e.timeout = b.shipwright.timeout
    BY <1>6, <1>12 DEF NoneIsNoObject
  <2>2. f = [strategy |-> b.shipwright.strategy, timeout |-> b.shipwright.timeout, params |-> l]
    BY <1>9, <2>1
  <2>3. f # None /\ f.params = l
    BY <2>2 DEF NoneIsNoObject
  <2>4. IsParamList(b.shipwright.params)
    BY <1>12 DEF IsBuild2, IsEngine
  <2>5. o.params = ParamMap(b.shipwright.params)
    BY <1>7, <1>12 DEF ParamsFrom
  <2>6. ParamMap(l) = o.params
    BY <2>4, <2>5, MapMade, ParamsBack
  <2> QED
    BY <1>5, <1>7, <1>8, <1>10, <1>12, <2>2, <2>3, <2>4, <2>5, <2>6
<1> QED
  BY <1>11, <1>12

\* The fields of what comes back of a function that v1beta1 can express.
LEMMA ThereAndBack ==
  ASSUME NoneIsNoObject, NEW h, IsFunction2(h), Filled(h), Validate(h), Expressible(h),
         NEW g \in ConvertTo(ConvertFrom(h))
  PROVE  /\ g.version = h.version /\ g.image = h.image /\ g.credentials = h.credentials
         /\ g.runtime = h.runtime /\ g.serving = h.serving
         /\ h.build = None => g.build = None
         /\ h.build # None => g.build \in convertBuildTo(convertBuildFrom(h.build))
<1>1. PICK o : o = ConvertFrom(h)
  OBVIOUS
<1>2. PICK http : http = IF h.serving = None \/ h.serving.triggers = None THEN None ELSE h.serving.triggers.http
  OBVIOUS
<1>3. /\ o.version = h.version /\ o.image = h.image /\ o.credentials = h.credentials /\ o.runtime = h.runtime
      /\ o.notes = (IF h.serving = None THEN h.notes ELSE NotesFrom(h.notes, h.serving))
      /\ o.port = (IF http = None THEN None ELSE http.port)
      /\ o.route = (IF http = None THEN None ELSE http.route)
      /\ o.build = (IF h.build = None THEN None ELSE convertBuildFrom(h.build))
      /\ o.serving = (IF h.serving = None THEN None ELSE convertServingFrom(h.serving))
  BY <1>1, <1>2 DEF ConvertFrom
<1>4. PICK b, v, t : /\ b \in IF o.build = None THEN {None} ELSE convertBuildTo(o.build)
                     /\ v = IF o.serving = None THEN None ELSE convertServingTo(o.serving, o.port, o.route, o.notes)
                     /\ t = StatusTo(o.status)
                     /\ g = [notes |-> o.notes, version |-> o.version, image |-> o.image,
                             credentials |-> o.credentials, runtime |-> o.runtime, build |-> b,
                             serving |-> v, status |-> t]
  BY <1>1 DEF ConvertTo
<1>5. /\ g.version = o.version /\ g.image = o.image /\ g.credentials = o.credentials
      /\ g.runtime = o.runtime /\ g.serving = v /\ g.build = b
  BY <1>4
<1>6. v = h.serving
  <2>1. CASE h.serving = None
    BY <1>3, <1>4, <2>1
  <2>2. CASE h.serving # None
    <3>1. IsServing2(h.serving) /\ FilledTriggers(h.serving.triggers) /\ IsNotes(h.notes)
          /\ ExpressibleServing(h.serving, h.notes)
      BY <2>2 DEF IsFunction2, Filled, Expressible
    <3>2. http = h.serving.triggers.http
      BY <1>2, <2>2, <3>1 DEF FilledTriggers
    <3>3. convertServingTo(convertServingFrom(h.serving), o.port, o.route, NotesFrom(h.notes, h.serving)) = h.serving
      BY <1>3, <2>2, <3>1, <3>2, ServingThere
    <3>4. o.serving = convertServingFrom(h.serving) /\ o.notes = NotesFrom(h.notes, h.serving)
      BY <1>3, <2>2
    <3>5. o.serving # None
      BY <3>4 DEF convertServingFrom, NoneIsNoObject
    <3> QED
      BY <1>4, <3>3, <3>4, <3>5
  <2> QED
    BY <2>1, <2>2
<1>7. h.build = None => b = None
  BY <1>3, <1>4
<1>8. h.build # None => b \in convertBuildTo(convertBuildFrom(h.build))
  <2> SUFFICES ASSUME h.build # None PROVE b \in convertBuildTo(convertBuildFrom(h.build))
    OBVIOUS
  <2>1. o.build = convertBuildFrom(h.build)
    BY <1>3
  <2>2. o.build # None
    BY <2>1 DEF convertBuildFrom, NoneIsNoObject
  <2> QED
    BY <1>4, <2>1, <2>2
<1> QED
  BY <1>3, <1>5, <1>6, <1>7, <1>8

\* A function that v1beta1 can express means the same when it was read and written there.
LEMMA MeaningKept ==
  ASSUME NoneIsNoObject, NEW h, IsFunction2(h), Filled(h), Validate(h), Expressible(h),
         NEW g \in ConvertTo(ConvertFrom(h))
  PROVE  SameMeaning(g, h)
<1>1. /\ g.version = h.version /\ g.image = h.image /\ g.credentials = h.credentials
      /\ g.runtime = h.runtime /\ g.serving = h.serving
      /\ h.build = None => g.build = None
      /\ h.build # None => g.build \in convertBuildTo(convertBuildFrom(h.build))
  BY ThereAndBack
<1>2. BuildMeaning(g.build) = BuildMeaning(h.build)
  <2>1. CASE h.build = None
    BY <1>1, <2>1
  <2>2. CASE h.build # None
    <3>1. PICK b, k : b = h.build /\ k = g.build
      OBVIOUS
    <3>2. b # None /\ IsBuild2(b) /\ b.source # None /\ ExpressibleBuild(b)
      BY <2>2, <3>1 DEF IsFunction2, Validate, ValidateBuild, Expressible
    <3>3. k \in convertBuildTo(convertBuildFrom(b))
      BY <1>1, <2>2, <3>1
    <3>4. /\ k.source = b.source /\ k.tool = b.tool /\ k.kept = b.kept
          /\ k = [source |-> k.source, tool |-> k.tool, limits |-> k.limits, timeout |-> k.timeout,
                  kept |-> k.kept, shipwright |-> k.shipwright]
          /\ k.shipwright = None <=> b.shipwright = None
          /\ b.shipwright # None =>
                /\ k.shipwright = [strategy |-> b.shipwright.strategy, timeout |-> b.shipwright.timeout,
                                   params |-> k.shipwright.params]
                /\ ParamMap(k.shipwright.params) = ParamMap(b.shipwright.params)
      BY <3>2, <3>3, BuildThere
    <3>5. k # None
      BY <3>4 DEF NoneIsNoObject
    <3>6. ParamsFrom(k.shipwright) = ParamsFrom(b.shipwright)
      BY <3>4 DEF ParamsFrom
    <3>7. BuildMeaning(k) = BuildMeaning(b)
      BY <3>2, <3>4, <3>5, <3>6 DEF BuildMeaning
    <3> QED
      BY <3>1, <3>7
  <2> QED
    BY <2>1, <2>2
<1> QED
  BY <1>1, <1>2 DEF SameMeaning

\* Hooks and tracing of a serving section say what the annotations say.
Annotated(s, notes) ==
    s.hooks = HooksTo(notes.plugins) /\ s.tracing = notes.tracing /\ ~UnreadableNotes(notes)

\* A serving section that came from v1beta1 and scales no jobs is one that v1beta1 can express,
\* together with the annotations it came from.
LEMMA ServingExpressible ==
  ASSUME NoneIsNoObject, NEW s, IsList(s.inputs), IsList(s.outputs), IsTemplate(s.template), ~JobWithoutObject(s),
         NEW port, NEW route, IsRoute(route), NEW notes, IsTracing(notes.tracing), ~UnreadableNotes(notes),
         NEW u, u = convertServingTo(s, port, route, notes), ValidateServing(u)
  PROVE  ExpressibleServing(u, notes) /\ Annotated(u, notes)
<1>1. /\ u.triggers = TriggersTo(s, port, route) /\ u.outputs = OutputsTo(s) /\ u.scale = ScaleTo(s)
      /\ u.workload = WorkloadTo(s) /\ u.hooks = HooksTo(notes.plugins) /\ u.tracing = notes.tracing
      /\ u.components = s.components
  BY ServingFields
<1>2. \A name : getDaprComponent(u, name) = getDaprComponent(s, name)
  BY <1>1 DEF getDaprComponent
<1>3. PICK t : t = u.triggers
  OBVIOUS
<1>4. /\ t.inputs = <<>>
      /\ t.http # None => t.http.engine = None /\ t.dapr = <<>>
      /\ \A i \in DOMAIN t.dapr : t.dapr[i].type = getDaprComponent(u, t.dapr[i].component)
  <2>1. /\ t.inputs = <<>>
        /\ \A i \in DOMAIN t.dapr : t.dapr[i].type = getDaprComponent(s, t.dapr[i].component)
        /\ t.http = IF s.runtime = "knative" THEN [port |-> port, route |-> route, engine |-> None] ELSE None
        /\ s.runtime # "async" => t.dapr = <<>>
    BY <1>1, <1>3, TriggersMade
  <2> QED
    BY <1>2, <2>1
<1>5. \A i \in DOMAIN u.outputs : /\ u.outputs[i].type = getDaprComponent(u, u.outputs[i].component)
                                  /\ u.outputs[i].type # None
  <2>1. PICK m : m = OutputsTo(s)
    OBVIOUS
  <2>2. \A i \in DOMAIN m : m[i].type # None /\ m[i].type = getDaprComponent(s, m[i].component)
    BY <2>1, OutputsMade
  <2> QED
    BY <1>1, <1>2, <2>1, <2>2
<1>6. ExpressibleScale(u)
  <2>1. PICK c : c = u.scale
    OBVIOUS
  <2>2. /\ c = None <=> s.scale = None
        /\ c # None => /\ c.keda = None <=> s.scale.keda = None
                       /\ c.keda # None => /\ c.keda.http = None
                                           /\ c.keda.job = None <=> s.scale.keda.job = None
                                           /\ c.keda.object = None <=> s.scale.keda.object = None
                                           /\ c.keda.object # None => c.keda.object.fallback = None
    BY <1>1, <2>1, ScaleMade
  <2>3. CASE c = None \/ c.keda = None
    BY <1>1, <2>1, <2>2, <2>3 DEF ExpressibleScale, WorkloadTo
  <2>4. CASE c # None /\ c.keda # None
    <3>1. c.keda.job = None
      <4>1. c.keda.job # None => c.keda.object # None
        BY <2>2, <2>4 DEF JobWithoutObject
      <4>2. ~(c.keda.job # None /\ c.keda.object # None)
        BY <2>1, <2>4 DEF ValidateServing, ValidScale
      <4> QED
        BY <4>1, <4>2
    <3>2. u.workload = IF s.scale.keda.object # None THEN WorkloadOfObject(s.scale.keda.object) ELSE ""
      BY <1>1, <2>2, <2>4, <3>1 DEF WorkloadTo
    <3>3. (u.workload = "") <=> (c.keda.object = None)
      BY <2>2, <2>4, <3>2 DEF WorkloadOfObject
    <3> QED
      BY <2>1, <2>2, <2>4, <3>1, <3>3 DEF ExpressibleScale
  <2> QED
    BY <2>3, <2>4
<1>7. /\ IF u.hooks = None THEN notes.plugins = None ELSE u.hooks.policy = "Override"
      /\ u.tracing = None => notes.tracing = None
  BY <1>1, HooksMade
<1>8. ExpressibleServing(u, notes)
  BY <1>3, <1>4, <1>5, <1>6, <1>7 DEF ExpressibleServing
<1> QED
  BY <1>1, <1>8 DEF Annotated

\* And so is a build section.
LEMMA BuildExpressible ==
  ASSUME NoneIsNoObject, NEW b, IsSource(b.source), IsParamMap(b.params),
         NEW g \in convertBuildTo(b), ValidateBuild(g)
  PROVE  ExpressibleBuild(g)
<1>1. PICK x : x = convertBundle(b.source)
  OBVIOUS
<1>2. PICK l \in ParamLists(b.params) :
        g = [source |-> x, tool |-> b.tool, limits |-> b.limits, timeout |-> None, kept |-> b.kept,
             shipwright |-> IF b.shipwright = None THEN None
                            ELSE [strategy |-> b.shipwright.strategy, timeout |-> b.shipwright.timeout, params |-> l]]
  BY <1>1 DEF convertBuildTo
<1>3. PICK f : f = IF b.shipwright = None THEN None
                   ELSE [strategy |-> b.shipwright.strategy, timeout |-> b.shipwright.timeout, params |-> l]
  OBVIOUS
<1>4. g.source = x /\ g.shipwright = f
  BY <1>2, <1>3
<1>5. x.bundle # None => x.bundle = x.credentials
  <2>1. x # None
    BY <1>4 DEF ValidateBuild
  <2> QED
    BY <1>1, <2>1, BundleConverted
<1>6. \A i \in DOMAIN l : l[i].value # None
  <2>1. PICK q \in SetToSeqs(DOMAIN b.params) : l = [i \in DOMAIN q |-> [name |-> q[i], value |-> b.params[q[i]]]]
    BY DEF ParamLists
  <2>2. \A i \in DOMAIN q : q[i] \in DOMAIN b.params /\ i <= i
    BY <2>1, SeqsOfSet DEF IsParamMap
  <2>3. DOMAIN l = DOMAIN q /\ \A i \in DOMAIN q : l[i].value = b.params[q[i]]
    BY <2>1
  <2> QED
    BY <2>2, <2>3 DEF IsParamMap
<1>7. f # None => f.params = l
  BY <1>3
<1> QED
  BY <1>4, <1>5, <1>6, <1>7 DEF ExpressibleBuild

\* What came from v1beta1 can be expressed there.
LEMMA ExpressibleTo ==
  ASSUME NoneIsNoObject, NEW o, IsFunction1(o), ~ConvertFails(o), NEW h \in ConvertTo(o), Validate(h)
  PROVE  Expressible(h) /\ (h.serving # None => Annotated(h.serving, h.notes))
<1>1. PICK b, u, t : /\ b \in IF o.build = None THEN {None} ELSE convertBuildTo(o.build)
                     /\ u = IF o.serving = None THEN None ELSE convertServingTo(o.serving, o.port, o.route, o.notes)
                     /\ t = StatusTo(o.status)
                     /\ h = [notes |-> o.notes, version |-> o.version, image |-> o.image,
                             credentials |-> o.credentials, runtime |-> o.runtime, build |-> b,
                             serving |-> u, status |-> t]
  BY DEF ConvertTo
<1>2. h.notes = o.notes /\ h.build = b /\ h.serving = u
  BY <1>1
<1>3. ExpressibleBuild(b)
  <2>1. CASE b = None
    BY <2>1 DEF ExpressibleBuild
  <2>2. CASE b # None
    <3>1. o.build # None /\ b \in convertBuildTo(o.build)
      BY <1>1, <2>2
    <3>2. IsSource(o.build.source) /\ IsParamMap(o.build.params) /\ ValidateBuild(b)
      BY <1>2, <2>2, <3>1 DEF IsFunction1, Validate
    <3> QED
      BY <3>1, <3>2, BuildExpressible
  <2> QED
    BY <2>1, <2>2
<1>4. u # None => ExpressibleServing(u, o.notes) /\ Annotated(u, o.notes)
  <2> SUFFICES ASSUME u # None PROVE ExpressibleServing(u, o.notes) /\ Annotated(u, o.notes)
    OBVIOUS
  <2>1. o.serving # None /\ u = convertServingTo(o.serving, o.port, o.route, o.notes)
    BY <1>1
  <2>2. /\ IsTracing(o.notes.tracing) /\ IsRoute(o.route)
        /\ IsList(o.serving.inputs) /\ IsList(o.serving.outputs) /\ IsTemplate(o.serving.template)
    BY <2>1 DEF IsFunction1, IsNotes
  <2>3. ~JobWithoutObject(o.serving) /\ ~UnreadableNotes(o.notes) /\ ValidateServing(u)
    BY <1>2, <2>1 DEF ConvertFails, Validate
  <2> QED
    BY <2>1, <2>2, <2>3, ServingExpressible
<1>5. ExpressibleServing(u, o.notes)
  BY <1>4 DEF ExpressibleServing
<1> QED
  BY <1>2, <1>3, <1>4, <1>5 DEF Expressible

-----------------------------------------------------------------------------
(* What a Serving is run with: a runtime class, if it is marked.           *)

\* The workloads of all engines have a template from PodsOf, for which the marked
\* annotation is enough.
LEMMA MarkedRuns ==
  ASSUME NEW s, NEW notes, NEW cm, notes.wasm # None, NEW made, made = Run(s, notes, cm)
  PROVE  made.workload.template.runtimeClass # None
<1>1. \A x, refs : PodsOf(x, notes, refs, cm).runtimeClass # None
  BY DefaultsAssumption DEF PodsOf, RuntimeClassName, Given
<1> DEFINE refs == CreateComponents(s)
<1>3. KnativeWorkload(s, notes, refs, cm).template.runtimeClass # None
  BY <1>1 DEF KnativeWorkload
<1>4. KedaHttpWorkload(s, notes, refs, cm).template.runtimeClass # None
  BY <1>1 DEF KedaHttpWorkload
<1>5. AsyncWorkload(s, notes, refs, cm).template.runtimeClass # None
  BY <1>1 DEF AsyncWorkload
<1>6. EngineOf(s) \in {"knative", "keda", "async"}
  BY DEF EngineOf
<1>7. made.workload = CASE EngineOf(s) = "knative" -> KnativeWorkload(s, notes, refs, cm)
                        [] EngineOf(s) = "keda" -> KedaHttpWorkload(s, notes, refs, cm)
                        [] EngineOf(s) = "async" -> AsyncWorkload(s, notes, refs, cm)
  BY DEF Run
<1> QED
  BY <1>3, <1>4, <1>5, <1>6, <1>7

\* What Run says it was made of, and where the contexts are that it made: the
\* specification they were generated from is the Serving's, or has its tracing merged.
LEMMA EnvMade ==
  ASSUME NEW s, NEW notes, NEW cm, NEW made, made = Run(s, notes, cm)
  PROVE  /\ made.spec = s /\ made.config = cm /\ made.components = CreateComponents(s)
         /\ made.proxy \in {None, CreateFunctionContextENV(MergedInPlace(s, cm), notes, CreateComponents(s), cm)}
         /\ \E x \in {s, MergedInPlace(s, cm)} :
               made.workload.template.env = CreateFunctionContextENV(x, notes, CreateComponents(s), cm)
<1> DEFINE refs == CreateComponents(s)
           Env(x) == CreateFunctionContextENV(x, notes, refs, cm)
<1>1. \A x : PodsOf(x, notes, refs, cm).env = Env(x)
  BY DEF PodsOf
<1>2. KnativeWorkload(s, notes, refs, cm).template = PodsOf(MergedInPlace(s, cm), notes, refs, cm)
  BY DEF KnativeWorkload
<1>3. KedaHttpWorkload(s, notes, refs, cm).template = PodsOf(s, notes, refs, cm)
  BY DEF KedaHttpWorkload
<1>4. AsyncWorkload(s, notes, refs, cm).template = PodsOf(MergedInPlace(s, cm), notes, refs, cm)
  BY DEF AsyncWorkload
<1>5. EngineOf(s) \in {"knative", "keda", "async"}
  BY DEF EngineOf
<1>6. /\ made.workload = CASE EngineOf(s) = "knative" -> KnativeWorkload(s, notes, refs, cm)
                           [] EngineOf(s) = "keda" -> KedaHttpWorkload(s, notes, refs, cm)
                           [] EngineOf(s) = "async" -> AsyncWorkload(s, notes, refs, cm)
      /\ made.spec = s /\ made.config = cm /\ made.components = refs
      /\ made.proxy \in {None, Env(MergedInPlace(s, cm))}
  BY DEF Run
<1> HIDE DEF refs, Env
<1>7. \E x \in {s, MergedInPlace(s, cm)} : made.workload.template.env = Env(x)
  BY <1>1, <1>2, <1>3, <1>4, <1>5, <1>6
<1> QED
  BY <1>6, <1>7 DEF refs, Env

\* Merging the ConfigMap's tracing into that of a Serving keeps the name of the provider and
\* whether tracing is on, and once it was merged nothing is left to merge.
LEMMA TracingMerged ==
  ASSUME NoneIsNoObject, NEW t, t # None, t # IllFormed, IsTracing(t), t.enabled, NEW cm,
         NEW m, m = mergerTracingConfig(t, cm)
  PROVE  /\ m # None /\ m.enabled = t.enabled /\ m.provider.name = t.provider.name
         /\ mergerTracingConfig(m, cm) = m
         /\ mergerTracingConfig(m, cm).provider.name = t.provider.name
<1>1. /\ t = [enabled |-> t.enabled, provider |-> t.provider, tags |-> t.tags]
      /\ t.provider = [name |-> t.provider.name, server |-> t.provider.server]
      /\ t.provider.name # None
  BY DEF IsTracing
<1>2. PICK g : g = getGlobalTracingConfig(cm)
  OBVIOUS
<1>3. CASE g = None
  <2>1. m = t
    BY <1>2, <1>3 DEF mergerTracingConfig
  <2>2. mergerTracingConfig(t, cm) = t
    BY <1>2, <1>3 DEF mergerTracingConfig
  <2> QED
    BY <2>1, <2>2
<1>4. CASE g # None
  <2>1. PICK p : p = [f \in DOMAIN t.provider |-> Given(t.provider[f], g.provider[f])]
    OBVIOUS
  <2>2. PICK D : D = DOMAIN t.tags \cup DOMAIN g.tags
    OBVIOUS
  <2>3. PICK tags : tags = [k \in D |-> IF k \in DOMAIN t.tags THEN t.tags[k] ELSE g.tags[k]]
    OBVIOUS
  <2>4. m = [enabled |-> t.enabled, provider |-> p, tags |-> tags]
    BY <1>2, <1>4, <2>1, <2>2, <2>3 DEF mergerTracingConfig
  <2>5. /\ m.enabled = t.enabled /\ m.provider = p /\ m.tags = tags
        /\ m = [enabled |-> m.enabled, provider |-> m.provider, tags |-> m.tags]
    BY <2>4
  <2>6. m # None
    BY <2>5 DEF NoneIsNoObject
  <2>7. DOMAIN p = DOMAIN t.provider /\ \A f \in DOMAIN p : p[f] = Given(t.provider[f], g.provider[f])
    BY <2>1
  <2>8. p.name = t.provider.name
    <3>1. "name" \in DOMAIN t.provider
      BY <1>1
    <3> QED
      BY <1>1, <2>7, <3>1 DEF Given
  <2>9. PICK q : q = [f \in DOMAIN p |-> Given(p[f], g.provider[f])]
    OBVIOUS
  <2>10. q = p
    <3>1. \A f \in DOMAIN p : q[f] = p[f]
      BY <2>7, <2>9 DEF Given
    <3>2. p = [f \in DOMAIN p |-> p[f]]
      BY <2>1
    <3> QED
      BY <2>9, <3>1, <3>2
  <2>11. DOMAIN tags = D
    BY <2>3
  <2>12. PICK again : again = [k \in DOMAIN m.tags \cup DOMAIN g.tags |->
                                 IF k \in DOMAIN m.tags THEN m.tags[k] ELSE g.tags[k]]
    OBVIOUS
  <2>13. again = tags
    <3>1. DOMAIN m.tags \cup DOMAIN g.tags = D /\ DOMAIN m.tags = D
      BY <2>2, <2>5, <2>11
    <3>2. again = [k \in D |-> IF k \in D THEN m.tags[k] ELSE g.tags[k]]
      BY <2>12, <3>1
    <3>3. again = [k \in D |-> tags[k]]
      BY <2>5, <3>2
    <3>4. tags = [k \in D |-> tags[k]]
      BY <2>3
    <3> QED
      BY <3>3, <3>4
  <2>14. mergerTracingConfig(m, cm) = [enabled |-> m.enabled, provider |-> q, tags |-> again]
    <3>1. m.enabled
      BY <2>5
    <3>2. DOMAIN m.provider = DOMAIN p
      BY <2>5
    <3>3. q = [f \in DOMAIN m.provider |-> Given(m.provider[f], g.provider[f])]
      BY <2>5, <2>9
    <3> QED
      BY <1>2, <1>4, <2>6, <2>12, <3>1, <3>3 DEF mergerTracingConfig
  <2>15. mergerTracingConfig(m, cm) = m
    BY <2>5, <2>10, <2>13, <2>14
  <2> QED
    BY <2>5, <2>6, <2>8, <2>15
<1> QED
  BY <1>3, <1>4

\* The hooks of both contexts.
LEMMA ContextHooks ==
  ASSUME NEW x, NEW notes, NEW refs, NEW cm, NEW env, env = CreateFunctionContextENV(x, notes, refs, cm)
  PROVE  /\ env.v1beta1.pre = parsePluginsCfg(notes, cm).pre
         /\ env.v1beta1.post = parsePluginsCfg(notes, cm).post
         /\ env.v1beta1.tracing = parsePluginsCfg(notes, cm).tracing
         /\ env.v1beta2.pre = HooksOf(x, cm).pre /\ env.v1beta2.post = HooksOf(x, cm).post
         /\ env.v1beta2.tracing = mergerTracingConfig(x.tracing, cm)
<1>1. env.v1beta1 = GenOpenFunctionContextV1beta1(x, notes, refs, cm)
  BY DEF CreateFunctionContextENV
<1>2. env.v1beta2 = GenOpenFunctionContextV1beta2(x, refs, cm)
  BY DEF CreateFunctionContextENV
<1>3. PICK old : old = GenOpenFunctionContextV1beta1(x, notes, refs, cm)
  OBVIOUS
<1>4. PICK new : new = GenOpenFunctionContextV1beta2(x, refs, cm)
  OBVIOUS
<1>5. PICK plugins : plugins = parsePluginsCfg(notes, cm)
  OBVIOUS
<1>6. old.pre = plugins.pre /\ old.post = plugins.post /\ old.tracing = plugins.tracing
  BY <1>3, <1>5 DEF GenOpenFunctionContextV1beta1
<1>7. PICK hooks, tracing : hooks = HooksOf(x, cm) /\ tracing = mergerTracingConfig(x.tracing, cm)
  OBVIOUS
<1>8. new.pre = hooks.pre /\ new.post = hooks.post /\ new.tracing = tracing
  BY <1>4, <1>7 DEF GenOpenFunctionContextV1beta2
<1> QED
  BY <1>1, <1>2, <1>3, <1>4, <1>5, <1>6, <1>7, <1>8

\* The hooks that are parsed from annotations, without the tracer, are those of the section
\* that came from the same annotations.
LEMMA HooksParsed ==
  ASSUME NoneIsNoObject, NEW s, NEW notes, Annotated(s, notes), NEW cm, Unordered(cm)
  PROVE  LET plugins == Given(notes.plugins, cm.plugins)
             hooks == IF WellFormed(plugins) THEN HooksTo(plugins) ELSE [pre |-> <<>>, post |-> <<>>]
         IN  hooks.pre = HooksOf(s, cm).pre /\ hooks.post = HooksOf(s, cm).post
<1> DEFINE plugins == Given(notes.plugins, cm.plugins)
           hooks == IF WellFormed(plugins) THEN HooksTo(plugins) ELSE [pre |-> <<>>, post |-> <<>>]
<1>1. s.hooks = HooksTo(notes.plugins) /\ notes.plugins # IllFormed
  BY DEF Annotated, UnreadableNotes
<1>2. CASE notes.plugins # None
  <2>1. hooks = s.hooks
    BY <1>1, <1>2 DEF Given, WellFormed
  <2>2. s.hooks # None /\ s.hooks.policy = "Override"
    BY <1>1, <1>2, HooksMade
  <2>3. HooksOf(s, cm).pre = s.hooks.pre /\ HooksOf(s, cm).post = s.hooks.post
    BY <2>2 DEF HooksOf
  <2> QED
    BY <2>1, <2>3
<1>3. CASE notes.plugins = None
  <2>1. PICK p : p = cm.plugins
    OBVIOUS
  <2>2. plugins = p /\ s.hooks = None
    BY <1>1, <1>3, <2>1, HooksMade DEF Given
  <2>3. HooksOf(s, cm) = getGlobalHooks(cm)
    BY <2>2 DEF HooksOf
  <2>4. cm.hooks = None /\ (WellFormed(p) => p.order = None)
    BY <2>1 DEF Unordered
  <2>5. CASE ~WellFormed(p)
    BY <2>1, <2>2, <2>3, <2>4, <2>5 DEF getGlobalHooks, Given
  <2>6. CASE WellFormed(p)
    <3>1. getGlobalHooks(cm) = [pre |-> Given(p.pre, <<>>), post |-> Given(p.post, <<>>)]
      BY <2>1, <2>4, <2>6 DEF getGlobalHooks, Given
    <3>2. Reverse(<<>>) = <<>>
      BY DEF Reverse
    <3>3. HooksTo(p) = [policy |-> "Override", pre |-> Given(p.pre, <<>>), post |-> Given(p.post, <<>>)]
      BY <2>4, <2>6, <3>2 DEF HooksTo, Given, WellFormed
    <3> QED
      BY <2>2, <2>3, <2>6, <3>1, <3>3
  <2> QED
    BY <2>5, <2>6
<1> QED
  BY <1>2, <1>3

\* Both frameworks are given the same hooks for a Serving whose specification came from its
\* annotations.
LEMMA HooksAgreed ==
  ASSUME NoneIsNoObject, NEW s, IsServing2(s), s # None, NEW notes, Annotated(s, notes), NEW cm, Unordered(cm),
         NEW made, made = Run(s, notes, cm)
  PROVE  HooksAgree(made)
<1>1. PICK x \in {s, MergedInPlace(s, cm)} :
         made.workload.template.env = CreateFunctionContextENV(x, notes, CreateComponents(s), cm)
  BY EnvMade
<1>2. PICK old, new : old = made.workload.template.env.v1beta1 /\ new = made.workload.template.env.v1beta2
  OBVIOUS
<1>3. PICK parsed : parsed = parsePluginsCfg(notes, cm)
  OBVIOUS
<1>4. /\ old.pre = parsed.pre /\ old.post = parsed.post /\ old.tracing = parsed.tracing
      /\ new.pre = HooksOf(x, cm).pre /\ new.post = HooksOf(x, cm).post
      /\ new.tracing = mergerTracingConfig(x.tracing, cm)
  BY <1>1, <1>2, <1>3, ContextHooks
<1>5. HooksOf(x, cm) = HooksOf(s, cm)
  <2>1. x.hooks = s.hooks
    BY <1>1 DEF MergedInPlace, IsServing2
  <2> QED
    BY <2>1 DEF HooksOf
<1>6. PICK tr : tr = Given(notes.tracing, cm.pluginsTracing)
  OBVIOUS
<1>7. PICK plugins : plugins = Given(notes.plugins, cm.plugins)
  OBVIOUS
<1>8. PICK hooks : hooks = IF WellFormed(plugins) THEN HooksTo(plugins) ELSE [pre |-> <<>>, post |-> <<>>]
  OBVIOUS
<1>9. hooks.pre = HooksOf(s, cm).pre /\ hooks.post = HooksOf(s, cm).post
  BY <1>7, <1>8, HooksParsed
<1>10. PICK tracer : tracer = IF WellFormed(tr) /\ tr.enabled THEN <<tr.provider.name>> ELSE <<>>
  OBVIOUS
<1>11. PICK tracing : tracing = IF WellFormed(tr) THEN tr ELSE None
  OBVIOUS
<1>12. parsed = [pre |-> hooks.pre \o tracer, post |-> tracer \o hooks.post, tracing |-> tracing]
  BY <1>3, <1>6, <1>7, <1>8, <1>10, <1>11 DEF parsePluginsCfg
<1>13. parsed.pre = hooks.pre \o tracer /\ parsed.post = tracer \o hooks.post /\ parsed.tracing = tracing
  BY <1>12
<1>14. tracer = IF tracing # None /\ tracing.enabled THEN <<tracing.provider.name>> ELSE <<>>
  <2>1. CASE WellFormed(tr)
    <3>1. tracing = tr /\ tr # None
      BY <1>11, <2>1 DEF WellFormed
    <3> QED
      BY <1>10, <2>1, <3>1
  <2>2. CASE ~WellFormed(tr)
    BY <1>10, <1>11, <2>2
  <2> QED
    BY <2>1, <2>2
<1>15. ASSUME s.tracing # None, s.tracing.enabled PROVE new.tracing.provider.name = tracing.provider.name
  <2>1. s.tracing = notes.tracing /\ notes.tracing # IllFormed /\ IsTracing(s.tracing)
    BY DEF Annotated, UnreadableNotes, IsServing2
  <2>2. tracing = s.tracing
    BY <1>6, <1>11, <1>15, <2>1 DEF Given, WellFormed
  <2>3. PICK m : m = mergerTracingConfig(s.tracing, cm)
    OBVIOUS
  <2>4. m.provider.name = s.tracing.provider.name /\ mergerTracingConfig(m, cm) = m
    BY <1>15, <2>1, <2>3, TracingMerged
  <2>5. x.tracing \in {s.tracing, m}
    BY <1>1, <2>3 DEF MergedInPlace, IsServing2
  <2>6. new.tracing = m
    BY <1>4, <2>3, <2>4, <2>5
  <2> QED
    BY <2>2, <2>4, <2>6
<1>16. made.spec = s
  BY EnvMade
<1>17. /\ old.pre = new.pre \o tracer /\ old.post = tracer \o new.post
       /\ tracer = IF old.tracing # None /\ old.tracing.enabled THEN <<old.tracing.provider.name>> ELSE <<>>
       /\ made.spec.tracing # None /\ made.spec.tracing.enabled =>
             new.tracing.provider.name = old.tracing.provider.name
  BY <1>4, <1>5, <1>9, <1>13, <1>14, <1>15, <1>16
<1> QED
  BY <1>2, <1>17 DEF HooksAgree

\* The components a reference, or a state, is led to depend on the components and the
\* states of the section alone.
LEMMA ComponentsAlike ==
  ASSUME NEW s, NEW x, x.components = s.components, x.states = s.states, NEW refs
  PROVE  /\ \A r : Component(x, refs, r) = Component(s, refs, r) /\ Uri(x, r) = Uri(s, r)
         /\ States(x, refs) = States(s, refs)
<1>1. \A name : getDaprComponent(x, name) = getDaprComponent(s, name)
  BY DEF getDaprComponent
<1>2. \A name : getComponentTypeFromServing(x, name) = getComponentTypeFromServing(s, name)
  BY <1>1 DEF getComponentTypeFromServing
<1>3. \A name, type : getComponentType(x, name, type) = getComponentType(s, name, type)
  BY <1>2 DEF getComponentType
<1>4. \A r : Component(x, refs, r) = Component(s, refs, r) /\ Uri(x, r) = Uri(s, r)
  BY <1>3 DEF Component, Uri
<1>5. \A n : getStateType(x, n) = getStateType(s, n)
  BY DEF getStateType
<1>6. States(x, refs) = States(s, refs)
  BY <1>5 DEF States
<1> QED
  BY <1>4, <1>6

\* The value of a key that no other index has is the one of its index.
LEMMA KeyedAlone ==
  ASSUME NEW keys, NEW values, NEW i \in DOMAIN keys, Alone(keys, i), \A j \in DOMAIN keys : j <= j
  PROVE  Keyed(keys, values)[keys[i]] = values[i]
<1> DEFINE LastOf(k) == CHOOSE j \in DOMAIN keys :
                          /\ keys[j] = k
                          /\ \A m \in DOMAIN keys : keys[m] = k => m <= j
<1>1. LastOf(keys[i]) = i
  BY DEF Alone
<1>2. keys[i] \in Range(keys)
  BY DEF Range
<1>3. Keyed(keys, values) = [k \in Range(keys) |-> values[LastOf(k)]]
  BY DEF Keyed
<1> HIDE DEF LastOf
<1> QED
  BY <1>1, <1>2, <1>3

\* The components of a Serving: created for it, or found, where an input or an output asks for
\* no other type than the Serving's.
LEMMA ComponentThere ==
  ASSUME NEW s, NEW r, OfServing(s, r), getComponentType(s, r.component, r.type) # None,
         NEW made, made.components = CreateComponents(s),
         NEW c, c.component = Component(s, CreateComponents(s), r).component
  PROVE  Existing(made, c)
<1>1. PICK name, type : name = r.component /\ type = getComponentType(s, name, r.type)
  OBVIOUS
<1>2. c.component = getRealComponentName(CreateComponents(s), name, type)
  BY <1>1 DEF Component
<1>3. CASE Named(type, name) \in CreateComponents(s)
  BY <1>2, <1>3 DEF getRealComponentName, Existing
<1>4. CASE Named(type, name) \notin CreateComponents(s)
  <2>1. c.component = [section |-> None, name |-> name]
    BY <1>2, <1>4 DEF getRealComponentName, AsWritten
  <2>2. c.component.section = None /\ c.component.name = name
    BY <2>1
  <2>3. getComponentTypeFromServing(s, name) = None
    <3> SUFFICES ASSUME getComponentTypeFromServing(s, name) # None PROVE FALSE
      OBVIOUS
    <3>1. type = getComponentTypeFromServing(s, name)
      BY <1>1 DEF getComponentType, Given, OfServing
    <3>2. CASE getDaprComponent(s, name) # None
      <4>1. name \in DOMAIN s.components /\ type = s.components[name]
        BY <3>1, <3>2 DEF getComponentTypeFromServing, Given, getDaprComponent
      <4> QED
        BY <1>4, <4>1 DEF CreateComponents
    <3>3. CASE getDaprComponent(s, name) = None
      <4>1. name \in DOMAIN s.states /\ type = s.states[name] /\ s.states[name] # None
        BY <3>1, <3>3 DEF getComponentTypeFromServing, Given
      <4> QED
        BY <1>4, <4>1 DEF CreateComponents
    <3> QED
      BY <3>2, <3>3
  <2>4. type = getExistingComponentType(name)
    BY <1>1, <2>3 DEF getComponentType, Given, OfServing
  <2>5. name \in DOMAIN ExistingComponents
    BY <1>1, <2>4 DEF getExistingComponentType
  <2> QED
    BY <2>2, <2>5 DEF Existing
<1> QED
  BY <1>3, <1>4

LEMMA StateThere ==
  ASSUME NEW s, NEW n \in DOMAIN s.states, getStateType(s, n) # None,
         NEW made, made.components = CreateComponents(s)
  PROVE  Existing(made, States(s, CreateComponents(s))[n])
<1>1. PICK type : type = getStateType(s, n)
  OBVIOUS
<1>2. PICK c : c = States(s, CreateComponents(s))[n]
  OBVIOUS
<1>3. c.component = getRealComponentName(CreateComponents(s), n, type)
  BY <1>1, <1>2 DEF States
<1>4. CASE Named(type, n) \in CreateComponents(s)
  BY <1>2, <1>3, <1>4 DEF getRealComponentName, Existing
<1>5. CASE Named(type, n) \notin CreateComponents(s)
  <2>1. c.component = [section |-> None, name |-> n]
    BY <1>3, <1>5 DEF getRealComponentName, AsWritten
  <2>2. s.states[n] = None
    BY <1>1, <1>5 DEF getStateType, Given, CreateComponents
  <2>3. n \in DOMAIN ExistingComponents
    BY <1>1, <2>2 DEF getStateType, Given, getExistingComponentType
  <2>4. c.component.section = None /\ c.component.name = n
    BY <2>1
  <2> QED
    BY <1>2, <2>3, <2>4 DEF Existing
<1> QED
  BY <1>4, <1>5

\* Inputs, outputs and states of both contexts.
LEMMA ContextComponents ==
  ASSUME NEW x, NEW notes, NEW refs, NEW cm, NEW env, env = CreateFunctionContextENV(x, notes, refs, cm),
         IsRefs(x.triggers.dapr), IsRefs(x.outputs)
  PROVE  /\ \A i \in DOMAIN x.triggers.dapr : Alone(InputNames(x.triggers.dapr), i) =>
               LET r == x.triggers.dapr[i]
                   old == env.v1beta1.inputs[InputName(r)]
                   new == env.v1beta2.triggers[i]
               IN  /\ old.component = Component(x, refs, r).component /\ old.type = Component(x, refs, r).type
                   /\ new.component = Component(x, refs, r).component /\ new.type = r.type
         /\ \A i \in DOMAIN x.outputs : Alone(ComponentNames(x.outputs), i) /\ Alone(InputNames(x.outputs), i) =>
               LET r == x.outputs[i]
                   old == env.v1beta1.outputs[InputName(r)]
                   new == env.v1beta2.outputs[r.component]
               IN  /\ old.component = Component(x, refs, r).component /\ old.type = Component(x, refs, r).type
                   /\ new.component = Component(x, refs, r).component /\ new.type = Component(x, refs, r).type
         /\ env.v1beta1.states = States(x, refs) /\ env.v1beta2.states = States(x, refs)
<1>1. env.v1beta1 = GenOpenFunctionContextV1beta1(x, notes, refs, cm)
  BY DEF CreateFunctionContextENV
<1>2. env.v1beta2 = GenOpenFunctionContextV1beta2(x, refs, cm)
  BY DEF CreateFunctionContextENV
<1>3. PICK old, new : old = env.v1beta1 /\ new = env.v1beta2
  OBVIOUS
<1>4. PICK dapr, outputs : dapr = x.triggers.dapr /\ outputs = x.outputs
  OBVIOUS
<1> DEFINE Target(r) == [uri |-> Uri(x, r), component |-> Component(x, refs, r).component,
                         type |-> Component(x, refs, r).type]
           Trigger(d) == [d EXCEPT !.component = Component(x, refs, d).component]
<1>5. PICK ins, outs : /\ ins = [i \in DOMAIN dapr |-> Target(dapr[i])]
                       /\ outs = [i \in DOMAIN outputs |-> Target(outputs[i])]
  OBVIOUS
<1>6. PICK triggers, targets : /\ triggers = [i \in DOMAIN dapr |-> Trigger(dapr[i])]
                               /\ targets = [i \in DOMAIN outputs |-> Component(x, refs, outputs[i])]
  OBVIOUS
<1>7. PICK states : states = States(x, refs)
  OBVIOUS
<1>8. /\ old.inputs = Keyed(InputNames(dapr), ins) /\ old.outputs = Keyed(InputNames(outputs), outs)
      /\ old.states = states
  BY <1>1, <1>3, <1>4, <1>5, <1>7 DEF GenOpenFunctionContextV1beta1
<1>9. /\ new.triggers = triggers /\ new.outputs = Keyed(ComponentNames(outputs), targets)
      /\ new.states = states
  <2>1. PICK inputs : inputs = Keyed(ComponentNames(x.triggers.inputs),
                                     [i \in DOMAIN x.triggers.inputs |->
                                        [topic |-> x.triggers.inputs[i].topic,
                                         component |-> Component(x, refs, x.triggers.inputs[i]).component,
                                         type |-> Component(x, refs, x.triggers.inputs[i]).type]])
    OBVIOUS
  <2>2. PICK keyed : keyed = Keyed(ComponentNames(outputs), targets)
    OBVIOUS
  <2>3. new = [triggers |-> triggers, inputs |-> inputs, outputs |-> keyed, states |-> states,
               tracing |-> mergerTracingConfig(x.tracing, cm),
               pre |-> HooksOf(x, cm).pre, post |-> HooksOf(x, cm).post]
    BY <1>2, <1>3, <1>4, <1>6, <1>7, <2>1, <2>2 DEF GenOpenFunctionContextV1beta2
  <2> QED
    BY <2>2, <2>3
<1>10. /\ DOMAIN InputNames(dapr) = DOMAIN dapr /\ \A i \in DOMAIN dapr : InputNames(dapr)[i] = InputName(dapr[i]) /\ i <= i
       /\ DOMAIN InputNames(outputs) = DOMAIN outputs
       /\ DOMAIN ComponentNames(outputs) = DOMAIN outputs
       /\ \A i \in DOMAIN outputs : /\ InputNames(outputs)[i] = InputName(outputs[i])
                                    /\ ComponentNames(outputs)[i] = outputs[i].component /\ i <= i
  <2>1. PICK m, n : m \in Nat /\ n \in Nat /\ DOMAIN dapr = 1..m /\ DOMAIN outputs = 1..n
    BY <1>4 DEF IsRefs, IsList
  <2> QED
    BY <2>1 DEF InputNames, ComponentNames
<1>11. \A r : Target(r).component = Component(x, refs, r).component /\ Target(r).type = Component(x, refs, r).type
  OBVIOUS
<1> HIDE DEF Target
<1>12. ASSUME NEW i \in DOMAIN dapr, Alone(InputNames(dapr), i)
       PROVE  LET r == dapr[i]
              IN  /\ old.inputs[InputName(r)].component = Component(x, refs, r).component
                  /\ old.inputs[InputName(r)].type = Component(x, refs, r).type
                  /\ new.triggers[i].component = Component(x, refs, r).component
                  /\ new.triggers[i].type = r.type
  <2>1. PICK r : r = dapr[i]
    OBVIOUS
  <2>2. old.inputs[InputName(r)] = ins[i]
    BY <1>8, <1>10, <1>12, <2>1, KeyedAlone
  <2>3. ins[i] = Target(r)
    BY <1>5, <2>1
  <2>4. Trigger(r).component = Component(x, refs, r).component /\ Trigger(r).type = r.type
    <3>1. r = [type |-> r.type, component |-> r.component, topic |-> r.topic, name |-> r.name]
      BY <1>4, <2>1 DEF IsRefs
    <3>2. "component" \in DOMAIN r /\ "type" \in DOMAIN r
      BY <3>1
    <3>3. PICK c : c = Component(x, refs, r)
      OBVIOUS
    <3>4. Trigger(r) = [r EXCEPT !.component = c.component]
      BY <3>3
    <3> HIDE DEF Trigger
    <3> QED
      BY <3>2, <3>3, <3>4
  <2>5. new.triggers[i] = Trigger(r)
    BY <1>6, <1>9, <2>1
  <2> HIDE DEF Trigger
  <2> QED
    BY <1>11, <2>1, <2>2, <2>3, <2>4, <2>5
<1>13. ASSUME NEW i \in DOMAIN outputs, Alone(ComponentNames(outputs), i), Alone(InputNames(outputs), i)
       PROVE  LET r == outputs[i]
              IN  /\ old.outputs[InputName(r)].component = Component(x, refs, r).component
                  /\ old.outputs[InputName(r)].type = Component(x, refs, r).type
                  /\ new.outputs[r.component] = Component(x, refs, r)
  <2>1. PICK r : r = outputs[i]
    OBVIOUS
  <2>2. old.outputs[InputName(r)] = outs[i]
    BY <1>8, <1>10, <1>13, <2>1, KeyedAlone
  <2>3. new.outputs[r.component] = targets[i]
    BY <1>9, <1>10, <1>13, <2>1, KeyedAlone
  <2>4. outs[i] = Target(r) /\ targets[i] = Component(x, refs, r)
    BY <1>5, <1>6, <2>1
  <2> QED
    BY <1>11, <2>1, <2>2, <2>3, <2>4
<1> QED
  BY <1>3, <1>4, <1>7, <1>8, <1>9, <1>12, <1>13

\* Contexts that are generated once more, from the specification that the workload's left,
\* are the same.
LEMMA ContextsAgain ==
  ASSUME NoneIsNoObject, NEW s, s # None, IsServing2(s), NEW notes, NEW refs, NEW cm
  PROVE  CreateFunctionContextENV(MergedInPlace(s, cm), notes, refs, cm) = CreateFunctionContextENV(s, notes, refs, cm)
<1>1. PICK x : x = MergedInPlace(s, cm)
  OBVIOUS
<1>2. CASE ~(s.tracing # None /\ s.tracing.enabled)
  BY <1>1, <1>2 DEF MergedInPlace
<1>3. CASE s.tracing # None /\ s.tracing.enabled
  <2>1. PICK m : m = mergerTracingConfig(s.tracing, cm)
    OBVIOUS
  <2>2. x = [s EXCEPT !.tracing = m]
    BY <1>1, <1>3, <2>1 DEF MergedInPlace
  <2>3. /\ x.triggers = s.triggers /\ x.outputs = s.outputs /\ x.components = s.components /\ x.states = s.states
        /\ x.hooks = s.hooks /\ x.tracing = m
    BY <2>2 DEF IsServing2
  <2>4. mergerTracingConfig(x.tracing, cm) = mergerTracingConfig(s.tracing, cm)
    <3>1. IsTracing(s.tracing) /\ s.tracing # IllFormed
      BY DEF IsServing2
    <3> QED
      BY <1>3, <2>1, <2>3, <3>1, TracingMerged
  <2>5. /\ \A r : Component(x, refs, r) = Component(s, refs, r) /\ Uri(x, r) = Uri(s, r)
        /\ States(x, refs) = States(s, refs)
    BY <2>3, ComponentsAlike
  <2>6. HooksOf(x, cm) = HooksOf(s, cm) /\ Port(x) = Port(s)
    BY <2>3 DEF HooksOf, Port
  <2>7. GenOpenFunctionContextV1beta1(x, notes, refs, cm) = GenOpenFunctionContextV1beta1(s, notes, refs, cm)
    BY <2>3, <2>5, <2>6 DEF GenOpenFunctionContextV1beta1
  <2>8. GenOpenFunctionContextV1beta2(x, refs, cm) = GenOpenFunctionContextV1beta2(s, refs, cm)
    BY <2>3, <2>4, <2>5, <2>6 DEF GenOpenFunctionContextV1beta2
  <2> QED
    BY <1>1, <2>7, <2>8 DEF CreateFunctionContextENV
<1> QED
  BY <1>2, <1>3

\* Both frameworks, and the proxy, are led to the same components.
LEMMA ComponentsAgreed ==
  ASSUME NoneIsNoObject, NEW s, s # None, IsServing2(s), s.triggers # None, ~RunFails(s), NEW notes, NEW cm,
         NEW made, made = Run(s, notes, cm)
  PROVE  ComponentsAgree(made)
<1>1. PICK refs, env : refs = CreateComponents(s) /\ env = CreateFunctionContextENV(s, notes, refs, cm)
  OBVIOUS
<1>2. /\ made.spec = s /\ made.components = refs /\ made.proxy \in {None, env}
      /\ made.workload.template.env = env
  BY <1>1, EnvMade, ContextsAgain
<1>3. PICK dapr, outputs, old, new : /\ dapr = s.triggers.dapr /\ outputs = s.outputs
                                     /\ old = env.v1beta1 /\ new = env.v1beta2
  OBVIOUS
<1>4. IsRefs(dapr) /\ IsRefs(outputs)
  BY <1>3 DEF IsServing2, IsTriggers
<1>5. /\ \A i \in DOMAIN dapr : Alone(InputNames(dapr), i) =>
            LET r == dapr[i]
            IN  /\ old.inputs[InputName(r)].component = Component(s, refs, r).component
                /\ old.inputs[InputName(r)].type = Component(s, refs, r).type
                /\ new.triggers[i].component = Component(s, refs, r).component
                /\ new.triggers[i].type = r.type
      /\ \A i \in DOMAIN outputs : Alone(ComponentNames(outputs), i) /\ Alone(InputNames(outputs), i) =>
            LET r == outputs[i]
            IN  /\ old.outputs[InputName(r)].component = Component(s, refs, r).component
                /\ old.outputs[InputName(r)].type = Component(s, refs, r).type
                /\ new.outputs[r.component].component = Component(s, refs, r).component
                /\ new.outputs[r.component].type = Component(s, refs, r).type
      /\ old.states = States(s, refs) /\ new.states = States(s, refs)
  BY <1>1, <1>3, <1>4, ContextComponents
<1>6. /\ \A i \in DOMAIN dapr : getComponentType(s, dapr[i].component, dapr[i].type) # None
      /\ \A i \in DOMAIN outputs : getComponentType(s, outputs[i].component, outputs[i].type) # None
      /\ \A n \in DOMAIN s.states : getStateType(s, n) # None
  BY <1>3 DEF RunFails, Range
<1>7. ASSUME NEW i \in DOMAIN dapr, Alone(InputNames(dapr), i)
      PROVE  LET r == dapr[i]
             IN  /\ SameTrigger(old.inputs[InputName(r)], new.triggers[i])
                 /\ OfServing(s, r) => Existing(made, old.inputs[InputName(r)])
  <2>1. PICK r, c, d : r = dapr[i] /\ c = old.inputs[InputName(r)] /\ d = new.triggers[i]
    OBVIOUS
  <2>2. /\ c.component = Component(s, refs, r).component /\ c.type = Component(s, refs, r).type
        /\ d.component = Component(s, refs, r).component /\ d.type = r.type
    BY <1>5, <1>7, <2>1
  <2>3. SameTrigger(c, d)
    <3>1. r.type # None => Component(s, refs, r).type = r.type
      BY DEF Component, getComponentType, Given
    <3> QED
      BY <2>2, <3>1 DEF SameTrigger
  <2>4. OfServing(s, r) => Existing(made, c)
    BY <1>1, <1>2, <1>6, <2>1, <2>2, ComponentThere
  <2> QED
    BY <2>1, <2>3, <2>4
<1>8. ASSUME NEW i \in DOMAIN outputs, Alone(ComponentNames(outputs), i), Alone(InputNames(outputs), i)
      PROVE  LET r == outputs[i]
             IN  /\ SameTarget(old.outputs[InputName(r)], new.outputs[r.component])
                 /\ OfServing(s, r) => Existing(made, old.outputs[InputName(r)])
  <2>1. PICK r, c, d : r = outputs[i] /\ c = old.outputs[InputName(r)] /\ d = new.outputs[r.component]
    OBVIOUS
  <2>2. /\ c.component = Component(s, refs, r).component /\ c.type = Component(s, refs, r).type
        /\ d.component = Component(s, refs, r).component /\ d.type = Component(s, refs, r).type
    BY <1>5, <1>8, <2>1
  <2>3. SameTarget(c, d)
    BY <2>2 DEF SameTarget
  <2>4. OfServing(s, r) => Existing(made, c)
    BY <1>1, <1>2, <1>6, <2>1, <2>2, ComponentThere
  <2> QED
    BY <2>1, <2>3, <2>4
<1>9. ASSUME NEW n \in DOMAIN s.states
      PROVE  SameTarget(old.states[n], new.states[n]) /\ Existing(made, old.states[n])
  BY <1>1, <1>2, <1>5, <1>6, StateThere DEF SameTarget
<1> QED
  BY <1>2, <1>3, <1>7, <1>8, <1>9 DEF ComponentsAgree

-----------------------------------------------------------------------------
(* The inductive invariant.                                                *)

\* What is stored is well-formed, valid and filled in.
FunctionInv == fn # None => IsFunction2(fn) /\ IsStatus(fn.status) /\ Validate(fn) /\ Filled(fn)

\* What was written at v1beta1 is what v1beta1 can express.
SpokeInv ==
    fn # None /\ via = "v1beta1" =>
        /\ Expressible(fn)
        /\ fn.serving # None => Annotated(fn.serving, fn.notes)

\* A Serving is that of the function, and keeps its mark.
ServingInv ==
    IsServing =>
        /\ part = [kind |-> part.kind, notes |-> part.notes, spec |-> part.spec, status |-> part.status]
        /\ IsNotes(part.notes) /\ IsPartStatus(part.status)
        /\ part.spec # None /\ IsServing2(part.spec) /\ part.spec.triggers # None
        /\ via = "v1beta1" => Annotated(part.spec, part.notes)
        /\ fn # None /\ part.notes.wasm = fn.notes.wasm

\* A Builder is one of a build section.
BuilderInv ==
    IsBuilder =>
        /\ part = [kind |-> part.kind, state |-> part.state, spec |-> part.spec, status |-> part.status]
        /\ IsPartStatus(part.status)
        /\ part.spec # None /\ IsBuild2(part.spec)

\* What runs was made of a Serving: it is led to the components it should be, and is given
\* the hooks it should have.
PodsInv ==
    pods # None =>
        /\ IsServing /\ (part.notes.wasm # None => pods.workload.template.runtimeClass # None)
        /\ ComponentsAgree(pods)
        /\ via = "v1beta1" /\ Unordered(pods.config) => HooksAgree(pods)

IInv == FunctionInv /\ SpokeInv /\ ServingInv /\ BuilderInv /\ PodsInv

\* Conditions and statuses survive their conversions.
LEMMA ConditionConverted ==
  ASSUME NoneIsNoObject, NEW c, IsCondition(c), NEW d, d = convertCondition(c)
  PROVE  IsCondition(d) /\ Record(d) = Record(c)
<1>1. CASE c = None
  BY <1>1 DEF convertCondition, IsCondition
<1>2. CASE c # None
  <2>1. /\ d = [state |-> d.state, ref |-> d.ref, last |-> d.last, hash |-> d.hash,
                service |-> d.service, message |-> d.message]
        /\ d.state = c.state /\ d.ref = c.ref /\ d.last = c.last /\ d.hash = c.hash
    BY <1>2 DEF convertCondition, IsCondition
  <2>2. d # None
    BY <2>1 DEF NoneIsNoObject
  <2> QED
    BY <1>2, <2>1, <2>2 DEF IsCondition, Record
<1> QED
  BY <1>1, <1>2

LEMMA StatusConverted ==
  ASSUME NoneIsNoObject, NEW t, IsStatus(t), NEW u, u = StatusTo(t)
  PROVE  /\ IsStatus(u)
         /\ Record(u.build) = Record(t.build) /\ Record(u.serving) = Record(t.serving)
<1>1. PICK b, s : b = convertCondition(t.build) /\ s = convertCondition(t.serving)
  OBVIOUS
<1>2. /\ IsCondition(b) /\ Record(b) = Record(t.build)
      /\ IsCondition(s) /\ Record(s) = Record(t.serving)
  BY <1>1, ConditionConverted DEF IsStatus
<1>3. u = [t EXCEPT !.build = b, !.serving = s]
  BY <1>1 DEF StatusTo
<1>4. /\ u.build = b /\ u.serving = s
      /\ u = [build |-> u.build, serving |-> u.serving, sources |-> u.sources,
              revision |-> u.revision, addresses |-> u.addresses, route |-> u.route]
  BY <1>3 DEF IsStatus
<1> QED
  BY <1>2, <1>4 DEF IsStatus

LEMMA StatusThere ==
  ASSUME NoneIsNoObject, NEW t, IsStatus(t), NEW u, u = StatusTo(StatusFrom(t))
  PROVE  /\ IsStatus(u)
         /\ Record(u.build) = Record(t.build) /\ Record(u.serving) = Record(t.serving)
<1>1. PICK c : c = StatusTo(t)
  OBVIOUS
<1>2. PICK f : f = StatusFrom(t)
  OBVIOUS
<1>3. /\ IsStatus(c)
      /\ Record(c.build) = Record(t.build) /\ Record(c.serving) = Record(t.serving)
  BY <1>1, StatusConverted
<1>4. IsStatus(f) /\ f.build = c.build /\ f.serving = c.serving
  <2>1. f = IF t.sources # None THEN c ELSE [c EXCEPT !.revision = None, !.addresses = <<>>, !.route = None]
    BY <1>1, <1>2 DEF StatusFrom
  <2>2. /\ f.build = c.build /\ f.serving = c.serving
        /\ f = [build |-> f.build, serving |-> f.serving, sources |-> f.sources,
                revision |-> f.revision, addresses |-> f.addresses, route |-> f.route]
    BY <1>3, <2>1 DEF IsStatus
  <2> QED
    BY <1>3, <2>2 DEF IsStatus
<1> QED
  BY <1>2, <1>3, <1>4, StatusConverted

\* A status changes nothing that the webhook looks at.
LEMMA StatusChanged ==
  ASSUME NEW h, IsFunction2(h), NEW t, NEW k, k = [h EXCEPT !.status = t]
  PROVE  /\ IsFunction2(k) /\ k.notes = h.notes /\ k.build = h.build /\ k.serving = h.serving /\ k.status = t
         /\ Filled(h) => Filled(k)
         /\ Validate(h) => Validate(k)
<1>1. /\ k.notes = h.notes /\ k.version = h.version /\ k.image = h.image /\ k.credentials = h.credentials
      /\ k.runtime = h.runtime /\ k.build = h.build /\ k.serving = h.serving /\ k.status = t
      /\ k = [notes |-> k.notes, version |-> k.version, image |-> k.image, credentials |-> k.credentials,
              runtime |-> k.runtime, build |-> k.build, serving |-> k.serving, status |-> k.status]
  BY DEF IsFunction2
<1> QED
  BY <1>1 DEF IsFunction2, Filled, FilledWasm, IsWasm, Validate

\* The webhook at v1beta2: an object is stored valid and filled in.
LEMMA PutHubStep ==
  ASSUME NoneIsNoObject, IInv, NEW h, IsFunction2(h), PutHub(h)
  PROVE  IInv'
<1>1. PICK k : k = [h EXCEPT !.status = StatusAt2]
  OBVIOUS
<1>2. IsFunction2(k)
  BY <1>1, StatusChanged
<1>3. fn' = Default(k) /\ Validate(fn')
  BY <1>1 DEF PutHub
<1>4. IsFunction2(fn') /\ Filled(fn') /\ fn'.status = StatusAt2
  BY <1>1, <1>2, <1>3, DefaultFills, StatusChanged
<1>6. IsStatus(StatusAt2)
  BY DEF StatusAt2, NoStatus, IsStatus, IsCondition, IInv, FunctionInv
<1>5. part' = None /\ pods' = None /\ via' = "v1beta2"
  BY DEF PutHub, Unfollowed, IInv, PodsInv, IsServing
<1>7. FunctionInv' /\ SpokeInv'
  BY <1>3, <1>4, <1>5, <1>6 DEF FunctionInv, SpokeInv
<1> QED
  BY <1>5, <1>7 DEF IInv, ServingInv, BuilderInv, PodsInv, IsServing, IsBuilder

\* The webhook behind the conversion of v1beta1.
LEMMA PutSpokeStep ==
  ASSUME NoneIsNoObject, IInv, NEW o, IsFunction1(o), PutSpoke(o)
  PROVE  /\ IInv'
         /\ fn # None => /\ Record(fn'.status.build) = Record(fn.status.build)
                         /\ Record(fn'.status.serving) = Record(fn.status.serving)
<1>1. PICK p \in Admitted(o) :
        \E h \in ConvertTo(p) : ~ConvertFails(p) /\ Validate(h) /\ fn' = [h EXCEPT !.status = StatusAt1]
  BY DEF PutSpoke
<1>2. PICK h \in ConvertTo(p) : ~ConvertFails(p) /\ Validate(h) /\ fn' = [h EXCEPT !.status = StatusAt1]
  BY <1>1
<1>0. ~ConvertFails(o)
  BY DEF PutSpoke
<1>3. IsFunction1(p) /\ IsFunction2(h) /\ Filled(h)
  BY <1>0, <1>2, AdmittedFilled
<1>9. Expressible(h) /\ (h.serving # None => Annotated(h.serving, h.notes))
  BY <1>2, <1>3, ExpressibleTo
<1>4. IsFunction2(fn') /\ Filled(fn') /\ Validate(fn') /\ fn'.status = StatusAt1
  BY <1>2, <1>3, StatusChanged
<1>5. part' = None /\ pods' = None
  BY DEF PutSpoke, Unfollowed, IInv, PodsInv, IsServing
<1>6. PICK t : t = StatusAt2
  OBVIOUS
<1>7. IsStatus(t) /\ (fn # None => t = fn.status)
  BY <1>6 DEF StatusAt2, NoStatus, IsStatus, IsCondition, IInv, FunctionInv
<1>8. /\ IsStatus(StatusAt1)
      /\ Record(StatusAt1.build) = Record(t.build) /\ Record(StatusAt1.serving) = Record(t.serving)
  BY <1>6, <1>7, StatusThere DEF StatusAt1
<1>10. SpokeInv'
  <2>1. fn'.build = h.build /\ fn'.serving = h.serving /\ fn'.notes = h.notes
    BY <1>2, <1>3, StatusChanged
  <2>2. Expressible(fn')
    BY <1>9, <2>1 DEF Expressible
  <2> QED
    BY <1>9, <2>1, <2>2 DEF SpokeInv
<1>11. FunctionInv'
  BY <1>4, <1>8 DEF FunctionInv
<1>12. IInv'
  BY <1>5, <1>10, <1>11 DEF IInv, ServingInv, BuilderInv, PodsInv, IsServing, IsBuilder
<1> QED
  BY <1>4, <1>7, <1>8, <1>12

\* What a v1beta1 client read can be written back as any other.
LEMMA TouchSpokeStep ==
  ASSUME NoneIsNoObject, IInv, TouchSpoke
  PROVE  /\ IInv'
         /\ fn # None => /\ Record(fn'.status.build) = Record(fn.status.build)
                         /\ Record(fn'.status.serving) = Record(fn.status.serving)
<1>1. PICK o : o = ConvertFrom(fn)
  OBVIOUS
<1>2. IsFunction1(o) /\ PutSpoke(o)
  BY <1>1, ConvertedFrom DEF TouchSpoke, IInv, FunctionInv
<1> QED
  BY <1>2, PutSpokeStep

LEMMA EditHooksStep ==
  ASSUME NoneIsNoObject, IInv, NEW hooks, IsHooks(hooks), EditHooks(hooks)
  PROVE  IInv'
<1>1. PICK s : s = [fn.serving EXCEPT !.hooks = hooks]
  OBVIOUS
<1>2. PICK h : h = [fn EXCEPT !.serving.hooks = hooks]
  OBVIOUS
<1>3. IsFunction2(fn) /\ fn.serving # None /\ PutHub(h)
  BY <1>2 DEF EditHooks, IInv, FunctionInv
<1>4. IsServing2(s)
  <2>1. /\ s.triggers = fn.serving.triggers /\ s.template = fn.serving.template
        /\ s.outputs = fn.serving.outputs /\ s.scale = fn.serving.scale /\ s.tracing = fn.serving.tracing
        /\ s.hooks = hooks
        /\ s = [triggers |-> s.triggers, outputs |-> s.outputs, scale |-> s.scale, workload |-> s.workload,
                hooks |-> s.hooks, tracing |-> s.tracing, components |-> s.components, states |-> s.states,
                annotations |-> s.annotations, wasm |-> s.wasm, template |-> s.template, kept |-> s.kept]
    BY <1>1, <1>3 DEF IsFunction2, IsServing2
  <2> QED
    BY <1>3, <2>1 DEF IsFunction2, IsServing2
<1>5. /\ h.notes = fn.notes /\ h.build = fn.build /\ h.serving = s
      /\ h = [notes |-> h.notes, version |-> h.version, image |-> h.image, credentials |-> h.credentials,
              runtime |-> h.runtime, build |-> h.build, serving |-> h.serving, status |-> h.status]
  BY <1>1, <1>2, <1>3 DEF IsFunction2
<1>6. IsFunction2(h)
  BY <1>3, <1>4, <1>5 DEF IsFunction2
<1> QED
  BY <1>3, <1>6, PutHubStep

LEMMA ReportStep ==
  ASSUME IInv, NEW t, IsStatus(t), Report(t)
  PROVE  IInv'
<1>1. /\ fn # None /\ fn' = [fn EXCEPT !.status = t] /\ via' = via
      /\ part' = None /\ pods' = None
  BY DEF Report, Unfollowed, IInv, PodsInv, IsServing
<1>2. /\ IsFunction2(fn') /\ Filled(fn') /\ Validate(fn') /\ fn'.status = t
      /\ fn'.notes = fn.notes /\ fn'.build = fn.build /\ fn'.serving = fn.serving
  BY <1>1, StatusChanged DEF IInv, FunctionInv
<1>3. Expressible(fn) => Expressible(fn')
  BY <1>2 DEF Expressible
<1>4. FunctionInv' /\ SpokeInv'
  BY <1>1, <1>2, <1>3 DEF IInv, FunctionInv, SpokeInv
<1> QED
  BY <1>1, <1>4 DEF IInv, ServingInv, BuilderInv, PodsInv, IsServing, IsBuilder

\* Parts are created with the annotations of the function, and deleted with it.
LEMMA CreateStep ==
  ASSUME NoneIsNoObject, IInv, DeleteFunction \/ CreateServing \/ CreateBuilder
  PROVE  IInv'
<1>0. IsPartStatus(PartStatus)
  BY DEF IsPartStatus, PartStatus
<1>1. CASE DeleteFunction
  BY <1>1 DEF DeleteFunction, IInv, FunctionInv, SpokeInv, ServingInv, BuilderInv, PodsInv, IsServing, IsBuilder
<1>2. CASE CreateServing
  <2>1. /\ part' = [kind |-> "Serving", notes |-> fn.notes, spec |-> fn.serving, status |-> PartStatus]
        /\ fn # None /\ fn.serving # None /\ fn' = fn /\ via' = via /\ pods' = None
    BY <1>2 DEF CreateServing
  <2>2. /\ part'.kind = "Serving" /\ part'.notes = fn.notes /\ part'.spec = fn.serving /\ part'.status = PartStatus
        /\ part' = [kind |-> part'.kind, notes |-> part'.notes, spec |-> part'.spec, status |-> part'.status]
    BY <2>1
  <2>3. IsNotes(fn.notes) /\ IsServing2(fn.serving) /\ fn.serving.triggers # None
    BY <2>1 DEF IInv, FunctionInv, IsFunction2, Filled, FilledTriggers
  <2>4. via = "v1beta1" => Annotated(fn.serving, fn.notes)
    BY <2>1 DEF IInv, SpokeInv
  <2>5. ServingInv'
    BY <1>0, <2>1, <2>2, <2>3, <2>4 DEF ServingInv
  <2>6. FunctionInv' /\ SpokeInv'
    BY <2>1 DEF IInv, FunctionInv, SpokeInv
  <2> QED
    BY <2>1, <2>2, <2>5, <2>6 DEF IInv, BuilderInv, PodsInv, IsBuilder
<1>3. CASE CreateBuilder
  <2>1. /\ part' = [kind |-> "Builder", state |-> "", spec |-> fn.build, status |-> PartStatus]
        /\ fn # None /\ fn.build # None /\ fn' = fn /\ via' = via /\ pods' = None
    BY <1>3 DEF CreateBuilder
  <2>2. /\ part'.kind = "Builder" /\ part'.spec = fn.build /\ part'.status = PartStatus
        /\ part' = [kind |-> part'.kind, state |-> part'.state, spec |-> part'.spec, status |-> part'.status]
    BY <2>1
  <2>3. FunctionInv' /\ SpokeInv' /\ BuilderInv'
    BY <1>0, <2>1, <2>2 DEF IInv, FunctionInv, SpokeInv, BuilderInv, IsFunction2
  <2> QED
    BY <2>1, <2>2, <2>3 DEF IInv, ServingInv, PodsInv, IsServing
<1> QED
  BY <1>1, <1>2, <1>3

\* A Serving is run with the mark it was created with.
LEMMA RunServingStep ==
  ASSUME NoneIsNoObject, IInv, RunServing
  PROVE  IInv'
<1>0. /\ IsServing /\ fn # None /\ IsNotes(part.notes) /\ part.notes.wasm = fn.notes.wasm
      /\ part = [kind |-> part.kind, notes |-> part.notes, spec |-> part.spec, status |-> part.status]
  BY DEF RunServing, IInv, ServingInv
<1>1. PICK t : t = [PartStatus EXCEPT !.phase = "Serving", !.state = "Running", !.service = "svc", !.ref = "workload"]
  OBVIOUS
<1>2. IsPartStatus(t)
  BY <1>1 DEF IsPartStatus, PartStatus
<1>3. fn' = fn /\ via' = via /\ part' = [part EXCEPT !.status = t]
  BY <1>1 DEF RunServing
<1>4. /\ part'.kind = part.kind /\ part'.notes = part.notes /\ part'.spec = part.spec /\ part'.status = t
      /\ part' = [kind |-> part'.kind, notes |-> part'.notes, spec |-> part'.spec, status |-> part'.status]
  BY <1>0, <1>3
<1>5. IsServing' /\ ~IsBuilder'
  BY <1>0, <1>4 DEF IsServing, IsBuilder, NoneIsNoObject
<1>6. PICK cm \in Configs : pods' = Run(part.spec, part.notes, cm)
  BY DEF RunServing
<1>7. part.notes.wasm # None => pods'.workload.template.runtimeClass # None
  BY <1>6, MarkedRuns
<1>8. part.spec # None /\ IsServing2(part.spec) /\ part.spec.triggers # None /\ ~RunFails(part.spec)
  BY <1>0 DEF RunServing, IInv, ServingInv
<1>9. ComponentsAgree(pods')
  BY <1>6, <1>8, ComponentsAgreed
<1>10. via' = "v1beta1" /\ Unordered(pods'.config) => HooksAgree(pods')
  <2> SUFFICES ASSUME via' = "v1beta1", Unordered(pods'.config) PROVE HooksAgree(pods')
    OBVIOUS
  <2>1. Annotated(part.spec, part.notes)
    BY <1>0, <1>3 DEF IInv, ServingInv
  <2>2. Unordered(cm)
    BY <1>6, EnvMade
  <2> QED
    BY <1>6, <1>8, <2>1, <2>2, HooksAgreed
<1>11. FunctionInv' /\ SpokeInv'
  BY <1>3 DEF IInv, FunctionInv, SpokeInv
<1>12. ServingInv'
  BY <1>0, <1>2, <1>3, <1>4, <1>5 DEF IInv, ServingInv
<1>13. PodsInv'
  BY <1>4, <1>5, <1>7, <1>9, <1>10 DEF PodsInv
<1> QED
  BY <1>5, <1>11, <1>12, <1>13 DEF IInv, BuilderInv

\* A Serving that was touched keeps its mark, and what it reported.
LEMMA TouchServingStep ==
  ASSUME NoneIsNoObject, IInv, TouchServing
  PROVE  IInv' /\ PartRecord(part') = PartRecord(part)
<1>0. /\ IsServing /\ fn # None /\ IsNotes(part.notes) /\ IsPartStatus(part.status)
      /\ part.notes.wasm = fn.notes.wasm /\ part.spec # None /\ IsServing2(part.spec)
  BY DEF TouchServing, IInv, ServingInv
<1>1. PICK n : n = NotesFrom(part.notes, part.spec)
  OBVIOUS
<1>2. n.wasm = part.notes.wasm /\ IsNotes(n)
  <2>1. /\ n.wasm = part.notes.wasm /\ n.tracing \in {part.spec.tracing, part.notes.tracing}
        /\ n = [plugins |-> n.plugins, tracing |-> n.tracing, wasm |-> n.wasm]
    BY <1>0, <1>1 DEF NotesFrom, Given, IsNotes
  <2> QED
    BY <1>0, <2>1 DEF IsNotes, IsServing2
<1>3. PICK t : t = [[part.status EXCEPT !.service = "", !.message = ""] EXCEPT !.service = "", !.message = ""]
  OBVIOUS
<1>4. /\ IsPartStatus(t)
      /\ t.phase = part.status.phase /\ t.state = part.status.state /\ t.ref = part.status.ref
      /\ t.output = part.status.output /\ t.sources = part.status.sources
  BY <1>0, <1>3 DEF IsPartStatus
<1>5. PICK o : o = ServingConvertFrom(part)
  OBVIOUS
<1>6. o.notes = n /\ o.spec = convertServingFrom(part.spec)
      /\ o.status = [part.status EXCEPT !.service = "", !.message = ""]
  BY <1>1, <1>5 DEF ServingConvertFrom
<1>7. PICK s : s = ServingConvertTo(o)
  OBVIOUS
<1>8. /\ fn' = fn /\ pods' = pods /\ via' = via /\ ~UnreadableNotes(n)
      /\ part' = [kind |-> "Serving", notes |-> s.notes, spec |-> s.spec, status |-> s.status]
  BY <1>5, <1>6, <1>7 DEF TouchServing
<1>9. PICK r : r = convertServingFrom(part.spec)
  OBVIOUS
<1>10. PICK v : v = KedaOfServing(r)
  OBVIOUS
<1>11. PICK u : u = convertServingTo(v, o.port, None, n)
  OBVIOUS
<1>12. PICK workload : workload = IF v.scale = None \/ v.scale.keda = None THEN ""
                                  ELSE WorkloadOfObject(v.scale.keda.object)
  OBVIOUS
<1>13. PICK x : x = [u EXCEPT !.workload = workload]
  OBVIOUS
<1>14. s.notes = n /\ s.status = t /\ s.spec = x
  BY <1>3, <1>6, <1>7, <1>9, <1>10, <1>11, <1>12, <1>13 DEF ServingConvertTo
<1>15. IsList(v.inputs) /\ IsList(v.outputs) /\ IsTemplate(v.template)
  <2>1. /\ IsList(r.inputs) /\ IsList(r.outputs) /\ IsTemplate(r.template)
        /\ r = [runtime |-> r.runtime, inputs |-> r.inputs, outputs |-> r.outputs, scale |-> r.scale,
                triggers |-> r.triggers, components |-> r.components, states |-> r.states,
                annotations |-> r.annotations, wasm |-> r.wasm, template |-> r.template, kept |-> r.kept]
    BY <1>0, <1>9, ServingRead
  <2>2. PICK scale : v \in {r, [r EXCEPT !.scale = scale]}
    BY <1>10 DEF KedaOfServing
  <2>3. v.inputs = r.inputs /\ v.outputs = r.outputs /\ v.template = r.template
    BY <2>1, <2>2
  <2> QED
    BY <2>1, <2>3
<1>16. IsServing2(u) /\ u # None /\ u.triggers # None
  <2>1. IsRoute(None) /\ IsTracing(n.tracing)
    BY <1>2 DEF IsRoute, IsNotes
  <2> QED
    BY <1>8, <1>11, <1>15, <2>1, ServingMade
<1>17. u.hooks = HooksTo(n.plugins) /\ u.tracing = n.tracing
  BY <1>11, ServingFields
<1>18. /\ x.triggers = u.triggers /\ x.outputs = u.outputs /\ x.scale = u.scale /\ x.hooks = u.hooks
       /\ x.tracing = u.tracing /\ x.template = u.template
       /\ x = [triggers |-> x.triggers, outputs |-> x.outputs, scale |-> x.scale, workload |-> x.workload,
               hooks |-> x.hooks, tracing |-> x.tracing, components |-> x.components, states |-> x.states,
               annotations |-> x.annotations, wasm |-> x.wasm, template |-> x.template, kept |-> x.kept]
  BY <1>13, <1>16 DEF IsServing2
<1>19. IsServing2(x) /\ x # None /\ x.triggers # None
  <2>1. x # None
    BY <1>18 DEF NoneIsNoObject
  <2> QED
    BY <1>16, <1>18, <2>1 DEF IsServing2
<1>20. Annotated(x, n)
  BY <1>8, <1>17, <1>18 DEF Annotated
<1>21. /\ part'.kind = "Serving" /\ part'.notes = n /\ part'.spec = x /\ part'.status = t
       /\ part' = [kind |-> part'.kind, notes |-> part'.notes, spec |-> part'.spec, status |-> part'.status]
  BY <1>8, <1>14
<1>22. IsServing' /\ ~IsBuilder'
  BY <1>21 DEF IsServing, IsBuilder, NoneIsNoObject
<1>23. FunctionInv' /\ SpokeInv'
  BY <1>8 DEF IInv, FunctionInv, SpokeInv
<1>24. ServingInv'
  BY <1>0, <1>2, <1>4, <1>8, <1>19, <1>20, <1>21 DEF ServingInv
<1>25. PodsInv'
  BY <1>2, <1>8, <1>21, <1>22 DEF IInv, PodsInv
<1>26. BuilderInv'
  BY <1>22 DEF BuilderInv
<1>27. PartRecord(part') = PartRecord(part)
  BY <1>4, <1>21 DEF PartRecord
<1> QED
  BY <1>23, <1>24, <1>25, <1>26, <1>27 DEF IInv

\* What a Builder is while its end is reported, or it is cancelled.
LEMMA BuilderStep ==
  ASSUME NoneIsNoObject, IInv, FinishBuilder \/ CancelBuilder
  PROVE  IInv'
<1>0. /\ IsBuilder /\ part.spec # None /\ IsBuild2(part.spec) /\ IsPartStatus(part.status)
      /\ part = [kind |-> part.kind, state |-> part.state, spec |-> part.spec, status |-> part.status]
  BY DEF FinishBuilder, CancelBuilder, IInv, BuilderInv
<1>1. fn' = fn /\ via' = via /\ pods' = pods /\ pods = None
  BY <1>0 DEF FinishBuilder, CancelBuilder, IInv, PodsInv, IsServing, IsBuilder
<1>2. /\ part'.kind = part.kind /\ part'.spec = part.spec /\ IsPartStatus(part'.status)
      /\ part' = [kind |-> part'.kind, state |-> part'.state, spec |-> part'.spec, status |-> part'.status]
  <2>1. CASE FinishBuilder
    <3>1. PICK t : t = [PartStatus EXCEPT !.phase = "Build", !.state = "Succeeded", !.message = "done",
                                          !.ref = "buildrun", !.output = "digest", !.sources = "commit"]
      OBVIOUS
    <3>2. IsPartStatus(t)
      BY <3>1 DEF IsPartStatus, PartStatus
    <3>3. part' = [part EXCEPT !.status = t]
      BY <2>1, <3>1 DEF FinishBuilder
    <3> QED
      BY <1>0, <3>2, <3>3
  <2>2. CASE CancelBuilder
    BY <1>0, <2>2 DEF CancelBuilder
  <2> QED
    BY <2>1, <2>2
<1>3. IsBuilder' /\ ~IsServing'
  BY <1>0, <1>2 DEF IsServing, IsBuilder, NoneIsNoObject
<1> QED
  BY <1>0, <1>1, <1>2, <1>3 DEF IInv, FunctionInv, SpokeInv, ServingInv, BuilderInv, PodsInv

\* A Builder that was touched builds the same, and keeps what it reported.
LEMMA TouchBuilderStep ==
  ASSUME NoneIsNoObject, IInv, TouchBuilder
  PROVE  /\ IInv' /\ PartRecord(part') = PartRecord(part) /\ part'.state = part.state
         /\ BuildMeaning(part'.spec) = BuildMeaning(part.spec)
<1> DEFINE spec == part.spec
<1>0. /\ IsBuilder /\ spec # None /\ IsBuild2(spec) /\ IsPartStatus(part.status)
  BY DEF TouchBuilder, IInv, BuilderInv
<1>1. fn' = fn /\ via' = via /\ pods' = pods /\ pods = None
  BY <1>0 DEF TouchBuilder, IInv, PodsInv, IsServing, IsBuilder
<1>2. PICK o : o = BuilderConvertFrom(part)
  OBVIOUS
<1>3. PICK b \in BuilderConvertTo(o) :
        part' = [kind |-> "Builder", state |-> b.state, spec |-> b.spec, status |-> b.status]
  BY <1>2 DEF TouchBuilder
<1>4. PICK e : e = IF spec.shipwright = None THEN None
                   ELSE [strategy |-> spec.shipwright.strategy, timeout |-> spec.shipwright.timeout]
  OBVIOUS
<1>5. PICK m : m = ParamsFrom(spec.shipwright)
  OBVIOUS
<1>6. /\ o.state = part.state /\ o.status = [part.status EXCEPT !.message = ""]
      /\ o.spec.source = spec.source /\ o.spec.tool = spec.tool /\ o.spec.timeout = spec.timeout
      /\ o.spec.kept = spec.kept /\ o.spec.params = m /\ o.spec.shipwright = e
  BY <1>2, <1>4, <1>5 DEF BuilderConvertFrom
<1>7. PICK l \in ParamLists(m) :
        b = [state |-> o.state,
             spec |-> [source |-> o.spec.source, tool |-> o.spec.tool, limits |-> {},
                       timeout |-> o.spec.timeout, kept |-> o.spec.kept,
                       shipwright |-> IF o.spec.shipwright = None THEN None
                                      ELSE [strategy |-> o.spec.shipwright.strategy,
                                            timeout |-> o.spec.shipwright.timeout, params |-> l]],
             status |-> [o.status EXCEPT !.message = ""]]
  BY <1>6 DEF BuilderConvertTo
<1>8. IsParamMap(m)
  BY <1>0, <1>5, MapMade, NoneListed DEF ParamsFrom, IsBuild2, IsEngine
<1>9. IsParamList(l) /\ ParamMap(l) = m
  BY <1>8, ParamsBack
<1>10. PICK t : t = [[part.status EXCEPT !.message = ""] EXCEPT !.message = ""]
  OBVIOUS
<1>11. /\ IsPartStatus(t)
       /\ t.phase = part.status.phase /\ t.state = part.status.state /\ t.ref = part.status.ref
       /\ t.output = part.status.output /\ t.sources = part.status.sources
  BY <1>0, <1>10 DEF IsPartStatus
<1>12. PICK f : f = IF e = None THEN None ELSE [strategy |-> e.strategy, timeout |-> e.timeout, params |-> l]
  OBVIOUS
<1>13. /\ IsEngine(f) /\ (f = None <=> spec.shipwright = None)
       /\ f # None => /\ f.strategy = spec.shipwright.strategy /\ f.timeout = spec.shipwright.timeout
                      /\ f.params = l
  BY <1>4, <1>9, <1>12 DEF IsEngine, NoneIsNoObject
<1>14. PICK x : x = [source |-> spec.source, tool |-> spec.tool, limits |-> {}, timeout |-> spec.timeout,
                     kept |-> spec.kept, shipwright |-> f]
  OBVIOUS
<1>15. /\ x # None /\ IsBuild2(x)
       /\ x.source = spec.source /\ x.tool = spec.tool /\ x.kept = spec.kept /\ x.shipwright = f
  BY <1>0, <1>13, <1>14 DEF IsBuild2, NoneIsNoObject
<1>16. b = [state |-> part.state, spec |-> x, status |-> t]
  BY <1>6, <1>7, <1>10, <1>12, <1>14
<1>17. /\ part'.kind = "Builder" /\ part'.state = part.state /\ part'.spec = x /\ part'.status = t
       /\ part' = [kind |-> part'.kind, state |-> part'.state, spec |-> part'.spec, status |-> part'.status]
  BY <1>3, <1>16
<1>18. IsBuilder' /\ ~IsServing'
  BY <1>17 DEF IsServing, IsBuilder, NoneIsNoObject
<1>19. IInv'
  BY <1>1, <1>11, <1>15, <1>17, <1>18 DEF IInv, FunctionInv, SpokeInv, ServingInv, BuilderInv, PodsInv
<1>20. ParamsFrom(f) = m
  BY <1>5, <1>9, <1>13 DEF ParamsFrom
<1>21. BuildMeaning(x) = BuildMeaning(spec)
  BY <1>0, <1>5, <1>13, <1>15, <1>20 DEF BuildMeaning
<1> QED
  BY <1>11, <1>17, <1>19, <1>21 DEF PartRecord

LEMMA NextInv ==
  ASSUME NoneIsNoObject, IInv, [APINext]_apiVars
  PROVE  IInv'
<1>1. ASSUME NEW o \in Functions1, PutSpoke(o) PROVE IInv'
  BY <1>1, PutSpokeStep, FunctionsAssumption
<1>2. ASSUME NEW h \in Functions2, PutHub(h) PROVE IInv'
  BY <1>2, PutHubStep, FunctionsAssumption
<1>3. CASE UNCHANGED apiVars
  BY <1>3 DEF apiVars, IInv, FunctionInv, SpokeInv, ServingInv, BuilderInv, PodsInv, IsServing, IsBuilder
<1>5. ASSUME NEW hooks \in HookEdits, EditHooks(hooks) PROVE IInv'
  BY <1>5, EditHooksStep, FunctionsAssumption
<1>4. ASSUME NEW t \in Statuses, Report(t) PROVE IInv'
  BY <1>4, ReportStep, FunctionsAssumption
<1> QED
  BY <1>1, <1>2, <1>3, <1>4, <1>5, TouchSpokeStep, CreateStep, RunServingStep, TouchServingStep,
     BuilderStep, TouchBuilderStep DEF APINext

\* What is stored, and the mark of a Serving, are right in every state.
THEOREM InvHolds ==
  ASSUME NoneIsNoObject
  PROVE  APISpec => []IInv
<1>1. APIInit => IInv
  BY DEF APIInit, IInv, FunctionInv, SpokeInv, ServingInv, BuilderInv, PodsInv, IsServing, IsBuilder
<1>2. IInv /\ [APINext]_apiVars => IInv'
  BY NextInv
<1> QED
  BY <1>1, <1>2, PTL DEF APISpec

\* Whatever version functions are written in, the controllers (pkg/core, controllers/core)
\* read one that the webhook of function_webhook.go admits and has nothing to fill in: its
\* triggers, port, route, gateway and build strategy are there.  What is marked as
\* WebAssembly runs under a runtime class.
THEOREM DefaultedHolds ==
  ASSUME NoneIsNoObject
  PROVE  APISpec => []Defaulted
<1>1. IInv => Defaulted
  <2> SUFFICES ASSUME IInv PROVE Defaulted
    OBVIOUS
  <2>1. fn # None => Validate(fn) /\ Default(fn) = fn
    BY FilledStays DEF IInv, FunctionInv
  <2>3. fn # None /\ fn.serving # None => Reachable(fn.serving.triggers)
    BY DEF IInv, FunctionInv, Filled, FilledTriggers, FilledHttp, Reachable
  <2>4. fn # None /\ IsWasm(fn) /\ fn.build # None => fn.build.shipwright # None /\ fn.build.shipwright.strategy # None
    BY DEF IInv, FunctionInv, Filled, FilledWasm
  <2>2. ASSUME pods # None, IsWasm(fn) PROVE pods.workload.template.runtimeClass # None
    BY <2>2 DEF IInv, FunctionInv, ServingInv, BuilderInv, PodsInv, Filled, FilledWasm
  <2> QED
    BY <2>1, <2>2, <2>3, <2>4 DEF Defaulted
<1> QED
  BY <1>1, InvHolds, PTL

\* What the controllers steer by survives every write at v1beta1 (the Convert functions of
\* function_conversion.go, builder_conversion.go and serving_conversion.go): the records in
\* the status of a function, and state, resources, digest and meaning of its parts.
THEOREM RecordsSurviveHolds ==
  ASSUME NoneIsNoObject
  PROVE  APISpec => RecordsSurvive
<1> DEFINE Kept ==
      /\ Record(fn'.status.build) = Record(fn.status.build)
      /\ Record(fn'.status.serving) = Record(fn.status.serving)
<1>1. ASSUME IInv, [APINext]_apiVars, via' = "v1beta1", fn # None, fn' # None, ~(\E t \in Statuses : Report(t))
      PROVE  Kept
  <2>1. ASSUME NEW o \in Functions1, PutSpoke(o) PROVE Kept
    BY <1>1, <2>1, PutSpokeStep, FunctionsAssumption
  <2>2. CASE TouchSpoke
    BY <1>1, <2>2, TouchSpokeStep
  <2>3. \A h : ~PutHub(h)
    BY <1>1 DEF PutHub
  <2>4. \A hooks : ~EditHooks(hooks)
    BY <2>3 DEF EditHooks
  <2>5. ~DeleteFunction
    BY <1>1 DEF DeleteFunction
  <2>6. CASE UNCHANGED fn
    BY <2>6
  <2>7. CreateServing \/ RunServing \/ TouchServing \/ UNCHANGED apiVars => UNCHANGED fn
    BY DEF CreateServing, RunServing, TouchServing, apiVars
  <2>8. CreateBuilder \/ FinishBuilder \/ CancelBuilder \/ TouchBuilder => UNCHANGED fn
    BY DEF CreateBuilder, FinishBuilder, CancelBuilder, TouchBuilder
  <2> QED
    BY <1>1, <2>1, <2>2, <2>3, <2>4, <2>5, <2>6, <2>7, <2>8 DEF APINext
<1> HIDE DEF Kept
<1> DEFINE Survive ==
      /\ via' = "v1beta1" /\ fn # None /\ fn' # None /\ ~(\E t \in Statuses : Report(t)) =>
             /\ Record(fn'.status.build) = Record(fn.status.build)
             /\ Record(fn'.status.serving) = Record(fn.status.serving)
      /\ TouchServing => PartRecord(part') = PartRecord(part)
      /\ TouchBuilder => /\ PartRecord(part') = PartRecord(part)
                         /\ part'.state = part.state
                         /\ ExpressibleBuild(part.spec) =>
                                BuildMeaning(part'.spec) = BuildMeaning(part.spec)
<1>2. IInv /\ [APINext]_apiVars => Survive
  BY <1>1, TouchServingStep, TouchBuilderStep DEF Kept
<1> HIDE DEF Survive
<1>3. APISpec => [][Survive]_apiVars
  BY <1>2, InvHolds, PTL DEF APISpec
<1> QED
  BY <1>3 DEF RecordsSurvive, Survive

-----------------------------------------------------------------------------
(* What was read at v1beta1 can be written back.                           *)

\* The parts of what a v1beta1 function becomes.
LEMMA PartsTo ==
  ASSUME NEW o, NEW g \in ConvertTo(o)
  PROVE  /\ g.image = o.image /\ g.credentials = o.credentials
         /\ IF o.build = None THEN g.build = None ELSE g.build \in convertBuildTo(o.build)
         /\ g.serving = IF o.serving = None THEN None
                        ELSE convertServingTo(o.serving, o.port, o.route, o.notes)
<1>1. PICK b \in IF o.build = None THEN {None} ELSE convertBuildTo(o.build) :
         g = [notes |-> o.notes, version |-> o.version, image |-> o.image,
              credentials |-> o.credentials, runtime |-> o.runtime, build |-> b,
              serving |-> IF o.serving = None THEN None
                          ELSE convertServingTo(o.serving, o.port, o.route, o.notes),
              status |-> StatusTo(o.status)]
  BY DEF ConvertTo
<1> QED
  BY <1>1

\* A build section that is converted there and back panics nowhere and is as valid as it was.
LEMMA BuildRead ==
  ASSUME NoneIsNoObject, NEW b, b # None, IsBuild2(b), ~NamelessBundle(b.source),
         NEW o, o = convertBuildFrom(b)
  PROVE  ~BuildPanics(o)
<1>1. PICK x : x = convertBundle(b.source)
  OBVIOUS
<1>2. /\ o.source = x /\ o.params = ParamsFrom(b.shipwright)
      /\ o.shipwright = IF b.shipwright = None THEN None
                        ELSE [strategy |-> b.shipwright.strategy, timeout |-> b.shipwright.timeout]
  BY <1>1 DEF convertBuildFrom
<1>3. /\ x = None <=> b.source = None
      /\ x # None => /\ x.credentials = b.source.credentials
                     /\ x.bundle = IF b.source.bundle = None THEN None ELSE b.source.credentials
  BY <1>1, BundleConverted DEF IsBuild2
<1>4. ~NamelessBundle(x)
  BY <1>3 DEF NamelessBundle
<1>5. o.shipwright = None => b.shipwright = None
  BY <1>2 DEF NoneIsNoObject
<1> QED
  BY <1>2, <1>4, <1>5 DEF BuildPanics, ParamsFrom

LEMMA BuildBack ==
  ASSUME NoneIsNoObject, NEW b, b # None, IsBuild2(b), ~NamelessBundle(b.source), ValidateBuild(b),
         NEW o, o = convertBuildFrom(b), NEW g \in convertBuildTo(o)
  PROVE  g # None /\ ValidateBuild(g)
<1>1. PICK x : x = convertBundle(b.source)
  OBVIOUS
<1>2. PICK y : y = convertBundle(x)
  OBVIOUS
<1>3. PICK e : e = IF b.shipwright = None THEN None
                   ELSE [strategy |-> b.shipwright.strategy, timeout |-> b.shipwright.timeout]
  OBVIOUS
<1>4. /\ o.source = x /\ o.tool = b.tool /\ o.limits = b.limits /\ o.kept = b.kept
      /\ o.shipwright = e /\ o.params = ParamsFrom(b.shipwright)
  BY <1>1, <1>3 DEF convertBuildFrom
<1>5. e = None <=> b.shipwright = None
  BY <1>3 DEF NoneIsNoObject
<1>6. /\ IsSource(x) /\ (x = None <=> b.source = None)
      /\ x # None => /\ x.url = b.source.url /\ x.credentials = b.source.credentials
                     /\ x.bundle = IF b.source.bundle = None THEN None ELSE b.source.credentials
  BY <1>1, BundleConverted DEF IsBuild2
<1>7. /\ IsSource(y) /\ (y = None <=> x = None)
      /\ y # None => y.url = x.url /\ y.bundle = IF x.bundle = None THEN None ELSE x.credentials
  BY <1>2, <1>6, BundleConverted
<1>9. PICK l \in ParamLists(o.params) :
        g = [source |-> y, tool |-> o.tool, limits |-> o.limits, timeout |-> None, kept |-> o.kept,
             shipwright |-> IF e = None THEN None
                            ELSE [strategy |-> e.strategy, timeout |-> e.timeout, params |-> l]]
  BY <1>2, <1>4 DEF convertBuildTo
<1>10. PICK f : f = IF e = None THEN None ELSE [strategy |-> e.strategy, timeout |-> e.timeout, params |-> l]
  OBVIOUS
<1>11. f # None => b.shipwright # None /\ f.strategy = b.shipwright.strategy /\ f.timeout = b.shipwright.timeout
  BY <1>3, <1>5, <1>10
<1>12. /\ g.source = y /\ g.tool = b.tool /\ g.limits = b.limits /\ g.timeout = None /\ g.shipwright = f
       /\ g # None
  BY <1>4, <1>9, <1>10 DEF NoneIsNoObject
<1>13. ValidateBuild(g)
  BY <1>6, <1>7, <1>11, <1>12 DEF ValidateBuild, NonNegative, NamelessBundle
<1> QED
  BY <1>12, <1>13

\* The scaling of a serving section that scales no jobs is as valid as it was.
LEMMA ScaleBack ==
  ASSUME NoneIsNoObject, NEW s, s.scale # None => ValidScale(s.scale), ~JobWithoutObject(s),
         NEW o, o.scale = ScaleFrom(s), NEW c, c = ScaleTo(o)
  PROVE  /\ ~JobWithoutObject(o)
         /\ c # None => ValidScale(c)
<1>1. CASE s.scale = None
  BY <1>1 DEF ScaleFrom, ScaleTo, JobWithoutObject
<1>2. CASE s.scale # None
  <2> DEFINE k == s.scale.keda
  <2>1. PICK j : j = IF k = None THEN None
                     ELSE [object |-> IF k.object = None THEN None
                                      ELSE [workload |-> s.workload, min |-> s.scale.min,
                                            max |-> s.scale.max, polling |-> k.object.polling,
                                            cooldown |-> k.object.cooldown,
                                            advanced |-> k.object.advanced],
                           job |-> IF k.job = None THEN None
                                   ELSE [max |-> s.scale.max, polling |-> k.job.polling,
                                         strategy |-> k.job.strategy, limits |-> k.job.limits,
                                         restart |-> k.job.restart]]
    OBVIOUS
  <2>2. o.scale = [min |-> s.scale.min, max |-> s.scale.max, keda |-> j]
    BY <1>2, <2>1 DEF ScaleFrom
  <2>3. o.scale # None /\ o.scale.min = s.scale.min /\ o.scale.max = s.scale.max /\ o.scale.keda = j
    BY <2>2 DEF NoneIsNoObject
  <2>4. k # None => k.job = None
    BY <1>2 DEF JobWithoutObject, ValidScale
  <2>5. CASE k = None
    <3>1. j = None
      BY <2>1, <2>5
    <3>2. c = [max |-> Given(None, Given(None, s.scale.max)), min |-> Given(None, s.scale.min), keda |-> None]
      BY <2>3, <3>1 DEF ScaleTo
    <3>3. c.min = s.scale.min /\ c.max = s.scale.max /\ c.keda = None
      BY <3>2 DEF Given
    <3> QED
      BY <1>2, <2>3, <3>1, <3>3 DEF ValidScale, JobWithoutObject
  <2>6. CASE k # None
    <3>1. PICK x : x = IF k.object = None THEN None
                       ELSE [workload |-> s.workload, min |-> s.scale.min, max |-> s.scale.max,
                             polling |-> k.object.polling, cooldown |-> k.object.cooldown,
                             advanced |-> k.object.advanced]
      OBVIOUS
    <3>2. j = [object |-> x, job |-> None]
      BY <2>1, <2>4, <2>6, <3>1
    <3>3. j # None /\ j.object = x /\ j.job = None
      BY <3>2 DEF NoneIsNoObject
    <3>4. PICK y : y = IF x = None THEN None
                       ELSE [polling |-> x.polling, cooldown |-> x.cooldown, advanced |-> x.advanced,
                             fallback |-> None]
      OBVIOUS
    <3>5. y # None => /\ k.object # None /\ y.polling = k.object.polling /\ y.cooldown = k.object.cooldown
                      /\ y.advanced = k.object.advanced /\ y.fallback = None
      BY <3>1, <3>4
    <3>6. x # None => x.min = s.scale.min /\ x.max = s.scale.max
      BY <3>1
    <3>7. c = [max |-> Given(None, Given(IF x = None THEN None ELSE x.max, s.scale.max)),
               min |-> Given(IF x = None THEN None ELSE x.min, s.scale.min),
               keda |-> [http |-> None, triggers |-> o.triggers, object |-> y, job |-> None]]
      BY <2>3, <3>3, <3>4 DEF ScaleTo
    <3>8. /\ c.min = s.scale.min /\ c.max = s.scale.max
          /\ c.keda.http = None /\ c.keda.object = y /\ c.keda.job = None
      BY <3>6, <3>7 DEF Given
    <3>9. ValidObject(y)
      BY <1>2, <2>6, <3>5 DEF ValidScale, ValidObject
    <3>10. ValidScale(c)
      BY <1>2, <3>8, <3>9 DEF ValidScale, ValidJob
    <3> QED
      BY <2>3, <3>3, <3>10 DEF JobWithoutObject
  <2> QED
    BY <2>5, <2>6
<1> QED
  BY <1>1, <1>2

\* A job without a scaled object is one on the way back, too.
LEMMA JobBack ==
  ASSUME NoneIsNoObject, NEW s, JobWithoutObject(s), NEW o, o.scale = ScaleFrom(s)
  PROVE  JobWithoutObject(o)
<1> DEFINE k == s.scale.keda
<1>1. PICK j : j = [object |-> None,
                    job |-> [max |-> s.scale.max, polling |-> k.job.polling, strategy |-> k.job.strategy,
                             limits |-> k.job.limits, restart |-> k.job.restart]]
  OBVIOUS
<1>2. o.scale = [min |-> s.scale.min, max |-> s.scale.max, keda |-> j]
  BY <1>1 DEF ScaleFrom, JobWithoutObject
<1>3. o.scale # None /\ o.scale.keda = j
  BY <1>2 DEF NoneIsNoObject
<1>4. j # None /\ j.object = None /\ j.job # None
  BY <1>1 DEF NoneIsNoObject
<1> QED
  BY <1>3, <1>4 DEF JobWithoutObject

\* A client that can read a function at v1beta1 can write it back: the conversions of
\* function_conversion.go do not fail, and the webhook accepts what comes of them, unless
\* the function scales jobs or keeps an annotation that is not YAML.
THEOREM WritableBackHolds ==
  ASSUME NoneIsNoObject
  PROVE  APISpec => []WritableBack
<1>1. IInv => WritableBack
  <2> SUFFICES ASSUME IInv, fn # None, ~ConvertFromFails(fn) PROVE WritableBack
    BY DEF WritableBack
  <2>1. PICK o : o = ConvertFrom(fn)
    OBVIOUS
  <2>2. IsFunction2(fn) /\ Validate(fn)
    BY DEF IInv, FunctionInv
  <2>3. fn.serving = None => o.serving = None
    BY <2>1 DEF ConvertFrom
  <2>4. fn.serving # None => /\ o.serving = convertServingFrom(fn.serving)
                             /\ o.serving.scale = ScaleFrom(fn.serving) /\ o.serving # None
    <3> SUFFICES ASSUME fn.serving # None
                 PROVE  /\ o.serving = convertServingFrom(fn.serving)
                        /\ o.serving.scale = ScaleFrom(fn.serving) /\ o.serving # None
      OBVIOUS
    <3>1. o.serving = convertServingFrom(fn.serving)
      BY <2>1 DEF ConvertFrom
    <3> QED
      BY <3>1 DEF convertServingFrom, NoneIsNoObject
  <2>5. fn.build # None => o.build = convertBuildFrom(fn.build)
    BY <2>1 DEF ConvertFrom
  <2>6. fn.build = None => o.build = None
    BY <2>1 DEF ConvertFrom
  <2>7. o.image = fn.image /\ o.credentials = fn.credentials
    BY <2>1 DEF ConvertFrom
  <2> DEFINE Lost == fn.serving # None /\ (UnreadableNotes(o.notes) \/ JobWithoutObject(fn.serving))
  <2>8. ASSUME Lost PROVE ConvertFails(o)
    BY <2>4, <2>8, JobBack DEF ConvertFails
  <2>9. ASSUME ~Lost PROVE ~ConvertFails(o) /\ \A g \in ConvertTo(o) : Validate(g)
    <3>1. o.build # None => ~BuildPanics(o.build)
      <4> SUFFICES ASSUME o.build # None PROVE ~BuildPanics(o.build)
        OBVIOUS
      <4>1. fn.build # None /\ IsBuild2(fn.build) /\ ~NamelessBundle(fn.build.source)
        BY <2>2, <2>6 DEF IsFunction2, ConvertFromFails
      <4> QED
        BY <2>5, <4>1, BuildRead
    <3>2. fn.serving # None => ~JobWithoutObject(o.serving)
      BY <2>2, <2>4, <2>9, ScaleBack DEF Validate, ValidateServing
    <3>3. ~ConvertFails(o)
      BY <2>3, <2>9, <3>1, <3>2 DEF ConvertFails
    <3>4. ASSUME NEW g \in ConvertTo(o) PROVE Validate(g)
      <4>1. /\ g.image = fn.image /\ g.credentials = fn.credentials
            /\ IF fn.build = None THEN g.build = None ELSE g.build \in convertBuildTo(o.build)
            /\ g.serving = IF fn.serving = None THEN None
                           ELSE convertServingTo(o.serving, o.port, o.route, o.notes)
        <5>1. fn.build # None => o.build # None
          BY <2>5 DEF convertBuildFrom, NoneIsNoObject
        <5> QED
          BY <2>3, <2>4, <2>6, <2>7, <5>1, PartsTo
      <4>2. fn.build # None => g.build # None /\ ValidateBuild(g.build)
        <5> SUFFICES ASSUME fn.build # None PROVE g.build # None /\ ValidateBuild(g.build)
          OBVIOUS
        <5>1. IsBuild2(fn.build) /\ ~NamelessBundle(fn.build.source) /\ ValidateBuild(fn.build)
          BY <2>2 DEF IsFunction2, ConvertFromFails, Validate
        <5> QED
          BY <2>5, <4>1, <5>1, BuildBack
      <4>3. fn.serving # None => g.serving # None /\ ValidateServing(g.serving)
        <5> SUFFICES ASSUME fn.serving # None PROVE g.serving # None /\ ValidateServing(g.serving)
          OBVIOUS
        <5>1. PICK s : s = g.serving
          OBVIOUS
        <5>2. s = convertServingTo(o.serving, o.port, o.route, o.notes)
          BY <4>1, <5>1
        <5>3. /\ s # None /\ s.scale = ScaleTo(o.serving)
              /\ s.triggers = TriggersTo(o.serving, o.port, o.route)
          BY <5>2 DEF convertServingTo, NoneIsNoObject
        <5>4. s.scale # None => ValidScale(s.scale)
          BY <2>2, <2>4, <2>9, <5>3, ScaleBack DEF Validate, ValidateServing
        <5>5. s.triggers.http # None => s.triggers.http.engine = None
          <6>1. PICK t : t = TriggersTo(o.serving, o.port, o.route)
            OBVIOUS
          <6>2. t.http = IF o.serving.runtime = "knative"
                         THEN [port |-> o.port, route |-> o.route, engine |-> None] ELSE None
            BY <6>1 DEF TriggersTo, NoTriggers
          <6> QED
            BY <5>3, <6>1, <6>2
        <5> QED
          BY <5>1, <5>3, <5>4, <5>5 DEF ValidateServing
      <4>4. fn.image # "" /\ (fn.build # None => fn.credentials # "") /\ (fn.build # None \/ fn.serving # None)
        BY <2>2 DEF Validate
      <4> QED
        BY <4>1, <4>2, <4>3, <4>4 DEF Validate
    <3> QED
      BY <3>3, <3>4
  <2> QED
    BY <2>1, <2>8, <2>9 DEF WritableBack
<1> QED
  BY <1>1, InvHolds, PTL

-----------------------------------------------------------------------------
(* What v1beta1 says is settled, and what runs was told the same twice.    *)

\* What v1beta1 cannot express is lost when it is written (ConvertTo of
\* function_conversion.go), never later: a function last written there means the same after
\* it was read and written there again.
THEOREM SettledInSpokeHolds ==
  ASSUME NoneIsNoObject
  PROVE  APISpec => []SettledInSpoke
<1>1. IInv => SettledInSpoke
  <2> SUFFICES ASSUME IInv, fn # None, via = "v1beta1", NEW g \in ConvertTo(ConvertFrom(fn))
               PROVE  SameMeaning(g, fn)
    BY DEF SettledInSpoke
  <2>1. IsFunction2(fn) /\ Filled(fn) /\ Validate(fn) /\ Expressible(fn)
    BY DEF IInv, FunctionInv, SpokeInv
  <2> QED
    BY <2>1, MeaningKept
<1> QED
  BY <1>1, InvHolds, PTL

\* The contexts that GenOpenFunctionContextV1beta1 and GenOpenFunctionContextV1beta2 of
\* pkg/core/serving/common generate of one Serving lead the frameworks of both versions, and
\* the proxy, to the same components, those that CreateComponents made or that others did.
THEOREM SameComponentsHolds ==
  ASSUME NoneIsNoObject
  PROVE  APISpec => []SameComponents
<1>1. IInv => SameComponents
  BY DEF IInv, PodsInv, SameComponents
<1> QED
  BY <1>1, InvHolds, PTL

\* A function written at v1beta1 has the same hooks in the same order under a framework of
\* either version, whether they came by the annotations (parsePluginsCfg) or by the
\* conversion and the specification (GenOpenFunctionContextV1beta2), for a configuration without an order.
THEOREM SameHooksHolds ==
  ASSUME NoneIsNoObject
  PROVE  APISpec => []SameHooks
<1>1. IInv => SameHooks
  BY DEF IInv, PodsInv, SameHooks
<1> QED
  BY <1>1, InvHolds, PTL

-----------------------------------------------------------------------------
(* Reading and writing back rolls nothing out.                             *)

\* A list of one parameter, or none, is the only one its map may become.
LEMMA OneListed ==
  ASSUME NEW l, IsParamList(l), Len(l) <= 1, \A i \in DOMAIN l : l[i].value # None,
         NEW k \in ParamLists(ParamMap(l))
  PROVE  k = l
<1> DEFINE LastOf(n) == CHOOSE i \in Valued(l) : l[i].name = n /\ IsLast(l, i)
<1>1. PICK m : m = ParamMap(l)
  OBVIOUS
<1>2. PICK f \in SetToSeqs(DOMAIN m) : k = [i \in DOMAIN f |-> [name |-> f[i], value |-> m[f[i]]]]
  BY <1>1 DEF ParamLists
<1>3. Valued(l) = DOMAIN l
  BY DEF Valued
<1>4. m = [n \in {l[i].name : i \in DOMAIN l} |-> l[LastOf(n)].value]
  BY <1>1, <1>3 DEF ParamMap
<1>5. /\ f \in [1..Cardinality(DOMAIN m) -> DOMAIN m]
      /\ \A i \in DOMAIN f : f[i] \in DOMAIN m
  BY <1>1, MapMade, SeqsOfSet DEF IsParamMap
<1>6. CASE Len(l) = 0
  <2>1. l = <<>> /\ DOMAIN l = {}
    BY <1>6 DEF IsParamList, IsList
  <2> HIDE DEF LastOf
  <2>2. DOMAIN m = {}
    BY <1>4, <2>1
  <2>3. DOMAIN f = {}
    BY <1>5, <2>2
  <2>4. k = <<>>
    BY <1>2, <2>3
  <2> QED
    BY <2>1, <2>4
<1>7. CASE Len(l) = 1
  <2>1. l = [i \in 1..1 |-> l[i]] /\ DOMAIN l = 1..1 /\ 1 \in DOMAIN l /\ 1..1 = {1}
    BY <1>7 DEF IsParamList, IsList
  <2>2. LastOf(l[1].name) = 1
    <3>1. \E j \in Valued(l) : l[j].name = l[1].name /\ IsLast(l, j)
      BY <1>3, <2>1, LastThere
    <3>2. LastOf(l[1].name) \in Valued(l)
      BY <3>1
    <3> QED
      BY <1>3, <2>1, <3>2
  <2> HIDE DEF LastOf
  <2>3. DOMAIN m = {l[1].name} /\ m[l[1].name] = l[1].value
    BY <1>4, <2>1, <2>2
  <2>4. f \in [1..1 -> {l[1].name}]
    BY <1>5, <2>3, FS_Singleton
  <2>5. DOMAIN f = 1..1 /\ f[1] = l[1].name
    BY <2>1, <2>4
  <2>6. k = [i \in 1..1 |-> [name |-> f[i], value |-> m[f[i]]]]
    BY <1>2, <2>5
  <2>7. l[1] = [name |-> l[1].name, value |-> l[1].value]
    BY <2>1 DEF IsParamList
  <2>8. \A i \in 1..1 : [name |-> f[i], value |-> m[f[i]]] = l[i]
    BY <2>1, <2>3, <2>5, <2>7
  <2> QED
    BY <2>1, <2>6, <2>8
<1> QED
  BY <1>6, <1>7 DEF IsParamList, IsList

\* What is hashed of a build section with one parameter at most survives reading and writing.
LEMMA HashKept ==
  ASSUME NoneIsNoObject, NEW b, b # None, IsBuild2(b), b.source # None, ExpressibleBuild(b), OneParam(b),
         NEW g \in convertBuildTo(convertBuildFrom(b))
  PROVE  Hashed(g) = Hashed(b)
<1>1. /\ g.source = b.source /\ g.tool = b.tool /\ g.kept = b.kept
      /\ g = [source |-> g.source, tool |-> g.tool, limits |-> g.limits, timeout |-> g.timeout,
              kept |-> g.kept, shipwright |-> g.shipwright]
      /\ g.shipwright = None <=> b.shipwright = None
      /\ b.shipwright # None =>
            /\ g.shipwright = [strategy |-> b.shipwright.strategy, timeout |-> b.shipwright.timeout,
                               params |-> g.shipwright.params]
            /\ g.shipwright.params \in ParamLists(ParamMap(b.shipwright.params))
            /\ IsParamList(b.shipwright.params)
  BY BuildThere
<1>2. b.shipwright # None => g.shipwright.params = b.shipwright.params
  BY <1>1, OneListed DEF OneParam, ExpressibleBuild
<1>3. b.shipwright # None =>
        b.shipwright = [strategy |-> b.shipwright.strategy, timeout |-> b.shipwright.timeout,
                        params |-> b.shipwright.params]
  BY DEF IsBuild2, IsEngine
<1>4. g.shipwright = b.shipwright
  BY <1>1, <1>2, <1>3
<1>5. b = [source |-> b.source, tool |-> b.tool, limits |-> b.limits, timeout |-> b.timeout,
           kept |-> b.kept, shipwright |-> b.shipwright]
  BY DEF IsBuild2
<1>6. g # None
  BY <1>1 DEF NoneIsNoObject
<1>7. /\ [g EXCEPT !.limits = {}, !.timeout = None] =
            [source |-> g.source, tool |-> g.tool, limits |-> {}, timeout |-> None,
             kept |-> g.kept, shipwright |-> g.shipwright]
      /\ [b EXCEPT !.limits = {}, !.timeout = None] =
            [source |-> b.source, tool |-> b.tool, limits |-> {}, timeout |-> None,
             kept |-> b.kept, shipwright |-> b.shipwright]
  <2>1. ASSUME NEW x, NEW y, y = [x EXCEPT !.limits = {}, !.timeout = None],
               x = [source |-> x.source, tool |-> x.tool, limits |-> x.limits, timeout |-> x.timeout,
                    kept |-> x.kept, shipwright |-> x.shipwright]
        PROVE  y = [source |-> x.source, tool |-> x.tool, limits |-> {}, timeout |-> None,
                    kept |-> x.kept, shipwright |-> x.shipwright]
    BY <2>1
  <2> QED
    BY <1>1, <1>5, <2>1
<1> QED
  BY <1>1, <1>4, <1>6, <1>7 DEF Hashed

\* The webhook has nothing to fill in of what was read of a function it filled in, so what it
\* admits is what was read.
LEMMA TouchAdmitted ==
  ASSUME NoneIsNoObject, NEW h, IsFunction2(h), Filled(h), Expressible(h),
         NEW o, o = ConvertFrom(h), ~ConvertFails(o), NEW p \in Admitted(o)
  PROVE  p = o
<1>1. IsFunction1(o)
  BY ConvertedFrom
<1>2. h.serving # None /\ h.serving.triggers.http # None => h.serving.triggers.http.port # 0
  BY DEF Expressible, ExpressibleServing, Filled, FilledTriggers, FilledHttp
<1>3. ASSUME NEW g \in ConvertTo(o) PROVE Default(g) = g
  BY <1>1, <1>2, ConvertedTo, FilledConverted, FilledStays
<1> QED
  BY <1>3 DEF Admitted

\* The revision survives beside sources.
LEMMA RevisionKept ==
  ASSUME NEW t, IsStatus(t), t.revision # None => t.sources # None
  PROVE  StatusTo(StatusFrom(t)).revision = t.revision
<1>1. PICK c : c = StatusTo(t)
  OBVIOUS
<1>2. /\ t = [build |-> t.build, serving |-> t.serving, sources |-> t.sources,
              revision |-> t.revision, addresses |-> t.addresses, route |-> t.route]
      /\ c = [t EXCEPT !.build = convertCondition(@), !.serving = convertCondition(@)]
  BY <1>1 DEF IsStatus, StatusTo
<1>3. /\ c = [build |-> c.build, serving |-> c.serving, sources |-> c.sources,
              revision |-> c.revision, addresses |-> c.addresses, route |-> c.route]
      /\ c.revision = t.revision
  BY <1>2
<1>4. PICK d : d = StatusFrom(t)
  OBVIOUS
<1>5. d = IF t.sources # None THEN c ELSE [c EXCEPT !.revision = None, !.addresses = <<>>, !.route = None]
  BY <1>1, <1>4 DEF StatusFrom
<1>6. /\ d = [build |-> d.build, serving |-> d.serving, sources |-> d.sources,
              revision |-> d.revision, addresses |-> d.addresses, route |-> d.route]
      /\ d.revision = t.revision
  BY <1>3, <1>5
<1>7. StatusTo(d).revision = d.revision
  BY <1>6 DEF StatusTo
<1> QED
  BY <1>4, <1>6, <1>7

\* Nothing that the function controller hashes changes.
LEMMA RolloutsKept ==
  ASSUME NoneIsNoObject, IInv, TouchSpoke, Expressible(fn), OneParam(fn.build),
         fn.status.revision # None => fn.status.sources # None
  PROVE  Rollouts(fn') = Rollouts(fn)
<1>1. PICK o : o = ConvertFrom(fn)
  OBVIOUS
<1>2. fn # None /\ PutSpoke(o)
  BY <1>1 DEF TouchSpoke
<1>3. IsFunction2(fn) /\ IsStatus(fn.status) /\ Filled(fn) /\ Validate(fn)
  BY <1>2 DEF IInv, FunctionInv
<1>4. ~ConvertFails(o)
  BY <1>2 DEF PutSpoke
<1>5. PICK p \in Admitted(o) :
        \E h \in ConvertTo(p) : ~ConvertFails(p) /\ Validate(h) /\ fn' = [h EXCEPT !.status = StatusAt1]
  BY <1>2 DEF PutSpoke
<1>6. p = o
  BY <1>1, <1>3, <1>4, TouchAdmitted
<1>7. PICK h \in ConvertTo(o) : fn' = [h EXCEPT !.status = StatusAt1]
  BY <1>5, <1>6
<1>8. IsFunction2(h)
  BY <1>1, <1>3, <1>4, ConvertedFrom, ConvertedTo
<1>9. /\ h.version = fn.version /\ h.image = fn.image /\ h.credentials = fn.credentials /\ h.serving = fn.serving
      /\ fn.build = None => h.build = None
      /\ fn.build # None => h.build \in convertBuildTo(convertBuildFrom(fn.build))
  BY <1>1, <1>3, ThereAndBack
<1>10. Hashed(h.build) = Hashed(fn.build)
  <2>1. CASE fn.build = None
    BY <1>9, <2>1
  <2>2. CASE fn.build # None
    <3>1. PICK b : b = fn.build
      OBVIOUS
    <3>2. b # None /\ IsBuild2(b) /\ b.source # None /\ ExpressibleBuild(b) /\ OneParam(b)
      BY <1>3, <2>2, <3>1 DEF IsFunction2, Validate, ValidateBuild, Expressible
    <3>3. h.build \in convertBuildTo(convertBuildFrom(b))
      BY <1>9, <2>2, <3>1
    <3> QED
      BY <3>1, <3>2, <3>3, HashKept
  <2> QED
    BY <2>1, <2>2
<1>11. StatusAt1.revision = fn.status.revision
  BY <1>2, <1>3, RevisionKept DEF StatusAt1, StatusAt2
<1>12. /\ fn'.version = h.version /\ fn'.image = h.image /\ fn'.credentials = h.credentials
       /\ fn'.serving = h.serving /\ fn'.build = h.build /\ fn'.status = StatusAt1
  <2>1. PICK t : t = StatusAt1
    OBVIOUS
  <2>2. PICK k : k = [h EXCEPT !.status = t]
    OBVIOUS
  <2>3. /\ k.version = h.version /\ k.image = h.image /\ k.credentials = h.credentials
        /\ k.serving = h.serving /\ k.build = h.build /\ k.status = t
    BY <1>8, <2>2 DEF IsFunction2
  <2> QED
    BY <1>7, <2>1, <2>2, <2>3
<1>13. Hashed(fn'.build) = Hashed(fn.build)
  BY <1>10, <1>12
<1> QED
  BY <1>9, <1>11, <1>12, <1>13 DEF Rollouts, Hashed

\* A v1beta1 client that writes back what it read of a function that v1beta1 can express rolls
\* nothing out (ConvertFrom, the webhook of function_webhook.go, ConvertTo): what
\* createBuilderSpec and createServingSpec are given to hash stays as it was.
THEOREM TouchRollsNothingOutHolds ==
  ASSUME NoneIsNoObject
  PROVE  APISpec => TouchRollsNothingOut
<1> DEFINE Same ==
      TouchSpoke /\ Expressible(fn) /\ OneParam(fn.build)
         /\ (fn.status.revision # None => fn.status.sources # None)
       => Rollouts(fn') = Rollouts(fn)
<1>1. IInv => Same
  BY RolloutsKept
<1> HIDE DEF Same
<1>2. APISpec => [][Same]_apiVars
  BY <1>1, InvHolds, PTL DEF APISpec
<1> QED
  BY <1>2 DEF TouchRollsNothingOut, Same
=============================================================================
