---------------------------- MODULE Eventing_proofs ----------------------------
(***************************************************************************)
(* Proofs about the EventSource and the Trigger reconciler at work on the  *)
(* same buses (EventsSpec), for every value of the constants: the          *)
(* functions of a source follow it (FunctionsFollow), a sink that it was   *)
(* read with stays (SpecsAreTheUsers), a trigger's function follows it     *)
(* (SubscribersReached), and both meet on one bus (Connected).             *)
(***************************************************************************)
EXTENDS Eventing, TLAPS

-----------------------------------------------------------------------------
(* The inductive invariant.                                                *)

AtWork == esPc \in {"Functions", "Update"}

TypeInv ==
  /\ changes \in Nat
  /\ bus \in [Kinds \X Buses -> BusSpecs] /\ busCache \in [Kinds \X Buses -> BusSpecs]
  /\ es \in [Sources -> EventSource] /\ esCache \in [Sources -> EventSource]
  /\ fn \in [Sources \X Events -> Serving \union {None}]
  /\ esQueue \subseteq Sources /\ missed \subseteq Sources
  /\ esBusEvents \subseteq Kinds \X Buses
  /\ esPc \in {"Idle", "Functions", "Update", "Ready", "Error"}
  /\ esPc # "Idle" => esCur \in Sources /\ esLocal \in EventSource
  /\ esVersion \in BusSpecs /\ esTodo \subseteq Events
  /\ newSinkUri \in Uris \union {EmptyUri}

\* While it works the reconciler remembers the sink of its own EventSource, and knows
\* that it can be served.
WorkerInv ==
  AtWork =>
    /\ esLocal.spec.sink # None => newSinkUri = esLocal.spec.sink
    /\ ~Misconfigured(esLocal.spec, esVersion) /\ esVersion # NoNats
    /\ esPc = "Update" => esTodo = {}

\* The cache lags behind: what it shows of the current generation is the spec, and the
\* label or the one before it was set.
CacheInv ==
  \A s \in Sources :
    /\ esCache[s].gen <= es[s].gen
    /\ es[s].live => esCache[s].live
    /\ esCache[s].gen = es[s].gen =>
         /\ esCache[s].spec = es[s].spec
         /\ \/ es[s].label = esCache[s].label
            \/ es[s].spec.bus # None /\ es[s].label = es[s].spec.bus

\* The informer will queue the source when it delivers what the cache does not show.
Stale(s) == esCache[s].gen # es[s].gen \/ esCache[s].live # es[s].live

\* The source is to be queued for its bus, or was missed: what it made of the bus may be old.
Coming(s) ==
  \/ s \in missed
  \/ /\ es[s].spec.bus # None
     /\ \/ <<"EventBus", es[s].spec.bus>> \in esBusEvents
        \/ /\ busCache[<<"EventBus", es[s].spec.bus>>] = None
           /\ <<"ClusterEventBus", es[s].spec.bus>> \in esBusEvents

\* The version of the bus that the reconciler would find, and whether that will do.
Seen(spec) == IF spec.bus = None THEN None ELSE RetrieveBus(busCache, spec.bus)

\* The worker is at s and has written the functions that are not in esTodo.
Working(s) ==
  /\ esLocal.spec = es[s].spec
  /\ \A e \in es[s].spec.events \ esTodo : fn[<<s, e>>] = ServingOf(esLocal.spec, esVersion)
  /\ Coming(s) \/ esVersion = Seen(es[s].spec)

\* The last reconcile of s went through.
Done(s) ==
  /\ es[s].spec.bus # None => es[s].label = es[s].spec.bus
  /\ \A e \in es[s].spec.events : fn[<<s, e>>] # None /\ fn[<<s, e>>].sink = es[s].spec.sink
  /\ \/ Coming(s)
     \/ /\ ~Misconfigured(es[s].spec, Seen(es[s].spec))
        /\ \A e \in es[s].spec.events : fn[<<s, e>>].version = Seen(es[s].spec)

SourceInv(s) ==
  es[s].live =>
    \/ s \in esQueue
    \/ Stale(s)
    \/ esCur = s /\ esPc = "Error"
    \/ esCur = s /\ AtWork /\ Working(s)
    \/ ~(esCur = s /\ AtWork) /\ Done(s)

FollowInv == \A s \in Sources : SourceInv(s)

IInv == TypeInv /\ WorkerInv /\ CacheInv /\ FollowInv

-----------------------------------------------------------------------------
LEMMA InitInv == EventsInit => IInv
<1> SUFFICES ASSUME EventsInit PROVE IInv
  OBVIOUS
<1> USE DEF EventsInit, BusInit, SourceInit
<1>1. PICK spec \in [Sources -> SourceSpecs] :
         es = [s \in Sources |-> [live |-> TRUE, spec |-> spec[s], gen |-> 0, label |-> None,
                             cond |-> "None", saves |-> 0]]
  OBVIOUS
<1>2. TypeInv
  <2>1. es \in [Sources -> EventSource]
    BY <1>1, SourceAssumption DEF EventSource
  <2>2. bus \in [Kinds \X Buses -> BusSpecs]
    BY BusesAssumption
  <2>3. fn \in [Sources \X Events -> Serving \union {None}]
    OBVIOUS
  <2> QED
    BY <2>1, <2>2, <2>3 DEF TypeInv, BusSpecs
<1>3. WorkerInv
  BY DEF WorkerInv, AtWork
<1>4. CacheInv
  BY <1>2 DEF CacheInv, TypeInv, EventSource
<1>5. FollowInv
  BY DEF FollowInv, SourceInv
<1> QED
  BY <1>2, <1>3, <1>4, <1>5 DEF IInv

-----------------------------------------------------------------------------
(* One lemma for each step.                                                *)

\* What stays when neither the source controller nor the cache of the buses moves.
LEMMA OtherStep ==
  ASSUME IInv, UNCHANGED <<busCache, esVars>>, changes' \in Nat,
         bus' \in [Kinds \X Buses -> BusSpecs]
  PROVE  IInv'
<1> USE DEF IInv, esVars, esWorker
<1>1. TypeInv'
  BY DEF TypeInv
<1>2. WorkerInv'
  BY DEF WorkerInv, AtWork
<1>3. CacheInv'
  BY DEF CacheInv
<1>4. FollowInv'
  <2> SUFFICES ASSUME NEW s \in Sources, SourceInv(s) PROVE SourceInv(s)'
    BY DEF FollowInv
  <2>1. Stale(s)' = Stale(s) /\ Coming(s)' = Coming(s) /\ AtWork' = AtWork
    BY DEF Stale, Coming, AtWork
  <2>2. Working(s)' = Working(s) /\ Done(s)' = Done(s)
    BY <2>1 DEF Working, Done, Seen, RetrieveBus
  <2> QED
    BY <2>1, <2>2 DEF SourceInv
<1> QED
  BY <1>1, <1>2, <1>3, <1>4

LEMMA GoneStep ==
  ASSUME IInv, NEW s \in Sources, SourceGone(s), UNCHANGED <<busVars, changes>>
  PROVE  IInv'
<1> USE DEF IInv, SourceGone, esWorker, busVars
<1>1. TypeInv'
  BY DEF TypeInv
<1>2. WorkerInv'
  BY DEF WorkerInv, AtWork
<1>3. CacheInv'
  BY DEF CacheInv
<1>4. FollowInv'
  <2> SUFFICES ASSUME NEW t \in Sources, es[t].live PROVE SourceInv(t)'
    BY DEF FollowInv, SourceInv
  <2>1. t # s
    BY DEF CacheInv
  <2>2. Stale(t)' = Stale(t) /\ Coming(t)' = Coming(t) /\ AtWork' = AtWork
    BY <2>1 DEF Stale, Coming, AtWork
  <2>3. Working(t)' = Working(t) /\ Done(t)' = Done(t)
    BY <2>2 DEF Working, Done, Seen
  <2> QED
    BY <2>1, <2>2, <2>3 DEF SourceInv, FollowInv
<1> QED
  BY <1>1, <1>2, <1>3, <1>4

LEMMA StartStep ==
  ASSUME IInv, NEW s \in Sources, StartSource(s), UNCHANGED <<busVars, changes>>
  PROVE  IInv'
<1> DEFINE spec == esCache[s].spec
<1> USE DEF IInv, busVars
<1>0. /\ esPc = "Idle" /\ s \in esQueue /\ esQueue' = esQueue \ {s} /\ missed' = missed \ {s}
      /\ esCur' = s /\ esLocal' = esCache[s] /\ esVersion' = Seen(spec)
      /\ \/ esPc' = "Error" /\ UNCHANGED <<esTodo, newSinkUri>>
         \/ /\ ~Misconfigured(spec, Seen(spec)) /\ Seen(spec) # NoNats
            /\ esPc' = IF spec.events = {} THEN "Update" ELSE "Functions"
            /\ esTodo' = spec.events
            /\ newSinkUri' = IF spec.sink = None THEN newSinkUri ELSE spec.sink
      /\ UNCHANGED <<es, esCache, fn, esBusEvents>>
  BY BusesAssumption DEF StartSource, Seen, Misconfigured
<1>1. TypeInv'
  <2>1. esCache[s] \in EventSource /\ spec \in SourceSpec
    BY DEF TypeInv, EventSource
  <2>2. Seen(spec) \in BusSpecs
    BY <2>1 DEF Seen, RetrieveBus, TypeInv, BusSpecs, SourceSpec, Kinds
  <2> QED
    BY <1>0, <2>1, <2>2 DEF TypeInv, SourceSpec
<1>2. WorkerInv'
  BY <1>0 DEF WorkerInv, AtWork
<1>3. CacheInv'
  BY <1>0 DEF CacheInv
<1>4. FollowInv'
  <2> SUFFICES ASSUME NEW t \in Sources, es[t].live PROVE SourceInv(t)'
    BY <1>0 DEF FollowInv, SourceInv
  <2>1. Stale(t)' = Stale(t)
    BY <1>0 DEF Stale
  <2>2. CASE t # s
    <3>1. Coming(t)' = Coming(t)
      BY <1>0, <2>2 DEF Coming
    <3>2. Done(t)' = Done(t)
      BY <1>0, <3>1 DEF Done, Seen
    <3> QED
      BY <1>0, <2>1, <2>2, <3>2 DEF SourceInv, FollowInv, AtWork
  <2>3. CASE t = s /\ ~Stale(s) /\ esPc' # "Error"
    <3>1. spec = es[s].spec
      BY <2>3 DEF CacheInv, Stale
    <3>2. Working(s)'
      BY <1>0, <2>3, <3>1 DEF Working, Seen
    <3> QED
      BY <1>0, <2>3, <3>2 DEF SourceInv, AtWork
  <2> QED
    BY <1>0, <2>1, <2>2, <2>3 DEF SourceInv
<1> QED
  BY <1>1, <1>2, <1>3, <1>4

LEMMA FunctionStep ==
  ASSUME IInv, NEW e \in Events, WriteFunction(e), UNCHANGED <<busVars, changes>>
  PROVE  IInv'
<1> USE DEF IInv, WriteFunction, busVars
<1>0. esCur \in Sources /\ esLocal \in EventSource /\ esLocal.spec \in SourceSpec
  BY DEF TypeInv, EventSource
<1>1. TypeInv'
  <2>1. ServingOf(esLocal.spec, esVersion) \in Serving
    BY <1>0 DEF ServingOf, TypeInv, Serving, SourceSpec, BusSpecs, WorkerInv, AtWork
  <2> QED
    BY <2>1, <1>0 DEF TypeInv
<1>2. WorkerInv'
  BY DEF WorkerInv, AtWork
<1>3. CacheInv'
  BY DEF CacheInv
<1>4. FollowInv'
  <2> SUFFICES ASSUME NEW t \in Sources, es[t].live PROVE SourceInv(t)'
    BY DEF FollowInv, SourceInv
  <2>1. Stale(t)' = Stale(t) /\ Coming(t)' = Coming(t) /\ AtWork' /\ AtWork
    BY DEF Stale, Coming, AtWork
  <2>2. CASE t # esCur
    <3>1. \A x \in Events : fn'[<<t, x>>] = fn[<<t, x>>]
      BY <2>2 DEF TypeInv
    <3>2. es[t].spec.events \subseteq Events
      BY DEF TypeInv, EventSource, SourceSpec
    <3>3. Done(t)' = Done(t)
      BY <2>1, <3>1, <3>2 DEF Done, Seen
    <3> QED
      BY <2>1, <2>2, <3>3 DEF SourceInv, FollowInv
  <2>3. CASE t = esCur /\ Working(t)
    <3>1. fn'[<<t, e>>] = ServingOf(esLocal.spec, esVersion)
      BY <2>3 DEF TypeInv
    <3>2. \A x \in Events \ {e} : fn'[<<t, x>>] = fn[<<t, x>>]
      BY <2>3 DEF TypeInv
    <3>3. es[t].spec.events \subseteq Events
      BY DEF TypeInv, EventSource, SourceSpec
    <3>4. Working(t)'
      BY <2>1, <2>3, <3>1, <3>2, <3>3 DEF Working, Seen
    <3> QED
      BY <2>1, <2>3, <3>4 DEF SourceInv
  <2> QED
    BY <2>1, <2>2, <2>3 DEF SourceInv, FollowInv
<1> QED
  BY <1>1, <1>2, <1>3, <1>4

\* What is true of a source whose object, functions and bus a step leaves alone.
LEMMA Untouched ==
  ASSUME IInv, NEW t \in Sources,
         es'[t].live = es[t].live, es'[t].spec = es[t].spec, es'[t].gen = es[t].gen,
         es'[t].label = es[t].label,
         \A e \in Events : fn'[<<t, e>>] = fn[<<t, e>>],
         UNCHANGED <<esCache, busCache, esBusEvents, missed>>
  PROVE  /\ Stale(t)' <=> Stale(t)
         /\ Coming(t)' <=> Coming(t)
         /\ Done(t)' <=> Done(t)
<1>1. es[t].spec.events \subseteq Events
  BY DEF IInv, TypeInv, EventSource, SourceSpec
<1>2. (Stale(t)' <=> Stale(t)) /\ (Coming(t)' <=> Coming(t))
  BY DEF Stale, Coming
<1>3. Seen(es[t].spec)' = Seen(es[t].spec)
  BY DEF Seen
<1> QED
  BY <1>1, <1>2, <1>3 DEF Done

\* What UpdateSource writes.
LEMMA WhatIsWritten ==
  ASSUME NEW old \in EventSource, newSinkUri \in Uris \union {EmptyUri}
  PROVE  LET new == Bumped(old, Mutated(old)) IN
         /\ new \in EventSource /\ new.live = old.live
         /\ new.gen \in {old.gen, old.gen + 1}
         /\ new.gen = old.gen => new.spec = old.spec
         /\ new.label = IF old.spec.bus # None THEN old.spec.bus ELSE old.label
         /\ new.spec = [old.spec EXCEPT !.sink = IF old.spec.sink # None THEN newSinkUri ELSE None]
         /\ (old.spec.sink # None => newSinkUri = old.spec.sink) => new.gen = old.gen
<1> DEFINE spec == [old.spec EXCEPT !.sink = IF old.spec.sink # None THEN newSinkUri ELSE None]
           label == IF old.spec.bus # None THEN old.spec.bus ELSE old.label
           one == Mutated(old)
           new == Bumped(old, one)
<1>1. old.spec \in SourceSpec /\ old.gen \in Nat
  BY DEF EventSource
<1>2. /\ spec \in SourceSpec
      /\ (old.spec.sink # None => newSinkUri = old.spec.sink) => spec = old.spec
  BY <1>1 DEF SourceSpec
<1>3. label \in Buses \union {None}
  BY <1>1 DEF SourceSpec, EventSource
<1>4. one = [old EXCEPT !.label = label, !.spec = spec]
  BY <1>1 DEF Mutated, EventSource, SourceSpec
<1> HIDE DEF spec, label
<1>5. one \in EventSource /\ one.live = old.live /\ one.gen = old.gen /\ one.label = label /\ one.spec = spec
  BY <1>2, <1>3, <1>4 DEF EventSource
<1> HIDE DEF one
<1>6. CASE one.spec = old.spec
  BY <1>1, <1>2, <1>5, <1>6 DEF Bumped, spec, label, one
<1>7. CASE one.spec # old.spec
  <2>1. new = [one EXCEPT !.gen = @ + 1]
    BY <1>7 DEF Bumped
  <2>2. new \in EventSource /\ new.gen = old.gen + 1 /\ new.live = old.live /\ new.label = label /\ new.spec = spec
    BY <2>1, <1>1, <1>5 DEF EventSource
  <2> QED
    BY <2>2, <1>1, <1>2, <1>5, <1>7 DEF spec, label, one
<1> QED
  BY <1>6, <1>7

\* After a write of the spec, or of the label, the cache is one step behind.
LEMMA WriteKeepsCacheInv ==
  ASSUME IInv, esCur \in Sources, es[esCur] = esCache[esCur], UNCHANGED esCache,
         es' = [es EXCEPT ![esCur] = Bumped(esCache[esCur], Mutated(esCache[esCur]))]
  PROVE  CacheInv' /\ es' \in [Sources -> EventSource]
<1> DEFINE old == esCache[esCur]  new == Bumped(old, Mutated(old))
<1>1. old \in EventSource /\ newSinkUri \in Uris \union {EmptyUri} /\ old.gen \in Nat /\ es \in [Sources -> EventSource]
  BY DEF IInv, TypeInv, EventSource
<1>2. /\ new \in EventSource /\ new.live = old.live
      /\ new.gen \in {old.gen, old.gen + 1}
      /\ new.gen = old.gen => new.spec = old.spec
      /\ new.label = IF old.spec.bus # None THEN old.spec.bus ELSE old.label
  BY <1>1, WhatIsWritten
<1> HIDE DEF new
<1>3. es'[esCur] = new /\ es' \in [Sources -> EventSource] /\ \A t \in Sources \ {esCur} : es'[t] = es[t]
  BY <1>1, <1>2 DEF new
<1>4. CacheInv'
  BY <1>1, <1>2, <1>3 DEF IInv, CacheInv
<1> QED
  BY <1>3, <1>4

LEMMA UpdateStep ==
  ASSUME IInv, UpdateSource, UNCHANGED <<busVars, changes>>
  PROVE  IInv'
<1> DEFINE seen == esCache[esCur]  new == Bumped(seen, Mutated(seen))
<1> USE DEF IInv, busVars
<1>0. /\ esPc = "Update" /\ esPc' \in {"Ready", "Error"} /\ esCur \in Sources /\ esTodo = {} /\ AtWork
      /\ seen \in EventSource /\ es[esCur] \in EventSource
      /\ newSinkUri \in Uris \union {EmptyUri}
      /\ UNCHANGED <<esCache, fn, esQueue, esBusEvents, esCur, esVersion, esTodo, newSinkUri, missed>>
  BY DEF UpdateSource, TypeInv, WorkerInv, AtWork
<1>1. /\ new \in EventSource /\ new.live = seen.live
      /\ new.gen = seen.gen => new.spec = seen.spec
      /\ new.label = IF seen.spec.bus # None THEN seen.spec.bus ELSE seen.label
      /\ (seen.spec.sink # None => newSinkUri = seen.spec.sink) => new.gen = seen.gen
  BY <1>0, WhatIsWritten
<1>2. \/ es' = es /\ esPc' = "Error" /\ esLocal' \in EventSource
      \/ es' = es /\ esPc' = "Ready" /\ new = seen /\ esLocal' \in EventSource
      \/ /\ es[esCur] = seen /\ es' = [es EXCEPT ![esCur] = new] /\ esPc' = "Ready"
         /\ esLocal' \in EventSource
  BY <1>0, <1>1 DEF UpdateSource, TypeInv
<1> HIDE DEF new
<1>3. CacheInv' /\ es' \in [Sources -> EventSource]
  BY <1>0, <1>2, WriteKeepsCacheInv DEF new, CacheInv, TypeInv
<1>4. TypeInv'
  BY <1>0, <1>2, <1>3 DEF TypeInv
<1>5. WorkerInv'
  BY <1>0 DEF WorkerInv, AtWork
<1>6. FollowInv'
  <2> SUFFICES ASSUME NEW t \in Sources, es'[t].live PROVE SourceInv(t)'
    BY DEF FollowInv, SourceInv
  <2>1. ~AtWork'
    BY <1>0 DEF AtWork
  <2>2. CASE t # esCur
    <3>1. es'[t] = es[t]
      BY <1>2, <2>2 DEF TypeInv
    <3>2. (Stale(t)' <=> Stale(t)) /\ (Done(t)' <=> Done(t))
      BY <1>0, <3>1, Untouched
    <3> QED
      BY <1>0, <2>1, <2>2, <3>1, <3>2 DEF SourceInv, FollowInv
  <2>3. CASE t = esCur /\ ~Stale(t) /\ Working(t) /\ esPc' = "Ready"
    <3>1. seen.spec = es[t].spec /\ esLocal.spec = es[t].spec /\ seen.gen = es[t].gen
      BY <2>3 DEF Stale, CacheInv, Working
    <3>2. new.gen = seen.gen /\ new.spec = seen.spec
      BY <1>0, <1>1, <3>1 DEF WorkerInv
    <3>3. es'[t].spec = es[t].spec /\ (es[t].spec.bus # None => es'[t].label = es[t].spec.bus)
      <4>1. CASE es' = es /\ new = seen
        <5>1. es[t].spec.bus # None => seen.label = es[t].spec.bus
          BY <4>1, <1>1, <3>1
        <5> QED
          BY <4>1, <5>1, <2>3, <3>1 DEF CacheInv
      <4>2. CASE es' = [es EXCEPT ![esCur] = new]
        <5>1. es'[t] = new
          BY <4>2, <2>3 DEF TypeInv
        <5> QED
          BY <5>1, <1>1, <3>1, <3>2
      <4> QED
        BY <4>1, <4>2, <1>2, <2>3
    <3>4. (Coming(t)' <=> Coming(t)) /\ Seen(es[t].spec)' = Seen(es[t].spec)
      BY <1>0, <3>3 DEF Coming, Seen
    <3>5. \A e \in es[t].spec.events :
            /\ fn[<<t, e>>] # None /\ fn[<<t, e>>].sink = es[t].spec.sink
            /\ fn[<<t, e>>].version = esVersion
      <4> TAKE e \in es[t].spec.events
      <4>1. fn[<<t, e>>] = [version |-> esVersion, sink |-> es[t].spec.sink]
        BY <1>0, <2>3, <3>1 DEF Working, ServingOf
      <4>2. [version |-> esVersion, sink |-> es[t].spec.sink] \in Serving
        BY <1>0, <2>3 DEF Serving, WorkerInv, TypeInv, BusSpecs, EventSource, SourceSpec
      <4> QED
        BY <4>1, <4>2, ServingAssumption
    <3>6. \/ Coming(t)
          \/ esVersion = Seen(es[t].spec) /\ ~Misconfigured(es[t].spec, Seen(es[t].spec))
      BY <1>0, <2>3, <3>1 DEF Working, WorkerInv
    <3>7. Done(t)'
      BY <1>0, <3>3, <3>4, <3>5, <3>6 DEF Done
    <3> QED
      BY <2>1, <3>7 DEF SourceInv
  <2>4. CASE t = esCur /\ esPc' = "Error"
    BY <1>0, <2>4 DEF SourceInv
  <2>5. CASE t = esCur /\ esPc' = "Ready" /\ Stale(t)
    <3>1. es' = es
      <4>1. es[esCur] # seen
        BY <2>5 DEF Stale
      <4> QED
        BY <4>1, <1>2, <2>5
    <3> QED
      BY <3>1, <1>0, <2>5 DEF SourceInv, Stale
  <2>6. CASE t = esCur /\ t \in esQueue
    BY <1>0, <2>6 DEF SourceInv
  <2>7. t = esCur => es[t].live
    <3>1. CASE es' = es
      BY <3>1
    <3>2. CASE es[esCur] = seen /\ es' = [es EXCEPT ![esCur] = new]
      BY <3>2, <1>1 DEF TypeInv
    <3> QED
      BY <3>1, <3>2, <1>2
  <2> QED
    BY <1>0, <2>2, <2>3, <2>4, <2>5, <2>6, <2>7 DEF SourceInv, FollowInv
<1> QED
  BY <1>3, <1>4, <1>5, <1>6

\* SaveStatus changes nothing that the invariant speaks of.
LEMMA WhatIsSaved ==
  ASSUME IInv, esCur \in Sources, NEW cond \in {"Ready", "Error"}, es' = Saved(cond), UNCHANGED esCache
  PROVE  /\ es' \in [Sources -> EventSource]
         /\ \A t \in Sources :
              /\ es'[t].live = es[t].live /\ es'[t].spec = es[t].spec
              /\ es'[t].gen = es[t].gen /\ es'[t].label = es[t].label
         /\ CacheInv'
<1>1. \/ es' = es
      \/ es' = [es EXCEPT ![esCur] = [es[esCur] EXCEPT !.cond = cond, !.saves = 1 - @]]
  BY DEF Saved, IInv, TypeInv
<1>2. /\ es' \in [Sources -> EventSource]
      /\ \A t \in Sources :
           /\ es'[t].live = es[t].live /\ es'[t].spec = es[t].spec
           /\ es'[t].gen = es[t].gen /\ es'[t].label = es[t].label
  <2>1. CASE es' = es
    BY <2>1 DEF IInv, TypeInv
  <2>2. CASE es' = [es EXCEPT ![esCur] = [es[esCur] EXCEPT !.cond = cond, !.saves = 1 - @]]
    <3> DEFINE saved == [es[esCur] EXCEPT !.cond = cond, !.saves = 1 - @]
    <3>1. es[esCur] \in EventSource /\ es \in [Sources -> EventSource]
      BY DEF IInv, TypeInv
    <3>2. /\ saved \in EventSource /\ saved.live = es[esCur].live /\ saved.spec = es[esCur].spec
          /\ saved.gen = es[esCur].gen /\ saved.label = es[esCur].label
      <4>1. 1 - es[esCur].saves \in 0 .. 1
        <5>1. es[esCur].saves \in 0 .. 1
          BY <3>1 DEF EventSource
        <5> QED
          BY <5>1
      <4> DEFINE saves == 1 - es[esCur].saves
      <4> HIDE DEF saves
      <4>2. saved = [es[esCur] EXCEPT !.cond = cond, !.saves = saves]
        BY DEF saves
      <4> QED
        BY <3>1, <4>1, <4>2 DEF EventSource, saves
    <3> HIDE DEF saved
    <3>3. es' = [es EXCEPT ![esCur] = saved]
      BY <2>2 DEF saved
    <3> QED
      BY <3>1, <3>2, <3>3
  <2> QED
    BY <1>1, <2>1, <2>2
<1>3. CacheInv'
  BY <1>2 DEF IInv, CacheInv
<1> QED
  BY <1>2, <1>3

LEMMA EndStep ==
  ASSUME IInv, ReadySource \/ FailSource, UNCHANGED <<busVars, changes>>
  PROVE  IInv'
<1> USE DEF IInv, busVars
<1>0. /\ esPc \in {"Ready", "Error"} /\ esPc' = "Idle" /\ esTodo' \subseteq Events /\ esCur \in Sources
      /\ \E cond \in {"Ready", "Error"} : es' = Saved(cond)
      /\ esQueue \subseteq esQueue' /\ esQueue' \subseteq Sources
      /\ esPc = "Error" => esCur \in esQueue'
      /\ UNCHANGED <<esCache, fn, esBusEvents, esCur, esLocal, esVersion, newSinkUri, missed>>
  BY DEF ReadySource, FailSource, TypeInv
<1>1. /\ es' \in [Sources -> EventSource]
      /\ \A t \in Sources :
           /\ es'[t].live = es[t].live /\ es'[t].spec = es[t].spec
           /\ es'[t].gen = es[t].gen /\ es'[t].label = es[t].label
      /\ CacheInv'
  BY <1>0, WhatIsSaved
<1>2. TypeInv'
  BY <1>0, <1>1 DEF TypeInv
<1>3. WorkerInv'
  BY <1>0 DEF WorkerInv, AtWork
<1>4. FollowInv'
  <2> SUFFICES ASSUME NEW t \in Sources, es[t].live PROVE SourceInv(t)'
    BY <1>1 DEF FollowInv, SourceInv
  <2>1. (Stale(t)' <=> Stale(t)) /\ (Done(t)' <=> Done(t))
    BY <1>0, <1>1, Untouched
  <2> QED
    BY <1>0, <2>1 DEF SourceInv, FollowInv, AtWork
<1> QED
  BY <1>1, <1>2, <1>3, <1>4

LEMMA SyncStep ==
  ASSUME IInv, NEW s \in Sources, SyncSource(s), UNCHANGED <<busVars, changes>>
  PROVE  IInv'
<1> USE DEF IInv, SyncSource, esWorker, busVars
<1>1. TypeInv'
  BY DEF TypeInv
<1>2. WorkerInv'
  BY DEF WorkerInv, AtWork
<1>3. \A t \in Sources : esCache'[t] = IF t = s THEN es[s] ELSE esCache[t]
  BY DEF TypeInv
<1>4. CacheInv'
  BY <1>3 DEF CacheInv, TypeInv, EventSource
<1>5. FollowInv'
  <2> SUFFICES ASSUME NEW t \in Sources, es[t].live PROVE SourceInv(t)'
    BY DEF FollowInv, SourceInv
  <2>1. Stale(t) => Stale(t)' \/ t \in esQueue'
    BY <1>3 DEF Stale
  <2>2. (Coming(t)' <=> Coming(t)) /\ (AtWork' <=> AtWork)
    BY DEF Coming, AtWork
  <2>3. (Working(t)' <=> Working(t)) /\ (Done(t)' <=> Done(t))
    BY <2>2 DEF Working, Done, Seen
  <2> QED
    BY <2>1, <2>2, <2>3 DEF SourceInv, FollowInv
<1> QED
  BY <1>1, <1>2, <1>4, <1>5

\* What a change of buses in the cache, or a handler of the watch, keeps.
LEMMA BusSideKeeps ==
  ASSUME IInv, NEW t \in Sources, UNCHANGED <<es, esCache, fn, esWorker>>,
         Coming(t) => Coming(t)',
         Coming(t)' \/ Seen(es[t].spec)' = Seen(es[t].spec)
  PROVE  /\ Stale(t)' <=> Stale(t)
         /\ AtWork' <=> AtWork
         /\ Working(t) => Working(t)'
         /\ Done(t) => Done(t)'
<1> USE DEF esWorker
<1>1. (Stale(t)' <=> Stale(t)) /\ (AtWork' <=> AtWork)
  BY DEF Stale, AtWork
<1>2. Working(t) => Working(t)'
  BY DEF Working
<1>3. Done(t) => Done(t)'
  BY DEF Done
<1> QED
  BY <1>1, <1>2, <1>3

LEMMA SeeBusStep ==
  ASSUME IInv, NEW o \in Kinds \X Buses, SeeBus(o)
  PROVE  IInv'
<1> USE DEF IInv, SeeBus, CatchUpBus
<1>1. TypeInv'
  BY DEF TypeInv, esWorker
<1>2. WorkerInv'
  BY DEF WorkerInv, AtWork, esWorker
<1>3. CacheInv'
  BY DEF CacheInv
<1>4. FollowInv'
  <2> SUFFICES ASSUME NEW t \in Sources, es[t].live PROVE SourceInv(t)'
    BY DEF FollowInv, SourceInv
  <2> DEFINE b == es[t].spec.bus
  <2>1. b \in Buses \union {None} /\ None \notin Buses
    BY BusesAssumption DEF TypeInv, EventSource, SourceSpec
  <2>2. \A p \in Kinds \X Buses : busCache'[p] = IF p = o THEN bus[o] ELSE busCache[p]
    BY DEF TypeInv
  <2>3. b # None => <<"EventBus", b>> \in Kinds \X Buses /\ <<"ClusterEventBus", b>> \in Kinds \X Buses
    BY <2>1 DEF Kinds
  <2>4. (Coming(t) => Coming(t)') /\ (Coming(t)' \/ Seen(es[t].spec)' = Seen(es[t].spec))
    <3>1. CASE b = None
      BY <3>1 DEF Coming, Seen
    <3>2. CASE b # None /\ o = <<"EventBus", b>>
      BY <3>2 DEF Coming
    <3>3. CASE b # None /\ o = <<"ClusterEventBus", b>>
      <4>1. o # <<"EventBus", b>>
        BY <3>3
      <4>2. busCache'[<<"EventBus", b>>] = busCache[<<"EventBus", b>>]
        BY <2>2, <2>3, <3>3, <4>1
      <4>3. CASE busCache[<<"EventBus", b>>] = None
        BY <3>3, <4>2, <4>3 DEF Coming
      <4>4. CASE busCache[<<"EventBus", b>>] # None
        BY <3>3, <4>2, <4>4 DEF Coming, Seen, RetrieveBus
      <4> QED
        BY <4>3, <4>4
    <3>4. CASE b # None /\ o # <<"EventBus", b>> /\ o # <<"ClusterEventBus", b>>
      <4>1. /\ busCache'[<<"EventBus", b>>] = busCache[<<"EventBus", b>>]
            /\ busCache'[<<"ClusterEventBus", b>>] = busCache[<<"ClusterEventBus", b>>]
        BY <2>2, <2>3, <3>4
      <4> QED
        BY <3>4, <4>1 DEF Coming, Seen, RetrieveBus
    <3> QED
      BY <3>1, <3>2, <3>3, <3>4
  <2>5. /\ Stale(t)' <=> Stale(t)
        /\ AtWork' <=> AtWork
        /\ Working(t) => Working(t)'
        /\ Done(t) => Done(t)'
    BY <2>4, BusSideKeeps
  <2> QED
    BY <2>5 DEF SourceInv, FollowInv, esWorker
<1> QED
  BY <1>1, <1>2, <1>3, <1>4

LEMMA MapStep ==
  ASSUME IInv, NEW b \in Buses, MapBus(b) \/ MapClusterBus(b), UNCHANGED <<busVars, changes>>
  PROVE  IInv'
<1> USE DEF IInv, busVars
<1>0. /\ UNCHANGED <<es, esCache, fn, esWorker>>
      /\ esQueue \subseteq esQueue' /\ esQueue' \subseteq Sources
      /\ missed \subseteq missed' /\ missed' \subseteq Sources /\ esBusEvents' \subseteq esBusEvents
  BY DEF MapBus, MapClusterBus, Labelled, TypeInv
<1>1. TypeInv'
  BY <1>0 DEF TypeInv, esWorker
<1>2. WorkerInv'
  BY <1>0 DEF WorkerInv, AtWork, esWorker
<1>3. CacheInv'
  BY <1>0 DEF CacheInv
<1>4. FollowInv'
  <2> SUFFICES ASSUME NEW t \in Sources, es[t].live PROVE SourceInv(t)'
    BY <1>0 DEF FollowInv, SourceInv
  <2>0. SourceInv(t) /\ None \notin Buses /\ esCache[t].live
    BY BusesAssumption DEF FollowInv, CacheInv
  <2>1. Seen(es[t].spec)' = Seen(es[t].spec) /\ (Stale(t)' <=> Stale(t))
    BY <1>0 DEF Seen, Stale
  <2>2. CASE Stale(t)
    BY <2>1, <2>2 DEF SourceInv
  <2>3. CASE ~Stale(t) /\ (Coming(t) => Coming(t)')
    <3>1. /\ AtWork' <=> AtWork
          /\ Working(t) => Working(t)'
          /\ Done(t) => Done(t)'
      BY <1>0, <2>1, <2>3, BusSideKeeps
    <3> QED
      BY <1>0, <2>0, <2>1, <3>1 DEF SourceInv, esWorker
  <2>4. CASE ~Stale(t) /\ Coming(t) /\ ~(Coming(t)')
    <3>1. es[t].spec.bus = b /\ esCache[t].spec.bus = b
      BY <1>0, <2>4 DEF Coming, MapBus, MapClusterBus, Stale, CacheInv
    <3>2. CASE MapBus(b)
      BY <2>0, <3>1, <3>2 DEF MapBus, SourceInv
    <3>3. CASE MapClusterBus(b) /\ t \in esQueue
      BY <1>0, <3>3 DEF SourceInv
    <3>4. CASE MapClusterBus(b) /\ esCur = t /\ esPc = "Error"
      BY <1>0, <3>4 DEF SourceInv, esWorker
    <3>5. CASE MapClusterBus(b) /\ t \notin esQueue /\ ~(esCur = t /\ esPc = "Error")
      <4>1. busCache[<<"EventBus", b>>] = None
        BY <2>4, <3>1, <3>5 DEF Coming, MapClusterBus
      <4>2. ~Hidden(t)
        BY <3>1, <4>1, <2>0 DEF Hidden
      <4>3. t \in Labelled(b)
        <5>1. t \notin missed'
          BY <2>4 DEF Coming
        <5>2. CASE t \notin Labelled(b)
          <6>1. ~(esPc # "Idle" /\ esCur = t) /\ es[t].label = esCache[t].label
            BY <3>5, <5>1, <5>2 DEF MapClusterBus
          <6>2. Done(t)
            BY <2>0, <2>4, <3>5, <6>1 DEF SourceInv, AtWork
          <6>3. esCache[t].label = b
            BY <2>0, <3>1, <6>1, <6>2 DEF Done
          <6> QED
            BY <2>0, <5>2, <6>3 DEF Labelled
        <5> QED
          BY <5>2
      <4> QED
        BY <3>5, <4>2, <4>3 DEF MapClusterBus, SourceInv
    <3> QED
      BY <3>2, <3>3, <3>4, <3>5
  <2> QED
    BY <2>2, <2>3, <2>4
<1> QED
  BY <1>1, <1>2, <1>3, <1>4

\* A user or the garbage collector.
LEMMA UserStep ==
  ASSUME IInv, NEW s \in Sources, UNCHANGED busVars,
         \/ EditSource(s) \/ DeleteSource(s)
         \/ \E e \in Events : CollectFunction(s, e) /\ UNCHANGED changes
  PROVE  IInv'
<1> USE DEF IInv, busVars
<1>0. /\ changes' \in Nat
      /\ UNCHANGED <<esCache, esQueue, esBusEvents, esWorker, missed>>
  <2>1. changes \in Nat
    BY DEF TypeInv
  <2>2. CASE EditSource(s)
    BY <2>1, <2>2 DEF EditSource, Change
  <2>3. CASE DeleteSource(s)
    BY <2>1, <2>3 DEF DeleteSource, Change
  <2>4. CASE \E e \in Events : CollectFunction(s, e) /\ UNCHANGED changes
    BY <2>1, <2>4 DEF CollectFunction
  <2> QED
    BY <2>2, <2>3, <2>4
<1>1. \/ \E spec \in SourceSpec :
           es' = [es EXCEPT ![s] = [es[s] EXCEPT !.spec = spec, !.gen = es[s].gen + 1]] /\ fn' = fn
      \/ es' = [es EXCEPT ![s] = [es[s] EXCEPT !.live = FALSE]] /\ fn' = fn
      \/ es' = es /\ ~es[s].live /\ \E e \in Events : fn' = [fn EXCEPT ![<<s, e>>] = None]
  <2>1. CASE EditSource(s)
    BY <2>1, SourceAssumption DEF EditSource, TypeInv
  <2>2. CASE DeleteSource(s)
    BY <2>2 DEF DeleteSource, TypeInv
  <2>3. CASE \E e \in Events : CollectFunction(s, e)
    BY <2>3 DEF CollectFunction
  <2> QED
    BY <2>1, <2>2, <2>3
<1>2. /\ es'[s] \in EventSource /\ es[s] \in EventSource
      /\ \A t \in Sources \ {s} : es'[t] = es[t] /\ \A e \in Events : fn'[<<t, e>>] = fn[<<t, e>>]
      /\ es' \in [Sources -> EventSource] /\ fn' \in [Sources \X Events -> Serving \union {None}]
      /\ \/ es'[s].gen = es[s].gen + 1 /\ es'[s].live = es[s].live
         \/ /\ es'[s].gen = es[s].gen /\ es'[s].spec = es[s].spec /\ es'[s].label = es[s].label
            /\ ~es'[s].live
  <2>1. /\ es \in [Sources -> EventSource] /\ fn \in [Sources \X Events -> Serving \union {None}]
        /\ es[s] \in EventSource /\ es[s].gen \in Nat
    BY DEF TypeInv, EventSource
  <2>2. CASE fn' = fn /\ \E spec \in SourceSpec :
               es' = [es EXCEPT ![s] = [es[s] EXCEPT !.spec = spec, !.gen = es[s].gen + 1]]
    <3>1. PICK spec \in SourceSpec :
                 es' = [es EXCEPT ![s] = [es[s] EXCEPT !.spec = spec, !.gen = es[s].gen + 1]]
      BY <2>2
    <3> DEFINE edited == [es[s] EXCEPT !.spec = spec, !.gen = es[s].gen + 1]
    <3>2. edited \in EventSource /\ edited.gen = es[s].gen + 1 /\ edited.live = es[s].live
      <4> DEFINE gen == es[s].gen + 1
      <4>1. gen \in Nat
        BY <2>1
      <4> HIDE DEF gen
      <4>2. edited = [es[s] EXCEPT !.spec = spec, !.gen = gen]
        BY DEF gen
      <4> QED
        BY <2>1, <4>1, <4>2 DEF EventSource, gen
    <3>3. es' = [es EXCEPT ![s] = edited]
      BY <3>1
    <3> HIDE DEF edited
    <3> QED
      BY <2>1, <2>2, <3>2, <3>3
  <2>3. CASE fn' = fn /\ es' = [es EXCEPT ![s] = [es[s] EXCEPT !.live = FALSE]]
    <3> DEFINE deleted == [es[s] EXCEPT !.live = FALSE]
    <3>1. /\ deleted \in EventSource /\ ~deleted.live /\ deleted.gen = es[s].gen
          /\ deleted.spec = es[s].spec /\ deleted.label = es[s].label
      BY <2>1 DEF EventSource
    <3>2. es' = [es EXCEPT ![s] = deleted]
      BY <2>3
    <3> HIDE DEF deleted
    <3> QED
      BY <2>1, <2>3, <3>1, <3>2
  <2>4. CASE es' = es /\ ~es[s].live /\ \E e \in Events : fn' = [fn EXCEPT ![<<s, e>>] = None]
    BY <2>1, <2>4
  <2> QED
    BY <1>1, <2>2, <2>3, <2>4
<1>3. TypeInv'
  BY <1>0, <1>2 DEF TypeInv, esWorker
<1>4. WorkerInv'
  BY <1>0 DEF WorkerInv, AtWork, esWorker
<1>5. es[s].gen \in Nat /\ esCache[s].gen \in Nat
  BY DEF TypeInv, EventSource
<1>6. CacheInv'
  BY <1>0, <1>2, <1>5 DEF CacheInv
<1>7. FollowInv'
  <2> SUFFICES ASSUME NEW t \in Sources, es'[t].live PROVE SourceInv(t)'
    BY DEF FollowInv, SourceInv
  <2>1. CASE t = s
    <3>1. es'[s].gen # esCache'[s].gen
      BY <1>0, <1>2, <1>5, <2>1 DEF CacheInv
    <3> QED
      BY <2>1, <3>1 DEF SourceInv, Stale
  <2>2. CASE t # s
    <3>1. es'[t] = es[t] /\ \A e \in Events : fn'[<<t, e>>] = fn[<<t, e>>]
      BY <1>2, <2>2
    <3>2. (Stale(t)' <=> Stale(t)) /\ (Coming(t)' <=> Coming(t)) /\ (Done(t)' <=> Done(t))
      BY <1>0, <3>1, Untouched
    <3>3. (AtWork' <=> AtWork) /\ es[t].spec.events \subseteq Events
      BY <1>0 DEF AtWork, esWorker, TypeInv, EventSource, SourceSpec
    <3>4. Working(t)' <=> Working(t)
      BY <1>0, <3>1, <3>2, <3>3 DEF Working, Seen, esWorker
    <3> QED
      BY <1>0, <3>1, <3>2, <3>3, <3>4 DEF SourceInv, FollowInv, esWorker
  <2> QED
    BY <2>1, <2>2
<1> QED
  BY <1>3, <1>4, <1>6, <1>7

LEMMA WriteFailsStep ==
  ASSUME IInv, SourceWriteFails, UNCHANGED busVars
  PROVE  IInv'
<1> USE DEF IInv, busVars
<1>0. /\ changes' \in Nat /\ esPc' = "Error" /\ esCur \in Sources /\ AtWork
      /\ UNCHANGED <<esCache, esQueue, esBusEvents, esCur, esVersion, esTodo, newSinkUri, missed>>
      /\ esCache[esCur] \in EventSource /\ esLocal \in EventSource /\ esLocal.spec \in SourceSpec
  BY DEF SourceWriteFails, Change, TypeInv, EventSource, AtWork
<1>1. /\ es' \in [Sources -> EventSource] /\ CacheInv' /\ esLocal' \in EventSource
      /\ \A t \in Sources \ {esCur} : es'[t] = es[t]
  <2>1. CASE es' = es
    BY <1>0, <2>1 DEF TypeInv, CacheInv, SourceWriteFails
  <2>2. CASE /\ es[esCur] = esCache[esCur]
             /\ es' = [es EXCEPT ![esCur] = Bumped(esCache[esCur], Mutated(esCache[esCur]))]
    <3>1. CacheInv' /\ es' \in [Sources -> EventSource]
      BY <1>0, <2>2, WriteKeepsCacheInv
    <3> QED
      BY <1>0, <2>2, <3>1 DEF TypeInv, SourceWriteFails
  <2> QED
    BY <2>1, <2>2 DEF SourceWriteFails
<1>2. /\ fn' \in [Sources \X Events -> Serving \union {None}]
      /\ \A t \in Sources \ {esCur} : \A e \in Events : fn'[<<t, e>>] = fn[<<t, e>>]
  <2>1. ServingOf(esLocal.spec, esVersion) \in Serving
    BY <1>0 DEF ServingOf, TypeInv, Serving, SourceSpec, BusSpecs, WorkerInv
  <2>2. fn' = fn \/ \E e \in Events : fn' = [fn EXCEPT ![<<esCur, e>>] = ServingOf(esLocal.spec, esVersion)]
    BY DEF SourceWriteFails, TypeInv
  <2> QED
    BY <1>0, <2>1, <2>2 DEF TypeInv
<1>3. TypeInv'
  BY <1>0, <1>1, <1>2 DEF TypeInv
<1>4. WorkerInv'
  BY <1>0 DEF WorkerInv, AtWork
<1>5. FollowInv'
  <2> SUFFICES ASSUME NEW t \in Sources, es'[t].live PROVE SourceInv(t)'
    BY DEF FollowInv, SourceInv
  <2>1. CASE t = esCur
    BY <1>0, <2>1 DEF SourceInv
  <2>2. CASE t # esCur
    <3>1. es'[t] = es[t] /\ \A e \in Events : fn'[<<t, e>>] = fn[<<t, e>>]
      BY <1>1, <1>2, <2>2
    <3>2. (Stale(t)' <=> Stale(t)) /\ (Done(t)' <=> Done(t))
      BY <1>0, <3>1, Untouched
    <3> QED
      BY <1>0, <2>2, <3>1, <3>2 DEF SourceInv, FollowInv
  <2> QED
    BY <2>1, <2>2
<1> QED
  BY <1>1, <1>3, <1>4, <1>5

LEMMA CrashStep ==
  ASSUME IInv, CrashEvents
  PROVE  IInv'
<1> USE DEF IInv, CrashEvents, RestartSource, Change
<1>1. TypeInv'
  BY DEF TypeInv
<1>2. WorkerInv'
  BY DEF WorkerInv, AtWork
<1>3. CacheInv'
  BY DEF CacheInv, TypeInv, EventSource
<1>4. FollowInv'
  BY DEF FollowInv, SourceInv
<1> QED
  BY <1>1, <1>2, <1>3, <1>4

-----------------------------------------------------------------------------
(* Together.                                                               *)

LEMMA NextInv ==
  ASSUME IInv, [EventsNext]_vars
  PROVE  IInv'
<1>1. CASE (SourceStep \/ SourceWatch \/ CollectFunctions) /\ UNCHANGED <<busVars, changes, trVars>>
  <2>1. CASE \E s \in Sources : SourceGone(s) \/ StartSource(s)
    BY <1>1, <2>1, GoneStep, StartStep
  <2>2. CASE \E e \in Events : WriteFunction(e)
    BY <1>1, <2>2, FunctionStep
  <2>3. CASE UpdateSource
    BY <1>1, <2>3, UpdateStep
  <2>4. CASE ReadySource \/ FailSource
    BY <1>1, <2>4, EndStep
  <2>5. CASE \E s \in Sources : SyncSource(s)
    BY <1>1, <2>5, SyncStep
  <2>6. CASE \E b \in Buses : MapBus(b) \/ MapClusterBus(b)
    BY <1>1, <2>6, MapStep
  <2>7. CASE CollectFunctions
    BY <1>1, <2>7, UserStep DEF CollectFunctions
  <2> QED
    BY <1>1, <2>1, <2>2, <2>3, <2>4, <2>5, <2>6, <2>7 DEF SourceStep, SourceWatch
<1>2. CASE UNCHANGED <<busCache, esVars>> /\ changes' \in Nat /\ bus' \in [Kinds \X Buses -> BusSpecs]
  BY <1>2, OtherStep
<1>3. CASE (TriggerStep \/ TriggerWatch) /\ UNCHANGED <<busVars, changes, esVars>>
  BY <1>2, <1>3 DEF IInv, TypeInv, busVars
<1>4. CASE SourceTrouble /\ UNCHANGED <<busVars, trVars>>
  BY <1>4, UserStep, WriteFailsStep DEF SourceTrouble
<1>5. CASE TriggerTrouble /\ UNCHANGED <<busVars, esVars>>
  <2>1. changes' \in Nat
    BY <1>5 DEF TriggerTrouble, EditTrigger, TriggerWriteFails, Change, IInv, TypeInv
  <2> QED
    BY <1>2, <1>5, <2>1 DEF IInv, TypeInv, busVars
<1>6. CASE ChangeBus /\ UNCHANGED <<esVars, trVars>>
  BY <1>2, <1>6 DEF ChangeBus, Change, IInv, TypeInv
<1>7. CASE SeeBusChange
  BY <1>7, SeeBusStep DEF SeeBusChange
<1>8. CASE CrashEvents
  BY <1>8, CrashStep
<1>9. CASE UNCHANGED vars
  BY <1>2, <1>9 DEF IInv, TypeInv, vars, busVars
<1> QED
  BY <1>1, <1>3, <1>4, <1>5, <1>6, <1>7, <1>8, <1>9 DEF EventsNext

\* The invariant that both theorems rest on: a source that is not as it should be is in
\* the queue, on its way there, or with the worker.
THEOREM InvHolds == EventsSpec => []IInv
<1>1. EventsInit => IInv
  BY InitInv
<1>2. IInv /\ [EventsNext]_vars => IInv'
  BY NextInv
<1> QED
  BY <1>1, <1>2, PTL DEF EventsSpec

\* Whenever the reconciler of eventsource_controller.go has nothing left to do, every
\* EventSource can be served and its functions send to its sink and over its bus as they
\* are now, after any edits, deletions, conflicts, failures and restarts.
THEOREM FunctionsFollowHolds == EventsSpec => []FunctionsFollow
<1>1. IInv => FunctionsFollow
  <2> SUFFICES ASSUME IInv, SourceRest, NEW s \in Sources, es[s].live
               PROVE  /\ s \notin missed => SourceConfigured(es[s].spec)
                      /\ \A e \in es[s].spec.events :
                           /\ fn[<<s, e>>] # None /\ fn[<<s, e>>].sink = es[s].spec.sink
                           /\ s \notin missed => Followed(fn[<<s, e>>].version, es[s].spec)
    BY DEF FunctionsFollow
  <2>1. Done(s)
    BY DEF IInv, FollowInv, SourceInv, SourceRest, Stale, AtWork
  <2>2. s \notin missed => ~Coming(s)
    BY DEF SourceRest, Coming
  <2>3. es[s].spec.bus \in Buses \union {None}
    BY DEF IInv, TypeInv, EventSource, SourceSpec
  <2>4. s \notin missed => SourceConfigured(es[s].spec)
    <3> SUFFICES ASSUME s \notin missed, ~Misconfigured(es[s].spec, Seen(es[s].spec))
                 PROVE  SourceConfigured(es[s].spec)
      BY <2>1, <2>2 DEF Done
    <3>1. CASE es[s].spec.bus = None
      BY <3>1 DEF Misconfigured, SourceConfigured
    <3>2. CASE es[s].spec.bus # None
      <4>1. Seen(es[s].spec) = RetrieveBus(bus, es[s].spec.bus)
        BY <3>2 DEF Seen, SourceRest
      <4>2. RetrieveBus(bus, es[s].spec.bus) \in BusSpecs
        BY <2>3, <3>2 DEF RetrieveBus, IInv, TypeInv, Kinds
      <4> QED
        BY <3>2, <4>1, <4>2 DEF Misconfigured, SourceConfigured, HasBus, BusSpecs
    <3> QED
      BY <3>1, <3>2
  <2>5. ASSUME NEW e \in es[s].spec.events, s \notin missed
        PROVE  Followed(fn[<<s, e>>].version, es[s].spec)
    BY <2>1, <2>2, <2>5 DEF Done, Followed, Seen, SourceRest
  <2> QED
    BY <2>1, <2>4, <2>5 DEF Done
<1> QED
  BY <1>1, InvHolds, PTL

\* The reconciler of eventsource_controller.go writes no spec but one whose sink a user
\* replaced after it was read, and of that the sink alone; a source that was read with a
\* sink gets no other one, whichever sources the reconciler was at before.
THEOREM SpecsAreTheUsersHolds == EventsSpec => SpecsAreTheUsers
<1> DEFINE Kept == \A s \in Sources :
                     es'[s].spec # es[s].spec /\ changes' = changes =>
                       /\ esCur = s /\ esLocal.spec.sink # es[s].spec.sink
                       /\ es'[s].spec = [es[s].spec EXCEPT !.sink = es'[s].spec.sink]
                       /\ esLocal.spec.sink # None => es'[s].spec.sink = esLocal.spec.sink
<1>1. ASSUME IInv, EventsNext PROVE Kept
  <2> SUFFICES ASSUME NEW s \in Sources, es'[s].spec # es[s].spec, changes' = changes
               PROVE  /\ esCur = s /\ esLocal.spec.sink # es[s].spec.sink
                      /\ es'[s].spec = [es[s].spec EXCEPT !.sink = es'[s].spec.sink]
                      /\ esLocal.spec.sink # None => es'[s].spec.sink = esLocal.spec.sink
    OBVIOUS
  <2>1. es' # es /\ changes \in Nat
    BY <1>1 DEF IInv, TypeInv
  <2>2. ~Change
    BY <2>1 DEF Change
  <2>3. SourceStep \/ SourceWatch \/ CollectFunctions
    BY <1>1, <2>1, <2>2 DEF EventsNext, SourceTrouble, EditSource, DeleteSource, SourceWriteFails,
         TriggerTrouble, EditTrigger, TriggerWriteFails, ChangeBus, SeeBusChange, SeeBus, CrashEvents, esVars
  <2>4. UpdateSource \/ ReadySource \/ FailSource
    BY <2>1, <2>3 DEF SourceStep, SourceWatch, CollectFunctions, SourceGone, StartSource, WriteFunction,
         SyncSource, MapBus, MapClusterBus, CollectFunction
  <2>5. ~(ReadySource \/ FailSource)
    <3> SUFFICES ASSUME ReadySource \/ FailSource PROVE FALSE
      OBVIOUS
    <3>1. /\ esCur \in Sources /\ UNCHANGED esCache
          /\ \E cond \in {"Ready", "Error"} : es' = Saved(cond)
      BY <1>1 DEF ReadySource, FailSource, IInv, TypeInv
    <3> QED
      BY <1>1, <3>1, WhatIsSaved
  <2> DEFINE old == esCache[esCur]  new == Bumped(old, Mutated(old))
  <2>6. es[esCur] = old /\ es' = [es EXCEPT ![esCur] = new] /\ AtWork
    BY <2>1, <2>4, <2>5 DEF UpdateSource, AtWork
  <2>7. old \in EventSource /\ newSinkUri \in Uris \union {EmptyUri} /\ old.spec \in SourceSpec /\ esCur \in Sources
    BY <1>1, <2>6 DEF IInv, TypeInv, AtWork, EventSource
  <2>8. /\ new.spec = [old.spec EXCEPT !.sink = IF old.spec.sink # None THEN newSinkUri ELSE None]
        /\ new.gen = old.gen => new.spec = old.spec
        /\ (old.spec.sink # None => newSinkUri = old.spec.sink) => new.gen = old.gen
    BY <2>7, WhatIsWritten
  <2> HIDE DEF new
  <2>9. esCur = s /\ es'[s] = new /\ es[s] = old
    BY <1>1, <2>6, <2>7 DEF IInv, TypeInv
  <2>10. old.spec.sink # None /\ newSinkUri # old.spec.sink
    BY <2>8, <2>9
  <2>11. esLocal.spec.sink # old.spec.sink
    BY <1>1, <2>6, <2>10 DEF IInv, WorkerInv
  <2>12. es'[s].spec = [es[s].spec EXCEPT !.sink = newSinkUri] /\ es'[s].spec.sink = newSinkUri
    BY <2>7, <2>8, <2>9, <2>10 DEF SourceSpec
  <2>13. esLocal.spec.sink # None => newSinkUri = esLocal.spec.sink
    BY <1>1, <2>6 DEF IInv, WorkerInv
  <2> QED
    BY <2>9, <2>11, <2>12, <2>13
<1>2. IInv /\ [EventsNext]_vars => [Kept]_vars
  BY <1>1
<1>3. [][Kept]_vars => SpecsAreTheUsers
  BY PTL DEF SpecsAreTheUsers
<1> QED
  BY <1>2, <1>3, InvHolds, PTL DEF EventsSpec, SpecsAreTheUsers


-----------------------------------------------------------------------------
(* The trigger's half: its inductive invariant.                            *)

TriggerAtWork == trPc \in {"Function", "Update"}

TriggerTypeInv ==
  /\ tr \in [Triggers -> Trigger] /\ trCache \in [Triggers -> Trigger]
  /\ tfn \in [Triggers -> MadeFrom \union {None}]
  /\ trQueue \subseteq Triggers /\ overlooked \subseteq Triggers
  /\ trBusEvents \subseteq Kinds \X Buses
  /\ trPc \in {"Idle", "Function", "Update", "Ready", "Error"}
  /\ trPc # "Idle" => trCur \in Triggers /\ trLocal \in Trigger
  /\ trVersion \in BusSpecs

\* What the reconciler makes a function of can be served.
TriggerWorkerInv ==
  /\ TriggerAtWork => ~Refused(trLocal.spec, trVersion)
  /\ trPc = "Update" => trVersion # NoNats

\* The cache lags behind, as that of the sources does.
TriggerCacheInv ==
  \A t \in Triggers :
    /\ trCache[t].gen <= tr[t].gen
    /\ trCache[t].gen = tr[t].gen =>
         /\ trCache[t].spec = tr[t].spec
         /\ tr[t].label \in {trCache[t].label, tr[t].spec.bus}

StaleTrigger(t) == trCache[t].gen # tr[t].gen

\* The trigger is to be queued for its bus, or was overlooked.
ComingTrigger(t) ==
  \/ t \in overlooked
  \/ /\ tr[t].spec.bus # None
     /\ \/ <<"EventBus", tr[t].spec.bus>> \in trBusEvents
        \/ /\ busCache[<<"EventBus", tr[t].spec.bus>>] = None
           /\ <<"ClusterEventBus", tr[t].spec.bus>> \in trBusEvents

MakingTrigger(t) ==
  /\ trLocal.spec = tr[t].spec
  /\ trPc = "Update" => tfn[t] = [spec |-> trLocal.spec, version |-> trVersion]
  /\ ComingTrigger(t) \/ trVersion = Seen(tr[t].spec)

MadeTrigger(t) ==
  /\ tr[t].label = tr[t].spec.bus
  /\ tfn[t] # None /\ tfn[t].spec = tr[t].spec /\ ~Made[tr[t].spec].failed
  /\ ComingTrigger(t) \/ tfn[t].version = Seen(tr[t].spec)

TriggerInv(t) ==
  \/ t \in trQueue
  \/ StaleTrigger(t)
  \/ trCur = t /\ trPc = "Error"
  \/ trCur = t /\ TriggerAtWork /\ MakingTrigger(t)
  \/ ~(trCur = t /\ TriggerAtWork) /\ MadeTrigger(t)

TriggersInv ==
  /\ TriggerTypeInv /\ TriggerWorkerInv /\ TriggerCacheInv
  /\ \A t \in Triggers : TriggerInv(t)

-----------------------------------------------------------------------------
(* The trigger's half: one lemma for each step.                            *)

LEMMA InitTriggers == EventsInit => TriggersInv
<1> SUFFICES ASSUME EventsInit PROVE TriggersInv
  OBVIOUS
<1> USE DEF EventsInit, TriggerInit
<1>1. PICK spec \in [Triggers -> TriggerSpecs] :
         tr = [t \in Triggers |-> [spec |-> spec[t], gen |-> 0, label |-> None,
                              cond |-> "None", saves |-> 0]]
  OBVIOUS
<1>2. tr \in [Triggers -> Trigger]
  BY <1>1 DEF Trigger
<1>3. TriggerTypeInv
  BY <1>2 DEF TriggerTypeInv, BusSpecs
<1>4. TriggerWorkerInv
  BY DEF TriggerWorkerInv, TriggerAtWork
<1>5. TriggerCacheInv
  BY <1>2 DEF TriggerCacheInv, Trigger
<1> QED
  BY <1>3, <1>4, <1>5 DEF TriggersInv, TriggerInv

\* What stays when neither the Trigger controller nor the cache of the buses moves.
LEMMA OtherTriggerStep ==
  ASSUME TriggersInv, UNCHANGED <<busCache, trVars>>
  PROVE  TriggersInv'
<1> USE DEF TriggersInv, trVars, trWorker
<1>1. TriggerTypeInv' /\ TriggerWorkerInv' /\ TriggerCacheInv'
  BY DEF TriggerTypeInv, TriggerWorkerInv, TriggerCacheInv, TriggerAtWork, Refused
<1>2. ASSUME NEW t \in Triggers PROVE TriggerInv(t)'
  <2>1. (StaleTrigger(t)' <=> StaleTrigger(t)) /\ (ComingTrigger(t)' <=> ComingTrigger(t))
    BY DEF StaleTrigger, ComingTrigger
  <2>2. (MakingTrigger(t)' <=> MakingTrigger(t)) /\ (MadeTrigger(t)' <=> MadeTrigger(t))
    BY <2>1 DEF MakingTrigger, MadeTrigger, Seen, RetrieveBus
  <2> QED
    BY <2>1, <2>2 DEF TriggerInv, TriggerAtWork
<1> QED
  BY <1>1, <1>2

\* What is said of a trigger that the step does not touch.
LEMMA UntouchedTrigger ==
  ASSUME NEW t \in Triggers,
         tr'[t].spec = tr[t].spec, tr'[t].gen = tr[t].gen, tr'[t].label = tr[t].label,
         tfn'[t] = tfn[t], UNCHANGED <<trCache, busCache, trBusEvents, overlooked>>
  PROVE  /\ StaleTrigger(t)' <=> StaleTrigger(t)
         /\ ComingTrigger(t)' <=> ComingTrigger(t)
         /\ MadeTrigger(t)' <=> MadeTrigger(t)
<1>1. (StaleTrigger(t)' <=> StaleTrigger(t)) /\ (ComingTrigger(t)' <=> ComingTrigger(t))
  BY DEF StaleTrigger, ComingTrigger
<1>2. Seen(tr[t].spec)' = Seen(tr[t].spec)
  BY DEF Seen
<1> QED
  BY <1>1, <1>2 DEF MadeTrigger

LEMMA StartTriggerStep ==
  ASSUME IInv, TriggersInv, NEW s \in Triggers, StartTrigger(s), UNCHANGED busVars
  PROVE  TriggersInv'
<1> DEFINE spec == trCache[s].spec
<1> USE DEF TriggersInv, busVars
<1>0. /\ trPc = "Idle" /\ trQueue' = trQueue \ {s} /\ overlooked' = overlooked \ {s}
      /\ trCur' = s /\ trLocal' = trCache[s] /\ trVersion' = Seen(spec)
      /\ trPc' = IF Refused(spec, Seen(spec)) THEN "Error" ELSE "Function"
      /\ UNCHANGED <<tr, trCache, tfn, trBusEvents>>
  BY DEF StartTrigger, Seen
<1>1. spec.bus \in Buses \union {None} /\ trCache[s] \in Trigger /\ spec \in TriggerSpecs
  BY TriggerAssumption DEF TriggerTypeInv, Trigger, TriggerSpecOK
<1>2. Seen(spec) \in BusSpecs
  BY <1>1 DEF Seen, RetrieveBus, IInv, TypeInv, Kinds, BusSpecs
<1>3. TriggerTypeInv'
  BY <1>0, <1>1, <1>2 DEF TriggerTypeInv
<1>4. TriggerWorkerInv'
  BY <1>0 DEF TriggerWorkerInv, TriggerAtWork
<1>5. TriggerCacheInv'
  BY <1>0 DEF TriggerCacheInv
<1>6. ASSUME NEW t \in Triggers PROVE TriggerInv(t)'
  <2>1. StaleTrigger(t)' <=> StaleTrigger(t)
    BY <1>0 DEF StaleTrigger
  <2>2. CASE StaleTrigger(t)
    BY <2>1, <2>2 DEF TriggerInv
  <2>3. CASE t = s /\ ~StaleTrigger(t)
    <3>1. spec = tr[t].spec
      BY <2>3 DEF StaleTrigger, TriggerCacheInv
    <3>2. CASE trPc' = "Error"
      BY <1>0, <2>3, <3>2 DEF TriggerInv
    <3>3. CASE trPc' = "Function"
      <4>1. Seen(tr[t].spec)' = Seen(tr[t].spec)
        BY <1>0 DEF Seen
      <4>2. MakingTrigger(t)'
        BY <1>0, <2>3, <3>1, <3>3, <4>1 DEF MakingTrigger
      <4> QED
        BY <1>0, <2>3, <3>3, <4>2 DEF TriggerInv, TriggerAtWork
    <3> QED
      BY <1>0, <3>2, <3>3
  <2>4. CASE t # s /\ ~StaleTrigger(t)
    <3>1. ComingTrigger(t)' <=> ComingTrigger(t)
      BY <1>0, <2>4 DEF ComingTrigger
    <3>2. MadeTrigger(t)' <=> MadeTrigger(t)
      BY <1>0, <3>1 DEF MadeTrigger, Seen
    <3> QED
      BY <1>0, <2>4, <3>2 DEF TriggerInv, TriggerAtWork
  <2> QED
    BY <2>2, <2>3, <2>4
<1> QED
  BY <1>3, <1>4, <1>5, <1>6

LEMMA TriggerFunctionStep ==
  ASSUME TriggersInv, WriteTriggerFunction, UNCHANGED busVars
  PROVE  TriggersInv'
<1> DEFINE f == [spec |-> trLocal.spec, version |-> trVersion]
<1> USE DEF TriggersInv, busVars
<1>0. /\ trPc = "Function" /\ trCur \in Triggers /\ trLocal \in Trigger
      /\ \/ trVersion = NoNats /\ trPc' = "Error" /\ tfn' = tfn
         \/ trVersion # NoNats /\ trPc' = "Update" /\ tfn' = [tfn EXCEPT ![trCur] = f]
      /\ UNCHANGED <<tr, trCache, trQueue, trBusEvents, trCur, trLocal, trVersion, overlooked>>
  BY DEF WriteTriggerFunction, TriggerTypeInv
<1>1. trVersion # NoNats => f \in MadeFrom
  BY <1>0 DEF MadeFrom, Trigger, TriggerTypeInv, TriggerWorkerInv, TriggerAtWork, Refused, BusSpecs
<1> HIDE DEF f
<1>2. TriggerTypeInv'
  BY <1>0, <1>1 DEF TriggerTypeInv
<1>3. TriggerWorkerInv'
  BY <1>0 DEF TriggerWorkerInv, TriggerAtWork
<1>4. TriggerCacheInv'
  BY <1>0 DEF TriggerCacheInv
<1>5. ASSUME NEW t \in Triggers PROVE TriggerInv(t)'
  <2>1. CASE t = trCur
    <3>1. (StaleTrigger(t)' <=> StaleTrigger(t)) /\ (ComingTrigger(t)' <=> ComingTrigger(t))
      BY <1>0 DEF StaleTrigger, ComingTrigger
    <3>2. trPc' = "Update" => tfn'[t] = f
      BY <1>0, <2>1 DEF TriggerTypeInv
    <3>3. MakingTrigger(t) /\ trPc' = "Update" => MakingTrigger(t)'
      BY <1>0, <3>1, <3>2 DEF MakingTrigger, Seen, f
    <3> QED
      BY <1>0, <2>1, <3>1, <3>3 DEF TriggerInv, TriggerAtWork
  <2>2. CASE t # trCur
    <3>1. tfn'[t] = tfn[t]
      BY <1>0, <2>2 DEF TriggerTypeInv
    <3>2. (StaleTrigger(t)' <=> StaleTrigger(t)) /\ (MadeTrigger(t)' <=> MadeTrigger(t))
      BY <1>0, <3>1, UntouchedTrigger
    <3> QED
      BY <1>0, <2>2, <3>2 DEF TriggerInv, TriggerAtWork
  <2> QED
    BY <2>1, <2>2
<1> QED
  BY <1>2, <1>3, <1>4, <1>5

\* What the label, or an edit, makes of a Trigger.
LEMMA WrittenTrigger ==
  ASSUME NEW old \in Trigger
  PROVE  LET new == LabelTrigger(old) IN
         /\ new \in Trigger /\ new.spec = old.spec /\ new.gen = old.gen /\ new.label = old.spec.bus
<1>1. old.spec.bus \in Buses \union {None}
  BY TriggerAssumption DEF Trigger, TriggerSpecOK
<1> QED
  BY <1>1 DEF Trigger, LabelTrigger

\* The label is written to the Trigger as the cache has it.
Labels == tr[trCur] = trCache[trCur] /\ tr' = [tr EXCEPT ![trCur] = LabelTrigger(trCache[trCur])]
LEMMA LabelKeeps ==
  ASSUME TriggersInv, trCur \in Triggers, tr' = tr \/ Labels, UNCHANGED trCache
  PROVE  /\ tr' \in [Triggers -> Trigger] /\ TriggerCacheInv'
         /\ \A t \in Triggers :
              /\ tr'[t].spec = tr[t].spec /\ tr'[t].gen = tr[t].gen
              /\ t # trCur => tr'[t] = tr[t]
         /\ Labels => tr'[trCur].label = tr[trCur].spec.bus
<1> USE DEF TriggersInv
<1> DEFINE old == trCache[trCur]  new == LabelTrigger(old)
<1>1. old \in Trigger /\ new \in Trigger /\ new.spec = old.spec /\ new.gen = old.gen /\ new.label = old.spec.bus
  BY WrittenTrigger DEF TriggerTypeInv
<1> HIDE DEF new
<1>2. \A t \in Triggers : tr'[t] = tr[t] \/ (t = trCur /\ tr[t] = old /\ tr'[t] = new)
  BY DEF TriggerTypeInv, Labels, new
<1>3. tr' \in [Triggers -> Trigger]
  BY <1>1 DEF TriggerTypeInv, Labels, new
<1>4. TriggerCacheInv'
  BY <1>1, <1>2 DEF TriggerCacheInv
<1>5. Labels => tr'[trCur] = new /\ tr[trCur] = old
  BY DEF TriggerTypeInv, Labels, new
<1> QED
  BY <1>1, <1>2, <1>3, <1>4, <1>5

LEMMA UpdateTriggerStep ==
  ASSUME TriggersInv, UpdateTrigger, UNCHANGED busVars
  PROVE  TriggersInv'
<1> DEFINE seen == trCache[trCur]  new == LabelTrigger(seen)
<1> USE DEF TriggersInv, busVars
<1>0. /\ trPc = "Update" /\ trCur \in Triggers /\ seen \in Trigger /\ new \in Trigger
      /\ trPc' \in {"Ready", "Error"} /\ trLocal' \in {seen, new}
      /\ UNCHANGED <<trCache, tfn, trQueue, trBusEvents, trCur, trVersion, overlooked>>
      /\ tr' = tr \/ Labels
      /\ trPc' = "Ready" => (tr' = tr /\ new = seen) \/ Labels
  <2>1. trCur \in Triggers /\ seen \in Trigger /\ new \in Trigger
    BY WrittenTrigger DEF UpdateTrigger, TriggerTypeInv
  <2> QED
    BY <2>1 DEF UpdateTrigger, Labels
<1>1. /\ tr' \in [Triggers -> Trigger] /\ TriggerCacheInv'
      /\ \A t \in Triggers :
           /\ tr'[t].spec = tr[t].spec /\ tr'[t].gen = tr[t].gen
           /\ t # trCur => tr'[t] = tr[t]
      /\ Labels => tr'[trCur].label = tr[trCur].spec.bus
  BY <1>0, LabelKeeps
<1>2. new = seen => seen.label = seen.spec.bus
  BY <1>0, WrittenTrigger
<1> HIDE DEF new
<1>3. TriggerTypeInv'
  BY <1>0, <1>1 DEF TriggerTypeInv
<1>4. TriggerWorkerInv'
  BY <1>0 DEF TriggerWorkerInv, TriggerAtWork
<1>5. ASSUME NEW t \in Triggers PROVE TriggerInv(t)'
  <2>1. StaleTrigger(t)' <=> StaleTrigger(t)
    BY <1>0, <1>1 DEF StaleTrigger
  <2>2. CASE t # trCur
    <3>1. MadeTrigger(t)' <=> MadeTrigger(t)
      BY <1>0, <1>1, <2>2, UntouchedTrigger
    <3> QED
      BY <1>0, <2>1, <2>2, <3>1 DEF TriggerInv, TriggerAtWork
  <2>3. CASE t = trCur /\ (t \in trQueue \/ StaleTrigger(t) \/ trPc' = "Error")
    BY <1>0, <2>1, <2>3 DEF TriggerInv
  <2>4. CASE t = trCur /\ ~StaleTrigger(t) /\ MakingTrigger(t) /\ trPc' = "Ready"
    <3>1. tr'[t].label = tr'[t].spec.bus
      BY <1>0, <1>1, <1>2, <2>4 DEF StaleTrigger, TriggerCacheInv
    <3>2. /\ tfn'[t] = [spec |-> tr'[t].spec, version |-> trVersion]
          /\ ~Made[tr[t].spec].failed
      BY <1>0, <1>1, <2>4 DEF MakingTrigger, TriggerWorkerInv, TriggerAtWork, Refused
    <3>3. tfn'[t] # None
      <4>1. trLocal.spec \in TriggerSpecs /\ trVersion \in Versions
        BY <1>0 DEF TriggerTypeInv, Trigger, TriggerWorkerInv, TriggerAtWork, Refused, BusSpecs
      <4> QED
        BY <1>0, <2>4, <4>1, MadeFromAssumption DEF MakingTrigger, MadeFrom
    <3>4. /\ ComingTrigger(t)' <=> ComingTrigger(t)
          /\ Seen(tr[t].spec)' = Seen(tr[t].spec)
      BY <1>0, <1>1 DEF ComingTrigger, Seen
    <3>5. MadeTrigger(t)'
      BY <1>1, <2>4, <3>1, <3>2, <3>3, <3>4 DEF MadeTrigger, MakingTrigger
    <3> QED
      BY <1>0, <2>4, <3>5 DEF TriggerInv, TriggerAtWork
  <2> QED
    BY <1>0, <2>2, <2>3, <2>4 DEF TriggerInv, TriggerAtWork
<1> QED
  BY <1>1, <1>3, <1>4, <1>5

LEMMA EndTriggerStep ==
  ASSUME TriggersInv, ReadyTrigger \/ FailTrigger, UNCHANGED busVars
  PROVE  TriggersInv'
<1> USE DEF TriggersInv, busVars
<1>0. /\ trPc \in {"Ready", "Error"} /\ trPc' = "Idle" /\ trCur \in Triggers
      /\ \E cond \in {"Ready", "Error"} : tr' = SavedTrigger(cond)
      /\ trQueue \subseteq trQueue' /\ trQueue' \subseteq Triggers
      /\ trPc = "Error" => trCur \in trQueue'
      /\ UNCHANGED <<trCache, tfn, trBusEvents, trCur, trLocal, trVersion, overlooked>>
  BY DEF ReadyTrigger, FailTrigger, TriggerTypeInv
<1>1. /\ tr' \in [Triggers -> Trigger]
      /\ \A t \in Triggers :
           tr'[t].spec = tr[t].spec /\ tr'[t].gen = tr[t].gen /\ tr'[t].label = tr[t].label
  <2>1. PICK cond \in {"Ready", "Error"} : tr' = SavedTrigger(cond)
    BY <1>0
  <2> DEFINE saves == 1 - tr[trCur].saves  saved == [tr[trCur] EXCEPT !.cond = cond, !.saves = saves]
  <2>2. tr[trCur] \in Trigger /\ tr \in [Triggers -> Trigger]
    BY <1>0 DEF TriggerTypeInv
  <2>3. saves \in 0 .. 1
    <3>1. tr[trCur].saves \in 0 .. 1
      BY <2>2 DEF Trigger
    <3> QED
      BY <3>1
  <2>4. tr' = tr \/ tr' = [tr EXCEPT ![trCur] = saved]
    BY <2>1, <2>2 DEF SavedTrigger
  <2> HIDE DEF saves
  <2>5. /\ saved \in Trigger /\ saved.spec = tr[trCur].spec
        /\ saved.gen = tr[trCur].gen /\ saved.label = tr[trCur].label
    BY <2>2, <2>3 DEF Trigger
  <2> HIDE DEF saved
  <2> QED
    BY <1>0, <2>2, <2>4, <2>5
<1>2. TriggerTypeInv'
  BY <1>0, <1>1 DEF TriggerTypeInv
<1>3. TriggerWorkerInv'
  BY <1>0 DEF TriggerWorkerInv, TriggerAtWork
<1>4. TriggerCacheInv'
  BY <1>0, <1>1 DEF TriggerCacheInv
<1>5. ASSUME NEW t \in Triggers PROVE TriggerInv(t)'
  <2>1. (StaleTrigger(t)' <=> StaleTrigger(t)) /\ (MadeTrigger(t)' <=> MadeTrigger(t))
    BY <1>0, <1>1, UntouchedTrigger
  <2> QED
    BY <1>0, <2>1 DEF TriggerInv, TriggerAtWork
<1> QED
  BY <1>2, <1>3, <1>4, <1>5

LEMMA SyncTriggerStep ==
  ASSUME TriggersInv, NEW s \in Triggers, SyncTrigger(s), UNCHANGED busVars
  PROVE  TriggersInv'
<1> USE DEF TriggersInv, SyncTrigger, trWorker, busVars
<1>1. TriggerTypeInv'
  BY DEF TriggerTypeInv
<1>2. TriggerWorkerInv'
  BY DEF TriggerWorkerInv, TriggerAtWork
<1>3. \A t \in Triggers : trCache'[t] = IF t = s THEN tr[s] ELSE trCache[t]
  BY DEF TriggerTypeInv
<1>4. TriggerCacheInv'
  BY <1>3 DEF TriggerCacheInv, TriggerTypeInv, Trigger
<1>5. ASSUME NEW t \in Triggers PROVE TriggerInv(t)'
  <2>1. StaleTrigger(t) => StaleTrigger(t)' \/ t \in trQueue'
    BY <1>3 DEF StaleTrigger
  <2>2. ComingTrigger(t)' <=> ComingTrigger(t)
    BY DEF ComingTrigger
  <2>3. (MakingTrigger(t)' <=> MakingTrigger(t)) /\ (MadeTrigger(t)' <=> MadeTrigger(t))
    BY <2>2 DEF MakingTrigger, MadeTrigger, Seen
  <2> QED
    BY <2>1, <2>2, <2>3 DEF TriggerInv, TriggerAtWork
<1> QED
  BY <1>1, <1>2, <1>4, <1>5

\* What a change of buses in the cache, or a handler of the watch, keeps.
LEMMA TriggerBusKeeps ==
  ASSUME NEW t \in Triggers, UNCHANGED <<tr, trCache, tfn, trWorker>>,
         ComingTrigger(t) => ComingTrigger(t)',
         ComingTrigger(t)' \/ Seen(tr[t].spec)' = Seen(tr[t].spec)
  PROVE  /\ StaleTrigger(t)' <=> StaleTrigger(t)
         /\ TriggerAtWork' <=> TriggerAtWork
         /\ MakingTrigger(t) => MakingTrigger(t)'
         /\ MadeTrigger(t) => MadeTrigger(t)'
<1> USE DEF trWorker
<1>1. (StaleTrigger(t)' <=> StaleTrigger(t)) /\ (TriggerAtWork' <=> TriggerAtWork)
  BY DEF StaleTrigger, TriggerAtWork
<1>2. MakingTrigger(t) => MakingTrigger(t)'
  BY DEF MakingTrigger
<1>3. MadeTrigger(t) => MadeTrigger(t)'
  BY DEF MadeTrigger
<1> QED
  BY <1>1, <1>2, <1>3

LEMMA SeeTriggerBusStep ==
  ASSUME IInv, TriggersInv, NEW o \in Kinds \X Buses, SeeTriggerBus(o)
  PROVE  TriggersInv'
<1> USE DEF TriggersInv, SeeTriggerBus, CatchUpBus
<1>1. TriggerTypeInv' /\ TriggerWorkerInv' /\ TriggerCacheInv'
  BY DEF TriggerTypeInv, TriggerWorkerInv, TriggerCacheInv, TriggerAtWork, trWorker
<1>2. ASSUME NEW t \in Triggers PROVE TriggerInv(t)'
  <2> DEFINE b == tr[t].spec.bus
  <2>1. b \in Buses \union {None} /\ None \notin Buses
    BY BusesAssumption, TriggerAssumption DEF TriggerTypeInv, Trigger, TriggerSpecOK
  <2>2. \A p \in Kinds \X Buses : busCache'[p] = IF p = o THEN bus[o] ELSE busCache[p]
    BY DEF IInv, TypeInv
  <2>3. b # None => <<"EventBus", b>> \in Kinds \X Buses /\ <<"ClusterEventBus", b>> \in Kinds \X Buses
    BY <2>1 DEF Kinds
  <2>4. /\ ComingTrigger(t) => ComingTrigger(t)'
        /\ ComingTrigger(t)' \/ Seen(tr[t].spec)' = Seen(tr[t].spec)
    <3>1. CASE b = None
      BY <3>1 DEF ComingTrigger, Seen
    <3>2. CASE b # None /\ o = <<"EventBus", b>>
      BY <3>2 DEF ComingTrigger
    <3>3. CASE b # None /\ o = <<"ClusterEventBus", b>>
      <4>1. o # <<"EventBus", b>>
        BY <3>3
      <4>2. busCache'[<<"EventBus", b>>] = busCache[<<"EventBus", b>>]
        BY <2>2, <2>3, <3>3, <4>1
      <4>3. CASE busCache[<<"EventBus", b>>] = None
        BY <3>3, <4>2, <4>3 DEF ComingTrigger
      <4>4. CASE busCache[<<"EventBus", b>>] # None
        BY <3>3, <4>2, <4>4 DEF ComingTrigger, Seen, RetrieveBus
      <4> QED
        BY <4>3, <4>4
    <3>4. CASE b # None /\ o # <<"EventBus", b>> /\ o # <<"ClusterEventBus", b>>
      <4>1. /\ busCache'[<<"EventBus", b>>] = busCache[<<"EventBus", b>>]
            /\ busCache'[<<"ClusterEventBus", b>>] = busCache[<<"ClusterEventBus", b>>]
        BY <2>2, <2>3, <3>4
      <4> QED
        BY <3>4, <4>1 DEF ComingTrigger, Seen, RetrieveBus
    <3> QED
      BY <3>1, <3>2, <3>3, <3>4
  <2>5. /\ StaleTrigger(t)' <=> StaleTrigger(t)
        /\ TriggerAtWork' <=> TriggerAtWork
        /\ MakingTrigger(t) => MakingTrigger(t)'
        /\ MadeTrigger(t) => MadeTrigger(t)'
    BY <2>4, TriggerBusKeeps
  <2> QED
    BY <2>5 DEF TriggerInv, trWorker
<1> QED
  BY <1>1, <1>2

LEMMA MapTriggerStep ==
  ASSUME TriggersInv, NEW b \in Buses, MapTriggerBus(b) \/ MapTriggerClusterBus(b), UNCHANGED busVars
  PROVE  TriggersInv'
<1> USE DEF TriggersInv, busVars
<1>0. /\ UNCHANGED <<tr, trCache, tfn, trWorker>>
      /\ trQueue \subseteq trQueue' /\ trQueue' \subseteq Triggers
      /\ overlooked \subseteq overlooked' /\ overlooked' \subseteq Triggers /\ trBusEvents' \subseteq trBusEvents
  BY DEF MapTriggerBus, MapTriggerClusterBus, TriggerTypeInv
<1>1. TriggerTypeInv' /\ TriggerWorkerInv' /\ TriggerCacheInv'
  BY <1>0 DEF TriggerTypeInv, TriggerWorkerInv, TriggerCacheInv, TriggerAtWork, trWorker
<1>2. ASSUME NEW t \in Triggers PROVE TriggerInv(t)'
  <2>0. TriggerInv(t) /\ None \notin Buses
    BY BusesAssumption
  <2>1. Seen(tr[t].spec)' = Seen(tr[t].spec) /\ (StaleTrigger(t)' <=> StaleTrigger(t))
    BY <1>0 DEF Seen, StaleTrigger
  <2>2. CASE StaleTrigger(t)
    BY <2>1, <2>2 DEF TriggerInv
  <2>3. CASE ~StaleTrigger(t) /\ (ComingTrigger(t) => ComingTrigger(t)')
    <3>1. /\ TriggerAtWork' <=> TriggerAtWork
          /\ MakingTrigger(t) => MakingTrigger(t)'
          /\ MadeTrigger(t) => MadeTrigger(t)'
      BY <1>0, <2>1, <2>3, TriggerBusKeeps
    <3> QED
      BY <1>0, <2>0, <2>1, <3>1 DEF TriggerInv, trWorker
  <2>4. CASE ~StaleTrigger(t) /\ ComingTrigger(t) /\ ~(ComingTrigger(t)')
    <3>1. tr[t].spec.bus = b /\ trCache[t].spec.bus = b
      BY <1>0, <2>4 DEF ComingTrigger, MapTriggerBus, MapTriggerClusterBus, StaleTrigger, TriggerCacheInv
    <3>2. CASE MapTriggerBus(b)
      BY <3>1, <3>2 DEF MapTriggerBus, TriggerInv
    <3>3. CASE MapTriggerClusterBus(b) /\ t \in trQueue
      BY <1>0, <3>3 DEF TriggerInv
    <3>4. CASE MapTriggerClusterBus(b) /\ trCur = t /\ trPc = "Error"
      BY <1>0, <3>4 DEF TriggerInv, trWorker
    <3>5. CASE MapTriggerClusterBus(b) /\ t \notin trQueue /\ ~(trCur = t /\ trPc = "Error")
      <4>1. busCache[<<"EventBus", b>>] = None
        BY <2>4, <3>1, <3>5 DEF ComingTrigger, MapTriggerClusterBus
      <4>2. trCache[t].label = b
        <5>1. t \notin overlooked'
          BY <2>4 DEF ComingTrigger
        <5>2. CASE trCache[t].label # b
          <6>1. ~(trPc # "Idle" /\ trCur = t) /\ tr[t].label = trCache[t].label
            BY <3>5, <5>1, <5>2 DEF MapTriggerClusterBus
          <6>2. MadeTrigger(t)
            BY <2>0, <2>4, <3>5, <6>1 DEF TriggerInv, TriggerAtWork
          <6> QED
            BY <3>1, <6>1, <6>2 DEF MadeTrigger
        <5> QED
          BY <5>2
      <4> QED
        BY <3>1, <3>5, <4>1, <4>2 DEF MapTriggerClusterBus, BusOfTrigger, TriggerInv
    <3> QED
      BY <3>2, <3>3, <3>4, <3>5
  <2> QED
    BY <2>2, <2>3, <2>4
<1> QED
  BY <1>1, <1>2

LEMMA EditTriggerStep ==
  ASSUME TriggersInv, NEW s \in Triggers, EditTrigger(s), UNCHANGED busVars
  PROVE  TriggersInv'
<1> USE DEF TriggersInv, busVars
<1>1. PICK spec \in TriggerSpecs : tr' = [tr EXCEPT ![s].spec = spec, ![s].gen = @ + 1]
  BY DEF EditTrigger
<1> DEFINE gen == tr[s].gen + 1  edited == [tr[s] EXCEPT !.spec = spec, !.gen = gen]
<1>2. tr[s] \in Trigger /\ tr[s].gen \in Nat /\ trCache[s].gen \in Nat /\ gen \in Nat
  BY DEF TriggerTypeInv, Trigger
<1>3. tr' = [tr EXCEPT ![s] = edited]
  BY <1>1 DEF TriggerTypeInv
<1> HIDE DEF gen
<1>4. edited \in Trigger /\ edited.gen = gen
  BY <1>2 DEF Trigger
<1> HIDE DEF edited
<1>5. UNCHANGED <<trCache, tfn, trQueue, trBusEvents, trWorker, overlooked>>
  BY DEF EditTrigger
<1>6. tr' \in [Triggers -> Trigger] /\ tr'[s].gen = gen /\ \A t \in Triggers \ {s} : tr'[t] = tr[t]
  BY <1>3, <1>4 DEF TriggerTypeInv
<1>7. TriggerTypeInv' /\ TriggerWorkerInv'
  BY <1>5, <1>6 DEF TriggerTypeInv, TriggerWorkerInv, TriggerAtWork, trWorker
<1>8. trCache[s].gen < gen
  BY <1>2 DEF gen, TriggerCacheInv
<1>9. TriggerCacheInv'
  BY <1>2, <1>5, <1>6, <1>8 DEF TriggerCacheInv
<1>10. ASSUME NEW t \in Triggers PROVE TriggerInv(t)'
  <2>1. CASE t = s
    BY <1>2, <1>5, <1>6, <1>8, <2>1 DEF TriggerInv, StaleTrigger
  <2>2. CASE t # s
    <3>1. tr'[t] = tr[t]
      BY <1>6, <2>2
    <3>2. /\ StaleTrigger(t)' <=> StaleTrigger(t)
          /\ ComingTrigger(t)' <=> ComingTrigger(t)
          /\ MadeTrigger(t)' <=> MadeTrigger(t)
      BY <1>5, <3>1, UntouchedTrigger
    <3>3. MakingTrigger(t)' <=> MakingTrigger(t)
      BY <1>5, <3>1, <3>2 DEF MakingTrigger, Seen, trWorker
    <3> QED
      BY <1>5, <3>2, <3>3 DEF TriggerInv, TriggerAtWork, trWorker
  <2> QED
    BY <2>1, <2>2
<1> QED
  BY <1>7, <1>9, <1>10

LEMMA TriggerWriteFailsStep ==
  ASSUME TriggersInv, TriggerWriteFails, UNCHANGED busVars
  PROVE  TriggersInv'
<1> DEFINE f == [spec |-> trLocal.spec, version |-> trVersion]
<1> USE DEF TriggersInv, busVars
<1>0. /\ trPc' = "Error" /\ trCur \in Triggers /\ trPc \in {"Function", "Update"}
      /\ trLocal \in Trigger /\ trLocal' \in Trigger
      /\ UNCHANGED <<trCache, trQueue, trBusEvents, trCur, trVersion, overlooked>>
      /\ tr' = tr \/ Labels
      /\ tfn' = tfn \/ (trPc = "Function" /\ trVersion # NoNats /\ tfn' = [tfn EXCEPT ![trCur] = f])
  <2>1. trPc \in {"Function", "Update"} /\ trCur \in Triggers /\ trLocal \in Trigger /\ trCache[trCur] \in Trigger
    BY DEF TriggerWriteFails, TriggerTypeInv
  <2> QED
    BY <2>1 DEF TriggerWriteFails, Labels
<1>1. trVersion # NoNats /\ trPc = "Function" => f \in MadeFrom
  BY <1>0 DEF MadeFrom, Trigger, TriggerTypeInv, TriggerWorkerInv, TriggerAtWork, Refused, BusSpecs
<1> HIDE DEF f
<1>2. /\ tr' \in [Triggers -> Trigger] /\ TriggerCacheInv'
      /\ \A t \in Triggers \ {trCur} : tr'[t] = tr[t]
  BY <1>0, LabelKeeps
<1>3. tfn' \in [Triggers -> MadeFrom \union {None}] /\ \A t \in Triggers \ {trCur} : tfn'[t] = tfn[t]
  BY <1>0, <1>1 DEF TriggerTypeInv
<1>4. TriggerTypeInv' /\ TriggerWorkerInv'
  BY <1>0, <1>2, <1>3 DEF TriggerTypeInv, TriggerWorkerInv, TriggerAtWork
<1>5. ASSUME NEW t \in Triggers PROVE TriggerInv(t)'
  <2>1. CASE t = trCur
    BY <1>0, <2>1 DEF TriggerInv
  <2>2. CASE t # trCur
    <3>1. (StaleTrigger(t)' <=> StaleTrigger(t)) /\ (MadeTrigger(t)' <=> MadeTrigger(t))
      BY <1>0, <1>2, <1>3, <2>2, UntouchedTrigger
    <3> QED
      BY <1>0, <2>2, <3>1 DEF TriggerInv, TriggerAtWork
  <2> QED
    BY <2>1, <2>2
<1> QED
  BY <1>2, <1>4, <1>5

LEMMA RestartTriggerStep ==
  ASSUME TriggersInv, RestartTrigger
  PROVE  TriggersInv'
<1> USE DEF TriggersInv, RestartTrigger
<1>1. TriggerTypeInv' /\ TriggerWorkerInv'
  BY DEF TriggerTypeInv, TriggerWorkerInv, TriggerAtWork
<1>2. TriggerCacheInv'
  BY DEF TriggerCacheInv, TriggerTypeInv, Trigger
<1>3. \A t \in Triggers : TriggerInv(t)'
  BY DEF TriggerInv
<1> QED
  BY <1>1, <1>2, <1>3

LEMMA NextTriggers ==
  ASSUME IInv, TriggersInv, [EventsNext]_vars
  PROVE  TriggersInv'
<1>1. CASE (TriggerStep \/ TriggerWatch) /\ UNCHANGED <<busVars, changes, esVars>>
  <2>1. CASE \E t \in Triggers : StartTrigger(t)
    BY <1>1, <2>1, StartTriggerStep
  <2>2. CASE WriteTriggerFunction
    BY <1>1, <2>2, TriggerFunctionStep
  <2>3. CASE UpdateTrigger
    BY <1>1, <2>3, UpdateTriggerStep
  <2>4. CASE ReadyTrigger \/ FailTrigger
    BY <1>1, <2>4, EndTriggerStep
  <2>5. CASE \E t \in Triggers : SyncTrigger(t)
    BY <1>1, <2>5, SyncTriggerStep
  <2>6. CASE \E b \in Buses : MapTriggerBus(b) \/ MapTriggerClusterBus(b)
    BY <1>1, <2>6, MapTriggerStep
  <2> QED
    BY <1>1, <2>1, <2>2, <2>3, <2>4, <2>5, <2>6 DEF TriggerStep, TriggerWatch
<1>2. CASE TriggerTrouble /\ UNCHANGED <<busVars, esVars>>
  BY <1>2, EditTriggerStep, TriggerWriteFailsStep DEF TriggerTrouble
<1>3. CASE UNCHANGED <<busCache, trVars>>
  BY <1>3, OtherTriggerStep
<1>4. CASE \/ (SourceStep \/ SourceWatch \/ CollectFunctions) /\ UNCHANGED <<busVars, changes, trVars>>
           \/ SourceTrouble /\ UNCHANGED <<busVars, trVars>>
           \/ ChangeBus /\ UNCHANGED <<esVars, trVars>>
  BY <1>3, <1>4 DEF ChangeBus, busVars
<1>5. CASE SeeBusChange
  BY <1>5, SeeTriggerBusStep DEF SeeBusChange
<1>6. CASE CrashEvents
  BY <1>6, RestartTriggerStep DEF CrashEvents
<1>7. CASE UNCHANGED vars
  BY <1>3, <1>7 DEF vars, busVars
<1> QED
  BY <1>1, <1>2, <1>4, <1>5, <1>6, <1>7 DEF EventsNext

\* The invariant of the trigger's half: a Trigger that is not as it should be is in the
\* queue of trigger_controller.go, on its way there, or with the worker.
THEOREM TriggersHold == EventsSpec => [](IInv /\ TriggersInv)
<1>1. EventsInit => TriggersInv
  BY InitTriggers
<1>2. IInv /\ TriggersInv /\ [EventsNext]_vars => TriggersInv'
  BY NextTriggers
<1> QED
  BY <1>1, <1>2, InvHolds, PTL DEF EventsSpec

LEMMA ServedAtRest ==
  ASSUME IInv, TriggersInv, TriggerRest, NEW t \in Triggers
  PROVE  TriggerServed(t)
<1>1. MadeTrigger(t)
  BY DEF TriggersInv, TriggerInv, TriggerRest, StaleTrigger, TriggerAtWork
<1>2. tr[t].spec \in TriggerSpecs /\ tr[t].spec.bus \in Buses \union {None} /\ None \notin Buses
  BY TriggerAssumption, BusesAssumption DEF TriggersInv, TriggerTypeInv, Trigger, TriggerSpecOK
<1>3. tr[t].spec.subscribers # Nothing
  BY <1>1, <1>2 DEF MadeTrigger, Made, HandleSubscriber, Empty
<1>4. ASSUME t \notin overlooked
      PROVE  HasBus(tr[t].spec) /\ Followed(tfn[t].version, tr[t].spec)
  <2>1. tfn[t].version = Seen(tr[t].spec)
    BY <1>1, <1>4 DEF MadeTrigger, ComingTrigger, TriggerRest
  <2>2. tfn[t].version \in Versions
    BY <1>1 DEF MadeTrigger, TriggersInv, TriggerTypeInv, MadeFrom
  <2>3. tr[t].spec.bus # None
    BY <2>1, <2>2, BusesAssumption DEF Seen
  <2> QED
    BY <2>1, <2>2, <2>3 DEF HasBus, Followed, Seen, TriggerRest
<1> QED
  BY <1>1, <1>3, <1>4 DEF TriggerServed, MadeTrigger

\* Whenever the reconciler of trigger_controller.go has nothing left to do, every Trigger
\* has a function made of its spec as it is and, but for a change of its bus that it was
\* overlooked for, of its bus as it is.
THEOREM TriggersServed == EventsSpec => [](TriggerRest => \A t \in Triggers : TriggerServed(t))
<1>1. IInv /\ TriggersInv => (TriggerRest => \A t \in Triggers : TriggerServed(t))
  BY ServedAtRest
<1> QED
  BY <1>1, TriggersHold, PTL

\* And what the handler of each Trigger sends reaches the subscribers, given that
\* handleSubscriber does right by the lists that users write.
THEOREM SubscribersReachedHolds ==
  ASSUME \A spec \in TriggerSpecs : Handled(spec.subscribers)
  PROVE  EventsSpec => []SubscribersReached
<1>1. IInv /\ TriggersInv => SubscribersReached
  <2> SUFFICES ASSUME IInv, TriggersInv, TriggerRest, NEW t \in Triggers
               PROVE  LET subs == tr[t].spec.subscribers IN
                      /\ TriggerServed(t)
                      /\ Plain(subs) => \A sub \in Range(subs) : Sent(TriggerFunction(tfn[t]), sub)
    BY DEF SubscribersReached
  <2> DEFINE subs == tr[t].spec.subscribers  made == HandleSubscriber(subs)
  <2>1. TriggerServed(t) /\ MadeTrigger(t) /\ tr[t].spec \in TriggerSpecs
    BY ServedAtRest DEF TriggersInv, TriggerTypeInv, Trigger, TriggerInv, TriggerRest, StaleTrigger, TriggerAtWork
  <2>2. Made[tr[t].spec] = made
    BY <2>1 DEF Made
  <2> HIDE DEF made
  <2>3. ~made.failed /\ tfn[t].spec = tr[t].spec
    BY <2>1, <2>2 DEF MadeTrigger
  <2>4. Plain(subs) => \A sub \in Range(subs) : Sent(made, sub)
    BY <2>1, <2>3 DEF Handled, made
  <2>5. /\ TriggerFunction(tfn[t]).outputs = made.outputs
        /\ TriggerFunction(tfn[t]).bindings = made.bindings
        /\ TriggerFunction(tfn[t]).config = made.config
    BY <2>2, <2>3 DEF TriggerFunction
  <2>6. ASSUME NEW sub PROVE Sent(TriggerFunction(tfn[t]), sub) <=> Sent(made, sub)
    BY <2>5 DEF Sent, SinkUrls, BusTopics, Targets
  <2> QED
    BY <2>1, <2>4, <2>6
<1> QED
  BY <1>1, TriggersHold, PTL

\* Both reconcilers at rest, a Trigger listens for each event it names on the version of
\* the bus on which the function of the EventSource publishes it.
THEOREM ConnectedHolds == EventsSpec => []Connected
<1>1. IInv /\ TriggersInv /\ FunctionsFollow => Connected
  <2> SUFFICES ASSUME IInv, TriggersInv, FunctionsFollow, SourceRest, TriggerRest,
                      NEW t \in Triggers, NEW i \in tr[t].spec.inputs,
                      es[i[1]].live, i[2] \in es[i[1]].spec.events,
                      es[i[1]].spec.bus = tr[t].spec.bus,
                      i[1] \notin missed, t \notin overlooked
               PROVE  i \in TriggerFunction(tfn[t]).inputs /\ tfn[t].version = fn[i].version
    BY DEF Connected
  <2>1. i \in Sources \X Events
    BY InputsAssumption, TriggerAssumption DEF TriggersInv, TriggerTypeInv, Trigger, TriggerSpecOK
  <2>2. Followed(fn[i].version, es[i[1]].spec)
    BY <2>1 DEF FunctionsFollow
  <2>3. TriggerServed(t)
    BY ServedAtRest
  <2> QED
    BY <2>2, <2>3 DEF TriggerServed, Followed, TriggerFunction, HasBus
<1> QED
  BY <1>1, TriggersHold, FunctionsFollowHolds, PTL
=============================================================================
