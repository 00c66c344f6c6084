------------------------------ MODULE EventBuses ------------------------------
(***************************************************************************)
(* The EventBus and ClusterEventBus objects of one namespace, the informer *)
(* cache through which both event controllers see them, and the lookup     *)
(* they share (controllers/events/event.go).  A bus is as good as the      *)
(* version of its NATS streaming section.                                  *)
(***************************************************************************)
EXTENDS Naturals, FiniteSets

CONSTANTS
  Buses,           \* bus names; an EventBus and a ClusterEventBus may share one
  Versions,        \* contents of spec.natsStreaming
  NoNats,          \* the spec of a bus without spec.natsStreaming
  None,            \* nothing there: no object, no field, no label
  FirstBuses,      \* the buses there are at the start
  MaxChanges       \* bound: how often a user changes something or something fails

Kinds == {"EventBus", "ClusterEventBus"}
BusSpecs == Versions \union {NoNats, None}
ASSUME BusesAssumption ==
  /\ None \notin Buses /\ None \notin Versions /\ NoNats \notin Versions /\ NoNats # None
  /\ FirstBuses \subseteq [Kinds \X Buses -> BusSpecs]
  /\ MaxChanges \in Nat

VARIABLES
  bus,        \* the objects in the API server
  busCache,   \* the informer caches
  changes     \* how often users changed something or something failed
busVars == <<bus, busCache>>

BusTypeOK ==
  /\ bus \in [Kinds \X Buses -> BusSpecs] /\ busCache \in [Kinds \X Buses -> BusSpecs]
  /\ changes \in 0 .. MaxChanges

BusInit == bus \in FirstBuses /\ busCache = bus /\ changes = 0

\* An EventBus of the namespace hides the ClusterEventBus of its name.
RetrieveBus(objects, b) ==
  IF objects[<<"EventBus", b>>] # None THEN objects[<<"EventBus", b>>] ELSE objects[<<"ClusterEventBus", b>>]

Change == changes < MaxChanges /\ changes' = changes + 1

\* A user creates, changes or deletes a bus.
ChangeBus ==
  /\ Change
  /\ \E k \in Kinds, b \in Buses : \E v \in BusSpecs \ {bus[<<k, b>>]} : bus' = [bus EXCEPT ![<<k, b>>] = v]
  /\ UNCHANGED busCache

\* The informer delivers the state of a bus to the cache.
CatchUpBus(o) ==
  /\ busCache[o] # bus[o]
  /\ busCache' = [busCache EXCEPT ![o] = bus[o]]
  /\ UNCHANGED <<bus, changes>>
=============================================================================
