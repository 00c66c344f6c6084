--------------------------- MODULE GatewayProperties ---------------------------
(* What the Gateway reconciler promises, over the state of GatewayController. *)
EXTENDS GatewayController

Asks(spec, k, n) == spec.target = k /\ n \in Named(spec.listeners)

\* No listener is left on a Kubernetes Gateway that nobody asks for any more:
\* whatever is there is in the spec of a Gateway or in what its annotation says was
\* applied last, which is all the reconciler takes off again.  This is what the
\* order of finalizer, clean up, update and annotation is for.  (Only a Gateway
\* that is changed before its last spec was recorded may leave listeners behind.)
Accounted ==
  \A k \in K8sGateways : \A n \in Named(k8s[k].listeners) \ {ForeignName} :
    \/ \E g \in Gateways : Asks(gw[g].spec, k, n) \/ Asks(gw[g].config, k, n)
    \/ \E g \in overtaken : \E s \in Wanted[g] : Asks(s, k, n)

\* The listener of the administrator changes only when they change it, or when
\* the Kubernetes Gateway goes, although every update writes all listeners back
\* from a cached copy.
ForeignKept ==
  [][\A k \in K8sGateways :
       k8s[k].live /\ k8s'[k].live /\ ~AdminEdits(k) =>
         k8s'[k].listeners[ForeignName] = k8s[k].listeners[ForeignName]]_vars

Applied(g) ==
  LET spec == gw[g].spec IN
  /\ ~gw[g].deleting /\ gw[g].finalizer /\ gw[g].config = spec
  /\ k8s[spec.target].live
  /\ \A n \in Named(spec.listeners) : k8s[spec.target].listeners[n] = spec.listeners[n]
  /\ service[g] = ServiceOf(gw[g])

\* When nothing is left to do every Gateway is applied: its listeners are on the
\* Kubernetes Gateway it refers to, next to those of others, its Service points
\* there, and no deletion is stuck.
Quiet == /\ pc = "Idle" /\ queue = {}
         /\ \A g \in Gateways : cacheFresh[g]
         /\ \A k \in K8sGateways : Current(k)
Reflected == Quiet => \A g \in Gateways : gw[g].live => Applied(g)

\* And it gets there: two Gateways that clean up and repair the same Kubernetes
\* Gateway do not keep each other busy, and a deleted one goes.  A gatewayRef to
\* nothing is retried until there is something.
Converges ==
  <>[](\A g \in Gateways :
         gw[g].live /\ (k8s[gw[g].spec.target].live \/ gw[g].spec.kind = "def") => Applied(g))
=============================================================================
