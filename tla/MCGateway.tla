----------------------------- MODULE MCGateway -----------------------------
(* Instances of the Gateway reconciler for TLC: who wants which listeners. *)
EXTENDS GatewayProperties, TLC

CONSTANTS g1, g2, k1, k2, internal, web, extra, more, foreign, c1, c2

L(names, c) == [n \in Names |-> IF n = internal THEN c1 ELSE IF n \in names THEN c ELSE NoListener]
Ref(k, l) == [kind |-> "ref", target |-> k, listeners |-> l]
Def(k, l) == [kind |-> "def", target |-> k, listeners |-> l]

\* A new Gateway joins one that is settled.  The new one shares the administrator's
\* Kubernetes Gateway and leaves for its own, or the other way round; the other one
\* changes a listener.
Joins == (g1 :> {Ref(k1, L({web}, c1)), Def(k2, L({web}, c1))}) @@ (g2 :> {Ref(k1, L({extra}, c2))})
Shared == (g1 :> Joins[g1]) @@ (g2 :> Joins[g2] \union {Ref(k1, L({more}, c2))})
=============================================================================
