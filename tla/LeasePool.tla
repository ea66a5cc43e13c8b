----------------------------- MODULE LeasePool -----------------------------
(***************************************************************************)
(* What the dialer needs from its call reservations, with no word on how   *)
(* Redis keeps them: a token claims a whole bundle of resources at once,   *)
(* while nobody else holds any of them, and later loses the whole bundle,  *)
(* because its call gave it back or because the lease ran out.             *)
(***************************************************************************)
CONSTANTS Token,     \* one per reservation attempt
          Bundles    \* the sets of resources one call needs together

VARIABLE claims      \* claims[t]: the resources token t holds now

Init == claims = [t \in Token |-> {}]

\* A free bundle goes to a token that holds nothing.
Acquire(t, bundle) ==
  /\ claims[t] = {}
  /\ \A u \in Token : claims[u] \cap bundle = {}
  /\ claims' = [claims EXCEPT ![t] = bundle]

\* Some tokens lose everything they hold: a release, or leases running out.
Drop(tokens) == claims' = [t \in Token |-> IF t \in tokens THEN {} ELSE claims[t]]

Next == \/ \E t \in Token, bundle \in Bundles : Acquire(t, bundle)
        \/ \E tokens \in SUBSET Token : Drop(tokens)

Spec == Init /\ [][Next]_claims
=============================================================================
