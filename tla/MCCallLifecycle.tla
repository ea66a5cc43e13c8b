-------------------------- MODULE MCCallLifecycle --------------------------
(* Small instances of CallLifecycle: where the SDRs sit, and which names    *)
(* may be exchanged.                                                        *)
EXTENDS CallLifecycle, TLC
CONSTANTS i1, i2, l1, l2

OneStation == [s \in Sdr |-> i1]

Scoped(triggers, calls, leads, max) ==
  [triggers |-> triggers, calls |-> calls, leads |-> leads, maxAttempts |-> max]

Dialer   == {"automatico"}
Failures == {"automatico", "failure"}
Everyone == AllTriggers \ {"manual"}

OneCall  == {Scoped(Dialer, 1, Lead, 1)}
TwoLeads == {Scoped(Dialer, 2, Lead, 2)}
\* desk: one call and everything around it; or two calls, one by hand, for one lead.
DeskScopes == {Scoped(Everyone, 1, {l1}, 2), Scoped({"automatico", "manual"}, 2, {l1}, 1)}
\* failures: two calls of a lead that fail in every way; or two leads, one line, one SDR.
FailureScopes == {Scoped(Failures, 2, {l}, 2) : l \in Lead} \cup TwoLeads

Symmetry == Permutations(Call)
SymmetryAll == Permutations(Call) \cup Permutations(Lead)
=============================================================================
