------------------------ MODULE MCTenantDeprovision ------------------------
(* TLC instances of TenantDeprovision. *)
EXTENDS TenantDeprovision, TLC

\* The requests that delete are interchangeable, and so are the events.
Symmetry == Permutations(Requests \ Creations) \cup Permutations(Events)

SomeCalls == {"deleteStack", "crash"}
None == {}
OnlyCfn == {"cfn"}
BestEffort == {"engine", "gateway", "clear"}
=============================================================================
