------------------------ MODULE MCUseCaseManagement ------------------------
(* TLC instance of UseCaseManagement. *)
EXTENDS UseCaseManagement

CONSTANTS r1, r2, r3

AllFaults == Calls

\* Invocations are interchangeable, so r1 may be the first to start and r3 the
\* last: what symmetry would save, and liveness forbids to save that way.  A get
\* changes nothing for the others, so it may come last.
InOrder ==
    /\ (pc[r2] # "idle" => pc[r1] # "idle") /\ (pc[r3] # "idle" => pc[r2] # "idle")
    /\ \A r \in {r1, r2} : op[r] = "get" => pc[r] = "idle"

\* One of the configurations names MCP servers.
OneMcp == \A q, r \in withMcp : q = r

BoundedSpec == Init /\ [][Next /\ InOrder' /\ OneMcp']_vars /\ Fairness
=============================================================================
