-------------------------- MODULE ProvisionPromise --------------------------
(***************************************************************************)
(* What GAAB promises to who asks it to provision an agent, with the status *)
(* events that it answers with and none of how it gets there: "ready" names *)
(* a use case whose stack was seen to be up while the request was being     *)
(* handled, and whose runtime was brought up to date after that; a request  *)
(* is answered once; and what has been answered, or given up, stays so.     *)
(***************************************************************************)
EXTENDS Naturals

CONSTANTS Requests,
          UseCases  \* 0 is none of them

VARIABLES
    up,      \* use cases whose stack is complete
    phase,   \* of a request
    names    \* the use case that a request has been seen up, or 0

vars == <<up, phase, names>>

Phases == {"waiting", "open", "seen", "synced", "failing", "ready", "failed", "given up"}

Init ==
    /\ up \in SUBSET UseCases
    /\ phase = [r \in Requests |-> "waiting"]
    /\ names = [r \in Requests |-> 0]

Moves(r, from, to) ==
    /\ phase[r] \in from
    /\ phase' = [phase EXCEPT ![r] = to]
    /\ UNCHANGED up

\* Stacks come and go.
World ==
    /\ up' \in SUBSET UseCases
    /\ UNCHANGED <<phase, names>>

Open(r) == Moves(r, {"waiting"}, "open") /\ UNCHANGED names

SeeUp(r, m) ==
    /\ m \in up
    /\ Moves(r, {"open"}, "seen")
    /\ names' = [names EXCEPT ![r] = m]

Sync(r) == Moves(r, {"seen"}, "synced") /\ UNCHANGED names

AnswerReady(r) == Moves(r, {"synced"}, "ready") /\ UNCHANGED names

Forget(r) == names' = [names EXCEPT ![r] = 0]

Fail(r) == Moves(r, {"waiting", "open", "seen"}, "failing") /\ Forget(r)

AnswerFailed(r) == Moves(r, {"failing"}, "failed") /\ UNCHANGED names

\* The invocation dies, or its answer is lost.
GiveUp(r) == Moves(r, {"open", "seen", "synced", "failing"}, "given up") /\ Forget(r)

Next ==
    \/ World
    \/ \E r \in Requests : \/ Open(r) \/ Sync(r) \/ AnswerReady(r)
                           \/ Fail(r) \/ AnswerFailed(r) \/ GiveUp(r)
    \/ \E r \in Requests, m \in UseCases : SeeUp(r, m)

Spec == Init /\ [][Next]_vars

=============================================================================
