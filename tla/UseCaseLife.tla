---------------------------- MODULE UseCaseLife ----------------------------
(***************************************************************************)
(* What the deployment API promises of a use case, with none of the tables *)
(* it is kept in: a use case comes to life once, with its stack already    *)
(* accepted, is updated only while its stack is up and only to a config    *)
(* that no use case ever had, and ends after its stack was sent away; what *)
(* was deleted does not come back, and what was deleted for good is not    *)
(* even marked again.  Nothing is promised of a use case that commands     *)
(* have disturbed, by overlapping on it or by failing half way, except     *)
(* that its stack is built once and sent away once.                        *)
(***************************************************************************)

CONSTANTS UseCaseIds,
          Configs,  \* the configs that create and update bring along
          NoConfig

VARIABLES
    life,   \* of a use case, see Lives
    stack,  \* of a use case: "none", "up" or "down"
    config, \* the one that a live use case runs on, or NoConfig
    used    \* the configs that some use case has run on

vars == <<life, stack, config, used>>

Lives == {"absent", "live", "deleted", "removed", "disturbed"}

Init ==
    /\ life = [u \in UseCaseIds |-> "absent"]
    /\ stack = [u \in UseCaseIds |-> "none"]
    /\ config = [u \in UseCaseIds |-> NoConfig]
    /\ used = {}

Build(u) ==
    /\ stack[u] = "none" /\ life[u] \in {"absent", "disturbed"}
    /\ stack' = [stack EXCEPT ![u] = "up"]
    /\ UNCHANGED <<life, config, used>>

\* A deletion is accepted, or a creation fails.
SendAway(u) ==
    /\ stack[u] = "up"
    /\ stack' = [stack EXCEPT ![u] = "down"]
    /\ UNCHANGED <<life, config, used>>

RunOn(u, k) ==
    /\ k \notin used
    /\ used' = used \cup {k}
    /\ life' = [life EXCEPT ![u] = "live"]
    /\ config' = [config EXCEPT ![u] = k]
    /\ UNCHANGED stack

Create(u, k) == life[u] = "absent" /\ stack[u] # "none" /\ RunOn(u, k)

Update(u, k) == life[u] = "live" /\ stack[u] = "up" /\ RunOn(u, k)

\* u leaves one of the lives in from, for good.
Ends(u, from, to) ==
    /\ life[u] \in from
    /\ life' = [life EXCEPT ![u] = to]
    /\ config' = [config EXCEPT ![u] = NoConfig]
    /\ UNCHANGED <<stack, used>>

Delete(u) == stack[u] = "down" /\ Ends(u, {"live"}, "deleted")

Remove(u) == stack[u] = "down" /\ Ends(u, {"live", "deleted"}, "removed")

Disturb(u) == Ends(u, Lives \ {"disturbed"}, "disturbed")

\* A command completes on a use case that was disturbed.
Complete(u, k) ==
    /\ life[u] = "disturbed"
    /\ k \notin used
    /\ used' = used \cup {k}
    /\ UNCHANGED <<life, stack, config>>

Next ==
    \/ \E u \in UseCaseIds : Build(u) \/ SendAway(u) \/ Delete(u) \/ Remove(u) \/ Disturb(u)
    \/ \E u \in UseCaseIds, k \in Configs : Create(u, k) \/ Update(u, k) \/ Complete(u, k)

Spec == Init /\ [][Next]_vars
=============================================================================
