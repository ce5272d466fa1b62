-------------------------- MODULE WorkspacePolicy --------------------------
(***************************************************************************)
(* The policy engine of one workspace: tenant-policy-apply-subscriber      *)
(* creates it, fills it with Cedar policies, associates it with the MCP    *)
(* gateway and records it in the use case's config; the detach and         *)
(* teardown events of tenant-deprovision-subscriber undo that.  The four   *)
(* are kept by four services without a transaction, and nothing keeps two  *)
(* handlers of one workspace apart.                                        *)
(*                                                                         *)
(* An event e is handled by one Lambda invocation at a time and is         *)
(* delivered again when the handler throws or dies.  One action is one     *)
(* call that changes or decides something, with the code up to the next;   *)
(* calls that only wait for the call before them are part of it.           *)
(*                                                                         *)
(* The engine's name is derived from the workspace, so there is at most    *)
(* one at a time; successive ones are numbered.                            *)
(***************************************************************************)
EXTENDS Naturals

CONSTANTS Events,       \* EventBridge events of one workspace
          Versions,     \* policies that AIW may ask for, numbered from 1
          Forbidding,   \* those with limits or patterns that forbid a tool
          MaxEngines,   \* bound on the engines created
          MaxAttempts,  \* deliveries of one event
          MaxDeletes,   \* attempts of deletePolicyEngineWithRetry
          Faults        \* what may go wrong, see Mishaps

\* "ghost": DeletePolicyEngine finds an association no gateway shows; "slow":
\* an engine does not become active, or does not go, while it is waited for;
\* "config": the use case's config is not found when it is to be cleared.
Mishaps == {"emit", "load", "engine", "policy", "gateway", "clear", "ghost",
            "deleteFails", "slow", "crash", "config"}

ASSUME VersionsAssumption == Versions \subseteq Nat \ {0} /\ Forbidding \subseteq Versions
ASSUME BoundsAssumption == MaxEngines \in Nat /\ MaxAttempts \in Nat \ {0}
                           /\ MaxDeletes \in Nat \ {0}
ASSUME FaultsAssumption == Faults \subseteq Mishaps

VARIABLES
    \* AgentCore.
    engine,         \* number of the last engine created
    engineStatus,   \* "none" once it is deleted
    policies,       \* by name: the version of its statement, 0 if absent
    assoc,          \* number of the engine the gateway is associated with, or 0
    \* AgentCoreWorkspacePolicy in the use case's config.
    recordEngine, recordVersion,
    \* The handlers.
    kind, version,  \* what the event asks for
    targeted,       \* events that name the use case, whose config is to be cleared
    named,          \* events whose attempt has found the MCP gateway they name
    step, attempts,
    working,        \* the engine the handler works on
    seenEngine,     \* the engine in the config it read
    todo,           \* names of policies left to upsert or delete
    deletes,        \* DeletePolicyEngine calls that were blocked
    blocked,        \* detaches that gave up on deleting the engine
    unfound,        \* events whose attempt did not find the config to clear
    reported,       \* phases emitted
    \* History.
    overlapped,     \* events whose current attempt met another handler
    cut             \* events with an attempt that died or could not report

agentCoreVars == <<engine, engineStatus, policies, assoc>>
recordVars == <<recordEngine, recordVersion>>
eventVars == <<kind, version, targeted>>
workVars == <<working, named, seenEngine, todo, deletes, unfound>>
vars == <<engine, engineStatus, policies, assoc, recordEngine, recordVersion, kind, version,
          targeted, step, attempts, working, named, seenEngine, todo, deletes, unfound, blocked,
          reported, overlapped, cut>>

Names == {"governance", "forbid"}
Kinds == {"apply", "detach", "teardown"}
Engines == 0..MaxEngines
EngineStatuses == {"none", "ACTIVE", "CREATE_FAILED", "DELETING", "DELETE_FAILED"}
ApplySteps == {"load", "ensure", "create", "clearStale", "upsert", "prune", "associate", "patch"}
TeardownSteps == {"find", "disassociate", "heal", "healDetach", "list", "deletePolicies",
                  "deleteEngine", "await", "clear"}
Steps == ApplySteps \cup TeardownSteps
         \cup {"idle", "announce", "report", "fail", "retry", "done", "dead"}

TypeOK ==
    /\ engine \in Engines /\ engineStatus \in EngineStatuses /\ assoc \in Engines
    /\ policies \in [Names -> Versions \cup {0}]
    /\ recordEngine \in Engines /\ recordVersion \in Versions \cup {0}
    /\ kind \in [Events -> Kinds] /\ version \in [Events -> Versions \cup {0}]
    /\ targeted \subseteq Events /\ named \subseteq Events /\ unfound \subseteq Events
    /\ step \in [Events -> Steps] /\ attempts \in [Events -> 0..MaxAttempts]
    /\ working \in [Events -> Engines] /\ seenEngine \in [Events -> Engines]
    /\ todo \in [Events -> SUBSET Names] /\ deletes \in [Events -> 0..MaxDeletes - 1]
    /\ blocked \subseteq Events
    /\ reported \in [Events -> SUBSET {"started", "complete", "failed"}]
    /\ overlapped \subseteq Events /\ cut \subseteq Events

Init ==
    /\ engine = 0 /\ engineStatus = "none" /\ assoc = 0
    /\ policies = [n \in Names |-> 0]
    /\ recordEngine = 0 /\ recordVersion = 0
    /\ kind = [e \in Events |-> "teardown"] /\ version = [e \in Events |-> 0]
    /\ targeted = {} /\ named = {} /\ unfound = {}
    /\ step = [e \in Events |-> "idle"] /\ attempts = [e \in Events |-> 0]
    /\ working = [e \in Events |-> 0] /\ seenEngine = [e \in Events |-> 0]
    /\ todo = [e \in Events |-> {}] /\ deletes = [e \in Events |-> 0]
    /\ blocked = {} /\ reported = [e \in Events |-> {}]
    /\ overlapped = {} /\ cut = {}

MayFail(mishap) == mishap \in Faults

\* compileCedarFromWorkspacePolicy: the governance policy, and the one that
\* forbids tools only if something is forbidden.
Compiled(v) == IF v \in Forbidding THEN Names ELSE {"governance"}

Statements(v) == [n \in Names |-> IF n \in Compiled(v) THEN v ELSE 0]

Usable(g) == engine = g /\ engineStatus = "ACTIVE"

-----------------------------------------------------------------------------
(* Control helpers. *)

Running(e) == step[e] \notin {"idle", "retry", "done", "dead"}

HandlerAt(e, s) == step[e] = s

Goto(e, s) ==
    /\ step' = [step EXCEPT ![e] = s]
    /\ UNCHANGED <<attempts, overlapped, cut>>

\* The handler throws: the event is delivered again, MaxAttempts times in all.
Throw(e) ==
    /\ step' = [step EXCEPT ![e] = IF attempts[e] < MaxAttempts THEN "retry" ELSE "dead"]
    /\ UNCHANGED <<attempts, overlapped>>

\* A throw inside the try block: apply and detach report it first.
Fail(e) ==
    IF kind[e] = "teardown" THEN Throw(e) /\ UNCHANGED cut ELSE Goto(e, "fail")

-----------------------------------------------------------------------------
(* Delivery and reports. *)

FirstStep(k) == IF k = "teardown" THEN "find" ELSE "announce"

Deliver(e) ==
    LET others == {d \in Events \ {e} : Running(d)}
    IN  /\ attempts' = [attempts EXCEPT ![e] = @ + 1]
        /\ overlapped' = IF others = {} THEN overlapped \ {e}
                                        ELSE overlapped \cup others \cup {e}
        /\ deletes' = [deletes EXCEPT ![e] = 0]
        /\ todo' = [todo EXCEPT ![e] = {}]
        /\ working' = [working EXCEPT ![e] = 0]
        /\ seenEngine' = [seenEngine EXCEPT ![e] = 0]
        /\ blocked' = blocked \ {e} /\ named' = named \ {e} /\ unfound' = unfound \ {e}
        /\ UNCHANGED <<agentCoreVars, recordVars, reported, cut>>

\* A new event.
Receive(e, k, v, u) ==
    /\ HandlerAt(e, "idle")
    /\ kind' = [kind EXCEPT ![e] = k]
    /\ version' = [version EXCEPT ![e] = IF k = "apply" THEN v ELSE 0]
    /\ targeted' = IF u \/ k = "apply" THEN targeted \cup {e} ELSE targeted
    /\ step' = [step EXCEPT ![e] = FirstStep(k)]
    /\ Deliver(e)

\* EventBridge and Lambda deliver it again.
Redeliver(e) ==
    /\ HandlerAt(e, "retry")
    /\ step' = [step EXCEPT ![e] = FirstStep(kind[e])]
    /\ Deliver(e)
    /\ UNCHANGED eventVars

Report(e, phase) == reported' = [reported EXCEPT ![e] = @ \cup {phase}]

AfterAnnounce(k) == IF k = "apply" THEN "load" ELSE "find"

\* policy_apply_started is emitted before the try block, policy_detach_started
\* inside it.
Announce(e) ==
    /\ HandlerAt(e, "announce")
    /\ \/ Report(e, "started") /\ Goto(e, AfterAnnounce(kind[e]))
       \/ /\ MayFail("emit")
          /\ UNCHANGED reported
          /\ IF kind[e] = "apply" THEN Throw(e) /\ cut' = cut \cup {e} ELSE Goto(e, "fail")
    /\ UNCHANGED <<agentCoreVars, recordVars, eventVars, workVars, blocked>>

\* The last emission, or the end of a teardown.  An emission that fails is
\* caught, but for that of a blocked detach, which is in the catch block.
Finish(e) ==
    /\ HandlerAt(e, "report")
    /\ \/ kind[e] # "teardown" /\ Report(e, "complete") /\ Goto(e, "done")
       \/ kind[e] = "teardown" /\ UNCHANGED reported /\ Goto(e, "done")
       \/ /\ MayFail("emit") /\ kind[e] # "teardown"
          /\ UNCHANGED reported
          /\ IF e \in blocked THEN Throw(e) /\ cut' = cut \cup {e} ELSE Goto(e, "fail")
    /\ UNCHANGED <<agentCoreVars, recordVars, eventVars, workVars, blocked>>

\* Mutant: the failure is logged and rethrown only.
ReportFailureSkipped(e) ==
    /\ HandlerAt(e, "fail")
    /\ Throw(e)
    /\ UNCHANGED <<agentCoreVars, recordVars, eventVars, workVars, blocked, reported, cut>>

\* The catch block of runPolicyApply and of the detach handler.
ReportFailure(e) ==
    /\ HandlerAt(e, "fail")
    /\ \/ Report(e, "failed") /\ UNCHANGED cut
       \/ MayFail("emit") /\ UNCHANGED reported /\ cut' = cut \cup {e}
    /\ Throw(e)
    /\ UNCHANGED <<agentCoreVars, recordVars, eventVars, workVars, blocked>>

-----------------------------------------------------------------------------
(* runPolicyApply *)

\* resolveMcpGatewayUseCaseId, resolveGatewayId and loadUseCaseConfig; any of
\* them may find nothing and throw.
LoadUseCaseConfig(e) ==
    /\ HandlerAt(e, "load")
    /\ \/ /\ seenEngine' = [seenEngine EXCEPT ![e] = recordEngine]
          /\ Goto(e, "ensure")
       \/ /\ MayFail("load")
          /\ Fail(e)
          /\ UNCHANGED seenEngine
    /\ UNCHANGED <<agentCoreVars, recordVars, eventVars, working, named, todo, deletes, unfound, blocked,
                   reported>>

\* What follows ensurePolicyEngine when it has found engine g.
Use(e, g) ==
    /\ working' = [working EXCEPT ![e] = g]
    /\ todo' = [todo EXCEPT ![e] = Compiled(version[e])]
    /\ Goto(e, IF seenEngine[e] \notin {0, g} THEN "clearStale" ELSE "upsert")

\* ensurePolicyEngine: the configured engine if it exists, else the one of
\* that name; its status is not looked at.
EnsurePolicyEngine(e) ==
    /\ HandlerAt(e, "ensure")
    /\ \/ engineStatus # "none" /\ Use(e, engine)
       \/ /\ engineStatus = "none"
          /\ Goto(e, "create")
          /\ UNCHANGED <<working, todo>>
       \/ /\ MayFail("engine")
          /\ Fail(e)
          /\ UNCHANGED <<working, todo>>
    /\ UNCHANGED <<agentCoreVars, recordVars, eventVars, named, seenEngine, deletes, unfound, blocked,
                   reported>>

\* CreatePolicyEngine and waitForPolicyEngineActive, which may wait in vain or
\* see the creation fail, and the engine is there for the next attempt; if
\* another handler was quicker, the engine found by name after the conflict.
CreatePolicyEngine(e) ==
    /\ HandlerAt(e, "create")
    /\ \/ /\ engineStatus = "none" /\ engine < MaxEngines
          /\ engine' = engine + 1 /\ engineStatus' = "ACTIVE"
          /\ Use(e, engine + 1)
       \/ /\ engineStatus = "none" /\ engine < MaxEngines /\ MayFail("slow")
          /\ engine' = engine + 1 /\ engineStatus' \in {"ACTIVE", "CREATE_FAILED"}
          /\ Fail(e)
          /\ UNCHANGED <<working, todo>>
       \/ /\ engineStatus # "none"
          /\ Use(e, engine)
          /\ UNCHANGED <<engine, engineStatus>>
       \/ /\ MayFail("engine")
          /\ Fail(e)
          /\ UNCHANGED <<engine, engineStatus, working, todo>>
    /\ UNCHANGED <<policies, assoc, recordVars, eventVars, named, seenEngine, deletes, unfound, blocked,
                   reported>>

\* clearAgentCoreWorkspacePolicyFromConfig
ClearStaleRecord(e) ==
    /\ HandlerAt(e, "clearStale")
    /\ \/ recordEngine' = 0 /\ recordVersion' = 0 /\ Goto(e, "upsert")
       \/ MayFail("clear") /\ Fail(e) /\ UNCHANGED recordVars
    /\ UNCHANGED <<agentCoreVars, eventVars, workVars, blocked, reported>>

AfterUpsert(left) == IF left = {} THEN "prune" ELSE "upsert"

\* Mutant: a policy that could not be updated is deleted and not recreated.
UpsertCedarPolicyDrops(e) ==
    /\ HandlerAt(e, "upsert")
    /\ \E n \in todo[e] :
           /\ Usable(working[e])
           /\ policies' = [policies EXCEPT ![n] = IF @ # 0 THEN 0 ELSE version[e]]
           /\ todo' = [todo EXCEPT ![e] = @ \ {n}]
           /\ Goto(e, AfterUpsert(todo[e] \ {n}))
    /\ UNCHANGED <<engine, engineStatus, assoc, recordVars, eventVars, working, named,
                   seenEngine, deletes, unfound, blocked, reported>>

\* upsertOneCedarPolicy.  An UpdatePolicy that fails is followed by a delete
\* of the policy, which may fail too, and a create: the second disjunct is
\* the delete, after which the policy is left to create.
UpsertCedarPolicy(e) ==
    /\ HandlerAt(e, "upsert")
    /\ \E n \in todo[e] :
           \/ /\ Usable(working[e])
              /\ policies' = [policies EXCEPT ![n] = version[e]]
              /\ todo' = [todo EXCEPT ![e] = @ \ {n}]
              /\ Goto(e, AfterUpsert(todo[e] \ {n}))
           \/ /\ Usable(working[e]) /\ policies[n] # 0 /\ MayFail("policy")
              /\ policies' = [policies EXCEPT ![n] = 0]
              /\ UNCHANGED todo
              /\ Goto(e, "upsert")
           \/ /\ ~Usable(working[e]) \/ MayFail("policy")
              /\ Fail(e)
              /\ UNCHANGED <<policies, todo>>
    /\ UNCHANGED <<engine, engineStatus, assoc, recordVars, eventVars, working, named,
                   seenEngine, deletes, unfound, blocked, reported>>

\* Mutant: policies of an earlier version are left on the engine.
PruneOrphansSkipped(e) ==
    /\ HandlerAt(e, "prune")
    /\ Goto(e, "associate")
    /\ UNCHANGED <<agentCoreVars, recordVars, eventVars, workVars, blocked, reported>>

\* pruneOrphanWorkspaceCedarPolicies
PruneOrphans(e) ==
    /\ HandlerAt(e, "prune")
    /\ \/ /\ Usable(working[e])
          /\ policies' = [n \in Names |-> IF n \in Compiled(version[e]) THEN policies[n] ELSE 0]
          /\ Goto(e, "associate")
       \/ /\ ~Usable(working[e]) \/ MayFail("policy")
          /\ Fail(e)
          /\ UNCHANGED policies
    /\ UNCHANGED <<engine, engineStatus, assoc, recordVars, eventVars, workVars, blocked, reported>>

\* associateGatewayPolicyEngine: whatever engine the gateway had is replaced.
\* AgentCore lets the gateway's role read the engine first, which must exist.
AssociateGateway(e) ==
    /\ HandlerAt(e, "associate")
    /\ \/ Usable(working[e]) /\ assoc' = working[e] /\ Goto(e, "patch")
       \/ (~Usable(working[e]) \/ MayFail("gateway")) /\ Fail(e) /\ UNCHANGED assoc
    /\ UNCHANGED <<engine, engineStatus, policies, recordVars, eventVars, workVars, blocked, reported>>

\* patchUseCaseAgentCorePolicy
PatchUseCase(e) ==
    /\ HandlerAt(e, "patch")
    /\ \/ /\ recordEngine' = working[e] /\ recordVersion' = version[e]
          /\ Goto(e, "report")
       \/ MayFail("clear") /\ Fail(e) /\ UNCHANGED recordVars
    /\ UNCHANGED <<agentCoreVars, eventVars, workVars, blocked, reported>>

-----------------------------------------------------------------------------
(* teardownWorkspacePolicyEngine, and the handlers that call it. *)

\* findPolicyEngineByName and resolveGatewayIdFromMcpUseCaseId: the event need
\* not name the gateway, and the gateway need not be found.
FindPolicyEngine(e) ==
    /\ HandlerAt(e, "find")
    /\ \/ /\ engineStatus = "none"
          /\ Goto(e, "clear")
          /\ UNCHANGED <<working, named>>
       \/ /\ engineStatus # "none"
          /\ working' = [working EXCEPT ![e] = engine]
          /\ named' \in {named, named \cup {e}}
          /\ Goto(e, "disassociate")
       \/ /\ MayFail("engine")
          /\ Fail(e)
          /\ UNCHANGED <<working, named>>
    /\ UNCHANGED <<agentCoreVars, recordVars, eventVars, seenEngine, todo, deletes, unfound, blocked,
                   reported>>

\* The gateway is disassociated before the policies are deleted, and again
\* before each further attempt to delete the engine.
AfterHeal(e) == IF deletes[e] = 0 THEN "list" ELSE "deleteEngine"

\* A failure is only a warning the first time, and ends the teardown later.
HealFails(e) == IF deletes[e] = 0 THEN Goto(e, "list") ELSE Fail(e)

\* disassociatePolicyEngineFromAllGateways
DisassociateAll(e) ==
    /\ HandlerAt(e, "disassociate")
    /\ \/ /\ assoc' = IF assoc = working[e] THEN 0 ELSE assoc
          /\ Goto(e, IF e \in named THEN "heal" ELSE AfterHeal(e))
       \/ MayFail("gateway") /\ HealFails(e) /\ UNCHANGED assoc
    /\ UNCHANGED <<engine, engineStatus, policies, recordVars, eventVars, workVars, blocked, reported>>

\* healGatewayPolicyAssociation: an association that does not show is made
\* again, so that it can be removed.
HealGateway(e) ==
    /\ HandlerAt(e, "heal")
    /\ \/ assoc = working[e] /\ UNCHANGED assoc /\ Goto(e, "healDetach")
       \/ /\ assoc # working[e] /\ Usable(working[e])
          /\ assoc' = working[e]
          /\ Goto(e, "healDetach")
       \/ /\ (assoc # working[e] /\ ~Usable(working[e])) \/ MayFail("gateway")
          /\ HealFails(e)
          /\ UNCHANGED assoc
    /\ UNCHANGED <<engine, engineStatus, policies, recordVars, eventVars, workVars, blocked, reported>>

\* disassociateGatewayPolicyEngine: whichever engine it is.
HealDetach(e) ==
    /\ HandlerAt(e, "healDetach")
    /\ \/ assoc' = 0 /\ Goto(e, AfterHeal(e))
       \/ MayFail("gateway") /\ HealFails(e) /\ UNCHANGED assoc
    /\ UNCHANGED <<engine, engineStatus, policies, recordVars, eventVars, workVars, blocked, reported>>

\* deletePoliciesOnEngine: the policies that are there when it lists them.
ListPolicies(e) ==
    /\ HandlerAt(e, "list")
    /\ \/ /\ engine = working[e] /\ engineStatus # "none"
          /\ todo' = [todo EXCEPT ![e] = {n \in Names : policies[n] # 0}]
          /\ Goto(e, "deletePolicies")
       \/ /\ engine # working[e] \/ engineStatus = "none" \/ MayFail("policy")
          /\ Fail(e)
          /\ UNCHANGED todo
    /\ UNCHANGED <<agentCoreVars, recordVars, eventVars, working, named, seenEngine, deletes, unfound,
                   blocked, reported>>

DeletePolicy(e) ==
    /\ HandlerAt(e, "deletePolicies")
    /\ \/ /\ todo[e] = {}
          /\ Goto(e, "deleteEngine")
          /\ UNCHANGED <<policies, todo>>
       \/ \E n \in todo[e] :
             /\ engine = working[e] /\ policies[n] # 0
             /\ policies' = [policies EXCEPT ![n] = 0]
             /\ todo' = [todo EXCEPT ![e] = @ \ {n}]
             /\ Goto(e, "deletePolicies")
       \/ /\ \/ \E n \in todo[e] : engine # working[e] \/ policies[n] = 0
             \/ todo[e] # {} /\ MayFail("policy")
          /\ Fail(e)
          /\ UNCHANGED <<policies, todo>>
    /\ UNCHANGED <<engine, engineStatus, assoc, recordVars, eventVars, working, named,
                   seenEngine, deletes, unfound, blocked, reported>>

\* The last blocked attempt: a detach goes on without the engine, see the
\* handler of PolicyEngineDeleteBlockedError; a teardown throws.
GiveUp(e) ==
    IF kind[e] = "detach"
    THEN blocked' = blocked \cup {e} /\ Goto(e, "clear")
    ELSE UNCHANGED blocked /\ Fail(e)

\* Mutant: one attempt too many.
MayRetryDeleteOnceMore(e) == deletes[e] < MaxDeletes

MayRetryDelete(e) == deletes[e] + 1 < MaxDeletes

\* deletePolicyEngineWithRetry: "still associated" is healed and tried again,
\* any other refusal throws: an engine that is gone, is being deleted or has
\* policies.
DeletePolicyEngine(e) ==
    LET present == engine = working[e] /\ engineStatus # "none"
        associated == present /\ assoc = working[e]
        deletable == /\ present /\ ~associated /\ engineStatus # "DELETING"
                     /\ policies = [n \in Names |-> 0]
    IN  /\ HandlerAt(e, "deleteEngine")
        /\ \/ /\ deletable
              /\ engineStatus' = "DELETING"
              /\ Goto(e, "await")
              /\ UNCHANGED <<deletes, blocked>>
           \/ /\ associated \/ (present /\ MayFail("ghost"))
              /\ UNCHANGED engineStatus
              /\ IF MayRetryDelete(e)
                 THEN /\ deletes' = [deletes EXCEPT ![e] = @ + 1]
                      /\ Goto(e, IF e \in named THEN "heal" ELSE "disassociate")
                      /\ UNCHANGED blocked
                 ELSE GiveUp(e) /\ UNCHANGED deletes
           \/ /\ (~deletable /\ ~associated) \/ MayFail("engine")
              /\ Fail(e)
              /\ UNCHANGED <<engineStatus, deletes, blocked>>
        /\ UNCHANGED <<engine, policies, assoc, recordVars, eventVars, working, named, seenEngine,
                       todo, unfound, reported>>

\* Mutant: the deletion is not waited for.
AwaitDeletedSkipped(e) ==
    /\ HandlerAt(e, "await")
    /\ Goto(e, "clear")
    /\ UNCHANGED <<agentCoreVars, recordVars, eventVars, workVars, blocked, reported>>

\* waitForPolicyEngineDeleted
AwaitDeleted(e) ==
    /\ HandlerAt(e, "await")
    /\ engine # working[e] \/ engineStatus = "none"
    /\ Goto(e, "clear")
    /\ UNCHANGED <<agentCoreVars, recordVars, eventVars, workVars, blocked, reported>>

AwaitFails(e) ==
    /\ HandlerAt(e, "await")
    /\ engineStatus = "DELETE_FAILED" \/ MayFail("slow")
    /\ Fail(e)
    /\ UNCHANGED <<agentCoreVars, recordVars, eventVars, workVars, blocked, reported>>

\* clearWorkspaceAgentCorePolicyFromUseCase, if the event names the use case;
\* it says nothing when there is no table, record or config to find it in.  For
\* a blocked detach it is in the catch block.
ClearWorkspacePolicy(e) ==
    /\ HandlerAt(e, "clear")
    /\ \/ /\ e \in targeted
          /\ recordEngine' = 0 /\ recordVersion' = 0
          /\ Goto(e, "report")
          /\ UNCHANGED unfound
       \/ /\ e \notin targeted
          /\ Goto(e, "report")
          /\ UNCHANGED <<recordVars, unfound>>
       \/ /\ e \in targeted /\ MayFail("config")
          /\ unfound' = unfound \cup {e}
          /\ Goto(e, "report")
          /\ UNCHANGED recordVars
       \/ /\ e \in targeted /\ MayFail("clear")
          /\ UNCHANGED <<recordVars, unfound>>
          /\ IF e \in blocked THEN Throw(e) /\ cut' = cut \cup {e} ELSE Fail(e)
    /\ UNCHANGED <<agentCoreVars, eventVars, working, named, seenEngine, todo, deletes, blocked,
                   reported>>

-----------------------------------------------------------------------------
(* The environment: Lambda timeouts and AgentCore. *)

Crash(e) ==
    /\ MayFail("crash")
    /\ Running(e)
    /\ Throw(e)
    /\ cut' = cut \cup {e}
    /\ UNCHANGED <<agentCoreVars, recordVars, eventVars, workVars, blocked, reported>>

handlerVars == <<recordVars, eventVars, step, attempts, workVars, blocked, reported, overlapped, cut>>

EngineDeleted ==
    /\ engineStatus = "DELETING"
    /\ engineStatus' = "none"
    /\ policies' = [n \in Names |-> 0]
    /\ UNCHANGED <<engine, assoc, handlerVars>>

EngineDeleteFails ==
    /\ MayFail("deleteFails")
    /\ engineStatus = "DELETING"
    /\ engineStatus' = "DELETE_FAILED"
    /\ UNCHANGED <<engine, policies, assoc, handlerVars>>

-----------------------------------------------------------------------------
ApplyStep(e) ==
    \/ LoadUseCaseConfig(e)
    \/ EnsurePolicyEngine(e)
    \/ CreatePolicyEngine(e)
    \/ ClearStaleRecord(e)
    \/ UpsertCedarPolicy(e)
    \/ PruneOrphans(e)
    \/ AssociateGateway(e)
    \/ PatchUseCase(e)

TeardownStep(e) ==
    \/ FindPolicyEngine(e)
    \/ DisassociateAll(e)
    \/ HealGateway(e)
    \/ HealDetach(e)
    \/ ListPolicies(e)
    \/ DeletePolicy(e)
    \/ DeletePolicyEngine(e)
    \/ AwaitDeleted(e)
    \/ AwaitFails(e)
    \/ ClearWorkspacePolicy(e)

HandlerStep(e) ==
    Announce(e) \/ ApplyStep(e) \/ TeardownStep(e) \/ Finish(e) \/ ReportFailure(e)

Next ==
    \/ \E e \in Events, k \in Kinds, v \in Versions, u \in BOOLEAN : Receive(e, k, v, u)
    \/ \E e \in Events : Redeliver(e) \/ HandlerStep(e) \/ Crash(e)
    \/ EngineDeleted \/ EngineDeleteFails

Spec == Init /\ [][Next]_vars

-----------------------------------------------------------------------------
(* Properties. *)

Alone(e) == Running(e) /\ e \notin overlapped

\* When an apply that met no other handler reports policy_apply_complete, the
\* gateway is associated with the live engine, which holds exactly the
\* policies compiled from the event, and the config records both: whatever
\* earlier applies, detaches, failures, crashes and races have left behind.
AppliedIsEnforced == \A e \in Events :
    Alone(e) /\ HandlerAt(e, "report") /\ kind[e] = "apply" =>
        /\ Usable(recordEngine) /\ assoc = recordEngine
        /\ policies = Statements(version[e]) /\ recordVersion = version[e]

\* When a detach that met no other handler reports policy_detach_complete and
\* did not give up on the engine, there is no engine and no association, and
\* the config records none if the event named the use case and its config was
\* found, whatever was left behind before.  An event that does not name it, or
\* whose config is not found, is reported complete with the record still there.
DetachedIsGone == \A e \in Events :
    Alone(e) /\ HandlerAt(e, "report") /\ kind[e] # "apply" /\ e \notin blocked =>
        /\ engineStatus = "none" /\ assoc = 0
        /\ e \in targeted \ unfound => recordEngine = 0

\* No handler is at work or due, and none threw or gave up on the engine.
AtRest == /\ \A e \in Events : step[e] \in {"idle", "done"} /\ attempts[e] < 2
          /\ blocked = {}

\* However handlers interleave, and whichever failures they ride out, the
\* gateway is not left with an engine that is gone or lacks the governance
\* policy, with which every tool call would be denied.
NeverLeftBare ==
    AtRest /\ assoc # 0 => Usable(assoc) /\ policies["governance"] # 0

\* An apply or detach that has reported its start and is over, however it
\* failed, has reported its end, unless an attempt died or a report was lost.
EndIsReported == \A e \in Events :
    "started" \in reported[e] /\ step[e] \in {"retry", "done", "dead"} =>
        reported[e] \cap {"complete", "failed"} # {} \/ e \in cut
=============================================================================
