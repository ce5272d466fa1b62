------------------------- MODULE TenantDeprovision -------------------------
(***************************************************************************)
(* Offboarding of a tenant: source/lambda/tenant-deprovision-subscriber,   *)
(* composed with the commands of UseCaseManagement that it invokes.        *)
(*                                                                         *)
(* A tenant has a policy engine and two use cases, its MCP gateway and its *)
(* agent.  The handler of an event tears the policy engine down, strips    *)
(* the agent's config, and has the two use cases permanently deleted, the  *)
(* gateway first, each by a Lambda invocation that is a request of         *)
(* UseCaseManagement.  Several events may be handled at a time, and Lambda *)
(* runs the handler of an event again when it throws or times out, while a *)
(* deletion it had invoked runs on.                                        *)
(*                                                                         *)
(* Of a config only the MCP servers are kept (mcpRefs): the attributes of  *)
(* the workspace policy that clearWorkspaceAgentCorePolicyFromUseCase      *)
(* removes are not, only that it writes back the rest as it has read it.   *)
(***************************************************************************)
EXTENDS UseCaseManagement

CONSTANTS Events,       \* events delivered to the subscriber
          Agent, Gateway,       \* the tenant's use cases
          AgentKey, GatewayKey, \* the config record keys of their creation
          MaxAttempts,  \* invocations of the handler for one event
          GetAnswers,   \* whether the GET of a deployment answers, see GetStackId
          Mishaps       \* what may go wrong in the handler, see AllMishaps

\* The calls of the handler that may fail; "timeout": it is cut off anywhere.
AllMishaps == {"emit", "engine", "gateway", "clear", "invoke", "wait", "timeout"}

ASSUME TenantAssumption ==
    /\ Agent # Gateway /\ UseCaseIds = {Agent, Gateway}
    /\ AgentKey # GatewayKey /\ {AgentKey, GatewayKey} \subseteq Requests
ASSUME HandlerAssumption ==
    /\ MaxAttempts \in Nat \ {0}
    /\ GetAnswers \in BOOLEAN
    /\ Mishaps \subseteq AllMishaps

VARIABLES
    engine,     \* what there is of the policy engine, see Engine
    kind,       \* the detail-type of each event, "none" before its delivery
    names,      \* the use cases that it names
    step,       \* the step of its handler
    target,     \* the use case that the handler is deleting
    attempts,   \* its invocations so far
    call,       \* the deletion that it has invoked last
    knows,      \* handlers that have got the id of the target's stack
    errors,     \* handlers on their way to emit a failure
    blocked,    \* handlers with a PolicyEngineDeleteBlockedError
    readMcp,    \* handlers that have read a config with MCP servers
    reported    \* the phases emitted for each event

eventVars == <<kind, names>>
localVars == <<target, call, knows, errors, blocked, readMcp>>
handlerVars == <<step, attempts, localVars>>
tenantVars == <<engine, eventVars, handlerVars, reported>>
allVars == <<vars, tenantVars>>

Engine == {"exists", "policies", "associated"}
Kinds == {"TenantDeprovisionRequested", "TenantPolicyDetachRequested",
          "TenantPolicyEngineTeardownRequested"}
HandlerSteps == {"emitStarted", "findEngine", "disassociate", "deletePolicies",
                 "deleteEngine", "clearRead", "clearWrite", "getStackId",
                 "delete", "await", "wait", "emitEnd"}
Phases == {"deprovision_started", "deprovision_complete", "deprovision_failed",
           "policy_detach_started", "policy_detach_complete", "policy_detach_failed"}

HandlerTypeOK ==
    /\ engine \subseteq Engine
    /\ kind \in [Events -> Kinds \cup {"none"}]
    /\ names \in [Events -> SUBSET UseCaseIds]
    /\ step \in [Events -> HandlerSteps \cup {"idle", "done", "dropped"}]
    /\ target \in [Events -> UseCaseIds]
    /\ attempts \in [Events -> 0..MaxAttempts]
    /\ call \in [Events -> Requests]
    /\ knows \subseteq Events /\ errors \subseteq Events
    /\ blocked \subseteq Events /\ readMcp \subseteq Events
    /\ reported \in [Events -> SUBSET Phases]
    /\ \A e \in Events : kind[e] = "none" <=> step[e] = "idle"

\* The stores and the handlers have their types, and a handler has its event.
TenantTypeOK == TypeOK /\ HandlerTypeOK

\* Both use cases have been created, by requests that have ended; their stacks
\* may still be on their way, and the agent uses the gateway's MCP servers.
KeyOf(u) == IF u = Agent THEN AgentKey ELSE GatewayKey
Creations == {AgentKey, GatewayKey}

TenantInit ==
    /\ records = UseCaseIds /\ stackId = UseCaseIds /\ recordTtl = {}
    /\ recordKey = [u \in UseCaseIds |-> KeyOf(u)]
    /\ configs = Creations /\ bodies = Creations
    /\ mcpRefs = {AgentKey} /\ configTtl = {}
    /\ unsaved = {}
    /\ status \in [UseCaseIds -> {"CREATE_IN_PROGRESS", "COMPLETE"}]
    /\ stackKey = [u \in UseCaseIds |-> KeyOf(u)]
    /\ prevKey = [u \in UseCaseIds |-> KeyOf(u)]
    /\ op = [r \in Requests |-> IF r \in Creations THEN "create" ELSE "get"]
    /\ uc = [r \in Requests |-> IF r = GatewayKey THEN Gateway ELSE Agent]
    /\ pc = [r \in Requests |-> IF r \in Creations THEN "putRecord" ELSE "idle"]
    /\ outcome = [r \in Requests |-> IF r \in Creations THEN "SUCCESS" ELSE "running"]
    /\ seenStack = {} /\ seenKey = [r \in Requests |-> NoKey]
    /\ withMcp = {AgentKey} /\ disturbed = {}
    /\ engine \in {{}, Engine}
    /\ kind = [e \in Events |-> "none"] /\ names = [e \in Events |-> {}]
    /\ step = [e \in Events |-> "idle"] /\ target = [e \in Events |-> Gateway]
    /\ attempts = [e \in Events |-> 0]
    /\ call = [e \in Events |-> AgentKey]
    /\ knows = {} /\ errors = {} /\ blocked = {} /\ readMcp = {}
    /\ reported = [e \in Events |-> {}]

-----------------------------------------------------------------------------
(* Control helpers. *)

Mishap(m) == m \in Mishaps

HandlerAt(e, s) == step[e] = s

Handled(e) == step[e] \in HandlerSteps

IsDeprovision(e) == kind[e] = "TenantDeprovisionRequested"
IsDetach(e) == kind[e] = "TenantPolicyDetachRequested"

StepTo(e, s) ==
    /\ step' = [step EXCEPT ![e] = s]
    /\ UNCHANGED attempts

FirstHandlerStep(k) ==
    IF k = "TenantPolicyEngineTeardownRequested" THEN "findEngine" ELSE "emitStarted"

\* The invocation throws or is cut off: Lambda invokes the handler of the
\* event again from the start, MaxAttempts times in all.
Throw(e) ==
    /\ IF attempts[e] < MaxAttempts
       THEN /\ step' = [step EXCEPT ![e] = FirstHandlerStep(kind[e])]
            /\ attempts' = [attempts EXCEPT ![e] = @ + 1]
       ELSE /\ step' = [step EXCEPT ![e] = "dropped"]
            /\ UNCHANGED attempts
    /\ knows' = knows \ {e} /\ errors' = errors \ {e}
    /\ blocked' = blocked \ {e} /\ readMcp' = readMcp \ {e}
    /\ UNCHANGED <<target, call>>

\* runTenantDeprovision pushes to errors, which ends its deletions (the agent
\* is skipped after the gateway); the catch block of a detach emits
\* policy_detach_failed before it throws.
EndInError(e) ==
    /\ StepTo(e, "emitEnd")
    /\ errors' = errors \cup {e}
    /\ UNCHANGED <<target, call, knows, blocked, readMcp>>

\* Mutant: the agent's stack is deleted without the gateway's.
StartDeletionsAgentOnly(e) ==
    /\ StepTo(e, "getStackId")
    /\ target' = [target EXCEPT ![e] = IF Agent \in names[e] THEN Agent ELSE Gateway]
    /\ UNCHANGED <<call, knows, errors, blocked, readMcp>>

\* runTenantDeprovision, after the policy engine: gateway first, then agent.
StartDeletions(e) ==
    /\ StepTo(e, "getStackId")
    /\ target' = [target EXCEPT ![e] = IF Gateway \in names[e] THEN Gateway ELSE Agent]
    /\ UNCHANGED <<call, knows, errors, blocked, readMcp>>

\* The policy engine has been torn down: on to the agent's config, if any.
AfterEngine(e) ==
    IF Agent \in names[e] THEN StepTo(e, "clearRead") /\ UNCHANGED localVars
    ELSE IF IsDeprovision(e) THEN StartDeletions(e)
    ELSE StepTo(e, IF IsDetach(e) THEN "emitEnd" ELSE "done") /\ UNCHANGED localVars

\* The config has been cleared, or there is none to clear.
AfterClear(e) ==
    IF IsDeprovision(e) THEN StartDeletions(e)
    ELSE StepTo(e, IF IsDetach(e) THEN "emitEnd" ELSE "done") /\ UNCHANGED localVars

\* Mutant: a policy engine that cannot be torn down fails the deprovision.
EngineThrowsUncaught(e) == IF IsDetach(e) THEN EndInError(e) ELSE Throw(e)

\* The teardown of the engine throws: a deprovision logs it and goes on.
EngineThrows(e) ==
    IF IsDeprovision(e) THEN StartDeletions(e)
    ELSE IF IsDetach(e) THEN EndInError(e) ELSE Throw(e)

\* It throws a PolicyEngineDeleteBlockedError: a detach completes all the same.
EngineBlocked(e) ==
    IF ~IsDetach(e) THEN EngineThrows(e)
    ELSE /\ StepTo(e, IF Agent \in names[e] THEN "clearRead" ELSE "emitEnd")
         /\ blocked' = blocked \cup {e}
         /\ UNCHANGED <<target, call, knows, errors, readMcp>>

\* Clearing the config throws; inside the catch block of a detach nothing
\* catches it.
ClearThrows(e) == IF e \in blocked THEN Throw(e) ELSE EngineThrows(e)

\* The target has been deleted as far as this handler is concerned.
NextTarget(e) ==
    IF target[e] = Gateway /\ Agent \in names[e]
    THEN /\ StepTo(e, "getStackId")
         /\ target' = [target EXCEPT ![e] = Agent]
         /\ UNCHANGED <<call, knows, errors, blocked, readMcp>>
    ELSE StepTo(e, "emitEnd") /\ UNCHANGED localVars

-----------------------------------------------------------------------------
(* lambdaHandler: events, and what their handlers emit. *)

\* A deprovision names a use case at least.
Receive(e, k, us) ==
    /\ HandlerAt(e, "idle")
    /\ k = "TenantDeprovisionRequested" => us # {}
    /\ kind' = [kind EXCEPT ![e] = k]
    /\ names' = [names EXCEPT ![e] = us]
    /\ step' = [step EXCEPT ![e] = FirstHandlerStep(k)]
    /\ attempts' = [attempts EXCEPT ![e] = 1]
    /\ UNCHANGED <<vars, engine, localVars, reported>>

Emit(e, phase) == reported' = [reported EXCEPT ![e] = @ \cup {phase}]

EmitStarted(e) ==
    /\ HandlerAt(e, "emitStarted")
    /\ \/ /\ Emit(e, IF IsDetach(e) THEN "policy_detach_started" ELSE "deprovision_started")
          /\ StepTo(e, "findEngine")
          /\ UNCHANGED localVars
       \/ /\ Mishap("emit")
          /\ IF IsDetach(e) THEN EndInError(e) ELSE Throw(e)
          /\ UNCHANGED reported
    /\ UNCHANGED <<vars, engine, eventVars>>

\* The last emission; a detach that failed throws after it.
EndPhase(e) ==
    IF IsDetach(e)
    THEN IF e \in errors THEN "policy_detach_failed" ELSE "policy_detach_complete"
    ELSE IF e \in errors THEN "deprovision_failed" ELSE "deprovision_complete"

EmitEnd(e) ==
    /\ HandlerAt(e, "emitEnd")
    /\ \/ /\ Emit(e, EndPhase(e))
          /\ IF IsDetach(e) /\ e \in errors
             THEN Throw(e) ELSE StepTo(e, "done") /\ UNCHANGED localVars
       \/ /\ Mishap("emit")
          /\ IF IsDetach(e) /\ e \notin errors \cup blocked
             THEN EndInError(e) ELSE Throw(e)
          /\ UNCHANGED reported
    /\ UNCHANGED <<vars, engine, eventVars>>

-----------------------------------------------------------------------------
(* teardownWorkspacePolicyEngine *)

FindEngine(e) ==
    /\ HandlerAt(e, "findEngine")
    /\ \/ /\ "exists" \in engine
          /\ StepTo(e, "disassociate")
          /\ UNCHANGED localVars
       \/ "exists" \notin engine /\ AfterEngine(e)
       \/ Mishap("engine") /\ EngineThrows(e)
    /\ UNCHANGED <<vars, engine, eventVars, reported>>

\* disassociatePolicyEngineFromAllGateways and healGatewayPolicyAssociation;
\* their failure is logged and swallowed.
Disassociate(e) ==
    /\ HandlerAt(e, "disassociate")
    /\ \/ engine' = engine \ {"associated"}
       \/ Mishap("gateway") /\ UNCHANGED engine
    /\ StepTo(e, "deletePolicies")
    /\ UNCHANGED <<vars, localVars, eventVars, reported>>

\* deletePoliciesOnEngine
DeletePolicies(e) ==
    /\ HandlerAt(e, "deletePolicies")
    /\ \/ /\ "exists" \in engine
          /\ engine' = engine \ {"policies"}
          /\ StepTo(e, "deleteEngine")
          /\ UNCHANGED localVars
       \/ /\ "exists" \notin engine \/ Mishap("engine")
          /\ EngineThrows(e)
          /\ UNCHANGED engine
    /\ UNCHANGED <<vars, eventVars, reported>>

\* deletePolicyEngineWithRetry: an engine that is associated with a gateway
\* is refused.  Each retry heals the association first: it may fail to, which throws,
\* or seem to and be refused again until the engine is blocked.
DeleteEngine(e) ==
    /\ HandlerAt(e, "deleteEngine")
    /\ \/ /\ "exists" \in engine
          /\ engine' = {}
          /\ AfterEngine(e)
       \/ /\ "associated" \in engine /\ Mishap("gateway")
          /\ EngineBlocked(e)
          /\ UNCHANGED engine
       \/ /\ \/ "exists" \notin engine \/ Mishap("engine")
             \/ "associated" \in engine /\ Mishap("gateway")
          /\ EngineThrows(e)
          /\ UNCHANGED engine
    /\ UNCHANGED <<vars, eventVars, reported>>

-----------------------------------------------------------------------------
(* clearWorkspaceAgentCorePolicyFromUseCase *)

\* The record and the config it names are read; without either, or without the
\* config attribute, there is nothing to clear.
ClearRead(e) ==
    LET k == recordKey[Agent]
    IN  /\ HandlerAt(e, "clearRead")
        /\ \/ /\ k \in bodies
              /\ readMcp' = IF k \in mcpRefs THEN readMcp \cup {e} ELSE readMcp \ {e}
              /\ StepTo(e, "clearWrite")
              /\ UNCHANGED <<target, call, knows, errors, blocked>>
           \/ k \notin bodies /\ AfterClear(e)
           \/ Mishap("clear") /\ ClearThrows(e)
        /\ UNCHANGED <<vars, engine, eventVars, reported>>

\* UpdateItem of the whole config attribute, without a condition, under the
\* key that was read (no update changes it meanwhile): what was read comes
\* back, a TTL stays.
ClearWrite(e) ==
    /\ HandlerAt(e, "clearWrite")
    /\ \/ /\ configs' = configs \cup {AgentKey} /\ bodies' = bodies \cup {AgentKey}
          /\ mcpRefs' = IF e \in readMcp THEN mcpRefs \cup {AgentKey}
                                         ELSE mcpRefs \ {AgentKey}
          /\ AfterClear(e)
          /\ UNCHANGED <<configTtl, unsaved>>
       \/ /\ Mishap("clear")
          /\ ClearThrows(e)
          /\ UNCHANGED configVars
    /\ UNCHANGED <<recordVars, stackVars, jobVars, runVars, engine, eventVars, reported>>

-----------------------------------------------------------------------------
(* runTenantDeprovision: the deletion of the target. *)

\* invokeGetUseCaseStackId.  The synthetic event has no Authorization header,
\* without which GetUseCaseAdapter refuses it, so GetAnswers is FALSE of the
\* code; TRUE is what run-tenant-deprovision.test.ts has in place of it.
GetStackId(e) ==
    LET u == target[e]
    IN  /\ HandlerAt(e, "getStackId")
        /\ \/ /\ knows' = IF GetAnswers /\ u \in stackId /\ status[u] # "GONE"
                             /\ recordKey[u] \in configs
                          THEN knows \cup {e} ELSE knows \ {e}
              /\ StepTo(e, "delete")
              /\ UNCHANGED <<target, call, errors, blocked, readMcp>>
           \/ Mishap("invoke") /\ Throw(e)
        /\ UNCHANGED <<vars, engine, eventVars, reported>>

\* invokePermanentDeleteUseCase: the request runs on its own from here.
InvokeDelete(e, r) ==
    /\ HandlerAt(e, "delete")
    /\ Start(r, "permanentlyDelete", target[e], FALSE)
    /\ call' = [call EXCEPT ![e] = r]
    /\ StepTo(e, "await")
    /\ UNCHANGED <<target, knows, errors, blocked, readMcp, engine, eventVars, reported>>

\* Mutant: what the invocation answers is not looked at.
AnsweredOkAlways(r) == outcome[r] # "running"

\* An answer with a statusCode below 400, or with none: the payload of an
\* invocation that timed out has none.
AnsweredOk(r) == outcome[r] \in {"SUCCESS", "crashed"}

Answered(r) == outcome[r] # "running"

\* The invocation answers, or the call of it fails while the deletion goes on.
\* A gateway whose stack id is not known is taken to be deleted already.
AwaitDelete(e) ==
    LET r == call[e]
    IN  /\ HandlerAt(e, "await")
        /\ \/ /\ Answered(r) /\ AnsweredOk(r) /\ e \in knows
              /\ StepTo(e, "wait")
              /\ UNCHANGED localVars
           \/ /\ Answered(r) /\ AnsweredOk(r) /\ e \notin knows
              /\ NextTarget(e)
           \/ /\ Answered(r) /\ ~AnsweredOk(r)
              /\ IF target[e] = Agent \/ e \in knows THEN EndInError(e) ELSE NextTarget(e)
           \/ Mishap("invoke") /\ Throw(e)
        /\ UNCHANGED <<vars, engine, eventVars, reported>>

\* waitForStackDeletion: DescribeStacks is asked for the last part of the
\* stack's ARN, which names no stack, so the stack is taken to be deleted.
WaitForStackDeletion(e) ==
    /\ HandlerAt(e, "wait")
    /\ \/ NextTarget(e)
       \/ Mishap("wait") /\ Throw(e)
    /\ UNCHANGED <<vars, engine, eventVars, reported>>

-----------------------------------------------------------------------------
HandlerTimeout(e) ==
    /\ Mishap("timeout")
    /\ Handled(e)
    /\ Throw(e)
    /\ UNCHANGED <<vars, engine, eventVars, reported>>

HandlerStep(e) ==
    \/ EmitStarted(e)
    \/ FindEngine(e)
    \/ Disassociate(e)
    \/ DeletePolicies(e)
    \/ DeleteEngine(e)
    \/ ClearRead(e)
    \/ ClearWrite(e)
    \/ GetStackId(e)
    \/ \E r \in Requests : InvokeDelete(e, r)
    \/ AwaitDelete(e)
    \/ WaitForStackDeletion(e)
    \/ EmitEnd(e)

\* An expired config does not outlast the read and the write that surround it:
\* they are milliseconds apart, its TTL is minutes.
MayExpire(k) == k = AgentKey => \A e \in Events : ~HandlerAt(e, "clearWrite")

\* A step of an invoked deletion, of CloudFormation or of DynamoDB's TTL.
DeletionStep(r) == Step(r) /\ UNCHANGED tenantVars
StackStep(u) == CfnStep(u) /\ UNCHANGED tenantVars
ConfigExpires(k) == MayExpire(k) /\ ExpireConfig(k) /\ UNCHANGED tenantVars
DeletionCrash(r) == Crash(r) /\ UNCHANGED tenantVars

TenantNext ==
    \/ \E e \in Events, k \in Kinds, us \in SUBSET UseCaseIds : Receive(e, k, us)
    \/ \E e \in Events : HandlerStep(e) \/ HandlerTimeout(e)
    \/ \E r \in Requests : DeletionStep(r) \/ DeletionCrash(r) \/ ConfigExpires(r)
    \/ \E u \in UseCaseIds : StackStep(u)

TenantSpec == TenantInit /\ [][TenantNext]_allVars

\* Handlers and deletions run on; CloudFormation ends what it has accepted and
\* DynamoDB removes what has expired.
TenantFairness ==
    /\ \A e \in Events : WF_allVars(HandlerStep(e))
    /\ \A r \in Requests : WF_allVars(DeletionStep(r)) /\ WF_allVars(ConfigExpires(r))
    /\ \A u \in UseCaseIds : WF_allVars(StackStep(u))

TenantFairSpec == TenantSpec /\ TenantFairness

-----------------------------------------------------------------------------
(* Properties. *)

\* A deletion of u that the API has refused, or whose invocation died.
Refused(u) == \E r \in Requests : op[r] = "permanentlyDelete" /\ uc[r] = u
                                   /\ outcome[r] \in {"FAILED", "threw"}
Died(u) == \E r \in Requests : op[r] = "permanentlyDelete" /\ uc[r] = u
                                /\ outcome[r] = "crashed"

\* The handler has got to the deletion of the agent, for an event that names
\* the gateway as well.
AtAgent(e) == /\ IsDeprovision(e) /\ target[e] = Agent /\ Gateway \in names[e]
              /\ step[e] \in {"getStackId", "delete", "await", "wait"}

\* The gateway goes first, whatever is retried or handled twice: when a handler
\* turns to the agent, CloudFormation has been asked to delete the gateway's
\* stack, unless that deletion was refused or died.
GatewayFirst == \A e \in Events :
    AtAgent(e) => status[Gateway] \in Deleting \/ Refused(Gateway) \/ Died(Gateway)

\* A deprovision that is reported complete has asked CloudFormation to delete
\* each stack that it names, unless the invocation to do so died or, for the
\* gateway only, was refused; an agent's refused deletion is always reported.
CompleteIsDeleting == \A e \in Events : \A u \in names[e] :
    "deprovision_complete" \in reported[e] =>
        status[u] \in Deleting \/ Died(u) \/ (u = Gateway /\ Refused(u))

\* The agent's config names no MCP server when CloudFormation is asked to
\* delete the agent's stack, so AgentCoreOutboundPermissions does not update
\* the gateway that is being deleted (AIW_EVENTBRIDGE.md:167).  Holds when
\* one event is handled once and the detaching calls do not fail.
DetachedBeforeDelete == [][
    pc' # pc /\ status[Agent] \notin Deleting /\ status'[Agent] \in Deleting
        => AgentKey \notin mcpRefs]_allVars

Ended(e) == reported[e] \cap {"deprovision_complete", "deprovision_failed"} # {}

\* A deprovision ends with deprovision_complete or deprovision_failed, however
\* the teardown of the policy engine and the clearing of the config fail: AIW
\* blocks the workspace until one of them arrives (AIW_EVENTBRIDGE.md:162).
DeprovisionReported == \A e \in Events :
    IsDeprovision(e) /\ Handled(e) ~> Ended(e)

\* What a complete deprovision has named is reclaimed, unless its deletion was
\* refused: the stacks' deletions end, and no config is left.
TenantReclaimed == \A e \in Events, u \in UseCaseIds :
    "deprovision_complete" \in reported[e] /\ u \in names[e] ~>
        \/ Refused(u)
        \/ KeyOf(u) \notin configs /\ status[u] \in {"DELETE_FAILED", "DELETED", "GONE"}

-----------------------------------------------------------------------------
(* Statements of the repository that the code does not keep. *)

\* "MCP gateway must be gone before agent stack custom resources run"
\* (AIW_EVENTBRIDGE.md:166): the deletion of the agent is invoked when
\* the stack of the gateway is gone.
GatewayGoneFirst == \A e \in Events :
    AtAgent(e) /\ HandlerAt(e, "await") => status[Gateway] \in {"DELETED", "GONE"}
=============================================================================
