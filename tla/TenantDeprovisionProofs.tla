---------------------- MODULE TenantDeprovisionProofs ----------------------
(***************************************************************************)
(* Proofs about TenantDeprovision, for any number of events, of attempts   *)
(* and of deletions, and any calls that fail.                              *)
(***************************************************************************)
EXTENDS TenantDeprovision, UseCaseManagementProofs

-----------------------------------------------------------------------------
(* The inductive invariant. *)

\* The requests of a tenant that is offboarded are its permanent deletions.
OnlyDeletions == \A r \in Requests :
    pc[r] # "idle" /\ outcome[r] = "running" =>
        /\ op[r] = "permanentlyDelete"
        /\ pc[r] \in {"getRecord", "detachGet", "detachPut", "describe", "deleteStack",
                      "markConfig", "deleteRecord"}

\* A permanent deletion that is past its DeleteStack has had it accepted, or
\* has found the stack gone.
DeletionsDelete == \A r \in Requests :
    op[r] = "permanentlyDelete"
        /\ (pc[r] \in {"markConfig", "deleteRecord"} \/ outcome[r] = "SUCCESS")
        => status[uc[r]] \in Deleting

DeletionInv == TypeInv /\ OnlyDeletions /\ DeletionsDelete

\* The use cases whose deletion a handler may take to be done.
Dealt == {u \in UseCaseIds :
    status[u] \in Deleting \/ Died(u) \/ (u = Gateway /\ Refused(u))}

\* Only a deprovision gets to the deletions, and only of what it names.
DeletesNamed == \A e \in Events :
    /\ IsDeprovision(e) => names[e] # {}
    /\ step[e] \in {"getStackId", "delete", "await", "wait"}
           => IsDeprovision(e) /\ target[e] \in names[e]
    /\ step[e] = "emitEnd" => IsDeprovision(e) \/ IsDetach(e)
    /\ step[e] = "idle" => reported[e] = {}

\* The invocation that a handler awaits is a deletion of its target.
CallFits == \A e \in Events : step[e] = "await" =>
    LET r == call[e]
    IN  pc[r] # "idle" /\ op[r] = "permanentlyDelete" /\ uc[r] = target[e]

\* What the handler has behind it has been dealt with: the target that it
\* waits for, the gateway when it is at the agent, and everything at the end.
BehindIsDealt == \A e \in Events :
    /\ step[e] = "wait" => target[e] \in Dealt
    /\ AtAgent(e) => Gateway \in Dealt
    /\ step[e] = "emitEnd" /\ IsDeprovision(e) /\ e \notin errors => names[e] \subseteq Dealt
    /\ "deprovision_complete" \in reported[e] => names[e] \subseteq Dealt

TenantInv == DeletionInv /\ HandlerTypeOK /\ DeletesNamed /\ CallFits /\ BehindIsDealt

-----------------------------------------------------------------------------
(* The stores: what a deletion in flight, CloudFormation and TTL do. *)

\* The steps of the stores that a tenant sees.
StoreStep ==
    \/ \E r \in Requests, u \in UseCaseIds : Start(r, "permanentlyDelete", u, FALSE)
    \/ \E r \in Requests : Step(r) \/ Crash(r) \/ ExpireConfig(r)
    \/ \E u \in UseCaseIds : CfnStep(u)

\* A stack that is being deleted stays so; a request that has started keeps
\* what it is for, and one that has ended how it ended.
Kept ==
    /\ \A u \in UseCaseIds : status[u] \in Deleting => status'[u] \in Deleting
    /\ \A r \in Requests : pc[r] # "idle" => pc'[r] # "idle"
    /\ \A r \in Requests : pc[r] # "idle" \/ outcome[r] # "running"
                              => op'[r] = op[r] /\ uc'[r] = uc[r]
    /\ \A r \in Requests : outcome[r] # "running" => outcome'[r] = outcome[r]

DeletionsAdvance == OnlyDeletions' /\ DeletionsDelete' /\ Kept

LEMMA DeletionSteps ==
    ASSUME OnlyDeletions, NEW r \in Requests, Step(r)
    PROVE  \/ GetUseCaseRecord(r) \/ DescribeStack(r) \/ DeleteStack(r) \/ MarkConfig(r)
           \/ DetachGet(r) \/ DetachPut(r) \/ DeleteUseCaseRecord(r)
BY DEF OnlyDeletions, At, Step, CreateUseCaseConfig, ValidateNewUseCase, CreateStack,
       CreateUseCaseRecord, ValidateUpdateUseCase, MarkOldConfig, UpdateStack,
       UpdateUseCaseRecord, MarkUseCaseRecordForDeletion, GetUseCaseConfig

LEMMA StoresAdvance == DeletionInv /\ StoreStep => DeletionInv' /\ Kept
<1> SUFFICES ASSUME DeletionInv, StoreStep PROVE DeletionInv' /\ Kept
  OBVIOUS
<1>1. TypeInv'
  BY TypeInductive DEF DeletionInv, StoreStep, Next, Ops
<1> USE DEF DeletionInv, TypeInv, TypeOK, DetachKeyKnown, OnlyDeletions, DeletionsDelete,
            DeletionsAdvance, Kept, Keys, Ops, Steps, Outcomes, Statuses, Deployed, Deleting,
            recordVars, configVars, stackVars, seenVars, jobVars, runVars,
            Goto, Stop, Succeed, At
<1>2. ASSUME NEW r \in Requests, NEW u \in UseCaseIds, Start(r, "permanentlyDelete", u, FALSE)
      PROVE  DeletionsAdvance
  BY <1>2 DEF Start, FirstStep
<1>3. ASSUME NEW r \in Requests, GetUseCaseRecord(r) PROVE DeletionsAdvance
  BY <1>3 DEF GetUseCaseRecord, AfterGetRecord, Abort
<1>4. ASSUME NEW r \in Requests, DescribeStack(r) PROVE DeletionsAdvance
  BY <1>4 DEF DescribeStack, AfterDescribe
<1>5. ASSUME NEW r \in Requests, DeleteStack(r) PROVE DeletionsAdvance
  BY <1>5 DEF DeleteStack
<1>6. ASSUME NEW r \in Requests, MarkConfig(r) PROVE DeletionsAdvance
  BY <1>6 DEF MarkConfig
<1>7. ASSUME NEW r \in Requests, DetachGet(r) PROVE DeletionsAdvance
  BY <1>7 DEF DetachGet
<1>8. ASSUME NEW r \in Requests, DetachPut(r) PROVE DeletionsAdvance
  BY <1>8 DEF DetachPut
<1>9. ASSUME NEW r \in Requests, DeleteUseCaseRecord(r) PROVE DeletionsAdvance
  BY <1>9 DEF DeleteUseCaseRecord
<1>10. ASSUME NEW r \in Requests, Step(r)
       PROVE  \/ GetUseCaseRecord(r) \/ DescribeStack(r) \/ DeleteStack(r) \/ MarkConfig(r)
              \/ DetachGet(r) \/ DetachPut(r) \/ DeleteUseCaseRecord(r)
  BY <1>10, DeletionSteps
<1>11. ASSUME NEW r \in Requests, Crash(r) PROVE DeletionsAdvance
  BY <1>11 DEF Crash, Active
<1>12. ASSUME NEW r \in Requests, ExpireConfig(r) PROVE DeletionsAdvance
  BY <1>12 DEF ExpireConfig
<1>13. ASSUME NEW u \in UseCaseIds, CfnStep(u) PROVE DeletionsAdvance
  BY <1>13 DEF CfnStep, CfnComplete, CfnCreateFails, CfnUpdateRollsBack, CfnDeleteEnds,
               CfnForget
<1>14. DeletionsAdvance
  <2> HIDE DEF DeletionsAdvance
  <2> QED
    BY <1>2, <1>3, <1>4, <1>5, <1>6, <1>7, <1>8, <1>9, <1>10, <1>11, <1>12, <1>13
    DEF StoreStep
<1> QED
  BY <1>1, <1>14

-----------------------------------------------------------------------------
(* The handler: types. *)

\* A step that a handler takes of its own, and what it leaves alone: the
\* stores, but for the config that ClearWrite writes back.
LocalStep(e) ==
    \/ EmitStarted(e) \/ FindEngine(e) \/ Disassociate(e) \/ DeletePolicies(e)
    \/ DeleteEngine(e) \/ ClearRead(e) \/ ClearWrite(e) \/ GetStackId(e)
    \/ AwaitDelete(e) \/ WaitForStackDeletion(e) \/ EmitEnd(e) \/ HandlerTimeout(e)
    \/ \E k \in Kinds, us \in SUBSET UseCaseIds : Receive(e, k, us)

LEMMA LocalKeepsAllStores ==
    ASSUME NEW e \in Events, LocalStep(e), ~ClearWrite(e)
    PROVE  UNCHANGED vars
BY DEF vars, LocalStep, EmitStarted, FindEngine, Disassociate, DeletePolicies, DeleteEngine,
       ClearRead, GetStackId, AwaitDelete, WaitForStackDeletion, EmitEnd, HandlerTimeout, Receive

LEMMA LocalKeepsStores ==
    ASSUME TypeInv, NEW e \in Events, LocalStep(e)
    PROVE  TypeInv' /\ UNCHANGED <<status, op, uc, pc, outcome>>
<1> USE DEF recordVars, configVars, stackVars, seenVars, jobVars, runVars, vars
<1>1. CASE ClearWrite(e)
  BY <1>1, TenantAssumption DEF ClearWrite, TypeInv, TypeOK, DetachKeyKnown
<1>2. CASE ~ClearWrite(e)
  BY <1>2, LocalKeepsAllStores, TypeInductive
<1> QED
  BY <1>1, <1>2

LEMMA HandlerTyped ==
    ASSUME HandlerTypeOK, NEW e \in Events,
           LocalStep(e) \/ \E r \in Requests : InvokeDelete(e, r)
    PROVE  HandlerTypeOK'
<1> USE TenantAssumption, HandlerAssumption
    DEF HandlerTypeOK, Engine, Kinds, HandlerSteps, Phases, HandlerAt, StepTo, Throw,
        EndInError, localVars, eventVars, FirstHandlerStep
<1>1. ASSUME NEW k \in Kinds, NEW us \in SUBSET UseCaseIds, Receive(e, k, us)
      PROVE  HandlerTypeOK'
  BY <1>1 DEF Receive
<1>2. CASE EmitStarted(e)
  BY <1>2 DEF EmitStarted, Emit
<1>3. CASE FindEngine(e)
  BY <1>3 DEF FindEngine, AfterEngine, StartDeletions, EngineThrows
<1>4. CASE Disassociate(e)
  BY <1>4 DEF Disassociate
<1>5. CASE DeletePolicies(e)
  <2>1. step[e] # "idle" /\ engine' \subseteq Engine /\ UNCHANGED <<kind, names, reported>>
    BY <1>5 DEF DeletePolicies
  <2>2. CASE EngineThrows(e)
    BY <2>1, <2>2 DEF EngineThrows, StartDeletions
  <2>3. CASE StepTo(e, "deleteEngine") /\ UNCHANGED localVars
    BY <1>5, <2>1, <2>3 DEF DeletePolicies
  <2> QED
    BY <1>5, <2>2, <2>3 DEF DeletePolicies
<1>6. CASE DeleteEngine(e)
  <2>1. step[e] # "idle" /\ engine' \subseteq Engine /\ UNCHANGED <<kind, names, reported>>
    BY <1>6 DEF DeleteEngine
  <2>2. CASE EngineThrows(e)
    BY <2>1, <2>2 DEF EngineThrows, StartDeletions
  <2>3. CASE EngineBlocked(e)
    BY <2>1, <2>2, <2>3 DEF EngineBlocked
  <2>4. CASE AfterEngine(e)
    BY <2>1, <2>4 DEF AfterEngine, StartDeletions
  <2> QED
    BY <1>6, <2>2, <2>3, <2>4 DEF DeleteEngine
<1>7. CASE ClearRead(e)
  BY <1>7 DEF ClearRead, AfterClear, ClearThrows, EngineThrows, StartDeletions
<1>8. CASE ClearWrite(e)
  BY <1>8 DEF ClearWrite, AfterClear, ClearThrows, EngineThrows, StartDeletions
<1>9. CASE GetStackId(e)
  BY <1>9 DEF GetStackId
<1>10. ASSUME NEW r \in Requests, InvokeDelete(e, r) PROVE HandlerTypeOK'
  BY <1>10 DEF InvokeDelete
<1>11. CASE AwaitDelete(e)
  BY <1>11 DEF AwaitDelete, NextTarget
<1>12. CASE WaitForStackDeletion(e)
  BY <1>12 DEF WaitForStackDeletion, NextTarget
<1>13. CASE EmitEnd(e)
  BY <1>13 DEF EmitEnd, Emit, EndPhase
<1>14. CASE HandlerTimeout(e)
  BY <1>14 DEF HandlerTimeout, Handled
<1> HIDE DEF HandlerTypeOK
<1> QED
  BY <1>1, <1>2, <1>3, <1>4, <1>5, <1>6, <1>7, <1>8, <1>9, <1>10, <1>11, <1>12, <1>13,
     <1>14 DEF LocalStep

-----------------------------------------------------------------------------
(* The handler: what it deletes, and what it takes to be done. *)

LEMMA DealtKept == Kept => Dealt \subseteq Dealt'
BY DEF Kept, Dealt, Died, Refused

\* An answer that the handler may go on from: the deletion was accepted, died,
\* or was refused where the code does not tell that from one not needed.
LEMMA AnswerIsDealt ==
    ASSUME DeletionInv, HandlerTypeOK, CallFits,
           NEW e \in Events, step[e] = "await", Answered(call[e]),
           AnsweredOk(call[e]) \/ target[e] = Gateway
    PROVE  target[e] \in Dealt
<1> DEFINE r == call[e]
<1>1. /\ r \in Requests /\ op[r] = "permanentlyDelete" /\ uc[r] = target[e]
      /\ target[e] \in UseCaseIds
  BY DEF HandlerTypeOK, CallFits
<1>2. outcome[r] \in {"SUCCESS", "FAILED", "threw", "crashed"}
  BY <1>1 DEF Answered, DeletionInv, TypeInv, TypeOK, Outcomes
<1>3. CASE outcome[r] = "SUCCESS"
  BY <1>1, <1>3 DEF DeletionInv, DeletionsDelete, Dealt
<1>4. CASE outcome[r] = "crashed"
  BY <1>1, <1>4 DEF Dealt, Died
<1>5. CASE outcome[r] \in {"FAILED", "threw"}
  BY <1>1, <1>5 DEF AnsweredOk, Dealt, Refused
<1> QED
  BY <1>2, <1>3, <1>4, <1>5

LEMMA DeletesNamedStep ==
    ASSUME HandlerTypeOK, DeletesNamed, NEW e \in Events,
           LocalStep(e) \/ \E r \in Requests : InvokeDelete(e, r)
    PROVE  DeletesNamed'
<1> USE TenantAssumption
    DEF DeletesNamed, HandlerTypeOK, IsDeprovision, IsDetach, HandlerAt, StepTo, Throw,
        EndInError, localVars, eventVars, FirstHandlerStep
<1>1. ASSUME NEW k \in Kinds, NEW us \in SUBSET UseCaseIds, Receive(e, k, us)
      PROVE  DeletesNamed'
  BY <1>1 DEF Receive, Kinds
<1>2. CASE EmitStarted(e)
  BY <1>2 DEF EmitStarted, Emit
<1>3. CASE FindEngine(e)
  BY <1>3 DEF FindEngine, AfterEngine, StartDeletions, EngineThrows
<1>4. CASE Disassociate(e)
  BY <1>4 DEF Disassociate
<1>5. CASE DeletePolicies(e)
  BY <1>5 DEF DeletePolicies, EngineThrows, StartDeletions
<1>6. CASE DeleteEngine(e)
  BY <1>6 DEF DeleteEngine, AfterEngine, EngineThrows, EngineBlocked, StartDeletions
<1>7. CASE ClearRead(e)
  BY <1>7 DEF ClearRead, AfterClear, ClearThrows, EngineThrows, StartDeletions
<1>8. CASE ClearWrite(e)
  BY <1>8 DEF ClearWrite, AfterClear, ClearThrows, EngineThrows, StartDeletions
<1>9. CASE GetStackId(e)
  BY <1>9 DEF GetStackId
<1>10. ASSUME NEW r \in Requests, InvokeDelete(e, r) PROVE DeletesNamed'
  BY <1>10 DEF InvokeDelete
<1>11. CASE AwaitDelete(e)
  BY <1>11 DEF AwaitDelete, NextTarget
<1>12. CASE WaitForStackDeletion(e)
  BY <1>12 DEF WaitForStackDeletion, NextTarget
<1>13. CASE EmitEnd(e)
  BY <1>13 DEF EmitEnd, Emit, EndPhase
<1>14. CASE HandlerTimeout(e)
  BY <1>14 DEF HandlerTimeout, Handled
<1> HIDE DEF DeletesNamed
<1> QED
  BY <1>1, <1>2, <1>3, <1>4, <1>5, <1>6, <1>7, <1>8, <1>9, <1>10, <1>11, <1>12, <1>13,
     <1>14 DEF LocalStep

LEMMA BehindIsDealtStep ==
    ASSUME DeletionInv, HandlerTypeOK, DeletesNamed, CallFits, BehindIsDealt,
           Dealt \subseteq Dealt', NEW e \in Events,
           LocalStep(e) \/ \E r \in Requests : InvokeDelete(e, r)
    PROVE  BehindIsDealt'
<1> USE TenantAssumption
    DEF BehindIsDealt, AtAgent, DeletesNamed, HandlerTypeOK, IsDeprovision, IsDetach,
        HandlerAt, StepTo, Throw, EndInError, localVars, eventVars, FirstHandlerStep
<1>1. ASSUME NEW k \in Kinds, NEW us \in SUBSET UseCaseIds, Receive(e, k, us)
      PROVE  BehindIsDealt'
  BY <1>1 DEF Receive, Kinds
<1>2. CASE EmitStarted(e)
  BY <1>2 DEF EmitStarted, Emit
<1>3. CASE FindEngine(e)
  BY <1>3 DEF FindEngine, AfterEngine, StartDeletions, EngineThrows
<1>4. CASE Disassociate(e)
  BY <1>4 DEF Disassociate
<1>5. CASE DeletePolicies(e)
  BY <1>5 DEF DeletePolicies, EngineThrows, StartDeletions
<1>6. CASE DeleteEngine(e)
  BY <1>6 DEF DeleteEngine, AfterEngine, EngineThrows, EngineBlocked, StartDeletions
<1>7. CASE ClearRead(e)
  BY <1>7 DEF ClearRead, AfterClear, ClearThrows, EngineThrows, StartDeletions
<1>8. CASE ClearWrite(e)
  BY <1>8 DEF ClearWrite, AfterClear, ClearThrows, EngineThrows, StartDeletions
<1>9. CASE GetStackId(e)
  BY <1>9 DEF GetStackId
<1>10. ASSUME NEW r \in Requests, InvokeDelete(e, r) PROVE BehindIsDealt'
  BY <1>10 DEF InvokeDelete
<1>11. CASE AwaitDelete(e)
  <2>1. Answered(call[e]) /\ (AnsweredOk(call[e]) \/ target[e] = Gateway) => target[e] \in Dealt
    BY <1>11, AnswerIsDealt DEF AwaitDelete
  <2> QED
    BY <1>11, <2>1 DEF AwaitDelete, NextTarget
<1>12. CASE WaitForStackDeletion(e)
  BY <1>12 DEF WaitForStackDeletion, NextTarget
<1>13. CASE EmitEnd(e)
  BY <1>13 DEF EmitEnd, Emit, EndPhase
<1>14. CASE HandlerTimeout(e)
  BY <1>14 DEF HandlerTimeout, Handled
<1> HIDE DEF BehindIsDealt
<1> QED
  BY <1>1, <1>2, <1>3, <1>4, <1>5, <1>6, <1>7, <1>8, <1>9, <1>10, <1>11, <1>12, <1>13,
     <1>14 DEF LocalStep

LEMMA CallFitsStep ==
    ASSUME TypeInv, HandlerTypeOK, CallFits, Kept, NEW e \in Events,
           LocalStep(e) \/ \E r \in Requests : InvokeDelete(e, r)
    PROVE  CallFits'
<1>1. CASE LocalStep(e)
  <2>1. \A f \in Events : step'[f] = "await" =>
            step[f] = "await" /\ call'[f] = call[f] /\ target'[f] = target[f]
    <3> USE DEF HandlerTypeOK, HandlerAt, StepTo, Throw, EndInError, localVars, FirstHandlerStep
    <3>1. CASE AwaitDelete(e) \/ WaitForStackDeletion(e)
      BY <3>1 DEF AwaitDelete, WaitForStackDeletion, NextTarget
    <3>2. CASE EmitStarted(e) \/ EmitEnd(e) \/ HandlerTimeout(e)
      BY <3>2 DEF EmitStarted, EmitEnd, HandlerTimeout
    <3>3. CASE FindEngine(e) \/ Disassociate(e)
      BY <3>3 DEF FindEngine, Disassociate, AfterEngine, StartDeletions, EngineThrows
    <3>4. CASE DeletePolicies(e) \/ DeleteEngine(e)
      BY <3>4 DEF DeletePolicies, DeleteEngine, AfterEngine, StartDeletions, EngineThrows,
                  EngineBlocked
    <3>5. CASE ClearRead(e) \/ ClearWrite(e)
      BY <3>5 DEF ClearRead, ClearWrite, AfterClear, ClearThrows, StartDeletions, EngineThrows
    <3>6. CASE GetStackId(e)
      BY <3>6 DEF GetStackId
    <3>7. CASE \E k \in Kinds, us \in SUBSET UseCaseIds : Receive(e, k, us)
      BY <3>7 DEF Receive
    <3> QED
      BY <1>1, <3>1, <3>2, <3>3, <3>4, <3>5, <3>6, <3>7 DEF LocalStep
  <2> SUFFICES ASSUME NEW f \in Events, step'[f] = "await"
               PROVE  /\ pc'[call'[f]] # "idle" /\ op'[call'[f]] = "permanentlyDelete"
                      /\ uc'[call'[f]] = target'[f]
    BY DEF CallFits
  <2>2. call[f] \in Requests /\ step[f] = "await"
    BY <2>1 DEF HandlerTypeOK
  <2>3. pc[call[f]] # "idle" /\ op[call[f]] = "permanentlyDelete" /\ uc[call[f]] = target[f]
    BY <2>2 DEF CallFits
  <2> QED
    BY <2>1, <2>2, <2>3 DEF Kept
<1>2. ASSUME NEW r \in Requests, InvokeDelete(e, r) PROVE CallFits'
  <2>1. pc'[r] # "idle" /\ op'[r] = "permanentlyDelete" /\ uc'[r] = target'[e]
    BY <1>2 DEF InvokeDelete, Start, FirstStep, TypeInv, TypeOK
  <2> QED
    BY <1>2, <2>1 DEF InvokeDelete, StepTo, CallFits, Kept, HandlerTypeOK
<1> QED
  BY <1>1, <1>2

-----------------------------------------------------------------------------
(* The composition. *)

LEMMA TenantInvInit == TenantInit => TenantInv
<1> SUFFICES ASSUME TenantInit PROVE TenantInv
  OBVIOUS
<1>1. TypeInv
  BY TenantAssumption
  DEF TenantInit, Creations, KeyOf, TypeInv, TypeOK, DetachKeyKnown, Keys, Ops, Steps,
      Outcomes, Statuses, Deployed, Deleting
<1>2. OnlyDeletions /\ DeletionsDelete
  BY DEF TenantInit, OnlyDeletions, DeletionsDelete
<1>3. HandlerTypeOK
  BY TenantAssumption, HandlerAssumption DEF TenantInit, HandlerTypeOK, Engine, Creations
<1>4. DeletesNamed /\ CallFits /\ BehindIsDealt
  BY DEF TenantInit, DeletesNamed, CallFits, BehindIsDealt, AtAgent, IsDeprovision
<1> QED
  BY <1>1, <1>2, <1>3, <1>4 DEF TenantInv, DeletionInv

LEMMA TenantInvInductive == TenantInv /\ [TenantNext]_allVars => TenantInv'
<1> SUFFICES ASSUME TenantInv, [TenantNext]_allVars PROVE TenantInv'
  OBVIOUS
<1> USE DEF TenantInv, DeletionInv
<1>1. ASSUME NEW e \in Events, LocalStep(e) PROVE TenantInv'
  <2>1. TypeInv' /\ UNCHANGED <<status, op, uc, pc, outcome>>
    BY <1>1, LocalKeepsStores DEF DeletionInv
  <2>2. DeletionInv' /\ Kept
    BY <2>1 DEF DeletionInv, OnlyDeletions, DeletionsDelete, Kept
  <2> QED
    BY <1>1, <2>2, DealtKept, HandlerTyped, DeletesNamedStep, CallFitsStep, BehindIsDealtStep
<1>2. ASSUME NEW e \in Events, NEW r \in Requests, InvokeDelete(e, r) PROVE TenantInv'
  <2>1. StoreStep
    BY <1>2 DEF InvokeDelete, StoreStep, HandlerTypeOK
  <2>2. DeletionInv' /\ Kept
    BY <2>1, StoresAdvance
  <2> QED
    BY <1>2, <2>2, DealtKept, HandlerTyped, DeletesNamedStep, CallFitsStep, BehindIsDealtStep
<1>3. CASE StoreStep /\ UNCHANGED tenantVars
  <2>1. DeletionInv' /\ Kept
    BY <1>3, StoresAdvance
  <2> USE <1>3 DEF tenantVars, eventVars, handlerVars, localVars
  <2>2. HandlerTypeOK' /\ DeletesNamed'
    BY DEF HandlerTypeOK, DeletesNamed, IsDeprovision, IsDetach
  <2>3. CallFits'
    BY <2>1 DEF CallFits, Kept, HandlerTypeOK
  <2>4. BehindIsDealt'
    BY <2>1, DealtKept DEF BehindIsDealt, AtAgent, IsDeprovision
  <2> QED
    BY <2>1, <2>2, <2>3, <2>4
<1>4. CASE UNCHANGED allVars
  BY <1>4 DEF allVars, vars, tenantVars, eventVars, handlerVars, localVars, DeletionInv,
      TypeInv, TypeOK, DetachKeyKnown, OnlyDeletions, DeletionsDelete, HandlerTypeOK,
      DeletesNamed, CallFits, BehindIsDealt, AtAgent, IsDeprovision, IsDetach, Dealt, Died,
      Refused
<1> HIDE DEF TenantInv, DeletionInv
<1>5. TenantNext =>
          \/ \E e \in Events : LocalStep(e) \/ \E r \in Requests : InvokeDelete(e, r)
          \/ StoreStep /\ UNCHANGED tenantVars
  BY DEF TenantNext, HandlerStep, LocalStep, StoreStep, DeletionStep, DeletionCrash,
         ConfigExpires, StackStep
<1> QED
  BY <1>1, <1>2, <1>3, <1>4, <1>5

\* The stores and the handlers have their types in the composition.
THEOREM TenantTypeCorrect == TenantSpec => []TenantTypeOK
<1>1. TenantInv => TenantTypeOK
  BY DEF TenantInv, DeletionInv, TypeInv, TenantTypeOK
<1> QED
  BY <1>1, TenantInvInit, TenantInvInductive, PTL DEF TenantSpec

\* However many events are handled, retried or cut off at once, a handler only
\* turns to the agent when the gateway's stack is being deleted, or a deletion
\* of it was refused or died.
THEOREM GatewayIsFirst == TenantSpec => []GatewayFirst
<1>1. TenantInv => GatewayFirst
  BY DEF TenantInv, BehindIsDealt, Dealt, GatewayFirst
<1> QED
  BY <1>1, TenantInvInit, TenantInvInductive, PTL DEF TenantSpec

\* A deprovision that is reported complete has had the deletion of each stack
\* that it names accepted, or that of the gateway refused, or one died.
THEOREM CompleteDeletes == TenantSpec => []CompleteIsDeleting
<1>1. TenantInv => CompleteIsDeleting
  BY DEF TenantInv, BehindIsDealt, Dealt, CompleteIsDeleting
<1> QED
  BY <1>1, TenantInvInit, TenantInvInductive, PTL DEF TenantSpec
-----------------------------------------------------------------------------
(* The composition keeps what the commands promise. *)

\* The key of the agent's config, as the record and the deletions know it.
AgentKeyKept ==
    /\ recordKey[Agent] \in {AgentKey, NoKey}
    /\ Agent \in records => recordKey[Agent] = AgentKey
    /\ \A r \in Requests : Active(r) /\ uc[r] = Agent /\ pc[r] # "getRecord"
           => seenKey[r] = AgentKey

\* The config that a handler is about to write back is still there.
WrittenIsThere == \A e \in Events : step[e] = "clearWrite" => AgentKey \in configs

ComposedInv == TenantInv /\ SeqInv /\ AgentKeyKept /\ WrittenIsThere

LEMMA ComposedInit == TenantInit => ComposedInv
<1> SUFFICES ASSUME TenantInit PROVE ComposedInv
  OBVIOUS
<1>1. TenantInv
  BY TenantInvInit
<1> USE TenantAssumption, NoKeyAssumption DEF TenantInit, Creations, KeyOf
<1>2. StackInv
  BY <1>1 DEF TenantInv, DeletionInv, StackInv, StepsFit, OneCreator, StackCreated,
              StackDeletedFirst, NoLostStack
<1>3. ConfigInv
  BY <1>2 DEF ConfigInv, KeysOwned, KeysDefined, Holds, NewConfigStored, RecordMarkedFirst,
              LiveConfigKept, Live, Stored, At
<1>4. WriterInv
  BY DEF WriterInv, NotPutYet, RecordHasStack, FailuresDisturb, SuccessLast, OneWriter, Busy,
         Active
<1>5. QuietInv
  BY DEF QuietInv, SeenIsCurrent, StackHasKey, SupersededExpires, RecordFitsStack,
         ConfigIsOwed, RemovedStaysGone, Quiet, Busy, Active, Live, Removed, KeysOf, Unmarked
<1>6. AgentKeyKept /\ WrittenIsThere
  BY DEF AgentKeyKept, WrittenIsThere, Active
<1> QED
  BY <1>1, <1>3, <1>4, <1>5, <1>6 DEF ComposedInv, SeqInv

\* Writing back a config that is there disturbs none of the commands' facts:
\* they only ask for a body, and for the absence of a TTL.
LEMMA WriteBackKeepsSeq ==
    ASSUME SeqInv, NEW e \in Events, ClearWrite(e), AgentKey \in configs
    PROVE  SeqInv'
<1> USE TenantAssumption DEF recordVars, stackVars, jobVars, runVars, configVars, ClearWrite
<1>1. /\ UNCHANGED <<records, stackId, recordKey, recordTtl, configs, configTtl, unsaved, status,
                     stackKey, prevKey, op, uc, pc, outcome, seenStack, seenKey, disturbed>>
      /\ bodies \subseteq bodies'
  OBVIOUS
<1>2. TypeInv'
  BY DEF SeqInv, ConfigInv, StackInv, TypeInv, TypeOK, DetachKeyKnown
<1> HIDE DEF ClearWrite
<1>3. StackInv'
  BY <1>1, <1>2 DEF SeqInv, ConfigInv, StackInv, StepsFit, OneCreator, StackCreated,
                    StackDeletedFirst, NoLostStack, RecordPending
<1>4. ConfigInv'
  BY <1>1, <1>3 DEF SeqInv, ConfigInv, KeysOwned, KeysDefined, Holds, NewConfigStored,
                    RecordMarkedFirst, LiveConfigKept, Live, Stored, Culprit, At
<1>5. WriterInv'
  BY <1>1 DEF SeqInv, WriterInv, NotPutYet, RecordHasStack, FailuresDisturb, SuccessLast,
              OneWriter, Busy, Active, WroteNothing
<1>6. QuietInv'
  BY <1>1 DEF SeqInv, QuietInv, SeenIsCurrent, StackHasKey, SupersededExpires,
              RecordFitsStack, ConfigIsOwed, RemovedStaysGone, Quiet, Superseding, Busy,
              Active, Live, Removed, KeysOf, Unmarked, Owes, Holds
<1> QED
  BY <1>4, <1>5, <1>6 DEF SeqInv

\* A step of the stores that is not the removal of a config by TTL.
KeepingStep ==
    \/ \E r \in Requests, u \in UseCaseIds : Start(r, "permanentlyDelete", u, FALSE)
    \/ \E r \in Requests : Step(r) \/ Crash(r)
    \/ \E u \in UseCaseIds : CfnStep(u)

LEMMA StoresKeepAgentKey ==
    ASSUME DeletionInv, AgentKeyKept, KeepingStep
    PROVE  AgentKeyKept' /\ configs \subseteq configs'
<1> DEFINE Goal == AgentKeyKept' /\ configs \subseteq configs'
<1> USE TenantAssumption
        DEF DeletionInv, OnlyDeletions, TypeInv, TypeOK, AgentKeyKept, Active, At,
            recordVars, configVars, stackVars, seenVars, jobVars, runVars, Goto, Stop, Succeed
<1>1. ASSUME NEW r \in Requests, NEW u \in UseCaseIds, Start(r, "permanentlyDelete", u, FALSE)
      PROVE  Goal
  BY <1>1 DEF Start, FirstStep
<1>2. ASSUME NEW r \in Requests, GetUseCaseRecord(r) PROVE Goal
  BY <1>2 DEF GetUseCaseRecord, AfterGetRecord, Abort
<1>3. ASSUME NEW r \in Requests, DescribeStack(r) PROVE Goal
  BY <1>3 DEF DescribeStack, AfterDescribe
<1>4. ASSUME NEW r \in Requests, DeleteStack(r) PROVE Goal
  BY <1>4 DEF DeleteStack
<1>5. ASSUME NEW r \in Requests, MarkConfig(r) PROVE Goal
  BY <1>5 DEF MarkConfig, MarkKey
<1>6. ASSUME NEW r \in Requests, DetachGet(r) PROVE Goal
  BY <1>6 DEF DetachGet
<1>7. ASSUME NEW r \in Requests, DetachPut(r) PROVE Goal
  BY <1>7 DEF DetachPut, PutConfig
<1>8. ASSUME NEW r \in Requests, DeleteUseCaseRecord(r) PROVE Goal
  BY <1>8 DEF DeleteUseCaseRecord, DropRecord
<1>9. ASSUME NEW r \in Requests, Crash(r) PROVE Goal
  BY <1>9 DEF Crash
<1>10. ASSUME NEW u \in UseCaseIds, CfnStep(u) PROVE Goal
  BY <1>10 DEF CfnStep, CfnComplete, CfnCreateFails, CfnUpdateRollsBack, CfnDeleteEnds,
               CfnForget
<1>11. ASSUME NEW r \in Requests, Step(r)
       PROVE  \/ GetUseCaseRecord(r) \/ DescribeStack(r) \/ DeleteStack(r) \/ MarkConfig(r)
              \/ DetachGet(r) \/ DetachPut(r) \/ DeleteUseCaseRecord(r)
  BY <1>11, DeletionSteps
<1> HIDE DEF Goal
<1>12. Goal
  BY <1>1, <1>2, <1>3, <1>4, <1>5, <1>6, <1>7, <1>8, <1>9, <1>10, <1>11 DEF KeepingStep
<1> QED
  BY <1>12 DEF Goal

\* Which steps take a handler to clearWrite.
LEMMA OnlyReadLeadsToWrite ==
    ASSUME HandlerTypeOK, NEW e \in Events, LocalStep(e), ~ClearRead(e)
    PROVE  \A f \in Events : step'[f] = "clearWrite" => step[f] = "clearWrite"
BY DEF HandlerTypeOK, LocalStep, EmitStarted, FindEngine, Disassociate, DeletePolicies,
       DeleteEngine, ClearWrite, GetStackId, AwaitDelete, WaitForStackDeletion, EmitEnd,
       HandlerTimeout, Receive, StepTo, Throw, EndInError, StartDeletions, AfterEngine,
       AfterClear, EngineThrows, EngineBlocked, ClearThrows, NextTarget, FirstHandlerStep

LEMMA ComposedInductive == ComposedInv /\ [TenantNext]_allVars => ComposedInv'
<1> SUFFICES ASSUME ComposedInv, [TenantNext]_allVars PROVE ComposedInv'
  OBVIOUS
<1>1. TenantInv'
  BY TenantInvInductive DEF ComposedInv
<1> USE DEF ComposedInv
<1>2. ASSUME NEW e \in Events, ClearWrite(e) PROVE SeqInv' /\ AgentKeyKept' /\ WrittenIsThere'
  <2>1. AgentKey \in configs /\ configs' = configs
    BY <1>2 DEF WrittenIsThere, ClearWrite, HandlerAt, configVars
  <2>2. AgentKeyKept'
    BY <1>2 DEF AgentKeyKept, ClearWrite, Active, recordVars, jobVars, runVars
  <2> QED
    BY <1>2, <2>1, <2>2, WriteBackKeepsSeq DEF WrittenIsThere
<1>3. ASSUME NEW e \in Events, LocalStep(e), ~ClearWrite(e)
      PROVE  SeqInv' /\ AgentKeyKept' /\ WrittenIsThere'
  <2>1. UNCHANGED vars
    BY <1>3, LocalKeepsAllStores
  <2>2. SeqInv'
    BY <2>1, SeqInductive
  <2>3. AgentKeyKept'
    BY <2>1 DEF vars, AgentKeyKept, Active
  <2>4. ASSUME ClearRead(e) PROVE WrittenIsThere'
    <3>1. ASSUME step'[e] = "clearWrite" PROVE AgentKey \in configs
      <4>1. recordKey[Agent] \in bodies
        BY <1>3, <2>4, <3>1
        DEF ClearRead, HandlerAt, AfterClear, ClearThrows, EngineThrows, Throw, EndInError,
            StartDeletions, StepTo, FirstHandlerStep, TenantInv, HandlerTypeOK
      <4> QED
        BY <4>1, NoKeyAssumption
        DEF AgentKeyKept, TenantInv, DeletionInv, TypeInv, TypeOK
    <3>2. \A f \in Events \ {e} : step'[f] = step[f]
      BY <2>4 DEF ClearRead, AfterClear, ClearThrows, EngineThrows, Throw, EndInError,
                  StartDeletions, StepTo, TenantInv, HandlerTypeOK
    <3> QED
      BY <2>1, <3>1, <3>2 DEF WrittenIsThere, vars
  <2>5. ASSUME ~ClearRead(e) PROVE WrittenIsThere'
    BY <1>3, <2>1, <2>5, OnlyReadLeadsToWrite DEF WrittenIsThere, vars, TenantInv
  <2> QED
    BY <2>2, <2>3, <2>4, <2>5
<1>4. ASSUME KeepingStep, \A e \in Events : step'[e] = "clearWrite" => step[e] = "clearWrite"
      PROVE  SeqInv' /\ AgentKeyKept' /\ WrittenIsThere'
  <2>1. Next
    BY <1>4 DEF KeepingStep, Next, Ops
  <2>2. SeqInv'
    BY <2>1, SeqInductive
  <2>3. AgentKeyKept' /\ configs \subseteq configs'
    BY <1>4, StoresKeepAgentKey DEF TenantInv
  <2> QED
    BY <1>4, <2>2, <2>3 DEF WrittenIsThere
<1>5. ASSUME NEW e \in Events, NEW r \in Requests, InvokeDelete(e, r)
      PROVE  SeqInv' /\ AgentKeyKept' /\ WrittenIsThere'
  <2>1. KeepingStep
    BY <1>5 DEF InvokeDelete, KeepingStep, TenantInv, HandlerTypeOK
  <2>2. \A f \in Events : step'[f] = "clearWrite" => step[f] = "clearWrite"
    BY <1>5 DEF InvokeDelete, StepTo, TenantInv, HandlerTypeOK
  <2> QED
    BY <1>4, <2>1, <2>2
<1>6. ASSUME NEW k \in Requests, ConfigExpires(k)
      PROVE  SeqInv' /\ AgentKeyKept' /\ WrittenIsThere'
  <2>1. SeqInv'
    BY <1>6, SeqInductive DEF ConfigExpires, Next
  <2>2. AgentKeyKept'
    BY <1>6 DEF ConfigExpires, ExpireConfig, AgentKeyKept, Active, recordVars, jobVars, runVars
  <2>3. WrittenIsThere'
    BY <1>6 DEF ConfigExpires, ExpireConfig, DropConfig, MayExpire, HandlerAt, WrittenIsThere,
                tenantVars, handlerVars
  <2> QED
    BY <2>1, <2>2, <2>3
<1>7. CASE UNCHANGED allVars
  <2>1. UNCHANGED vars /\ UNCHANGED step
    BY <1>7 DEF allVars, tenantVars, handlerVars
  <2>2. SeqInv'
    BY <2>1, SeqInductive
  <2>3. AgentKeyKept' /\ WrittenIsThere'
    BY <2>1 DEF vars, AgentKeyKept, Active, WrittenIsThere
  <2> QED
    BY <1>1, <2>2, <2>3
<1>8. ASSUME TenantNext
      PROVE  \/ \E e \in Events : LocalStep(e) \/ \E r \in Requests : InvokeDelete(e, r)
             \/ KeepingStep /\ UNCHANGED tenantVars
             \/ \E k \in Requests : ConfigExpires(k)
  BY <1>8 DEF TenantNext, HandlerStep, LocalStep, KeepingStep, DeletionStep, DeletionCrash,
              StackStep
<1>9. UNCHANGED tenantVars => step' = step
  BY DEF tenantVars, handlerVars
<1> QED
  BY <1>1, <1>2, <1>3, <1>4, <1>5, <1>6, <1>7, <1>8, <1>9

\* A tenant's offboarding, whatever goes wrong in it, keeps what the commands
\* promise of every use case: no stack is lost, a live record has its config,
\* and an undisturbed use case is consistent once its commands have ended.
THEOREM OffboardingKeepsPromises ==
    TenantSpec => [](NoLostStack /\ LiveConfigKept /\ SequentiallyConsistent)
<1>1. ComposedInv => NoLostStack /\ LiveConfigKept /\ SequentiallyConsistent
  BY SeqIsConsistent DEF ComposedInv, SeqInv, ConfigInv, StackInv
<1> QED
  BY <1>1, ComposedInit, ComposedInductive, PTL DEF TenantSpec

-----------------------------------------------------------------------------
(* An offboarding takes no use case where UseCaseLife does not. *)

ComposedLife == ComposedInv /\ CreatedFirst /\ UpdatedIsUp

\* All that the handler does to the stores, but for writing the agent's config
\* back, is a step of the commands.
LEMMA TenantStepsAreNext ==
    ASSUME ComposedInv, [TenantNext]_allVars
    PROVE  [Next]_vars \/ \E e \in Events : ClearWrite(e)
<1>1. ASSUME NEW e \in Events, LocalStep(e), ~ClearWrite(e) PROVE UNCHANGED vars
  BY <1>1, LocalKeepsAllStores DEF ComposedInv
<1>2. ASSUME NEW e \in Events, NEW r \in Requests, InvokeDelete(e, r) PROVE Next
  BY <1>2 DEF InvokeDelete, Next, Ops, ComposedInv, TenantInv, HandlerTypeOK
<1>3. ASSUME NEW u \in UseCaseIds, StackStep(u) PROVE Next
  BY <1>3 DEF StackStep, Next
<1>4. ASSUME NEW r \in Requests, DeletionStep(r) \/ DeletionCrash(r) \/ ConfigExpires(r) PROVE Next
  BY <1>4 DEF DeletionStep, DeletionCrash, ConfigExpires, Next
<1>5. CASE UNCHANGED allVars
  BY <1>5 DEF allVars
<1> QED
  BY <1>1, <1>2, <1>3, <1>4, <1>5 DEF TenantNext, HandlerStep, LocalStep

\* Writing the config back moves no use case.
LEMMA WriteBackMaps ==
    ASSUME TypeInv, NEW e \in Events, ClearWrite(e), CreatedFirst, UpdatedIsUp
    PROVE  CreatedFirst' /\ UpdatedIsUp' /\ [Life!Next]_(Life!vars)
<1>1. UNCHANGED <<records, recordTtl, recordKey, status, op, uc, pc, outcome, disturbed>>
  BY DEF ClearWrite, recordVars, stackVars, jobVars, runVars
<1>2. CreatedFirst' /\ UpdatedIsUp'
  BY <1>1 DEF CreatedFirst, UpdatedIsUp, Created, Quiet, Busy, Active
<1>3. NothingEnds /\ LiveKept /\ \A w \in UseCaseIds : StackOf(w)' = StackOf(w)
  BY <1>1 DEF NothingEnds, LiveKept, Live, StackOf
<1> QED
  BY <1>1, <1>2, <1>3, UseCaseIdsAssumption, QuietStepMaps

\* Whatever goes wrong in the offboarding of a tenant, each of its steps is one
\* that UseCaseLife allows, or none: the agent and the gateway only go forward,
\* and neither ends before its stack was sent away.
THEOREM OffboardingFollowsLife == TenantSpec => [][Life!Next]_(Life!vars)
<1>1. TenantInit => ComposedLife
  <2> SUFFICES ASSUME TenantInit PROVE ComposedLife
    OBVIOUS
  <2>1. CreatedFirst /\ UpdatedIsUp
    BY TenantAssumption DEF TenantInit, CreatedFirst, UpdatedIsUp, Created, Creations
  <2> QED
    BY <2>1, ComposedInit DEF ComposedLife
<1>2. ComposedLife /\ [TenantNext]_allVars => ComposedLife' /\ [Life!Next]_(Life!vars)
  <2> SUFFICES ASSUME ComposedLife, [TenantNext]_allVars
               PROVE  ComposedLife' /\ [Life!Next]_(Life!vars)
    OBVIOUS
  <2>1. ComposedInv'
    BY ComposedInductive DEF ComposedLife
  <2>2. CASE [Next]_vars
    BY <2>1, <2>2, LifeInvInductive, LifeStepMaps DEF ComposedLife, ComposedInv, LifeInv
  <2>3. ASSUME NEW e \in Events, ClearWrite(e) PROVE ComposedLife' /\ [Life!Next]_(Life!vars)
    BY <2>1, <2>3, WriteBackMaps
    DEF ComposedLife, ComposedInv, SeqInv, ConfigInv, StackInv
  <2> QED
    BY <2>2, <2>3, TenantStepsAreNext DEF ComposedLife
<1> QED
  BY <1>1, <1>2, PTL DEF TenantSpec

-----------------------------------------------------------------------------
(* The agent is detached before its stack is deleted. *)

\* One event, handled once; the detaching calls of permanentlyDelete do not
\* fail.  Anything else may.
OnceHandled ==
    /\ \A e, f \in Events : e = f
    /\ MaxAttempts = 1
    /\ Faults \cap {"detachGet", "detachPut"} = {}

AfterClearing == {"getStackId", "delete", "await", "wait", "emitEnd", "done", "dropped"}

\* Once a deletion has been invoked no handler is to write the config back.
PastClearing == \A r \in Requests :
    op[r] = "permanentlyDelete" => \A e \in Events : step[e] \in AfterClearing

AttemptCounted == \A e \in Events : step[e] # "idle" => attempts[e] = MaxAttempts

\* A deletion of the agent that is past detachOutboundMcpServerRefs has left
\* no MCP server in its config, and none has come back.
DetachedStays == \A r \in Requests :
    Active(r) /\ uc[r] = Agent /\ pc[r] \in {"describe", "deleteStack"} => AgentKey \notin mcpRefs

OnceInv == ComposedInv /\ PastClearing /\ AttemptCounted /\ DetachedStays

LEMMA LocalStaysPast ==
    ASSUME OnceHandled, HandlerTypeOK, AttemptCounted, NEW e \in Events, LocalStep(e)
    PROVE  /\ AttemptCounted'
           /\ step[e] \in AfterClearing => step'[e] \in AfterClearing
<1> USE DEF OnceHandled, HandlerTypeOK, AttemptCounted, AfterClearing, HandlerAt, StepTo, Throw,
            EndInError, NextTarget, localVars
<1>1. CASE EmitStarted(e) \/ EmitEnd(e) \/ HandlerTimeout(e)
  BY <1>1 DEF EmitStarted, EmitEnd, HandlerTimeout, Handled, HandlerSteps
<1>2. CASE FindEngine(e) \/ Disassociate(e) \/ DeletePolicies(e) \/ DeleteEngine(e)
  BY <1>2 DEF FindEngine, Disassociate, DeletePolicies, DeleteEngine, AfterEngine,
              EngineThrows, EngineBlocked, StartDeletions
<1>3. CASE ClearRead(e) \/ ClearWrite(e)
  BY <1>3 DEF ClearRead, ClearWrite, AfterClear, ClearThrows, EngineThrows, StartDeletions
<1>4. CASE GetStackId(e) \/ AwaitDelete(e) \/ WaitForStackDeletion(e)
  BY <1>4 DEF GetStackId, AwaitDelete, WaitForStackDeletion
<1>5. ASSUME NEW k \in Kinds, NEW us \in SUBSET UseCaseIds, Receive(e, k, us)
      PROVE  AttemptCounted' /\ step[e] \notin AfterClearing
  BY <1>5 DEF Receive
<1> QED
  BY <1>1, <1>2, <1>3, <1>4, <1>5 DEF LocalStep

\* What a step of the stores does to the agent's config and to who is detached.
LEMMA StoresStayDetached ==
    ASSUME OnceHandled, DeletionInv, AgentKeyKept, DetachedStays,
           KeepingStep \/ \E k \in Requests : ExpireConfig(k)
    PROVE  DetachedStays'
<1> USE TenantAssumption
        DEF DeletionInv, OnlyDeletions, TypeInv, TypeOK, AgentKeyKept, DetachedStays, Active, At,
            recordVars, configVars, stackVars, seenVars, jobVars, runVars, Goto, Stop, Succeed
<1>1. ASSUME NEW r \in Requests, NEW u \in UseCaseIds, Start(r, "permanentlyDelete", u, FALSE)
      PROVE  DetachedStays'
  BY <1>1 DEF Start, FirstStep
<1>2. ASSUME NEW r \in Requests, GetUseCaseRecord(r) PROVE DetachedStays'
  BY <1>2 DEF GetUseCaseRecord, AfterGetRecord
<1>3. ASSUME NEW r \in Requests, DescribeStack(r) PROVE DetachedStays'
  BY <1>3 DEF DescribeStack, AfterDescribe
<1>4. ASSUME NEW r \in Requests, DeleteStack(r) PROVE DetachedStays'
  BY <1>4 DEF DeleteStack
<1>5. ASSUME NEW r \in Requests, MarkConfig(r) PROVE DetachedStays'
  BY <1>5 DEF MarkConfig, MarkKey
<1>6. ASSUME NEW r \in Requests, DetachGet(r) PROVE DetachedStays'
  BY <1>6 DEF DetachGet, MayFail, OnceHandled
<1>7. ASSUME NEW r \in Requests, DetachPut(r) PROVE DetachedStays'
  BY <1>7 DEF DetachPut, PutConfig, MayFail, OnceHandled
<1>8. ASSUME NEW r \in Requests, DeleteUseCaseRecord(r) PROVE DetachedStays'
  BY <1>8 DEF DeleteUseCaseRecord
<1>9. ASSUME NEW r \in Requests, Crash(r) PROVE DetachedStays'
  BY <1>9 DEF Crash
<1>10. ASSUME NEW u \in UseCaseIds, CfnStep(u) PROVE DetachedStays'
  BY <1>10 DEF CfnStep, CfnComplete, CfnCreateFails, CfnUpdateRollsBack, CfnDeleteEnds,
               CfnForget
<1>11. ASSUME NEW k \in Requests, ExpireConfig(k) PROVE DetachedStays'
  BY <1>11 DEF ExpireConfig, DropConfig
<1>12. ASSUME NEW r \in Requests, Step(r)
       PROVE  \/ GetUseCaseRecord(r) \/ DescribeStack(r) \/ DeleteStack(r) \/ MarkConfig(r)
              \/ DetachGet(r) \/ DetachPut(r) \/ DeleteUseCaseRecord(r)
  BY <1>12, DeletionSteps
<1> HIDE DEF DetachedStays
<1> QED
  BY <1>1, <1>2, <1>3, <1>4, <1>5, <1>6, <1>7, <1>8, <1>9, <1>10, <1>11, <1>12
  DEF KeepingStep

\* Requests only become permanent deletions when a handler invokes them.
LEMMA StepKeepsOps ==
    ASSUME NEW r \in Requests, Step(r) \/ Crash(r)
    PROVE  op' = op
BY DEF Step, Crash, jobVars, CreateUseCaseConfig, GetUseCaseRecord, DescribeStack, DeleteStack,
       MarkConfig, ValidateNewUseCase, CreateStack, CreateUseCaseRecord, ValidateUpdateUseCase,
       MarkOldConfig, UpdateStack, UpdateUseCaseRecord, MarkUseCaseRecordForDeletion,
       DetachGet, DetachPut, DeleteUseCaseRecord, GetUseCaseConfig

LEMMA OnceInductive ==
    ASSUME OnceHandled, OnceInv, [TenantNext]_allVars
    PROVE  OnceInv'
<1>1. ComposedInv'
  BY ComposedInductive DEF OnceInv
<1> USE DEF OnceInv, ComposedInv, TenantInv
<1>2. ASSUME NEW e \in Events, LocalStep(e)
      PROVE  PastClearing' /\ AttemptCounted' /\ DetachedStays'
  <2>1. UNCHANGED <<op, uc, pc, outcome>>
    BY <1>2, LocalKeepsStores DEF DeletionInv
  <2>2. AttemptCounted' /\ (step[e] \in AfterClearing => step'[e] \in AfterClearing)
    BY <1>2, LocalStaysPast
  <2>3. PastClearing'
    BY <2>1, <2>2 DEF PastClearing, OnceHandled
  <2>4. CASE ClearWrite(e)
    <3>1. step[e] \notin AfterClearing
      BY <2>4 DEF ClearWrite, HandlerAt, AfterClearing
    <3>2. \A r \in Requests : ~Active(r)
      BY <3>1 DEF PastClearing, DeletionInv, OnlyDeletions, Active
    <3> QED
      BY <2>1, <2>2, <2>3, <3>2 DEF DetachedStays, Active
  <2>5. CASE ~ClearWrite(e)
    BY <1>2, <2>2, <2>3, <2>5, LocalKeepsAllStores DEF vars, DetachedStays, Active
  <2> QED
    BY <2>4, <2>5
<1>3. ASSUME NEW e \in Events, NEW r \in Requests, InvokeDelete(e, r)
      PROVE  PastClearing' /\ AttemptCounted' /\ DetachedStays'
  <2>1. KeepingStep
    BY <1>3 DEF InvokeDelete, KeepingStep, HandlerTypeOK
  <2>2. step'[e] \in AfterClearing /\ AttemptCounted'
    BY <1>3 DEF InvokeDelete, StepTo, HandlerAt, AfterClearing, AttemptCounted, HandlerTypeOK
  <2>3. PastClearing'
    BY <2>2 DEF PastClearing, OnceHandled
  <2> QED
    BY <2>1, <2>2, <2>3, StoresStayDetached
<1>4. ASSUME KeepingStep \/ \E k \in Requests : ExpireConfig(k), UNCHANGED tenantVars, op' = op
      PROVE  PastClearing' /\ AttemptCounted' /\ DetachedStays'
  BY <1>4, StoresStayDetached DEF tenantVars, handlerVars, PastClearing, AttemptCounted
<1>5. CASE UNCHANGED allVars
  <2>1. PastClearing' /\ AttemptCounted' /\ DetachedStays'
    BY <1>5 DEF allVars, vars, tenantVars, handlerVars, PastClearing, AttemptCounted,
                DetachedStays, Active
  <2> QED
    BY <1>1, <2>1
<1>6. ASSUME TenantNext
      PROVE  \/ \E e \in Events : LocalStep(e) \/ \E r \in Requests : InvokeDelete(e, r)
             \/ /\ KeepingStep \/ \E k \in Requests : ExpireConfig(k)
                /\ UNCHANGED tenantVars /\ op' = op
  <2>1. ASSUME NEW u \in UseCaseIds, StackStep(u)
        PROVE  KeepingStep /\ UNCHANGED tenantVars /\ op' = op
    BY <2>1 DEF StackStep, KeepingStep, CfnStep, CfnComplete, CfnCreateFails,
                CfnUpdateRollsBack, CfnDeleteEnds, CfnForget, jobVars
  <2>2. ASSUME NEW r \in Requests, DeletionStep(r) \/ DeletionCrash(r)
        PROVE  KeepingStep /\ UNCHANGED tenantVars /\ op' = op
    BY <2>2, StepKeepsOps DEF DeletionStep, DeletionCrash, KeepingStep
  <2>3. ASSUME NEW k \in Requests, ConfigExpires(k)
        PROVE  ExpireConfig(k) /\ UNCHANGED tenantVars /\ op' = op
    BY <2>3 DEF ConfigExpires, ExpireConfig, jobVars
  <2> QED
    BY <1>6, <2>1, <2>2, <2>3 DEF TenantNext, HandlerStep, LocalStep
<1> QED
  BY <1>1, <1>2, <1>3, <1>4, <1>5, <1>6

\* The agent's config names no MCP server when its stack is deleted, if its one
\* event is handled once and the detaching calls do not fail: what the run
\* tenant_fair checks with one deletion at a time and the handler's best-effort
\* calls failing holds whichever other calls fail.
THEOREM DetachedIsBeforeDelete ==
    ASSUME OnceHandled
    PROVE  TenantSpec => DetachedBeforeDelete
<1> DEFINE DetachedFirst == pc' # pc /\ status[Agent] \notin Deleting /\ status'[Agent] \in Deleting
                                => AgentKey \notin mcpRefs
<1>1. TenantInit => OnceInv
  <2> SUFFICES ASSUME TenantInit PROVE OnceInv
    OBVIOUS
  <2>1. PastClearing /\ AttemptCounted /\ DetachedStays
    BY DEF TenantInit, PastClearing, AttemptCounted, DetachedStays, Active
  <2> QED
    BY <2>1, ComposedInit DEF OnceInv
<1>2. OnceInv /\ [TenantNext]_allVars => OnceInv'
  BY OnceInductive
<1>3. OnceInv /\ [TenantNext]_allVars => [DetachedFirst]_allVars
  <2> SUFFICES ASSUME OnceInv, TenantNext, pc' # pc, status[Agent] \notin Deleting,
                      status'[Agent] \in Deleting
               PROVE  AgentKey \notin mcpRefs
    OBVIOUS
  <2> USE DEF OnceInv, ComposedInv, TenantInv, DeletionInv
  <2>1. ASSUME NEW e \in Events, LocalStep(e) PROVE FALSE
    BY <2>1, LocalKeepsStores
  <2>2. ASSUME NEW e \in Events, NEW r \in Requests, InvokeDelete(e, r) PROVE FALSE
    BY <2>2 DEF InvokeDelete, Start, stackVars
  <2>3. ASSUME NEW u \in UseCaseIds, StackStep(u) PROVE FALSE
    BY <2>3 DEF StackStep, CfnStep, CfnComplete, CfnCreateFails, CfnUpdateRollsBack,
                CfnDeleteEnds, CfnForget, runVars
  <2>4. ASSUME NEW r \in Requests, DeletionCrash(r) \/ ConfigExpires(r) PROVE FALSE
    BY <2>4 DEF DeletionCrash, Crash, ConfigExpires, ExpireConfig, stackVars
  <2>5. ASSUME NEW r \in Requests, Step(r) PROVE DeleteStack(r)
    BY <2>5, DeletionSteps DEF GetUseCaseRecord, DescribeStack, MarkConfig, DetachGet,
                               DetachPut, DeleteUseCaseRecord, stackVars
  <2>6. ASSUME NEW r \in Requests, DeleteStack(r) PROVE AgentKey \notin mcpRefs
    <3>1. uc[r] = Agent
      BY <2>6, TenantAssumption DEF DeleteStack, TypeInv, TypeOK
    <3>2. Active(r) /\ pc[r] = "deleteStack"
      BY <2>6 DEF DeleteStack, At, Active
    <3> QED
      BY <3>1, <3>2 DEF DetachedStays
  <2> QED
    BY <2>1, <2>2, <2>3, <2>4, <2>5, <2>6
    DEF TenantNext, HandlerStep, LocalStep, DeletionStep
<1> QED
  BY <1>1, <1>2, <1>3, PTL DEF TenantSpec, DetachedBeforeDelete
=============================================================================
