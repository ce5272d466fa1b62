---------------------- MODULE UseCaseManagementProofs ----------------------
(***************************************************************************)
(* Proofs about UseCaseManagement, for any set of use cases, requests and  *)
(* failing calls.                                                          *)
(***************************************************************************)
EXTENDS UseCaseManagement, TLAPS

\* A request that puts a detached config back has read its key.
DetachKeyKnown == \A r \in Requests : pc[r] = "detachPut" => seenKey[r] \in Requests

TypeInv == TypeOK /\ DetachKeyKnown

LEMMA InitTyped == Init => TypeInv
<1>1. AnyUseCase \in UseCaseIds
  BY UseCaseIdsAssumption DEF AnyUseCase
<1> QED
  BY <1>1 DEF Init, TypeInv, TypeOK, DetachKeyKnown, Keys, Ops, Steps, Outcomes, Statuses,
              Deployed, Deleting

LEMMA TypeInductive == TypeInv /\ [Next]_vars => TypeInv'
<1> SUFFICES ASSUME TypeInv, [Next]_vars PROVE TypeInv'
  OBVIOUS
<1> USE DEF TypeInv, TypeOK, DetachKeyKnown, Keys, Ops, Steps, Outcomes, Statuses, Deployed,
            Deleting, recordVars, configVars, stackVars, seenVars, jobVars, runVars,
            Goto, Stop, Succeed, At
<1>1. ASSUME NEW r \in Requests, NEW o \in Ops, NEW u \in UseCaseIds, NEW m \in BOOLEAN,
             Start(r, o, u, m)
      PROVE  TypeInv'
  BY <1>1 DEF Start, FirstStep
<1>2. ASSUME NEW r \in Requests, CreateUseCaseConfig(r) PROVE TypeInv'
  BY <1>2 DEF CreateUseCaseConfig, PutConfig
<1>3. ASSUME NEW r \in Requests, GetUseCaseRecord(r) PROVE TypeInv'
  BY <1>3 DEF GetUseCaseRecord, AfterGetRecord, Abort
<1>4. ASSUME NEW r \in Requests, DescribeStack(r) PROVE TypeInv'
  BY <1>4 DEF DescribeStack, AfterDescribe
<1>5. ASSUME NEW r \in Requests, DeleteStack(r) PROVE TypeInv'
  BY <1>5 DEF DeleteStack
<1>6. ASSUME NEW r \in Requests, MarkConfig(r) PROVE TypeInv'
  BY <1>6 DEF MarkConfig, MarkKey
<1>7. ASSUME NEW r \in Requests, ValidateNewUseCase(r) PROVE TypeInv'
  BY <1>7 DEF ValidateNewUseCase
<1>8. ASSUME NEW r \in Requests, CreateStack(r) PROVE TypeInv'
  BY <1>8 DEF CreateStack
<1>9. ASSUME NEW r \in Requests, CreateUseCaseRecord(r) PROVE TypeInv'
  BY <1>9 DEF CreateUseCaseRecord, PutRecord
<1>10. ASSUME NEW r \in Requests, ValidateUpdateUseCase(r) PROVE TypeInv'
  BY <1>10 DEF ValidateUpdateUseCase
<1>11. ASSUME NEW r \in Requests, MarkOldConfig(r) PROVE TypeInv'
  BY <1>11 DEF MarkOldConfig, MarkKey
<1>12. ASSUME NEW r \in Requests, UpdateStack(r) PROVE TypeInv'
  BY <1>12 DEF UpdateStack
<1>13. ASSUME NEW r \in Requests, UpdateUseCaseRecord(r) PROVE TypeInv'
  BY <1>13 DEF UpdateUseCaseRecord
<1>14. ASSUME NEW r \in Requests, MarkUseCaseRecordForDeletion(r) PROVE TypeInv'
  BY <1>14 DEF MarkUseCaseRecordForDeletion
<1>15. ASSUME NEW r \in Requests, DetachGet(r) PROVE TypeInv'
  BY <1>15 DEF DetachGet
<1>16. ASSUME NEW r \in Requests, DetachPut(r) PROVE TypeInv'
  BY <1>16 DEF DetachPut, PutConfig
<1>17. ASSUME NEW r \in Requests, DeleteUseCaseRecord(r) PROVE TypeInv'
  BY <1>17 DEF DeleteUseCaseRecord, DropRecord
<1>18. ASSUME NEW r \in Requests, GetUseCaseConfig(r) PROVE TypeInv'
  BY <1>18 DEF GetUseCaseConfig
<1>19. ASSUME NEW r \in Requests, Crash(r) PROVE TypeInv'
  BY <1>19 DEF Crash
<1>20. ASSUME NEW u \in UseCaseIds, ExpireRecord(u) PROVE TypeInv'
  BY <1>20 DEF ExpireRecord, DropRecord
<1>21. ASSUME NEW u \in UseCaseIds, CfnStep(u) PROVE TypeInv'
  BY <1>21 DEF CfnStep, CfnComplete, CfnCreateFails, CfnUpdateRollsBack,
               CfnDeleteEnds, CfnForget
<1>22. ASSUME NEW k \in Requests, ExpireConfig(k) PROVE TypeInv'
  BY <1>22 DEF ExpireConfig, DropConfig
<1>23. CASE UNCHANGED vars
  BY <1>23 DEF vars
<1> HIDE DEF TypeInv, Ops
<1> QED
  BY <1>1, <1>2, <1>3, <1>4, <1>5, <1>6, <1>7, <1>8, <1>9, <1>10, <1>11, <1>12,
     <1>13, <1>14, <1>15, <1>16, <1>17, <1>18, <1>19, <1>20, <1>21, <1>22, <1>23
  DEF Next, Step

\* The type invariant, with the one fact about requests that it rests on.
THEOREM TypeCorrect == Spec => []TypeOK
<1>1. TypeInv => TypeOK
  BY DEF TypeInv
<1> QED
  BY <1>1, InitTyped, TypeInductive, PTL DEF Spec

-----------------------------------------------------------------------------
(* No stack is lost. *)

\* Each step belongs to the commands that take it.
StepsFit == \A r \in Requests :
    /\ pc[r] = "putConfig" => op[r] \in {"create", "update"}
    /\ pc[r] \in {"validateNew", "createStack", "putRecord"} => op[r] = "create"
    /\ pc[r] \in {"validateUpdate", "markOld", "updateStack", "updateRecord"}
           => op[r] = "update"
    /\ pc[r] \in {"getRecord", "describe"} => op[r] # "create"
    /\ pc[r] \in {"detachGet", "detachPut", "deleteRecord"} => op[r] = "permanentlyDelete"
    /\ pc[r] \in {"deleteStack", "markConfig"} => op[r] \in {"delete", "permanentlyDelete"}
    /\ pc[r] = "markRecord" => op[r] = "delete"
    /\ pc[r] = "getConfig" => op[r] = "get"

\* create generates the use case id.
OneCreator == \A r, q \in Requests :
    pc[r] # "idle" /\ op[r] = "create" /\ pc[q] # "idle" /\ op[q] = "create"
        /\ uc[r] = uc[q] => r = q

\* A stack comes from a create, and whoever knows a StackId knows a stack.
StackCreated ==
    /\ \A u \in UseCaseIds : status[u] # "NONE" =>
           \E r \in Requests : op[r] = "create" /\ uc[r] = u /\ pc[r] = "putRecord"
    /\ \A r \in Requests : pc[r] = "putRecord" => status[uc[r]] # "NONE"
    /\ \A u \in stackId : status[u] # "NONE"
    /\ \A r \in seenStack : pc[r] \notin {"idle", "getRecord"} /\ status[uc[r]] # "NONE"
    /\ \A r \in Requests : pc[r] \in {"updateStack", "updateRecord", "deleteStack",
                                      "markRecord", "markConfig", "deleteRecord"}
           => r \in seenStack

\* The stack is deleted before the record is marked or deleted.
StackDeletedFirst ==
    /\ \A u \in recordTtl : status[u] \in Deleting
    /\ \A r \in Requests : pc[r] \in {"markRecord", "markConfig", "deleteRecord"}
           => status[uc[r]] \in Deleting

StackInv == TypeInv /\ StepsFit /\ OneCreator /\ StackCreated /\ StackDeletedFirst /\ NoLostStack

LEMMA StackInvInductive == StackInv /\ TypeInv' /\ [Next]_vars => StackInv'
<1> SUFFICES ASSUME StackInv, TypeInv', [Next]_vars PROVE StackInv'
  OBVIOUS
<1> USE DEF StackInv, TypeInv, TypeOK, StepsFit, OneCreator, StackCreated, StackDeletedFirst,
            NoLostStack, RecordPending, Ops, Deployed, Deleting, At, Active,
            recordVars, configVars, stackVars, seenVars, jobVars, runVars,
            Goto, Stop, Succeed
<1>1. ASSUME NEW r \in Requests, NEW o \in Ops, NEW u \in UseCaseIds, NEW m \in BOOLEAN,
             Start(r, o, u, m)
      PROVE  StackInv'
  BY <1>1 DEF Start, FirstStep
<1>2. ASSUME NEW r \in Requests, CreateUseCaseConfig(r) PROVE StackInv'
  BY <1>2 DEF CreateUseCaseConfig, PutConfig
<1>3. ASSUME NEW r \in Requests, GetUseCaseRecord(r) PROVE StackInv'
  BY <1>3 DEF GetUseCaseRecord, AfterGetRecord, Abort
<1>4. ASSUME NEW r \in Requests, DescribeStack(r) PROVE StackInv'
  BY <1>4 DEF DescribeStack, AfterDescribe
<1>5. ASSUME NEW r \in Requests, DeleteStack(r) PROVE StackInv'
  BY <1>5 DEF DeleteStack
<1>6. ASSUME NEW r \in Requests, MarkConfig(r) PROVE StackInv'
  BY <1>6 DEF MarkConfig, MarkKey
<1>7. ASSUME NEW r \in Requests, ValidateNewUseCase(r) PROVE StackInv'
  BY <1>7 DEF ValidateNewUseCase
<1>8. ASSUME NEW r \in Requests, CreateStack(r) PROVE StackInv'
  BY <1>8 DEF CreateStack
<1>9. ASSUME NEW r \in Requests, CreateUseCaseRecord(r) PROVE StackInv'
  BY <1>9 DEF CreateUseCaseRecord, PutRecord
<1>10. ASSUME NEW r \in Requests, ValidateUpdateUseCase(r) PROVE StackInv'
  BY <1>10 DEF ValidateUpdateUseCase
<1>11. ASSUME NEW r \in Requests, MarkOldConfig(r) PROVE StackInv'
  BY <1>11 DEF MarkOldConfig, MarkKey
<1>12. ASSUME NEW r \in Requests, UpdateStack(r) PROVE StackInv'
  <2> USE <1>12 DEF UpdateStack
  <2>1. StepsFit'
    OBVIOUS
  <2>2. OneCreator'
    OBVIOUS
  <2>3. StackCreated'
    OBVIOUS
  <2>4. StackDeletedFirst'
    OBVIOUS
  <2>5. NoLostStack'
    OBVIOUS
  <2> QED
    BY <2>1, <2>2, <2>3, <2>4, <2>5
<1>13. ASSUME NEW r \in Requests, UpdateUseCaseRecord(r) PROVE StackInv'
  BY <1>13 DEF UpdateUseCaseRecord
<1>14. ASSUME NEW r \in Requests, MarkUseCaseRecordForDeletion(r) PROVE StackInv'
  BY <1>14 DEF MarkUseCaseRecordForDeletion
<1>15. ASSUME NEW r \in Requests, DetachGet(r) PROVE StackInv'
  BY <1>15 DEF DetachGet
<1>16. ASSUME NEW r \in Requests, DetachPut(r) PROVE StackInv'
  BY <1>16 DEF DetachPut, PutConfig
<1>17. ASSUME NEW r \in Requests, DeleteUseCaseRecord(r) PROVE StackInv'
  BY <1>17 DEF DeleteUseCaseRecord, DropRecord
<1>18. ASSUME NEW r \in Requests, GetUseCaseConfig(r) PROVE StackInv'
  BY <1>18 DEF GetUseCaseConfig
<1>19. ASSUME NEW r \in Requests, Crash(r) PROVE StackInv'
  BY <1>19 DEF Crash
<1>20. ASSUME NEW u \in UseCaseIds, ExpireRecord(u) PROVE StackInv'
  BY <1>20 DEF ExpireRecord, DropRecord
<1>21. ASSUME NEW u \in UseCaseIds, CfnStep(u) PROVE StackInv'
  BY <1>21 DEF CfnStep, CfnComplete, CfnCreateFails, CfnUpdateRollsBack,
               CfnDeleteEnds, CfnForget
<1>22. ASSUME NEW k \in Requests, ExpireConfig(k) PROVE StackInv'
  BY <1>22 DEF ExpireConfig, DropConfig
<1>23. CASE UNCHANGED vars
  BY <1>23 DEF vars
<1> HIDE DEF StackInv, Ops
<1> QED
  BY <1>1, <1>2, <1>3, <1>4, <1>5, <1>6, <1>7, <1>8, <1>9, <1>10, <1>11, <1>12,
     <1>13, <1>14, <1>15, <1>16, <1>17, <1>18, <1>19, <1>20, <1>21, <1>22, <1>23
  DEF Next, Step

\* A stack that nobody asked to delete is named by its record, whichever calls
\* fail and however the requests interleave.
THEOREM NoStackLost == Spec => []NoLostStack
<1>1. Init => StackInv
  <2>1. Init => TypeInv
    BY InitTyped
  <2> QED
    BY <2>1 DEF Init, StackInv, StepsFit, OneCreator, StackCreated, StackDeletedFirst,
                NoLostStack, Deployed
<1>2. StackInv /\ [Next]_vars => StackInv'
  BY TypeInductive, StackInvInductive DEF StackInv
<1>3. StackInv => NoLostStack
  BY DEF StackInv
<1> QED
  BY <1>1, <1>2, <1>3, PTL DEF Spec

-----------------------------------------------------------------------------
(* The config of a live record is kept. *)

\* A record key that is written in a record, or was read from one, is that of
\* a command that completed on this use case.
KeysOwned ==
    /\ \A u \in UseCaseIds : recordKey[u] \in Requests =>
           outcome[recordKey[u]] = "SUCCESS" /\ uc[recordKey[u]] = u
    /\ \A r \in Requests : seenKey[r] \in Requests =>
           /\ outcome[seenKey[r]] = "SUCCESS" /\ uc[seenKey[r]] = uc[r]
           /\ pc[r] # "idle"

\* Where a record key must be defined.
KeysDefined ==
    /\ \A u \in records \ recordTtl : recordKey[u] \in Requests
    /\ \A u \in stackId : recordKey[u] \in Requests
    /\ \A r \in seenStack : seenKey[r] \in Requests

\* The request has put its config and has not completed.
Holds(r) ==
    /\ outcome[r] # "SUCCESS"
    /\ \/ pc[r] \in {"validateNew", "createStack", "putRecord", "markOld",
                     "updateStack", "updateRecord"}
       \/ pc[r] = "describe" /\ op[r] = "update"

NewConfigStored == \A r \in Requests : Holds(r) => Stored(r) \/ r \in unsaved

\* When delete gets to the config, the record it read is marked or replaced.
RecordMarkedFirst == \A r \in Requests :
    op[r] = "delete" /\ At(r, "markConfig") =>
        uc[r] \in recordTtl \/ recordKey[uc[r]] # seenKey[r]

ConfigInv == /\ StackInv /\ KeysOwned /\ KeysDefined /\ NewConfigStored
             /\ RecordMarkedFirst /\ LiveConfigKept

LEMMA ConfigInvInductive == ConfigInv /\ StackInv' /\ [Next]_vars => ConfigInv'
<1> SUFFICES ASSUME ConfigInv, StackInv', [Next]_vars PROVE ConfigInv'
  OBVIOUS
<1> USE NoKeyAssumption
        DEF ConfigInv, StackInv, TypeInv, TypeOK, StepsFit, StackCreated, Keys,
            KeysOwned, KeysDefined, Holds, NewConfigStored, RecordMarkedFirst,
            LiveConfigKept, Culprit, Live, Stored, MayFail, At, Active,
            recordVars, configVars, stackVars, seenVars, jobVars, runVars,
            Goto, Stop, Succeed
<1>1. ASSUME NEW r \in Requests, NEW o \in Ops, NEW u \in UseCaseIds, NEW m \in BOOLEAN,
             Start(r, o, u, m)
      PROVE  ConfigInv'
  BY <1>1 DEF Start, FirstStep
<1>2. ASSUME NEW r \in Requests, CreateUseCaseConfig(r) PROVE ConfigInv'
  BY <1>2 DEF CreateUseCaseConfig, PutConfig
<1>3. ASSUME NEW r \in Requests, GetUseCaseRecord(r) PROVE ConfigInv'
  <2> USE <1>3 DEF GetUseCaseRecord, AfterGetRecord, Abort
  <2>1. KeysOwned'
    <3>1. outcome[r] = "running" /\ outcome' \in [Requests -> Outcomes]
      BY DEF Outcomes
    <3>2. \A q \in Requests : outcome[q] = "SUCCESS" => outcome'[q] = "SUCCESS"
      BY <3>1
    <3>3. \A q \in Requests : seenKey'[q] # seenKey[q] =>
             q = r /\ seenKey'[r] = recordKey[uc[r]] /\ pc'[r] # "idle"
      OBVIOUS
    <3>4. \A q \in Requests : pc[q] # "idle" => pc'[q] # "idle"
      OBVIOUS
    <3>5. recordKey' = recordKey /\ uc' = uc
      OBVIOUS
    <3>6. seenKey' \in [Requests -> Keys] /\ recordKey \in [UseCaseIds -> Keys]
      OBVIOUS
    <3> QED
      BY <3>2, <3>3, <3>4, <3>5, <3>6
  <2>2. KeysDefined'
    OBVIOUS
  <2>3. NewConfigStored'
    OBVIOUS
  <2>4. RecordMarkedFirst'
    OBVIOUS
  <2>5. LiveConfigKept'
    OBVIOUS
  <2> QED
    BY <2>1, <2>2, <2>3, <2>4, <2>5
<1>4. ASSUME NEW r \in Requests, DescribeStack(r) PROVE ConfigInv'
  BY <1>4 DEF DescribeStack, AfterDescribe
<1>5. ASSUME NEW r \in Requests, DeleteStack(r) PROVE ConfigInv'
  BY <1>5 DEF DeleteStack
<1>6. ASSUME NEW r \in Requests, MarkConfig(r) PROVE ConfigInv'
  BY <1>6 DEF MarkConfig, MarkKey
<1>7. ASSUME NEW r \in Requests, ValidateNewUseCase(r) PROVE ConfigInv'
  BY <1>7 DEF ValidateNewUseCase
<1>8. ASSUME NEW r \in Requests, CreateStack(r) PROVE ConfigInv'
  BY <1>8 DEF CreateStack
<1>9. ASSUME NEW r \in Requests, CreateUseCaseRecord(r) PROVE ConfigInv'
  BY <1>9 DEF CreateUseCaseRecord, PutRecord
<1>10. ASSUME NEW r \in Requests, ValidateUpdateUseCase(r) PROVE ConfigInv'
  BY <1>10 DEF ValidateUpdateUseCase
<1>11. ASSUME NEW r \in Requests, MarkOldConfig(r) PROVE ConfigInv'
  BY <1>11 DEF MarkOldConfig, MarkKey
<1>12. ASSUME NEW r \in Requests, UpdateStack(r) PROVE ConfigInv'
  BY <1>12 DEF UpdateStack
<1>13. ASSUME NEW r \in Requests, UpdateUseCaseRecord(r) PROVE ConfigInv'
  BY <1>13 DEF UpdateUseCaseRecord
<1>14. ASSUME NEW r \in Requests, MarkUseCaseRecordForDeletion(r) PROVE ConfigInv'
  BY <1>14 DEF MarkUseCaseRecordForDeletion
<1>15. ASSUME NEW r \in Requests, DetachGet(r) PROVE ConfigInv'
  BY <1>15 DEF DetachGet
<1>16. ASSUME NEW r \in Requests, DetachPut(r) PROVE ConfigInv'
  BY <1>16 DEF DetachPut, PutConfig
<1>17. ASSUME NEW r \in Requests, DeleteUseCaseRecord(r) PROVE ConfigInv'
  BY <1>17 DEF DeleteUseCaseRecord, DropRecord
<1>18. ASSUME NEW r \in Requests, GetUseCaseConfig(r) PROVE ConfigInv'
  BY <1>18 DEF GetUseCaseConfig
<1>19. ASSUME NEW r \in Requests, Crash(r) PROVE ConfigInv'
  BY <1>19 DEF Crash
<1>20. ASSUME NEW u \in UseCaseIds, ExpireRecord(u) PROVE ConfigInv'
  BY <1>20 DEF ExpireRecord, DropRecord
<1>21. ASSUME NEW u \in UseCaseIds, CfnStep(u) PROVE ConfigInv'
  BY <1>21 DEF CfnStep, CfnComplete, CfnCreateFails, CfnUpdateRollsBack,
               CfnDeleteEnds, CfnForget
<1>22. ASSUME NEW k \in Requests, ExpireConfig(k) PROVE ConfigInv'
  BY <1>22 DEF ExpireConfig, DropConfig
<1>23. CASE UNCHANGED vars
  BY <1>23 DEF vars
<1> HIDE DEF ConfigInv, Ops
<1> QED
  BY <1>1, <1>2, <1>3, <1>4, <1>5, <1>6, <1>7, <1>8, <1>9, <1>10, <1>11, <1>12,
     <1>13, <1>14, <1>15, <1>16, <1>17, <1>18, <1>19, <1>20, <1>21, <1>22, <1>23
  DEF Next, Step

LEMMA InitConfig == Init => ConfigInv
BY InitTyped, NoKeyAssumption
DEF Init, ConfigInv, StackInv, StepsFit, OneCreator, StackCreated, StackDeletedFirst, NoLostStack,
    Deployed, KeysOwned, KeysDefined, Holds, NewConfigStored, RecordMarkedFirst,
    LiveConfigKept, Live, At

\* The config of a live record is stored and not expiring, or its PutItem
\* failed, or a command that has not completed marked it.
THEOREM LiveConfigIsKept == Spec => []LiveConfigKept
<1>1. ConfigInv /\ [Next]_vars => ConfigInv'
  BY ConfigInvInductive, StackInvInductive, TypeInductive DEF ConfigInv, StackInv
<1>2. ConfigInv => LiveConfigKept
  BY DEF ConfigInv
<1> QED
  BY <1>1, <1>2, InitConfig, PTL DEF Spec

\* CloudFormation only accepts creations and updates whose config is stored
\* and not expiring, or whose PutItem failed.
THEOREM ConfigIsBeforeCfn == Spec => ConfigBeforeCfn
<1> DEFINE StoredFirst == \A u \in UseCaseIds :
        status'[u] \in {"CREATE_IN_PROGRESS", "UPDATE_IN_PROGRESS"} /\ status'[u] # status[u]
            => Stored(stackKey'[u]) \/ stackKey'[u] \in unsaved
<1>1. ConfigInv /\ [Next]_vars => ConfigInv'
  BY ConfigInvInductive, StackInvInductive, TypeInductive DEF ConfigInv, StackInv
<1>2. ConfigInv /\ [Next]_vars => [StoredFirst]_vars
  <2> SUFFICES ASSUME ConfigInv, Next PROVE StoredFirst
    BY DEF vars
  <2> USE DEF recordVars, configVars, stackVars, seenVars, jobVars, runVars
  <2>1. ASSUME NEW r \in Requests, CreateStack(r) \/ UpdateStack(r) PROVE StoredFirst
    BY <2>1 DEF CreateStack, UpdateStack, ConfigInv, StackInv, TypeInv, TypeOK,
                NewConfigStored, Holds, Stored, At
  <2>2. ASSUME NEW u \in UseCaseIds, CfnStep(u) PROVE StoredFirst
    BY <2>2 DEF CfnStep, CfnComplete, CfnCreateFails, CfnUpdateRollsBack, CfnDeleteEnds,
                CfnForget, ConfigInv, StackInv, TypeInv, TypeOK
  <2>3. ASSUME NEW r \in Requests, DeleteStack(r) PROVE StoredFirst
    BY <2>3 DEF DeleteStack, ConfigInv, StackInv, TypeInv, TypeOK
  <2>4. CASE UNCHANGED status
    BY <2>4
  <2>5. ASSUME NEW r \in Requests, Step(r)
        PROVE  CreateStack(r) \/ UpdateStack(r) \/ DeleteStack(r) \/ UNCHANGED status
    BY <2>5 DEF Step, CreateUseCaseConfig, GetUseCaseRecord, DescribeStack, MarkConfig,
                ValidateNewUseCase, CreateUseCaseRecord, ValidateUpdateUseCase, MarkOldConfig,
                UpdateUseCaseRecord, MarkUseCaseRecordForDeletion, DetachGet, DetachPut,
                DeleteUseCaseRecord, GetUseCaseConfig
  <2> HIDE DEF StoredFirst
  <2> QED
    BY <2>1, <2>2, <2>3, <2>4, <2>5 DEF Next, Start, Crash, ExpireRecord, ExpireConfig
<1> QED
  BY <1>1, <1>2, InitConfig, PTL DEF Spec, ConfigBeforeCfn

-----------------------------------------------------------------------------
(* Commands that do not overlap, and do not fail half way, are consistent. *)

\* A command that writes, and has not ended.
Busy(r) == Active(r) /\ op[r] \in Writers

\* The configs that will not expire.
Unmarked == configs \ configTtl

\* A request's own config is not there before the request has put it.
NotPutYet == \A r \in Requests :
    pc[r] \in {"idle", "getRecord", "validateUpdate", "putConfig"} => r \notin configs

\* A record only ever belongs to a stack that was created.
RecordHasStack == \A u \in records : status[u] # "NONE"

\* A failure after the first write disturbs the use case, and so does the
\* PutItem that createUseCaseConfig swallows.
FailuresDisturb ==
    /\ \A r \in unsaved : pc[r] # "idle" /\ uc[r] \in disturbed
    /\ \A r \in Requests : outcome[r] \notin {"running", "SUCCESS"} =>
           pc[r] # "idle" /\ (WroteNothing(r) \/ uc[r] \in disturbed)

\* A command that ended well has put its config, if it has one, and a
\* permanentlyDelete that did has come to deleteUseCaseRecord.
SuccessLast == \A r \in Requests : outcome[r] = "SUCCESS" =>
    /\ pc[r] \notin {"idle", "getRecord", "validateUpdate", "putConfig"}
    /\ op[r] = "permanentlyDelete" => pc[r] = "deleteRecord"

\* An undisturbed use case has one writer at a time.
OneWriter == \A r, q \in Requests :
    Busy(r) /\ Busy(q) /\ uc[r] = uc[q] /\ uc[r] \notin disturbed => r = q

\* Request r is the writer of an undisturbed use case.
Quiet(r) == Busy(r) /\ uc[r] \notin disturbed

\* The key it read is still the one of the record.
SeenIsCurrent == \A r \in Requests :
    Quiet(r) /\ op[r] # "create" /\ pc[r] # "getRecord" /\ Live(uc[r])
        => seenKey[r] = recordKey[uc[r]]

\* CloudFormation has its key, and an update finds the record to change.
StackHasKey == \A r \in Requests :
    Quiet(r) /\ pc[r] \in {"putRecord", "updateRecord"} =>
        /\ stackKey[uc[r]] = r
        /\ pc[r] = "updateRecord" => Live(uc[r])

\* Request r has given the config it read a TTL.
Superseding(r) == \/ op[r] = "update" /\ pc[r] \in {"describe", "updateStack", "updateRecord"}
                  \/ pc[r] = "deleteRecord"

SupersededExpires == \A r \in Requests :
    Quiet(r) /\ Superseding(r) => seenKey[r] \notin Unmarked

\* A live record names its stack, and the config the stack was deployed with.
RecordFitsStack == \A u \in UseCaseIds \ disturbed : Live(u) =>
    /\ u \in stackId
    /\ \/ stackKey[u] = recordKey[u]
       \/ \E r \in Requests : Busy(r) /\ uc[r] = u /\ pc[r] = "updateRecord"

\* Request r has yet to name config k in the record, or to give it a TTL.
Owes(r, k) ==
    \/ Holds(r) /\ k = r
    \/ /\ k = seenKey[r]
       /\ \/ pc[r] = "markConfig"
          \/ op[r] = "permanentlyDelete" /\ pc[r] \in {"describe", "deleteStack"}

\* A config that will not expire is named by a live record, or some writer
\* has it in hand.
ConfigIsOwed == \A u \in UseCaseIds \ disturbed : \A k \in KeysOf(u) \cap Unmarked :
    \/ Live(u) /\ recordKey[u] = k
    \/ \E r \in Requests : Busy(r) /\ uc[r] = u /\ Owes(r, k)

\* After a permanent deletion there is no record, and no writer finds one.
RemovedStaysGone == \A u \in UseCaseIds \ disturbed : Removed(u) =>
    /\ u \notin records
    /\ \A r \in Requests : Busy(r) /\ uc[r] = u => pc[r] = "getRecord"

\* Who writes: true of every use case, disturbed or not.
WriterInv == NotPutYet /\ RecordHasStack /\ FailuresDisturb /\ SuccessLast /\ OneWriter

LEMMA WriterInductive == WriterInv /\ ConfigInv /\ [Next]_vars => WriterInv'
<1> SUFFICES ASSUME WriterInv, ConfigInv, [Next]_vars PROVE WriterInv'
  OBVIOUS
<1> USE NoKeyAssumption
        DEF WriterInv, NotPutYet, RecordHasStack, FailuresDisturb, SuccessLast, OneWriter,
            Busy, Writers, Overlaps, WroteNothing, Ops, Outcomes,
            ConfigInv, StackInv, TypeInv, TypeOK, StepsFit, StackCreated, Keys,
            KeysOwned, At, Active, recordVars, configVars, stackVars, seenVars, jobVars, runVars,
            Goto, Stop, Succeed
<1>1. ASSUME NEW r \in Requests, NEW o \in Ops, NEW u \in UseCaseIds, NEW m \in BOOLEAN,
             Start(r, o, u, m)
      PROVE  WriterInv'
  BY <1>1 DEF Start, FirstStep
<1>2. ASSUME NEW r \in Requests, CreateUseCaseConfig(r) PROVE WriterInv'
  BY <1>2 DEF CreateUseCaseConfig, PutConfig
<1>3. ASSUME NEW r \in Requests, GetUseCaseRecord(r) PROVE WriterInv'
  BY <1>3 DEF GetUseCaseRecord, AfterGetRecord, Abort
<1>4. ASSUME NEW r \in Requests, DescribeStack(r) PROVE WriterInv'
  BY <1>4 DEF DescribeStack, AfterDescribe
<1>5. ASSUME NEW r \in Requests, DeleteStack(r) PROVE WriterInv'
  BY <1>5 DEF DeleteStack
<1>6. ASSUME NEW r \in Requests, MarkConfig(r) PROVE WriterInv'
  BY <1>6 DEF MarkConfig, MarkKey
<1>7. ASSUME NEW r \in Requests, ValidateNewUseCase(r) PROVE WriterInv'
  BY <1>7 DEF ValidateNewUseCase
<1>8. ASSUME NEW r \in Requests, CreateStack(r) PROVE WriterInv'
  BY <1>8 DEF CreateStack
<1>9. ASSUME NEW r \in Requests, CreateUseCaseRecord(r) PROVE WriterInv'
  BY <1>9 DEF CreateUseCaseRecord, PutRecord
<1>10. ASSUME NEW r \in Requests, ValidateUpdateUseCase(r) PROVE WriterInv'
  BY <1>10 DEF ValidateUpdateUseCase
<1>11. ASSUME NEW r \in Requests, MarkOldConfig(r) PROVE WriterInv'
  BY <1>11 DEF MarkOldConfig, MarkKey
<1>12. ASSUME NEW r \in Requests, UpdateStack(r) PROVE WriterInv'
  BY <1>12 DEF UpdateStack
<1>13. ASSUME NEW r \in Requests, UpdateUseCaseRecord(r) PROVE WriterInv'
  BY <1>13 DEF UpdateUseCaseRecord
<1>14. ASSUME NEW r \in Requests, MarkUseCaseRecordForDeletion(r) PROVE WriterInv'
  BY <1>14 DEF MarkUseCaseRecordForDeletion
<1>15. ASSUME NEW r \in Requests, DetachGet(r) PROVE WriterInv'
  BY <1>15 DEF DetachGet
<1>16. ASSUME NEW r \in Requests, DetachPut(r) PROVE WriterInv'
  BY <1>16 DEF DetachPut, PutConfig
<1>17. ASSUME NEW r \in Requests, DeleteUseCaseRecord(r) PROVE WriterInv'
  BY <1>17 DEF DeleteUseCaseRecord, DropRecord
<1>18. ASSUME NEW r \in Requests, GetUseCaseConfig(r) PROVE WriterInv'
  BY <1>18 DEF GetUseCaseConfig
<1>19. ASSUME NEW r \in Requests, Crash(r) PROVE WriterInv'
  BY <1>19 DEF Crash
<1>20. ASSUME NEW u \in UseCaseIds, ExpireRecord(u) PROVE WriterInv'
  BY <1>20 DEF ExpireRecord, DropRecord
<1>21. ASSUME NEW u \in UseCaseIds, CfnStep(u) PROVE WriterInv'
  BY <1>21 DEF CfnStep, CfnComplete, CfnCreateFails, CfnUpdateRollsBack,
               CfnDeleteEnds, CfnForget
<1>22. ASSUME NEW k \in Requests, ExpireConfig(k) PROVE WriterInv'
  BY <1>22 DEF ExpireConfig, DropConfig
<1>23. CASE UNCHANGED vars
  BY <1>23 DEF vars
<1> HIDE DEF WriterInv, Ops
<1> QED
  BY <1>1, <1>2, <1>3, <1>4, <1>5, <1>6, <1>7, <1>8, <1>9, <1>10, <1>11, <1>12,
     <1>13, <1>14, <1>15, <1>16, <1>17, <1>18, <1>19, <1>20, <1>21, <1>22, <1>23
  DEF Next, Step

\* What holds at every step of the one writer of an undisturbed use case.
QuietInv == /\ SeenIsCurrent /\ StackHasKey /\ SupersededExpires /\ RecordFitsStack
            /\ ConfigIsOwed /\ RemovedStaysGone

LEMMA QuietInductive ==
    QuietInv /\ WriterInv /\ WriterInv' /\ ConfigInv /\ ConfigInv' /\ [Next]_vars => QuietInv'
<1> SUFFICES ASSUME QuietInv, WriterInv, WriterInv', ConfigInv, ConfigInv', [Next]_vars
             PROVE  QuietInv'
  OBVIOUS
<1> USE NoKeyAssumption
        DEF QuietInv, WriterInv, Busy, Writers, Ops, ConfigInv, StackInv, TypeInv, TypeOK,
            Keys, At, Active, recordVars, configVars, stackVars, seenVars, jobVars, runVars,
            Goto, Stop, Succeed
<1>1. ASSUME NEW r \in Requests, NEW o \in Ops, NEW u \in UseCaseIds, NEW m \in BOOLEAN,
             Start(r, o, u, m)
      PROVE  QuietInv'
  <2> USE <1>1 DEF Start, FirstStep, Overlaps
  <2>1. SeenIsCurrent'
    BY DEF SeenIsCurrent, Quiet, Live, OneWriter
  <2>2. StackHasKey'
    BY DEF StackHasKey, Quiet, Live, OneWriter
  <2>3. SupersededExpires'
    BY DEF SupersededExpires, Quiet, Superseding, Unmarked, OneWriter
  <2>4. RecordFitsStack'
    BY DEF RecordFitsStack, Live, WroteNothing
  <2>5. ConfigIsOwed'
    BY DEF ConfigIsOwed, KeysOf, Owes, Unmarked, Holds, Live, NotPutYet
  <2>6. RemovedStaysGone'
    BY DEF RemovedStaysGone, Removed, SuccessLast, StackCreated
  <2> QED
    BY <2>1, <2>2, <2>3, <2>4, <2>5, <2>6 DEF QuietInv
<1>2. ASSUME NEW r \in Requests, CreateUseCaseConfig(r) PROVE QuietInv'
  <2> USE <1>2 DEF CreateUseCaseConfig, PutConfig
  <2>1. SeenIsCurrent'
    BY DEF SeenIsCurrent, Quiet, Live, OneWriter
  <2>2. StackHasKey'
    BY DEF StackHasKey, Quiet, Live, OneWriter
  <2>3. SupersededExpires'
    BY DEF SupersededExpires, Quiet, Superseding, Unmarked, OneWriter, KeysOwned
  <2>4. RecordFitsStack'
    BY DEF RecordFitsStack, Live, WroteNothing
  <2>5. ConfigIsOwed'
    BY DEF ConfigIsOwed, KeysOf, Owes, Unmarked, Holds, Live
  <2>6. RemovedStaysGone'
    BY DEF RemovedStaysGone, Removed
  <2> QED
    BY <2>1, <2>2, <2>3, <2>4, <2>5, <2>6 DEF QuietInv
<1>3. ASSUME NEW r \in Requests, GetUseCaseRecord(r) PROVE QuietInv'
  <2> USE <1>3 DEF GetUseCaseRecord, AfterGetRecord, Abort
  <2>1. SeenIsCurrent'
    BY DEF SeenIsCurrent, Quiet, Live, OneWriter
  <2>2. StackHasKey'
    BY DEF StackHasKey, Quiet, Live, OneWriter
  <2>3. SupersededExpires'
    BY DEF SupersededExpires, Quiet, Superseding, Unmarked, OneWriter
  <2>4. RecordFitsStack'
    BY DEF RecordFitsStack, Live, WroteNothing
  <2>5. ConfigIsOwed'
    BY DEF ConfigIsOwed, KeysOf, Owes, Unmarked, Holds, Live
  <2>6. RemovedStaysGone'
    BY DEF RemovedStaysGone, Removed
  <2> QED
    BY <2>1, <2>2, <2>3, <2>4, <2>5, <2>6 DEF QuietInv
<1>4. ASSUME NEW r \in Requests, DescribeStack(r) PROVE QuietInv'
  <2> USE <1>4 DEF DescribeStack, AfterDescribe
  <2>1. SeenIsCurrent'
    BY DEF SeenIsCurrent, Quiet, Live, OneWriter
  <2>2. StackHasKey'
    BY DEF StackHasKey, Quiet, Live, OneWriter
  <2>3. SupersededExpires'
    BY DEF SupersededExpires, Quiet, Superseding, Unmarked, OneWriter
  <2>4. RecordFitsStack'
    BY DEF RecordFitsStack, Live, WroteNothing
  <2>5. ConfigIsOwed'
    BY DEF ConfigIsOwed, KeysOf, Owes, Unmarked, Holds, Live, WroteNothing
  <2>6. RemovedStaysGone'
    BY DEF RemovedStaysGone, Removed
  <2> QED
    BY <2>1, <2>2, <2>3, <2>4, <2>5, <2>6 DEF QuietInv
<1>5. ASSUME NEW r \in Requests, DeleteStack(r) PROVE QuietInv'
  <2> USE <1>5 DEF DeleteStack
  <2>1. SeenIsCurrent'
    BY DEF SeenIsCurrent, Quiet, Live, OneWriter
  <2>2. StackHasKey'
    BY DEF StackHasKey, Quiet, Live, OneWriter
  <2>3. SupersededExpires'
    BY DEF SupersededExpires, Quiet, Superseding, Unmarked, OneWriter
  <2>4. RecordFitsStack'
    BY DEF RecordFitsStack, Live, WroteNothing
  <2>5. ConfigIsOwed'
    BY DEF ConfigIsOwed, KeysOf, Owes, Unmarked, Holds, Live, WroteNothing
  <2>6. RemovedStaysGone'
    BY DEF RemovedStaysGone, Removed
  <2> QED
    BY <2>1, <2>2, <2>3, <2>4, <2>5, <2>6 DEF QuietInv
<1>6. ASSUME NEW r \in Requests, MarkConfig(r) PROVE QuietInv'
  <2> USE <1>6 DEF MarkConfig, MarkKey
  <2>1. SeenIsCurrent'
    BY DEF SeenIsCurrent, Quiet, Live, OneWriter
  <2>2. StackHasKey'
    BY DEF StackHasKey, Quiet, Live, OneWriter
  <2>3. SupersededExpires'
    BY DEF SupersededExpires, Quiet, Superseding, Unmarked, OneWriter
  <2>4. RecordFitsStack'
    BY DEF RecordFitsStack, Live, WroteNothing
  <2>5. ConfigIsOwed'
    BY DEF ConfigIsOwed, KeysOf, Owes, Unmarked, Holds, Live, WroteNothing
  <2>6. RemovedStaysGone'
    BY DEF RemovedStaysGone, Removed
  <2> QED
    BY <2>1, <2>2, <2>3, <2>4, <2>5, <2>6 DEF QuietInv
<1>7. ASSUME NEW r \in Requests, ValidateNewUseCase(r) PROVE QuietInv'
  <2> USE <1>7 DEF ValidateNewUseCase
  <2>1. SeenIsCurrent'
    BY DEF SeenIsCurrent, Quiet, Live, OneWriter
  <2>2. StackHasKey'
    BY DEF StackHasKey, Quiet, Live, OneWriter
  <2>3. SupersededExpires'
    BY DEF SupersededExpires, Quiet, Superseding, Unmarked, OneWriter
  <2>4. RecordFitsStack'
    BY DEF RecordFitsStack, Live, WroteNothing
  <2>5. ConfigIsOwed'
    BY DEF ConfigIsOwed, KeysOf, Owes, Unmarked, Holds, Live, WroteNothing
  <2>6. RemovedStaysGone'
    BY DEF RemovedStaysGone, Removed
  <2> QED
    BY <2>1, <2>2, <2>3, <2>4, <2>5, <2>6 DEF QuietInv
<1>8. ASSUME NEW r \in Requests, CreateStack(r) PROVE QuietInv'
  <2> USE <1>8 DEF CreateStack
  <2>1. SeenIsCurrent'
    BY DEF SeenIsCurrent, Quiet, Live, OneWriter
  <2>2. StackHasKey'
    BY DEF StackHasKey, Quiet, Live, OneWriter, StepsFit
  <2>3. SupersededExpires'
    BY DEF SupersededExpires, Quiet, Superseding, Unmarked, OneWriter
  <2>4. RecordFitsStack'
    BY DEF RecordFitsStack, Live, WroteNothing, StepsFit, StackCreated, OneCreator
  <2>5. ConfigIsOwed'
    BY DEF ConfigIsOwed, KeysOf, Owes, Unmarked, Holds, Live, WroteNothing
  <2>6. RemovedStaysGone'
    BY DEF RemovedStaysGone, Removed
  <2> QED
    BY <2>1, <2>2, <2>3, <2>4, <2>5, <2>6 DEF QuietInv
<1>9. ASSUME NEW r \in Requests, CreateUseCaseRecord(r) PROVE QuietInv'
  <2> USE <1>9 DEF CreateUseCaseRecord, PutRecord
  <2>1. SeenIsCurrent'
    BY DEF SeenIsCurrent, Quiet, Live, OneWriter, StepsFit
  <2>2. StackHasKey'
    BY DEF StackHasKey, Quiet, Live, OneWriter
  <2>3. SupersededExpires'
    BY DEF SupersededExpires, Quiet, Superseding, Unmarked, OneWriter
  <2>4. RecordFitsStack'
    BY DEF RecordFitsStack, Live, WroteNothing, Quiet, StepsFit, StackHasKey
  <2>5. ConfigIsOwed'
    BY DEF ConfigIsOwed, KeysOf, Owes, Unmarked, Holds, Live, Quiet, StepsFit,
           WroteNothing, RecordFitsStack, StackHasKey
  <2>6. RemovedStaysGone'
    BY DEF RemovedStaysGone, Removed, StepsFit
  <2> QED
    BY <2>1, <2>2, <2>3, <2>4, <2>5, <2>6 DEF QuietInv
<1>10. ASSUME NEW r \in Requests, ValidateUpdateUseCase(r) PROVE QuietInv'
  <2> USE <1>10 DEF ValidateUpdateUseCase
  <2>1. SeenIsCurrent'
    BY DEF SeenIsCurrent, Quiet, Live, OneWriter
  <2>2. StackHasKey'
    BY DEF StackHasKey, Quiet, Live, OneWriter
  <2>3. SupersededExpires'
    BY DEF SupersededExpires, Quiet, Superseding, Unmarked, OneWriter
  <2>4. RecordFitsStack'
    BY DEF RecordFitsStack, Live, WroteNothing
  <2>5. ConfigIsOwed'
    BY DEF ConfigIsOwed, KeysOf, Owes, Unmarked, Holds, Live
  <2>6. RemovedStaysGone'
    BY DEF RemovedStaysGone, Removed
  <2> QED
    BY <2>1, <2>2, <2>3, <2>4, <2>5, <2>6 DEF QuietInv
<1>11. ASSUME NEW r \in Requests, MarkOldConfig(r) PROVE QuietInv'
  <2> USE <1>11 DEF MarkOldConfig, MarkKey
  <2>1. SeenIsCurrent'
    BY DEF SeenIsCurrent, Quiet, Live, OneWriter
  <2>2. StackHasKey'
    BY DEF StackHasKey, Quiet, Live, OneWriter
  <2>3. SupersededExpires'
    BY DEF SupersededExpires, Quiet, Superseding, Unmarked, OneWriter
  <2>4. RecordFitsStack'
    BY DEF RecordFitsStack, Live, WroteNothing
  <2>5. ConfigIsOwed'
    BY DEF ConfigIsOwed, KeysOf, Owes, Unmarked, Holds, Live, Quiet, StepsFit,
           SeenIsCurrent, WroteNothing
  <2>6. RemovedStaysGone'
    BY DEF RemovedStaysGone, Removed
  <2> QED
    BY <2>1, <2>2, <2>3, <2>4, <2>5, <2>6 DEF QuietInv
<1>12. ASSUME NEW r \in Requests, UpdateStack(r) PROVE QuietInv'
  <2> USE <1>12 DEF UpdateStack
  <2>1. SeenIsCurrent'
    BY DEF SeenIsCurrent, Quiet, Live, OneWriter
  <2>2. StackHasKey'
    <3>1. ASSUME Quiet(r), status[uc[r]] = "COMPLETE" PROVE Live(uc[r])
      <4>1. uc[r] \notin recordTtl /\ status[uc[r]] \in Deployed
        BY <3>1 DEF StackDeletedFirst, Deployed, Deleting
      <4>2. ~RecordPending(uc[r])
        BY <3>1 DEF RecordPending, Quiet, OneWriter, FailuresDisturb, WroteNothing, StepsFit,
                    Outcomes
      <4> QED
        BY <4>1, <4>2 DEF NoLostStack, Live
    <3> QED
      BY <3>1 DEF StackHasKey, Quiet, Live, OneWriter, StepsFit
  <2>3. SupersededExpires'
    BY DEF SupersededExpires, Quiet, Superseding, Unmarked, OneWriter
  <2>4. RecordFitsStack'
    BY DEF RecordFitsStack, Live, WroteNothing, StepsFit
  <2>5. ConfigIsOwed'
    BY DEF ConfigIsOwed, KeysOf, Owes, Unmarked, Holds, Live, WroteNothing
  <2>6. RemovedStaysGone'
    BY DEF RemovedStaysGone, Removed
  <2> QED
    BY <2>1, <2>2, <2>3, <2>4, <2>5, <2>6 DEF QuietInv
<1>13. ASSUME NEW r \in Requests, UpdateUseCaseRecord(r) PROVE QuietInv'
  <2> USE <1>13 DEF UpdateUseCaseRecord
  <2>1. SeenIsCurrent'
    BY DEF SeenIsCurrent, Quiet, Live, OneWriter, StepsFit
  <2>2. StackHasKey'
    BY DEF StackHasKey, Quiet, Live, OneWriter
  <2>3. SupersededExpires'
    BY DEF SupersededExpires, Quiet, Superseding, Unmarked, OneWriter
  <2>4. RecordFitsStack'
    BY DEF RecordFitsStack, Live, WroteNothing, Quiet, StepsFit, StackHasKey
  <2>5. ConfigIsOwed'
    BY DEF ConfigIsOwed, KeysOf, Owes, Unmarked, Holds, Live, Quiet, StepsFit,
           SeenIsCurrent, WroteNothing, SupersededExpires, Superseding, StackHasKey
  <2>6. RemovedStaysGone'
    BY DEF RemovedStaysGone, Removed, StepsFit
  <2> QED
    BY <2>1, <2>2, <2>3, <2>4, <2>5, <2>6 DEF QuietInv
<1>14. ASSUME NEW r \in Requests, MarkUseCaseRecordForDeletion(r) PROVE QuietInv'
  <2> USE <1>14 DEF MarkUseCaseRecordForDeletion
  <2>1. SeenIsCurrent'
    BY DEF SeenIsCurrent, Quiet, Live, OneWriter
  <2>2. StackHasKey'
    BY DEF StackHasKey, Quiet, Live, OneWriter, StepsFit
  <2>3. SupersededExpires'
    BY DEF SupersededExpires, Quiet, Superseding, Unmarked, OneWriter
  <2>4. RecordFitsStack'
    BY DEF RecordFitsStack, Live, WroteNothing
  <2>5. ConfigIsOwed'
    BY DEF ConfigIsOwed, KeysOf, Owes, Unmarked, Holds, Live, Quiet, StepsFit,
           SeenIsCurrent, WroteNothing
  <2>6. RemovedStaysGone'
    BY DEF RemovedStaysGone, Removed, StepsFit
  <2> QED
    BY <2>1, <2>2, <2>3, <2>4, <2>5, <2>6 DEF QuietInv
<1>15. ASSUME NEW r \in Requests, DetachGet(r) PROVE QuietInv'
  <2> USE <1>15 DEF DetachGet
  <2>1. SeenIsCurrent'
    BY DEF SeenIsCurrent, Quiet, Live, OneWriter
  <2>2. StackHasKey'
    BY DEF StackHasKey, Quiet, Live, OneWriter
  <2>3. SupersededExpires'
    BY DEF SupersededExpires, Quiet, Superseding, Unmarked, OneWriter, StepsFit
  <2>4. RecordFitsStack'
    BY DEF RecordFitsStack, Live, WroteNothing
  <2>5. ConfigIsOwed'
    BY DEF ConfigIsOwed, KeysOf, Owes, Unmarked, Holds, Live
  <2>6. RemovedStaysGone'
    BY DEF RemovedStaysGone, Removed
  <2> QED
    BY <2>1, <2>2, <2>3, <2>4, <2>5, <2>6 DEF QuietInv
<1>16. ASSUME NEW r \in Requests, DetachPut(r) PROVE QuietInv'
  <2> USE <1>16 DEF DetachPut, PutConfig
  <2>1. SeenIsCurrent'
    BY DEF SeenIsCurrent, Quiet, Live, OneWriter
  <2>2. StackHasKey'
    BY DEF StackHasKey, Quiet, Live, OneWriter
  <2>3. SupersededExpires'
    BY DEF SupersededExpires, Quiet, Superseding, Unmarked, OneWriter, KeysOwned, StepsFit
  <2>4. RecordFitsStack'
    BY DEF RecordFitsStack, Live, WroteNothing
  <2>5. ConfigIsOwed'
    BY DEF ConfigIsOwed, KeysOf, Owes, Unmarked, Holds, Live, StepsFit, KeysOwned
  <2>6. RemovedStaysGone'
    BY DEF RemovedStaysGone, Removed
  <2> QED
    BY <2>1, <2>2, <2>3, <2>4, <2>5, <2>6 DEF QuietInv
<1>17. ASSUME NEW r \in Requests, DeleteUseCaseRecord(r) PROVE QuietInv'
  <2> USE <1>17 DEF DeleteUseCaseRecord, DropRecord
  <2>1. SeenIsCurrent'
    BY DEF SeenIsCurrent, Quiet, Live, OneWriter
  <2>2. StackHasKey'
    BY DEF StackHasKey, Quiet, Live, OneWriter, StepsFit
  <2>3. SupersededExpires'
    BY DEF SupersededExpires, Quiet, Superseding, Unmarked, OneWriter
  <2>4. RecordFitsStack'
    BY DEF RecordFitsStack, Live, WroteNothing
  <2>5. ConfigIsOwed'
    BY DEF ConfigIsOwed, KeysOf, Owes, Unmarked, Holds, Live, Quiet, StepsFit,
           SeenIsCurrent, SupersededExpires, Superseding
  <2>6. RemovedStaysGone'
    BY DEF RemovedStaysGone, Removed, OneWriter
  <2> QED
    BY <2>1, <2>2, <2>3, <2>4, <2>5, <2>6 DEF QuietInv
<1>18. ASSUME NEW r \in Requests, GetUseCaseConfig(r) PROVE QuietInv'
  <2> USE <1>18 DEF GetUseCaseConfig
  <2>1. SeenIsCurrent'
    BY DEF SeenIsCurrent, Quiet, Live, OneWriter
  <2>2. StackHasKey'
    BY DEF StackHasKey, Quiet, Live, OneWriter
  <2>3. SupersededExpires'
    BY DEF SupersededExpires, Quiet, Superseding, Unmarked, OneWriter
  <2>4. RecordFitsStack'
    BY DEF RecordFitsStack, Live, WroteNothing
  <2>5. ConfigIsOwed'
    BY DEF ConfigIsOwed, KeysOf, Owes, Unmarked, Holds, Live
  <2>6. RemovedStaysGone'
    BY DEF RemovedStaysGone, Removed, StepsFit
  <2> QED
    BY <2>1, <2>2, <2>3, <2>4, <2>5, <2>6 DEF QuietInv
<1>19. ASSUME NEW r \in Requests, Crash(r) PROVE QuietInv'
  <2> USE <1>19 DEF Crash
  <2>1. SeenIsCurrent'
    BY DEF SeenIsCurrent, Quiet, Live, OneWriter
  <2>2. StackHasKey'
    BY DEF StackHasKey, Quiet, Live, OneWriter
  <2>3. SupersededExpires'
    BY DEF SupersededExpires, Quiet, Superseding, Unmarked, OneWriter
  <2>4. RecordFitsStack'
    BY DEF RecordFitsStack, Live, WroteNothing
  <2>5. ConfigIsOwed'
    BY DEF ConfigIsOwed, KeysOf, Owes, Unmarked, Holds, Live, KeysOwned, WroteNothing
  <2>6. RemovedStaysGone'
    BY DEF RemovedStaysGone, Removed
  <2> QED
    BY <2>1, <2>2, <2>3, <2>4, <2>5, <2>6 DEF QuietInv
<1>20. ASSUME NEW u \in UseCaseIds, ExpireRecord(u) PROVE QuietInv'
  <2> USE <1>20 DEF ExpireRecord, DropRecord
  <2>1. SeenIsCurrent'
    BY DEF SeenIsCurrent, Quiet, Live, OneWriter
  <2>2. StackHasKey'
    BY DEF StackHasKey, Quiet, Live, OneWriter
  <2>3. SupersededExpires'
    BY DEF SupersededExpires, Quiet, Superseding, Unmarked, OneWriter
  <2>4. RecordFitsStack'
    BY DEF RecordFitsStack, Live, WroteNothing
  <2>5. ConfigIsOwed'
    BY DEF ConfigIsOwed, KeysOf, Owes, Unmarked, Holds, Live
  <2>6. RemovedStaysGone'
    BY DEF RemovedStaysGone, Removed
  <2> QED
    BY <2>1, <2>2, <2>3, <2>4, <2>5, <2>6 DEF QuietInv
<1>21. ASSUME NEW u \in UseCaseIds, CfnStep(u) PROVE QuietInv'
  <2> USE <1>21 DEF CfnStep, CfnComplete, CfnCreateFails, CfnUpdateRollsBack,
               CfnDeleteEnds, CfnForget
  <2>1. SeenIsCurrent'
    BY DEF SeenIsCurrent, Quiet, Live, OneWriter
  <2>2. StackHasKey'
    BY DEF StackHasKey, Quiet, Live, OneWriter
  <2>3. SupersededExpires'
    BY DEF SupersededExpires, Quiet, Superseding, Unmarked, OneWriter
  <2>4. RecordFitsStack'
    BY DEF RecordFitsStack, Live, WroteNothing
  <2>5. ConfigIsOwed'
    BY DEF ConfigIsOwed, KeysOf, Owes, Unmarked, Holds, Live
  <2>6. RemovedStaysGone'
    BY DEF RemovedStaysGone, Removed
  <2> QED
    BY <2>1, <2>2, <2>3, <2>4, <2>5, <2>6 DEF QuietInv
<1>22. ASSUME NEW k \in Requests, ExpireConfig(k) PROVE QuietInv'
  <2> USE <1>22 DEF ExpireConfig, DropConfig
  <2>1. SeenIsCurrent'
    BY DEF SeenIsCurrent, Quiet, Live, OneWriter
  <2>2. StackHasKey'
    BY DEF StackHasKey, Quiet, Live, OneWriter
  <2>3. SupersededExpires'
    BY DEF SupersededExpires, Quiet, Superseding, Unmarked, OneWriter
  <2>4. RecordFitsStack'
    BY DEF RecordFitsStack, Live, WroteNothing
  <2>5. ConfigIsOwed'
    BY DEF ConfigIsOwed, KeysOf, Owes, Unmarked, Holds, Live
  <2>6. RemovedStaysGone'
    BY DEF RemovedStaysGone, Removed
  <2> QED
    BY <2>1, <2>2, <2>3, <2>4, <2>5, <2>6 DEF QuietInv
<1>23. CASE UNCHANGED vars
  BY <1>23 DEF vars, QuietInv, SeenIsCurrent, StackHasKey, SupersededExpires, RecordFitsStack,
               ConfigIsOwed, RemovedStaysGone, Quiet, Superseding, Unmarked, OneWriter, Live,
               KeysOf, Owes, Holds, Removed
<1> HIDE DEF Ops
<1> QED
  BY <1>1, <1>2, <1>3, <1>4, <1>5, <1>6, <1>7, <1>8, <1>9, <1>10, <1>11, <1>12,
     <1>13, <1>14, <1>15, <1>16, <1>17, <1>18, <1>19, <1>20, <1>21, <1>22, <1>23
  DEF Next, Step

LEMMA InitQuiet == Init => WriterInv /\ QuietInv
BY DEF Init, WriterInv, NotPutYet, RecordHasStack, FailuresDisturb, SuccessLast, OneWriter,
       QuietInv, SeenIsCurrent, StackHasKey, SupersededExpires, RecordFitsStack, ConfigIsOwed,
       RemovedStaysGone, Quiet, Busy, Active, Live, Removed, KeysOf

SeqInv == ConfigInv /\ WriterInv /\ QuietInv

LEMMA SeqInductive == SeqInv /\ [Next]_vars => SeqInv'
BY ConfigInvInductive, StackInvInductive, TypeInductive, WriterInductive, QuietInductive
DEF SeqInv, ConfigInv, StackInv

\* What a use case looks like once no command is writing to it.
LEMMA SeqIsConsistent == SeqInv => SequentiallyConsistent
<1> SUFFICES ASSUME SeqInv, NEW u \in UseCaseIds \ disturbed
             PROVE  /\ Settled(u) => Consistent(u)
                    /\ Removed(u) => u \notin records
  BY DEF SequentiallyConsistent
<1> USE DEF SeqInv, ConfigInv, StackInv, TypeInv, TypeOK, WriterInv, QuietInv
<1>1. Removed(u) => u \notin records
  BY DEF RemovedStaysGone
<1>2. ASSUME Settled(u) PROVE Consistent(u)
  <2>1. \A r \in Requests : Busy(r) => uc[r] # u
    BY <1>2 DEF Settled, Busy
  <2>2. \A r \in Requests : uc[r] = u /\ op[r] \in Writers /\ pc[r] # "idle"
           /\ outcome[r] # "SUCCESS" => WroteNothing(r)
    BY <2>1 DEF Busy, Active, FailuresDisturb
  <2>3. Live(u) => u \in stackId /\ stackKey[u] = recordKey[u]
    BY <2>1 DEF RecordFitsStack
  <2>4. Live(u) => Stored(recordKey[u])
    <3>1. ~ \E r \in Requests : Culprit(r, u)
      BY <2>2 DEF Culprit, WroteNothing, Writers, Ops
    <3>2. ASSUME Live(u), recordKey[u] \in unsaved PROVE FALSE
      BY <3>2 DEF KeysOwned, FailuresDisturb
    <3> QED
      BY <3>1, <3>2 DEF LiveConfigKept
  <2>5. ~Live(u) => status[u] \in Deleting \cup {"NONE"}
    <3>1. ~RecordPending(u)
      BY <2>2 DEF RecordPending, WroteNothing, Writers, Ops
    <3> QED
      BY <3>1 DEF NoLostStack, StackDeletedFirst, Live, Statuses
  <2>6. \A k \in KeysOf(u) : k \in configs \ configTtl => Live(u) /\ recordKey[u] = k
    BY <2>1 DEF ConfigIsOwed, Unmarked
  <2> QED
    BY <2>3, <2>4, <2>5, <2>6 DEF Consistent
<1> QED
  BY <1>1, <1>2

\* Once the commands of an undisturbed use case have ended, its record, its
\* stack and its configs agree; and permanently deleted it stays without a
\* record.
THEOREM SequentialIsConsistent == Spec => []SequentiallyConsistent
<1>1. Init => SeqInv
  BY InitConfig, InitQuiet DEF SeqInv
<1> QED
  BY <1>1, SeqInductive, SeqIsConsistent, PTL DEF Spec

-----------------------------------------------------------------------------
(* The commands implement UseCaseLife. *)

\* A use case that has a record, or a command that has read one, was created.
CreatedFirst ==
    /\ \A u \in records : Created(u)
    /\ \A r \in Requests : pc[r] \notin {"idle", "getRecord"} /\ op[r] # "create" => Created(uc[r])

\* No deletion gets between the two calls of an update.
UpdatedIsUp == \A r \in Requests :
    Quiet(r) /\ pc[r] = "updateRecord" => status[uc[r]] \in {"COMPLETE", "UPDATE_IN_PROGRESS"}

LifeInv == SeqInv /\ CreatedFirst /\ UpdatedIsUp

\* A create that completed stays completed.
LEMMA CreatedStays ==
  ASSUME WriterInv, TypeInv, [Next]_vars, NEW u \in UseCaseIds, Created(u)
  PROVE  Created(u)'
<1>1. PICK q \in Requests : op[q] = "create" /\ uc[q] = u /\ outcome[q] = "SUCCESS"
  BY DEF Created
<1>2. pc[q] # "idle"
  BY <1>1 DEF WriterInv, SuccessLast
<1>3. op'[q] = op[q] /\ uc'[q] = uc[q] /\ outcome'[q] = outcome[q]
  <2> USE <1>1, <1>2 DEF TypeInv, TypeOK, recordVars, configVars, stackVars, seenVars, jobVars,
                         runVars, At, Active, Goto, Stop, Succeed
  <2>1. ASSUME NEW r \in Requests, Step(r) \/ Crash(r) PROVE UNCHANGED <<op, uc>>
    BY <2>1 DEF Step, CreateUseCaseConfig, GetUseCaseRecord, DescribeStack, DeleteStack, MarkConfig,
                ValidateNewUseCase, CreateStack, CreateUseCaseRecord, ValidateUpdateUseCase,
                MarkOldConfig, UpdateStack, UpdateUseCaseRecord, MarkUseCaseRecordForDeletion,
                DetachGet, DetachPut, DeleteUseCaseRecord, GetUseCaseConfig, Crash
  <2>2. ASSUME NEW r \in Requests, Step(r) \/ Crash(r) PROVE outcome'[q] = outcome[q]
    BY <2>2 DEF Step, CreateUseCaseConfig, GetUseCaseRecord, DescribeStack, DeleteStack, MarkConfig,
                ValidateNewUseCase, CreateStack, CreateUseCaseRecord, ValidateUpdateUseCase,
                MarkOldConfig, UpdateStack, UpdateUseCaseRecord, MarkUseCaseRecordForDeletion,
                DetachGet, DetachPut, DeleteUseCaseRecord, GetUseCaseConfig, Crash
  <2>3. ASSUME NEW r \in Requests, NEW o \in Ops, NEW w \in UseCaseIds, NEW m \in BOOLEAN,
               Start(r, o, w, m)
        PROVE  op'[q] = op[q] /\ uc'[q] = uc[q] /\ outcome'[q] = outcome[q]
    BY <2>3 DEF Start
  <2>4. ASSUME NEW w \in UseCaseIds, ExpireRecord(w) \/ CfnStep(w)
        PROVE  UNCHANGED <<op, uc, outcome>>
    BY <2>4 DEF ExpireRecord, CfnStep, CfnComplete, CfnCreateFails, CfnUpdateRollsBack,
                CfnDeleteEnds, CfnForget
  <2>5. ASSUME NEW k \in Requests, ExpireConfig(k) PROVE UNCHANGED <<op, uc, outcome>>
    BY <2>5 DEF ExpireConfig
  <2> QED
    BY <2>1, <2>2, <2>3, <2>4, <2>5 DEF Next, vars
<1> QED
  BY <1>1, <1>3 DEF Created

LEMMA LifeInvInductive == LifeInv /\ [Next]_vars => LifeInv'
<1> SUFFICES ASSUME LifeInv, [Next]_vars PROVE LifeInv'
  OBVIOUS
<1>0. SeqInv /\ SeqInv'
  BY SeqInductive DEF LifeInv
<1>s. WriterInv /\ WriterInv' /\ ConfigInv /\ QuietInv /\ TypeInv /\ StepsFit /\ OneWriter
  BY <1>0 DEF SeqInv, WriterInv, ConfigInv, StackInv
<1>t. CreatedFirst /\ UpdatedIsUp
  BY DEF LifeInv
<1>c. \A u \in UseCaseIds : Created(u) => Created(u)'
  BY <1>s, CreatedStays
<1> USE <1>s, <1>t
        DEF TypeInv, TypeOK, At, Active, recordVars, configVars, stackVars, seenVars, jobVars,
            runVars, Goto, Stop, Succeed, Busy, Quiet, OneWriter, Writers, StepsFit
<1>1. ASSUME NEW r \in Requests, NEW o \in Ops, NEW u \in UseCaseIds, NEW m \in BOOLEAN,
             Start(r, o, u, m)
      PROVE  CreatedFirst' /\ UpdatedIsUp'
  BY <1>1, <1>c DEF Start, FirstStep, CreatedFirst, UpdatedIsUp, Ops
<1>2. ASSUME NEW r \in Requests, Step(r) \/ Crash(r) PROVE CreatedFirst'
  <2>1. CASE CreateUseCaseRecord(r)
    <3>1. Created(uc[r])' \/ UNCHANGED records
      BY <2>1 DEF CreateUseCaseRecord, Created
    <3> QED
      BY <2>1, <3>1, <1>c DEF CreateUseCaseRecord, PutRecord, CreatedFirst
  <2>2. CASE UpdateUseCaseRecord(r)
    BY <2>2, <1>c DEF UpdateUseCaseRecord, CreatedFirst
  <2>3. CASE MarkUseCaseRecordForDeletion(r)
    BY <2>3, <1>c DEF MarkUseCaseRecordForDeletion, CreatedFirst
  <2>4. CASE DeleteUseCaseRecord(r)
    BY <2>4, <1>c DEF DeleteUseCaseRecord, DropRecord, CreatedFirst
  <2>5. CASE GetUseCaseRecord(r)
    BY <2>5, <1>c DEF GetUseCaseRecord, AfterGetRecord, CreatedFirst
  <2>6. CASE Crash(r)
    BY <2>6, <1>c DEF Crash, CreatedFirst
  <2>7. ASSUME CreateUseCaseConfig(r) \/ MarkConfig(r) \/ DescribeStack(r) PROVE CreatedFirst'
    <3>1. UNCHANGED <<records, op, uc>> /\ pc[r] \notin {"idle", "getRecord"}
      BY <2>7 DEF CreateUseCaseConfig, DescribeStack, MarkConfig
    <3>2. \A q \in Requests \ {r} : pc'[q] = pc[q]
      BY <2>7 DEF CreateUseCaseConfig, DescribeStack, MarkConfig
    <3> QED
      BY <3>1, <3>2, <1>c DEF CreatedFirst
  <2>8. ASSUME \/ DeleteStack(r) \/ ValidateNewUseCase(r) \/ CreateStack(r)
               \/ ValidateUpdateUseCase(r) \/ MarkOldConfig(r) \/ UpdateStack(r)
               \/ DetachGet(r) \/ DetachPut(r) \/ GetUseCaseConfig(r)
        PROVE  CreatedFirst'
    <3>1. UNCHANGED <<records, op, uc>> /\ pc[r] \notin {"idle", "getRecord"}
      BY <2>8 DEF DeleteStack, ValidateNewUseCase, CreateStack, ValidateUpdateUseCase,
                  MarkOldConfig, UpdateStack, DetachGet, DetachPut, GetUseCaseConfig
    <3>2. \A q \in Requests \ {r} : pc'[q] = pc[q]
      BY <2>8 DEF DeleteStack, ValidateNewUseCase, CreateStack, ValidateUpdateUseCase,
                  MarkOldConfig, UpdateStack, DetachGet, DetachPut, GetUseCaseConfig
    <3> QED
      BY <3>1, <3>2, <1>c DEF CreatedFirst
  <2> QED
    BY <1>2, <2>1, <2>2, <2>3, <2>4, <2>5, <2>6, <2>7, <2>8 DEF Step
<1>3. ASSUME NEW r \in Requests, Step(r) \/ Crash(r) PROVE UpdatedIsUp'
  <2>1. CASE CreateStack(r)
    BY <2>1 DEF CreateStack, UpdatedIsUp
  <2>2. CASE UpdateStack(r)
    BY <2>2 DEF UpdateStack, UpdatedIsUp
  <2>3. CASE DeleteStack(r)
    BY <2>3 DEF DeleteStack, UpdatedIsUp
  <2>4. ASSUME Step(r) \/ Crash(r), ~CreateStack(r), ~UpdateStack(r), ~DeleteStack(r)
        PROVE  /\ UNCHANGED <<status, op, uc>>
               /\ pc'[r] # "updateRecord" \/ pc' = pc
               /\ \A q \in Requests \ {r} : pc'[q] = pc[q] /\ outcome'[q] = outcome[q]
               /\ disturbed \subseteq disturbed'
               /\ outcome'[r] = "running" => outcome[r] = "running"
    BY <2>4 DEF Step, CreateUseCaseConfig, GetUseCaseRecord, DescribeStack, MarkConfig,
                ValidateNewUseCase, CreateUseCaseRecord, ValidateUpdateUseCase,
                MarkOldConfig, UpdateUseCaseRecord, MarkUseCaseRecordForDeletion,
                DetachGet, DetachPut, GetUseCaseConfig, DeleteUseCaseRecord, Crash,
                AfterGetRecord, AfterDescribe
  <2> QED
    BY <1>3, <2>1, <2>2, <2>3, <2>4 DEF UpdatedIsUp
<1>4. ASSUME NEW u \in UseCaseIds, ExpireRecord(u) \/ CfnStep(u)
      PROVE  CreatedFirst' /\ UpdatedIsUp'
  <2>1. CASE ExpireRecord(u)
    BY <2>1, <1>c DEF ExpireRecord, DropRecord, CreatedFirst, UpdatedIsUp
  <2>2. CASE CfnStep(u)
    BY <2>2, <1>c DEF CfnStep, CfnComplete, CfnCreateFails, CfnUpdateRollsBack,
                      CfnDeleteEnds, CfnForget, CreatedFirst, UpdatedIsUp
  <2> QED
    BY <1>4, <2>1, <2>2
<1>5. ASSUME NEW k \in Requests, ExpireConfig(k) PROVE CreatedFirst' /\ UpdatedIsUp'
  BY <1>5, <1>c DEF ExpireConfig, CreatedFirst, UpdatedIsUp
<1>6. ASSUME UNCHANGED vars PROVE CreatedFirst' /\ UpdatedIsUp'
  BY <1>6 DEF vars, CreatedFirst, UpdatedIsUp, Created
<1> HIDE DEF Ops, Step, Crash, Start, CfnStep, ExpireRecord, ExpireConfig, CreatedFirst, UpdatedIsUp
<1> QED
  BY <1>0, <1>1, <1>2, <1>3, <1>4, <1>5, <1>6 DEF Next, LifeInv

-----------------------------------------------------------------------------
(* Each step of the commands is a step of UseCaseLife, or none. *)

LifeMap == [u \in UseCaseIds |-> LifeOf(u)]
StackMap == [u \in UseCaseIds |-> StackOf(u)]
ConfigMap == [u \in UseCaseIds |-> ConfigOf(u)]
Used == {r \in Requests : op[r] \in {"create", "update"} /\ outcome[r] = "SUCCESS"}

\* Only the use case u moves.
OthersStay(u) == \A w \in UseCaseIds \ {u} :
    LifeOf(w)' = LifeOf(w) /\ StackOf(w)' = StackOf(w) /\ ConfigOf(w)' = ConfigOf(w)

\* u goes from one of the lives in from, for good.
Ending(u, from, to) ==
    /\ LifeOf(u) \in from /\ LifeOf(u)' = to
    /\ StackOf(u)' = StackOf(u) /\ ConfigOf(u)' = NoKey /\ Used' = Used

\* What a use case may do in UseCaseLife.
Moved(u) ==
    \/ /\ LifeOf(u)' = LifeOf(u) /\ StackOf(u)' = StackOf(u) /\ ConfigOf(u)' = ConfigOf(u)
       /\ Used' = Used
    \/ /\ StackOf(u) = "none" /\ LifeOf(u) \in {"absent", "disturbed"} /\ StackOf(u)' = "up"
       /\ LifeOf(u)' = LifeOf(u) /\ ConfigOf(u)' = ConfigOf(u) /\ Used' = Used
    \/ /\ StackOf(u) = "up" /\ StackOf(u)' = "down"
       /\ LifeOf(u)' = LifeOf(u) /\ ConfigOf(u)' = ConfigOf(u) /\ Used' = Used
    \/ StackOf(u) = "down" /\ Ending(u, {"live"}, "deleted")
    \/ StackOf(u) = "down" /\ Ending(u, {"live", "deleted"}, "removed")
    \/ Ending(u, Life!Lives \ {"disturbed"}, "disturbed")

\* What request k may do with it.
Completed(u, k) ==
    /\ k \notin Used /\ Used' = Used \cup {k} /\ StackOf(u)' = StackOf(u)
    /\ \/ /\ \/ LifeOf(u) = "absent" /\ StackOf(u) # "none"
             \/ LifeOf(u) = "live" /\ StackOf(u) = "up"
          /\ LifeOf(u)' = "live" /\ ConfigOf(u)' = k
       \/ /\ LifeOf(u) = "disturbed" /\ LifeOf(u)' = LifeOf(u) /\ ConfigOf(u)' = ConfigOf(u)

LEMMA MapsUpdate ==
  ASSUME NEW u \in UseCaseIds, OthersStay(u)
  PROVE  /\ LifeMap' = [LifeMap EXCEPT ![u] = LifeOf(u)'] /\ LifeMap[u] = LifeOf(u)
         /\ StackMap' = [StackMap EXCEPT ![u] = StackOf(u)'] /\ StackMap[u] = StackOf(u)
         /\ ConfigMap' = [ConfigMap EXCEPT ![u] = ConfigOf(u)'] /\ ConfigMap[u] = ConfigOf(u)
         /\ LifeOf(u)' = LifeOf(u) => LifeMap' = LifeMap
         /\ StackOf(u)' = StackOf(u) => StackMap' = StackMap
         /\ ConfigOf(u)' = ConfigOf(u) => ConfigMap' = ConfigMap
BY DEF OthersStay, LifeMap, StackMap, ConfigMap

LEMMA MovesMap ==
  ASSUME NEW u \in UseCaseIds, OthersStay(u), Moved(u)
  PROVE  [Life!Next]_(Life!vars)
<1>m. /\ LifeMap' = [LifeMap EXCEPT ![u] = LifeOf(u)'] /\ LifeMap[u] = LifeOf(u)
      /\ StackMap' = [StackMap EXCEPT ![u] = StackOf(u)'] /\ StackMap[u] = StackOf(u)
      /\ ConfigMap' = [ConfigMap EXCEPT ![u] = ConfigOf(u)'] /\ ConfigMap[u] = ConfigOf(u)
      /\ LifeOf(u)' = LifeOf(u) => LifeMap' = LifeMap
      /\ StackOf(u)' = StackOf(u) => StackMap' = StackMap
      /\ ConfigOf(u)' = ConfigOf(u) => ConfigMap' = ConfigMap
  BY MapsUpdate
<1>e. ASSUME NEW from, NEW to, Ending(u, from, to) PROVE Life!Ends(u, from, to)
  BY <1>e, <1>m DEF Ending, Life!Ends, LifeMap, StackMap, ConfigMap, Used
<1>1. CASE /\ LifeOf(u)' = LifeOf(u) /\ StackOf(u)' = StackOf(u) /\ ConfigOf(u)' = ConfigOf(u)
           /\ Used' = Used
  BY <1>1, <1>m DEF Life!vars, LifeMap, StackMap, ConfigMap, Used
<1>2. CASE /\ StackOf(u) = "none" /\ LifeOf(u) \in {"absent", "disturbed"} /\ StackOf(u)' = "up"
           /\ LifeOf(u)' = LifeOf(u) /\ ConfigOf(u)' = ConfigOf(u) /\ Used' = Used
  <2>1. Life!Build(u)
    BY <1>2, <1>m DEF Life!Build, LifeMap, StackMap, ConfigMap, Used
  <2> QED
    BY <2>1 DEF Life!Next
<1>3. CASE /\ StackOf(u) = "up" /\ StackOf(u)' = "down"
           /\ LifeOf(u)' = LifeOf(u) /\ ConfigOf(u)' = ConfigOf(u) /\ Used' = Used
  <2>1. Life!SendAway(u)
    BY <1>3, <1>m DEF Life!SendAway, LifeMap, StackMap, ConfigMap, Used
  <2> QED
    BY <2>1 DEF Life!Next
<1>4. CASE StackOf(u) = "down" /\ Ending(u, {"live"}, "deleted")
  <2>1. Life!Delete(u)
    BY <1>4, <1>m, <1>e DEF Life!Delete, StackMap
  <2> QED
    BY <2>1 DEF Life!Next
<1>5. CASE StackOf(u) = "down" /\ Ending(u, {"live", "deleted"}, "removed")
  <2>1. Life!Remove(u)
    BY <1>5, <1>m, <1>e DEF Life!Remove, StackMap
  <2> QED
    BY <2>1 DEF Life!Next
<1>6. CASE Ending(u, Life!Lives \ {"disturbed"}, "disturbed")
  <2>1. Life!Disturb(u)
    BY <1>6, <1>e DEF Life!Disturb
  <2> QED
    BY <2>1 DEF Life!Next
<1> QED
  BY <1>1, <1>2, <1>3, <1>4, <1>5, <1>6 DEF Moved

LEMMA CompletesMap ==
  ASSUME NEW u \in UseCaseIds, NEW k \in Requests, OthersStay(u), Completed(u, k)
  PROVE  [Life!Next]_(Life!vars)
<1>m. /\ LifeMap' = [LifeMap EXCEPT ![u] = LifeOf(u)'] /\ LifeMap[u] = LifeOf(u)
      /\ StackMap' = StackMap /\ StackMap[u] = StackOf(u)
      /\ ConfigMap' = [ConfigMap EXCEPT ![u] = ConfigOf(u)'] /\ ConfigMap[u] = ConfigOf(u)
      /\ LifeOf(u)' = LifeOf(u) => LifeMap' = LifeMap
      /\ ConfigOf(u)' = ConfigOf(u) => ConfigMap' = ConfigMap
  BY MapsUpdate DEF Completed
<1>u. k \notin Used /\ Used' = Used \cup {k}
  BY DEF Completed
<1>r. ASSUME LifeOf(u)' = "live", ConfigOf(u)' = k PROVE Life!RunOn(u, k)
  BY <1>r, <1>m, <1>u DEF Life!RunOn, LifeMap, StackMap, ConfigMap, Used
<1>1. CASE /\ LifeOf(u) = "absent" /\ StackOf(u) # "none"
           /\ LifeOf(u)' = "live" /\ ConfigOf(u)' = k
  <2>1. Life!Create(u, k)
    BY <1>1, <1>m, <1>r DEF Life!Create, LifeMap, StackMap
  <2> QED
    BY <2>1 DEF Life!Next
<1>2. CASE /\ LifeOf(u) = "live" /\ StackOf(u) = "up"
           /\ LifeOf(u)' = "live" /\ ConfigOf(u)' = k
  <2>1. Life!Update(u, k)
    BY <1>2, <1>m, <1>r DEF Life!Update, LifeMap, StackMap
  <2> QED
    BY <2>1 DEF Life!Next
<1>3. CASE LifeOf(u) = "disturbed" /\ LifeOf(u)' = LifeOf(u) /\ ConfigOf(u)' = ConfigOf(u)
  <2>1. Life!Complete(u, k)
    BY <1>3, <1>m, <1>u DEF Life!Complete, LifeMap, StackMap, ConfigMap, Used
  <2> QED
    BY <2>1 DEF Life!Next
<1> QED
  BY <1>1, <1>2, <1>3 DEF Completed

\* No command that changes the life of a use case completes.
NothingEnds == \A r \in Requests :
    /\ outcome'[r] = "SUCCESS" /\ op'[r] \in {"create", "update", "permanentlyDelete"}
           <=> outcome[r] = "SUCCESS" /\ op[r] \in {"create", "update", "permanentlyDelete"}
    /\ outcome[r] = "SUCCESS" => op'[r] = op[r] /\ uc'[r] = uc[r]

LiveKept == \A w \in UseCaseIds :
    (Live(w)' <=> Live(w)) /\ (Live(w) => recordKey'[w] = recordKey[w])

LEMMA NothingEndsKeeps ==
  ASSUME NothingEnds
  PROVE  /\ Used' = Used
         /\ \A w \in UseCaseIds : (Created(w)' <=> Created(w)) /\ (Removed(w)' <=> Removed(w))
<1>1. Used' = Used
  BY DEF NothingEnds, Used
<1>2. ASSUME NEW w \in UseCaseIds PROVE (Created(w)' <=> Created(w)) /\ (Removed(w)' <=> Removed(w))
  BY DEF NothingEnds, Created, Removed
<1> QED
  BY <1>1, <1>2

\* A step that leaves the stacks where they are, and disturbs u or nothing.
LEMMA QuietStepMaps ==
  ASSUME NEW u \in UseCaseIds, NothingEnds, LiveKept,
         \A w \in UseCaseIds : StackOf(w)' = StackOf(w),
         disturbed' = disturbed \/ disturbed' = disturbed \cup {u}
  PROVE  [Life!Next]_(Life!vars)
<1>k. /\ Used' = Used
      /\ \A w \in UseCaseIds : (Created(w)' <=> Created(w)) /\ (Removed(w)' <=> Removed(w))
  BY NothingEndsKeeps
<1>1. ASSUME NEW w \in UseCaseIds, w \in disturbed' <=> w \in disturbed
      PROVE  LifeOf(w)' = LifeOf(w) /\ ConfigOf(w)' = ConfigOf(w)
  BY <1>1, <1>k DEF LiveKept, LifeOf, ConfigOf
<1>2. OthersStay(u)
  BY <1>1 DEF OthersStay
<1>3. Moved(u)
  <2>1. CASE u \in disturbed' <=> u \in disturbed
    BY <2>1, <1>1, <1>k DEF Moved
  <2>2. CASE u \in disturbed' /\ u \notin disturbed
    <3>1. LifeOf(u) \in Life!Lives \ {"disturbed"}
      BY <2>2 DEF LifeOf, Life!Lives
    <3>2. LifeOf(u)' = "disturbed" /\ ConfigOf(u)' = NoKey
      BY <2>2 DEF LifeOf, ConfigOf
    <3> QED
      BY <3>1, <3>2, <1>k DEF Moved, Ending
  <2> QED
    BY <2>1, <2>2
<1> QED
  BY <1>2, <1>3, MovesMap

\* A step that only builds the stack of u, or sends it away.
LEMMA StackStepMaps ==
  ASSUME NEW u \in UseCaseIds, NothingEnds, LiveKept, disturbed' = disturbed,
         \A w \in UseCaseIds \ {u} : StackOf(w)' = StackOf(w),
         \/ StackOf(u) = "none" /\ LifeOf(u) \in {"absent", "disturbed"} /\ StackOf(u)' = "up"
         \/ StackOf(u) = "up" /\ StackOf(u)' = "down"
         \/ StackOf(u)' = StackOf(u)
  PROVE  [Life!Next]_(Life!vars)
<1>k. /\ Used' = Used
      /\ \A w \in UseCaseIds : (Created(w)' <=> Created(w)) /\ (Removed(w)' <=> Removed(w))
  BY NothingEndsKeeps
<1>1. \A w \in UseCaseIds : LifeOf(w)' = LifeOf(w) /\ ConfigOf(w)' = ConfigOf(w)
  BY <1>k DEF LiveKept, LifeOf, ConfigOf
<1>2. OthersStay(u) /\ Moved(u)
  BY <1>1, <1>k DEF OthersStay, Moved
<1> QED
  BY <1>2, MovesMap

\* A command ends, and nothing happens but to its own use case.
Touches(r) ==
    /\ UNCHANGED <<op, uc, disturbed, status>>
    /\ outcome[r] = "running"
    /\ \A q \in Requests \ {r} : outcome'[q] = outcome[q]
    /\ \A w \in UseCaseIds \ {uc[r]} :
           (Live(w)' <=> Live(w)) /\ (Live(w) => recordKey'[w] = recordKey[w])

LEMMA OthersKept ==
  ASSUME NEW r \in Requests, Touches(r)
  PROVE  OthersStay(uc[r]) /\ StackOf(uc[r])' = StackOf(uc[r])
<1>1. ASSUME NEW w \in UseCaseIds \ {uc[r]}
      PROVE  (Created(w)' <=> Created(w)) /\ (Removed(w)' <=> Removed(w))
  BY DEF Touches, Created, Removed
<1> QED
  BY <1>1 DEF OthersStay, Touches, LifeOf, StackOf, ConfigOf

\* The commands that complete on a use case and change its life.
LEMMA CreateRecordMaps ==
  ASSUME LifeInv, NEW r \in Requests, CreateUseCaseRecord(r)
  PROVE  [Life!Next]_(Life!vars)
<1>i. /\ TypeInv /\ StepsFit /\ OneCreator /\ StackCreated /\ CreatedFirst
      /\ RemovedStaysGone /\ SuccessLast
  BY DEF LifeInv, SeqInv, ConfigInv, StackInv, QuietInv, WriterInv
<1> DEFINE u == uc[r]
<1> USE <1>i DEF TypeInv, TypeOK, At, Active, recordVars, configVars, stackVars, jobVars,
                 CreateUseCaseRecord, Stop, Succeed
<1>t. u \in UseCaseIds /\ op[r] = "create" /\ outcome[r] = "running"
  BY DEF StepsFit
<1>1. CASE PutRecord(u, r) /\ Succeed(r)
  <2>1. /\ records' = records \cup {u} /\ recordTtl' = recordTtl \ {u}
        /\ recordKey' = [recordKey EXCEPT ![u] = r]
        /\ outcome' = [outcome EXCEPT ![r] = "SUCCESS"]
        /\ UNCHANGED <<op, uc, disturbed, status>>
    BY <1>1 DEF PutRecord
  <2>2. Touches(r)
    BY <2>1, <1>t DEF Touches, Live
  <2>3. r \notin Used /\ Used' = Used \cup {r}
    BY <2>1, <1>t DEF Used
  <2>4. Live(u)' /\ recordKey'[u] = r
    BY <2>1, <1>t DEF Live
  <2>5. StackOf(u) # "none"
    BY <1>t DEF StackCreated, StackOf
  <2>6. u \notin disturbed => LifeOf(u) = "absent" /\ ~Removed(u)
    <3>1. ~Created(u)
      BY <1>t DEF OneCreator, Created, SuccessLast
    <3>2. ~Live(u)
      BY <3>1 DEF CreatedFirst, Live
    <3>3. u \notin disturbed => ~Removed(u)
      BY <1>t DEF RemovedStaysGone, Busy, Writers, Ops
    <3> QED
      BY <3>1, <3>2, <3>3 DEF LifeOf
  <2>7. Completed(u, r)
    <3>1. CASE u \in disturbed
      <4>1. LifeOf(u) = "disturbed" /\ LifeOf(u)' = "disturbed" /\ ConfigOf(u)' = ConfigOf(u)
        BY <2>1, <3>1 DEF LifeOf, ConfigOf
      <4> QED
        BY <4>1, <2>2, <2>3, OthersKept DEF Completed
    <3>2. CASE u \notin disturbed
      <4>1. LifeOf(u)' = "live" /\ ConfigOf(u)' = r
        BY <2>1, <2>4, <3>2 DEF LifeOf, ConfigOf
      <4> QED
        BY <4>1, <3>2, <2>2, <2>3, <2>5, <2>6, OthersKept DEF Completed
    <3> QED
      BY <3>1, <3>2
  <2> QED
    BY <2>2, <2>7, <1>t, OthersKept, CompletesMap
<1>2. CASE Stop(r, "threw") /\ UNCHANGED recordVars
  BY <1>2, <1>t, QuietStepMaps DEF NothingEnds, LiveKept, Live, StackOf
<1> QED
  BY <1>1, <1>2

LEMMA UpdateRecordMaps ==
  ASSUME LifeInv, NEW r \in Requests, UpdateUseCaseRecord(r)
  PROVE  [Life!Next]_(Life!vars)
<1>i. TypeInv /\ StepsFit /\ StackHasKey /\ UpdatedIsUp
  BY DEF LifeInv, SeqInv, ConfigInv, StackInv, QuietInv
<1> DEFINE u == uc[r]
<1> USE <1>i DEF TypeInv, TypeOK, At, Active, recordVars, configVars, stackVars, jobVars,
                 UpdateUseCaseRecord, Stop, Succeed
<1>t. u \in UseCaseIds /\ op[r] = "update" /\ outcome[r] = "running"
  BY DEF StepsFit
<1>1. CASE Succeed(r) /\ records' = records \cup {u} /\ UNCHANGED recordTtl
           /\ recordKey' = [recordKey EXCEPT ![u] = r]
  <2>1. /\ outcome' = [outcome EXCEPT ![r] = "SUCCESS"]
        /\ UNCHANGED <<op, uc, disturbed, status>>
    BY <1>1
  <2>2. Touches(r)
    BY <1>1, <2>1, <1>t DEF Touches, Live
  <2>3. r \notin Used /\ Used' = Used \cup {r}
    BY <2>1, <1>t DEF Used
  <2>4. u \notin disturbed => Live(u) /\ StackOf(u) = "up"
    BY <1>t DEF StackHasKey, UpdatedIsUp, Quiet, Busy, Writers, Ops, StackOf, Deployed
  <2>5. Live(u) => Live(u)' /\ recordKey'[u] = r
    BY <1>1, <1>t DEF Live
  <2>6. Completed(u, r)
    <3>1. CASE u \in disturbed
      <4>1. LifeOf(u) = "disturbed" /\ LifeOf(u)' = "disturbed" /\ ConfigOf(u)' = ConfigOf(u)
        BY <2>1, <3>1 DEF LifeOf, ConfigOf
      <4> QED
        BY <4>1, <2>2, <2>3, OthersKept DEF Completed
    <3>2. CASE u \notin disturbed
      <4>1. LifeOf(u) = "live" /\ LifeOf(u)' = "live" /\ ConfigOf(u)' = r
        BY <2>1, <2>4, <2>5, <3>2 DEF LifeOf, ConfigOf
      <4> QED
        BY <4>1, <3>2, <2>2, <2>3, <2>4, OthersKept DEF Completed
    <3> QED
      BY <3>1, <3>2
  <2> QED
    BY <2>2, <2>6, <1>t, OthersKept, CompletesMap
<1>2. CASE Stop(r, "threw") /\ UNCHANGED recordVars
  BY <1>2, <1>t, QuietStepMaps DEF NothingEnds, LiveKept, Live, StackOf
<1> QED
  BY <1>1, <1>2

LEMMA MarkRecordMaps ==
  ASSUME LifeInv, NEW r \in Requests, MarkUseCaseRecordForDeletion(r)
  PROVE  [Life!Next]_(Life!vars)
<1>i. /\ TypeInv /\ StepsFit /\ StackDeletedFirst /\ StackCreated /\ CreatedFirst
      /\ RemovedStaysGone
  BY DEF LifeInv, SeqInv, ConfigInv, StackInv, QuietInv
<1> DEFINE u == uc[r]
<1> USE <1>i DEF TypeInv, TypeOK, At, Active, recordVars, configVars, stackVars, jobVars,
                 MarkUseCaseRecordForDeletion, Goto, Stop
<1>t. u \in UseCaseIds /\ op[r] = "delete" /\ outcome[r] = "running"
  BY DEF StepsFit
<1>1. CASE Goto(r, "markConfig") /\ records' = records \cup {u}
           /\ recordTtl' = recordTtl \cup {u} /\ UNCHANGED <<stackId, recordKey>>
  <2>1. UNCHANGED <<op, uc, outcome, disturbed, status>>
    BY <1>1
  <2>2. Touches(r)
    BY <1>1, <2>1, <1>t DEF Touches, Live
  <2>3. NothingEnds
    BY <2>1 DEF NothingEnds
  <2>4. StackOf(u) = "down"
    BY <1>t DEF StackDeletedFirst, StackOf, Deleting, Deployed
  <2>5. ~Live(u)'
    BY <1>1, <1>t DEF Live
  <2>6. Created(u) /\ (u \notin disturbed => ~Removed(u))
    BY <1>t DEF CreatedFirst, RemovedStaysGone, Busy, Writers, Ops
  <2>7. CASE u \in disturbed
    <3>1. LifeOf(u)' = LifeOf(u) /\ ConfigOf(u)' = ConfigOf(u)
      BY <2>1, <2>7 DEF LifeOf, ConfigOf
    <3> QED
      BY <3>1, <2>2, <2>3, <1>t, OthersKept, NothingEndsKeeps, MovesMap DEF Moved
  <2>8. CASE u \notin disturbed
    <3>1. LifeOf(u) \in {"live", "deleted"} /\ (LifeOf(u) = "deleted" => ConfigOf(u) = NoKey)
      BY <2>6, <2>8 DEF LifeOf, ConfigOf
    <3>2. LifeOf(u)' = "deleted" /\ ConfigOf(u)' = NoKey
      BY <2>1, <2>3, <2>5, <2>6, <2>8, <1>t, NothingEndsKeeps DEF LifeOf, ConfigOf
    <3>3. Used' = Used /\ OthersStay(u) /\ StackOf(u)' = StackOf(u)
      BY <2>2, <2>3, OthersKept, NothingEndsKeeps
    <3>4. Moved(u)
      BY <3>1, <3>2, <3>3, <2>4 DEF Moved, Ending
    <3> QED
      BY <3>3, <3>4, <1>t, MovesMap
  <2> QED
    BY <2>7, <2>8
<1>2. CASE Stop(r, "threw") /\ UNCHANGED recordVars
  BY <1>2, <1>t, QuietStepMaps DEF NothingEnds, LiveKept, Live, StackOf
<1> QED
  BY <1>1, <1>2

LEMMA DeleteRecordMaps ==
  ASSUME LifeInv, NEW r \in Requests, DeleteUseCaseRecord(r)
  PROVE  [Life!Next]_(Life!vars)
<1>i. /\ TypeInv /\ StepsFit /\ StackDeletedFirst /\ CreatedFirst /\ RemovedStaysGone
  BY DEF LifeInv, SeqInv, ConfigInv, StackInv, QuietInv
<1> DEFINE u == uc[r]
<1> USE <1>i DEF TypeInv, TypeOK, At, Active, recordVars, configVars, stackVars, jobVars,
                 DeleteUseCaseRecord, Succeed, Stop
<1>t. u \in UseCaseIds /\ op[r] = "permanentlyDelete" /\ outcome[r] = "running"
  BY DEF StepsFit
<1>1. CASE DropRecord(u) /\ Succeed(r)
  <2>1. /\ records' = records \ {u} /\ recordTtl' = recordTtl \ {u}
        /\ recordKey' = [recordKey EXCEPT ![u] = NoKey]
        /\ outcome' = [outcome EXCEPT ![r] = "SUCCESS"]
        /\ UNCHANGED <<op, uc, disturbed, status>>
    BY <1>1 DEF DropRecord
  <2>2. Touches(r)
    BY <2>1, <1>t DEF Touches, Live
  <2>3. Used' = Used
    BY <2>1, <1>t DEF Used
  <2>4. StackOf(u) = "down"
    BY <1>t DEF StackDeletedFirst, StackOf, Deleting, Deployed
  <2>5. ~Live(u)' /\ Removed(u)'
    BY <2>1, <1>t DEF Live, Removed
  <2>6. Created(u) /\ (u \notin disturbed => ~Removed(u))
    BY <1>t DEF CreatedFirst, RemovedStaysGone, Busy, Writers, Ops
  <2>7. Moved(u)
    <3>1. CASE u \in disturbed
      <4>1. LifeOf(u)' = LifeOf(u) /\ ConfigOf(u)' = ConfigOf(u)
        BY <2>1, <3>1 DEF LifeOf, ConfigOf
      <4> QED
        BY <4>1, <2>2, <2>3, OthersKept DEF Moved
    <3>2. CASE u \notin disturbed
      <4>1. LifeOf(u) \in {"live", "deleted"}
        BY <2>6, <3>2 DEF LifeOf
      <4>2. LifeOf(u)' = "removed" /\ ConfigOf(u)' = NoKey
        BY <2>1, <2>5, <3>2 DEF LifeOf, ConfigOf
      <4> QED
        BY <4>1, <4>2, <2>2, <2>3, <2>4, OthersKept DEF Moved, Ending
    <3> QED
      BY <3>1, <3>2
  <2> QED
    BY <2>2, <2>7, <1>t, OthersKept, MovesMap
<1>2. CASE Stop(r, "threw") /\ UNCHANGED recordVars
  BY <1>2, <1>t, QuietStepMaps DEF NothingEnds, LiveKept, Live, StackOf
<1> QED
  BY <1>1, <1>2

\* The other steps of request r leave the records alone, and complete nothing
\* but a delete or a get.
Elsewhere(r) ==
    \/ CreateUseCaseConfig(r) \/ GetUseCaseRecord(r) \/ DescribeStack(r) \/ DeleteStack(r)
    \/ MarkConfig(r) \/ ValidateNewUseCase(r) \/ CreateStack(r) \/ ValidateUpdateUseCase(r)
    \/ MarkOldConfig(r) \/ UpdateStack(r) \/ DetachGet(r) \/ DetachPut(r) \/ GetUseCaseConfig(r)
    \/ Crash(r)

LEMMA ElsewhereKeeps ==
  ASSUME TypeInv, StepsFit, NEW r \in Requests, Elsewhere(r)
  PROVE  /\ NothingEnds /\ LiveKept
         /\ disturbed' = disturbed \/ disturbed' = disturbed \cup {uc[r]}
         /\ UNCHANGED uc
<1> USE DEF Elsewhere, TypeInv, TypeOK, StepsFit, At, Active, recordVars, configVars, stackVars,
            seenVars, jobVars, runVars, Goto, Stop, Succeed
<1>1. CASE CreateUseCaseConfig(r) \/ MarkConfig(r)
  <2>1. NothingEnds
    BY <1>1 DEF CreateUseCaseConfig, MarkConfig, NothingEnds
  <2>2. LiveKept
    BY <1>1 DEF CreateUseCaseConfig, MarkConfig, LiveKept, Live
  <2> QED
    BY <1>1, <2>1, <2>2 DEF CreateUseCaseConfig, MarkConfig
<1>2. CASE GetUseCaseRecord(r) \/ DescribeStack(r) \/ GetUseCaseConfig(r)
  <2>1. NothingEnds
    BY <1>2 DEF GetUseCaseRecord, DescribeStack, GetUseCaseConfig, NothingEnds, Abort
  <2>2. LiveKept
    BY <1>2 DEF GetUseCaseRecord, DescribeStack, GetUseCaseConfig, LiveKept, Live
  <2> QED
    BY <1>2, <2>1, <2>2 DEF GetUseCaseRecord, DescribeStack, GetUseCaseConfig
<1>3. CASE DeleteStack(r) \/ CreateStack(r) \/ UpdateStack(r) \/ ValidateNewUseCase(r)
  <2>1. NothingEnds
    BY <1>3 DEF DeleteStack, CreateStack, UpdateStack, ValidateNewUseCase, NothingEnds
  <2>2. LiveKept
    BY <1>3 DEF DeleteStack, CreateStack, UpdateStack, ValidateNewUseCase, LiveKept, Live
  <2> QED
    BY <1>3, <2>1, <2>2 DEF DeleteStack, CreateStack, UpdateStack, ValidateNewUseCase
<1>4. CASE ValidateUpdateUseCase(r) \/ MarkOldConfig(r) \/ DetachGet(r) \/ DetachPut(r) \/ Crash(r)
  <2>1. NothingEnds
    BY <1>4 DEF ValidateUpdateUseCase, MarkOldConfig, DetachGet, DetachPut, Crash, NothingEnds
  <2>2. LiveKept
    BY <1>4 DEF ValidateUpdateUseCase, MarkOldConfig, DetachGet, DetachPut, Crash, LiveKept, Live
  <2> QED
    BY <1>4, <2>1, <2>2 DEF ValidateUpdateUseCase, MarkOldConfig, DetachGet, DetachPut, Crash
<1> QED
  BY <1>1, <1>2, <1>3, <1>4

LEMMA ElsewhereMaps ==
  ASSUME LifeInv, NEW r \in Requests, Elsewhere(r)
  PROVE  [Life!Next]_(Life!vars)
<1>i. /\ TypeInv /\ StepsFit /\ OneCreator /\ StackCreated /\ CreatedFirst /\ RemovedStaysGone
      /\ SuccessLast /\ RecordHasStack
  BY DEF LifeInv, SeqInv, ConfigInv, StackInv, QuietInv, WriterInv
<1>t. uc[r] \in UseCaseIds /\ status \in [UseCaseIds -> Statuses]
  BY <1>i DEF TypeInv, TypeOK
<1>k. /\ NothingEnds /\ LiveKept
      /\ disturbed' = disturbed \/ disturbed' = disturbed \cup {uc[r]}
      /\ UNCHANGED uc
  BY <1>i, ElsewhereKeeps
<1>1. CASE UNCHANGED status
  BY <1>1, <1>k, <1>t, QuietStepMaps DEF StackOf
<1>2. CASE CreateStack(r)
  <2>1. CASE UNCHANGED status
    BY <2>1, <1>1
  <2>2. CASE UNCHANGED disturbed /\ status' = [status EXCEPT ![uc[r]] = "CREATE_IN_PROGRESS"]
    <3>1. At(r, "createStack") /\ op[r] = "create"
      BY <1>2, <1>i DEF CreateStack, StepsFit, At
    <3>2. status[uc[r]] = "NONE"
      BY <3>1, <1>i, <1>t DEF StackCreated, OneCreator, At
    <3>3. ~Created(uc[r])
      BY <3>1, <1>i DEF Created, OneCreator, SuccessLast, At
    <3>4. ~Live(uc[r])
      BY <3>3, <1>i DEF CreatedFirst, Live
    <3>5. uc[r] \notin disturbed => ~Removed(uc[r])
      BY <3>1, <1>i, <1>t DEF RemovedStaysGone, Busy, Active, Writers, Ops, At
    <3>6. LifeOf(uc[r]) \in {"absent", "disturbed"}
      BY <3>3, <3>4, <3>5 DEF LifeOf
    <3>7. StackOf(uc[r]) = "none" /\ StackOf(uc[r])' = "up"
      BY <2>2, <3>2, <1>t, <1>k DEF StackOf, Deployed
    <3>8. \A w \in UseCaseIds \ {uc[r]} : StackOf(w)' = StackOf(w)
      BY <2>2, <1>t DEF StackOf
    <3> QED
      BY <2>2, <3>6, <3>7, <3>8, <1>k, <1>t, StackStepMaps
  <2> QED
    BY <1>2, <2>1, <2>2 DEF CreateStack, stackVars, Goto
<1>3. CASE UpdateStack(r)
  <2>1. \A w \in UseCaseIds : StackOf(w)' = StackOf(w)
    BY <1>3, <1>t DEF UpdateStack, stackVars, StackOf, Deployed
  <2> QED
    BY <2>1, <1>k, <1>t, QuietStepMaps
<1>4. CASE DeleteStack(r)
  <2>1. CASE UNCHANGED status
    BY <2>1, <1>1
  <2>2. CASE UNCHANGED disturbed /\ status' = [status EXCEPT ![uc[r]] = "DELETE_IN_PROGRESS"]
    <3>1. status[uc[r]] # "NONE"
      BY <1>4, <1>i DEF DeleteStack, StackCreated, At
    <3>2. StackOf(uc[r]) \in {"up", "down"} /\ StackOf(uc[r])' = "down"
      BY <2>2, <3>1, <1>t, <1>k DEF StackOf, Deployed
    <3>3. \A w \in UseCaseIds \ {uc[r]} : StackOf(w)' = StackOf(w)
      BY <2>2, <1>t DEF StackOf
    <3> QED
      BY <2>2, <3>2, <3>3, <1>k, <1>t, StackStepMaps
  <2> QED
    BY <1>4, <2>1, <2>2 DEF DeleteStack, Goto
<1> QED
  BY <1>1, <1>2, <1>3, <1>4
  DEF Elsewhere, CreateUseCaseConfig, GetUseCaseRecord, DescribeStack, MarkConfig,
      ValidateNewUseCase, ValidateUpdateUseCase, MarkOldConfig, DetachGet, DetachPut,
      GetUseCaseConfig, Crash, stackVars

LEMMA StartMaps ==
  ASSUME TypeInv, SuccessLast, NEW r \in Requests, NEW o \in Ops, NEW u \in UseCaseIds,
         NEW m \in BOOLEAN, Start(r, o, u, m)
  PROVE  [Life!Next]_(Life!vars)
<1>1. NothingEnds
  BY DEF Start, NothingEnds, TypeInv, TypeOK, SuccessLast, At
<1>2. LiveKept /\ \A w \in UseCaseIds : StackOf(w)' = StackOf(w)
  BY DEF Start, recordVars, stackVars, LiveKept, Live, StackOf
<1>3. disturbed' = disturbed \/ disturbed' = disturbed \cup {u}
  BY DEF Start
<1> QED
  BY <1>1, <1>2, <1>3, QuietStepMaps

LEMMA WorldMaps ==
  ASSUME TypeInv, NEW u \in UseCaseIds, ExpireRecord(u) \/ CfnStep(u)
  PROVE  [Life!Next]_(Life!vars)
<1> USE DEF TypeInv, TypeOK, recordVars, configVars, stackVars, seenVars, jobVars, runVars
<1>1. NothingEnds
  BY DEF ExpireRecord, CfnStep, CfnComplete, CfnCreateFails, CfnUpdateRollsBack, CfnDeleteEnds,
         CfnForget, NothingEnds
<1>2. CASE ExpireRecord(u)
  <2>1. LiveKept
    BY <1>2 DEF ExpireRecord, DropRecord, LiveKept, Live
  <2>2. UNCHANGED disturbed /\ \A w \in UseCaseIds : StackOf(w)' = StackOf(w)
    BY <1>2 DEF ExpireRecord, StackOf
  <2> QED
    BY <1>1, <2>1, <2>2, QuietStepMaps
<1>3. CASE CfnStep(u)
  <2>1. LiveKept
    BY <1>3 DEF CfnStep, CfnComplete, CfnCreateFails, CfnUpdateRollsBack, CfnDeleteEnds,
                CfnForget, LiveKept, Live
  <2>2. CASE CfnCreateFails(u)
    <3>1. /\ \A w \in UseCaseIds \ {u} : StackOf(w)' = StackOf(w)
          /\ StackOf(u) = "up" /\ StackOf(u)' = "down" /\ UNCHANGED disturbed
      BY <2>2 DEF CfnCreateFails, StackOf, Deployed
    <3> QED
      BY <3>1, <1>1, <2>1, StackStepMaps
  <2>3. ASSUME ~CfnCreateFails(u) PROVE [Life!Next]_(Life!vars)
    <3>1. \A w \in UseCaseIds : StackOf(w)' = StackOf(w)
      BY <1>3, <2>3 DEF CfnStep, CfnComplete, CfnUpdateRollsBack, CfnDeleteEnds, CfnForget,
                        StackOf, Deployed
    <3>2. disturbed' = disturbed \/ disturbed' = disturbed \cup {u}
      BY <1>3, <2>3 DEF CfnStep, CfnComplete, CfnUpdateRollsBack, CfnDeleteEnds, CfnForget
    <3> QED
      BY <3>1, <3>2, <1>1, <2>1, QuietStepMaps
  <2> QED
    BY <2>2, <2>3
<1> QED
  BY <1>2, <1>3

LEMMA LifeStepMaps == LifeInv /\ [Next]_vars => [Life!Next]_(Life!vars)
<1> SUFFICES ASSUME LifeInv, [Next]_vars PROVE [Life!Next]_(Life!vars)
  OBVIOUS
<1>i. TypeInv /\ SuccessLast
  BY DEF LifeInv, SeqInv, ConfigInv, StackInv, WriterInv
<1>1. ASSUME NEW r \in Requests, Step(r) \/ Crash(r) PROVE [Life!Next]_(Life!vars)
  BY <1>1, CreateRecordMaps, UpdateRecordMaps, MarkRecordMaps, DeleteRecordMaps, ElsewhereMaps
  DEF Step, Elsewhere
<1>2. ASSUME UNCHANGED <<records, recordTtl, recordKey, status, op, uc, outcome, disturbed>>
      PROVE  [Life!Next]_(Life!vars)
  <2>1. UseCaseIds # {} /\ NothingEnds /\ LiveKept /\ \A w \in UseCaseIds : StackOf(w)' = StackOf(w)
    BY <1>2, UseCaseIdsAssumption DEF NothingEnds, LiveKept, Live, StackOf
  <2> QED
    BY <1>2, <2>1, QuietStepMaps
<1>3. ASSUME NEW k \in Requests, ExpireConfig(k) PROVE [Life!Next]_(Life!vars)
  BY <1>2, <1>3 DEF ExpireConfig, recordVars, stackVars, jobVars, runVars
<1>4. CASE UNCHANGED vars
  BY <1>2, <1>4 DEF vars
<1> QED
  BY <1>i, <1>1, <1>3, <1>4, StartMaps, WorldMaps DEF Next

LEMMA InitLife == Init => LifeInv /\ Life!Init
<1> SUFFICES ASSUME Init PROVE LifeInv /\ Life!Init
  OBVIOUS
<1>1. SeqInv
  BY InitConfig, InitQuiet DEF SeqInv
<1>2. CreatedFirst /\ UpdatedIsUp
  BY DEF Init, CreatedFirst, UpdatedIsUp
<1>3. ASSUME NEW u \in UseCaseIds
      PROVE  LifeOf(u) = "absent" /\ StackOf(u) = "none" /\ ConfigOf(u) = NoKey
  <2>1. /\ records = {} /\ disturbed = {} /\ status = [v \in UseCaseIds |-> "NONE"]
        /\ \A r \in Requests : outcome[r] = "running"
    BY DEF Init
  <2>2. ~Live(u) /\ ~Removed(u) /\ ~Created(u)
    BY <2>1 DEF Live, Removed, Created
  <2>3. LifeOf(u) = "absent" /\ ConfigOf(u) = NoKey
    BY <2>1, <2>2 DEF LifeOf, ConfigOf
  <2>4. StackOf(u) = "none"
    BY <2>1 DEF StackOf
  <2> QED
    BY <2>3, <2>4
<1>4. Used = {}
  BY DEF Init, Used
<1> QED
  BY <1>1, <1>2, <1>3, <1>4 DEF LifeInv, Life!Init, Used

\* The commands implement UseCaseLife: an undisturbed use case only goes
\* forward, its stack is sent away before it ends, and an update that is
\* acknowledged finds it live, with its stack up.
THEOREM LifeIsFollowed == Spec => FollowsLife
BY InitLife, LifeInvInductive, LifeStepMaps, PTL DEF Spec, FollowsLife, Life!Spec
=============================================================================
