------------------------- MODULE UseCaseManagement -------------------------
(***************************************************************************)
(* The deployment API of source/lambda/use-case-management: the commands   *)
(* create, update, delete, permanentlyDelete and get over three stores     *)
(* that share no transaction: the use-cases table, the use-case-config     *)
(* table (both DynamoDB, both with a TTL attribute) and CloudFormation.    *)
(*                                                                         *)
(* Every Lambda invocation is a request r of its own, and one action is    *)
(* one AWS call of its command with the code up to the next call, so the   *)
(* calls of different invocations interleave.  A create or update request  *)
(* generates one fresh config record key, named here by the request.  A    *)
(* use case has at most one stack, named here by the use case: create      *)
(* generates the use case id and names the stack after it.                 *)
(*                                                                         *)
(* Each attribute of a table is a variable: a set where only its presence  *)
(* matters, a function otherwise.  UpdateItem is an upsert: it makes the   *)
(* item present and sets some attributes of it.                            *)
(***************************************************************************)
EXTENDS Naturals

CONSTANTS UseCaseIds,   \* ids that create may generate
          Requests,     \* Lambda invocations; also the config record keys
          NoKey,        \* an undefined UseCaseConfigRecordKey
          Faults        \* the calls that may fail, see Calls

Ops == {"create", "update", "delete", "permanentlyDelete", "get"}

\* The commands that write; get only reads.
Writers == Ops \ {"get"}

\* The AWS calls, named after the step that makes them.  "validate" is a
\* request refused by its validator, "crash" an invocation that times out.
Calls == {"putConfig", "validate", "createStack", "putRecord", "getRecord",
          "markOld", "detachGet", "detachPut", "describe", "updateStack",
          "updateRecord", "deleteStack", "markRecord", "markConfig",
          "deleteRecord", "getConfig", "crash", "cfn"}

ASSUME UseCaseIdsAssumption == UseCaseIds # {}
ASSUME NoKeyAssumption == NoKey \notin Requests
ASSUME FaultsAssumption == Faults \subseteq Calls

VARIABLES
    \* The use-cases table, by use case id.
    records,    \* the ids that have an item
    stackId,    \* items with a StackId (the id's own stack)
    recordKey,  \* UseCaseConfigRecordKey
    recordTtl,  \* items with a TTL
    \* The use-case-config table, by record key.
    configs,    \* the keys that have an item
    bodies,     \* items with a config attribute
    mcpRefs,    \* items whose config names MCP servers
    configTtl,  \* items with a TTL
    unsaved,    \* history: the keys whose PutItem failed
    \* CloudFormation, by use case id.
    status,     \* status of the use case's stack
    stackKey,   \* the UseCaseConfigRecordKey parameter it has
    prevKey,    \* the one it had before the update in progress
    \* The requests.
    op, uc,     \* what each request does, and to which use case
    pc,         \* the step each request is at, or stopped at
    outcome,    \* "running", or how the command ended
    seenStack,  \* requests that read a record with a StackId
    seenKey,    \* the UseCaseConfigRecordKey that each request read
    withMcp,    \* requests whose configuration in hand names MCP servers
    disturbed   \* history: use cases hit by an overlap or a late failure

recordVars == <<records, stackId, recordKey, recordTtl>>
configVars == <<configs, bodies, mcpRefs, configTtl, unsaved>>
stackVars == <<status, stackKey, prevKey>>
seenVars == <<seenStack, seenKey>>
jobVars == <<op, uc, seenStack, seenKey, withMcp>>
runVars == <<pc, outcome, disturbed>>
vars == <<records, stackId, recordKey, recordTtl, configs, bodies, mcpRefs, configTtl,
          unsaved, status, stackKey, prevKey, op, uc, pc, outcome, seenStack, seenKey, withMcp,
          disturbed>>

Keys == Requests \cup {NoKey}
Steps == {"idle", "putConfig", "validateNew", "createStack", "putRecord",
          "getRecord", "validateUpdate", "markOld", "detachGet", "detachPut",
          "describe", "updateStack", "updateRecord", "deleteStack",
          "markRecord", "markConfig", "deleteRecord", "getConfig"}
Outcomes == {"running", "SUCCESS", "FAILED", "threw", "crashed"}

\* Stack statuses as far as the commands tell them apart; COMPLETE is every
\* status from which UpdateStack is accepted, GONE a stack that DescribeStacks
\* no longer knows (90 days after its deletion).
Deployed == {"CREATE_IN_PROGRESS", "COMPLETE", "UPDATE_IN_PROGRESS"}
Deleting == {"DELETE_IN_PROGRESS", "DELETE_FAILED", "DELETED", "GONE"}
Statuses == {"NONE"} \cup Deployed \cup Deleting

\* Every attribute belongs to an item that is there, and has its type.
TypeOK ==
    /\ records \subseteq UseCaseIds /\ stackId \subseteq records
    /\ recordTtl \subseteq records /\ recordKey \in [UseCaseIds -> Keys]
    /\ configs \subseteq Requests /\ bodies \subseteq configs
    /\ mcpRefs \subseteq bodies /\ configTtl \subseteq configs
    /\ unsaved \subseteq Requests
    /\ status \in [UseCaseIds -> Statuses]
    /\ stackKey \in [UseCaseIds -> Keys] /\ prevKey \in [UseCaseIds -> Keys]
    /\ op \in [Requests -> Ops] /\ uc \in [Requests -> UseCaseIds]
    /\ pc \in [Requests -> Steps] /\ outcome \in [Requests -> Outcomes]
    /\ seenStack \subseteq Requests /\ seenKey \in [Requests -> Keys]
    /\ withMcp \subseteq Requests
    /\ disturbed \subseteq UseCaseIds

\* What a request that has not started names.
AnyUseCase == CHOOSE u \in UseCaseIds : TRUE

Init ==
    /\ records = {} /\ stackId = {} /\ recordTtl = {}
    /\ recordKey = [u \in UseCaseIds |-> NoKey]
    /\ configs = {} /\ bodies = {} /\ mcpRefs = {} /\ configTtl = {}
    /\ unsaved = {}
    /\ status = [u \in UseCaseIds |-> "NONE"]
    /\ stackKey = [u \in UseCaseIds |-> NoKey]
    /\ prevKey = [u \in UseCaseIds |-> NoKey]
    /\ op = [r \in Requests |-> "get"]
    /\ uc = [r \in Requests |-> AnyUseCase]
    /\ pc = [r \in Requests |-> "idle"]
    /\ outcome = [r \in Requests |-> "running"]
    /\ seenStack = {} /\ seenKey = [r \in Requests |-> NoKey]
    /\ withMcp = {}
    /\ disturbed = {}

-----------------------------------------------------------------------------
(* The calls on the two tables. *)

\* PutItem of u's record by the request that created it.
PutRecord(u, k) ==
    /\ records' = records \cup {u} /\ stackId' = stackId \cup {u}
    /\ recordTtl' = recordTtl \ {u}
    /\ recordKey' = [recordKey EXCEPT ![u] = k]

\* DeleteItem, and removal by TTL.
DropRecord(u) ==
    /\ records' = records \ {u} /\ stackId' = stackId \ {u}
    /\ recordTtl' = recordTtl \ {u}
    /\ recordKey' = [recordKey EXCEPT ![u] = NoKey]

\* PutItem of a config: the whole item is replaced, a TTL it had included.
PutConfig(k, hasMcp) ==
    /\ configs' = configs \cup {k} /\ bodies' = bodies \cup {k}
    /\ mcpRefs' = IF hasMcp THEN mcpRefs \cup {k} ELSE mcpRefs \ {k}
    /\ configTtl' = configTtl \ {k}
    /\ UNCHANGED unsaved

\* UpdateItem setting the TTL of a config, without a condition: an item that
\* is no longer there comes back with nothing but the TTL.
MarkKey(k) ==
    /\ configs' = configs \cup {k} /\ configTtl' = configTtl \cup {k}
    /\ UNCHANGED <<bodies, mcpRefs, unsaved>>

DropConfig(k) ==
    /\ configs' = configs \ {k} /\ bodies' = bodies \ {k}
    /\ mcpRefs' = mcpRefs \ {k} /\ configTtl' = configTtl \ {k}
    /\ UNCHANGED unsaved

-----------------------------------------------------------------------------
(* Control helpers. *)

At(r, step) == pc[r] = step /\ outcome[r] = "running"

Active(r) == pc[r] # "idle" /\ outcome[r] = "running"

MayFail(call) == call \in Faults

\* A request that stops at one of these steps has written nothing.
WroteNothing(r) ==
    \/ pc[r] \in {"getRecord", "validateUpdate", "putConfig", "detachGet",
                  "detachPut", "getConfig"}
    \/ op[r] \in {"delete", "get"} /\ pc[r] \in {"describe", "deleteStack"}

Goto(r, step) ==
    /\ pc' = [pc EXCEPT ![r] = step]
    /\ UNCHANGED <<outcome, disturbed>>

Succeed(r) ==
    /\ outcome' = [outcome EXCEPT ![r] = "SUCCESS"]
    /\ UNCHANGED <<pc, disturbed>>

\* The command returns Status.FAILED or throws at the step it is at.
Stop(r, how) ==
    /\ outcome' = [outcome EXCEPT ![r] = how]
    /\ disturbed' = IF WroteNothing(r) THEN disturbed
                                       ELSE disturbed \cup {uc[r]}
    /\ UNCHANGED pc

\* How each command ends when a call inside its (first) try block fails:
\* create, update and delete return Status.FAILED, the others throw.
Abort(r) == IF op[r] \in {"create", "update", "delete"} THEN "FAILED" ELSE "threw"

-----------------------------------------------------------------------------
(* lambdaHandler: pick the command and its use case. *)

\* Mutant: create does not persist the config before the stack.
FirstStepNoConfig(o) == IF o = "create" THEN "validateNew" ELSE "getRecord"

FirstStep(o) == IF o = "create" THEN "putConfig" ELSE "getRecord"

\* Another command is still writing to use case u.
Overlaps(r, u) ==
    \E q \in Requests \ {r} : Active(q) /\ uc[q] = u /\ op[q] \in Writers

\* POST generates a use case id that no other create has; the others name
\* any id.  hasMcp: the request body's configuration names MCP servers.
Start(r, o, u, hasMcp) ==
    /\ At(r, "idle")
    /\ hasMcp => o \in {"create", "update"}
    /\ o = "create" =>
           \A q \in Requests : pc[q] # "idle" /\ op[q] = "create" => uc[q] # u
    /\ op' = [op EXCEPT ![r] = o]
    /\ uc' = [uc EXCEPT ![r] = u]
    /\ withMcp' = IF hasMcp THEN withMcp \cup {r} ELSE withMcp
    /\ pc' = [pc EXCEPT ![r] = FirstStep(o)]
    /\ disturbed' = IF o \in Writers /\ Overlaps(r, u)
                    THEN disturbed \cup {u} ELSE disturbed
    /\ UNCHANGED <<recordVars, configVars, stackVars, outcome, seenVars>>

-----------------------------------------------------------------------------
(* Steps shared by several commands. *)

\* createUseCaseConfig: PutItem of the new config.  A failed PutItem is
\* logged and swallowed, and the command carries on.
CreateUseCaseConfig(r) ==
    /\ At(r, "putConfig")
    /\ pc' = [pc EXCEPT ![r] = IF op[r] = "create" THEN "validateNew" ELSE "markOld"]
    /\ \/ /\ PutConfig(r, r \in withMcp)
          /\ UNCHANGED disturbed
       \/ /\ MayFail("putConfig")
          /\ disturbed' = disturbed \cup {uc[r]}
          /\ unsaved' = unsaved \cup {r}
          /\ UNCHANGED <<configs, bodies, mcpRefs, configTtl>>
    /\ UNCHANGED <<recordVars, stackVars, jobVars, outcome>>

AfterGetRecord(o) == IF o = "update" THEN "validateUpdate"
                     ELSE IF o = "permanentlyDelete" THEN "detachGet" ELSE "describe"

\* getUseCaseRecord: unmarshalling a missing item throws.
GetUseCaseRecord(r) ==
    /\ At(r, "getRecord")
    /\ \/ /\ uc[r] \in records
          /\ seenStack' = IF uc[r] \in stackId THEN seenStack \cup {r} ELSE seenStack
          /\ seenKey' = [seenKey EXCEPT ![r] = recordKey[uc[r]]]
          /\ Goto(r, AfterGetRecord(op[r]))
       \/ /\ uc[r] \notin records \/ MayFail("getRecord")
          /\ Stop(r, Abort(r))
          /\ UNCHANGED seenVars
    /\ UNCHANGED <<recordVars, configVars, stackVars, op, uc, withMcp>>

AfterDescribe(o) == IF o = "update" THEN "updateStack"
                    ELSE IF o = "get" THEN "getConfig" ELSE "deleteStack"

\* getStackRoleArnIfExists, and getStackDetails for get: a record without a
\* StackId is refused before the call.  Only permanentlyDelete goes on when
\* the stack is unknown, and only if the error is a StackNotFoundException.
DescribeStack(r) ==
    LET gone == status[uc[r]] = "GONE"
    IN  /\ At(r, "describe")
        /\ \/ /\ r \in seenStack /\ ~gone
              /\ Goto(r, AfterDescribe(op[r]))
           \/ /\ r \in seenStack /\ gone /\ op[r] = "permanentlyDelete"
              /\ Goto(r, "markConfig")
           \/ /\ r \notin seenStack \/ gone \/ MayFail("describe")
              /\ Stop(r, IF op[r] = "get" THEN "threw" ELSE "FAILED")
        /\ UNCHANGED <<recordVars, configVars, stackVars, jobVars>>

\* deleteStack: a stack that is deleted or gone stays so.
DeleteStack(r) ==
    /\ At(r, "deleteStack")
    /\ \/ /\ status' = IF status[uc[r]] \in {"DELETED", "GONE"} THEN status
                       ELSE [status EXCEPT ![uc[r]] = "DELETE_IN_PROGRESS"]
          /\ Goto(r, IF op[r] = "delete" THEN "markRecord" ELSE "markConfig")
       \/ /\ MayFail("deleteStack")
          /\ Stop(r, "FAILED")
          /\ UNCHANGED status
    /\ UNCHANGED <<recordVars, configVars, stackKey, prevKey, jobVars>>

\* Mutant: the config is left without a TTL.
MarkConfigSkipped(r) ==
    /\ At(r, "markConfig")
    /\ IF op[r] = "delete" THEN Succeed(r) ELSE Goto(r, "deleteRecord")
    /\ UNCHANGED <<recordVars, configVars, stackVars, jobVars>>

\* markUseCaseConfigForDeletion (permanentlyDelete, 10 minutes) and
\* markUseCaseRecordForDeletion on the config table (delete, 89 days); an
\* undefined key is an error.
MarkConfig(r) ==
    /\ At(r, "markConfig")
    /\ \/ /\ seenKey[r] # NoKey
          /\ MarkKey(seenKey[r])
          /\ IF op[r] = "delete" THEN Succeed(r) ELSE Goto(r, "deleteRecord")
       \/ /\ seenKey[r] = NoKey \/ MayFail("markConfig")
          /\ Stop(r, "threw")
          /\ UNCHANGED configVars
    /\ UNCHANGED <<recordVars, stackVars, jobVars>>

-----------------------------------------------------------------------------
(* CreateUseCaseCommand, after the config has been put. *)

\* validateNewUseCase; refused: Status.FAILED, and the config stays behind.
ValidateNewUseCase(r) ==
    /\ At(r, "validateNew")
    /\ \/ Goto(r, "createStack")
       \/ MayFail("validate") /\ Stop(r, "FAILED")
    /\ UNCHANGED <<recordVars, configVars, stackVars, jobVars>>

\* createStack: CloudFormation accepts the stack, which works on with the
\* config key it was given as a parameter.
CreateStack(r) ==
    /\ At(r, "createStack")
    /\ \/ /\ status' = [status EXCEPT ![uc[r]] = "CREATE_IN_PROGRESS"]
          /\ stackKey' = [stackKey EXCEPT ![uc[r]] = r]
          /\ prevKey' = [prevKey EXCEPT ![uc[r]] = r]
          /\ Goto(r, "putRecord")
       \/ /\ MayFail("createStack")
          /\ Stop(r, "FAILED")
          /\ UNCHANGED stackVars
    /\ UNCHANGED <<recordVars, configVars, jobVars>>

\* Mutant: a failed PutItem is swallowed, as createUseCaseConfig does.
CreateUseCaseRecordSwallowed(r) ==
    /\ At(r, "putRecord")
    /\ PutRecord(uc[r], r) \/ (MayFail("putRecord") /\ UNCHANGED recordVars)
    /\ Succeed(r)
    /\ UNCHANGED <<configVars, stackVars, jobVars>>

\* createUseCaseRecord
CreateUseCaseRecord(r) ==
    /\ At(r, "putRecord")
    /\ \/ /\ PutRecord(uc[r], r)
          /\ Succeed(r)
       \/ /\ MayFail("putRecord")
          /\ Stop(r, "threw")
          /\ UNCHANGED recordVars
    /\ UNCHANGED <<configVars, stackVars, jobVars>>

-----------------------------------------------------------------------------
(* UpdateUseCaseCommand, after the record has been read. *)

\* validateUpdateUseCase reads the config the record names (a missing item
\* throws) and merges the request's configuration into it; the merge may keep
\* the MCP servers of either.
ValidateUpdateUseCase(r) ==
    /\ At(r, "validateUpdate")
    /\ \/ /\ seenKey[r] \in configs
          /\ \/ UNCHANGED withMcp
             \/ seenKey[r] \in mcpRefs /\ withMcp' = withMcp \cup {r}
          /\ Goto(r, "putConfig")
       \/ /\ seenKey[r] \notin configs \/ MayFail("validate")
          /\ Stop(r, "FAILED")
          /\ UNCHANGED withMcp
    /\ UNCHANGED <<recordVars, configVars, stackVars, op, uc, seenVars>>

\* Mutant: the superseded config is left as it is.
MarkOldConfigSkipped(r) ==
    /\ At(r, "markOld")
    /\ Goto(r, "describe")
    /\ UNCHANGED <<recordVars, configVars, stackVars, jobVars>>

\* updateUseCaseConfig, second half: the superseded config gets a TTL.
MarkOldConfig(r) ==
    /\ At(r, "markOld")
    /\ \/ /\ seenKey[r] # NoKey
          /\ MarkKey(seenKey[r])
          /\ Goto(r, "describe")
       \/ /\ seenKey[r] = NoKey \/ MayFail("markOld")
          /\ Stop(r, "FAILED")
          /\ UNCHANGED configVars
    /\ UNCHANGED <<recordVars, stackVars, jobVars>>

\* Mutant: a refusal is taken for "no update is to be performed".
UpdateStackRefusalIgnored(r) ==
    LET u == uc[r]
    IN  /\ At(r, "updateStack")
        /\ \/ /\ status[u] = "COMPLETE"
              /\ status' = [status EXCEPT ![u] = "UPDATE_IN_PROGRESS"]
              /\ stackKey' = [stackKey EXCEPT ![u] = r]
              /\ prevKey' = [prevKey EXCEPT ![u] = stackKey[u]]
           \/ status[u] # "COMPLETE" /\ UNCHANGED stackVars
        /\ Goto(r, "updateRecord")
        /\ UNCHANGED <<recordVars, configVars, jobVars>>

\* updateStack: refused unless the stack is at rest.
UpdateStack(r) ==
    LET u == uc[r]
    IN  /\ At(r, "updateStack")
        /\ \/ /\ status[u] = "COMPLETE"
              /\ status' = [status EXCEPT ![u] = "UPDATE_IN_PROGRESS"]
              /\ stackKey' = [stackKey EXCEPT ![u] = r]
              /\ prevKey' = [prevKey EXCEPT ![u] = stackKey[u]]
              /\ Goto(r, "updateRecord")
           \/ /\ status[u] # "COMPLETE" \/ MayFail("updateStack")
              /\ Stop(r, "FAILED")
              /\ UNCHANGED stackVars
        /\ UNCHANGED <<recordVars, configVars, jobVars>>

\* Mutant: the new record key is not written.
UpdateUseCaseRecordKeepsKey(r) ==
    /\ At(r, "updateRecord")
    /\ Succeed(r)
    /\ UNCHANGED <<recordVars, configVars, stackVars, jobVars>>

\* Mutant: the use case id is written where the config record key belongs.
UpdateUseCaseRecordWrongKey(r) ==
    /\ At(r, "updateRecord")
    /\ records' = records \cup {uc[r]}
    /\ recordKey' = [recordKey EXCEPT ![uc[r]] = uc[r]]
    /\ Succeed(r)
    /\ UNCHANGED <<stackId, recordTtl, configVars, stackVars, jobVars>>

\* updateUseCaseRecord: UpdateItem without a condition, so a record that is
\* no longer there comes back without its StackId.
UpdateUseCaseRecord(r) ==
    /\ At(r, "updateRecord")
    /\ \/ /\ records' = records \cup {uc[r]}
          /\ recordKey' = [recordKey EXCEPT ![uc[r]] = r]
          /\ Succeed(r)
          /\ UNCHANGED <<stackId, recordTtl>>
       \/ /\ MayFail("updateRecord")
          /\ Stop(r, "threw")
          /\ UNCHANGED recordVars
    /\ UNCHANGED <<configVars, stackVars, jobVars>>

-----------------------------------------------------------------------------
(* DeleteUseCaseCommand, after the stack has been deleted. *)

\* markUseCaseRecordForDeletion on the use-cases table, an upsert as well.
MarkUseCaseRecordForDeletion(r) ==
    /\ At(r, "markRecord")
    /\ \/ /\ records' = records \cup {uc[r]}
          /\ recordTtl' = recordTtl \cup {uc[r]}
          /\ Goto(r, "markConfig")
          /\ UNCHANGED <<stackId, recordKey>>
       \/ /\ MayFail("markRecord")
          /\ Stop(r, "threw")
          /\ UNCHANGED recordVars
    /\ UNCHANGED <<configVars, stackVars, jobVars>>

-----------------------------------------------------------------------------
(* PermanentlyDeleteUseCaseCommand. *)

\* Mutant: the MCP servers are left in the config.
DetachGetSkipped(r) ==
    /\ At(r, "detachGet")
    /\ Goto(r, "describe")
    /\ UNCHANGED <<recordVars, configVars, stackVars, jobVars>>

\* detachOutboundMcpServerRefs, the read.  A missing or unreadable config, and
\* one without the config attribute, are warned about and skipped.
DetachGet(r) ==
    /\ At(r, "detachGet")
    /\ \/ seenKey[r] \in mcpRefs /\ Goto(r, "detachPut")
       \/ (seenKey[r] \notin mcpRefs \/ MayFail("detachGet")) /\ Goto(r, "describe")
    /\ UNCHANGED <<recordVars, configVars, stackVars, jobVars>>

\* detachOutboundMcpServerRefs, the write.
DetachPut(r) ==
    /\ At(r, "detachPut")
    /\ \/ PutConfig(seenKey[r], FALSE)
       \/ MayFail("detachPut") /\ UNCHANGED configVars
    /\ Goto(r, "describe")
    /\ UNCHANGED <<recordVars, stackVars, jobVars>>

\* deleteUseCaseRecord
DeleteUseCaseRecord(r) ==
    /\ At(r, "deleteRecord")
    /\ \/ /\ DropRecord(uc[r])
          /\ Succeed(r)
       \/ /\ MayFail("deleteRecord")
          /\ Stop(r, "threw")
          /\ UNCHANGED recordVars
    /\ UNCHANGED <<configVars, stackVars, jobVars>>

-----------------------------------------------------------------------------
(* GetUseCaseCommand: getUseCaseConfigFromRecord, the last of its reads. *)

GetUseCaseConfig(r) ==
    /\ At(r, "getConfig")
    /\ \/ seenKey[r] \in configs /\ Succeed(r)
       \/ (seenKey[r] \notin configs \/ MayFail("getConfig")) /\ Stop(r, "threw")
    /\ UNCHANGED <<recordVars, configVars, stackVars, jobVars>>

-----------------------------------------------------------------------------
(* The environment: Lambda timeouts, DynamoDB TTL, CloudFormation. *)

Crash(r) ==
    /\ MayFail("crash")
    /\ Active(r)
    /\ Stop(r, "crashed")
    /\ UNCHANGED <<recordVars, configVars, stackVars, jobVars>>

ExpireRecord(u) ==
    /\ u \in recordTtl
    /\ DropRecord(u)
    /\ UNCHANGED <<configVars, stackVars, jobVars, runVars>>

ExpireConfig(k) ==
    /\ k \in configTtl
    /\ DropConfig(k)
    /\ UNCHANGED <<recordVars, stackVars, jobVars, runVars>>

\* A creation or an update ends well.
CfnComplete(u) ==
    /\ status[u] \in {"CREATE_IN_PROGRESS", "UPDATE_IN_PROGRESS"}
    /\ status' = [status EXCEPT ![u] = "COMPLETE"]
    /\ prevKey' = [prevKey EXCEPT ![u] = stackKey[u]]
    /\ UNCHANGED <<recordVars, configVars, stackKey, jobVars, runVars>>

\* A creation fails: the stack is created with OnFailure: DELETE.
CfnCreateFails(u) ==
    /\ MayFail("cfn")
    /\ status[u] = "CREATE_IN_PROGRESS"
    /\ status' = [status EXCEPT ![u] = "DELETE_IN_PROGRESS"]
    /\ UNCHANGED <<recordVars, configVars, stackKey, prevKey, jobVars, runVars>>

\* An update fails and is rolled back to the parameters it replaced.
CfnUpdateRollsBack(u) ==
    /\ MayFail("cfn")
    /\ status[u] = "UPDATE_IN_PROGRESS"
    /\ status' = [status EXCEPT ![u] = "COMPLETE"]
    /\ stackKey' = [stackKey EXCEPT ![u] = prevKey[u]]
    /\ disturbed' = disturbed \cup {u}
    /\ UNCHANGED <<recordVars, configVars, prevKey, jobVars, pc, outcome>>

\* A deletion ends, well or not.
CfnDeleteEnds(u) ==
    /\ status[u] = "DELETE_IN_PROGRESS"
    /\ \/ status' = [status EXCEPT ![u] = "DELETED"]
       \/ MayFail("cfn") /\ status' = [status EXCEPT ![u] = "DELETE_FAILED"]
    /\ UNCHANGED <<recordVars, configVars, stackKey, prevKey, jobVars, runVars>>

CfnForget(u) ==
    /\ status[u] = "DELETED"
    /\ status' = [status EXCEPT ![u] = "GONE"]
    /\ UNCHANGED <<recordVars, configVars, stackKey, prevKey, jobVars, runVars>>

-----------------------------------------------------------------------------
\* One AWS call of request r, whichever it is at.
Step(r) ==
    \/ CreateUseCaseConfig(r)
    \/ GetUseCaseRecord(r)
    \/ DescribeStack(r)
    \/ DeleteStack(r)
    \/ MarkConfig(r)
    \/ ValidateNewUseCase(r)
    \/ CreateStack(r)
    \/ CreateUseCaseRecord(r)
    \/ ValidateUpdateUseCase(r)
    \/ MarkOldConfig(r)
    \/ UpdateStack(r)
    \/ UpdateUseCaseRecord(r)
    \/ MarkUseCaseRecordForDeletion(r)
    \/ DetachGet(r)
    \/ DetachPut(r)
    \/ DeleteUseCaseRecord(r)
    \/ GetUseCaseConfig(r)

CfnStep(u) ==
    \/ CfnComplete(u)
    \/ CfnCreateFails(u)
    \/ CfnUpdateRollsBack(u)
    \/ CfnDeleteEnds(u)
    \/ CfnForget(u)

Next ==
    \/ \E r \in Requests, o \in Ops, u \in UseCaseIds, m \in BOOLEAN : Start(r, o, u, m)
    \/ \E r \in Requests : Step(r) \/ Crash(r)
    \/ \E u \in UseCaseIds : ExpireRecord(u) \/ CfnStep(u)
    \/ \E k \in Requests : ExpireConfig(k)

Spec == Init /\ [][Next]_vars

\* A started invocation runs on or is killed; DynamoDB gets to every expired
\* item, CloudFormation to the end of every operation it accepted.
Fairness ==
    /\ \A r \in Requests : WF_vars(Step(r))
    /\ \A k \in Requests : WF_vars(ExpireConfig(k))
    /\ \A u \in UseCaseIds : WF_vars(ExpireRecord(u)) /\ WF_vars(CfnStep(u))

FairSpec == Spec /\ Fairness

-----------------------------------------------------------------------------
(* Properties. *)

Stored(k) == k \in bodies \ configTtl

\* A record that no delete has marked.
Live(u) == u \in records \ recordTtl

\* The configs written for use case u, under whichever record key.
KeysOf(u) == {k \in Requests : pc[k] # "idle" /\ uc[k] = u
                                /\ op[k] \in {"create", "update"}}

Removed(u) == \E r \in Requests :
    op[r] = "permanentlyDelete" /\ uc[r] = u /\ outcome[r] = "SUCCESS"

\* The creation of u has got its stack and has not stored its record: it is
\* about to, or PutItem threw, or the invocation died in between.
RecordPending(u) == \E r \in Requests :
    op[r] = "create" /\ uc[r] = u /\ pc[r] = "putRecord" /\ outcome[r] # "SUCCESS"

\* No stack is lost: whatever the interleaving and whichever calls fail, a
\* stack that nobody asked CloudFormation to delete is named by the StackId of
\* its use case record, unless createUseCaseRecord itself has not succeeded.
\* (The commands delete the stack before they mark or delete the record.)
NoLostStack == \A u \in UseCaseIds :
    status[u] \in Deployed => u \in stackId \/ RecordPending(u)

\* Request r has given the config that u's record names a TTL, and has not
\* completed: an update that stopped (or still is) between updateUseCaseConfig
\* and updateUseCaseRecord, or a deletion that stopped after markConfig.
Culprit(r, u) ==
    /\ uc[r] = u /\ seenKey[r] = recordKey[u] /\ outcome[r] # "SUCCESS"
    /\ \/ op[r] = "update" /\ pc[r] \in {"describe", "updateStack", "updateRecord"}
       \/ op[r] = "permanentlyDelete" /\ pc[r] = "deleteRecord"

\* The config that a live record names is stored and will not expire, unless
\* its own PutItem was the failure createUseCaseConfig swallowed, or an update
\* or a permanent deletion that did not complete has marked it; commands that
\* report SUCCESS never leave a live use case with a config that expires.
LiveConfigKept == \A u \in UseCaseIds :
    Live(u) => \/ Stored(recordKey[u])
               \/ recordKey[u] \in unsaved
               \/ \E r \in Requests : Culprit(r, u)

\* "Persist config before CFN so deploy_agent_core reads it"
\* (use-case-command.ts:137): when CloudFormation accepts a creation or an
\* update, the config whose key it is given is stored and not expiring, unless
\* its PutItem was the failure createUseCaseConfig swallowed.
ConfigBeforeCfn == [][\A u \in UseCaseIds :
    status'[u] \in {"CREATE_IN_PROGRESS", "UPDATE_IN_PROGRESS"} /\ status'[u] # status[u]
        => Stored(stackKey'[u]) \/ stackKey'[u] \in unsaved]_vars

\* No command is writing to use case u.
Settled(u) == \A r \in Requests : Active(r) /\ op[r] \in Writers => uc[r] # u

\* What one use case's three stores say, once its commands have ended.
Consistent(u) ==
    /\ Live(u) => u \in stackId /\ Stored(recordKey[u]) /\ stackKey[u] = recordKey[u]
    /\ ~Live(u) => status[u] \in Deleting \cup {"NONE"}
    /\ \A k \in KeysOf(u) : k \in configs \ configTtl => Live(u) /\ recordKey[u] = k

\* Commands that neither overlap on a use case nor fail after their first
\* write leave it consistent: a live record names its stack and a stored
\* config, the one the stack was deployed with; an unmarked config is that
\* one, every other one is expiring or gone; without a live record the stack
\* is being deleted; a permanently deleted use case has no record.
SequentiallyConsistent == \A u \in UseCaseIds \ disturbed :
    /\ Settled(u) => Consistent(u)
    /\ Removed(u) => u \notin records

Created(u) == \E r \in Requests :
    op[r] = "create" /\ uc[r] = u /\ outcome[r] = "SUCCESS"

\* Where a use case is in UseCaseLife.
LifeOf(u) == IF u \in disturbed THEN "disturbed"
             ELSE IF Live(u) THEN "live"
             ELSE IF Removed(u) THEN "removed"
             ELSE IF Created(u) THEN "deleted" ELSE "absent"

StackOf(u) == IF status[u] = "NONE" THEN "none"
              ELSE IF status[u] \in Deployed THEN "up" ELSE "down"

ConfigOf(u) == IF u \notin disturbed /\ Live(u) THEN recordKey[u] ELSE NoKey

Life == INSTANCE UseCaseLife WITH
    Configs <- Requests, NoConfig <- NoKey,
    life <- [u \in UseCaseIds |-> LifeOf(u)],
    stack <- [u \in UseCaseIds |-> StackOf(u)],
    config <- [u \in UseCaseIds |-> ConfigOf(u)],
    used <- {r \in Requests : op[r] \in {"create", "update"} /\ outcome[r] = "SUCCESS"}

\* The commands implement UseCaseLife, however they interleave and fail: a use
\* case that no overlap and no late failure has disturbed only goes forward,
\* its stack is sent away before it ends, and an update that is acknowledged
\* finds it live.
FollowsLife == Life!Spec

\* Nothing is left of a use case that was permanently deleted undisturbed:
\* its configs expire and its stack is deleted (or its deletion fails in
\* CloudFormation).
Reclaimed == \A u \in UseCaseIds :
    Removed(u) ~> \/ u \in disturbed
                  \/ /\ KeysOf(u) \cap configs = {}
                     /\ status[u] \in {"DELETE_FAILED", "DELETED", "GONE"}

=============================================================================
