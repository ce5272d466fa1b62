# Verification of the Generative AI Application Builder

TLA+ models of the parts of this repository that change shared state from
several Lambda functions, or several invocations of one, at a time; the TLC runs
that check them on small instances; and TLAPS proofs of their safety for every
instance.

- [1. The system](#1-the-system)
- [2. What is modelled, module by module](#2-what-is-modelled)
- [3. Runs: questions, bounds, fairness](#3-runs)
- [4. Where the code and its documents disagree](#4-where-the-code-and-its-documents-disagree)
- [5. Proofs](#5-proofs)
- [6. Not modelled](#6-not-modelled)
- [7. Plan](#7-plan)

## 1. The system

An administrator, or the external AIW platform through EventBridge, deploys
*use cases* (chat bots, agents, MCP gateways, workflows). Each use case is a
CloudFormation stack, a record in the *use-cases* table and a configuration in
the *use-case-config* table; users then chat with it over a websocket and attach
files. Paths below are under `source/lambda/` unless they say otherwise.

| component | state it keeps | operations | hard behaviour | what makes it correct | module |
|---|---|---|---|---|---|
| `use-case-management` commands | use-cases table (StackId, UseCaseConfigRecordKey, TTL), config table, one stack per use case | create, update, delete, permanentlyDelete, get | no transaction over three stores; swallowed failures; overlapping commands; unconditional upserts; TTL | no stack without a record, a live record has its config, everything of a deleted use case goes | UseCaseManagement, UseCaseLife |
| `files-management`, `files-metadata-management` | metadata table, bucket (presigned posts) | upload, delete, get; validate on ObjectCreated | record and object change apart; late posts; duplicate or late events | an uploaded record has a valid object, a deleted one has none, a posted file leaves `pending` | MultimodalFiles, FileLife |
| `tenant-deprovision-subscriber` | the policy engine; through the commands, records, configs and stacks | deprovision, policy detach, engine teardown | retries from the start, an answer that is lost, ordered teardown of two stacks | gateway before agent, complete only if deleted, always reported | TenantDeprovision, WorkspacePolicy |
| `tenant-policy-apply-subscriber` | policy engine, its policies and association, the agent's config | apply a workspace policy | no transaction over four services; create-or-find races; apply against teardown | what is reported applied is enforced, an associated gateway is never left without its policies | WorkspacePolicy |
| `tenant-tool-integration-installer` | agent configs, runtime environments | install, uninstall, credential sync, fan-out | read-modify-write of a whole config and a whole environment; retries; a runtime being updated | what a handler set or removed is so in config and runtime alike; no update lost but by handlers that meet | ToolIntegration |
| `tenant-provision-subscriber`, `orchestrator-provision-subscriber` | tenant and workflow stacks | provision: gateway, agent, environment, status events | deploys that do not answer with an id, scans by name, resume after a timeout, polling | no twin agents, ready only for what was seen up and synced, a retry succeeds | Provision, ProvisionPromise |
| `agentcore-invocation`, websocket queue, `source/ui-chat` | FIFO queue, billing ledger and counts, browser state | a batch of messages: count, check, invoke, stream, answer | batches that mix connections; whole-batch redelivery; posts that fail; counts read by several invocations | one count per message, quota kept, no turn lost, overtaken or stuck | ChatTurns |
| `templates-api`, the templates page | templates table, test deployments, AIW's catalog | create, update, start, cancel, restart, validate, refresh, publish, unpublish | operations that outlive their caller and overlap; unconditional writes of what was read earlier; deployments found by name | one test deployment under a name, nothing published that was never up, a test gets out of `deploying` | Templates, TemplateRaces, TemplateLife |
| `use-case-management` listing and MCP commands | none | list, search, page; presign | paging over one scan; one bad record | every page is part of the sorted, filtered list | - |
| `tenants-api`, `tenant-tool-connection-subscriber` | tenants table | CRUD, connect | conditional writes | - | - |
| `chat`, `invoke-agent`, `websocket-connectors` | conversation memory | answer a message | third-party streaming | - | - |
| `feedback-management` | feedback bucket, cached config | put feedback | stale cache | - | - |
| `custom-authorizer`, `model-info`, `use-case-details`, `use-case-usage`, `ext-idp-group-mapper`, `layers` | none | reads and pure checks | - | - | - |
| `custom-resource` | AWS resources of a stack | create, update, delete | partial failure inside CloudFormation | every delete undoes its create | - |
| `source/ui-deployment` | browser state | deploy | the templates page polls | - | Templates (its poll) |
| `source/infrastructure` | - | CDK | - | its table, bucket, queue and event settings are what the models assume | - |
| `deployment/ecr/gaab-strands-*` | agent containers | run agents and tools | tool budgets, streaming | - | - |

How they meet: the tenant subscribers and the templates API invoke the agents and
MCP Lambda functions of `use-case-management` synchronously with synthetic API
events; those write the tables and ask CloudFormation, whose custom resources
read the config table and write the AgentCore gateway. The policy apply, the tool
installer and the provisioning write the same agent configs and runtimes.
DynamoDB's TTL removes records and configs on its own. The two file functions
share a table and a bucket and are joined by S3's events through EventBridge. All
events are delivered at least once, and Lambda runs an asynchronous handler that
throws up to three times. The queue behind the websocket hands a batch out again,
whole, when its invocation throws.

## 2. What is modelled

An action is one call to AWS with the code up to the next call, because that is
where another invocation may come in between. A call that fails is a disjunct
guarded by a constant set of failures, or by a budget of mishaps that `MaxMishaps`
bounds, so that each run says which may happen. Attributes of a table are
variables of their own: a set of keys where presence is what matters, a function
otherwise. *History* variables (`disturbed`, `overlapped`, `excused`, `doubled`,
...) steer nothing: they name what a property excuses.

### UseCaseManagement

`use-case-management/model/commands/use-case-command.ts` and what it calls. A
request `r` is one Lambda invocation; `pc[r]` is the call it is about to make,
`outcome[r]` how it ended. A create or update generates a fresh config record
key, named by the request, so `configs`, `bodies`, `configTtl`, `recordKey` and
`stackKey` range over requests. A use case has one stack, named by it (`status`,
`stackKey`).

| code | action |
|---|---|
| `lambdaHandler`, `getStackAction` | `Start`: the commands that the four handlers share |
| `createUseCaseConfig` | `CreateUseCaseConfig`: failures swallowed, as in the code |
| `validateNewUseCase`, `createStack`, `createUseCaseRecord` | `ValidateNewUseCase`, `CreateStack`, `CreateUseCaseRecord` |
| `getUseCaseRecord` | `GetUseCaseRecord`: what is read is used by the later steps (`seenStack`, `seenKey`) |
| `validateUpdateUseCase`, `updateUseCaseConfig`, `updateStack`, `updateUseCaseRecord` | `ValidateUpdateUseCase`, `CreateUseCaseConfig` and `MarkOldConfig`, `UpdateStack`, `UpdateUseCaseRecord` |
| `getStackRoleArnIfExists`, `getStackDetails`, `deleteStack` | `DescribeStack`, `DeleteStack` |
| `markUseCaseRecordForDeletion`, `markUseCaseConfigForDeletion` | `MarkUseCaseRecordForDeletion`, `MarkConfig` |
| `detachOutboundMcpServerRefs`, `deleteUseCaseRecord` | `DetachGet` and `DetachPut`, `DeleteUseCaseRecord` |
| `GetUseCaseCommand` | `GetUseCaseRecord`, `DescribeStack`, `GetUseCaseConfig` |
| Lambda timeout, DynamoDB TTL, CloudFormation (external) | `Crash`, `ExpireRecord`, `ExpireConfig`, `Cfn...` |

`UpdateItem` is an upsert: without a condition it brings back an item that is no
longer there, with the attributes it sets. What DescribeStacks throws for a stack
that CloudFormation has forgotten is external and left open: the permanent
deletion goes on after a `StackNotFoundException` and fails on anything else, the
`ValidationError` included that `wait-for-stack-deletion.ts` expects there.

Properties: `NoLostStack`; `LiveConfigKept` and `ConfigBeforeCfn`, but for a
config whose own PutItem was the failure that the code swallows (`unsaved`);
`SequentiallyConsistent` (what the three stores say of a use case whose commands
did not overlap and did not fail late; `disturbed` records those that did);
`FollowsLife` and `Reclaimed` (liveness).

UseCaseLife is what the deployment API promises, with none of the tables: a use
case is absent, then live, then deleted or removed for good; its stack is built
once and sent away before it ends; an acknowledged update finds it live, with its
stack up, and moves it to a config that no use case ever had. `FollowsLife` is its
specification under the refinement mapping `LifeOf`, `StackOf`, `ConfigOf`. The
step that changes the life is the one in which a command succeeds. Of a use case
that commands have disturbed nothing is promised but what holds of its stack.

### MultimodalFiles

`files-management` and `files-metadata-management`. A record is found by file key
and name, one element of `Files`; the object has the `fileUuid` that its upload
request generated. `UploadFile` is the conditional put of a pending record and the
presigned post, `PostFile` the client's post with the event it causes,
`ValidateMetadata`, `ValidateFile` and `UpdateFileMetadata` the handler of the
event with its retries, `Redeliver` the same event delivered once more, at any
time after it was handled, `GetRecordToDelete`, `DeleteFileFromS3` and `MarkDeleted`
the delete, `GetFile` the get. Posts may be repeated while their policy lasts,
replies may be lost, records expire by the attribute `ttl` (and not `TTL`, which
the create and delete write), objects by the bucket's lifecycle rule. A request
for several files is modelled file by file, as `Promise.allSettled` treats them;
whether multimodal input is enabled for the use case is taken as given.

`UploadedIsStored`, `DeletedIsGone` and `UploadedIsGenuine` relate a record to its
object. They hold but for a file that was granted to a new upload (`regranted`) or
deleted (`hurried`) while an earlier upload or delete of it was under way, and for
one that waited for an upload when the event of an earlier one came once more
(`regranted` as well): the handler updates by name, not by `fileUuid`, and takes
the old event for the new upload's. A duplicate at any other time does no harm.
`PostedIsProcessed` is the liveness.

FileLife is what the client is promised, with no table, bucket or event: a file is
granted to one upload at a time and only where no good one is; it is accepted once
that upload's content is stored and genuine; what was accepted leaves only with its
age or a delete; a delete is done when the content is gone, and none of it comes
back; what is waited for does not expire. `FollowsLife` is its specification under
`LifeOf`, `UploadOf` and `IsLeaving` (the object is gone, the record not yet). Of a
file that is `regranted` or `hurried` nothing is promised.

### TenantDeprovision

`tenant-deprovision-subscriber`, composed with UseCaseManagement: the module
extends it, starts from two use cases as a finished `CreateUseCaseCommand` leaves
them, and its `InvokeDelete` starts a `permanentlyDelete` request there that runs
on by itself (`DeletionStep`), also after the handler that waits for it was cut
off. A handler has a step, local state (`target`, `call`, `knows`, `errors`,
`blocked`, `readMcp`) and the phases it has emitted (`reported`). `Throw` is the
retry from the start. The engine is the set of what there is of it.
`GetAnswers` is FALSE of the code, which sends no Authorization header; the unit
test of the subscriber mocks an answer, and TRUE checks the code that depends on
it. Of a config only the MCP servers are kept.

`GatewayFirst`, `CompleteIsDeleting`, `DetachedBeforeDelete`,
`DeprovisionReported` and `TenantReclaimed` each relate what the handler knows or
reports to what the commands it invoked did to the stores.

### WorkspacePolicy

The policy engine of one workspace, seen from both sides:
`tenant-policy-apply-subscriber` and the detach and teardown of
`tenant-deprovision-subscriber` in full. The state is what four services keep:
the engine and its status, its policies (each the version that it was compiled
from, 0 if missing), the gateway's association, the record in the agent's config. An event may name the use
case or not (`targeted`), and an attempt may find the gateway or not (`named`) and
the config or not (`unfound`). An engine whose creation is not waited for to the
end is there for the next attempt, active or failed; while it is being created it
refuses what is done with it, which is what the failures of each call are.

| code | action |
|---|---|
| `lambdaHandler` of both, retries | `Receive`, `Redeliver`, `Announce`, `Finish`, `ReportFailure` |
| `runPolicyApply` | `LoadUseCaseConfig`, `EnsurePolicyEngine`, `CreatePolicyEngine`, `ClearStaleRecord`, `UpsertCedarPolicy`, `PruneOrphans`, `AssociateGateway`, `PatchUseCase` |
| `teardownWorkspacePolicyEngine` | `FindPolicyEngine`, `DisassociateAll`, `HealGateway`, `HealDetach`, `ListPolicies`, `DeletePolicy`, `DeletePolicyEngine`, `AwaitDeleted`, `ClearWorkspacePolicy` |

An update of a policy that fails is a delete and a create, as in
`upsert-cedar-policy.ts`. `AppliedIsEnforced` and `DetachedIsGone` say that a
handler that meets no other one reaches what it reports from *any* state that
failures, crashes and races have left (the record is only cleared by an event that
names the use case, and if its config is found; the engine and the association are
gone regardless); `NeverLeftBare` that whatever interleaves,
the gateway does not rest on an engine that is gone or denies everything;
`EndIsReported` that who is told of a start is told of an end.

### ToolIntegration

`tenant-tool-integration-installer` with the two other writers of what it writes:
the policy apply's patch of the config and `sync-agent-runtime-env.ts` of the
provisioning. Keys are grouped as the code sets and removes them, and a value is the
number of the event that set it, so a lost update shows. `NextTarget` is the
fan-out with its failures noted, `InstallTarget` the gateway target,
`ReadForServer`/`WriteServer`, `ReadConfig`/`WriteConfig`, `ReadForPatch`/`WritePatch`
the three read-modify-writes of the config, `DescribeRuntime`/`UpdateRuntime` that of
the environment with its retries on a runtime being updated. `SyncedIsLive`
relates what a returning handler set, or removed, to config and runtime;
`OthersAreKept` is an action property: only handlers that meet can change
another's part.

### Provision and ProvisionPromise

A request for a workspace or an orchestrator. Use cases are numbers, and a scan
takes the first row of the right name and type, in an order that nobody chose:
which number a deployment gets is nondeterministic. `FindGateway`,
`DeployGateway`, `ResolveGateway`, `AwaitGateway`, `AwaitUrl` and the same for the
agent follow `runTenantProvision`; `Poll` is a loop of polls with its sleep and
deadline; `Reprobe` is the second look at the agent, `SyncRuntime` the environment.
Stacks complete, fail, are updated or deleted by others, rows expire. The deployment
API may make a stack and no row, or outlive its caller (`Abandon`): it then makes the
stack and the row, or either fails, whenever it likes (`ApiGoesOn`).

ProvisionPromise is what AIW is promised, without any of this: a request is
opened, sees an agent *up*, is synced, is answered once. `KeepsPromise` is its
specification under a refinement mapping (`Phase`). `NoTwins`, `ToolsAreThere`
and `RetrySucceeds` are about what the promise does not mention.

### ChatTurns

From the page to the answer: `Send`, `ResetChat`, `ResponseTimeout` and `Close` are
the chat page (`source/ui-chat`), `Receive` and `DeadLetter` the queue
(`source/infrastructure/lib/api/websocket-endpoint.ts`), `EndLoop`, `PutLedger`,
`Increment`, `ReadCount`, `Invoke`, `StreamChunks`, `SendEnd`, `Refuse` and
`SendErrorMessage` the handler of a batch (`handler.py`, `event_processor.py`,
`session_billing_metering.py`). A message is a connection and a number of a turn. The
event source mapping has no ReportBatchItemFailures, so an invocation that
returns has settled its batch and one that throws gets it again, whole.

`NamedChargedOnce` and `QuotaHolds` are about counting by several invocations and
deliveries, `SettledIsTold` and `AnsweredInOrder` about batches that mix
connections, `TurnsSettle` is the liveness.

### Templates

`templates-api/index.ts` and `template-testing.ts`. A worker is an invocation: it
loads the template, checks that the operation is allowed, and goes on with what it
loaded; API Gateway gives up on it after 29 s and it goes on all the same, so two
workers are one author in a hurry as well as two.

| code | action |
|---|---|
| `createTemplate`, `updateTemplate` | `CreateTemplate`, `UpdateTemplate` and `Save` |
| `syncTestingDeployStatus` | `Find`, `NoteFound`, `Wait`, `Describe`, `Probe`, `Record`, `Drop`; `Verdict` is what it makes of two looks at the stack |
| `startTesting` | `StartTesting`, `Lookup`, `Adopt`, `Mark`, `DeployTestStack`, `Resolve`, `Note`, `Recover`, `Retain`, `GiveUp` |
| the agent Lambda's `POST /deployments/agents` | part of `DeployTestStack`; `AgentGoesOn` when its caller has died or lost it |
| `cancelTesting`, `restartTesting` | `CancelTesting`, `RestartTesting`, `Reset`, `TearDown`, `Reload` |
| `markTestingValidated`, `refreshTestingStatus` | `MarkTestingValidated` and `Validate`, `RefreshTestingStatus` and `Orphan` |
| `publishTemplate` | `PublishTemplate`, `AssertSlug`, `Publish`, `Emit`, `TearDownPublished` |
| `unpublishTemplate` | `UnpublishTemplate`, `Unlist`, `Archive` |
| `TemplatesListView.jsx` | `Poll`, every few seconds while a test is deploying |

A test deployment is found by a scan for its name (`Named`), which
`buildTestUseCaseName` makes of the template's id and slug. `Save` may change the
slug of a draft or of a template in testing; an invocation goes on with the one it
loaded (`curName`), and a template in testing keeps the name its test was started
with (`testName`). The agent Lambda makes the stack and then the record, and goes on
when its caller is gone ("asked"). The deletion after a publish is not awaited, so
`TearDownPublished` runs when the environment is thawed, or never. publish's checks
of a free slug and of what the catalog requires are one refusal that may happen.

`OneTestStack` says that the table has one test deployment of a template under each
of its names, so that whoever scans finds the same, unless somebody set out to deploy
while another one was on its way, by an invocation or by an agent Lambda alone
(`doubled`). It does not say that a template has one test deployment: after an edit
of the slug and a deletion that failed, or one that a put of the record failed for,
it has more (section 4).
`PublishedWasUp` says that none is published of which no test deployment was up,
`TestSettles` that a test with a deployment gets out of `deploying`.

TemplateLife is what the author is promised, with no invocations: a template is a
draft, is tried out, published and archived; its test counts as active only when a
deployment of it was up; a specialist is published only from an active test that
its author has validated and not edited since; it is listed only when published and
archived only when no longer listed. Each write of the code rests on what the
invocation loaded, so this holds only where no two operations overlap on one
template: TemplateRaces adds the history variable `raced` of the templates that two
invocations have worked on at a time (`Contended`), of which nothing is promised,
and `FollowsLife`, the specification of TemplateLife under `LifeOf`, `DevopsOf` and
`TestOf`. Calls that fail or die are no excuse. A deletion after a publish does not
count as work: it writes nothing of the template.

## 3. Runs

Every `CHECK_DEADLOCK FALSE` is there because the number of requests or events is
bounded: the system rests when all have ended and nothing is left to expire.

| run | instance | question |
|---|---|---|
| `use_case_faults` | 1 use case, 3 requests, every call may fail, one configuration with MCP servers | types, no lost stack, configs, sequential consistency, the life cycle, everything deleted goes |
| `files_faults` | 1 file, 3 requests, 2 attempts, every mishap but repeated posts | record and object agree, the life cycle, a posted file leaves `pending` |
| `tenant_faults` | 1 event, 2 attempts, 3 deletions, every mishap of the handler, deletions refused or dying | gateway first, complete is deleting |
| `tenant_fair` | 1 event, 1 attempt, engine and config calls fail, the GET answers | reported, use cases reclaimed, config detached before the stack's deletion |
| `workspace_policy` | 2 events of any kind, 2 policy versions, one forbidding, 2 engines, 2 attempts, every mishap | applied is enforced, detached is gone, never left bare, ends reported |
| `tool_workspace` | 2 events of any kind on 1 workspace, 2 attempts, 1 mishap, the credential renewed once | what was synced is live, nothing else is touched |
| `provision` | 2 requests of either kind, 2 agents, 2 gateways, 1 mishap | no twins, tools there, the promise is kept, a retry succeeds |
| `chat_turns` | a user with 2 turns, one with 1, 2 invocations, batches of 2, 2 deliveries, a tier of 1 session, 1 mishap of any kind (a stale read among them) | counting, quota, order, nothing lost, everything settles |
| `templates` | 1 template, an author with every operation, a page that polls, one change of the slug, 2 test deployments, 1 mishap (an agent Lambda that loses its caller among them) | one test deployment under a name, published was up, the life cycle, tests settle |
| `tenant_order`, `charged_twice`, `template_unproven` | smallest that shows it | see section 4 |

Why the bounds suffice to be of use. Use cases, files, workspaces and templates
share nothing but the code, so one of each is enough and more only multiplies
states (the proofs hold for any number). Three requests are a command and the two
that overlap it; `MCUseCaseManagement` numbers them in the order in which they
start and lets only the last be a get, which changes nothing for the others. A second attempt of a handler shows what a retry meets, a third
meets the same. Two events are every pair of handlers that can meet; in
`workspace_policy` they come in every order, so that the second also meets
everything that the first can leave behind. `tenant_faults` has one event, and a
retry that overlaps the deletions the attempt before it invoked. In `chat_turns`
two connections are what a batch needs to mix and two turns what can be
overtaken; one mishap may be of each of the six kinds at any step. In `templates`
two deployments are what a restart needs and what twins need, and two slugs what a
test under an old name needs; that two invocations start a test at a time, and that
a restart finds one started meanwhile, is beyond this instance, where only the author
starts tests, and in `TestStackIsOne` for any number of invocations. One mishap is where
TLC's reach ends for `tool_workspace`, `provision`, `chat_turns` and `templates`;
the safety of all of them is proved for any number.

Fairness. Weak fairness of a request's or handler's next step: a started Lambda
invocation runs on (when it may be cut off, `Crash`, `HandlerTimeout` and `Dies` are
actions of their own, without fairness). Weak fairness of expiry and of
CloudFormation: DynamoDB and S3 remove what has expired, CloudFormation ends what
it has accepted, well or not (in `provision`, stacks complete; that one fails is a
mishap). Weak fairness of the queue: the event source mapping polls, and what may
not be handed out again is moved to the dead-letter queue. No fairness of clients:
nobody has to start or post anything. The one exception is strong fairness of
`Poll` in `templates`: the list page polls a test that it shows as deploying, on a
timer, while the author's other operations come and go.

## 4. Where the code and its documents disagree

Each is a run that TLC refutes, on one property that quotes the repository.

| run | the code | says |
|---|---|---|
| `tenant_order` | without an Authorization header the stack id is never known, so nothing waits for the gateway | "MCP gateway must be gone before" |
| `charged_twice` | a first message gets a new conversationId on every delivery, so the ledger's key is new as well | "Idempotent ledger write prevents double-charging on retries" |
| `template_unproven` | a sync writes `active` over the mark that the test is stale, and a recipe that was never deployed is published | "Proven because in_testing deployed this exact body successfully" |

Also seen while modelling. They are in the models, mostly as the excuses that the
properties name, and have no run of their own.

Use cases:

- A failed PutItem of a config is logged and swallowed, and the stack is created
  with a key that names nothing ("Persist config ... before CFN",
  `use-case-command.ts:137`): the excuse of `ConfigBeforeCfn` and `LiveConfigKept`.
- An unconditional UpdateItem (`storage-operation-builder.ts:120`) that overlaps a
  permanent deletion brings the record back, without its StackId, although a
  permanent deletion means "removal of the use case from the use cases table"
  (`use-case-command.ts:201`): the excuse of `SequentiallyConsistent`.
- A plain delete sets a TTL on record and config, so "the data in the DB ... is
  still retained" (`use-case-command.ts:158`) for 89 days.
- An update that stops between its config and its record leaves the live record on
  a config that expires; an update that CloudFormation rolls back runs on one; a
  refused creation leaves its config behind without a TTL.
- A permanent deletion that is told of a `ResourceNotFoundException` when it marks
  the config goes on ("Config record does not exist", `use-case-command.ts:267`).
  DynamoDB raises it for a table that does not exist, which is no state of a
  deployment, and `MarkConfig` leaves it out; for a missing item the UpdateItem
  makes one with nothing but a TTL, which `MarkKey` does.
- The list reads one scan page of 500 items, and one record whose stack is
  forgotten fails the whole page (`use-case-command.ts:330`).

Files:

- The event of an earlier upload marks whichever record is pending under the name,
  and a get signs a URL for an object that is not there
  (`eventbridge-processor.ts:176`). That takes an upload granted while the event is
  handled, or, since events are delivered at least once, a duplicate of one handled
  long ago: `Redeliver` without its excuse breaks `UploadedIsStored`,
  `UploadedIsGenuine` and `FollowsLife`.
- A pending record's `TTL` attribute is not the table's `ttl`, so an upload that is
  never posted stays pending for good ("10 minutes for automatic cleanup").
- A file's delete marks whichever record has the name by then, and the conflict it
  is ready for (`ddb-metadata-service.ts:236`) cannot occur without a condition.
- Whether multimodal input is enabled is cached for five minutes per container.

Deprovisioning:

- A refused deletion of the gateway counts as done and the agent's goes ahead
  (`run-tenant-deprovision.ts:88`; "until GAAB confirms teardown"): the excuse of
  `CompleteIsDeleting`. A deletion whose invocation died answers without a status code and counts as
  done too (`invoke-delete-use-case.ts:37`).
- `wait-for-stack-deletion.ts` asks DescribeStacks for what follows the last `/` of
  the stack's ARN, its uuid, is told that there is no such stack, and ends: with
  `GetAnswers` TRUE, `GatewayGoneFirst` fails just the same.
- A Lambda call that throws ends the deprovision unreported once the retries are
  used up; one retried after its agent was deleted reports `deprovision_failed`.
- A policy detach whose event does not name the use case, or whose config is not
  found, reports `policy_detach_complete` with the record of the deleted engine
  still in the config (`index.ts:78`, `clear-workspace-agentcore-policy.ts:34`): the
  condition on `DetachedIsGone`'s last clause. The next apply finds that the engine
  is gone and makes a new one.
- A policy detach that has read the agent's config writes back the MCP servers that
  a deletion has detached meanwhile: `DetachedBeforeDelete` fails with two events.

Tools:

- Clearing Figma's settings of a workspace removes them from the config and then
  overlays the live environment, which has them still, with what is left
  (`sync-figma-runtime-env.ts:282`): they stay in the runtime. GitHub's uninstall
  removes its keys by name.
- A GitHub install that names no owner or repository is recognised by its OpenAPI
  spec, gets its target, has its environment sync skipped with a warning
  (`sync-github-runtime-env.ts:358`) and answers that it succeeded
  (`bareGithubInstall`): `SyncedIsLive` promises only the target.
- A lookup of the GitHub secret that fails falls back to the ARN in the config, and
  the sync counts as done. Figma's syncs do not retry on a runtime being updated.
  Waiting for a runtime takes as long as the Lambda function has (30 times 10 s), so
  "runtime not found" is never answered. `ListGateways` reads one page.

Provisioning:

- The code knows an agent by its row alone. A deployment that made the stack and
  failed before the row, or that was still at work when its caller died, leaves an
  agent that runs and that no scan finds: every request that scans while it does
  deploys another beside it (`index.ts:470-497`). `NoTwins` counts that agent as
  live and excuses those requests (`Hidden`); without the excuse TLC finds the twin.
- A request that deploys anew because the row it found is of a dead stack then
  resolves the new one by name, and may get the dead one's row again: it waits,
  fails, and every retry deploys another twin (`index.ts:498`).
- Orchestrators are deployed on every request and resolved by display name, so a
  second one of the same name follows the first one's workflow. Its poll knows no
  deleted or rolled-back stack and goes on until the deadline.
- An agent whose update was rolled back counts as failed, and the next request
  deploys a twin. A retry after a gateway failed resumes an agent that is not wired
  to the new one, and answers with its name.
- `stack_complete` is emitted when a deploy was accepted.

Chat:

- What the handler returns (`batchItemFailures`) is not read by the mapping, so
  records given up for want of time, or after an error of the same connection, are
  dropped without an answer and the page waits for its timer (`aside`).
- A post of an error message that fails throws the whole batch back, answered
  records included. Two new sessions at the limit are both counted, then both refused.
- The count is read without `ConsistentRead` (`session_billing_metering.py:161`). A
  read that misses the last writes, or a call to the billing table that fails, lets a
  session through that is over the quota, and nothing looks again. Every session that
  goes to the agent is in `served`; `QuotaHolds` leaves out the `unchecked` ones, which
  no true count let pass, and only those: each is one over.
- A late frame of an earlier turn is shown in the current one, and brings back the
  conversationId of a chat that was reset. The keep-alive of a record may not start
  while the thread of the one before it exits (`keep_alive_manager.py:66`).

Templates:

- Every write is unconditional: a sync that finds its stack gone, or a cancel, that
  loaded the template before it was published puts it back to draft; a late
  validation validates a newer test.
- The deletion of the test deployment after a publish runs in a promise that nobody
  awaits; if it fails or is not thawed the stack stays, and no operation of a
  published template looks for it. A deletion that fails during a cancel leaves a
  record that the next start takes up with its old recipe; or, when the slug was
  changed in between, does not find, and deploys another: the old one runs on under a
  name that nothing looks for. A stack whose record could not be put is never found
  either, and the next start deploys beside it.
- An agent Lambda that goes on after its caller died puts a record under the name
  that a start in between has found free: there are two, and scans find either.
- A start that dies after its mark leaves "Waiting for test deployment record"
  until somebody cancels. Two starts that overlap deploy twins, of which a teardown
  may take the one that is watched.
- A lost `TemplatePublished` is not sent again; a decommission that overtakes it
  leaves an archived template in the catalog. The slug is checked, then taken.

## 5. Proofs

Every safety invariant and action property of a passing run is proved in eight
modules, and with them four refinements (UseCaseLife, FileLife, ProvisionPromise,
TemplateLife), for every value of the constants that satisfies the named
assumptions of the modules (sets are not empty, bounds are numbers, failures are
among those listed). Each proof has one step per action,
and the inductive invariants were checked with TLC before they were proved.

| module | theorems | properties of the runs that they prove |
|---|---|---|
| `UseCaseManagementProofs` | `TypeCorrect`, `NoStackLost`, `LiveConfigIsKept`, `ConfigIsBeforeCfn`, `SequentialIsConsistent`, `LifeIsFollowed` | all but `Reclaimed` |
| `MultimodalFilesProofs` | `TypeCorrect`, `RecordsMatchObjects`, `DeletedObjectsAreGone`, `UploadedObjectsAreGenuine`, `LifeIsFollowed` | all but `PostedIsProcessed` |
| `TenantDeprovisionProofs` | `TenantTypeCorrect`, `GatewayIsFirst`, `CompleteDeletes`, `OffboardingKeepsPromises`, `OffboardingFollowsLife`, `DetachedIsBeforeDelete` | the run `tenant_faults`, `DetachedBeforeDelete` of `tenant_fair`, and the safety of `use_case_faults` in the composition |
| `WorkspacePolicyProofs` | `TypeCorrect`, `AppliedAloneIsEnforced`, `DetachedAloneIsGone`, `EndsAreReported`, `GatewayIsNeverBare` | all |
| `ToolIntegrationProofs` | `TypeCorrect`, `ToolInvariant`, `SyncsAreLive`, `OthersAreKeptHolds` | all |
| `ProvisionProofs` | `TypeCorrect`, `NoTwinsHolds`, `ToolsAreThereHolds`, `KeepsPromiseHolds` | all but `RetrySucceeds` |
| `ChatTurnsProofs` | `ChatTypeCorrect`, `NamedIsChargedOnce`, `QuotaIsKept`, `SettledIsAnswered`, `AnsweredIsInOrder` | all but `TurnsSettle` |
| `TemplatesProofs` | `TemplatesTypeCorrect`, `TestStackIsOne`, `PublishedIsUp`, `LifeIsFollowed` | all but `TestSettles` |

The inductive invariants, and why they are needed:

- **NoStackLost**: `NoLostStack` is inductive once it also says where the requests
  are. A stack is only brought up by `CreateStack`, which leaves its request at
  `putRecord`; the StackId is only lost with the record, by a permanent deletion
  that has passed `deleteStack`, or by a TTL that only a plain delete has set,
  after its `deleteStack`.
- **LiveConfigIsKept**, **ConfigIsBeforeCfn**: each request past `putConfig` has its
  config stored or in `unsaved`, and each config with a TTL was marked by a request
  that has not completed, or is not the one the live record names.
- **SeqInv** (`SequentialIsConsistent`): `WriterInv` says who writes, of every use
  case: an undisturbed one has at most one writer at a time, a failure after the
  first write disturbs it, a config is not there before its own put. `QuietInv`
  says what that one writer of an undisturbed use case leaves at each of its
  steps: the key it has read is the record's still (`SeenIsCurrent`), CloudFormation
  has the key of the record or the writer's new one (`StackHasKey`), a key that was
  superseded expires (`SupersededExpires`), the record is there as long as the
  stack is (`RecordFitsStack`), a config that will not expire is the live record's
  or in the writer's hand (`ConfigIsOwed`), and after a permanent deletion no
  writer finds a record (`RemovedStaysGone`). At rest that is `Consistent`.
- **LifeInv** (`LifeIsFollowed`): SeqInv, and that whoever has a record, or has
  read one, was created (`CreatedFirst`), and that no deletion gets between the two
  calls of an update (`UpdatedIsUp`). With it each step is one of the abstract
  life or a stutter: most change nothing of it (`QuietStepMaps`), those of
  CloudFormation and of the deploying calls only the stack (`StackStepMaps`), the
  last call of each command is its abstract counterpart (`CreateRecordMaps`,
  `UpdateRecordMaps`, `MarkRecordMaps`, `DeleteRecordMaps`), and a start that
  overlaps or a late failure is `Disturb`.
- **RecordsMatchObjects**: what an upload in flight and a delete half way know: a
  pending record is the handler's own upload unless the file was regranted, a
  handler past validation has passed only genuine objects, a delete has read the
  fileUuid that the record still has unless the file was regranted, and leaves no
  presigned post; an event that comes again finds the object gone or the record
  marked.
- **LifeInv** of the files (`LifeIsFollowed`): the above, and that a pending record
  has no ttl (`PendingStays`). Each kind of step then maps to its abstract
  counterpart or a stutter: `UploadMaps` (granted, refused or disturbed),
  `RedeliveryMaps`, `DeleteStartMaps`, `VerdictMaps`, `DeleteObjectMaps`, `DeleteMaps`, `ExpireMaps`,
  `ContentStepMaps` and, for those that change nothing of it, `QuietStepMaps`.
- **TenantInv**: about the stores, that only permanent deletions run, and that one
  past its `deleteStack` has a stack that is being deleted (`DeletionInv`);
  `StoresAdvance` shows that what has been dealt with stays so. About the handlers,
  that the deletion a handler awaits is one of its target (`CallFits`) and that what
  it has behind it has been dealt with (`BehindIsDealt`). `AnswerIsDealt` joins the
  two. The types of the stores come from `UseCaseManagementProofs`, all but one
  of the handler's steps being a step or a stutter there.
- **ComposedInv** (`OffboardingKeepsPromises`, `OffboardingFollowsLife`): the commands
  keep in the composition what they promise on their own. All steps of a handler
  are steps of UseCaseManagement or stutters there, but for `ClearWrite`, which puts
  a config that it has read: the proof needs that the config is still there
  (`WrittenIsThere`) and that the agent's record never names another one
  (`AgentKeyKept`).
- **OnceInv** (`DetachedIsBeforeDelete`): once a deletion has been invoked no handler
  is about to write the config (`PastClearing`), so what a deletion has detached
  stays detached. It has a hypothesis, `OnceHandled`: one event, one attempt, and
  the two detaching calls do not fail, as in the run `tenant_fair`. Without it the
  property is false of the code: a second event, or a retry, that has read the
  config before the deletion detached it writes the servers back (section 4).
- **AloneInv** (policy): how far an apply or a teardown that meets no other handler
  has got (`ApplyProgress`, `TeardownProgress`): the policies it has written are
  those it was asked for, the engine it works on is the live one. That the starting state
  is arbitrary makes these hold from any leftover.
- **BareInv** (policy, `GatewayIsNeverBare`): whatever interleaves, an engine that
  lacks the governance policy has a handler to answer for that: one that has
  still to write it, one that is taking the engine down, or one that failed
  (`BareIsOwed`). At rest, with none that failed, it lacks nothing.
- **ToolInv**: what a handler that met no other one has in its hand is what config
  or environment say, and what it has behind it of each workspace (target, server
  entry, keys, environment) is there, or is among the failed ones. That nobody
  else is at its workspaces (`Isolated`) is what makes the others' steps leave all
  that alone. `OthersAreKeptHolds` needs the part about the hand only: what is
  written back differs from what is there in the handler's own part.
- **Inv** (Provision): a request about to deploy, unless it is excused, has found no
  row and no agent that runs without one, or is about to, and there is none still
  (`Alone`, with `NobodyStays` for what stacks and the API do on their own); a gateway to be merged has its URL and is
  past its creation (`Gatewayed`). `KeepsPromiseHolds` is the refinement: the
  initial state maps to the promise's, and each step to one of its steps or a
  stutter; what it rests on is that a handler at `sync` or beyond names an agent
  (`Held`) and that `AwaitMain` and `Reprobe` enter `sync` with a complete stack only.
- **ChatInv**: nobody has a message in hand that another one has (`HandsInv`); an
  invocation between its put and its increment is the only one to count the row
  (`CountingInv`); the count is at least the number of rows counted, and a session
  that passed on a true count has read such a one (`QuotaInv`, `Checked`); what an invocation has behind it
  is answered or given up, and what is pending and earlier than a message in a batch is before it in
  that batch (`BehindInv`).
- **TemplatesInv**: a test deployment that a template, or an invocation, names was
  made for that template and never changes hands (`RefInv`); whatever counts as
  active, in the table or at hand, is of a template of which a deployment was up
  (`UpInv`); under a name of a template that is not `doubled`, at most one invocation
  is between its look and its deployment, and then there is none, and there is at most
  one that has a record or that an agent Lambda may give one (`Present`, `MakingInv`).
- **RaceInv** (`LifeIsFollowed` of the templates): of a template that is not raced,
  at most one invocation is at work on it, and what that one loaded or wrote fits
  its next step (`Fits`): it is a draft, in testing, publishable, published, off the
  list. The others cannot disturb that, as they write other templates (`Turns`,
  `TurnsKeepInv`). So the checks that were made when the template was loaded hold
  when it is written; each call then maps to one step of TemplateLife or a stutter
  (`SaveMaps` to `ArchiveMaps`, `UnseenMaps`), a request to a stutter or to the step
  in which the template becomes raced (`LoadMaps`).

Model-checked only: the liveness properties (`Reclaimed`, `PostedIsProcessed`,
`DeprovisionReported`, `TenantReclaimed`, `RetrySucceeds`, `TurnsSettle`,
`TestSettles`), as the provers have no reasoning about fairness and ENABLED here,
and the counterexamples of section 4. The types of
TenantDeprovision, MultimodalFiles and Templates are proved and in no run.

## 6. Not modelled

Listed with reasons in `PROJECT.json` under `components`. In short: most of the
user interfaces, CDK, agent containers and the chat chain are not state shared
between invocations, or they are third-party calls; the readers hold no state.
Left out inside modelled parts: publish's checks of marketing and of a free slug
beyond that they may refuse; orchestrator templates in TLC's instance (the proofs cover
them); the keep-alive threads, usage metering and observability events of the chat
handler; the contents of messages, sources and files in the page; a page that
reconnects; the sweep over all workflow runtimes. Fan-outs of the tool installer
over two workspaces are not in TLC's instance; the proofs cover them.

## 7. Plan

Done: UseCaseManagement, MultimodalFiles and Templates with their life cycles,
TenantDeprovision, WorkspacePolicy, ToolIntegration, Provision with its promise and
ChatTurns, and the proof of every safety property that the runs check.

1. Composition of Provision with TenantDeprovision for a workspace that is removed
   while it is provisioned, and of Templates with UseCaseManagement, whose
   permanent deletion it now abstracts in `Delete`.
2. UseCaseListing: paging and search as operators, against a reference definition.
3. The keep-alive thread and the ui-chat reducer over stream frames.
