----------------------------- MODULE Templates -----------------------------
(***************************************************************************)
(* The catalog templates of source/lambda/templates-api: a template is a   *)
(* draft, is tried out as a test deployment of its own, is published to    *)
(* AIW and decommissioned.                                                 *)
(*                                                                         *)
(* A worker w is an invocation of the handler: it loads the template,      *)
(* checks that the operation is allowed, and goes on with what it loaded.  *)
(* One action is one call to DynamoDB, the agent Lambda, CloudFormation or *)
(* EventBridge with the code up to the next; every write is unconditional. *)
(* API Gateway gives up on an invocation after 29 s, which goes on all the *)
(* same: so the operations of one author overlap as well.                  *)
(*                                                                         *)
(* The table of use cases is scanned for the test deployments of a         *)
(* template by their name, which is made of its id and of its slug as the  *)
(* invocation loaded it.  The slug may be edited at any time before the    *)
(* template is published; a template in testing keeps the name that its    *)
(* test was started with.  A name stands here for the slug in it.          *)
(***************************************************************************)
EXTENDS Naturals, FiniteSets

CONSTANTS Specialists,    \* templates that are tested before they are published
          Orchestrators,  \* templates that are published from draft
          Slugs,          \* what an author may call a template
          Renames,        \* ... at first, and from each: the bound on its edits
          Bodies,         \* what devops may hold, its deployRequestBody included
          Workers,        \* invocations at a time
          Asks,           \* what the author behind each of them asks for
          Poller,         \* the one that the list page polls with
          MaxStacks,      \* test deployments
          MaxMishaps      \* calls that fail, invocations that die

Templates == Specialists \cup Orchestrators
Stacks == 1..MaxStacks
NoStack == 0
NoName == ""
Names == Slugs \cup {NoName}

Operations == {"update", "start", "cancel", "restart", "validate", "refresh", "publish",
               "unpublish"}

ASSUME TemplatesAssumption ==
    /\ Specialists \cap Orchestrators = {} /\ Templates # {} /\ Bodies # {}
    /\ Renames \in [Names -> SUBSET Slugs] /\ NoName \notin Slugs
    /\ Poller \in Workers
    /\ Asks \in [Workers -> SUBSET Operations] /\ MaxStacks \in Nat /\ MaxMishaps \in Nat

VARIABLES
    \* The table of templates.
    status,     \* Status
    slug,       \* Slug
    devops,     \* Devops
    testId,     \* TestingUseCaseId
    testName,   \* TestingUseCaseName
    deploy,     \* TestingDeployStatus
    validated,  \* templates with a TestingValidatedAt
    \* The test deployments: use case s and its stack.
    owner,      \* the template it was deployed for
    name,       \* and the slug it had when the invocation loaded it
    body,       \* with which deployRequestBody
    cfn,        \* the status of its stack
    rows,       \* those that the table of use cases has
    \* AIW.
    catalog,    \* the templates that it lists
    \* The invocations.
    pc,         \* the next call
    at,         \* the template
    curId,      \* its TestingUseCaseId as loaded or found
    curBody,    \* its devops as loaded
    curName,    \* the name that it scans for, and deploys under
    seen,       \* what DescribeStacks answered
    \* History.
    completed,  \* stacks that were up once
    doubled,    \* templates that two set out to deploy at a time, see Lookup
    mishaps

templateVars == <<status, slug, devops, testId, testName, deploy, validated>>
stackVars == <<owner, name, body, cfn, rows, completed>>
workerVars == <<pc, at, curId, curBody, curName, seen>>
vars == <<templateVars, stackVars, catalog, workerVars, doubled, mishaps>>

Statuses == {"absent", "draft", "in_testing", "published", "archived"}
DeployStatuses == {"none", "deploying", "active", "failed", "stale"}

\* Stack statuses as far as a sync tells them apart; "failed" is CREATE_FAILED,
\* DELETE_FAILED and the ROLLBACK ones, "gone" a stack that does not exist,
\* "asked" one that the agent Lambda is yet to make.
StackStatuses == {"none", "asked", "creating", "complete", "failed", "deleting", "gone"}
Broken == {"failed", "deleting"}

Steps == {"idle", "save", "saveStale", "lookup", "adopt", "mark", "deploy", "resolve", "note",
          "recover", "retain", "giveUp", "find", "noteFound", "wait", "describe", "probe", "drop",
          "record", "cancel", "restart", "tearDown", "replace", "reload", "validate", "orphan",
          "slug", "publish", "emit", "frozen", "unlist", "archive"}

TypeOK ==
    /\ status \in [Templates -> Statuses] /\ devops \in [Templates -> Bodies]
    /\ slug \in [Templates -> Names] /\ testName \in [Templates -> Names]
    /\ testId \in [Templates -> Stacks \cup {NoStack}]
    /\ deploy \in [Templates -> DeployStatuses] /\ validated \subseteq Templates
    /\ owner \in [Stacks -> Templates] /\ name \in [Stacks -> Names]
    /\ body \in [Stacks -> Bodies]
    /\ cfn \in [Stacks -> StackStatuses] /\ rows \subseteq Stacks
    /\ catalog \subseteq Templates
    /\ pc \in [Workers -> Steps] /\ at \in [Workers -> Templates]
    /\ curId \in [Workers -> Stacks \cup {NoStack}] /\ curBody \in [Workers -> Bodies]
    /\ curName \in [Workers -> Names]
    /\ seen \in [Workers -> StackStatuses \cup DeployStatuses \cup {"unknown"}]
    /\ completed \subseteq Stacks
    /\ doubled \subseteq Templates /\ mishaps \in 0..MaxMishaps

AnyTemplate == CHOOSE t \in Templates : TRUE
AnyBody == CHOOSE b \in Bodies : TRUE

Init ==
    /\ status = [t \in Templates |-> "absent"] /\ devops = [t \in Templates |-> AnyBody]
    /\ slug = [t \in Templates |-> NoName] /\ testName = [t \in Templates |-> NoName]
    /\ testId = [t \in Templates |-> NoStack] /\ deploy = [t \in Templates |-> "none"]
    /\ validated = {}
    /\ owner = [s \in Stacks |-> AnyTemplate] /\ name = [s \in Stacks |-> NoName]
    /\ body = [s \in Stacks |-> AnyBody]
    /\ cfn = [s \in Stacks |-> "none"] /\ rows = {} /\ completed = {}
    /\ catalog = {}
    /\ pc = [w \in Workers |-> "idle"] /\ at = [w \in Workers |-> AnyTemplate]
    /\ curId = [w \in Workers |-> NoStack] /\ curBody = [w \in Workers |-> AnyBody]
    /\ curName = [w \in Workers |-> NoName] /\ seen = [w \in Workers |-> "unknown"]
    /\ doubled = {} /\ mishaps = 0
-----------------------------------------------------------------------------
(* What the operations share. *)

Goto(w, step) == pc' = [pc EXCEPT ![w] = step]

\* w goes on with test deployment s.
Follow(w, s, step) ==
    /\ curId' = [curId EXCEPT ![w] = s] /\ Goto(w, step)
    /\ UNCHANGED <<at, curBody, curName, seen>>

Onward(w, step) == Goto(w, step) /\ UNCHANGED <<at, curId, curBody, curName, seen>>

\* The invocation answers, or dies.
Return(w) ==
    /\ Goto(w, "idle")
    /\ at' = [at EXCEPT ![w] = AnyTemplate] /\ curId' = [curId EXCEPT ![w] = NoStack]
    /\ curBody' = [curBody EXCEPT ![w] = AnyBody] /\ curName' = [curName EXCEPT ![w] = NoName]
    /\ seen' = [seen EXCEPT ![w] = "unknown"]

\* One more call fails.
Fail == mishaps < MaxMishaps /\ mishaps' = mishaps + 1

\* The records that a scan for the test name of t with slug n may find first.
Named(t, n) == {s \in rows : owner[s] = t /\ name[s] = n}

\* w scans for a test deployment under the name it has.
Scan(w, hit, miss) ==
    /\ \/ \E s \in Named(at[w], curName[w]) : Follow(w, s, hit)
       \/ Named(at[w], curName[w]) = {} /\ IF miss = "idle" THEN Return(w) ELSE Onward(w, miss)
    /\ UNCHANGED <<templateVars, stackVars, catalog, mishaps>>

\* persistTestingState: what every reset to draft writes.
PersistDraft(t) ==
    /\ status' = [status EXCEPT ![t] = "draft"] /\ testId' = [testId EXCEPT ![t] = NoStack]
    /\ testName' = [testName EXCEPT ![t] = NoName]
    /\ deploy' = [deploy EXCEPT ![t] = "none"] /\ validated' = validated \ {t}
    /\ UNCHANGED <<slug, devops>>

\* ... and every entry into testing; s may be the id that was there.
PersistTesting(t, s, n) ==
    /\ status' = [status EXCEPT ![t] = "in_testing"] /\ testId' = [testId EXCEPT ![t] = s]
    /\ testName' = [testName EXCEPT ![t] = n]
    /\ deploy' = [deploy EXCEPT ![t] = "deploying"] /\ validated' = validated \ {t}
    /\ UNCHANGED <<slug, devops>>

PersistDeploy(t, ds) ==
    /\ deploy' = [deploy EXCEPT ![t] = ds]
    /\ UNCHANGED <<status, slug, devops, testId, testName, validated>>

\* w writes the template, and nothing else changes.
Writes(w) == UNCHANGED <<stackVars, catalog, doubled, mishaps>>

\* A permanent deletion of test deployment s: it takes a record that is there,
\* and asks CloudFormation before it removes the record.
Delete(s) ==
    \/ s \in rows /\ cfn' = [cfn EXCEPT ![s] = IF @ = "gone" THEN @ ELSE "deleting"]
       /\ rows' = rows \ {s} /\ UNCHANGED mishaps
    \/ s \notin rows /\ UNCHANGED <<cfn, rows, mishaps>>
    \* Refused, or not reached.
    \/ s \in rows /\ Fail /\ UNCHANGED <<cfn, rows>>
    \* The record stays.
    \/ s \in rows /\ Fail /\ cfn' = [cfn EXCEPT ![s] = IF @ = "gone" THEN @ ELSE "deleting"]
       /\ UNCHANGED rows

\* An invocation loads t, which allows it to start with a step, and keeps what
\* it will use: the test deployment s, the devops b, the name n.
LoadFor(w, t, step, s, b, n) ==
    /\ pc[w] = "idle"
    /\ at' = [at EXCEPT ![w] = t] /\ curId' = [curId EXCEPT ![w] = s]
    /\ curBody' = [curBody EXCEPT ![w] = b] /\ curName' = [curName EXCEPT ![w] = n]
    /\ Goto(w, step)
    /\ UNCHANGED <<templateVars, stackVars, catalog, seen, doubled, mishaps>>
Load(w, t, step) == LoadFor(w, t, step, NoStack, AnyBody, NoName)
LoadId(w, t, step) == LoadFor(w, t, step, testId[t], AnyBody, NoName)

\* A sync describes the test deployment that the template names, or finds it.
SyncStep(s) == IF s = NoStack THEN "find" ELSE "describe"
LoadTest(w, t) == LoadFor(w, t, SyncStep(testId[t]), testId[t], AnyBody, testName[t])

\* A start may take one more stack: the bound on test deployments.
Deploying == {"lookup", "mark", "deploy", "cancel", "restart", "tearDown", "replace", "reload"}
StackLeft == Cardinality({s \in Stacks : cfn[s] = "none"})
                > Cardinality({w \in Workers : pc[w] \in Deploying})
-----------------------------------------------------------------------------
(* createTemplate, updateTemplate *)

CreateTemplate(t) ==
    /\ status[t] = "absent"
    /\ status' = [status EXCEPT ![t] = "draft"]
    /\ \E b \in Bodies : devops' = [devops EXCEPT ![t] = b]
    /\ \E n \in Renames[slug[t]] : slug' = [slug EXCEPT ![t] = n]
    /\ UNCHANGED <<testId, testName, deploy, validated, stackVars, catalog, workerVars, doubled,
                   mishaps>>

UpdateTemplate(w, t) ==
    \/ status[t] = "draft" /\ Load(w, t, "save")
    \/ status[t] = "in_testing" /\ Load(w, t, "saveStale")

\* What the author has changed: the slug, which says nothing of the test, or
\* devops, and with a template that was in testing, that its test is stale.
Save(w) ==
    /\ pc[w] \in {"save", "saveStale"}
    /\ \E n \in Renames[slug[at[w]]] : slug' = [slug EXCEPT ![at[w]] = n]
    /\ \/ UNCHANGED <<devops, deploy, validated>>
       \/ /\ \E b \in Bodies : devops' = [devops EXCEPT ![at[w]] = b]
          /\ IF pc[w] = "saveStale"
               THEN /\ deploy' = [deploy EXCEPT ![at[w]] = "stale"]
                    /\ validated' = validated \ {at[w]}
               ELSE UNCHANGED <<deploy, validated>>
    /\ Return(w) /\ UNCHANGED <<status, testId, testName>> /\ Writes(w)
-----------------------------------------------------------------------------
(* syncTestingDeployStatus *)

Find(w) == pc[w] = "find" /\ Scan(w, "noteFound", "wait") /\ UNCHANGED doubled

NoteFound(w) ==
    /\ pc[w] = "noteFound"
    /\ testId' = [testId EXCEPT ![at[w]] = curId[w]]
    /\ UNCHANGED <<status, slug, devops, testName, deploy, validated>>
    /\ Onward(w, "describe") /\ Writes(w)

\* "Waiting for test deployment record..."
Wait(w) ==
    /\ pc[w] = "wait"
    /\ PersistDeploy(at[w], "deploying") /\ Return(w) /\ Writes(w)

\* The status of the stack that the record tells of or, without a record, of the
\* one that would have the name at hand; or none, when DescribeStacks fails.
Answers(w, a) ==
    \/ LET s == curId[w] IN
         /\ a = IF s \in rows \/ name[s] = curName[w] THEN cfn[s] ELSE "gone"
         /\ UNCHANGED mishaps
    \/ a = "unknown" /\ Fail

\* Mutant: what has not failed is active.
VerdictHopeful(first, second) ==
    IF first \in Broken \/ second = "failed" THEN {"failed"} ELSE {"active"}

\* What a sync makes of the status it described and of a second look at it, to
\* which a rollback in progress is in progress.
Verdict(first, second) ==
    CASE first \in Broken -> {"failed"}
      [] "complete" \in {first, second} -> {"active"}
      [] first # "creating" /\ second = "failed" -> {"failed", "deploying"}
      [] OTHER -> {"deploying"}

\* Mutant: a stack that is gone is one that is not there yet.
DescribePatient(w) ==
    /\ pc[w] = "describe"
    /\ \E a \in StackStatuses \cup {"unknown"} :
         Answers(w, a) /\ seen' = [seen EXCEPT ![w] = a] /\ Goto(w, "probe")
    /\ UNCHANGED <<templateVars, stackVars, catalog, at, curId, curBody, curName, doubled>>

Describe(w) ==
    /\ pc[w] = "describe"
    /\ \E a \in StackStatuses \cup {"unknown"} :
         /\ Answers(w, a) /\ seen' = [seen EXCEPT ![w] = a]
         /\ Goto(w, IF a = "gone" THEN "drop" ELSE "probe")
    /\ UNCHANGED <<templateVars, stackVars, catalog, at, curId, curBody, curName, doubled>>

Probe(w) ==
    /\ pc[w] = "probe"
    /\ \E a \in StackStatuses \cup {"unknown"} :
         /\ Answers(w, a)
         /\ \E ds \in Verdict(seen[w], a) : seen' = [seen EXCEPT ![w] = ds]
    /\ curId' = [curId EXCEPT ![w] = NoStack] /\ curName' = [curName EXCEPT ![w] = NoName]
    /\ Goto(w, "record")
    /\ UNCHANGED <<templateVars, stackVars, catalog, at, curBody, doubled>>

Record(w) ==
    /\ pc[w] = "record"
    /\ PersistDeploy(at[w], seen[w]) /\ Return(w) /\ Writes(w)

\* The stack does not exist: back to draft.
Drop(w) ==
    /\ pc[w] = "drop"
    /\ PersistDraft(at[w]) /\ Return(w) /\ Writes(w)
-----------------------------------------------------------------------------
(* startTesting *)

StartTesting(w, t) ==
    \/ status[t] = "draft" /\ StackLeft
       /\ LoadFor(w, t, "lookup", NoStack, devops[t], slug[t])
    \/ status[t] = "in_testing" /\ deploy[t] \notin {"active", "failed"} /\ LoadTest(w, t)

\* Mutant: a draft has no test deployment, so none is looked for.
LookupSkipped(w) ==
    /\ pc[w] = "lookup" /\ Onward(w, "mark")
    /\ UNCHANGED <<templateVars, stackVars, catalog, doubled, mishaps>>

\* A test deployment of t under n is on its way, by an invocation or by the agent
\* Lambda alone, and has no record yet.
Underway(t, n) ==
    \/ \E v \in Workers : at[v] = t /\ curName[v] = n /\ pc[v] \in {"mark", "deploy"}
    \/ \E s \in Stacks : owner[s] = t /\ name[s] = n /\ cfn[s] = "asked"

\* Who finds none while one is on its way will make another.
Lookup(w) ==
    /\ pc[w] = "lookup"
    /\ Scan(w, "adopt", "mark")
    /\ doubled' = IF Named(at[w], curName[w]) = {} /\ Underway(at[w], curName[w])
                    THEN doubled \cup {at[w]} ELSE doubled

\* The test deployment of an earlier test is taken up as it is.
Adopt(w) ==
    /\ pc[w] = "adopt"
    /\ PersistTesting(at[w], curId[w], curName[w]) /\ Onward(w, "describe") /\ Writes(w)

\* In testing before the deployment, which may take longer than the caller waits.
Mark(w) ==
    /\ pc[w] = "mark"
    /\ PersistTesting(at[w], testId[at[w]], curName[w]) /\ Onward(w, "deploy") /\ Writes(w)

\* POST /deployments/agents creates the stack, then the record.
DeployTestStack(w) ==
    /\ pc[w] = "deploy"
    /\ \/ Fail /\ UNCHANGED stackVars /\ Onward(w, "recover")
       \/ \E s \in Stacks :
            /\ cfn[s] = "none" /\ \A r \in Stacks : r < s => cfn[r] # "none"
            /\ owner' = [owner EXCEPT ![s] = at[w]] /\ name' = [name EXCEPT ![s] = curName[w]]
            /\ body' = [body EXCEPT ![s] = curBody[w]] /\ UNCHANGED completed
            /\ \/ cfn' = [cfn EXCEPT ![s] = "creating"] /\ rows' = rows \cup {s}
                  /\ UNCHANGED mishaps /\ Onward(w, "resolve")
               \* The reply is lost, or the record could not be put.
               \/ cfn' = [cfn EXCEPT ![s] = "creating"] /\ rows' \in {rows, rows \cup {s}}
                  /\ Fail /\ Onward(w, "recover")
               \* The invocation dies, or loses the agent Lambda, which goes on.
               \/ cfn' = [cfn EXCEPT ![s] = "asked"] /\ UNCHANGED rows
                  /\ Fail /\ (Return(w) \/ Onward(w, "recover"))
    /\ UNCHANGED <<templateVars, catalog, doubled>>

\* It makes the stack, and the record or not, or it fails.
AgentGoesOn(s) ==
    /\ cfn[s] = "asked"
    /\ \/ cfn' = [cfn EXCEPT ![s] = "creating"] /\ rows' \in {rows, rows \cup {s}}
       \/ cfn' = [cfn EXCEPT ![s] = "gone"] /\ UNCHANGED rows
    /\ UNCHANGED <<templateVars, owner, name, body, completed, catalog, workerVars, doubled,
                   mishaps>>

\* resolveUseCaseIdAfterDeploy: a minute of scans.
Resolve(w) == pc[w] = "resolve" /\ Scan(w, "note", "recover") /\ UNCHANGED doubled

Note(w) ==
    /\ pc[w] = "note"
    /\ testId' = [testId EXCEPT ![at[w]] = curId[w]]
    /\ deploy' = [deploy EXCEPT ![at[w]] = "deploying"]
    /\ UNCHANGED <<status, slug, devops, testName, validated>> /\ Return(w) /\ Writes(w)

Recover(w) == pc[w] = "recover" /\ Scan(w, "retain", "giveUp") /\ UNCHANGED doubled

Retain(w) ==
    /\ pc[w] = "retain"
    /\ PersistTesting(at[w], curId[w], curName[w]) /\ Return(w) /\ Writes(w)

GiveUp(w) ==
    /\ pc[w] = "giveUp"
    /\ PersistDraft(at[w]) /\ Return(w) /\ Writes(w)
-----------------------------------------------------------------------------
(* cancelTesting, restartTesting *)

CancelTesting(w, t) == status[t] = "in_testing" /\ LoadId(w, t, "cancel")
RestartTesting(w, t) == status[t] = "in_testing" /\ StackLeft /\ LoadId(w, t, "restart")

Reset(w) ==
    /\ pc[w] \in {"cancel", "restart"}
    /\ PersistDraft(at[w])
    /\ Onward(w, IF pc[w] = "cancel" THEN "tearDown" ELSE "replace") /\ Writes(w)

\* teardownTestingStack is best effort.
TearDown(w) ==
    /\ pc[w] \in {"tearDown", "replace"}
    /\ IF curId[w] = NoStack THEN UNCHANGED <<cfn, rows, mishaps>> ELSE Delete(curId[w])
    /\ IF pc[w] = "tearDown" THEN Return(w) ELSE Onward(w, "reload")
    /\ UNCHANGED <<templateVars, owner, name, body, completed, catalog, doubled>>

\* restartTesting calls startTesting, which loads the template again.
Reload(w) ==
    /\ pc[w] = "reload"
    /\ LET t == at[w] IN
         \/ /\ status[t] = "draft" /\ Goto(w, "lookup")
            /\ curId' = [curId EXCEPT ![w] = NoStack]
            /\ curBody' = [curBody EXCEPT ![w] = devops[t]]
            /\ curName' = [curName EXCEPT ![w] = slug[t]] /\ UNCHANGED <<at, seen>>
         \/ /\ status[t] = "in_testing" /\ deploy[t] \notin {"active", "failed"}
            /\ Goto(w, SyncStep(testId[t])) /\ curId' = [curId EXCEPT ![w] = testId[t]]
            /\ curName' = [curName EXCEPT ![w] = testName[t]] /\ UNCHANGED <<at, curBody, seen>>
         \/ /\ status[t] \notin {"draft", "in_testing"} \/ deploy[t] \in {"active", "failed"}
            /\ status[t] # "draft" /\ Return(w)
    /\ UNCHANGED <<templateVars, stackVars, catalog, doubled, mishaps>>
-----------------------------------------------------------------------------
(* markTestingValidated, refreshTestingStatus *)

MarkTestingValidated(w, t) ==
    status[t] = "in_testing" /\ deploy[t] = "active" /\ Load(w, t, "validate")

Validate(w) ==
    /\ pc[w] = "validate"
    /\ validated' = validated \cup {at[w]}
    /\ UNCHANGED <<status, slug, devops, testId, testName, deploy>> /\ Return(w) /\ Writes(w)

RefreshTestingStatus(w, t) ==
    \/ status[t] = "in_testing" /\ LoadTest(w, t)
    \/ status[t] = "draft" /\ LoadFor(w, t, "orphan", NoStack, AnyBody, slug[t])

\* A draft with a test deployment under the name it would have is put in testing.
Orphan(w) == pc[w] = "orphan" /\ Scan(w, "adopt", "idle") /\ UNCHANGED doubled
-----------------------------------------------------------------------------
(* publishTemplate, unpublishTemplate *)

\* Mutant: nobody has to have validated the test.
PublishableUnseen(t) ==
    \/ t \in Orchestrators /\ status[t] \in {"draft", "in_testing"}
    \/ status[t] = "in_testing" /\ deploy[t] = "active"

Publishable(t) ==
    \/ t \in Orchestrators /\ status[t] \in {"draft", "in_testing"}
    \/ status[t] = "in_testing" /\ deploy[t] = "active" /\ t \in validated

PublishTemplate(w, t) == Publishable(t) /\ LoadId(w, t, "slug")

\* The slug may be taken, or what is loaded may not be valid for the catalog.
AssertSlug(w) ==
    /\ pc[w] = "slug"
    /\ Onward(w, "publish") \/ Return(w)
    /\ UNCHANGED <<templateVars, stackVars, catalog, doubled, mishaps>>

Publish(w) ==
    /\ pc[w] = "publish"
    /\ status' = [status EXCEPT ![at[w]] = "published"]
    /\ testId' = [testId EXCEPT ![at[w]] = NoStack]
    /\ testName' = [testName EXCEPT ![at[w]] = NoName]
    /\ deploy' = [deploy EXCEPT ![at[w]] = "none"] /\ validated' = validated \ {at[w]}
    /\ UNCHANGED <<slug, devops>> /\ Onward(w, "emit") /\ Writes(w)

\* TemplatePublished, which is logged if it fails; then the answer.
Emit(w) ==
    /\ pc[w] = "emit"
    /\ \/ catalog' = catalog \cup {at[w]} /\ UNCHANGED mishaps
       \/ UNCHANGED catalog /\ Fail
    /\ Onward(w, "frozen") /\ UNCHANGED <<templateVars, stackVars, doubled>>

\* The deletion of the test deployment is not awaited: it goes on when the next
\* invocation thaws the environment, or never.
TearDownPublished(w) ==
    /\ pc[w] = "frozen"
    /\ IF curId[w] = NoStack THEN UNCHANGED <<cfn, rows, mishaps>>
       ELSE Delete(curId[w]) \/ UNCHANGED <<cfn, rows, mishaps>>
    /\ Return(w) /\ UNCHANGED <<templateVars, owner, name, body, completed, catalog, doubled>>

UnpublishTemplate(w, t) == status[t] = "published" /\ Load(w, t, "unlist")

Unlist(w) ==
    /\ pc[w] = "unlist"
    /\ \/ catalog' = catalog \ {at[w]} /\ UNCHANGED mishaps /\ Onward(w, "archive")
       \/ UNCHANGED catalog /\ Fail /\ Return(w)
    /\ UNCHANGED <<templateVars, stackVars, doubled>>

Archive(w) ==
    /\ pc[w] = "archive"
    /\ status' = [status EXCEPT ![at[w]] = "archived"]
    /\ UNCHANGED <<slug, devops, testId, testName, deploy, validated>> /\ Return(w) /\ Writes(w)
-----------------------------------------------------------------------------
(* The rest *)

\* The invocation times out or is killed.
Dies(w) ==
    /\ pc[w] # "idle" /\ Fail /\ Return(w)
    /\ UNCHANGED <<templateVars, stackVars, catalog, doubled>>

StackSettles(s) ==
    /\ \/ /\ cfn[s] = "creating" /\ cfn' = [cfn EXCEPT ![s] = "complete"]
          /\ completed' = completed \cup {s}
       \/ /\ cfn[s] = "creating" /\ cfn' = [cfn EXCEPT ![s] = "failed"] /\ UNCHANGED completed
       \/ /\ cfn[s] = "deleting" /\ \E a \in {"gone", "failed"} : cfn' = [cfn EXCEPT ![s] = a]
          /\ UNCHANGED completed
    /\ UNCHANGED <<templateVars, owner, name, body, rows, catalog, workerVars, doubled, mishaps>>

\* The list page polls a template whose test it shows as deploying.
Poll(t) == deploy[t] = "deploying" /\ status[t] = "in_testing" /\ RefreshTestingStatus(Poller, t)

Author(w, t) ==
    \/ "update" \in Asks[w] /\ UpdateTemplate(w, t)
    \/ "start" \in Asks[w] /\ StartTesting(w, t)
    \/ "cancel" \in Asks[w] /\ CancelTesting(w, t)
    \/ "restart" \in Asks[w] /\ RestartTesting(w, t)
    \/ "validate" \in Asks[w] /\ MarkTestingValidated(w, t)
    \/ "refresh" \in Asks[w] /\ RefreshTestingStatus(w, t)
    \/ "publish" \in Asks[w] /\ PublishTemplate(w, t)
    \/ "unpublish" \in Asks[w] /\ UnpublishTemplate(w, t)

Call(w) ==
    \/ Save(w) \/ Find(w) \/ NoteFound(w) \/ Wait(w) \/ Describe(w) \/ Probe(w) \/ Record(w)
    \/ Drop(w) \/ Lookup(w) \/ Adopt(w) \/ Mark(w) \/ DeployTestStack(w) \/ Resolve(w) \/ Note(w)
    \/ Recover(w) \/ Retain(w) \/ GiveUp(w) \/ Reset(w) \/ TearDown(w) \/ Reload(w) \/ Validate(w)
    \/ Orphan(w) \/ AssertSlug(w) \/ Publish(w) \/ Emit(w) \/ Unlist(w) \/ Archive(w)

Next ==
    \/ \E t \in Templates : CreateTemplate(t) \/ Poll(t)
    \/ \E w \in Workers, t \in Templates : Author(w, t)
    \/ \E w \in Workers : Call(w) \/ TearDownPublished(w) \/ Dies(w)
    \/ \E s \in Stacks : StackSettles(s) \/ AgentGoesOn(s)

Spec == Init /\ [][Next]_vars

\* The page stays open, its own invocations go on, stacks settle.
Fairness ==
    /\ \A t \in Templates : SF_vars(Poll(t))
    /\ WF_vars(Call(Poller))
    /\ WF_vars(\E s \in Stacks : StackSettles(s))

FairSpec == Spec /\ Fairness
-----------------------------------------------------------------------------
\* The table has one test deployment of a template under a name, whatever fails
\* and whoever acts on it, so every scan finds the same: unless one set out to
\* deploy while another was at it.  An edit of the slug between two tests, or a
\* stack without a record, may leave a template with more: under another name,
\* or under none.
OneTestStack ==
    \A r, s \in rows :
        owner[r] = owner[s] /\ name[r] = name[s] /\ owner[s] \notin doubled => r = s

\* No specialist comes to the catalog, or is archived, without a test deployment
\* of it that was up.
PublishedWasUp ==
    \A t \in Specialists :
        status[t] \in {"published", "archived"} => \E s \in completed : owner[s] = t

\* What is published was up as it is: "proven because in_testing deployed this
\* exact body successfully".
PublishedIsProven ==
    \A t \in Specialists :
        status[t] = "published" => \E s \in completed : owner[s] = t /\ body[s] = devops[t]

\* A test with a record under its name gets out of deploying, unless two were
\* deployed.
TestSettles ==
    \A t \in Templates :
        status[t] = "in_testing" /\ deploy[t] = "deploying" /\ Named(t, testName[t]) # {}
            ~> ~(status[t] = "in_testing" /\ deploy[t] = "deploying") \/ t \in doubled
=============================================================================
