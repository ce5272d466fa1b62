------------------------------ MODULE Provision ------------------------------
(***************************************************************************)
(* tenant-provision-subscriber and orchestrator-provision-subscriber: a    *)
(* request from AIW for one workspace (an agent, with an MCP gateway if    *)
(* its template connects tools) or for one orchestrator (a workflow)       *)
(* becomes use cases that the deployment API creates.                      *)
(*                                                                         *)
(* The API does not answer with the id of what it has created, so the      *)
(* handler scans the use case table for a row of the right name, type and  *)
(* tenant and takes the first.  The order of a scan is that of the hashes  *)
(* of the ids: fixed, and no one's choice.  An id is here a number, and a  *)
(* scan goes up; what an id is allocated for is nondeterministic.          *)
(*                                                                         *)
(* One action is one call, with the code up to the next one; a loop of     *)
(* polls is a poll, a sleep after polls that found nothing, and a timeout. *)
(***************************************************************************)
EXTENDS Integers, FiniteSets

CONSTANTS Requests,   \* numbered as they come
          Mains,      \* ids for agents, or for workflows
          Gateways,   \* ids for MCP gateways
          MaxMishaps  \* failures, deaths, timeouts and deletions

Ids == Mains \cup Gateways

ASSUME IdsAssumption == Mains \subseteq Nat \ {0} /\ Gateways \subseteq Nat \ {0}
                        /\ Mains \cap Gateways = {}
ASSUME RequestsAssumption == Requests \subseteq Nat
ASSUME MaxMishapsAssumption == MaxMishaps \in Nat

VARIABLES
    tools,      \* what the requests are for, see Kinds
    \* CloudFormation and the tables.
    stack,      \* status of the stack of an id
    rows,       \* ids in the use case table that bear the requests' names
    late,       \* ids of deployments that the API goes on with alone, see Abandon
    published,  \* gateways with a GatewayUrl in their config
    wired,      \* the gateway among the MCPServers of an agent, or 0
    \* The handlers.
    step,
    gateway,    \* gaabMcpGatewayUseCaseId, or 0
    merged,     \* the gateway merged into the body to deploy, or 0
    main,       \* gaabUseCaseId, or 0
    answer,     \* the last phase that AIW was told
    \* History.
    excused,    \* requests that met another one, or were misled, see NoTwins
    twinned,    \* requests not excused that deployed beside a live agent
    mishaps

cfnVars == <<stack, rows, late, published, wired>>
ownVars == <<gateway, merged, main>>
historyVars == <<excused, twinned>>
vars == <<tools, stack, rows, late, published, wired, step, gateway, merged, main, answer,
          excused, twinned, mishaps>>

Active == {"complete"}
InProgress == {"creating", "updating"}
Deleted == {"deleting", "deleted"}
\* "failed": creation or deletion failed; "rolledBack": an update failed;
\* "asked": the API is yet to make the stack.
Failed == Deleted \cup {"failed", "rolledBack"}
Statuses == {"none", "asked"} \cup Active \cup InProgress \cup Failed

Steps == {"idle", "begin", "build", "findGateway", "deployGateway", "resolveGateway",
          "awaitGateway", "sleepGateway", "url", "sleepUrl", "findMain", "deployMain",
          "resolveMain", "milestone", "await", "sleep", "reprobe", "sync", "ready",
          "failing", "done", "dead"}

\* An orchestrator, or a workspace whose template connects no tools, prewired
\* ones (maybe with others), tools to be installed, or tools that the platform
\* lacks the schema or OAuth provider for.
Kinds == {"orchestrator", "none", "prewired", "install", "unbuildable"}
Answers == {"nothing", "provisioning_started", "stack_complete", "runtime_ready", "failed"}

TypeOK ==
    /\ tools \in Kinds
    /\ stack \in [Ids -> Statuses]
    /\ rows \subseteq {i \in Ids : stack[i] \notin {"none", "asked"}}
    /\ late \subseteq {i \in Ids : stack[i] # "none"}
    /\ published \subseteq Gateways
    /\ wired \in [Mains -> Gateways \cup {0}]
    /\ step \in [Requests -> Steps]
    /\ gateway \in [Requests -> Gateways \cup {0}]
    /\ merged \in [Requests -> Gateways \cup {0}]
    /\ main \in [Requests -> Mains \cup {0}]
    /\ answer \in [Requests -> Answers]
    /\ excused \subseteq Requests /\ twinned \subseteq Requests
    /\ mishaps \in 0..MaxMishaps

\* The agent of an earlier request may be there, in whatever state.
Init ==
    /\ tools \in Kinds
    /\ \E old \in {m \in SUBSET Mains : Cardinality(m) <= 1}, s \in Active \cup Failed :
           /\ tools = "orchestrator" => old = {}
           /\ rows = old
           /\ stack = [i \in Ids |-> IF i \in old THEN s ELSE "none"]
    /\ late = {} /\ published = {} /\ wired = [m \in Mains |-> 0]
    /\ step = [r \in Requests |-> "idle"]
    /\ gateway = [r \in Requests |-> 0] /\ merged = [r \in Requests |-> 0]
    /\ main = [r \in Requests |-> 0]
    /\ answer = [r \in Requests |-> "nothing"]
    /\ excused = {} /\ twinned = {}
    /\ mishaps = 0

Well == UNCHANGED mishaps
Mishap == mishaps < MaxMishaps /\ mishaps' = mishaps + 1

Running(r) == step[r] \notin {"idle", "done", "dead"}
At(r, s) == step[r] = s
Goto(r, s) == step' = [step EXCEPT ![r] = s]

-----------------------------------------------------------------------------
(* Finding and probing. *)

\* Mutant: the type of a row is not compared.
FirstOfAnyType(ids) == IF rows = {} THEN 0 ELSE CHOOSE i \in rows : \A j \in rows : i <= j

\* findUseCaseIdByName: the first row of the scan, 0 if there is none.
First(ids) ==
    LET found == rows \cap ids
    IN  IF found = {} THEN 0 ELSE CHOOSE i \in found : \A j \in found : i <= j

\* getDeploymentProbe: what DescribeStacks says, or that it is unknown.
Probes(i) == {stack[i], "unknown"}

Spend(bad) == IF bad THEN Mishap ELSE Well

\* Mutant: a stack whose status could not be read is taken to be gone.
ResumableIfKnown(i, status) == i # 0 /\ status \in Active \cup InProgress

\* findResumableUseCase: an id is resumed unless its stack is dead or gone.
Resumable(i, status) == i # 0 /\ status \in Active \cup InProgress \cup {"unknown"}

Dead(i) == i # 0 /\ stack[i] \in Failed

-----------------------------------------------------------------------------
(* The request. *)

\* notifyProvisionStatus: an event that cannot be sent is given up.
Notify(r, phase) ==
    \/ Well /\ answer' = [answer EXCEPT ![r] = phase]
    \/ Mishap /\ UNCHANGED answer

\* A request is refused that names no tenant or lacks its deploy configuration,
\* or whose tenant cannot be stored.  That one comes while another is being
\* handled is a mishap: EventBridge has delivered it twice.
Receive(r) ==
    /\ At(r, "idle")
    /\ \A q \in Requests : q < r => ~At(q, "idle")
    /\ LET others == {q \in Requests : Running(q)}
       IN  /\ \/ Goto(r, "begin") /\ Spend(others # {})
              \/ Goto(r, "failing") /\ Mishap
           /\ excused' = IF others = {} THEN excused ELSE excused \cup others \cup {r}
    /\ UNCHANGED <<tools, cfnVars, ownVars, answer, twinned>>

NotifyStarted(r) ==
    /\ At(r, "begin")
    /\ Notify(r, "provisioning_started")
    /\ Goto(r, CASE tools = "orchestrator" -> "build"
                 [] tools = "none" -> "findMain"
                 [] OTHER -> "findGateway")
    /\ UNCHANGED <<tools, cfnVars, ownVars, historyVars>>

\* buildWorkflowDeployBody: a specialist that is not there fails the request.
BuildWorkflow(r) ==
    /\ At(r, "build")
    /\ \/ Goto(r, "deployMain") /\ Well
       \/ Goto(r, "failing") /\ Mishap
    /\ UNCHANGED <<tools, cfnVars, ownVars, answer, historyVars>>

-----------------------------------------------------------------------------
(* The gateway of a workspace. *)

AfterGateway(r, g) ==
    IF g = 0 THEN "findMain" ELSE IF tools = "install" THEN "awaitGateway" ELSE "url"

FindGateway(r) ==
    /\ At(r, "findGateway")
    /\ LET g == First(Gateways)
       IN  \/ /\ g = 0 /\ Well /\ UNCHANGED gateway
              /\ Goto(r, IF tools = "unbuildable" THEN "findMain" ELSE "deployGateway")
           \/ /\ g # 0
              /\ \E p \in Probes(g) :
                    /\ Spend(p = "unknown")
                    /\ IF tools = "unbuildable"
                       THEN Goto(r, "findMain") /\ UNCHANGED gateway
                       ELSE IF Resumable(g, p)
                       THEN /\ gateway' = [gateway EXCEPT ![r] = g]
                            /\ Goto(r, AfterGateway(r, g))
                       ELSE Goto(r, "deployGateway") /\ UNCHANGED gateway
           \/ Mishap /\ Goto(r, "failing") /\ UNCHANGED gateway
    /\ UNCHANGED <<tools, cfnVars, merged, main, answer, historyVars>>

\* The deployment API makes a stack and then the row.  The id is a new one; one
\* of an agent that has left no trace stands for a new one too.
Create(i, withRow) ==
    /\ stack[i] = "none" \/ (i \in Mains /\ stack[i] = "deleted" /\ i \notin rows)
    /\ \A q \in Requests : i \notin {main[q], gateway[q], merged[q]}
    /\ stack' = [stack EXCEPT ![i] = "creating"]
    /\ rows' = IF withRow THEN rows \cup {i} ELSE rows
    /\ UNCHANGED late

\* The caller of the API loses it, or dies, while the API's own Lambda goes on.
Abandon(i) ==
    /\ stack[i] = "none"
    /\ \A q \in Requests : i \notin {main[q], gateway[q], merged[q]}
    /\ stack' = [stack EXCEPT ![i] = "asked"]
    /\ late' = late \cup {i}
    /\ UNCHANGED rows

\* It makes the stack, or gives up, and then the row, or fails to.
ApiGoesOn(i) ==
    /\ i \in late
    /\ \/ /\ stack[i] = "asked"
          /\ \/ stack' = [stack EXCEPT ![i] = "creating"] /\ UNCHANGED late
             \/ stack' = [stack EXCEPT ![i] = "none"] /\ late' = late \ {i}
          /\ UNCHANGED rows
       \/ /\ stack[i] # "asked"
          /\ late' = late \ {i}
          /\ rows' \in {rows, rows \cup {i}}
          /\ UNCHANGED stack
    /\ UNCHANGED <<tools, published, wired, step, ownVars, answer, historyVars, mishaps>>

\* invokeDeployApi: refused, with nothing or only a stack made, the agent goes
\* without a gateway; an invocation that fails ends the request, whatever the
\* API has made.
DeployGateway(r) ==
    /\ At(r, "deployGateway")
    /\ \/ \E g \in Gateways : Create(g, TRUE) /\ Goto(r, "resolveGateway") /\ Well
       \/ \E g \in Gateways : Create(g, FALSE) /\ Goto(r, "findMain") /\ Mishap
       \/ \E g \in Gateways : (Create(g, TRUE) \/ Abandon(g)) /\ Goto(r, "failing") /\ Mishap
       \/ Goto(r, "findMain") /\ Mishap /\ UNCHANGED <<stack, rows, late>>
    /\ UNCHANGED <<tools, published, wired, ownVars, answer, historyVars>>

\* resolveUseCaseIdByName: errors are swallowed, twelve tries find no row.
ResolveGateway(r) ==
    /\ At(r, "resolveGateway")
    /\ \E g \in {First(Gateways), 0} :
          /\ Spend(g # First(Gateways))
          /\ gateway' = [gateway EXCEPT ![r] = g]
          /\ Goto(r, AfterGateway(r, g))
    /\ UNCHANGED <<tools, cfnVars, merged, main, answer, historyVars>>

\* Mutant: polling ends with the first poll.
HopelessUnlessUp(status) == status \notin Active

\* waitForUseCaseReady: the statuses that end the polling.  The orchestrator's
\* knows none for a stack that is deleted or rolled back.
Hopeless(status) == IF tools = "orchestrator" THEN status = "failed" ELSE status \in Failed

\* A poll of the stack i: up, never, or to be polled again.
Poll(r, i, ups, never, again) ==
    \E p \in Probes(i) :
        /\ Spend(p = "unknown")
        /\ \/ p \in Active /\ Goto(r, ups)
           \/ Hopeless(p) /\ Goto(r, never)
           \/ /\ p \notin Active /\ ~Hopeless(p)
              /\ step[r] # again /\ Goto(r, again)

\* A deadline is a mishap when what is waited for would still come.
Deadline(coming) == IF coming THEN Mishap ELSE Well

Coming(i) == stack[i] \in Active \cup InProgress

\* Mutant: a gateway that does not come up in time is used all the same.
AwaitGatewayIgnoresDeadline(r) ==
    /\ \/ step[r] \in {"awaitGateway", "sleepGateway"}
          /\ Poll(r, gateway[r], "url", "failing", "sleepGateway")
       \/ At(r, "sleepGateway") /\ Deadline(Coming(gateway[r])) /\ Goto(r, "url")
    /\ UNCHANGED <<tools, cfnVars, ownVars, answer, historyVars>>

\* An empty gateway that tools are to be installed on has to be up.
AwaitGateway(r) ==
    /\ \/ step[r] \in {"awaitGateway", "sleepGateway"}
          /\ Poll(r, gateway[r], "url", "failing", "sleepGateway")
       \/ At(r, "sleepGateway") /\ Deadline(Coming(gateway[r])) /\ Goto(r, "failing")
    /\ UNCHANGED <<tools, cfnVars, ownVars, answer, historyVars>>

HasUrl(g) == g \in published \cap rows

\* waitForGatewayUrl and mergeAgentMcpServer.
AwaitUrl(r) ==
    LET g == gateway[r]
    IN  /\ \/ /\ step[r] \in {"url", "sleepUrl"}
              /\ HasUrl(g)
              /\ merged' = [merged EXCEPT ![r] = g]
              /\ Goto(r, "findMain") /\ Well
           \/ /\ At(r, "url")
              /\ Spend(HasUrl(g))
              /\ Goto(r, "sleepUrl") /\ UNCHANGED merged
           \/ /\ At(r, "sleepUrl")
              /\ Deadline(g \in rows /\ Coming(g))
              /\ Goto(r, "findMain") /\ UNCHANGED merged
        /\ UNCHANGED <<tools, cfnVars, gateway, main, answer, historyVars>>

-----------------------------------------------------------------------------
(* The agent of a workspace, or the workflow of an orchestrator. *)

\* The agents that are up or coming up, whether a scan can find them or not.
LiveMains == {m \in Mains : stack[m] \in Active \cup InProgress}

\* Those that no scan finds: the API failed to write the row, or is yet to.
Hidden == (LiveMains \ rows) \cup (late \cap Mains)

FindMain(r) ==
    /\ At(r, "findMain")
    /\ LET m == First(Mains)
       IN  \/ m = 0 /\ Well /\ Goto(r, "deployMain") /\ UNCHANGED main
           \/ /\ m # 0
              /\ \E p \in Probes(m) :
                    /\ Spend(p = "unknown")
                    /\ IF Resumable(m, p)
                       THEN main' = [main EXCEPT ![r] = m] /\ Goto(r, "milestone")
                       ELSE Goto(r, "deployMain") /\ UNCHANGED main
           \/ Mishap /\ Goto(r, "failing") /\ UNCHANGED main
    /\ excused' = IF Dead(First(Mains)) \/ Hidden # {} THEN excused \cup {r} ELSE excused
    /\ UNCHANGED <<tools, cfnVars, gateway, merged, answer, twinned>>

\* A deployment that is refused or fails ends the request, whatever was made.
DeployMain(r) ==
    /\ At(r, "deployMain")
    /\ \/ \E m \in Mains :
              /\ \/ Create(m, TRUE) /\ Goto(r, "resolveMain") /\ Well
                 \/ \E withRow \in BOOLEAN : Create(m, withRow) /\ Goto(r, "failing") /\ Mishap
                 \/ Abandon(m) /\ Goto(r, "failing") /\ Mishap
              /\ wired' = [wired EXCEPT ![m] = merged[r]]
              /\ twinned' = IF LiveMains = {} \/ r \in excused THEN twinned ELSE twinned \cup {r}
       \/ Goto(r, "failing") /\ Mishap /\ UNCHANGED <<stack, rows, late, wired, twinned>>
    /\ UNCHANGED <<tools, published, ownVars, answer, excused>>

ResolveMain(r) ==
    /\ At(r, "resolveMain")
    /\ \E m \in {First(Mains), 0} :
          /\ Spend(m # First(Mains))
          /\ main' = [main EXCEPT ![r] = m]
          /\ Goto(r, IF m = 0 THEN "failing" ELSE "milestone")
    /\ UNCHANGED <<tools, cfnVars, gateway, merged, answer, historyVars>>

\* "stack_complete" is sent before the stack is looked at.
NotifyStackComplete(r) ==
    /\ At(r, "milestone")
    /\ Notify(r, "stack_complete")
    /\ Goto(r, "await")
    /\ UNCHANGED <<tools, cfnVars, ownVars, historyVars>>

\* A read that fails ends an orchestrator's request; a workspace's polls on.
AwaitMain(r) ==
    /\ \/ /\ step[r] \in {"await", "sleep"}
          /\ \/ Poll(r, main[r], "sync", "reprobe", "sleep")
             \/ tools = "orchestrator" /\ Mishap /\ Goto(r, "failing")
       \/ At(r, "sleep") /\ Deadline(Coming(main[r])) /\ Goto(r, "reprobe")
    /\ UNCHANGED <<tools, cfnVars, ownVars, answer, historyVars>>

\* Mutant: only a stack that is known to have failed fails the request.
ReprobeLenient(r) ==
    /\ At(r, "reprobe")
    /\ \E p \in Probes(main[r]) :
          /\ Spend(p = "unknown")
          /\ Goto(r, IF p \notin Failed THEN "sync" ELSE "failing")
    /\ UNCHANGED <<tools, cfnVars, ownVars, answer, historyVars>>

\* One more look after the polls have ended without success.
Reprobe(r) ==
    /\ At(r, "reprobe")
    /\ \E p \in Probes(main[r]) :
          /\ Spend(p = "unknown")
          /\ Goto(r, IF p \in Active THEN "sync" ELSE "failing")
    /\ UNCHANGED <<tools, cfnVars, ownVars, answer, historyVars>>

\* syncAgentRuntimeEnvFromConfig: fails if the runtime has gone with its stack.
SyncRuntime(r) ==
    /\ At(r, "sync")
    /\ \/ stack[main[r]] # "deleted" /\ Goto(r, "ready") /\ Well
       \/ Goto(r, "failing") /\ Deadline(Coming(main[r]))
    /\ UNCHANGED <<tools, cfnVars, ownVars, answer, historyVars>>

\* What is left of an invocation is the use case that it has answered with.
Ends(r, how, named) ==
    /\ Goto(r, how)
    /\ gateway' = [gateway EXCEPT ![r] = 0]
    /\ merged' = [merged EXCEPT ![r] = 0]
    /\ main' = [main EXCEPT ![r] = named]
    /\ excused' = excused \ {r}
    /\ UNCHANGED twinned

NotifyReady(r) ==
    /\ At(r, "ready")
    /\ Notify(r, "runtime_ready")
    /\ Ends(r, "done", main[r])
    /\ UNCHANGED <<tools, cfnVars>>

NotifyFailed(r) ==
    /\ At(r, "failing")
    /\ Notify(r, "failed")
    /\ Ends(r, "done", 0)
    /\ UNCHANGED <<tools, cfnVars>>

\* The invocation dies or times out, and the rule does not repeat it.
Dies(r) ==
    /\ Running(r) /\ Mishap
    /\ Ends(r, "dead", 0)
    /\ UNCHANGED <<tools, cfnVars, answer>>

-----------------------------------------------------------------------------
(* CloudFormation, and what else is done to use cases. *)

Becomes(i, status) == stack' = [stack EXCEPT ![i] = status]

\* A custom resource of a gateway's stack writes its URL to the config.
PublishUrl(g) ==
    /\ stack[g] = "creating" /\ g \notin published
    /\ published' = published \cup {g}
    /\ UNCHANGED <<tools, stack, rows, late, wired, step, ownVars, answer, historyVars, mishaps>>

StackCompletes(i) ==
    /\ stack[i] \in InProgress
    /\ i \in Gateways => i \in published
    /\ Becomes(i, "complete")
    /\ UNCHANGED <<tools, rows, late, published, wired, step, ownVars, answer, historyVars, mishaps>>

StackFails(i) ==
    /\ \/ stack[i] = "creating" /\ Becomes(i, "failed")
       \/ stack[i] = "updating" /\ Becomes(i, "rolledBack")
       \/ stack[i] = "deleting" /\ Becomes(i, "failed")
    /\ Mishap
    /\ UNCHANGED <<tools, rows, late, published, wired, step, ownVars, answer, historyVars>>

\* An update from the dashboard.
Update(i) ==
    /\ stack[i] \in Active \cup {"rolledBack"} /\ i \in rows
    /\ Becomes(i, "updating")
    /\ Mishap
    /\ UNCHANGED <<tools, rows, late, published, wired, step, ownVars, answer, historyVars>>

\* A deletion from the dashboard or by a deprovisioning; a permanent one
\* removes the row.
Delete(i) ==
    /\ i \in rows /\ stack[i] \notin Deleted
    /\ Becomes(i, "deleting")
    /\ rows' \in {rows, rows \ {i}}
    /\ Mishap
    /\ UNCHANGED <<tools, late, published, wired, step, ownVars, answer, historyVars>>

StackGone(i) ==
    /\ stack[i] = "deleting"
    /\ Becomes(i, "deleted")
    /\ UNCHANGED <<tools, rows, late, published, wired, step, ownVars, answer, historyVars, mishaps>>

\* The time to live of the row of a deleted use case.
ExpireRow(i) ==
    /\ i \in rows /\ stack[i] = "deleted"
    /\ rows' = rows \ {i}
    /\ UNCHANGED <<tools, stack, late, published, wired, step, ownVars, answer, historyVars, mishaps>>

-----------------------------------------------------------------------------
GatewayStep(r) == FindGateway(r) \/ DeployGateway(r) \/ ResolveGateway(r) \/ AwaitGateway(r) \/ AwaitUrl(r)

MainStep(r) == FindMain(r) \/ DeployMain(r) \/ ResolveMain(r) \/ AwaitMain(r) \/ Reprobe(r) \/ SyncRuntime(r)

NotifyStep(r) == NotifyStarted(r) \/ NotifyStackComplete(r) \/ NotifyReady(r) \/ NotifyFailed(r)

StackStep(i) == StackCompletes(i) \/ StackFails(i) \/ Update(i) \/ Delete(i) \/ StackGone(i) \/ ExpireRow(i)

Step(r) == BuildWorkflow(r) \/ GatewayStep(r) \/ MainStep(r) \/ NotifyStep(r)

Next ==
    \/ \E r \in Requests : Receive(r) \/ Step(r) \/ Dies(r)
    \/ \E g \in Gateways : PublishUrl(g)
    \/ \E i \in Ids : StackStep(i) \/ ApiGoesOn(i)

Spec == Init /\ [][Next]_vars

\* Invocations run on, and so do stacks; nobody has to ask or to delete.
Fairness ==
    /\ \A r \in Requests : WF_vars(Step(r))
    /\ \A g \in Gateways : WF_vars(PublishUrl(g))
    /\ \A i \in Ids : WF_vars(StackCompletes(i)) /\ WF_vars(StackGone(i))

FairSpec == Spec /\ Fairness

-----------------------------------------------------------------------------
(* Properties. *)

\* Where a request is in ProvisionPromise.
Phase(r) ==
    IF At(r, "idle") THEN "waiting"
    ELSE IF At(r, "sync") THEN "seen"
    ELSE IF At(r, "ready") THEN "synced"
    ELSE IF At(r, "failing") THEN "failing"
    ELSE IF Running(r) THEN "open"
    ELSE IF At(r, "done") /\ answer[r] = "runtime_ready" THEN "ready"
    ELSE IF At(r, "done") /\ answer[r] = "failed" THEN "failed"
    ELSE "given up"

Promise == INSTANCE ProvisionPromise WITH
    UseCases <- Mains,
    up <- {m \in Mains : stack[m] = "complete"},
    phase <- [r \in Requests |-> Phase(r)],
    names <- [r \in Requests |-> IF Phase(r) \in {"seen", "synced", "ready"} THEN main[r] ELSE 0]

\* Each handler keeps the promise of ProvisionPromise, whatever fails, is deleted
\* or dies on the way: what it answers is ready has been seen up and synced.
KeepsPromise == Promise!Spec

\* A workspace's request does not deploy a second agent beside a live one, with
\* a row or without: one that comes again, after one that failed, timed out or
\* died, resumes what the scan can find.  Excused are requests that met another
\* one; those whose scan came first upon the row of a stack that is dead or
\* gone, which hides the live one; and those that scanned while an agent ran
\* that the deployment API had made and not recorded, or was still to record:
\* the code knows an agent by its row alone, and does deploy beside it.
NoTwins == tools # "orchestrator" => twinned = {}

\* An agent deployed with tools has a gateway with a URL; where tools are to be
\* installed its stack has got past its creation.
ToolsAreThere ==
    /\ \A m \in Mains : wired[m] # 0 => wired[m] \in published
    /\ \A r \in Requests : tools = "install" /\ merged[r] # 0 => stack[merged[r]] \notin {"asked", "creating"}

\* A request that comes when everything that can go wrong has gone wrong, with
\* no deployment under way and no row of a dead stack left, ends with an agent that is ready, whatever the
\* requests before it have left half done.
RetrySucceeds == \A r \in Requests :
    (At(r, "begin") /\ mishaps = MaxMishaps /\ late = {} /\ \A i \in rows : ~Dead(i))
        ~> (answer[r] = "runtime_ready")

=============================================================================
