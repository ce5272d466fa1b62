-------------------------- MODULE ToolIntegration --------------------------
(***************************************************************************)
(* tenant-tool-integration-installer, with the two other writers of what   *)
(* it writes: the policy apply's patch of the config and the runtime sync  *)
(* of tenant-provision-subscriber.                                         *)
(*                                                                         *)
(* A workspace's agent has a config in DynamoDB and a runtime with         *)
(* environment variables in AgentCore.  Every handler reads the whole      *)
(* config, changes its own keys, writes the whole config back, then reads  *)
(* the runtime's environment, merges the config's into it and writes that  *)
(* back; none of the writes is conditional and nothing keeps two handlers  *)
(* apart.  One action is one call, with the code up to the next one.       *)
(*                                                                         *)
(* The keys are grouped as the code sets and removes them.  A value is the *)
(* number of the event that set it, 0 if absent, and for the GitHub secret *)
(* the generation of the tenant's credential.                              *)
(***************************************************************************)
EXTENDS Naturals

CONSTANTS Workspaces,
          MaxEvents,     \* EventBridge events in all
          MaxAttempts,   \* deliveries of one event
          MaxSecrets,    \* generations of the tenant's GitHub credential
          FigmaDefault,  \* the platform's own Figma settings, 0 if it has none
          MaxMishaps     \* calls that fail and invocations that die

ASSUME WorkspacesAssumption == Workspaces # {}
ASSUME BoundsAssumption == MaxEvents \in Nat /\ MaxAttempts \in Nat \ {0}
                           /\ MaxSecrets \in Nat \ {0} /\ FigmaDefault \in Nat
                           /\ MaxMishaps \in Nat

Events == 1..MaxEvents

\* AIW_GITHUB_OWNER, _REPO and _API_KEY_PROVIDER_NAME are "github",
\* AIW_GITHUB_API_KEY_SECRET_ID is "secret" and the AIW_FIGMA_* are "figma".
EnvKeys == {"github", "secret", "figma"}

\* Further parts of a config: the MCP gateway among AgentBuilderParams.MCPServers,
\* and AgentCoreWorkspacePolicy.
Keys == EnvKeys \cup {"server", "policy"}

VARIABLES
    vault,      \* generation of the credential in AgentCore's token vault
    config,     \* of a workspace's agent
    runtime,    \* status of the agent runtime
    env,        \* environment variables of the runtime
    targets,    \* providers with a target on the workspace's MCP gateway
    \* The handlers.
    kind,
    scope,      \* workspaces the event is about
    step, attempts,
    at, left,   \* the workspace it is seeing to, those left of a fan-out
    hand,       \* the config or environment the handler is about to write
    resolved,   \* the secret a provisioning has resolved, or 0
    failed,     \* workspaces that a fan-out could not sync
    answers,    \* results emitted: TenantToolIntegrationInstalled
    \* History.
    overlapped, \* events whose current attempt met another on a workspace
    stale,      \* events that took the secret from the config
    fresh,      \* generation of the credential when the attempt began
    mishaps

storeVars == <<vault, config, runtime, env, targets>>
eventVars == <<kind, scope>>
vars == <<vault, config, runtime, env, targets, kind, scope, step, attempts, at, left, hand,
          resolved, failed, answers, overlapped, stale, fresh, mishaps>>

\* A GitHub install that names no owner or repository is known by its OpenAPI
\* spec; its sync is skipped with a warning, and the install succeeds.
Installs == {"githubInstall", "bareGithubInstall", "figmaInstall", "otherInstall"}
GithubSyncs == {"githubInstall", "credential"}
FigmaSyncs == {"figmaInstall", "figmaConfigure"}
Uninstalls == {"githubUninstall", "figmaUninstall"}
EnvSyncs == GithubSyncs \cup FigmaSyncs \cup Uninstalls
Kinds == Installs \cup EnvSyncs \cup {"policy", "provision"}
Steps == {"idle", "target", "server", "serverWrite", "read", "write", "describe", "update",
          "patchRead", "patchWrite", "next", "emit", "emitFailed", "retry", "done", "dead"}
Providers == {"github", "figma", "other"}
Values == Events \cup 0..MaxSecrets \cup {FigmaDefault}

TypeOK ==
    /\ vault \in 1..MaxSecrets
    /\ config \in [Workspaces -> [Keys -> Values]]
    /\ runtime \in [Workspaces -> {"none", "READY", "UPDATING"}]
    /\ env \in [Workspaces -> [EnvKeys -> Values]]
    /\ targets \in [Workspaces -> SUBSET Providers]
    /\ kind \in [Events -> Kinds] /\ scope \in [Events -> SUBSET Workspaces]
    /\ step \in [Events -> Steps] /\ attempts \in [Events -> 0..MaxAttempts]
    /\ at \in [Events -> SUBSET Workspaces] /\ left \in [Events -> SUBSET Workspaces]
    /\ hand \in [Events -> [Keys -> Values]] /\ resolved \in [Events -> 0..MaxSecrets]
    /\ failed \in [Events -> SUBSET Workspaces]
    /\ answers \in [Events -> SUBSET {"ok", "failed"}]
    /\ overlapped \subseteq Events /\ stale \subseteq Events
    /\ fresh \in [Events -> 0..MaxSecrets] /\ mishaps \in 0..MaxMishaps

Nothing == [k \in Keys |-> 0]

Init ==
    /\ vault = 1
    /\ config = [w \in Workspaces |-> Nothing]
    /\ runtime \in [Workspaces -> {"none", "READY"}]
    /\ env = [w \in Workspaces |-> [k \in EnvKeys |-> 0]]
    /\ targets = [w \in Workspaces |-> {}]
    /\ kind = [e \in Events |-> "policy"] /\ scope = [e \in Events |-> {}]
    /\ step = [e \in Events |-> "idle"] /\ attempts = [e \in Events |-> 0]
    /\ at = [e \in Events |-> {}] /\ left = [e \in Events |-> {}]
    /\ hand = [e \in Events |-> Nothing] /\ resolved = [e \in Events |-> 0]
    /\ failed = [e \in Events |-> {}] /\ answers = [e \in Events |-> {}]
    /\ overlapped = {} /\ stale = {} /\ fresh = [e \in Events |-> 0] /\ mishaps = 0

\* A call to AWS fails or an invocation dies.
Mishap == mishaps < MaxMishaps /\ mishaps' = mishaps + 1

-----------------------------------------------------------------------------
(* Control helpers. *)

Running(e) == step[e] \notin {"idle", "retry", "done", "dead"}

HandlerAt(e, s) == step[e] = s

Goto(e, s) == step' = [step EXCEPT ![e] = s]

Forget(e) == hand' = [hand EXCEPT ![e] = Nothing]

\* Mutant: an event is delivered again and again.
ThrowAgain(e) == Goto(e, "retry") /\ Forget(e)

\* The handler throws or dies and Lambda delivers the event again; a failed
\* provisioning is reported and not repeated.
Throw(e) ==
    /\ Goto(e, IF attempts[e] < MaxAttempts /\ kind[e] # "provision" THEN "retry" ELSE "dead")
    /\ Forget(e)

\* An error in an install is caught and answered; one in a fan-out is noted
\* and the next workspace's turn.
Fail(e) ==
    \/ kind[e] \in Installs /\ Goto(e, "emitFailed") /\ Forget(e) /\ UNCHANGED failed
    \/ /\ kind[e] = "credential"
       /\ Goto(e, "next")
       /\ Forget(e)
       /\ failed' = [failed EXCEPT ![e] = @ \cup at[e]]
    \/ kind[e] \notin Installs \cup {"credential"} /\ Throw(e) /\ UNCHANGED failed

ProviderOf(k) ==
    IF k \in {"githubInstall", "bareGithubInstall"} THEN "github"
    ELSE IF k = "figmaInstall" THEN "figma" ELSE "other"

-----------------------------------------------------------------------------
(* Delivery. *)

FirstStep(k) ==
    IF k \in Installs THEN "target" ELSE IF k = "credential" THEN "next" ELSE "read"

Deliver(e, k, ws) ==
    LET others == {d \in Events \ {e} : Running(d) /\ scope[d] \cap ws # {}}
        fanOut == k = "credential"
    IN  /\ Goto(e, FirstStep(k))
        /\ attempts' = [attempts EXCEPT ![e] = @ + 1]
        /\ at' = [at EXCEPT ![e] = IF fanOut THEN {} ELSE ws]
        /\ left' = [left EXCEPT ![e] = IF fanOut THEN ws ELSE {}]
        /\ hand' = [hand EXCEPT ![e] = Nothing]
        /\ resolved' = [resolved EXCEPT ![e] = 0]
        /\ failed' = [failed EXCEPT ![e] = {}]
        /\ overlapped' = IF others = {} THEN overlapped \ {e}
                                        ELSE overlapped \cup others \cup {e}
        /\ stale' = stale \ {e}
        /\ fresh' = [fresh EXCEPT ![e] = vault]
        /\ UNCHANGED <<vault, config, runtime, env, answers, mishaps>>

\* A new event, about one workspace or, a fan-out, some; they are numbered in
\* the order of their arrival.  AIW has removed the target of a provider it
\* uninstalls.
Receive(e, k, ws) ==
    /\ HandlerAt(e, "idle")
    /\ \A d \in Events : d < e => step[d] # "idle"
    /\ k # "credential" => \E w \in Workspaces : ws = {w}
    /\ kind' = [kind EXCEPT ![e] = k]
    /\ scope' = [scope EXCEPT ![e] = ws]
    /\ targets' = [w \in Workspaces |->
                      targets[w] \ (IF w \notin ws THEN {}
                                    ELSE IF k = "githubUninstall" THEN {"github"}
                                    ELSE IF k = "figmaUninstall" THEN {"figma"} ELSE {})]
    /\ Deliver(e, k, ws)

Redeliver(e) ==
    /\ HandlerAt(e, "retry")
    /\ Deliver(e, kind[e], scope[e])
    /\ UNCHANGED <<targets, eventVars>>

handlerVars == <<attempts, at, left, resolved, answers, overlapped, stale, fresh>>

\* handleTenantGithubCredentialUpdated turns to its next workspace, or the
\* handler returns; a fan-out that failed somewhere throws.
NextTarget(e) ==
    /\ HandlerAt(e, "next")
    /\ \/ \E w \in left[e] :
             /\ at' = [at EXCEPT ![e] = {w}]
             /\ left' = [left EXCEPT ![e] = @ \ {w}]
             /\ Goto(e, "read")
             /\ UNCHANGED hand
       \/ /\ left[e] = {} /\ failed[e] = {}
          /\ Goto(e, "done")
          /\ UNCHANGED <<at, left, hand>>
       \/ left[e] = {} /\ failed[e] # {} /\ Throw(e) /\ UNCHANGED <<at, left>>
    /\ UNCHANGED <<storeVars, eventVars, attempts, resolved, failed, answers, overlapped, stale,
                   fresh, mishaps>>

-----------------------------------------------------------------------------
(* The install handler. *)

AfterInstall(k) == IF k \in EnvSyncs THEN "read" ELSE "emit"

\* A target that ListGatewayTargets shows is repaired and otherwise left
\* alone, another one is created.
InstallTarget(e) ==
    /\ HandlerAt(e, "target")
    /\ \E w \in at[e] : targets' = [targets EXCEPT ![w] = @ \cup {ProviderOf(kind[e])}]
    /\ Goto(e, "server")
    /\ UNCHANGED <<vault, config, runtime, env, eventVars, failed, hand, handlerVars, mishaps>>

\* A call fails: before the target is created, or after, when the gateway's
\* role is not given access to the key.
InstallFails(e) ==
    /\ HandlerAt(e, "target")
    /\ Mishap
    /\ \E w \in at[e] :
           \/ UNCHANGED targets
           \/ targets' = [targets EXCEPT ![w] = @ \cup {ProviderOf(kind[e])}]
    /\ Fail(e)
    /\ UNCHANGED <<vault, config, runtime, env, eventVars, handlerVars>>

\* ensureAgentMcpGatewayInConfig: an error is only a warning.
ReadForServer(e) ==
    /\ HandlerAt(e, "server")
    /\ \E w \in at[e] :
           \/ /\ config[w]["server"] = 0
              /\ hand' = [hand EXCEPT ![e] = [config[w] EXCEPT !["server"] = e]]
              /\ Goto(e, "serverWrite")
              /\ UNCHANGED mishaps
           \/ /\ \/ config[w]["server"] # 0 /\ UNCHANGED mishaps
                 \/ Mishap
              /\ Goto(e, AfterInstall(kind[e]))
              /\ UNCHANGED hand
    /\ UNCHANGED <<storeVars, eventVars, attempts, at, left, resolved, failed, answers, overlapped,
                   stale, fresh>>

WriteServer(e) ==
    /\ HandlerAt(e, "serverWrite")
    /\ \E w \in at[e] :
           \/ config' = [config EXCEPT ![w] = hand[e]] /\ UNCHANGED mishaps
           \/ Mishap /\ UNCHANGED config
    /\ Goto(e, AfterInstall(kind[e]))
    /\ Forget(e)
    /\ UNCHANGED <<vault, runtime, env, targets, eventVars, failed, handlerVars>>

\* emitResult: if the good answer cannot be sent, a bad one is.
Emit(e) ==
    /\ HandlerAt(e, "emit")
    /\ \/ answers' = [answers EXCEPT ![e] = @ \cup {"ok"}] /\ Goto(e, "done") /\ UNCHANGED mishaps
       \/ Mishap /\ UNCHANGED answers /\ Goto(e, "emitFailed")
    /\ UNCHANGED <<storeVars, eventVars, attempts, at, left, hand, resolved, failed, overlapped,
                   stale, fresh>>

EmitFailed(e) ==
    /\ HandlerAt(e, "emitFailed")
    /\ \/ /\ answers' = [answers EXCEPT ![e] = @ \cup {"failed"}]
          /\ Goto(e, "done")
          /\ UNCHANGED <<hand, mishaps>>
       \/ Mishap /\ UNCHANGED answers /\ Throw(e)
    /\ UNCHANGED <<storeVars, eventVars, attempts, at, left, resolved, failed, overlapped, stale,
                   fresh>>

-----------------------------------------------------------------------------
(* The environment syncs. *)

\* resolveRuntimeIdWithRetry, after an install and in a provisioning: thirty
\* times ten seconds, which outlasts the installer's Lambda.
Waits(k) == k \in Installs \cup {"provision"}

\* The agent's runtime is looked for before the config is read; a
\* provisioning has read the config already and a policy apply needs none.
Missing(e, w) ==
    /\ runtime[w] = "none"
    /\ \/ HandlerAt(e, "read") /\ kind[e] \in EnvSyncs
       \/ HandlerAt(e, "describe") /\ kind[e] = "provision"

RuntimeMissing(e) ==
    /\ \E w \in at[e] : Missing(e, w)
    /\ ~Waits(kind[e])
    /\ Fail(e)
    /\ UNCHANGED <<storeVars, eventVars, handlerVars, mishaps>>

\* The keys that a handler sets or removes.
OwnKeys(k) ==
    IF k \in GithubSyncs \cup {"githubUninstall"} THEN {"github", "secret"}
    ELSE IF k \in FigmaSyncs \cup {"figmaUninstall"} THEN {"figma"}
    ELSE IF k = "policy" THEN {"policy"} ELSE {}

NeedsSecret(e, cfg) == kind[e] \in GithubSyncs \/ (kind[e] = "provision" /\ cfg["github"] # 0)

\* resolveGithubSecretArn: the vault's secret or, when the lookup fails, the
\* one that the config already has.
Resolves(e, cfg, secret) ==
    IF NeedsSecret(e, cfg)
    THEN \/ secret = vault /\ UNCHANGED <<stale, mishaps>>
         \/ secret = cfg["secret"] /\ secret # 0 /\ Mishap /\ stale' = stale \cup {e}
    ELSE /\ secret = IF kind[e] = "provision" THEN cfg["secret"] ELSE 0
         /\ UNCHANGED <<stale, mishaps>>

\* Mutant: the GitHub keys replace the other ones.
PatchedDropsOthers(e, cfg, secret) ==
    [k \in Keys |->
        IF k \notin OwnKeys(kind[e])
        THEN IF k \in EnvKeys /\ kind[e] \in GithubSyncs THEN 0 ELSE cfg[k]
        ELSE IF kind[e] \in Uninstalls THEN 0
        ELSE IF k = "secret" THEN secret ELSE e]

\* What a handler makes of the config it has read.
Patched(e, cfg, secret) ==
    [k \in Keys |->
        IF k \notin OwnKeys(kind[e]) THEN cfg[k]
        ELSE IF kind[e] \in Uninstalls THEN 0
        ELSE IF k = "secret" THEN secret ELSE e]

\* The read of patchConfigGithubEnv and its like, of a policy apply and, of
\* the environment only, of syncAgentRuntimeEnvFromConfig.
ReadConfig(e) ==
    /\ HandlerAt(e, "read")
    /\ \E w \in at[e] :
           /\ ~Missing(e, w)
           /\ \/ /\ kind[e] # "provision"
                 /\ \E secret \in 0..MaxSecrets :
                       /\ Resolves(e, config[w], secret)
                       /\ hand' = [hand EXCEPT ![e] = Patched(e, config[w], secret)]
                 /\ Goto(e, "write")
                 /\ UNCHANGED failed
              \/ /\ kind[e] = "provision"
                 /\ hand' = [hand EXCEPT ![e] = config[w]]
                 /\ Goto(e, "describe")
                 /\ UNCHANGED <<failed, stale, mishaps>>
              \/ Mishap /\ Fail(e) /\ UNCHANGED stale
    /\ UNCHANGED <<storeVars, eventVars, attempts, at, left, resolved, answers, overlapped, fresh>>

\* The write: of the whole config, unconditional.
WriteConfig(e) ==
    /\ HandlerAt(e, "write")
    /\ \E w \in at[e] :
           \/ /\ config' = [config EXCEPT ![w] = hand[e]]
              /\ Goto(e, IF kind[e] = "policy" THEN "next" ELSE "describe")
              /\ UNCHANGED <<hand, failed, mishaps>>
           \/ Mishap /\ Fail(e) /\ UNCHANGED config
    /\ UNCHANGED <<vault, runtime, env, targets, eventVars, handlerVars>>

\* Mutant: the environment that is there wins over the config's.
OverlaidOldWins(w, cfg) ==
    [k \in Keys |-> IF k \in EnvKeys /\ env[w][k] # 0 THEN env[w][k] ELSE cfg[k]]

\* The environment of the runtime, overlaid with the config's; a key that the
\* config lacks stays.
Overlaid(w, cfg) == [k \in Keys |-> IF k \in EnvKeys /\ cfg[k] = 0 THEN env[w][k] ELSE cfg[k]]

\* removeGithubKeysFromEnv is applied to the merged environment; nothing like
\* it is for Figma.
RemovedKeys(k) == IF k = "githubUninstall" THEN {"github", "secret"} ELSE {}

\* The environment that applyRuntimeEnvFromConfig, applyRuntimeEnv,
\* applyRuntimeEnvWithoutGithub or syncAgentRuntimeEnvFromConfig sends.
Merged(e, w, secret) ==
    [k \in Keys |->
        IF k \in RemovedKeys(kind[e]) THEN 0
        ELSE IF k = "secret" /\ secret # 0 THEN secret
        ELSE IF k = "figma" /\ kind[e] = "provision" /\ hand[e]["figma"] = 0 /\ FigmaDefault # 0
        THEN FigmaDefault
        ELSE Overlaid(w, hand[e])[k]]

\* GetAgentRuntime and what is looked up for the environment.
DescribeRuntime(e) ==
    /\ HandlerAt(e, "describe")
    /\ \E w \in at[e] :
           /\ ~Missing(e, w)
           /\ \/ /\ \E secret \in 0..MaxSecrets :
                       /\ Resolves(e, hand[e], secret)
                       /\ hand' = [hand EXCEPT ![e] = Merged(e, w, secret)]
                       /\ resolved' = [resolved EXCEPT ![e] =
                                          IF kind[e] = "provision" THEN secret ELSE 0]
                 /\ Goto(e, "update")
                 /\ UNCHANGED failed
              \/ Mishap /\ Fail(e) /\ UNCHANGED <<resolved, stale>>
    /\ UNCHANGED <<storeVars, eventVars, attempts, at, left, answers, overlapped, fresh>>

AfterUpdate(k) ==
    IF k \in Installs THEN "emit" ELSE IF k = "provision" THEN "patchRead" ELSE "next"

\* UpdateAgentRuntime, which refuses a runtime that is being updated; only the
\* GitHub sync then waits and tries again, twelve times.
UpdateRuntime(e) ==
    /\ HandlerAt(e, "update")
    /\ \E w \in at[e] :
           \/ /\ runtime[w] = "READY"
              /\ runtime' = [runtime EXCEPT ![w] = "UPDATING"]
              /\ env' = [env EXCEPT ![w] = [k \in EnvKeys |-> hand[e][k]]]
              /\ Forget(e)
              /\ Goto(e, AfterUpdate(kind[e]))
              /\ UNCHANGED <<failed, mishaps>>
           \/ /\ \/ runtime[w] = "UPDATING" /\ kind[e] \notin GithubSyncs /\ UNCHANGED mishaps
                 \/ Mishap
              /\ Fail(e)
              /\ UNCHANGED <<runtime, env>>
    /\ UNCHANGED <<vault, config, targets, eventVars, handlerVars>>

\* patchConfigAgentRuntimeEnv of a provisioning; an error is only a warning.
ReadForPatch(e) ==
    /\ HandlerAt(e, "patchRead")
    /\ \E w \in at[e] :
           \/ /\ hand' = [hand EXCEPT ![e] =
                    [config[w] EXCEPT !["secret"] = IF resolved[e] # 0 THEN resolved[e] ELSE @]]
              /\ Goto(e, "patchWrite")
              /\ UNCHANGED mishaps
           \/ Mishap /\ Goto(e, "next") /\ UNCHANGED hand
    /\ UNCHANGED <<storeVars, eventVars, attempts, at, left, resolved, failed, answers, overlapped,
                   stale, fresh>>

WritePatch(e) ==
    /\ HandlerAt(e, "patchWrite")
    /\ \E w \in at[e] :
           \/ config' = [config EXCEPT ![w] = hand[e]] /\ UNCHANGED mishaps
           \/ Mishap /\ UNCHANGED config
    /\ Goto(e, "next")
    /\ Forget(e)
    /\ UNCHANGED <<vault, runtime, env, targets, eventVars, failed, handlerVars>>

-----------------------------------------------------------------------------
(* The environment. *)

\* The invocation dies, or times out while it waits for a runtime.
Dies(e) ==
    /\ Running(e)
    /\ \/ Mishap
       \/ Waits(kind[e]) /\ (\E w \in at[e] : Missing(e, w)) /\ UNCHANGED mishaps
    /\ Throw(e)
    /\ UNCHANGED <<storeVars, eventVars, failed, handlerVars>>

\* AIW refreshes the tenant's credential.
RefreshCredential ==
    /\ vault < MaxSecrets
    /\ vault' = vault + 1
    /\ UNCHANGED <<config, runtime, env, targets, eventVars, step, failed, hand, handlerVars, mishaps>>

\* The stack of the agent creates the runtime.
CreateRuntime(w) ==
    /\ runtime[w] = "none"
    /\ runtime' = [runtime EXCEPT ![w] = "READY"]
    /\ UNCHANGED <<vault, config, env, targets, eventVars, step, failed, hand, handlerVars, mishaps>>

RuntimeReady(w) ==
    /\ runtime[w] = "UPDATING"
    /\ runtime' = [runtime EXCEPT ![w] = "READY"]
    /\ UNCHANGED <<vault, config, env, targets, eventVars, step, failed, hand, handlerVars, mishaps>>

-----------------------------------------------------------------------------
InstallStep(e) ==
    \/ InstallTarget(e) \/ InstallFails(e)
    \/ ReadForServer(e) \/ WriteServer(e)
    \/ Emit(e) \/ EmitFailed(e)

SyncStep(e) ==
    \/ NextTarget(e) \/ RuntimeMissing(e)
    \/ ReadConfig(e) \/ WriteConfig(e)
    \/ DescribeRuntime(e) \/ UpdateRuntime(e)
    \/ ReadForPatch(e) \/ WritePatch(e)

Next ==
    \/ \E e \in Events, k \in Kinds, ws \in SUBSET Workspaces \ {{}} : Receive(e, k, ws)
    \/ \E e \in Events : Redeliver(e) \/ InstallStep(e) \/ SyncStep(e) \/ Dies(e)
    \/ RefreshCredential
    \/ \E w \in Workspaces : CreateRuntime(w) \/ RuntimeReady(w)

Spec == Init /\ [][Next]_vars

-----------------------------------------------------------------------------
(* Properties. *)

Alone(e) == e \notin overlapped

\* The handler is about to return or to answer "ok"; its fan-out is over.
Returning(e) == HandlerAt(e, "emit") \/ (HandlerAt(e, "next") /\ left[e] = {})

\* When a GitHub or Figma handler that met no other one returns, each of its
\* workspaces that it does not report as failed has its settings in the
\* config and in the live runtime alike, with a secret no older than the one
\* in the vault when it began, unless the lookup failed: whatever was there,
\* whatever it had to retry and however the other workspaces of a fan-out
\* fared. After an uninstall of GitHub neither of them has anything of it.
SyncedIsLive == \A e \in Events : \A w \in scope[e] \ failed[e] :
    Alone(e) /\ Returning(e) =>
        /\ kind[e] \in Installs => ProviderOf(kind[e]) \in targets[w]
        /\ kind[e] \in GithubSyncs =>
               /\ config[w]["github"] = e /\ env[w]["github"] = e
               /\ e \in stale \/ (config[w]["secret"] >= fresh[e] /\ env[w]["secret"] >= fresh[e])
        /\ kind[e] \in FigmaSyncs => config[w]["figma"] = e /\ env[w]["figma"] = e
        /\ kind[e] = "githubUninstall" =>
               \A k \in {"github", "secret"} : config[w][k] = 0 /\ env[w][k] = 0

\* The parts of a config a handler may change.
Writes(k) ==
    OwnKeys(k) \cup (IF k \in Installs THEN {"server"} ELSE {})
               \cup (IF k = "provision" THEN {"secret"} ELSE {})

\* A write of a config changes nothing but what its handler is for, and of
\* its own workspace, unless the handler met another one on it: only then can
\* an update be lost.
OthersAreKept == [][\A w \in Workspaces, k \in Keys : config'[w][k] # config[w][k] =>
    \E e \in Events : Running(e) /\ w \in at[e] /\ (k \in Writes(kind[e]) \/ ~Alone(e))]_vars
=============================================================================
