----------------------- MODULE ToolIntegrationProofs -----------------------
(***************************************************************************)
(* Proofs about ToolIntegration, for any set of workspaces and any bounds. *)
(***************************************************************************)
EXTENDS ToolIntegration, TLAPS

-----------------------------------------------------------------------------
(* Types. *)

\* Only an event that may be delivered again is due, and an idle one has not
\* been delivered.
AttemptsFit == \A e \in Events :
    /\ step[e] = "retry" => attempts[e] < MaxAttempts
    /\ step[e] = "idle" => attempts[e] = 0

TypeInv == TypeOK /\ AttemptsFit

\* What the values of keys are, and what a handler puts into its hand.
LEMMA ValuesTyped ==
    /\ 0 \in Values /\ Values \subseteq Nat
    /\ \A e \in Events : e \in Values /\ e # 0
    /\ \A s \in 0..MaxSecrets : s \in Values
    /\ FigmaDefault \in Values
    /\ Nothing \in [Keys -> Values]
    /\ "server" \in Keys /\ "policy" \in Keys
    /\ \A k \in EnvKeys : k \in Keys
BY BoundsAssumption DEF Values, Nothing, Keys, EnvKeys, Events

LEMMA PatchedTyped ==
    ASSUME NEW e \in Events, NEW cfg \in [Keys -> Values], NEW secret \in 0..MaxSecrets
    PROVE  Patched(e, cfg, secret) \in [Keys -> Values]
BY ValuesTyped DEF Patched

LEMMA MergedTyped ==
    ASSUME NEW e \in Events, NEW w \in Workspaces, NEW secret \in 0..MaxSecrets,
           hand[e] \in [Keys -> Values], env[w] \in [EnvKeys -> Values]
    PROVE  Merged(e, w, secret) \in [Keys -> Values]
<1>1. Overlaid(w, hand[e]) \in [Keys -> Values]
  BY ValuesTyped DEF Overlaid
<1> QED
  BY <1>1, ValuesTyped DEF Merged

\* The steps that the code goes to.
LEMMA StepsTyped ==
    /\ {"idle", "target", "server", "serverWrite", "read", "write", "describe", "update",
        "patchRead", "patchWrite", "next", "emit", "emitFailed", "retry", "done", "dead"} = Steps
    /\ \A k : FirstStep(k) \in Steps \ {"idle", "retry"}
    /\ \A k : AfterInstall(k) \in Steps \ {"idle", "retry"}
    /\ \A k : AfterUpdate(k) \in Steps \ {"idle", "retry"}
    /\ \A k : ProviderOf(k) \in Providers
BY DEF Steps, FirstStep, AfterInstall, AfterUpdate, ProviderOf, Providers

\* What a step of a handler does to the steps, and what it takes into its hand.
Moves(e) ==
    /\ step' \in [Events -> Steps]
    /\ step'[e] # "idle" /\ (step'[e] = "retry" => attempts[e] < MaxAttempts)
    /\ \A d \in Events \ {e} : step'[d] = step[d]

Takes(e) ==
    /\ hand' \in [Events -> [Keys -> Values]]
    /\ \A d \in Events \ {e} : hand'[d] = hand[d]

LEMMA GotoMoves ==
    ASSUME TypeInv, NEW e \in Events, NEW s \in Steps \ {"idle", "retry"}, Goto(e, s)
    PROVE  Moves(e) /\ step'[e] = s
BY DEF TypeInv, TypeOK, Goto, Moves

LEMMA TakesRecord ==
    ASSUME TypeInv, NEW e \in Events, NEW cfg \in [Keys -> Values],
           hand' = [hand EXCEPT ![e] = cfg]
    PROVE  Takes(e) /\ hand'[e] = cfg
BY DEF TypeInv, TypeOK, Takes

LEMMA TakesNothing ==
    ASSUME TypeInv, NEW e \in Events, Forget(e) \/ UNCHANGED hand
    PROVE  Takes(e)
<1>1. CASE UNCHANGED hand
  BY <1>1 DEF TypeInv, TypeOK, Takes
<1>2. CASE Forget(e)
  BY <1>2, ValuesTyped, TakesRecord DEF Forget
<1> QED
  BY <1>1, <1>2

LEMMA ExceptTyped ==
    ASSUME NEW cfg \in [Keys -> Values], NEW k, NEW v \in Values
    PROVE  [cfg EXCEPT ![k] = v] \in [Keys -> Values]
OBVIOUS

LEMMA AnswersTyped ==
    ASSUME TypeInv, NEW e \in Events, NEW a \in {"ok", "failed"}
    PROVE  [answers EXCEPT ![e] = @ \cup {a}] \in [Events -> SUBSET {"ok", "failed"}]
<1>1. answers[e] \cup {a} \in SUBSET {"ok", "failed"}
  BY DEF TypeInv, TypeOK
<1> QED
  BY <1>1 DEF TypeInv, TypeOK

LEMMA TargetsTyped ==
    ASSUME TypeInv, NEW e \in Events, NEW w \in Workspaces
    PROVE  [targets EXCEPT ![w] = @ \cup {ProviderOf(kind[e])}] \in [Workspaces -> SUBSET Providers]
<1>1. targets[w] \cup {ProviderOf(kind[e])} \in SUBSET Providers
  BY StepsTyped DEF TypeInv, TypeOK
<1> QED
  BY <1>1 DEF TypeInv, TypeOK

\* Forgetting what was read, throwing and failing keep the types.
LEMMA ThrowTyped ==
    ASSUME TypeInv, NEW e \in Events, Throw(e)
    PROVE  /\ step' \in [Events -> Steps]
           /\ step'[e] \in {"retry", "dead"}
           /\ step'[e] = "retry" => attempts[e] < MaxAttempts
           /\ \A d \in Events \ {e} : step'[d] = step[d] /\ hand'[d] = hand[d]
           /\ hand' \in [Events -> [Keys -> Values]] /\ hand'[e] = Nothing
BY ValuesTyped, StepsTyped DEF TypeInv, TypeOK, Throw, Goto, Forget

LEMMA FailTyped ==
    ASSUME TypeInv, NEW e \in Events, Fail(e)
    PROVE  /\ step' \in [Events -> Steps]
           /\ step'[e] \in {"emitFailed", "next", "retry", "dead"}
           /\ step'[e] = "emitFailed" => kind[e] \in Installs
           /\ step'[e] = "next" => kind[e] = "credential" /\ failed'[e] = failed[e] \cup at[e]
           /\ step'[e] = "retry" => attempts[e] < MaxAttempts
           /\ \A d \in Events \ {e} : step'[d] = step[d] /\ hand'[d] = hand[d]
                                      /\ failed'[d] = failed[d]
           /\ hand' \in [Events -> [Keys -> Values]] /\ hand'[e] = Nothing
           /\ failed' \in [Events -> SUBSET Workspaces]
           /\ step'[e] # "next" => failed' = failed
<1>1. CASE kind[e] \in Installs /\ Goto(e, "emitFailed") /\ Forget(e) /\ UNCHANGED failed
  BY <1>1, ValuesTyped, StepsTyped DEF TypeInv, TypeOK, Goto, Forget
<1>2. CASE /\ kind[e] = "credential" /\ Goto(e, "next") /\ Forget(e)
           /\ failed' = [failed EXCEPT ![e] = @ \cup at[e]]
  BY <1>2, ValuesTyped, StepsTyped DEF TypeInv, TypeOK, Goto, Forget
<1>3. CASE Throw(e) /\ UNCHANGED failed
  BY <1>3, ThrowTyped DEF TypeInv, TypeOK
<1> QED
  BY <1>1, <1>2, <1>3 DEF Fail

LEMMA InitTyped == Init => TypeInv
BY BoundsAssumption, ValuesTyped, StepsTyped
DEF Init, TypeInv, TypeOK, AttemptsFit, Kinds

LEMMA TypeInductive == TypeInv /\ [Next]_vars => TypeInv'
<1> SUFFICES ASSUME TypeInv, [Next]_vars PROVE TypeInv'
  OBVIOUS
<1>1. ASSUME NEW e \in Events, NEW k \in Kinds, NEW ws \in SUBSET Workspaces \ {{}},
             Receive(e, k, ws)
      PROVE  TypeInv'
  <2>1. UNCHANGED <<vault, config, runtime, env, answers, mishaps>>
    BY <1>1 DEF Receive, Deliver, storeVars, eventVars, handlerVars
  <2>2. kind' \in [Events -> Kinds]
    BY <1>1 DEF TypeInv, TypeOK, Receive, Deliver
  <2>3. scope' \in [Events -> SUBSET Workspaces]
    BY <1>1 DEF TypeInv, TypeOK, Receive, Deliver
  <2>4. targets' \in [Workspaces -> SUBSET Providers]
    BY <1>1 DEF TypeInv, TypeOK, Receive, Deliver
  <2>5. step' \in [Events -> Steps] /\ AttemptsFit'
    BY <1>1, StepsTyped, <2>1 DEF TypeInv, TypeOK, Receive, Deliver, Goto, HandlerAt, AttemptsFit
  <2>6. attempts' \in [Events -> 0..MaxAttempts]
    BY <1>1, BoundsAssumption DEF TypeInv, TypeOK, Receive, Deliver, AttemptsFit, HandlerAt
  <2>7. at' \in [Events -> SUBSET Workspaces]
    BY <1>1 DEF TypeInv, TypeOK, Receive, Deliver
  <2>8. left' \in [Events -> SUBSET Workspaces]
    BY <1>1 DEF TypeInv, TypeOK, Receive, Deliver
  <2>9. hand' \in [Events -> [Keys -> Values]]
    BY <1>1, ValuesTyped DEF TypeInv, TypeOK, Receive, Deliver
  <2>10. resolved' \in [Events -> 0..MaxSecrets]
    BY <1>1, BoundsAssumption DEF TypeInv, TypeOK, Receive, Deliver
  <2>11. failed' \in [Events -> SUBSET Workspaces]
    BY <1>1 DEF TypeInv, TypeOK, Receive, Deliver
  <2>12. overlapped' \subseteq Events
    BY <1>1 DEF TypeInv, TypeOK, Receive, Deliver
  <2>13. stale' \subseteq Events
    BY <1>1 DEF TypeInv, TypeOK, Receive, Deliver
  <2>14. fresh' \in [Events -> 0..MaxSecrets]
    BY <1>1, BoundsAssumption DEF TypeInv, TypeOK, Receive, Deliver
  <2> QED
    BY <2>1, <2>2, <2>3, <2>4, <2>5, <2>6, <2>7, <2>8, <2>9, <2>10, <2>11, <2>12, <2>13, <2>14
    DEF TypeInv, TypeOK
<1>2. ASSUME NEW e \in Events, Redeliver(e) PROVE TypeInv'
  <2>1. UNCHANGED <<vault, config, runtime, env, targets, kind, scope, answers, mishaps>>
    BY <1>2 DEF Redeliver, Deliver, storeVars, eventVars, handlerVars
  <2>2. step' \in [Events -> Steps] /\ AttemptsFit'
    <3>1. FirstStep(kind[e]) \in Steps \ {"idle", "retry"}
      BY StepsTyped
    <3>2. Moves(e)
      BY <1>2, <3>1, GotoMoves DEF Redeliver, Deliver
    <3>3. \A d \in Events \ {e} : attempts'[d] = attempts[d]
      BY <1>2 DEF Redeliver, Deliver, TypeInv, TypeOK
    <3>4. step'[e] = FirstStep(kind[e])
      BY <1>2, <3>1, GotoMoves DEF Redeliver, Deliver
    <3> QED
      BY <3>1, <3>2, <3>3, <3>4 DEF Moves, AttemptsFit, TypeInv
  <2>3. attempts' \in [Events -> 0..MaxAttempts]
    BY <1>2, BoundsAssumption DEF TypeInv, TypeOK, Redeliver, Deliver, AttemptsFit, HandlerAt
  <2>4. at' \in [Events -> SUBSET Workspaces]
    BY <1>2 DEF TypeInv, TypeOK, Redeliver, Deliver
  <2>5. left' \in [Events -> SUBSET Workspaces]
    BY <1>2 DEF TypeInv, TypeOK, Redeliver, Deliver
  <2>6. hand' \in [Events -> [Keys -> Values]]
    BY <1>2, ValuesTyped DEF TypeInv, TypeOK, Redeliver, Deliver
  <2>7. resolved' \in [Events -> 0..MaxSecrets]
    BY <1>2, BoundsAssumption DEF TypeInv, TypeOK, Redeliver, Deliver
  <2>8. failed' \in [Events -> SUBSET Workspaces]
    BY <1>2 DEF TypeInv, TypeOK, Redeliver, Deliver
  <2>9. overlapped' \subseteq Events
    BY <1>2 DEF TypeInv, TypeOK, Redeliver, Deliver
  <2>10. stale' \subseteq Events
    BY <1>2 DEF TypeInv, TypeOK, Redeliver, Deliver
  <2>11. fresh' \in [Events -> 0..MaxSecrets]
    BY <1>2, BoundsAssumption DEF TypeInv, TypeOK, Redeliver, Deliver
  <2> QED
    BY <2>1, <2>2, <2>3, <2>4, <2>5, <2>6, <2>7, <2>8, <2>9, <2>10, <2>11 DEF TypeInv, TypeOK
<1>3. ASSUME NEW e \in Events, NextTarget(e) PROVE TypeInv'
  <2>1. UNCHANGED <<vault, config, runtime, env, targets, kind, scope, attempts, resolved,
                    failed, answers, overlapped, stale, fresh, mishaps>>
    BY <1>3 DEF NextTarget, storeVars, eventVars, handlerVars
  <2>2. step' \in [Events -> Steps] /\ AttemptsFit'
    <3>1. Goto(e, "read") \/ Goto(e, "done") \/ Throw(e)
      BY <1>3 DEF NextTarget
    <3>2. Moves(e)
      BY <3>1, StepsTyped, GotoMoves, ThrowTyped DEF Moves
    <3> QED
      BY <2>1, <3>2 DEF Moves, AttemptsFit, TypeInv
  <2>3. at' \in [Events -> SUBSET Workspaces]
    BY <1>3 DEF TypeInv, TypeOK, NextTarget
  <2>4. left' \in [Events -> SUBSET Workspaces]
    BY <1>3 DEF TypeInv, TypeOK, NextTarget
  <2>5. hand' \in [Events -> [Keys -> Values]]
    BY <1>3, ThrowTyped DEF TypeInv, TypeOK, NextTarget
  <2> QED
    BY <2>1, <2>2, <2>3, <2>4, <2>5 DEF TypeInv, TypeOK
<1>4. ASSUME NEW e \in Events, InstallTarget(e) PROVE TypeInv'
  <2>1. UNCHANGED <<vault, config, runtime, env, kind, scope, attempts, at, left, hand,
                    resolved, failed, answers, overlapped, stale, fresh, mishaps>>
    BY <1>4 DEF InstallTarget, storeVars, eventVars, handlerVars
  <2>2. step' \in [Events -> Steps] /\ AttemptsFit'
    BY <1>4, StepsTyped, <2>1 DEF TypeInv, TypeOK, InstallTarget, Goto, HandlerAt, AttemptsFit
  <2>3. targets' \in [Workspaces -> SUBSET Providers]
    <3>1. at[e] \subseteq Workspaces
      BY DEF TypeInv, TypeOK
    <3>2. \A w \in at[e] : [targets EXCEPT ![w] = @ \cup {ProviderOf(kind[e])}]
                              \in [Workspaces -> SUBSET Providers]
      BY <3>1, TargetsTyped
    <3> QED
      BY <1>4, <3>2 DEF InstallTarget, TypeInv, TypeOK
  <2> QED
    BY <2>1, <2>2, <2>3 DEF TypeInv, TypeOK
<1>5. ASSUME NEW e \in Events, InstallFails(e) PROVE TypeInv'
  <2>1. UNCHANGED <<vault, config, runtime, env, kind, scope, attempts, at, left, resolved,
                    answers, overlapped, stale, fresh>>
    BY <1>5 DEF InstallFails, storeVars, eventVars, handlerVars
  <2>2. step' \in [Events -> Steps] /\ AttemptsFit'
    <3>1. Fail(e)
      BY <1>5 DEF InstallFails
    <3>2. Moves(e)
      BY <3>1, FailTyped DEF Moves
    <3> QED
      BY <2>1, <3>2 DEF Moves, AttemptsFit, TypeInv
  <2>3. targets' \in [Workspaces -> SUBSET Providers]
    <3>1. at[e] \subseteq Workspaces
      BY DEF TypeInv, TypeOK
    <3>2. \A w \in at[e] : [targets EXCEPT ![w] = @ \cup {ProviderOf(kind[e])}]
                              \in [Workspaces -> SUBSET Providers]
      BY <3>1, TargetsTyped
    <3>3. PICK w \in at[e] : \/ UNCHANGED targets
                             \/ targets' = [targets EXCEPT ![w] = @ \cup {ProviderOf(kind[e])}]
      BY <1>5 DEF InstallFails
    <3> QED
      BY <3>2, <3>3 DEF TypeInv, TypeOK
  <2>4. hand' \in [Events -> [Keys -> Values]]
    BY <1>5, FailTyped DEF TypeInv, TypeOK, InstallFails
  <2>5. failed' \in [Events -> SUBSET Workspaces]
    BY <1>5, FailTyped DEF TypeInv, TypeOK, InstallFails
  <2>6. mishaps' \in 0..MaxMishaps
    BY <1>5, BoundsAssumption DEF TypeInv, TypeOK, InstallFails, Mishap
  <2> QED
    BY <2>1, <2>2, <2>3, <2>4, <2>5, <2>6 DEF TypeInv, TypeOK
<1>6. ASSUME NEW e \in Events, ReadForServer(e) PROVE TypeInv'
  <2>1. UNCHANGED <<vault, config, runtime, env, targets, kind, scope, attempts, at, left,
                    resolved, failed, answers, overlapped, stale, fresh>>
    BY <1>6 DEF ReadForServer, storeVars, eventVars, handlerVars
  <2>2. step' \in [Events -> Steps] /\ AttemptsFit'
    <3>1. Goto(e, "serverWrite") \/ Goto(e, AfterInstall(kind[e]))
      BY <1>6 DEF ReadForServer
    <3>2. Moves(e)
      BY <3>1, StepsTyped, GotoMoves
    <3> QED
      BY <2>1, <3>2 DEF Moves, AttemptsFit, TypeInv
  <2>3. hand' \in [Events -> [Keys -> Values]]
    <3>1. CASE UNCHANGED hand
      BY <3>1, TakesNothing DEF Takes
    <3>2. CASE ~UNCHANGED hand
      <4>1. PICK w \in at[e] : hand' = [hand EXCEPT ![e] = [config[w] EXCEPT !["server"] = e]]
        BY <1>6, <3>2 DEF ReadForServer
      <4>2. config[w] \in [Keys -> Values]
        BY DEF TypeInv, TypeOK
      <4>3. [config[w] EXCEPT !["server"] = e] \in [Keys -> Values]
        BY <4>2, ExceptTyped, ValuesTyped
      <4> QED
        BY <4>1, <4>3, TakesRecord DEF Takes
    <3> QED
      BY <3>1, <3>2
  <2>4. mishaps' \in 0..MaxMishaps
    BY <1>6, BoundsAssumption DEF TypeInv, TypeOK, ReadForServer, Mishap
  <2> QED
    BY <2>1, <2>2, <2>3, <2>4 DEF TypeInv, TypeOK
<1>7. ASSUME NEW e \in Events, WriteServer(e) PROVE TypeInv'
  <2>1. UNCHANGED <<vault, runtime, env, targets, kind, scope, attempts, at, left, resolved,
                    failed, answers, overlapped, stale, fresh>>
    BY <1>7 DEF WriteServer, storeVars, eventVars, handlerVars
  <2>2. step' \in [Events -> Steps] /\ AttemptsFit'
    BY <1>7, StepsTyped, <2>1 DEF TypeInv, TypeOK, WriteServer, Goto, HandlerAt, AttemptsFit
  <2>3. config' \in [Workspaces -> [Keys -> Values]]
    BY <1>7 DEF TypeInv, TypeOK, WriteServer
  <2>4. hand' \in [Events -> [Keys -> Values]]
    BY <1>7, TakesNothing DEF WriteServer, Takes
  <2>5. mishaps' \in 0..MaxMishaps
    BY <1>7, BoundsAssumption DEF TypeInv, TypeOK, WriteServer, Mishap
  <2> QED
    BY <2>1, <2>2, <2>3, <2>4, <2>5 DEF TypeInv, TypeOK
<1>8. ASSUME NEW e \in Events, Emit(e) PROVE TypeInv'
  <2>1. UNCHANGED <<vault, config, runtime, env, targets, kind, scope, attempts, at, left,
                    hand, resolved, failed, overlapped, stale, fresh>>
    BY <1>8 DEF Emit, storeVars, eventVars, handlerVars
  <2>2. step' \in [Events -> Steps] /\ AttemptsFit'
    BY <1>8, StepsTyped, <2>1 DEF TypeInv, TypeOK, Emit, Goto, HandlerAt, AttemptsFit
  <2>3. answers' \in [Events -> SUBSET {"ok", "failed"}]
    <3>1. [answers EXCEPT ![e] = @ \cup {"ok"}] \in [Events -> SUBSET {"ok", "failed"}]
      BY AnswersTyped
    <3> QED
      BY <1>8, <3>1 DEF Emit, TypeInv, TypeOK
  <2>4. mishaps' \in 0..MaxMishaps
    BY <1>8, BoundsAssumption DEF TypeInv, TypeOK, Emit, Mishap
  <2> QED
    BY <2>1, <2>2, <2>3, <2>4 DEF TypeInv, TypeOK
<1>9. ASSUME NEW e \in Events, EmitFailed(e) PROVE TypeInv'
  <2>1. UNCHANGED <<vault, config, runtime, env, targets, kind, scope, attempts, at, left,
                    resolved, failed, overlapped, stale, fresh>>
    BY <1>9 DEF EmitFailed, storeVars, eventVars, handlerVars
  <2>2. step' \in [Events -> Steps] /\ AttemptsFit'
    <3>1. step' \in [Events -> Steps]
      BY <1>9, StepsTyped, ThrowTyped, <2>1
      DEF TypeInv, TypeOK, EmitFailed, Goto, HandlerAt
    <3>2. AttemptsFit'
      BY <1>9, StepsTyped, ThrowTyped, <2>1, <3>1
      DEF TypeInv, TypeOK, EmitFailed, Goto, HandlerAt, AttemptsFit
    <3> QED
      BY <3>1, <3>2
  <2>3. answers' \in [Events -> SUBSET {"ok", "failed"}]
    <3>1. [answers EXCEPT ![e] = @ \cup {"failed"}] \in [Events -> SUBSET {"ok", "failed"}]
      BY AnswersTyped
    <3> QED
      BY <1>9, <3>1 DEF EmitFailed, TypeInv, TypeOK
  <2>4. hand' \in [Events -> [Keys -> Values]]
    BY <1>9, ThrowTyped DEF TypeInv, TypeOK, EmitFailed
  <2>5. mishaps' \in 0..MaxMishaps
    BY <1>9, BoundsAssumption DEF TypeInv, TypeOK, EmitFailed, Mishap
  <2> QED
    BY <2>1, <2>2, <2>3, <2>4, <2>5 DEF TypeInv, TypeOK
<1>10. ASSUME NEW e \in Events, RuntimeMissing(e) PROVE TypeInv'
  <2>1. UNCHANGED <<vault, config, runtime, env, targets, kind, scope, attempts, at, left,
                    resolved, answers, overlapped, stale, fresh, mishaps>>
    BY <1>10 DEF RuntimeMissing, storeVars, eventVars, handlerVars
  <2>2. step' \in [Events -> Steps] /\ AttemptsFit'
    BY <1>10, FailTyped, <2>1 DEF TypeInv, TypeOK, RuntimeMissing, Goto, HandlerAt, AttemptsFit
  <2>3. hand' \in [Events -> [Keys -> Values]]
    BY <1>10, FailTyped DEF TypeInv, TypeOK, RuntimeMissing
  <2>4. failed' \in [Events -> SUBSET Workspaces]
    BY <1>10, FailTyped DEF TypeInv, TypeOK, RuntimeMissing
  <2> QED
    BY <2>1, <2>2, <2>3, <2>4 DEF TypeInv, TypeOK
<1>11. ASSUME NEW e \in Events, ReadConfig(e) PROVE TypeInv'
  <2>1. UNCHANGED <<vault, config, runtime, env, targets, kind, scope, attempts, at, left,
                    resolved, answers, overlapped, fresh>>
    BY <1>11 DEF ReadConfig, storeVars, eventVars, handlerVars
  <2>2. step' \in [Events -> Steps] /\ AttemptsFit'
    <3>1. Goto(e, "write") \/ Goto(e, "describe") \/ Fail(e)
      BY <1>11 DEF ReadConfig
    <3>2. Moves(e)
      BY <3>1, StepsTyped, GotoMoves, FailTyped DEF Moves
    <3> QED
      BY <2>1, <3>2 DEF Moves, AttemptsFit, TypeInv
  <2>3. hand' \in [Events -> [Keys -> Values]]
    <3>1. CASE Fail(e)
      BY <3>1, FailTyped
    <3>2. CASE ~Fail(e)
      <4>1. PICK w \in at[e] :
                \/ hand' = [hand EXCEPT ![e] = config[w]]
                \/ \E secret \in 0..MaxSecrets :
                       hand' = [hand EXCEPT ![e] = Patched(e, config[w], secret)]
        BY <1>11, <3>2 DEF ReadConfig
      <4>2. config[w] \in [Keys -> Values]
        BY DEF TypeInv, TypeOK
      <4> QED
        BY <4>1, <4>2, PatchedTyped, TakesRecord DEF Takes
    <3> QED
      BY <3>1, <3>2
  <2>4. failed' \in [Events -> SUBSET Workspaces]
    BY <1>11, FailTyped DEF TypeInv, TypeOK, ReadConfig
  <2>5. stale' \subseteq Events
    BY <1>11 DEF TypeInv, TypeOK, ReadConfig, Resolves
  <2>6. mishaps' \in 0..MaxMishaps
    BY <1>11, BoundsAssumption DEF TypeInv, TypeOK, ReadConfig, Mishap, Resolves
  <2> QED
    BY <2>1, <2>2, <2>3, <2>4, <2>5, <2>6 DEF TypeInv, TypeOK
<1>12. ASSUME NEW e \in Events, WriteConfig(e) PROVE TypeInv'
  <2>1. UNCHANGED <<vault, runtime, env, targets, kind, scope, attempts, at, left, resolved,
                    answers, overlapped, stale, fresh>>
    BY <1>12 DEF WriteConfig, storeVars, eventVars, handlerVars
  <2>2. step' \in [Events -> Steps] /\ AttemptsFit'
    <3>1. step' \in [Events -> Steps]
      BY <1>12, StepsTyped, FailTyped, <2>1
      DEF TypeInv, TypeOK, WriteConfig, Goto, HandlerAt
    <3>2. AttemptsFit'
      BY <1>12, StepsTyped, FailTyped, <2>1, <3>1
      DEF TypeInv, TypeOK, WriteConfig, Goto, HandlerAt, AttemptsFit
    <3> QED
      BY <3>1, <3>2
  <2>3. config' \in [Workspaces -> [Keys -> Values]]
    BY <1>12 DEF TypeInv, TypeOK, WriteConfig
  <2>4. hand' \in [Events -> [Keys -> Values]]
    BY <1>12, FailTyped DEF TypeInv, TypeOK, WriteConfig
  <2>5. failed' \in [Events -> SUBSET Workspaces]
    BY <1>12, FailTyped DEF TypeInv, TypeOK, WriteConfig
  <2>6. mishaps' \in 0..MaxMishaps
    BY <1>12, BoundsAssumption DEF TypeInv, TypeOK, WriteConfig, Mishap
  <2> QED
    BY <2>1, <2>2, <2>3, <2>4, <2>5, <2>6 DEF TypeInv, TypeOK
<1>13. ASSUME NEW e \in Events, DescribeRuntime(e) PROVE TypeInv'
  <2>1. UNCHANGED <<vault, config, runtime, env, targets, kind, scope, attempts, at, left,
                    answers, overlapped, fresh>>
    BY <1>13 DEF DescribeRuntime, storeVars, eventVars, handlerVars
  <2>2. step' \in [Events -> Steps] /\ AttemptsFit'
    <3>1. Goto(e, "update") \/ Fail(e)
      BY <1>13 DEF DescribeRuntime
    <3>2. Moves(e)
      BY <3>1, StepsTyped, GotoMoves, FailTyped DEF Moves
    <3> QED
      BY <2>1, <3>2 DEF Moves, AttemptsFit, TypeInv
  <2>3. hand' \in [Events -> [Keys -> Values]]
    <3>1. CASE Fail(e)
      BY <3>1, FailTyped
    <3>2. CASE ~Fail(e)
      <4>1. PICK w \in at[e], secret \in 0..MaxSecrets :
                hand' = [hand EXCEPT ![e] = Merged(e, w, secret)]
        BY <1>13, <3>2 DEF DescribeRuntime
      <4>2. Merged(e, w, secret) \in [Keys -> Values]
        BY MergedTyped DEF TypeInv, TypeOK
      <4> QED
        BY <4>1, <4>2, TakesRecord DEF Takes
    <3> QED
      BY <3>1, <3>2
  <2>4. resolved' \in [Events -> 0..MaxSecrets]
    <3>1. UNCHANGED resolved \/ \E s \in 0..MaxSecrets : resolved' = [resolved EXCEPT ![e] = s]
      BY <1>13, BoundsAssumption DEF DescribeRuntime
    <3> QED
      BY <3>1 DEF TypeInv, TypeOK
  <2>5. failed' \in [Events -> SUBSET Workspaces]
    BY <1>13, FailTyped DEF TypeInv, TypeOK, DescribeRuntime
  <2>6. stale' \subseteq Events
    BY <1>13 DEF TypeInv, TypeOK, DescribeRuntime, Resolves
  <2>7. mishaps' \in 0..MaxMishaps
    BY <1>13, BoundsAssumption DEF TypeInv, TypeOK, DescribeRuntime, Mishap, Resolves
  <2> QED
    BY <2>1, <2>2, <2>3, <2>4, <2>5, <2>6, <2>7 DEF TypeInv, TypeOK
<1>14. ASSUME NEW e \in Events, UpdateRuntime(e) PROVE TypeInv'
  <2>1. UNCHANGED <<vault, config, targets, kind, scope, attempts, at, left, resolved,
                    answers, overlapped, stale, fresh>>
    BY <1>14 DEF UpdateRuntime, storeVars, eventVars, handlerVars
  <2>2. step' \in [Events -> Steps] /\ AttemptsFit'
    <3>1. Goto(e, AfterUpdate(kind[e])) \/ Fail(e)
      BY <1>14 DEF UpdateRuntime
    <3>2. Moves(e)
      BY <3>1, StepsTyped, GotoMoves, FailTyped DEF Moves
    <3> QED
      BY <2>1, <3>2 DEF Moves, AttemptsFit, TypeInv
  <2>3. runtime' \in [Workspaces -> {"none", "READY", "UPDATING"}]
    BY <1>14 DEF TypeInv, TypeOK, UpdateRuntime
  <2>4. env' \in [Workspaces -> [EnvKeys -> Values]]
    <3>1. CASE UNCHANGED env
      BY <3>1 DEF TypeInv, TypeOK
    <3>2. CASE ~UNCHANGED env
      <4>1. PICK w \in at[e] : env' = [env EXCEPT ![w] = [k \in EnvKeys |-> hand[e][k]]]
        BY <1>14, <3>2 DEF UpdateRuntime
      <4>2. [k \in EnvKeys |-> hand[e][k]] \in [EnvKeys -> Values]
        BY ValuesTyped DEF TypeInv, TypeOK
      <4> QED
        BY <4>1, <4>2 DEF TypeInv, TypeOK
    <3> QED
      BY <3>1, <3>2
  <2>5. hand' \in [Events -> [Keys -> Values]]
    <3>1. Fail(e) \/ Forget(e)
      BY <1>14 DEF UpdateRuntime
    <3> QED
      BY <3>1, FailTyped, TakesNothing DEF Takes
  <2>6. failed' \in [Events -> SUBSET Workspaces]
    BY <1>14, FailTyped DEF TypeInv, TypeOK, UpdateRuntime
  <2>7. mishaps' \in 0..MaxMishaps
    BY <1>14, BoundsAssumption DEF TypeInv, TypeOK, UpdateRuntime, Mishap
  <2> QED
    BY <2>1, <2>2, <2>3, <2>4, <2>5, <2>6, <2>7 DEF TypeInv, TypeOK
<1>15. ASSUME NEW e \in Events, ReadForPatch(e) PROVE TypeInv'
  <2>1. UNCHANGED <<vault, config, runtime, env, targets, kind, scope, attempts, at, left,
                    resolved, failed, answers, overlapped, stale, fresh>>
    BY <1>15 DEF ReadForPatch, storeVars, eventVars, handlerVars
  <2>2. step' \in [Events -> Steps] /\ AttemptsFit'
    BY <1>15, StepsTyped, <2>1 DEF TypeInv, TypeOK, ReadForPatch, Goto, HandlerAt, AttemptsFit
  <2>3. hand' \in [Events -> [Keys -> Values]]
    <3>1. CASE UNCHANGED hand
      BY <3>1, TakesNothing DEF Takes
    <3>2. CASE ~UNCHANGED hand
      <4>1. PICK w \in at[e] : hand' = [hand EXCEPT ![e] =
                [config[w] EXCEPT !["secret"] = IF resolved[e] # 0 THEN resolved[e] ELSE @]]
        BY <1>15, <3>2 DEF ReadForPatch
      <4>2. config[w] \in [Keys -> Values] /\ resolved[e] \in Values
        BY ValuesTyped DEF TypeInv, TypeOK
      <4>3. [config[w] EXCEPT !["secret"] = IF resolved[e] # 0 THEN resolved[e] ELSE @]
                \in [Keys -> Values]
        BY <4>2, ExceptTyped
      <4> QED
        BY <4>1, <4>3, TakesRecord DEF Takes
    <3> QED
      BY <3>1, <3>2
  <2>4. mishaps' \in 0..MaxMishaps
    BY <1>15, BoundsAssumption DEF TypeInv, TypeOK, ReadForPatch, Mishap
  <2> QED
    BY <2>1, <2>2, <2>3, <2>4 DEF TypeInv, TypeOK
<1>16. ASSUME NEW e \in Events, WritePatch(e) PROVE TypeInv'
  <2>1. UNCHANGED <<vault, runtime, env, targets, kind, scope, attempts, at, left, resolved,
                    failed, answers, overlapped, stale, fresh>>
    BY <1>16 DEF WritePatch, storeVars, eventVars, handlerVars
  <2>2. step' \in [Events -> Steps] /\ AttemptsFit'
    BY <1>16, StepsTyped, <2>1 DEF TypeInv, TypeOK, WritePatch, Goto, HandlerAt, AttemptsFit
  <2>3. config' \in [Workspaces -> [Keys -> Values]]
    BY <1>16 DEF TypeInv, TypeOK, WritePatch
  <2>4. hand' \in [Events -> [Keys -> Values]]
    BY <1>16, TakesNothing DEF WritePatch, Takes
  <2>5. mishaps' \in 0..MaxMishaps
    BY <1>16, BoundsAssumption DEF TypeInv, TypeOK, WritePatch, Mishap
  <2> QED
    BY <2>1, <2>2, <2>3, <2>4, <2>5 DEF TypeInv, TypeOK
<1>17. ASSUME NEW e \in Events, Dies(e) PROVE TypeInv'
  <2>1. UNCHANGED <<vault, config, runtime, env, targets, kind, scope, attempts, at, left,
                    resolved, failed, answers, overlapped, stale, fresh>>
    BY <1>17 DEF Dies, storeVars, eventVars, handlerVars
  <2>2. step' \in [Events -> Steps] /\ AttemptsFit'
    BY <1>17, ThrowTyped, <2>1 DEF TypeInv, TypeOK, Dies, Goto, HandlerAt, AttemptsFit
  <2>3. hand' \in [Events -> [Keys -> Values]]
    BY <1>17, ThrowTyped DEF TypeInv, TypeOK, Dies
  <2>4. mishaps' \in 0..MaxMishaps
    BY <1>17, BoundsAssumption DEF TypeInv, TypeOK, Dies, Mishap
  <2> QED
    BY <2>1, <2>2, <2>3, <2>4 DEF TypeInv, TypeOK
<1>18. CASE RefreshCredential
  <2>1. /\ UNCHANGED <<config, runtime, env, targets, kind, scope, step, attempts, at, left, hand,
                      resolved, failed, answers, overlapped, stale, fresh, mishaps>>
        /\ vault' \in 1..MaxSecrets
    BY <1>18, BoundsAssumption DEF RefreshCredential, eventVars, handlerVars, TypeInv, TypeOK
  <2> QED
    BY <2>1 DEF TypeInv, TypeOK, AttemptsFit
<1>19. ASSUME NEW w \in Workspaces, CreateRuntime(w) \/ RuntimeReady(w) PROVE TypeInv'
  <2>1. /\ UNCHANGED <<vault, config, env, targets, kind, scope, step, attempts, at, left, hand,
                      resolved, failed, answers, overlapped, stale, fresh, mishaps>>
        /\ runtime' = [runtime EXCEPT ![w] = "READY"]
    BY <1>19 DEF CreateRuntime, RuntimeReady, eventVars, handlerVars
  <2> QED
    BY <2>1 DEF TypeInv, TypeOK, AttemptsFit
<1>20. CASE UNCHANGED vars
  BY <1>20 DEF vars, TypeInv, TypeOK, AttemptsFit
<1> QED
  BY <1>1, <1>2, <1>3, <1>4, <1>5, <1>6, <1>7, <1>8, <1>9, <1>10, <1>11, <1>12, <1>13, <1>14,
     <1>15, <1>16, <1>17, <1>18, <1>19, <1>20
  DEF Next, InstallStep, SyncStep

\* The type invariant, for every set of workspaces and every bound.
THEOREM TypeCorrect == Spec => []TypeOK
<1>1. TypeInv => TypeOK
  BY DEF TypeInv
<1> QED
  BY <1>1, InitTyped, TypeInductive, PTL DEF Spec
-----------------------------------------------------------------------------
(* The settings of an install or sync, and what else a write leaves alone. *)

\* A config or an environment has the settings of an event.
SettingsIn(e, cfg) ==
    /\ kind[e] \in GithubSyncs =>
           cfg["github"] = e /\ (e \in stale \/ cfg["secret"] >= fresh[e])
    /\ kind[e] \in FigmaSyncs => cfg["figma"] = e
    /\ kind[e] = "githubUninstall" => cfg["github"] = 0 /\ cfg["secret"] = 0

\* A handler is at one workspace of its event at a time.
ScopeFits(e) ==
    /\ at[e] \subseteq scope[e] /\ left[e] \subseteq scope[e]
    /\ \A v, w \in at[e] : v = w
    /\ kind[e] # "credential" /\ step[e] # "idle" => at[e] = scope[e] /\ left[e] = {}
    /\ fresh[e] <= vault

\* Some steps belong to some kinds of event.
StepFits(e) ==
    /\ step[e] \in {"target", "server", "serverWrite", "emit"} => kind[e] \in Installs
    /\ step[e] \in {"patchRead", "patchWrite"} => kind[e] = "provision"

\* What an undisturbed handler is about to write differs from the config that
\* is there only in its own keys.
HandFits(e) ==
    Alone(e) /\ step[e] \in {"serverWrite", "write", "patchWrite"} =>
        \A w \in at[e] : \A k \in Keys \ Writes(kind[e]) : hand[e][k] = config[w][k]

TargetIsThere(e) ==
    /\ Alone(e) /\ Running(e) /\ kind[e] \in Installs
    /\ step[e] \notin {"target", "emitFailed"}
    => \A w \in scope[e] : ProviderOf(kind[e]) \in targets[w]

\* The settings are in what the handler writes; from the config's write on in
\* the config; and in config and environment of the workspaces it is done with.
HandIsSet(e) ==
    step[e] \in {"write", "update"} \/ (step[e] = "describe" /\ kind[e] # "provision") =>
        SettingsIn(e, hand[e])

ConfigIsSet(e) ==
    Alone(e) /\ step[e] \in {"describe", "update"} => \A w \in at[e] : SettingsIn(e, config[w])

DoneWith(e) ==
    (scope[e] \ (left[e] \cup failed[e])) \ (IF step[e] \in {"next", "emit"} THEN {} ELSE at[e])

DoneIsSet(e) ==
    Alone(e) /\ Running(e) =>
        \A w \in DoneWith(e) : SettingsIn(e, config[w]) /\ SettingsIn(e, env[w])

LocalInv(e) == /\ ScopeFits(e) /\ StepFits(e) /\ HandFits(e) /\ TargetIsThere(e)
               /\ HandIsSet(e) /\ ConfigIsSet(e) /\ DoneIsSet(e)

\* A handler that met no other one shares no workspace with a running one.
Isolated == \A d, e \in Events :
    d # e /\ Running(d) /\ Running(e) /\ Alone(e) => scope[d] \cap scope[e] = {}

ToolInv == TypeInv /\ Isolated /\ \A e \in Events : LocalInv(e)

LEMMA InitTool == Init => ToolInv
<1> SUFFICES ASSUME Init PROVE ToolInv
  OBVIOUS
<1>1. TypeInv
  BY InitTyped
<1>2. ASSUME NEW e \in Events
      PROVE  step[e] = "idle" /\ at[e] = {} /\ left[e] = {} /\ fresh[e] = 0 /\ vault = 1
  BY DEF Init
<1> QED
  BY <1>1, <1>2
  DEF ToolInv, Isolated, LocalInv, ScopeFits, StepFits, HandFits, TargetIsThere, HandIsSet,
      ConfigIsSet,
      DoneIsSet, Running

\* What the step of one handler leaves alone.
Frame(e) ==
    /\ Running(e) /\ Moves(e) /\ Takes(e)
    /\ UNCHANGED <<vault, kind, scope, overlapped, fresh>>
    /\ \A d \in Events \ {e} : /\ at'[d] = at[d] /\ left'[d] = left[d] /\ failed'[d] = failed[d]
                               /\ d \in stale' <=> d \in stale
    /\ failed[e] \subseteq failed'[e] /\ stale \subseteq stale'
    /\ \A w \in Workspaces \ at[e] : config'[w] = config[w] /\ env'[w] = env[w]
    /\ \A w \in Workspaces : targets[w] \subseteq targets'[w]

\* It keeps what holds of the other events, and their isolation.
LEMMA FrameIsolated ==
    ASSUME ToolInv, NEW e \in Events, Frame(e)
    PROVE  Isolated'
BY DEF ToolInv, Isolated, Frame, Moves, Running, Alone

LEMMA FrameKeepsOthers ==
    ASSUME ToolInv, NEW e \in Events, Frame(e), NEW d \in Events \ {e}
    PROVE  LocalInv(d)'
<1> DEFINE Same == /\ step'[d] = step[d] /\ hand'[d] = hand[d] /\ at'[d] = at[d]
                   /\ left'[d] = left[d] /\ failed'[d] = failed[d]
                   /\ d \in stale' <=> d \in stale
                   /\ UNCHANGED <<vault, kind, scope, overlapped, fresh>>
<1>1. Same
  BY DEF Frame, Moves, Takes
<1>2. at[d] \subseteq scope[d] /\ at[e] \subseteq scope[e] /\ scope[d] \subseteq Workspaces
  BY DEF ToolInv, LocalInv, ScopeFits, TypeInv, TypeOK
<1>3. ASSUME Alone(d), Running(d), NEW w \in scope[d]
      PROVE  config'[w] = config[w] /\ env'[w] = env[w] /\ targets[w] \subseteq targets'[w]
  BY <1>2, <1>3 DEF Frame, ToolInv, Isolated
<1> USE <1>1 DEF ToolInv, LocalInv
<1>4. ScopeFits(d)' /\ StepFits(d)'
  BY DEF ScopeFits, StepFits
<1>5. HandFits(d)'
  BY <1>2, <1>3 DEF HandFits, Alone, Running
<1>6. TargetIsThere(d)'
  BY <1>3 DEF TargetIsThere, Alone, Running
<1>7. HandIsSet(d)'
  BY DEF HandIsSet, SettingsIn
<1>8. ConfigIsSet(d)'
  BY <1>2, <1>3 DEF ConfigIsSet, SettingsIn, Alone, Running
<1>9. DoneIsSet(d)'
  <2>1. DoneWith(d)' = DoneWith(d) /\ DoneWith(d) \subseteq scope[d]
    BY DEF DoneWith
  <2> QED
    BY <1>3, <2>1 DEF DoneIsSet, SettingsIn, Alone, Running
<1> QED
  BY <1>4, <1>5, <1>6, <1>7, <1>8, <1>9
-----------------------------------------------------------------------------
(* A delivery. *)

LEMMA DeliverKeeps ==
    ASSUME ToolInv, NEW e \in Events, NEW k \in Kinds, NEW ws \in SUBSET Workspaces,
           step[e] \in {"idle", "retry"},
           Deliver(e, k, ws),
           kind' = [kind EXCEPT ![e] = k], scope' = [scope EXCEPT ![e] = ws],
           \A w \in Workspaces \ ws : targets'[w] = targets[w],
           k # "credential" => \A v, w \in ws : v = w
    PROVE  Isolated' /\ \A d \in Events : LocalInv(d)'
<1> DEFINE others == {d \in Events \ {e} : Running(d) /\ scope[d] \cap ws # {}}
<1>1. /\ step'[e] = FirstStep(k) /\ kind'[e] = k /\ scope'[e] = ws
      /\ at'[e] = (IF k = "credential" THEN {} ELSE ws)
      /\ left'[e] = (IF k = "credential" THEN ws ELSE {})
      /\ failed'[e] = {} /\ fresh'[e] = vault
  BY DEF Deliver, Goto, ToolInv, TypeInv, TypeOK
<1>2. ASSUME NEW d \in Events \ {e}
      PROVE  /\ step'[d] = step[d] /\ kind'[d] = kind[d] /\ scope'[d] = scope[d]
             /\ at'[d] = at[d] /\ left'[d] = left[d] /\ hand'[d] = hand[d]
             /\ failed'[d] = failed[d] /\ fresh'[d] = fresh[d]
             /\ d \in stale' <=> d \in stale
  BY DEF Deliver, Goto, ToolInv, TypeInv, TypeOK
<1>3. /\ UNCHANGED <<vault, config, env>>
      /\ overlapped' = IF others = {} THEN overlapped \ {e} ELSE overlapped \cup others \cup {e}
  BY DEF Deliver
<1>4. ASSUME NEW d \in Events \ {e}, Alone(d)', Running(d)
      PROVE  Alone(d) /\ scope[d] \cap ws = {}
  BY <1>3, <1>4 DEF Alone
<1>5. Alone(e)' => others = {}
  BY <1>3 DEF Alone
<1>6. Isolated'
  <2> SUFFICES ASSUME NEW c \in Events, NEW d \in Events, c # d,
                      Running(c)', Running(d)', Alone(d)'
               PROVE  scope'[c] \cap scope'[d] = {}
    BY DEF Isolated
  <2>1. CASE c = e
    BY <1>1, <1>2, <1>4, <2>1 DEF Running
  <2>2. CASE d = e
    BY <1>1, <1>2, <1>5, <2>2 DEF Running
  <2>3. CASE c # e /\ d # e
    BY <1>2, <1>4, <2>3 DEF Running, ToolInv, Isolated
  <2> QED
    BY <2>1, <2>2, <2>3
<1>7. LocalInv(e)'
  <2>1. step'[e] \in {"target", "next", "read"}
        /\ (step'[e] = "next" <=> k = "credential")
    BY <1>1 DEF FirstStep, Installs
  <2>2. ScopeFits(e)'
    BY <1>1, <1>3 DEF ScopeFits, ToolInv, TypeInv, TypeOK
  <2>3. StepFits(e)' /\ HandFits(e)' /\ HandIsSet(e)' /\ ConfigIsSet(e)'
    BY <1>1, <2>1 DEF StepFits, HandFits, HandIsSet, ConfigIsSet, FirstStep
  <2>4. TargetIsThere(e)'
    BY <1>1 DEF TargetIsThere, FirstStep
  <2>5. DoneIsSet(e)'
    BY <1>1, <2>1 DEF DoneIsSet, DoneWith
  <2> QED
    BY <2>2, <2>3, <2>4, <2>5 DEF LocalInv
<1>8. ASSUME NEW d \in Events \ {e} PROVE LocalInv(d)'
  <2>1. at[d] \subseteq scope[d] /\ scope[d] \subseteq Workspaces /\ LocalInv(d)
    BY DEF ToolInv, LocalInv, ScopeFits, TypeInv, TypeOK
  <2>2. ASSUME Alone(d)', Running(d), NEW w \in scope[d] PROVE targets'[w] = targets[w]
    BY <1>4, <2>1, <2>2
  <2> USE <1>2, <1>3, <2>1 DEF LocalInv
  <2>3. ScopeFits(d)' /\ StepFits(d)'
    BY DEF ScopeFits, StepFits
  <2>4. HandFits(d)'
    BY <1>4 DEF HandFits, Running
  <2>5. TargetIsThere(d)'
    BY <1>4, <2>2 DEF TargetIsThere, Running
  <2>6. HandIsSet(d)'
    BY DEF HandIsSet, SettingsIn
  <2>7. ConfigIsSet(d)'
    BY <1>4 DEF ConfigIsSet, SettingsIn, Running
  <2>8. DoneIsSet(d)'
    <3>1. DoneWith(d)' = DoneWith(d)
      BY DEF DoneWith
    <3> QED
      BY <1>4, <3>1 DEF DoneIsSet, SettingsIn, Running
  <2> QED
    BY <2>3, <2>4, <2>5, <2>6, <2>7, <2>8
<1> QED
  BY <1>6, <1>7, <1>8

LEMMA DeliveryKeeps ==
    ASSUME ToolInv, NEW e \in Events,
           \/ Redeliver(e)
           \/ \E k \in Kinds, ws \in SUBSET Workspaces \ {{}} : Receive(e, k, ws)
    PROVE  Isolated' /\ \A d \in Events : LocalInv(d)'
<1>1. CASE Redeliver(e)
  <2>1. kind[e] \in Kinds /\ scope[e] \in SUBSET Workspaces
    BY DEF ToolInv, TypeInv, TypeOK
  <2>2. /\ step[e] = "retry" /\ Deliver(e, kind[e], scope[e])
        /\ kind' = [kind EXCEPT ![e] = kind[e]] /\ scope' = [scope EXCEPT ![e] = scope[e]]
        /\ targets' = targets
    BY <1>1 DEF Redeliver, eventVars, HandlerAt, ToolInv, TypeInv, TypeOK
  <2>3. kind[e] # "credential" => \A v, w \in scope[e] : v = w
    BY <2>2 DEF ToolInv, LocalInv, ScopeFits
  <2> QED
    BY <2>1, <2>2, <2>3, DeliverKeeps
<1>2. CASE \E k \in Kinds, ws \in SUBSET Workspaces \ {{}} : Receive(e, k, ws)
  <2>1. PICK k \in Kinds, ws \in SUBSET Workspaces \ {{}} : Receive(e, k, ws)
    BY <1>2
  <2>2. /\ step[e] = "idle" /\ Deliver(e, k, ws)
        /\ kind' = [kind EXCEPT ![e] = k] /\ scope' = [scope EXCEPT ![e] = ws]
        /\ k # "credential" => \A v, w \in ws : v = w
    BY <2>1 DEF Receive, HandlerAt
  <2>3. \A w \in Workspaces \ ws : targets'[w] = targets[w]
    BY <2>1 DEF Receive, ToolInv, TypeInv, TypeOK
  <2> QED
    BY <2>2, <2>3, DeliverKeeps
<1> QED
  BY <1>1, <1>2

-----------------------------------------------------------------------------
(* The steps of a handler. *)

\* A handler stays at its workspaces but when it turns to the next one.
Stays == UNCHANGED <<at, left>>

LEMMA HandlerFrame ==
    ASSUME TypeInv, TypeInv', NEW e \in Events, InstallStep(e) \/ SyncStep(e) \/ Dies(e)
    PROVE  Frame(e) /\ (Stays \/ NextTarget(e))
<1> USE StepsTyped DEF Stays
<1> DEFINE Rest ==
        /\ UNCHANGED <<vault, kind, scope, overlapped, fresh>>
        /\ \A d \in Events \ {e} :
               at'[d] = at[d] /\ left'[d] = left[d] /\ (d \in stale' <=> d \in stale)
        /\ stale \subseteq stale'
        /\ \A w \in Workspaces \ at[e] : config'[w] = config[w] /\ env'[w] = env[w]
        /\ \A w \in Workspaces : targets[w] \subseteq targets'[w]
<1> DEFINE Fails == /\ \A d \in Events \ {e} : failed'[d] = failed[d]
                    /\ failed[e] \subseteq failed'[e]
<1>0. /\ Fail(e) => Moves(e) /\ Takes(e) /\ Fails
      /\ Throw(e) => Moves(e) /\ Takes(e)
      /\ (Forget(e) \/ UNCHANGED hand) => Takes(e)
      /\ UNCHANGED failed => Fails
  BY FailTyped, ThrowTyped, TakesNothing DEF Moves, Takes
<1>1. ASSUME NextTarget(e) PROVE Frame(e)
  <2>1. Rest
    BY <1>1 DEF NextTarget, TypeInv, TypeOK, storeVars, eventVars, handlerVars
  <2>2. Goto(e, "read") \/ Goto(e, "done") \/ Throw(e)
    BY <1>1 DEF NextTarget
  <2>3. Moves(e)
    BY <1>0, <2>2, GotoMoves
  <2>4. Takes(e) /\ Fails
    BY <1>0, <1>1 DEF NextTarget, Takes, TypeInv, TypeOK
  <2>5. Running(e)
    BY <1>1 DEF NextTarget, Running, HandlerAt, Missing, handlerVars
  <2> QED
    BY <2>1, <2>3, <2>4, <2>5 DEF Frame
<1>2. ASSUME InstallTarget(e) PROVE Frame(e) /\ Stays
  <2>1. Rest
    BY <1>2 DEF InstallTarget, TypeInv, TypeOK, storeVars, eventVars, handlerVars
  <2>2. Goto(e, "server")
    BY <1>2 DEF InstallTarget
  <2>3. Moves(e)
    BY <1>0, <2>2, GotoMoves
  <2>4. Takes(e) /\ Fails
    BY <1>0, <1>2 DEF InstallTarget, Takes, TypeInv, TypeOK
  <2>5. Running(e) /\ Stays
    BY <1>2 DEF InstallTarget, Running, HandlerAt, Missing, handlerVars
  <2> QED
    BY <2>1, <2>3, <2>4, <2>5 DEF Frame
<1>3. ASSUME InstallFails(e) PROVE Frame(e) /\ Stays
  <2>1. Rest
    <3>1. PICK w \in at[e] : \/ UNCHANGED targets
                             \/ targets' = [targets EXCEPT ![w] = @ \cup {ProviderOf(kind[e])}]
      BY <1>3 DEF InstallFails
    <3>2. \A v \in Workspaces : targets[v] \subseteq targets'[v]
      <4>1. CASE UNCHANGED targets
        BY <4>1
      <4>2. CASE targets' = [targets EXCEPT ![w] = @ \cup {ProviderOf(kind[e])}]
        BY <4>2 DEF TypeInv, TypeOK
      <4> QED
        BY <3>1, <4>1, <4>2
    <3> QED
      BY <1>3, <3>2 DEF InstallFails, storeVars, eventVars, handlerVars
  <2>2. Fail(e)
    BY <1>3 DEF InstallFails
  <2>3. Moves(e)
    BY <1>0, <2>2, GotoMoves
  <2>4. Takes(e) /\ Fails
    BY <1>0, <1>3 DEF InstallFails, Takes, TypeInv, TypeOK
  <2>5. Running(e) /\ Stays
    BY <1>3 DEF InstallFails, Running, HandlerAt, Missing, handlerVars
  <2> QED
    BY <2>1, <2>3, <2>4, <2>5 DEF Frame
<1>4. ASSUME ReadForServer(e) PROVE Frame(e) /\ Stays
  <2>1. Rest
    BY <1>4 DEF ReadForServer, TypeInv, TypeOK, storeVars, eventVars, handlerVars
  <2>2. Goto(e, "serverWrite") \/ Goto(e, AfterInstall(kind[e]))
    BY <1>4 DEF ReadForServer
  <2>3. Moves(e)
    BY <1>0, <2>2, GotoMoves
  <2>4. Takes(e) /\ Fails
    BY <1>0, <1>4 DEF ReadForServer, Takes, TypeInv, TypeOK
  <2>5. Running(e) /\ Stays
    BY <1>4 DEF ReadForServer, Running, HandlerAt, Missing, handlerVars
  <2> QED
    BY <2>1, <2>3, <2>4, <2>5 DEF Frame
<1>5. ASSUME WriteServer(e) PROVE Frame(e) /\ Stays
  <2>1. Rest
    BY <1>5 DEF WriteServer, TypeInv, TypeOK, storeVars, eventVars, handlerVars
  <2>2. Goto(e, AfterInstall(kind[e]))
    BY <1>5 DEF WriteServer
  <2>3. Moves(e)
    BY <1>0, <2>2, GotoMoves
  <2>4. Takes(e) /\ Fails
    BY <1>0, <1>5 DEF WriteServer, Takes, TypeInv, TypeOK
  <2>5. Running(e) /\ Stays
    BY <1>5 DEF WriteServer, Running, HandlerAt, Missing, handlerVars
  <2> QED
    BY <2>1, <2>3, <2>4, <2>5 DEF Frame
<1>6. ASSUME Emit(e) PROVE Frame(e) /\ Stays
  <2>1. Rest
    BY <1>6 DEF Emit, TypeInv, TypeOK, storeVars, eventVars, handlerVars
  <2>2. Goto(e, "done") \/ Goto(e, "emitFailed")
    BY <1>6 DEF Emit
  <2>3. Moves(e)
    BY <1>0, <2>2, GotoMoves
  <2>4. Takes(e) /\ Fails
    BY <1>0, <1>6 DEF Emit, Takes, TypeInv, TypeOK
  <2>5. Running(e) /\ Stays
    BY <1>6 DEF Emit, Running, HandlerAt, Missing, handlerVars
  <2> QED
    BY <2>1, <2>3, <2>4, <2>5 DEF Frame
<1>7. ASSUME EmitFailed(e) PROVE Frame(e) /\ Stays
  <2>1. Rest
    BY <1>7 DEF EmitFailed, TypeInv, TypeOK, storeVars, eventVars, handlerVars
  <2>2. Goto(e, "done") \/ Throw(e)
    BY <1>7 DEF EmitFailed
  <2>3. Moves(e)
    BY <1>0, <2>2, GotoMoves
  <2>4. Takes(e) /\ Fails
    BY <1>0, <1>7 DEF EmitFailed, Takes, TypeInv, TypeOK
  <2>5. Running(e) /\ Stays
    BY <1>7 DEF EmitFailed, Running, HandlerAt, Missing, handlerVars
  <2> QED
    BY <2>1, <2>3, <2>4, <2>5 DEF Frame
<1>8. ASSUME RuntimeMissing(e) PROVE Frame(e) /\ Stays
  <2>1. Rest
    BY <1>8 DEF RuntimeMissing, TypeInv, TypeOK, storeVars, eventVars, handlerVars
  <2>2. Fail(e)
    BY <1>8 DEF RuntimeMissing
  <2>3. Moves(e)
    BY <1>0, <2>2, GotoMoves
  <2>4. Takes(e) /\ Fails
    BY <1>0, <1>8 DEF RuntimeMissing, Takes, TypeInv, TypeOK
  <2>5. Running(e) /\ Stays
    BY <1>8 DEF RuntimeMissing, Running, HandlerAt, Missing, handlerVars
  <2> QED
    BY <2>1, <2>3, <2>4, <2>5 DEF Frame
<1>9. ASSUME ReadConfig(e) PROVE Frame(e) /\ Stays
  <2>1. Rest
    BY <1>9 DEF ReadConfig, TypeInv, TypeOK, storeVars, eventVars, handlerVars, Resolves, Mishap
  <2>2. Goto(e, "write") \/ Goto(e, "describe") \/ Fail(e)
    BY <1>9 DEF ReadConfig
  <2>3. Moves(e)
    BY <1>0, <2>2, GotoMoves
  <2>4. Takes(e) /\ Fails
    BY <1>0, <1>9 DEF ReadConfig, Takes, TypeInv, TypeOK
  <2>5. Running(e) /\ Stays
    BY <1>9 DEF ReadConfig, Running, HandlerAt, Missing, handlerVars
  <2> QED
    BY <2>1, <2>3, <2>4, <2>5 DEF Frame
<1>10. ASSUME WriteConfig(e) PROVE Frame(e) /\ Stays
  <2>1. Rest
    BY <1>10 DEF WriteConfig, TypeInv, TypeOK, storeVars, eventVars, handlerVars
  <2>2. Goto(e, "next") \/ Goto(e, "describe") \/ Fail(e)
    BY <1>10 DEF WriteConfig
  <2>3. Moves(e)
    BY <1>0, <2>2, GotoMoves
  <2>4. Takes(e) /\ Fails
    BY <1>0, <1>10 DEF WriteConfig, Takes, TypeInv, TypeOK
  <2>5. Running(e) /\ Stays
    BY <1>10 DEF WriteConfig, Running, HandlerAt, Missing, handlerVars
  <2> QED
    BY <2>1, <2>3, <2>4, <2>5 DEF Frame
<1>11. ASSUME DescribeRuntime(e) PROVE Frame(e) /\ Stays
  <2>1. Rest
    BY <1>11
    DEF DescribeRuntime, TypeInv, TypeOK, storeVars, eventVars, handlerVars, Resolves, Mishap
  <2>2. Goto(e, "update") \/ Fail(e)
    BY <1>11 DEF DescribeRuntime
  <2>3. Moves(e)
    BY <1>0, <2>2, GotoMoves
  <2>4. Takes(e) /\ Fails
    BY <1>0, <1>11 DEF DescribeRuntime, Takes, TypeInv, TypeOK
  <2>5. Running(e) /\ Stays
    BY <1>11 DEF DescribeRuntime, Running, HandlerAt, Missing, handlerVars
  <2> QED
    BY <2>1, <2>3, <2>4, <2>5 DEF Frame
<1>12. ASSUME UpdateRuntime(e) PROVE Frame(e) /\ Stays
  <2>1. Rest
    BY <1>12 DEF UpdateRuntime, TypeInv, TypeOK, storeVars, eventVars, handlerVars
  <2>2. Goto(e, AfterUpdate(kind[e])) \/ Fail(e)
    BY <1>12 DEF UpdateRuntime
  <2>3. Moves(e)
    BY <1>0, <2>2, GotoMoves
  <2>4. Takes(e) /\ Fails
    BY <1>0, <1>12 DEF UpdateRuntime, Takes, TypeInv, TypeOK
  <2>5. Running(e) /\ Stays
    BY <1>12 DEF UpdateRuntime, Running, HandlerAt, Missing, handlerVars
  <2> QED
    BY <2>1, <2>3, <2>4, <2>5 DEF Frame
<1>13. ASSUME ReadForPatch(e) PROVE Frame(e) /\ Stays
  <2>1. Rest
    BY <1>13 DEF ReadForPatch, TypeInv, TypeOK, storeVars, eventVars, handlerVars
  <2>2. Goto(e, "patchWrite") \/ Goto(e, "next")
    BY <1>13 DEF ReadForPatch
  <2>3. Moves(e)
    BY <1>0, <2>2, GotoMoves
  <2>4. Takes(e) /\ Fails
    BY <1>0, <1>13 DEF ReadForPatch, Takes, TypeInv, TypeOK
  <2>5. Running(e) /\ Stays
    BY <1>13 DEF ReadForPatch, Running, HandlerAt, Missing, handlerVars
  <2> QED
    BY <2>1, <2>3, <2>4, <2>5 DEF Frame
<1>14. ASSUME WritePatch(e) PROVE Frame(e) /\ Stays
  <2>1. Rest
    BY <1>14 DEF WritePatch, TypeInv, TypeOK, storeVars, eventVars, handlerVars
  <2>2. Goto(e, "next")
    BY <1>14 DEF WritePatch
  <2>3. Moves(e)
    BY <1>0, <2>2, GotoMoves
  <2>4. Takes(e) /\ Fails
    BY <1>0, <1>14 DEF WritePatch, Takes, TypeInv, TypeOK
  <2>5. Running(e) /\ Stays
    BY <1>14 DEF WritePatch, Running, HandlerAt, Missing, handlerVars
  <2> QED
    BY <2>1, <2>3, <2>4, <2>5 DEF Frame
<1>15. ASSUME Dies(e) PROVE Frame(e) /\ Stays
  <2>1. Rest
    BY <1>15 DEF Dies, TypeInv, TypeOK, storeVars, eventVars, handlerVars
  <2>2. Throw(e)
    BY <1>15 DEF Dies
  <2>3. Moves(e)
    BY <1>0, <2>2, GotoMoves
  <2>4. Takes(e) /\ Fails
    BY <1>0, <1>15 DEF Dies, Takes, TypeInv, TypeOK
  <2>5. Running(e) /\ Stays
    BY <1>15 DEF Dies, Running, HandlerAt, Missing, handlerVars
  <2> QED
    BY <2>1, <2>3, <2>4, <2>5 DEF Frame
<1> QED
  BY <1>1, <1>2, <1>3, <1>4, <1>5, <1>6, <1>7, <1>8, <1>9, <1>10, <1>11, <1>12, <1>13, <1>14,
     <1>15 DEF InstallStep, SyncStep

\* A step of a handler that stays at its workspaces keeps what holds of its
\* event when it takes nothing to write or to compare, and has left the
\* settings in the workspaces it is done with.
LEMMA FrameKeepsOwn ==
    ASSUME ToolInv, NEW e \in Events, Frame(e), Stays,
           \/ step[e] \notin {"target", "emitFailed"}
           \/ kind[e] \notin Installs
           \/ step'[e] \in {"emitFailed", "retry", "dead", "done"}
           \/ \A w \in scope[e] : ProviderOf(kind[e]) \in targets'[w],
           Alone(e) /\ step'[e] \in {"next", "emit"} =>
               \A w \in at[e] \ failed'[e] : SettingsIn(e, config[w])' /\ SettingsIn(e, env[w])'
    PROVE  ScopeFits(e)' /\ TargetIsThere(e)' /\ DoneIsSet(e)'
<1>1. /\ UNCHANGED <<vault, kind, scope, overlapped, fresh, at, left>>
      /\ failed[e] \subseteq failed'[e] /\ stale \subseteq stale'
      /\ Running(e) /\ LocalInv(e)
  BY DEF Frame, Stays, ToolInv
<1>2. at[e] \subseteq scope[e] /\ scope[e] \subseteq Workspaces
  BY DEF ToolInv, LocalInv, ScopeFits, TypeInv, TypeOK
<1>3. ScopeFits(e)'
  BY <1>1 DEF LocalInv, ScopeFits, Running
<1>4. TargetIsThere(e)'
  <2>1. \A w \in scope[e] : targets[w] \subseteq targets'[w]
    BY <1>2 DEF Frame
  <2> QED
    BY <1>1, <2>1 DEF LocalInv, TargetIsThere, Alone, Running
<1>5. DoneIsSet(e)'
  <2> SUFFICES ASSUME Alone(e)', Running(e)', NEW w \in DoneWith(e)'
               PROVE  SettingsIn(e, config[w])' /\ SettingsIn(e, env[w])'
    BY DEF DoneIsSet
  <2>1. CASE w \in at[e]
    BY <1>1, <2>1 DEF DoneWith, Alone
  <2>2. CASE w \notin at[e]
    <3>1. w \in DoneWith(e) /\ w \in Workspaces
      BY <1>1, <1>2, <2>2 DEF DoneWith
    <3>2. config'[w] = config[w] /\ env'[w] = env[w]
      BY <2>2, <3>1 DEF Frame
    <3>3. SettingsIn(e, config[w]) /\ SettingsIn(e, env[w])
      BY <1>1, <3>1 DEF LocalInv, DoneIsSet, Alone
    <3> QED
      BY <1>1, <3>2, <3>3 DEF SettingsIn
  <2> QED
    BY <2>1, <2>2
<1> QED
  BY <1>3, <1>4, <1>5

\* The other parts say nothing of a handler that is at none of their steps.
LEMMA RestsOwn ==
    ASSUME NEW e \in Events,
           step'[e] \notin {"serverWrite", "write", "patchWrite", "describe", "update"}
    PROVE  HandFits(e)' /\ HandIsSet(e)' /\ ConfigIsSet(e)'
BY DEF HandFits, HandIsSet, ConfigIsSet

\* An event of another kind has no settings.
LEMMA NoSettings ==
    ASSUME NEW e \in Events, kind[e] \notin EnvSyncs, NEW cfg
    PROVE  SettingsIn(e, cfg)
BY DEF SettingsIn, EnvSyncs, GithubSyncs, FigmaSyncs, Uninstalls

\* Each step of a handler keeps what holds of its event.
LEMMA InstallKeepsOwn ==
    ASSUME ToolInv, TypeInv', NEW e \in Events, InstallStep(e)
    PROVE  LocalInv(e)'
<1>1. Frame(e) /\ Stays
  <2>1. ~NextTarget(e)
    BY DEF InstallStep, NextTarget, InstallTarget, InstallFails, ReadForServer, WriteServer, Emit,
           EmitFailed, HandlerAt
  <2> QED
    BY <2>1, HandlerFrame DEF ToolInv
<1>2. /\ UNCHANGED <<vault, kind, scope, overlapped, fresh, at, left>>
      /\ step \in [Events -> Steps] /\ kind[e] \in Kinds /\ LocalInv(e)
      /\ hand \in [Events -> [Keys -> Values]] /\ config \in [Workspaces -> [Keys -> Values]]
      /\ at[e] \subseteq scope[e] /\ scope[e] \subseteq Workspaces
  BY <1>1 DEF Frame, Stays, ToolInv, LocalInv, ScopeFits, TypeInv, TypeOK
<1>3. CASE InstallTarget(e)
  <2>1. step'[e] = "server" /\ step[e] = "target"
    BY <1>2, <1>3 DEF InstallTarget, Goto, HandlerAt
  <2>2. kind[e] \in Installs
    BY <1>2, <2>1 DEF LocalInv, StepFits
  <2>3. at[e] = scope[e]
    BY <1>2, <2>1, <2>2 DEF LocalInv, ScopeFits, Installs
  <2>4. \A w \in scope[e] : ProviderOf(kind[e]) \in targets'[w]
    <3>1. PICK w \in at[e] : targets' = [targets EXCEPT ![w] = @ \cup {ProviderOf(kind[e])}]
      BY <1>3 DEF InstallTarget
    <3>2. \A v \in at[e] : v = w
      BY <1>2 DEF LocalInv, ScopeFits
    <3>3. targets'[w] = targets[w] \cup {ProviderOf(kind[e])}
      BY <1>2, <3>1 DEF ToolInv, TypeInv, TypeOK
    <3> QED
      BY <2>3, <3>2, <3>3
  <2>5. ScopeFits(e)' /\ TargetIsThere(e)' /\ DoneIsSet(e)'
    BY <1>1, <2>1, <2>4, FrameKeepsOwn
  <2>6. StepFits(e)'
    BY <1>2, <2>1, <2>2 DEF StepFits
  <2> QED
    BY <2>1, <2>5, <2>6, RestsOwn DEF LocalInv
<1>4. CASE InstallFails(e)
  <2>1. step[e] = "target" /\ step'[e] \in {"emitFailed", "next", "retry", "dead"}
        /\ (step'[e] = "next" => kind[e] = "credential")
    BY <1>4, FailTyped DEF InstallFails, HandlerAt, ToolInv
  <2>2. kind[e] \in Installs
    BY <1>2, <2>1 DEF LocalInv, StepFits
  <2>3. step'[e] \in {"emitFailed", "retry", "dead"}
    BY <2>1, <2>2 DEF Installs
  <2>4. ScopeFits(e)' /\ TargetIsThere(e)' /\ DoneIsSet(e)'
    BY <1>1, <2>3, FrameKeepsOwn
  <2>5. StepFits(e)'
    BY <2>3 DEF StepFits
  <2> QED
    BY <2>3, <2>4, <2>5, RestsOwn DEF LocalInv
<1>5. ASSUME step[e] \in {"server", "serverWrite"}, Goto(e, AfterInstall(kind[e]))
      PROVE  LocalInv(e)'
  <2>1. step'[e] \in {"read", "emit"} /\ (step'[e] = "emit" => kind[e] \notin EnvSyncs)
    BY <1>2, <1>5 DEF Goto, AfterInstall
  <2>2. step'[e] = "emit" =>
            \A w \in at[e] \ failed'[e] : SettingsIn(e, config[w])' /\ SettingsIn(e, env[w])'
    BY <1>2, <2>1 DEF SettingsIn, EnvSyncs, GithubSyncs, FigmaSyncs, Uninstalls
  <2>3. ScopeFits(e)' /\ TargetIsThere(e)' /\ DoneIsSet(e)'
    BY <1>1, <1>5, <2>1, <2>2, FrameKeepsOwn
  <2>4. StepFits(e)'
    BY <1>2, <1>5, <2>1 DEF StepFits, LocalInv
  <2> QED
    BY <2>1, <2>3, <2>4, RestsOwn DEF LocalInv
<1>6. CASE ReadForServer(e)
  <2>1. CASE Goto(e, AfterInstall(kind[e]))
    BY <1>5, <1>6, <2>1 DEF ReadForServer, HandlerAt
  <2>2. CASE ~Goto(e, AfterInstall(kind[e]))
    <3>1. PICK w \in at[e] : /\ hand' = [hand EXCEPT ![e] = [config[w] EXCEPT !["server"] = e]]
                             /\ Goto(e, "serverWrite")
      BY <1>6, <2>2 DEF ReadForServer
    <3>2. /\ step[e] = "server" /\ step'[e] = "serverWrite"
          /\ hand'[e] = [config[w] EXCEPT !["server"] = e]
      BY <1>2, <1>6, <3>1 DEF ReadForServer, Goto, HandlerAt
    <3>3. kind[e] \in Installs
      BY <1>2, <3>2 DEF LocalInv, StepFits
    <3>4. ScopeFits(e)' /\ TargetIsThere(e)' /\ DoneIsSet(e)'
      BY <1>1, <3>2, FrameKeepsOwn
    <3>5. HandFits(e)'
      <4>1. \A v \in at[e] : v = w
        BY <1>2 DEF LocalInv, ScopeFits
      <4>2. \A k \in Keys \ {"server"} : hand'[e][k] = config[w][k]
        BY <1>2, <3>2
      <4>3. "server" \in Writes(kind[e])
        BY <3>3 DEF Writes
      <4>4. UNCHANGED config
        BY <1>6 DEF ReadForServer, storeVars
      <4> QED
        BY <1>2, <4>1, <4>2, <4>3, <4>4 DEF HandFits
    <3>6. StepFits(e)' /\ HandIsSet(e)' /\ ConfigIsSet(e)'
      BY <1>2, <3>2, <3>3 DEF StepFits, HandIsSet, ConfigIsSet
    <3> QED
      BY <3>4, <3>5, <3>6 DEF LocalInv
  <2> QED
    BY <2>1, <2>2
<1>7. CASE WriteServer(e)
  BY <1>5, <1>7 DEF WriteServer, HandlerAt
<1>8. CASE Emit(e) \/ EmitFailed(e)
  <2>1. step'[e] \in {"done", "emitFailed", "retry", "dead"}
    BY <1>2, <1>8, ThrowTyped DEF Emit, EmitFailed, Goto, ToolInv
  <2>2. ScopeFits(e)' /\ TargetIsThere(e)' /\ DoneIsSet(e)'
    BY <1>1, <2>1, FrameKeepsOwn
  <2>3. StepFits(e)'
    BY <2>1 DEF StepFits
  <2> QED
    BY <2>1, <2>2, <2>3, RestsOwn DEF LocalInv
<1> QED
  BY <1>3, <1>4, <1>6, <1>7, <1>8 DEF InstallStep

\* A handler that fails, throws or dies has nothing in its hand, and a fan-out
\* notes the workspace.
LEMMA FailKeepsOwn ==
    ASSUME ToolInv, NEW e \in Events, Frame(e), Stays, Fail(e) \/ Throw(e)
    PROVE  LocalInv(e)'
<1>1. /\ step'[e] \in {"emitFailed", "next", "retry", "dead"}
      /\ step'[e] = "next" => kind[e] = "credential" /\ at[e] \subseteq failed'[e]
  BY FailTyped, ThrowTyped DEF ToolInv
<1>2. ScopeFits(e)' /\ TargetIsThere(e)' /\ DoneIsSet(e)'
  <2>1. CASE step'[e] = "next"
    <3>1. kind[e] \notin Installs
      BY <1>1, <2>1 DEF Installs
    <3> QED
      BY <1>1, <2>1, <3>1, FrameKeepsOwn
  <2>2. CASE step'[e] # "next"
    BY <1>1, <2>2, FrameKeepsOwn
  <2> QED
    BY <2>1, <2>2
<1>3. StepFits(e)'
  BY <1>1 DEF StepFits
<1> QED
  BY <1>1, <1>2, <1>3, RestsOwn DEF LocalInv

\* The config and the environment that a handler makes have its settings: a
\* secret is the vault's, or the handler took the config's.
LEMMA PatchedIsSet ==
    ASSUME NEW e \in Events, NEW w \in Workspaces, NEW secret \in 0..MaxSecrets, ToolInv,
           UNCHANGED <<kind, fresh>>, Resolves(e, config[w], secret)
    PROVE  /\ \A cfg : cfg = Patched(e, config[w], secret) => SettingsIn(e, cfg)'
           /\ \A k \in Keys \ Writes(kind[e]) : Patched(e, config[w], secret)[k] = config[w][k]
<1>1. fresh[e] <= vault /\ fresh[e] \in Nat /\ vault \in Nat
  BY BoundsAssumption DEF ToolInv, LocalInv, ScopeFits, TypeInv, TypeOK
<1>2. kind[e] \in GithubSyncs => e \in stale' \/ secret >= fresh[e]
  BY <1>1 DEF Resolves, NeedsSecret, ToolInv, TypeInv, TypeOK
<1>3. "github" \in Keys /\ "secret" \in Keys /\ "figma" \in Keys
  BY DEF Keys, EnvKeys
<1>4. ASSUME NEW cfg, cfg = Patched(e, config[w], secret) PROVE SettingsIn(e, cfg)'
  BY <1>2, <1>3, <1>4
  DEF SettingsIn, Patched, OwnKeys, GithubSyncs, FigmaSyncs, Uninstalls
<1>5. \A k \in Keys \ Writes(kind[e]) : Patched(e, config[w], secret)[k] = config[w][k]
  BY DEF Patched, Writes
<1> QED
  BY <1>4, <1>5

LEMMA MergedIsSet ==
    ASSUME NEW e \in Events, NEW w \in Workspaces, NEW secret \in 0..MaxSecrets, ToolInv,
           UNCHANGED <<kind, fresh>>, Resolves(e, hand[e], secret),
           kind[e] # "provision", SettingsIn(e, hand[e])
    PROVE  \A cfg : cfg = Merged(e, w, secret) => SettingsIn(e, cfg)'
<1>1. fresh[e] <= vault /\ fresh[e] \in Nat /\ vault \in Nat /\ vault # 0
  BY BoundsAssumption DEF ToolInv, LocalInv, ScopeFits, TypeInv, TypeOK
<1>2. kind[e] \in GithubSyncs => secret # 0 /\ (e \in stale' \/ secret >= fresh[e])
  BY <1>1 DEF Resolves, NeedsSecret, ToolInv, TypeInv, TypeOK
<1>3. "github" \in Keys /\ "secret" \in Keys /\ "figma" \in Keys /\ e # 0
  BY ValuesTyped DEF Keys, EnvKeys
<1>4. ASSUME NEW cfg, cfg = Merged(e, w, secret) PROVE SettingsIn(e, cfg)'
  <2>1. CASE kind[e] \in GithubSyncs
    <3>1. kind[e] \notin FigmaSyncs \cup {"githubUninstall"} /\ RemovedKeys(kind[e]) = {}
      BY <2>1 DEF GithubSyncs, FigmaSyncs, RemovedKeys
    <3>2. cfg["secret"] = secret
      BY <1>2, <1>3, <1>4, <2>1, <3>1 DEF Merged
    <3>3. cfg["github"] = e
      BY <1>3, <1>4, <2>1, <3>1 DEF Merged, Overlaid, SettingsIn
    <3> QED
      BY <1>2, <2>1, <3>1, <3>2, <3>3 DEF SettingsIn
  <2>2. CASE kind[e] \in FigmaSyncs
    <3>1. kind[e] \notin GithubSyncs \cup {"githubUninstall"} /\ RemovedKeys(kind[e]) = {}
      BY <2>2 DEF GithubSyncs, FigmaSyncs, RemovedKeys
    <3>2. cfg["figma"] = e
      BY <1>3, <1>4, <2>2, <3>1 DEF Merged, Overlaid, SettingsIn
    <3> QED
      BY <3>1, <3>2 DEF SettingsIn
  <2>3. CASE kind[e] = "githubUninstall"
    BY <1>3, <1>4, <2>3 DEF SettingsIn, Merged, RemovedKeys, GithubSyncs, FigmaSyncs
  <2> QED
    BY <2>1, <2>2, <2>3 DEF SettingsIn
<1> QED
  BY <1>4

LEMMA SyncKeepsOwn ==
    ASSUME ToolInv, TypeInv', NEW e \in Events, SyncStep(e), ~NextTarget(e)
    PROVE  LocalInv(e)'
<1>1. Frame(e) /\ Stays
  BY HandlerFrame DEF ToolInv
<1>2. /\ UNCHANGED <<vault, kind, scope, overlapped, fresh, at, left>>
      /\ step \in [Events -> Steps] /\ kind[e] \in Kinds /\ LocalInv(e)
      /\ hand \in [Events -> [Keys -> Values]] /\ config \in [Workspaces -> [Keys -> Values]]
      /\ env \in [Workspaces -> [EnvKeys -> Values]]
      /\ at[e] \subseteq scope[e] /\ scope[e] \subseteq Workspaces
      /\ stale \subseteq stale'
  BY <1>1 DEF Frame, Stays, ToolInv, LocalInv, ScopeFits, TypeInv, TypeOK
<1>3. \A v, w \in at[e] : v = w
  BY <1>2 DEF LocalInv, ScopeFits
<1>4. CASE Fail(e)
  BY <1>1, <1>4, FailKeepsOwn
<1> SUFFICES ASSUME ~Fail(e) PROVE LocalInv(e)'
  BY <1>4
<1>5. CASE ReadConfig(e)
  <2>1. PICK w \in at[e] :
            \/ /\ kind[e] # "provision"
               /\ \E secret \in 0..MaxSecrets :
                     /\ Resolves(e, config[w], secret)
                     /\ hand' = [hand EXCEPT ![e] = Patched(e, config[w], secret)]
               /\ Goto(e, "write")
            \/ /\ kind[e] = "provision"
               /\ hand' = [hand EXCEPT ![e] = config[w]]
               /\ Goto(e, "describe")
    BY <1>5 DEF ReadConfig
  <2>2. step[e] = "read" /\ step'[e] \in {"write", "describe"}
        /\ (step'[e] = "describe" => kind[e] = "provision")
    BY <1>2, <1>5, <2>1 DEF ReadConfig, Goto, HandlerAt
  <2>3. ScopeFits(e)' /\ TargetIsThere(e)' /\ DoneIsSet(e)'
    BY <1>1, <2>2, FrameKeepsOwn
  <2>4. StepFits(e)'
    BY <2>2 DEF StepFits
  <2>5. UNCHANGED config
    BY <1>5 DEF ReadConfig, storeVars
  <2>6. CASE kind[e] = "provision"
    <3>1. step'[e] = "describe" /\ ~(kind[e] \in EnvSyncs)
      BY <1>2, <2>1, <2>6 DEF Goto, EnvSyncs, GithubSyncs, FigmaSyncs, Uninstalls
    <3>2. HandFits(e)' /\ HandIsSet(e)'
      BY <1>2, <2>6, <3>1 DEF HandFits, HandIsSet
    <3>3. ConfigIsSet(e)'
      BY <1>2, <2>6 DEF ConfigIsSet, SettingsIn, GithubSyncs, FigmaSyncs
    <3> QED
      BY <2>3, <2>4, <3>2, <3>3 DEF LocalInv
  <2>7. CASE kind[e] # "provision"
    <3>1. PICK secret \in 0..MaxSecrets :
              /\ Resolves(e, config[w], secret)
              /\ hand' = [hand EXCEPT ![e] = Patched(e, config[w], secret)]
      BY <2>1, <2>7
    <3>2. step'[e] = "write" /\ hand'[e] = Patched(e, config[w], secret)
      BY <1>2, <2>1, <2>7, <3>1 DEF Goto
    <3>3. w \in Workspaces
      BY <1>2
    <3>4. \A k \in Keys \ Writes(kind[e]) : hand'[e][k] = config[w][k]
      BY <1>2, <3>1, <3>2, <3>3, PatchedIsSet
    <3>5. HandFits(e)'
      BY <1>2, <1>3, <2>5, <3>4 DEF HandFits
    <3>6. HandIsSet(e)'
      BY <1>2, <3>1, <3>2, <3>3, PatchedIsSet DEF HandIsSet, SettingsIn
    <3>7. ConfigIsSet(e)'
      BY <3>2 DEF ConfigIsSet
    <3> QED
      BY <2>3, <2>4, <3>5, <3>6, <3>7 DEF LocalInv
  <2> QED
    BY <2>6, <2>7
<1>6. CASE WriteConfig(e)
  <2>1. PICK w \in at[e] : /\ config' = [config EXCEPT ![w] = hand[e]]
                           /\ Goto(e, IF kind[e] = "policy" THEN "next" ELSE "describe")
                           /\ UNCHANGED <<hand, failed>>
    BY <1>6 DEF WriteConfig
  <2>2. step[e] = "write" /\ step'[e] = (IF kind[e] = "policy" THEN "next" ELSE "describe")
    BY <1>2, <1>6, <2>1 DEF WriteConfig, Goto, HandlerAt
  <2>3. config'[w] = hand[e] /\ UNCHANGED stale
    BY <1>2, <1>6, <2>1 DEF WriteConfig, handlerVars
  <2>4. SettingsIn(e, hand[e])
    BY <1>2, <2>2 DEF LocalInv, HandIsSet
  <2>5. ScopeFits(e)' /\ TargetIsThere(e)' /\ DoneIsSet(e)'
    <3>1. step'[e] = "next" =>
              \A v \in at[e] \ failed'[e] : SettingsIn(e, config[v])' /\ SettingsIn(e, env[v])'
      BY <1>2, <2>2 DEF SettingsIn, GithubSyncs, FigmaSyncs
    <3>2. step'[e] # "emit"
      BY <2>2
    <3> QED
      BY <1>1, <2>2, <3>1, <3>2, FrameKeepsOwn
  <2>6. StepFits(e)' /\ HandFits(e)'
    BY <2>2 DEF StepFits, HandFits
  <2>7. HandIsSet(e)'
    BY <1>2, <2>1, <2>3, <2>4 DEF HandIsSet, SettingsIn
  <2>8. ConfigIsSet(e)'
    BY <1>2, <1>3, <2>3, <2>4 DEF ConfigIsSet, SettingsIn
  <2> QED
    BY <2>5, <2>6, <2>7, <2>8 DEF LocalInv
<1>7. CASE DescribeRuntime(e)
  <2>1. PICK w \in at[e], secret \in 0..MaxSecrets :
            /\ Resolves(e, hand[e], secret)
            /\ hand' = [hand EXCEPT ![e] = Merged(e, w, secret)]
            /\ Goto(e, "update")
    BY <1>7 DEF DescribeRuntime
  <2>2. /\ step[e] = "describe" /\ step'[e] = "update" /\ hand'[e] = Merged(e, w, secret)
        /\ w \in Workspaces
    BY <1>2, <1>7, <2>1 DEF DescribeRuntime, Goto, HandlerAt
  <2>3. ScopeFits(e)' /\ TargetIsThere(e)' /\ DoneIsSet(e)'
    BY <1>1, <2>2, FrameKeepsOwn
  <2>4. StepFits(e)' /\ HandFits(e)'
    BY <2>2 DEF StepFits, HandFits
  <2>5. HandIsSet(e)'
    <3>1. CASE kind[e] = "provision"
      BY <1>2, <3>1 DEF HandIsSet, SettingsIn, GithubSyncs, FigmaSyncs
    <3>2. CASE kind[e] # "provision"
      <4>1. SettingsIn(e, hand[e])
        BY <1>2, <2>2, <3>2 DEF LocalInv, HandIsSet
      <4> QED
        BY <1>2, <2>1, <2>2, <3>2, <4>1, MergedIsSet DEF HandIsSet, SettingsIn
    <3> QED
      BY <3>1, <3>2
  <2>6. ConfigIsSet(e)'
    <3>1. UNCHANGED config
      BY <1>7 DEF DescribeRuntime, storeVars
    <3> QED
      BY <1>2, <2>2, <3>1 DEF LocalInv, ConfigIsSet, SettingsIn, Alone
  <2> QED
    BY <2>3, <2>4, <2>5, <2>6 DEF LocalInv
<1>8. CASE UpdateRuntime(e)
  <2>1. PICK w \in at[e] : /\ env' = [env EXCEPT ![w] = [k \in EnvKeys |-> hand[e][k]]]
                           /\ Goto(e, AfterUpdate(kind[e]))
                           /\ UNCHANGED <<failed, config, stale>>
    BY <1>8 DEF UpdateRuntime, handlerVars
  <2>2. /\ step[e] = "update" /\ step'[e] = AfterUpdate(kind[e])
        /\ env'[w] = [k \in EnvKeys |-> hand[e][k]]
    BY <1>2, <1>8, <2>1 DEF UpdateRuntime, Goto, HandlerAt
  <2>3. step'[e] \in {"emit", "next", "patchRead"}
        /\ (step'[e] = "patchRead" => kind[e] = "provision")
    BY <2>2 DEF AfterUpdate
  <2>4. SettingsIn(e, hand[e])
    BY <1>2, <2>2 DEF LocalInv, HandIsSet
  <2>5. \A v \in at[e] : SettingsIn(e, env[v])'
    BY <1>2, <1>3, <2>1, <2>2, <2>4 DEF SettingsIn, EnvKeys
  <2>6. Alone(e) => \A v \in at[e] : SettingsIn(e, config[v])'
    BY <1>2, <2>1, <2>2 DEF LocalInv, ConfigIsSet, SettingsIn
  <2>7. ScopeFits(e)' /\ TargetIsThere(e)' /\ DoneIsSet(e)'
    BY <1>1, <2>2, <2>3, <2>5, <2>6, FrameKeepsOwn
  <2>8. StepFits(e)'
    BY <1>2, <2>2, <2>3 DEF StepFits, AfterUpdate
  <2> QED
    BY <2>3, <2>7, <2>8, RestsOwn DEF LocalInv
<1>9. CASE ReadForPatch(e)
  <2>1. step[e] = "patchRead" /\ kind[e] = "provision"
    BY <1>2, <1>9 DEF ReadForPatch, HandlerAt, LocalInv, StepFits
  <2>2. CASE Goto(e, "next")
    <3>1. step'[e] = "next"
      BY <1>2, <2>2 DEF Goto
    <3>2. \A v \in at[e] : SettingsIn(e, config[v])' /\ SettingsIn(e, env[v])'
      BY <1>2, <2>1 DEF SettingsIn, GithubSyncs, FigmaSyncs
    <3>3. ScopeFits(e)' /\ TargetIsThere(e)' /\ DoneIsSet(e)'
      BY <1>1, <2>1, <3>1, <3>2, FrameKeepsOwn
    <3> QED
      BY <3>1, <3>3, RestsOwn DEF LocalInv, StepFits
  <2>3. CASE ~Goto(e, "next")
    <3>1. PICK w \in at[e] :
              /\ hand' = [hand EXCEPT ![e] =
                    [config[w] EXCEPT !["secret"] = IF resolved[e] # 0 THEN resolved[e] ELSE @]]
              /\ Goto(e, "patchWrite")
      BY <1>9, <2>3 DEF ReadForPatch
    <3>2. /\ step'[e] = "patchWrite"
          /\ hand'[e] = [config[w] EXCEPT !["secret"] =
                             IF resolved[e] # 0 THEN resolved[e] ELSE @]
      BY <1>2, <3>1 DEF Goto
    <3>3. ScopeFits(e)' /\ TargetIsThere(e)' /\ DoneIsSet(e)'
      BY <1>1, <2>1, <3>2, FrameKeepsOwn
    <3>4. HandFits(e)'
      <4>1. \A k \in Keys \ {"secret"} : hand'[e][k] = config[w][k]
        BY <1>2, <3>2
      <4>2. "secret" \in Writes(kind[e])
        BY <2>1 DEF Writes
      <4>3. UNCHANGED config
        BY <1>9 DEF ReadForPatch, storeVars
      <4> QED
        BY <1>2, <1>3, <4>1, <4>2, <4>3 DEF HandFits
    <3>5. StepFits(e)' /\ HandIsSet(e)' /\ ConfigIsSet(e)'
      BY <1>2, <2>1, <3>2 DEF StepFits, HandIsSet, ConfigIsSet
    <3> QED
      BY <3>3, <3>4, <3>5 DEF LocalInv
  <2> QED
    BY <2>2, <2>3
<1>10. CASE WritePatch(e)
  <2>1. step[e] = "patchWrite" /\ kind[e] = "provision" /\ step'[e] = "next"
    BY <1>2, <1>10 DEF WritePatch, HandlerAt, Goto, LocalInv, StepFits
  <2>2. \A v \in at[e] : SettingsIn(e, config[v])' /\ SettingsIn(e, env[v])'
    BY <1>2, <2>1 DEF SettingsIn, GithubSyncs, FigmaSyncs
  <2>3. ScopeFits(e)' /\ TargetIsThere(e)' /\ DoneIsSet(e)'
    BY <1>1, <2>1, <2>2, FrameKeepsOwn
  <2> QED
    BY <2>1, <2>3, RestsOwn DEF LocalInv, StepFits
<1>11. CASE RuntimeMissing(e)
  BY <1>4, <1>11 DEF RuntimeMissing
<1> QED
  BY <1>5, <1>6, <1>7, <1>8, <1>9, <1>10, <1>11 DEF SyncStep

LEMMA NextTargetKeepsOwn ==
    ASSUME ToolInv, TypeInv', NEW e \in Events, NextTarget(e)
    PROVE  LocalInv(e)'
<1>1. Frame(e)
  BY HandlerFrame DEF ToolInv, SyncStep
<1>2. /\ UNCHANGED <<vault, kind, scope, overlapped, fresh, failed, config, env, targets, stale>>
      /\ step[e] = "next" /\ step \in [Events -> Steps] /\ LocalInv(e)
      /\ at \in [Events -> SUBSET Workspaces] /\ left \in [Events -> SUBSET Workspaces]
  BY <1>1 DEF NextTarget, HandlerAt, storeVars, eventVars, ToolInv, TypeInv, TypeOK
<1>3. CASE left[e] = {}
  <2>1. step'[e] \in {"done", "retry", "dead"} /\ Stays
    BY <1>2, <1>3, ThrowTyped DEF NextTarget, Goto, Stays, ToolInv
  <2>2. ScopeFits(e)' /\ TargetIsThere(e)' /\ DoneIsSet(e)'
    BY <1>1, <2>1, FrameKeepsOwn
  <2> QED
    BY <2>1, <2>2, RestsOwn DEF LocalInv, StepFits
<1>4. CASE left[e] # {}
  <2>1. PICK w \in left[e] : /\ at' = [at EXCEPT ![e] = {w}]
                             /\ left' = [left EXCEPT ![e] = @ \ {w}]
                             /\ Goto(e, "read")
    BY <1>4 DEF NextTarget
  <2>2. step'[e] = "read" /\ at'[e] = {w} /\ left'[e] = left[e] \ {w}
    BY <1>2, <2>1 DEF Goto
  <2>3. kind[e] = "credential"
    BY <1>2, <1>4 DEF LocalInv, ScopeFits
  <2>4. ScopeFits(e)'
    BY <1>2, <2>2, <2>3 DEF LocalInv, ScopeFits
  <2>5. TargetIsThere(e)'
    BY <1>2, <2>3 DEF TargetIsThere, Installs
  <2>6. DoneIsSet(e)'
    <3>1. DoneWith(e)' \subseteq DoneWith(e)
      BY <1>2, <2>2 DEF DoneWith
    <3> QED
      BY <1>2, <3>1 DEF LocalInv, DoneIsSet, SettingsIn, Alone, Running
  <2> QED
    BY <2>2, <2>4, <2>5, <2>6, RestsOwn DEF LocalInv, StepFits
<1> QED
  BY <1>3, <1>4

-----------------------------------------------------------------------------
(* The invariant and the properties. *)

\* A step outside the handlers touches nothing that the invariant reads.
LEMMA EnvironmentKeeps ==
    ASSUME ToolInv, TypeInv',
           \/ RefreshCredential
           \/ \E w \in Workspaces : CreateRuntime(w) \/ RuntimeReady(w)
           \/ UNCHANGED vars
    PROVE  Isolated' /\ \A e \in Events : LocalInv(e)'
<1>1. /\ UNCHANGED <<config, env, targets, kind, scope, step, at, left, hand, failed, overlapped,
                     stale, fresh>>
      /\ vault <= vault' /\ vault \in Nat /\ vault' \in Nat
      /\ \A e \in Events : fresh[e] \in Nat
  BY BoundsAssumption
  DEF RefreshCredential, CreateRuntime, RuntimeReady, vars, eventVars, handlerVars, ToolInv,
      TypeInv, TypeOK
<1>2. Isolated'
  BY <1>1 DEF ToolInv, Isolated, Running, Alone
<1>3. ASSUME NEW e \in Events PROVE LocalInv(e)'
  <2> USE <1>1 DEF ToolInv, LocalInv
  <2>1. ScopeFits(e)' /\ StepFits(e)'
    BY DEF ScopeFits, StepFits
  <2>2. HandFits(e)' /\ TargetIsThere(e)'
    BY DEF HandFits, TargetIsThere, Running, Alone
  <2>3. HandIsSet(e)' /\ ConfigIsSet(e)'
    BY DEF HandIsSet, ConfigIsSet, SettingsIn, Alone
  <2>4. DoneIsSet(e)'
    BY DEF DoneIsSet, DoneWith, SettingsIn, Running, Alone
  <2> QED
    BY <2>1, <2>2, <2>3, <2>4
<1> QED
  BY <1>2, <1>3

LEMMA ToolInductive == ToolInv /\ [Next]_vars => ToolInv'
<1> SUFFICES ASSUME ToolInv, [Next]_vars PROVE ToolInv'
  OBVIOUS
<1>1. TypeInv'
  BY TypeInductive DEF ToolInv
<1>2. ASSUME NEW e \in Events,
             \/ Redeliver(e)
             \/ \E k \in Kinds, ws \in SUBSET Workspaces \ {{}} : Receive(e, k, ws)
      PROVE  ToolInv'
  BY <1>1, <1>2, DeliveryKeeps DEF ToolInv
<1>3. ASSUME NEW e \in Events, InstallStep(e) \/ SyncStep(e) \/ Dies(e) PROVE ToolInv'
  <2>1. Frame(e) /\ (Stays \/ NextTarget(e))
    BY <1>1, <1>3, HandlerFrame DEF ToolInv
  <2>2. LocalInv(e)'
    <3>1. CASE NextTarget(e)
      BY <1>1, <3>1, NextTargetKeepsOwn
    <3>2. CASE Dies(e) /\ Stays
      BY <2>1, <3>2, FailKeepsOwn DEF Dies
    <3> QED
      BY <1>1, <1>3, <2>1, <3>1, <3>2, InstallKeepsOwn, SyncKeepsOwn
  <2> QED
    BY <1>1, <2>1, <2>2, FrameIsolated, FrameKeepsOthers DEF ToolInv
<1>4. CASE \/ RefreshCredential
           \/ \E w \in Workspaces : CreateRuntime(w) \/ RuntimeReady(w)
           \/ UNCHANGED vars
  BY <1>1, <1>4, EnvironmentKeeps DEF ToolInv
<1> QED
  BY <1>2, <1>3, <1>4 DEF Next

\* The inductive invariant: settings travel with an undisturbed handler from
\* its hand to the config and the runtime, and what it holds of the rest of a
\* config is what is there.
THEOREM ToolInvariant == Spec => []ToolInv
BY InitTool, ToolInductive, PTL DEF Spec

\* An undisturbed GitHub or Figma sync that returns has its settings in the
\* config and in the live runtime of each of its workspaces that it does not
\* report as failed; an undisturbed GitHub uninstall has left nothing.
THEOREM SyncsAreLive == Spec => []SyncedIsLive
<1>1. ToolInv => SyncedIsLive
  <2> SUFFICES ASSUME ToolInv, NEW e \in Events, NEW w \in scope[e] \ failed[e],
                      Alone(e), Returning(e)
               PROVE  /\ kind[e] \in Installs => ProviderOf(kind[e]) \in targets[w]
                      /\ SettingsIn(e, config[w]) /\ SettingsIn(e, env[w])
    BY DEF SyncedIsLive, SettingsIn
  <2>1. step[e] \in {"next", "emit"} /\ LocalInv(e)
    BY DEF ToolInv, Returning, HandlerAt
  <2>2. kind[e] \in Installs => ProviderOf(kind[e]) \in targets[w]
    BY <2>1 DEF LocalInv, TargetIsThere, Running
  <2>3. left[e] = {}
    BY <2>1 DEF Returning, HandlerAt, LocalInv, ScopeFits, StepFits, Installs
  <2>4. w \in DoneWith(e)
    BY <2>1, <2>3 DEF DoneWith
  <2> QED
    BY <2>1, <2>2, <2>4 DEF LocalInv, DoneIsSet, Running
<1> QED
  BY <1>1, ToolInvariant, PTL

\* A write of a config changes no key that its handler is not for, unless the
\* handler met another one on the workspace.
THEOREM OthersAreKeptHolds == Spec => OthersAreKept
<1> DEFINE Kept == \A w \in Workspaces, k \in Keys : config'[w][k] # config[w][k] =>
        \E e \in Events : Running(e) /\ w \in at[e] /\ (k \in Writes(kind[e]) \/ ~Alone(e))
<1>1. ToolInv /\ [Next]_vars => [Kept]_vars
  <2> SUFFICES ASSUME ToolInv, Next, NEW w \in Workspaces, NEW k \in Keys,
                      config'[w][k] # config[w][k]
               PROVE  \E e \in Events :
                          Running(e) /\ w \in at[e] /\ (k \in Writes(kind[e]) \/ ~Alone(e))
    OBVIOUS
  <2>1. PICK e \in Events : WriteServer(e) \/ WriteConfig(e) \/ WritePatch(e)
    BY DEF Next, Receive, Redeliver, Deliver, InstallStep, InstallTarget, InstallFails,
           ReadForServer, Emit, EmitFailed, SyncStep, NextTarget, RuntimeMissing, ReadConfig,
           DescribeRuntime, UpdateRuntime, ReadForPatch, Dies, RefreshCredential, CreateRuntime,
           RuntimeReady, storeVars
  <2>2. /\ step[e] \in {"serverWrite", "write", "patchWrite"}
        /\ \E v \in at[e] : config' = [config EXCEPT ![v] = hand[e]]
    BY <2>1 DEF WriteServer, WriteConfig, WritePatch, HandlerAt
  <2>3. w \in at[e] /\ config'[w] = hand[e]
    BY <2>2 DEF ToolInv, TypeInv, TypeOK
  <2>4. Alone(e) => k \in Writes(kind[e])
    BY <2>2, <2>3 DEF ToolInv, LocalInv, HandFits
  <2> QED
    BY <2>2, <2>3, <2>4 DEF Running
<1> QED
  BY <1>1, ToolInvariant, PTL DEF Spec, OthersAreKept
=============================================================================
