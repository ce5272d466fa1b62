----------------------- MODULE WorkspacePolicyProofs -----------------------
(***************************************************************************)
(* Proofs about WorkspacePolicy, for any set of events, policy versions    *)
(* and mishaps and any bounds.                                             *)
(***************************************************************************)
EXTENDS WorkspacePolicy, TLAPS

\* Only an event that may be delivered again is due, and deletes stays short.
AttemptsFit == \A e \in Events : step[e] = "retry" => attempts[e] < MaxAttempts

\* An idle event has not been delivered.
IdleIsNew == \A e \in Events : step[e] = "idle" => attempts[e] = 0

\* Each step belongs to the kinds of event that take it.
StepsFit == \A e \in Events :
    /\ step[e] \in ApplySteps => kind[e] = "apply"
    /\ step[e] \in TeardownSteps => kind[e] # "apply"
    /\ step[e] \in {"announce", "fail"} => kind[e] # "teardown"
    /\ kind[e] = "apply" /\ step[e] # "idle" => version[e] \in Versions

TypeInv == TypeOK /\ AttemptsFit /\ IdleIsNew /\ StepsFit

LEMMA InitTyped == Init => TypeInv
BY BoundsAssumption
DEF Init, TypeInv, TypeOK, AttemptsFit, IdleIsNew, StepsFit, Engines, EngineStatuses, Names, Kinds,
    Steps, ApplySteps, TeardownSteps

LEMMA TypeInductive == TypeInv /\ [Next]_vars => TypeInv'
<1> SUFFICES ASSUME TypeInv, [Next]_vars PROVE TypeInv'
  OBVIOUS
<1> USE BoundsAssumption, VersionsAssumption
        DEF TypeInv, TypeOK, AttemptsFit, IdleIsNew, StepsFit, Engines, EngineStatuses, Kinds,
            Steps, ApplySteps, TeardownSteps, agentCoreVars, recordVars, eventVars,
            workVars, Goto, Throw, Fail, Report, HandlerAt, Running, Use, Usable, Compiled,
            AfterHeal, HealFails
<1>1. ASSUME NEW e \in Events, NEW k \in Kinds, NEW v \in Versions, NEW u \in BOOLEAN,
             Receive(e, k, v, u)
      PROVE  TypeInv'
  BY <1>1 DEF Receive, Deliver, FirstStep
<1>2. ASSUME NEW e \in Events, Redeliver(e) PROVE TypeInv'
  BY <1>2 DEF Redeliver, Deliver, FirstStep
<1>3. ASSUME NEW e \in Events, Announce(e) PROVE TypeInv'
  BY <1>3 DEF Announce, AfterAnnounce
<1>4. ASSUME NEW e \in Events, Finish(e) PROVE TypeInv'
  BY <1>4 DEF Finish
<1>5. ASSUME NEW e \in Events, ReportFailure(e) PROVE TypeInv'
  BY <1>5 DEF ReportFailure
<1>6. ASSUME NEW e \in Events, LoadUseCaseConfig(e) PROVE TypeInv'
  BY <1>6 DEF LoadUseCaseConfig
<1>7. ASSUME NEW e \in Events, EnsurePolicyEngine(e) PROVE TypeInv'
  BY <1>7 DEF EnsurePolicyEngine, Names
<1>8. ASSUME NEW e \in Events, CreatePolicyEngine(e) PROVE TypeInv'
  BY <1>8 DEF CreatePolicyEngine, Names
<1>9. ASSUME NEW e \in Events, ClearStaleRecord(e) PROVE TypeInv'
  BY <1>9 DEF ClearStaleRecord
<1>10. ASSUME NEW e \in Events, UpsertCedarPolicy(e) PROVE TypeInv'
  BY <1>10 DEF UpsertCedarPolicy, AfterUpsert
<1>11. ASSUME NEW e \in Events, PruneOrphans(e) PROVE TypeInv'
  BY <1>11 DEF PruneOrphans
<1>12. ASSUME NEW e \in Events, AssociateGateway(e) PROVE TypeInv'
  BY <1>12 DEF AssociateGateway
<1>13. ASSUME NEW e \in Events, PatchUseCase(e) PROVE TypeInv'
  BY <1>13 DEF PatchUseCase
<1>14. ASSUME NEW e \in Events, FindPolicyEngine(e) PROVE TypeInv'
  BY <1>14 DEF FindPolicyEngine
<1>15. ASSUME NEW e \in Events, DisassociateAll(e) PROVE TypeInv'
  BY <1>15 DEF DisassociateAll
<1>16. ASSUME NEW e \in Events, HealGateway(e) PROVE TypeInv'
  BY <1>16 DEF HealGateway
<1>17. ASSUME NEW e \in Events, HealDetach(e) PROVE TypeInv'
  BY <1>17 DEF HealDetach
<1>18. ASSUME NEW e \in Events, ListPolicies(e) PROVE TypeInv'
  BY <1>18 DEF ListPolicies
<1>19. ASSUME NEW e \in Events, DeletePolicy(e) PROVE TypeInv'
  BY <1>19 DEF DeletePolicy
<1>20. ASSUME NEW e \in Events, DeletePolicyEngine(e) PROVE TypeInv'
  BY <1>20 DEF DeletePolicyEngine, MayRetryDelete, GiveUp
<1>21. ASSUME NEW e \in Events, AwaitDeleted(e) \/ AwaitFails(e) PROVE TypeInv'
  BY <1>21 DEF AwaitDeleted, AwaitFails
<1>22. ASSUME NEW e \in Events, ClearWorkspacePolicy(e) PROVE TypeInv'
  BY <1>22 DEF ClearWorkspacePolicy
<1>23. ASSUME NEW e \in Events, Crash(e) PROVE TypeInv'
  BY <1>23 DEF Crash
<1>24. CASE EngineDeleted \/ EngineDeleteFails
  BY <1>24 DEF EngineDeleted, EngineDeleteFails, handlerVars
<1>25. CASE UNCHANGED vars
  BY <1>25 DEF vars
<1> HIDE DEF TypeInv, Kinds
<1> QED
  BY <1>1, <1>2, <1>3, <1>4, <1>5, <1>6, <1>7, <1>8, <1>9, <1>10, <1>11, <1>12, <1>13,
     <1>14, <1>15, <1>16, <1>17, <1>18, <1>19, <1>20, <1>21, <1>22, <1>23, <1>24, <1>25
  DEF Next, HandlerStep, ApplyStep, TeardownStep

\* The type invariant, for every set of events and every bound.
THEOREM TypeCorrect == Spec => []TypeOK
<1>1. TypeInv => TypeOK
  BY DEF TypeInv
<1> QED
  BY <1>1, InitTyped, TypeInductive, PTL DEF Spec

-----------------------------------------------------------------------------
(* What a handler that meets no other one finds and leaves. *)

\* A handler that has met no other one is the only one.
AloneIsOnly == \A e, d \in Events : Alone(e) /\ Running(d) => d = e

\* AgentCore refuses an association with an engine that is not there, and the
\* deletion of one that is associated.
AssocUsable == assoc # 0 => Usable(assoc)

\* An engine that was created has a number of its own.
EngineNumbered == engineStatus # "none" => engine # 0

\* How far an apply that meets no other handler has got.
ApplyProgress == \A e \in Events : Alone(e) =>
    /\ step[e] \in {"clearStale", "upsert", "prune", "associate", "patch"} => working[e] # 0
    /\ step[e] = "upsert" => \A n \in Compiled(version[e]) \ todo[e] :
                                Usable(working[e]) /\ policies[n] = version[e]
    /\ step[e] = "clearStale" => todo[e] = Compiled(version[e])
    /\ step[e] = "prune" => /\ Usable(working[e])
                            /\ \A n \in Compiled(version[e]) : policies[n] = version[e]
    /\ step[e] \in {"associate", "patch"} =>
           Usable(working[e]) /\ policies = Statements(version[e])
    /\ step[e] = "patch" => assoc = working[e]

\* How far a detach or teardown that meets no other handler has got.
TeardownProgress == \A e \in Events : Alone(e) =>
    /\ step[e] \in TeardownSteps \ {"find", "clear"} => working[e] = engine
    /\ step[e] = "clear" /\ e \notin blocked => engineStatus = "none"

AloneInv == /\ TypeInv /\ AloneIsOnly /\ AssocUsable /\ EngineNumbered /\ ApplyProgress
            /\ TeardownProgress /\ AppliedIsEnforced /\ DetachedIsGone

LEMMA AloneInductive == AloneInv /\ TypeInv' /\ [Next]_vars => AloneInv'
<1> SUFFICES ASSUME AloneInv, TypeInv', [Next]_vars PROVE AloneInv'
  OBVIOUS
<1> USE VersionsAssumption
        DEF AloneInv, TypeInv, TypeOK, StepsFit, AloneIsOnly, AssocUsable, EngineNumbered,
            ApplyProgress, TeardownProgress, AppliedIsEnforced, DetachedIsGone, Alone,
            Engines, EngineStatuses, Kinds, ApplySteps, TeardownSteps, agentCoreVars, recordVars,
            eventVars, workVars, Goto, Throw, Fail, Report, HandlerAt, Running, Use, Usable,
            Compiled, Statements, Names, AfterHeal, HealFails
<1>1. ASSUME NEW e \in Events, NEW k \in Kinds, NEW v \in Versions, NEW u \in BOOLEAN,
             Receive(e, k, v, u)
      PROVE  AloneInv'
  BY SMTT(60), <1>1 DEF Receive, Deliver, FirstStep
<1>2. ASSUME NEW e \in Events, Redeliver(e) PROVE AloneInv'
  BY SMTT(60), <1>2 DEF Redeliver, Deliver, FirstStep
<1>3. ASSUME NEW e \in Events, Announce(e) PROVE AloneInv'
  BY SMTT(60), <1>3 DEF Announce, AfterAnnounce
<1>4. ASSUME NEW e \in Events, Finish(e) PROVE AloneInv'
  BY SMTT(60), <1>4 DEF Finish
<1>5. ASSUME NEW e \in Events, ReportFailure(e) PROVE AloneInv'
  BY SMTT(60), <1>5 DEF ReportFailure
<1>6. ASSUME NEW e \in Events, LoadUseCaseConfig(e) PROVE AloneInv'
  BY SMTT(60), <1>6 DEF LoadUseCaseConfig
<1>7. ASSUME NEW e \in Events, EnsurePolicyEngine(e) PROVE AloneInv'
  BY SMTT(60), <1>7 DEF EnsurePolicyEngine
<1>8. ASSUME NEW e \in Events, CreatePolicyEngine(e) PROVE AloneInv'
  BY SMTT(60), <1>8 DEF CreatePolicyEngine
<1>9. ASSUME NEW e \in Events, ClearStaleRecord(e) PROVE AloneInv'
  BY SMTT(60), <1>9 DEF ClearStaleRecord
<1>10. ASSUME NEW e \in Events, UpsertCedarPolicy(e) PROVE AloneInv'
  <2>1. TypeInv' /\ AloneIsOnly' /\ AssocUsable' /\ EngineNumbered'
    BY <1>10 DEF UpsertCedarPolicy, AfterUpsert
  <2>2. ApplyProgress'
    <3>1. CASE ~Alone(e)
      BY <1>10, <3>1 DEF UpsertCedarPolicy, AfterUpsert
    <3>2. PICK n \in todo[e] :
             \/ /\ Usable(working[e])
                /\ policies' = [policies EXCEPT ![n] = version[e]]
                /\ todo' = [todo EXCEPT ![e] = @ \ {n}]
                /\ Goto(e, AfterUpsert(todo[e] \ {n}))
             \/ /\ policies' = [policies EXCEPT ![n] = 0]
                /\ UNCHANGED todo
                /\ Goto(e, "upsert")
             \/ Fail(e) /\ UNCHANGED <<policies, todo>>
      BY <1>10 DEF UpsertCedarPolicy
    <3> QED
      BY <1>10, <3>1, <3>2 DEF UpsertCedarPolicy, AfterUpsert
  <2>3. TeardownProgress' /\ AppliedIsEnforced' /\ DetachedIsGone'
    BY <1>10 DEF UpsertCedarPolicy, AfterUpsert
  <2> QED
    BY <2>1, <2>2, <2>3
<1>11. ASSUME NEW e \in Events, PruneOrphans(e) PROVE AloneInv'
  BY SMTT(60), <1>11 DEF PruneOrphans
<1>12. ASSUME NEW e \in Events, AssociateGateway(e) PROVE AloneInv'
  BY SMTT(60), <1>12 DEF AssociateGateway
<1>13. ASSUME NEW e \in Events, PatchUseCase(e) PROVE AloneInv'
  BY SMTT(60), <1>13 DEF PatchUseCase
<1>14. ASSUME NEW e \in Events, FindPolicyEngine(e) PROVE AloneInv'
  BY SMTT(60), <1>14 DEF FindPolicyEngine
<1>15. ASSUME NEW e \in Events, DisassociateAll(e) PROVE AloneInv'
  BY SMTT(60), <1>15 DEF DisassociateAll
<1>16. ASSUME NEW e \in Events, HealGateway(e) PROVE AloneInv'
  BY SMTT(60), <1>16 DEF HealGateway
<1>17. ASSUME NEW e \in Events, HealDetach(e) PROVE AloneInv'
  BY SMTT(60), <1>17 DEF HealDetach
<1>18. ASSUME NEW e \in Events, ListPolicies(e) PROVE AloneInv'
  BY SMTT(60), <1>18 DEF ListPolicies
<1>19. ASSUME NEW e \in Events, DeletePolicy(e) PROVE AloneInv'
  BY SMTT(60), <1>19 DEF DeletePolicy
<1>20. ASSUME NEW e \in Events, DeletePolicyEngine(e) PROVE AloneInv'
  BY SMTT(60), <1>20 DEF DeletePolicyEngine, MayRetryDelete, GiveUp
<1>21. ASSUME NEW e \in Events, AwaitDeleted(e) PROVE AloneInv'
  BY SMTT(60), <1>21 DEF AwaitDeleted
<1>22. ASSUME NEW e \in Events, AwaitFails(e) PROVE AloneInv'
  BY SMTT(60), <1>22 DEF AwaitFails
<1>23. ASSUME NEW e \in Events, ClearWorkspacePolicy(e) PROVE AloneInv'
  BY SMTT(60), <1>23 DEF ClearWorkspacePolicy
<1>24. ASSUME NEW e \in Events, Crash(e) PROVE AloneInv'
  BY SMTT(60), <1>24 DEF Crash
<1>25. CASE EngineDeleted \/ EngineDeleteFails
  BY SMTT(60), <1>25 DEF EngineDeleted, EngineDeleteFails, handlerVars
<1>26. CASE UNCHANGED vars
  BY SMTT(60), <1>26 DEF vars
<1> HIDE DEF AloneInv, Kinds
<1> QED
  BY <1>1, <1>2, <1>3, <1>4, <1>5, <1>6, <1>7, <1>8, <1>9, <1>10, <1>11, <1>12, <1>13,
     <1>14, <1>15, <1>16, <1>17, <1>18, <1>19, <1>20, <1>21, <1>22, <1>23, <1>24, <1>25, <1>26
  DEF Next, HandlerStep, ApplyStep, TeardownStep

LEMMA InitAlone == Init => AloneInv
BY InitTyped
DEF Init, AloneInv, AloneIsOnly, AssocUsable, EngineNumbered, ApplyProgress, TeardownProgress,
    AppliedIsEnforced, DetachedIsGone, Alone, Running, HandlerAt

\* An apply that is handled alone and reports completion has its policies
\* enforced and recorded, whatever it started from.
THEOREM AppliedAloneIsEnforced == Spec => []AppliedIsEnforced
<1>1. AloneInv /\ [Next]_vars => AloneInv'
  BY AloneInductive, TypeInductive DEF AloneInv
<1>2. AloneInv => AppliedIsEnforced
  BY DEF AloneInv
<1> QED
  BY <1>1, <1>2, InitAlone, PTL DEF Spec

\* A detach that is handled alone and reports completion has left no engine and
\* no association, whatever it started from, and no record of one if its event
\* named the use case and the config was found.
THEOREM DetachedAloneIsGone == Spec => []DetachedIsGone
<1>1. AloneInv /\ [Next]_vars => AloneInv'
  BY AloneInductive, TypeInductive DEF AloneInv
<1>2. AloneInv => DetachedIsGone
  BY DEF AloneInv
<1> QED
  BY <1>1, <1>2, InitAlone, PTL DEF Spec

-----------------------------------------------------------------------------
(* Reports. *)

\* Once an attempt has reported an end or was cut off, that stays so; a
\* teardown reports nothing.
ReportInv ==
    /\ TypeInv /\ EndIsReported
    /\ \A e \in Events : kind[e] = "teardown" => reported[e] = {}
    /\ \A e \in Events : step[e] = "idle" => reported[e] = {}

LEMMA ReportInductive == ReportInv /\ TypeInv' /\ [Next]_vars => ReportInv'
<1> SUFFICES ASSUME ReportInv, TypeInv', [Next]_vars PROVE ReportInv'
  OBVIOUS
<1> USE DEF ReportInv, EndIsReported, TypeInv, TypeOK, StepsFit, Kinds, ApplySteps, TeardownSteps,
            agentCoreVars, recordVars, eventVars, workVars, Goto, Throw, Fail, Report, HandlerAt,
            Running, Use, AfterHeal, HealFails
<1>1. ASSUME NEW e \in Events, NEW k \in Kinds, NEW v \in Versions, NEW u \in BOOLEAN,
             Receive(e, k, v, u)
      PROVE  ReportInv'
  BY SMTT(60), <1>1 DEF Receive, Deliver, FirstStep
<1>2. ASSUME NEW e \in Events, Redeliver(e) PROVE ReportInv'
  BY SMTT(60), <1>2 DEF Redeliver, Deliver, FirstStep
<1>3. ASSUME NEW e \in Events, Announce(e) PROVE ReportInv'
  BY SMTT(60), <1>3 DEF Announce, AfterAnnounce
<1>4. ASSUME NEW e \in Events, Finish(e) PROVE ReportInv'
  BY SMTT(60), <1>4 DEF Finish
<1>5. ASSUME NEW e \in Events, ReportFailure(e) PROVE ReportInv'
  <2>1. /\ step[e] = "fail" /\ kind[e] # "teardown" /\ kind' = kind
        /\ step' = [step EXCEPT ![e] = IF attempts[e] < MaxAttempts THEN "retry" ELSE "dead"]
    BY <1>5 DEF ReportFailure
  <2>2. \/ Report(e, "failed") /\ UNCHANGED cut
        \/ UNCHANGED reported /\ cut' = cut \cup {e}
    BY <1>5 DEF ReportFailure
  <2>3. ASSUME NEW d \in Events \ {e}
        PROVE  /\ step'[d] = step[d] /\ reported'[d] = reported[d]
               /\ d \in cut => d \in cut'
    BY <2>1, <2>2
  <2>4. /\ step'[e] \in {"retry", "dead"}
        /\ "failed" \in reported'[e] \/ e \in cut'
    BY <2>1, <2>2
  <2>5. EndIsReported'
    BY <2>3, <2>4
  <2>6. \A d \in Events : kind'[d] = "teardown" => reported'[d] = {}
    BY <2>1, <2>3
  <2>7. \A d \in Events : step'[d] = "idle" => reported'[d] = {}
    BY <2>3, <2>4
  <2> QED
    BY <2>5, <2>6, <2>7
<1>6. ASSUME NEW e \in Events, LoadUseCaseConfig(e) PROVE ReportInv'
  BY SMTT(60), <1>6 DEF LoadUseCaseConfig
<1>7. ASSUME NEW e \in Events, EnsurePolicyEngine(e) PROVE ReportInv'
  BY SMTT(60), <1>7 DEF EnsurePolicyEngine
<1>8. ASSUME NEW e \in Events, CreatePolicyEngine(e) PROVE ReportInv'
  BY SMTT(60), <1>8 DEF CreatePolicyEngine
<1>9. ASSUME NEW e \in Events, ClearStaleRecord(e) PROVE ReportInv'
  BY SMTT(60), <1>9 DEF ClearStaleRecord
<1>10. ASSUME NEW e \in Events, UpsertCedarPolicy(e) PROVE ReportInv'
  BY SMTT(60), <1>10 DEF UpsertCedarPolicy, AfterUpsert
<1>11. ASSUME NEW e \in Events, PruneOrphans(e) PROVE ReportInv'
  BY SMTT(60), <1>11 DEF PruneOrphans
<1>12. ASSUME NEW e \in Events, AssociateGateway(e) PROVE ReportInv'
  BY SMTT(60), <1>12 DEF AssociateGateway
<1>13. ASSUME NEW e \in Events, PatchUseCase(e) PROVE ReportInv'
  BY SMTT(60), <1>13 DEF PatchUseCase
<1>14. ASSUME NEW e \in Events, FindPolicyEngine(e) PROVE ReportInv'
  BY SMTT(60), <1>14 DEF FindPolicyEngine
<1>15. ASSUME NEW e \in Events, DisassociateAll(e) PROVE ReportInv'
  BY SMTT(60), <1>15 DEF DisassociateAll
<1>16. ASSUME NEW e \in Events, HealGateway(e) PROVE ReportInv'
  BY SMTT(60), <1>16 DEF HealGateway
<1>17. ASSUME NEW e \in Events, HealDetach(e) PROVE ReportInv'
  BY SMTT(60), <1>17 DEF HealDetach
<1>18. ASSUME NEW e \in Events, ListPolicies(e) PROVE ReportInv'
  BY SMTT(60), <1>18 DEF ListPolicies
<1>19. ASSUME NEW e \in Events, DeletePolicy(e) PROVE ReportInv'
  BY SMTT(60), <1>19 DEF DeletePolicy
<1>20. ASSUME NEW e \in Events, DeletePolicyEngine(e) PROVE ReportInv'
  BY SMTT(60), <1>20 DEF DeletePolicyEngine, MayRetryDelete, GiveUp
<1>21. ASSUME NEW e \in Events, AwaitDeleted(e) PROVE ReportInv'
  BY SMTT(60), <1>21 DEF AwaitDeleted
<1>22. ASSUME NEW e \in Events, AwaitFails(e) PROVE ReportInv'
  BY SMTT(60), <1>22 DEF AwaitFails
<1>23. ASSUME NEW e \in Events, ClearWorkspacePolicy(e) PROVE ReportInv'
  BY SMTT(60), <1>23 DEF ClearWorkspacePolicy
<1>24. ASSUME NEW e \in Events, Crash(e) PROVE ReportInv'
  BY SMTT(60), <1>24 DEF Crash
<1>25. CASE EngineDeleted \/ EngineDeleteFails
  BY SMTT(60), <1>25 DEF EngineDeleted, EngineDeleteFails, handlerVars
<1>26. CASE UNCHANGED vars
  BY SMTT(60), <1>26 DEF vars
<1> HIDE DEF ReportInv, Kinds
<1> QED
  BY <1>1, <1>2, <1>3, <1>4, <1>5, <1>6, <1>7, <1>8, <1>9, <1>10, <1>11, <1>12, <1>13,
     <1>14, <1>15, <1>16, <1>17, <1>18, <1>19, <1>20, <1>21, <1>22, <1>23, <1>24, <1>25, <1>26
  DEF Next, HandlerStep, ApplyStep, TeardownStep

\* An apply or a detach reports its end, or an attempt was cut off.
THEOREM EndsAreReported == Spec => []EndIsReported
<1>1. Init => ReportInv
  BY InitTyped DEF Init, ReportInv, EndIsReported
<1>2. ReportInv /\ [Next]_vars => ReportInv'
  BY ReportInductive, TypeInductive DEF ReportInv
<1>3. ReportInv => EndIsReported
  BY DEF ReportInv
<1> QED
  BY <1>1, <1>2, <1>3, PTL DEF Spec

-----------------------------------------------------------------------------
(* A governance policy that is missing. *)

\* An event that has been delivered was delivered at least once.
Delivered == \A e \in Events : step[e] # "idle" \/ e \in blocked => attempts[e] > 0

\* A handler has still to write the policy, is taking down the engine, or has
\* failed to.
Filling(e) == /\ step[e] \in {"clearStale", "upsert"} /\ working[e] = engine
              /\ "governance" \in todo[e]
Undoing(e) == /\ step[e] \in TeardownSteps \ {"find", "clear"} /\ working[e] = engine
Failed(e) == step[e] \in {"fail", "retry", "dead"} \/ attempts[e] > 1 \/ e \in blocked

\* An engine that lacks it has an event to answer for that.
BareIsOwed ==
    engineStatus # "none" /\ policies["governance"] = 0 =>
        \E e \in Events : Filling(e) \/ Undoing(e) \/ Failed(e)

BareInv == TypeInv /\ Delivered /\ BareIsOwed

LEMMA BareInductive == BareInv /\ TypeInv' /\ [Next]_vars => BareInv'
<1> SUFFICES ASSUME BareInv, TypeInv', [Next]_vars PROVE BareInv'
  OBVIOUS
<1> USE VersionsAssumption
        DEF BareInv, TypeInv, TypeOK, StepsFit, IdleIsNew, Delivered, BareIsOwed, Filling, Undoing,
            Failed, Engines, EngineStatuses, Kinds, ApplySteps, TeardownSteps, agentCoreVars,
            recordVars, eventVars, workVars, Goto, Throw, Fail, Report, HandlerAt, Running, Use,
            Usable, Compiled, Names, AfterHeal, HealFails
<1>1. ASSUME NEW e \in Events, NEW k \in Kinds, NEW v \in Versions, NEW u \in BOOLEAN,
             Receive(e, k, v, u)
      PROVE  BareInv'
  BY SMTT(60), <1>1 DEF Receive, Deliver, FirstStep
<1>2. ASSUME NEW e \in Events, Redeliver(e) PROVE BareInv'
  BY SMTT(60), <1>2 DEF Redeliver, Deliver, FirstStep
<1>3. ASSUME NEW e \in Events, Announce(e) PROVE BareInv'
  BY SMTT(60), <1>3 DEF Announce, AfterAnnounce
<1>4. ASSUME NEW e \in Events, Finish(e) PROVE BareInv'
  BY SMTT(60), <1>4 DEF Finish
<1>5. ASSUME NEW e \in Events, ReportFailure(e) PROVE BareInv'
  BY SMTT(60), <1>5 DEF ReportFailure
<1>6. ASSUME NEW e \in Events, LoadUseCaseConfig(e) PROVE BareInv'
  BY SMTT(60), <1>6 DEF LoadUseCaseConfig
<1>7. ASSUME NEW e \in Events, EnsurePolicyEngine(e) PROVE BareInv'
  BY SMTT(60), <1>7 DEF EnsurePolicyEngine
<1>8. ASSUME NEW e \in Events, CreatePolicyEngine(e) PROVE BareInv'
  BY SMTT(60), <1>8 DEF CreatePolicyEngine
<1>9. ASSUME NEW e \in Events, ClearStaleRecord(e) PROVE BareInv'
  BY SMTT(60), <1>9 DEF ClearStaleRecord
<1>10. ASSUME NEW e \in Events, UpsertCedarPolicy(e) PROVE BareInv'
  BY SMTT(60), <1>10 DEF UpsertCedarPolicy, AfterUpsert
<1>11. ASSUME NEW e \in Events, PruneOrphans(e) PROVE BareInv'
  BY SMTT(60), <1>11 DEF PruneOrphans
<1>12. ASSUME NEW e \in Events, AssociateGateway(e) PROVE BareInv'
  BY SMTT(60), <1>12 DEF AssociateGateway
<1>13. ASSUME NEW e \in Events, PatchUseCase(e) PROVE BareInv'
  BY SMTT(60), <1>13 DEF PatchUseCase
<1>14. ASSUME NEW e \in Events, FindPolicyEngine(e) PROVE BareInv'
  BY SMTT(60), <1>14 DEF FindPolicyEngine
<1>15. ASSUME NEW e \in Events, DisassociateAll(e) PROVE BareInv'
  BY SMTT(60), <1>15 DEF DisassociateAll
<1>16. ASSUME NEW e \in Events, HealGateway(e) PROVE BareInv'
  BY SMTT(60), <1>16 DEF HealGateway
<1>17. ASSUME NEW e \in Events, HealDetach(e) PROVE BareInv'
  BY SMTT(60), <1>17 DEF HealDetach
<1>18. ASSUME NEW e \in Events, ListPolicies(e) PROVE BareInv'
  BY SMTT(60), <1>18 DEF ListPolicies
<1>19. ASSUME NEW e \in Events, DeletePolicy(e) PROVE BareInv'
  BY SMTT(60), <1>19 DEF DeletePolicy
<1>20. ASSUME NEW e \in Events, DeletePolicyEngine(e) PROVE BareInv'
  BY SMTT(60), <1>20 DEF DeletePolicyEngine, MayRetryDelete, GiveUp
<1>21. ASSUME NEW e \in Events, AwaitDeleted(e) PROVE BareInv'
  BY SMTT(60), <1>21 DEF AwaitDeleted
<1>22. ASSUME NEW e \in Events, AwaitFails(e) PROVE BareInv'
  BY SMTT(60), <1>22 DEF AwaitFails
<1>23. ASSUME NEW e \in Events, ClearWorkspacePolicy(e) PROVE BareInv'
  BY SMTT(60), <1>23 DEF ClearWorkspacePolicy
<1>24. ASSUME NEW e \in Events, Crash(e) PROVE BareInv'
  BY SMTT(60), <1>24 DEF Crash
<1>25. CASE EngineDeleted \/ EngineDeleteFails
  BY SMTT(60), <1>25 DEF EngineDeleted, EngineDeleteFails, handlerVars
<1>26. CASE UNCHANGED vars
  BY SMTT(60), <1>26 DEF vars
<1> HIDE DEF BareInv, Kinds
<1> QED
  BY <1>1, <1>2, <1>3, <1>4, <1>5, <1>6, <1>7, <1>8, <1>9, <1>10, <1>11, <1>12, <1>13,
     <1>14, <1>15, <1>16, <1>17, <1>18, <1>19, <1>20, <1>21, <1>22, <1>23, <1>24, <1>25, <1>26
  DEF Next, HandlerStep, ApplyStep, TeardownStep

\* When every handler has come to its end at the first attempt, however they
\* interleaved, a gateway with an engine has one that is live and has the
\* governance policy.
THEOREM GatewayIsNeverBare == Spec => []NeverLeftBare
<1>1. Init => BareInv
  BY InitTyped DEF Init, BareInv, Delivered, BareIsOwed
<1>2. BareInv /\ [Next]_vars => BareInv'
  BY BareInductive, TypeInductive DEF BareInv
<1>3. AloneInv /\ [Next]_vars => AloneInv'
  BY AloneInductive, TypeInductive DEF AloneInv
<1>4. BareInv /\ AloneInv => NeverLeftBare
  <2> SUFFICES ASSUME BareInv, AssocUsable, AtRest, assoc # 0
               PROVE  Usable(assoc) /\ policies["governance"] # 0
    BY DEF AloneInv, NeverLeftBare
  <2>1. Usable(assoc)
    BY DEF AssocUsable
  <2>2. ASSUME NEW e \in Events PROVE ~Filling(e) /\ ~Undoing(e) /\ ~Failed(e)
    <3>1. step[e] \in {"idle", "done"} /\ attempts[e] < 2 /\ blocked = {}
      BY DEF AtRest
    <3>2. attempts[e] \in Nat
      BY BoundsAssumption DEF BareInv, TypeInv, TypeOK
    <3>3. ~(attempts[e] > 1)
      BY <3>1, <3>2
    <3> QED
      BY <3>1, <3>3 DEF Filling, Undoing, Failed, TeardownSteps
  <2> QED
    BY <2>1, <2>2 DEF BareInv, BareIsOwed, Usable
<1> QED
  BY <1>1, <1>2, <1>3, <1>4, InitAlone, PTL DEF Spec
=============================================================================
