-------------------------- MODULE ProvisionProofs --------------------------
(***************************************************************************)
(* Proofs about Provision, for any requests, ids and number of mishaps.    *)
(***************************************************************************)
EXTENDS Provision, WellFoundedInduction, TLAPS

LEMMA NotLess == \A i, j \in Nat : ~(j < i) => i <= j
  OBVIOUS

LEMMA NotBelow ==
  ASSUME NEW i \in Nat, NEW j \in Nat, <<j, i>> \notin OpToRel(<, Nat)
  PROVE  i <= j
<1>1. ~(j < i)
  BY Zenon DEF OpToRel
<1> QED
  BY <1>1, NotLess, Zenon

\* The scan finds a row of the given ids if there is one.
LEMMA FirstFinds ==
  ASSUME NEW ids \in SUBSET (Nat \ {0}), TypeOK
  PROVE  /\ First(ids) = 0 => rows \cap ids = {}
         /\ First(ids) # 0 => First(ids) \in rows \cap ids
<1> DEFINE found == rows \cap ids
<1>1. CASE found = {}
  BY <1>1 DEF First
<1>2. CASE found # {}
  <2>1. found \subseteq Nat
    OBVIOUS
  <2>2. \E i \in found : \A j \in found : <<j, i>> \notin OpToRel(<, Nat)
    BY <1>2, <2>1, NatLessThanWellFounded, WFMin, Zenon
  <2>3. \E i \in found : \A j \in found : i <= j
    BY <2>1, <2>2, NotBelow, Zenon
  <2>4. First(ids) = CHOOSE i \in found : \A j \in found : i <= j
    BY <1>2 DEF First
  <2> HIDE DEF found
  <2>5. First(ids) \in found
    BY <2>3, <2>4
  <2> QED
    BY <1>2, <2>5 DEF found
<1> QED
  BY <1>1, <1>2

-----------------------------------------------------------------------------
(* Types. *)

LEMMA InitTyped == Init => TypeOK
  BY SMTT(60), IdsAssumption, MaxMishapsAssumption
  DEF Init, TypeOK, Kinds, Ids, Statuses, Active, InProgress, Deleted, Failed, Steps, Answers

\* What a deployment leaves, with or without its row, now or later, is typed.
StoresTyped ==
    /\ stack \in [Ids -> Statuses]
    /\ late \subseteq {j \in Ids : stack[j] # "none"}
    /\ rows \subseteq {j \in Ids : stack[j] \notin {"none", "asked"}}

Made(i) == (\E withRow \in BOOLEAN : Create(i, withRow)) \/ Abandon(i)

LEMMA MadeTyped ==
  ASSUME TypeOK, NEW i \in Ids, Made(i)
  PROVE  StoresTyped'
<1>2. StoresTyped
  BY DEF TypeOK, StoresTyped
<1>3. CASE \E withRow \in BOOLEAN : Create(i, withRow)
  <2>1. stack' = [stack EXCEPT ![i] = "creating"] /\ rows' \subseteq rows \cup {i} /\ late' = late
    BY <1>3 DEF Create
  <2> QED
    BY <1>2, <2>1 DEF StoresTyped, Statuses, InProgress
<1>4. CASE Abandon(i)
  <2>1. stack[i] = "none" /\ stack' = [stack EXCEPT ![i] = "asked"]
    BY <1>4 DEF Abandon
  <2>2. rows' = rows /\ late' = late \cup {i}
    BY <1>4 DEF Abandon
  <2>3. i \notin rows
    BY <1>2, <2>1 DEF StoresTyped
  <2> QED
    BY <1>2, <2>1, <2>2, <2>3 DEF StoresTyped, Statuses
<1> QED
  BY <1>3, <1>4 DEF Made

LEMMA GotoTyped ==
  ASSUME TypeOK, NEW r \in Requests, NEW s \in Steps, Goto(r, s)
  PROVE  step' \in [Requests -> Steps]
  BY DEF TypeOK, Goto

LEMMA MishapTyped == TypeOK /\ (Well \/ Mishap) => mishaps' \in 0..MaxMishaps
  BY MaxMishapsAssumption DEF TypeOK, Well, Mishap

LEMMA DeployGatewayTyped ==
  ASSUME TypeOK, NEW r \in Requests, DeployGateway(r)
  PROVE  TypeOK'
<1>1. \/ \E g \in Gateways : Made(g)
      \/ UNCHANGED <<stack, rows, late>>
  BY Zenon DEF DeployGateway, Made
<1>2. Well \/ Mishap
  BY Zenon DEF DeployGateway
<1>3. \E s \in Steps : Goto(r, s)
  <2>1. \E s \in {"resolveGateway", "findMain", "failing"} : Goto(r, s)
    BY Zenon DEF DeployGateway
  <2> QED
    BY <2>1 DEF Steps
<1>4. UNCHANGED <<tools, published, wired, gateway, merged, main, answer, excused, twinned>>
  BY DEF DeployGateway, ownVars, historyVars
<1>5. StoresTyped'
  <2>1. CASE UNCHANGED <<stack, rows, late>>
    BY <2>1 DEF TypeOK, StoresTyped
  <2> QED
    BY <1>1, <2>1, MadeTyped DEF Ids
<1> QED
  BY <1>2, <1>3, <1>4, <1>5, GotoTyped, MishapTyped DEF TypeOK, StoresTyped

LEMMA DeployMainTyped ==
  ASSUME TypeOK, NEW r \in Requests, DeployMain(r)
  PROVE  TypeOK'
<1>1. \/ \E m \in Mains : Made(m) /\ wired' = [wired EXCEPT ![m] = merged[r]]
      \/ UNCHANGED <<stack, rows, late, wired>>
  BY Zenon DEF DeployMain, Made
<1>2. Well \/ Mishap
  BY Zenon DEF DeployMain
<1>3. \E s \in Steps : Goto(r, s)
  <2>1. \E s \in {"resolveMain", "failing"} : Goto(r, s)
    BY Zenon DEF DeployMain
  <2> QED
    BY <2>1 DEF Steps
<1>4. UNCHANGED <<tools, published, gateway, merged, main, answer, excused>>
  BY DEF DeployMain, ownVars
<1>5. StoresTyped' /\ wired' \in [Mains -> Gateways \cup {0}]
  <2>1. CASE UNCHANGED <<stack, rows, late, wired>>
    BY <2>1 DEF TypeOK, StoresTyped
  <2>2. ASSUME NEW m \in Mains, wired' = [wired EXCEPT ![m] = merged[r]]
        PROVE  wired' \in [Mains -> Gateways \cup {0}]
    BY <2>2 DEF TypeOK
  <2> QED
    BY <1>1, <2>1, <2>2, MadeTyped DEF Ids
<1>6. twinned' \subseteq Requests
  <2>1. twinned' = twinned \/ twinned' = twinned \cup {r}
    BY Zenon DEF DeployMain
  <2> QED
    BY <2>1 DEF TypeOK
<1> QED
  BY <1>2, <1>3, <1>4, <1>5, <1>6, GotoTyped, MishapTyped DEF TypeOK, StoresTyped

LEMMA ApiTyped ==
  ASSUME TypeOK, NEW i \in Ids, ApiGoesOn(i)
  PROVE  TypeOK'
<1>1. UNCHANGED <<tools, published, wired, step, gateway, merged, main, answer, excused, twinned, mishaps>>
  BY DEF ApiGoesOn, ownVars, historyVars
<1>2. StoresTyped
  BY DEF TypeOK, StoresTyped
<1>3. late' \subseteq late /\ i \in late
  BY DEF ApiGoesOn
<1>4. CASE stack[i] = "asked"
  <2>1. rows' = rows /\ i \notin rows
    BY <1>2, <1>4 DEF ApiGoesOn, StoresTyped
  <2>2. stack' = [stack EXCEPT ![i] = "creating"] \/ stack' = [stack EXCEPT ![i] = "none"]
    BY <1>4 DEF ApiGoesOn
  <2>4. i \notin late' \/ stack'[i] # "none"
    BY <1>2, <1>4 DEF ApiGoesOn, StoresTyped
  <2>3. StoresTyped'
    BY <1>2, <1>3, <2>1, <2>2, <2>4 DEF StoresTyped, Statuses, InProgress
  <2> QED
    BY <1>1, <2>3 DEF TypeOK, StoresTyped
<1>5. CASE stack[i] # "asked"
  <2>1. stack' = stack /\ rows' \in {rows, rows \cup {i}}
    BY <1>5 DEF ApiGoesOn
  <2>2. stack[i] # "none"
    BY <1>2, <1>3 DEF StoresTyped
  <2>3. StoresTyped'
    BY <1>2, <1>3, <1>5, <2>1, <2>2 DEF StoresTyped
  <2> QED
    BY <1>1, <2>3 DEF TypeOK, StoresTyped
<1> QED
  BY <1>4, <1>5

LEMMA TypeInductive == TypeOK /\ [Next]_vars => TypeOK'
<1> SUFFICES ASSUME TypeOK, [Next]_vars PROVE TypeOK'
  OBVIOUS
<1>g. First(Gateways) \in Gateways \cup {0}
  BY FirstFinds, IdsAssumption
<1>m. First(Mains) \in Mains \cup {0}
  BY FirstFinds, IdsAssumption
<1> USE IdsAssumption, MaxMishapsAssumption
        DEF TypeOK, Kinds, Statuses, Steps, Answers, Running, At, Goto, Well, Mishap, Ids, Active, InProgress, Deleted, Failed, cfnVars, ownVars, historyVars
<1>1. ASSUME NEW r \in Requests, Receive(r) PROVE TypeOK'
  BY SMTT(60), <1>1 DEF Receive, Spend
<1>2. ASSUME NEW r \in Requests, NotifyStarted(r) PROVE TypeOK'
  BY SMTT(60), <1>2 DEF NotifyStarted, Notify
<1>3. ASSUME NEW r \in Requests, BuildWorkflow(r) PROVE TypeOK'
  BY SMTT(60), <1>3 DEF BuildWorkflow
<1>4. ASSUME NEW r \in Requests, FindGateway(r) PROVE TypeOK'
  BY SMTT(60), <1>4, <1>g DEF FindGateway, Probes, Resumable, Spend, AfterGateway
<1>5. ASSUME NEW r \in Requests, DeployGateway(r) PROVE TypeOK'
  BY Zenon, <1>5, DeployGatewayTyped
<1>6. ASSUME NEW r \in Requests, ResolveGateway(r) PROVE TypeOK'
  BY SMTT(60), <1>6, <1>g DEF ResolveGateway, Spend, AfterGateway
<1>7. ASSUME NEW r \in Requests, AwaitGateway(r) PROVE TypeOK'
  BY SMTT(60), <1>7 DEF AwaitGateway, Poll, Probes, Spend, Deadline, Hopeless
<1>8. ASSUME NEW r \in Requests, AwaitUrl(r) PROVE TypeOK'
  BY SMTT(60), <1>8 DEF AwaitUrl, Spend, Deadline, HasUrl
<1>9. ASSUME NEW r \in Requests, FindMain(r) PROVE TypeOK'
  BY SMTT(60), <1>9, <1>m DEF FindMain, Probes, Resumable, Spend, Dead
<1>10. ASSUME NEW r \in Requests, DeployMain(r) PROVE TypeOK'
  BY Zenon, <1>10, DeployMainTyped
<1>11. ASSUME NEW r \in Requests, ResolveMain(r) PROVE TypeOK'
  BY SMTT(60), <1>11, <1>m DEF ResolveMain, Spend
<1>12. ASSUME NEW r \in Requests, NotifyStackComplete(r) PROVE TypeOK'
  BY SMTT(60), <1>12 DEF NotifyStackComplete, Notify
<1>13. ASSUME NEW r \in Requests, AwaitMain(r) PROVE TypeOK'
  BY SMTT(60), <1>13 DEF AwaitMain, Poll, Probes, Spend, Deadline, Hopeless
<1>14. ASSUME NEW r \in Requests, Reprobe(r) PROVE TypeOK'
  BY SMTT(60), <1>14 DEF Reprobe, Probes, Spend
<1>15. ASSUME NEW r \in Requests, SyncRuntime(r) PROVE TypeOK'
  BY SMTT(60), <1>15 DEF SyncRuntime, Deadline
<1>16. ASSUME NEW r \in Requests, NotifyReady(r) PROVE TypeOK'
  BY SMTT(60), <1>16 DEF NotifyReady, Notify, Ends
<1>17. ASSUME NEW r \in Requests, NotifyFailed(r) PROVE TypeOK'
  BY SMTT(60), <1>17 DEF NotifyFailed, Notify, Ends
<1>18. ASSUME NEW r \in Requests, Dies(r) PROVE TypeOK'
  BY SMTT(60), <1>18 DEF Dies, Ends
<1>19. ASSUME NEW g \in Gateways, PublishUrl(g) PROVE TypeOK'
  BY SMTT(60), <1>19 DEF PublishUrl
<1>20. ASSUME NEW i \in Ids, StackCompletes(i) PROVE TypeOK'
  BY SMTT(60), <1>20 DEF StackCompletes, Becomes
<1>21. ASSUME NEW i \in Ids, StackFails(i) PROVE TypeOK'
  BY SMTT(60), <1>21 DEF StackFails, Becomes
<1>22. ASSUME NEW i \in Ids, Update(i) PROVE TypeOK'
  BY SMTT(60), <1>22 DEF Update, Becomes
<1>23. ASSUME NEW i \in Ids, Delete(i) PROVE TypeOK'
  BY SMTT(60), <1>23 DEF Delete, Becomes
<1>24. ASSUME NEW i \in Ids, StackGone(i) PROVE TypeOK'
  BY SMTT(60), <1>24 DEF StackGone, Becomes
<1>25. ASSUME NEW i \in Ids, ExpireRow(i) PROVE TypeOK'
  BY SMTT(60), <1>25 DEF ExpireRow, Becomes
<1>27. ASSUME NEW i \in Ids, ApiGoesOn(i) PROVE TypeOK'
  BY Zenon, <1>27, ApiTyped
<1>26. CASE UNCHANGED vars
  BY SMTT(60), <1>26 DEF vars
<1> HIDE DEF TypeOK
<1> QED
  BY <1>1, <1>2, <1>3, <1>4, <1>5, <1>6, <1>7, <1>8, <1>9, <1>10, <1>11,
     <1>12, <1>13, <1>14, <1>15, <1>16, <1>17, <1>18, <1>19, <1>20, <1>21,
     <1>22, <1>23, <1>24, <1>25, <1>26, <1>27
  DEF Next, Step, GatewayStep, MainStep, NotifyStep, StackStep

-----------------------------------------------------------------------------
(* The inductive invariant. *)

\* A handler has the ids that its step needs, and no answer that ends it.
Held == \A r \in Requests :
    /\ step[r] \in {"milestone", "await", "sleep", "reprobe", "sync", "ready"} => main[r] \in Mains
    /\ step[r] \in {"awaitGateway", "sleepGateway", "url", "sleepUrl"} => gateway[r] \in Gateways
    /\ At(r, "build") => tools = "orchestrator"
    /\ step[r] # "done" => answer[r] \notin {"runtime_ready", "failed"}

\* Two requests that are being handled have met.
Apart == \A r, q \in Requests : r # q /\ Running(r) /\ Running(q) => r \in excused

\* A workspace's request that is about to deploy, and is not excused, has found
\* no row and no agent ran without one, and it is so still.
Nobody == rows \cap Mains = {} /\ late \cap Mains = {} /\ LiveMains = {}

Alone == \A r \in Requests :
    At(r, "deployMain") /\ r \notin excused /\ tools # "orchestrator" => Nobody

\* A gateway that is to be merged has its URL, and is up if tools are to be
\* installed on it.
PastCreation(g) == tools = "install" => stack[g] \notin {"none", "asked", "creating"}

Gatewayed == \A r \in Requests :
    /\ step[r] \in {"url", "sleepUrl"} => PastCreation(gateway[r])
    /\ merged[r] # 0 => merged[r] \in published /\ PastCreation(merged[r])

Inv == TypeOK /\ Held /\ Apart /\ Alone /\ NoTwins /\ Gatewayed /\ ToolsAreThere


\* What a deployment does next.
LEMMA DeployGatewayGoes ==
  ASSUME NEW r \in Requests, DeployGateway(r)
  PROVE  \E s \in {"resolveGateway", "findMain", "failing"} : Goto(r, s)
  BY Zenon DEF DeployGateway

LEMMA DeployMainGoes ==
  ASSUME NEW r \in Requests, DeployMain(r)
  PROVE  \E s \in {"resolveMain", "failing"} : Goto(r, s)
  BY Zenon DEF DeployMain

LEMMA HeldInductive == Inv /\ TypeOK' /\ [Next]_vars => Held'
<1> SUFFICES ASSUME Inv, TypeOK', [Next]_vars PROVE Held'
  OBVIOUS
<1>s. step \in [Requests -> Steps]
  BY DEF Inv, TypeOK
<1>m. main \in [Requests -> Mains \cup {0}]
  BY DEF Inv, TypeOK
<1>w. gateway \in [Requests -> Gateways \cup {0}]
  BY DEF Inv, TypeOK
<1>a. answer \in [Requests -> Answers]
  BY DEF Inv, TypeOK
<1>h. Held
  BY DEF Inv
<1>g. First(Gateways) \in Gateways \cup {0}
  BY FirstFinds, IdsAssumption DEF Inv
<1>f. First(Mains) \in Mains \cup {0}
  BY FirstFinds, IdsAssumption DEF Inv
<1> USE DEF Held, Running, At, Goto, Well, Mishap, Ids, Active, InProgress, Deleted, Failed,
            cfnVars, ownVars, historyVars
<1>1. ASSUME NEW r \in Requests, Receive(r) PROVE Held'
  BY SMTT(60), <1>1, <1>s, <1>m, <1>w, <1>a, <1>h, <1>g, <1>f DEF Receive, Spend
<1>2. ASSUME NEW r \in Requests, NotifyStarted(r) PROVE Held'
  BY SMTT(60), <1>2, <1>s, <1>m, <1>w, <1>a, <1>h, <1>g, <1>f DEF NotifyStarted, Notify
<1>3. ASSUME NEW r \in Requests, BuildWorkflow(r) PROVE Held'
  BY SMTT(60), <1>3, <1>s, <1>m, <1>w, <1>a, <1>h, <1>g, <1>f DEF BuildWorkflow
<1>4. ASSUME NEW r \in Requests, FindGateway(r) PROVE Held'
  BY SMTT(60), <1>4, <1>s, <1>m, <1>w, <1>a, <1>h, <1>g, <1>f
  DEF FindGateway, Probes, Resumable, Spend, AfterGateway
<1>5. ASSUME NEW r \in Requests, DeployGateway(r) PROVE Held'
  BY SMTT(60), <1>5, <1>s, <1>m, <1>w, <1>a, <1>h, <1>g, <1>f DEF DeployGateway, Create, Abandon
<1>6. ASSUME NEW r \in Requests, ResolveGateway(r) PROVE Held'
  BY SMTT(60), <1>6, <1>s, <1>m, <1>w, <1>a, <1>h, <1>g, <1>f
  DEF ResolveGateway, Spend, AfterGateway
<1>7. ASSUME NEW r \in Requests, AwaitGateway(r) PROVE Held'
  BY SMTT(60), <1>7, <1>s, <1>m, <1>w, <1>a, <1>h, <1>g, <1>f
  DEF AwaitGateway, Poll, Probes, Spend, Deadline, Hopeless
<1>8. ASSUME NEW r \in Requests, AwaitUrl(r) PROVE Held'
  BY SMTT(60), <1>8, <1>s, <1>m, <1>w, <1>a, <1>h, <1>g, <1>f DEF AwaitUrl, Spend, Deadline, HasUrl
<1>9. ASSUME NEW r \in Requests, FindMain(r) PROVE Held'
  BY SMTT(60), <1>9, <1>s, <1>m, <1>w, <1>a, <1>h, <1>g, <1>f
  DEF FindMain, Probes, Resumable, Spend, Dead
<1>10. ASSUME NEW r \in Requests, DeployMain(r) PROVE Held'
  BY SMTT(60), <1>10, <1>s, <1>m, <1>w, <1>a, <1>h, <1>g, <1>f DEF DeployMain, Create, Abandon, LiveMains
<1>11. ASSUME NEW r \in Requests, ResolveMain(r) PROVE Held'
  BY SMTT(60), <1>11, <1>s, <1>m, <1>w, <1>a, <1>h, <1>g, <1>f DEF ResolveMain, Spend
<1>12. ASSUME NEW r \in Requests, NotifyStackComplete(r) PROVE Held'
  BY SMTT(60), <1>12, <1>s, <1>m, <1>w, <1>a, <1>h, <1>g, <1>f DEF NotifyStackComplete, Notify
<1>13. ASSUME NEW r \in Requests, AwaitMain(r) PROVE Held'
  BY SMTT(60), <1>13, <1>s, <1>m, <1>w, <1>a, <1>h, <1>g, <1>f
  DEF AwaitMain, Poll, Probes, Spend, Deadline, Hopeless
<1>14. ASSUME NEW r \in Requests, Reprobe(r) PROVE Held'
  BY SMTT(60), <1>14, <1>s, <1>m, <1>w, <1>a, <1>h, <1>g, <1>f DEF Reprobe, Probes, Spend
<1>15. ASSUME NEW r \in Requests, SyncRuntime(r) PROVE Held'
  BY SMTT(60), <1>15, <1>s, <1>m, <1>w, <1>a, <1>h, <1>g, <1>f DEF SyncRuntime, Deadline
<1>16. ASSUME NEW r \in Requests, NotifyReady(r) PROVE Held'
  BY SMTT(60), <1>16, <1>s, <1>m, <1>w, <1>a, <1>h, <1>g, <1>f DEF NotifyReady, Notify, Ends
<1>17. ASSUME NEW r \in Requests, NotifyFailed(r) PROVE Held'
  BY SMTT(60), <1>17, <1>s, <1>m, <1>w, <1>a, <1>h, <1>g, <1>f DEF NotifyFailed, Notify, Ends
<1>18. ASSUME NEW r \in Requests, Dies(r) PROVE Held'
  BY SMTT(60), <1>18, <1>s, <1>m, <1>w, <1>a, <1>h, <1>g, <1>f DEF Dies, Ends
<1>19. ASSUME NEW g \in Gateways, PublishUrl(g) PROVE Held'
  BY SMTT(60), <1>19, <1>s, <1>m, <1>w, <1>a, <1>h, <1>g, <1>f DEF PublishUrl
<1>20. ASSUME NEW i \in Ids, StackCompletes(i) PROVE Held'
  BY SMTT(60), <1>20, <1>s, <1>m, <1>w, <1>a, <1>h, <1>g, <1>f DEF StackCompletes, Becomes
<1>21. ASSUME NEW i \in Ids, StackFails(i) PROVE Held'
  BY SMTT(60), <1>21, <1>s, <1>m, <1>w, <1>a, <1>h, <1>g, <1>f DEF StackFails, Becomes
<1>22. ASSUME NEW i \in Ids, Update(i) PROVE Held'
  BY SMTT(60), <1>22, <1>s, <1>m, <1>w, <1>a, <1>h, <1>g, <1>f DEF Update, Becomes
<1>23. ASSUME NEW i \in Ids, Delete(i) PROVE Held'
  BY SMTT(60), <1>23, <1>s, <1>m, <1>w, <1>a, <1>h, <1>g, <1>f DEF Delete, Becomes
<1>24. ASSUME NEW i \in Ids, StackGone(i) PROVE Held'
  BY SMTT(60), <1>24, <1>s, <1>m, <1>w, <1>a, <1>h, <1>g, <1>f DEF StackGone, Becomes
<1>25. ASSUME NEW i \in Ids, ExpireRow(i) PROVE Held'
  BY SMTT(60), <1>25, <1>s, <1>m, <1>w, <1>a, <1>h, <1>g, <1>f DEF ExpireRow, Becomes
<1>27. ASSUME NEW i \in Ids, ApiGoesOn(i) PROVE Held'
  BY SMTT(60), <1>27, <1>s, <1>m, <1>w, <1>a, <1>h, <1>g, <1>f DEF ApiGoesOn
<1>26. CASE UNCHANGED vars
  BY SMTT(60), <1>26, <1>s, <1>m, <1>w, <1>a, <1>h, <1>g, <1>f DEF vars
<1> HIDE DEF Held
<1> QED
  BY <1>1, <1>2, <1>3, <1>4, <1>5, <1>6, <1>7, <1>8, <1>9, <1>10, <1>11,
     <1>12, <1>13, <1>14, <1>15, <1>16, <1>17, <1>18, <1>19, <1>20, <1>21,
     <1>22, <1>23, <1>24, <1>25, <1>26, <1>27
  DEF Next, Step, GatewayStep, MainStep, NotifyStep, StackStep

LEMMA ApartInductive == Inv /\ TypeOK' /\ [Next]_vars => Apart'
<1> SUFFICES ASSUME Inv, TypeOK', [Next]_vars PROVE Apart'
  OBVIOUS
<1>s. step \in [Requests -> Steps]
  BY DEF Inv, TypeOK
<1>h. Apart
  BY DEF Inv
<1> USE DEF Apart, Running, At, Goto, Well, Mishap, Ids, Active, InProgress, Deleted, Failed,
            cfnVars, ownVars, historyVars
<1>1. ASSUME NEW r \in Requests, Receive(r) PROVE Apart'
  BY SMTT(60), <1>1, <1>s, <1>h DEF Receive, Spend
<1>2. ASSUME NEW r \in Requests, NotifyStarted(r) PROVE Apart'
  BY SMTT(60), <1>2, <1>s, <1>h DEF NotifyStarted, Notify
<1>3. ASSUME NEW r \in Requests, BuildWorkflow(r) PROVE Apart'
  BY SMTT(60), <1>3, <1>s, <1>h DEF BuildWorkflow
<1>4. ASSUME NEW r \in Requests, FindGateway(r) PROVE Apart'
  BY SMTT(60), <1>4, <1>s, <1>h DEF FindGateway, Probes, Resumable, Spend, AfterGateway
<1>5. ASSUME NEW r \in Requests, DeployGateway(r) PROVE Apart'
  BY SMTT(60), <1>5, <1>s, <1>h DEF DeployGateway, Create, Abandon
<1>6. ASSUME NEW r \in Requests, ResolveGateway(r) PROVE Apart'
  BY SMTT(60), <1>6, <1>s, <1>h DEF ResolveGateway, Spend, AfterGateway
<1>7. ASSUME NEW r \in Requests, AwaitGateway(r) PROVE Apart'
  BY SMTT(60), <1>7, <1>s, <1>h DEF AwaitGateway, Poll, Probes, Spend, Deadline, Hopeless
<1>8. ASSUME NEW r \in Requests, AwaitUrl(r) PROVE Apart'
  BY SMTT(60), <1>8, <1>s, <1>h DEF AwaitUrl, Spend, Deadline, HasUrl
<1>9. ASSUME NEW r \in Requests, FindMain(r) PROVE Apart'
  BY SMTT(60), <1>9, <1>s, <1>h DEF FindMain, Probes, Resumable, Spend, Dead
<1>10. ASSUME NEW r \in Requests, DeployMain(r) PROVE Apart'
  BY SMTT(60), <1>10, <1>s, <1>h DEF DeployMain, Create, Abandon, LiveMains
<1>11. ASSUME NEW r \in Requests, ResolveMain(r) PROVE Apart'
  BY SMTT(60), <1>11, <1>s, <1>h DEF ResolveMain, Spend
<1>12. ASSUME NEW r \in Requests, NotifyStackComplete(r) PROVE Apart'
  BY SMTT(60), <1>12, <1>s, <1>h DEF NotifyStackComplete, Notify
<1>13. ASSUME NEW r \in Requests, AwaitMain(r) PROVE Apart'
  BY SMTT(60), <1>13, <1>s, <1>h DEF AwaitMain, Poll, Probes, Spend, Deadline, Hopeless
<1>14. ASSUME NEW r \in Requests, Reprobe(r) PROVE Apart'
  BY SMTT(60), <1>14, <1>s, <1>h DEF Reprobe, Probes, Spend
<1>15. ASSUME NEW r \in Requests, SyncRuntime(r) PROVE Apart'
  BY SMTT(60), <1>15, <1>s, <1>h DEF SyncRuntime, Deadline
<1>16. ASSUME NEW r \in Requests, NotifyReady(r) PROVE Apart'
  BY SMTT(60), <1>16, <1>s, <1>h DEF NotifyReady, Notify, Ends
<1>17. ASSUME NEW r \in Requests, NotifyFailed(r) PROVE Apart'
  BY SMTT(60), <1>17, <1>s, <1>h DEF NotifyFailed, Notify, Ends
<1>18. ASSUME NEW r \in Requests, Dies(r) PROVE Apart'
  BY SMTT(60), <1>18, <1>s, <1>h DEF Dies, Ends
<1>19. ASSUME NEW g \in Gateways, PublishUrl(g) PROVE Apart'
  BY SMTT(60), <1>19, <1>s, <1>h DEF PublishUrl
<1>20. ASSUME NEW i \in Ids, StackCompletes(i) PROVE Apart'
  BY SMTT(60), <1>20, <1>s, <1>h DEF StackCompletes, Becomes
<1>21. ASSUME NEW i \in Ids, StackFails(i) PROVE Apart'
  BY SMTT(60), <1>21, <1>s, <1>h DEF StackFails, Becomes
<1>22. ASSUME NEW i \in Ids, Update(i) PROVE Apart'
  BY SMTT(60), <1>22, <1>s, <1>h DEF Update, Becomes
<1>23. ASSUME NEW i \in Ids, Delete(i) PROVE Apart'
  BY SMTT(60), <1>23, <1>s, <1>h DEF Delete, Becomes
<1>24. ASSUME NEW i \in Ids, StackGone(i) PROVE Apart'
  BY SMTT(60), <1>24, <1>s, <1>h DEF StackGone, Becomes
<1>25. ASSUME NEW i \in Ids, ExpireRow(i) PROVE Apart'
  BY SMTT(60), <1>25, <1>s, <1>h DEF ExpireRow, Becomes
<1>27. ASSUME NEW i \in Ids, ApiGoesOn(i) PROVE Apart'
  BY SMTT(60), <1>27, <1>s, <1>h DEF ApiGoesOn
<1>26. CASE UNCHANGED vars
  BY SMTT(60), <1>26, <1>s, <1>h DEF vars
<1> HIDE DEF Apart
<1> QED
  BY <1>1, <1>2, <1>3, <1>4, <1>5, <1>6, <1>7, <1>8, <1>9, <1>10, <1>11,
     <1>12, <1>13, <1>14, <1>15, <1>16, <1>17, <1>18, <1>19, <1>20, <1>21,
     <1>22, <1>23, <1>24, <1>25, <1>26, <1>27
  DEF Next, Step, GatewayStep, MainStep, NotifyStep, StackStep

\* What happens to stacks makes no agent live again that nobody asks for.
LEMMA NobodyStays ==
  ASSUME Inv, Nobody, NEW i \in Ids,
         \/ StackStep(i) \/ ApiGoesOn(i) \/ UNCHANGED vars
         \/ \E g \in Gateways : PublishUrl(g)
  PROVE  Nobody'
<1>k. stack \in [Ids -> Statuses] /\ Mains \subseteq Ids
  BY DEF Inv, TypeOK, Ids
<1>1. CASE ApiGoesOn(i)
  <2>1. i \notin Mains
    BY <1>1 DEF ApiGoesOn, Nobody
  <2>2. \A m \in Mains : stack'[m] = stack[m]
    BY <1>1, <1>k, <2>1 DEF ApiGoesOn
  <2>3. rows' \cap Mains = {} /\ late' \cap Mains = {}
    BY <1>1, <2>1 DEF ApiGoesOn, Nobody
  <2> QED
    BY <2>2, <2>3 DEF Nobody, LiveMains
<1>2. CASE StackStep(i)
  <2>1. rows' \subseteq rows /\ late' = late
    BY <1>2 DEF StackStep, StackCompletes, StackFails, Update, Delete, StackGone, ExpireRow
  <2>2. CASE stack' = stack
    BY <2>1, <2>2 DEF Nobody, LiveMains
  <2>3. ASSUME NEW s \in Statuses, stack' = [stack EXCEPT ![i] = s],
               s \in Active \cup InProgress => stack[i] \in InProgress \/ i \in rows
        PROVE  Nobody'
    <3>1. \A m \in Mains : stack'[m] \in Active \cup InProgress => stack[m] \in Active \cup InProgress \/ m \in rows
      BY <1>k, <2>3
    <3> QED
      BY <2>1, <3>1 DEF Nobody, LiveMains
  <2>4. \/ stack' = stack
        \/ \E s \in Statuses : /\ stack' = [stack EXCEPT ![i] = s]
                               /\ s \in Active \cup InProgress => stack[i] \in InProgress \/ i \in rows
    BY <1>2 DEF StackStep, StackCompletes, StackFails, Update, Delete, StackGone, ExpireRow,
                Becomes, Statuses, Active, InProgress, Failed, Deleted
  <2> QED
    BY <2>2, <2>3, <2>4
<1>3. CASE UNCHANGED vars \/ \E g \in Gateways : PublishUrl(g)
  BY <1>3 DEF vars, PublishUrl, Nobody, LiveMains
<1> QED
  BY <1>1, <1>2, <1>3

LEMMA AloneInductive == Inv /\ TypeOK' /\ [Next]_vars => Alone'
<1> SUFFICES ASSUME Inv, TypeOK', [Next]_vars PROVE Alone'
  OBVIOUS
<1>s. step \in [Requests -> Steps]
  BY DEF Inv, TypeOK
<1>k. stack \in [Ids -> Statuses]
  BY DEF Inv, TypeOK
<1>o. rows \subseteq {i \in Ids : stack[i] \notin {"none", "asked"}}
  BY DEF Inv, TypeOK
<1>f. First(Mains) = 0 => rows \cap Mains = {}
  BY FirstFinds, IdsAssumption DEF Inv
<1>i. First(Mains) # 0 => First(Mains) \in rows \cap Mains
  BY FirstFinds, IdsAssumption DEF Inv
<1>z. 0 \notin Mains /\ Mains \cap Gateways = {}
  BY IdsAssumption
<1>x. excused \subseteq Requests
  BY DEF Inv, TypeOK
<1>h. Alone /\ Apart /\ Held
  BY DEF Inv
<1> USE DEF Alone, Running, At, Goto, Well, Mishap, Ids, Active, InProgress, Deleted, Failed,
            cfnVars, ownVars, historyVars
<1> USE DEF Apart, Held, Statuses
<1>1. ASSUME NEW r \in Requests, Receive(r) PROVE Alone'
  BY SMTT(60), <1>1, <1>s, <1>k, <1>o, <1>f, <1>i, <1>z, <1>x, <1>h DEF Receive, Spend
<1>2. ASSUME NEW r \in Requests, NotifyStarted(r) PROVE Alone'
  BY SMTT(60), <1>2, <1>s, <1>k, <1>o, <1>f, <1>i, <1>z, <1>x, <1>h DEF NotifyStarted, Notify
<1>3. ASSUME NEW r \in Requests, BuildWorkflow(r) PROVE Alone'
  BY SMTT(60), <1>3, <1>s, <1>k, <1>o, <1>f, <1>i, <1>z, <1>x, <1>h DEF BuildWorkflow
<1>4. ASSUME NEW r \in Requests, FindGateway(r) PROVE Alone'
  BY SMTT(60), <1>4, <1>s, <1>k, <1>o, <1>f, <1>i, <1>z, <1>x, <1>h
  DEF FindGateway, Probes, Resumable, Spend, AfterGateway
<1>5. ASSUME NEW r \in Requests, DeployGateway(r) PROVE Alone'
  <2>4. Running(r)
    BY <1>5 DEF DeployGateway
  <2>1. step'[r] # "deployMain" /\ \A q \in Requests \ {r} : step'[q] = step[q]
    BY SMTT(60), <1>5, <1>s, DeployGatewayGoes
  <2>2. UNCHANGED <<excused, tools>>
    BY <1>5 DEF DeployGateway
  <2>3. \A q \in Requests \ {r} : step[q] = "deployMain" => q \in excused
    BY <2>4, <1>h
  <2> QED
    BY <2>1, <2>2, <2>3
<1>6. ASSUME NEW r \in Requests, ResolveGateway(r) PROVE Alone'
  BY SMTT(60), <1>6, <1>s, <1>k, <1>o, <1>f, <1>i, <1>z, <1>x, <1>h
  DEF ResolveGateway, Spend, AfterGateway
<1>7. ASSUME NEW r \in Requests, AwaitGateway(r) PROVE Alone'
  BY SMTT(60), <1>7, <1>s, <1>k, <1>o, <1>f, <1>i, <1>z, <1>x, <1>h
  DEF AwaitGateway, Poll, Probes, Spend, Deadline, Hopeless
<1>8. ASSUME NEW r \in Requests, AwaitUrl(r) PROVE Alone'
  BY SMTT(60), <1>8, <1>s, <1>k, <1>o, <1>f, <1>i, <1>z, <1>x, <1>h
  DEF AwaitUrl, Spend, Deadline, HasUrl
<1>9. ASSUME NEW r \in Requests, FindMain(r) PROVE Alone'
  <2>1. UNCHANGED <<stack, rows, late, tools>>
    BY <1>9 DEF FindMain
  <2>2. Running(r) /\ \A q \in Requests \ {r} : step'[q] = step[q]
    BY SMTT(60), <1>9, <1>s DEF FindMain
  <2>3. excused \subseteq excused' /\ \A q \in Requests \ {r} : step[q] = "deployMain" => q \in excused
    BY <1>9, <2>2, <1>h DEF FindMain
  <2>4. ASSUME step'[r] = "deployMain", r \notin excused'
        PROVE  Nobody'
    <3>1. ~Dead(First(Mains)) /\ Hidden = {}
      BY <1>9, <2>4 DEF FindMain
    <3>2. First(Mains) = 0
      <4> SUFFICES ASSUME First(Mains) # 0 PROVE FALSE
        OBVIOUS
      <4> DEFINE m == First(Mains)
      <4>1. m \in rows \cap Mains
        BY <1>i
      <4>2. stack[m] \in Active \cup InProgress
        BY <1>k, <1>o, <3>1, <4>1 DEF Dead
      <4>3. \A p \in Probes(m) : Resumable(m, p)
        BY <4>2 DEF Probes, Resumable
      <4>4. step[r] = "findMain" /\ step'[r] \in {"milestone", "failing"}
        BY SMTT(60), <1>9, <1>s, <4>3 DEF FindMain
      <4> QED
        BY <2>4, <4>4
    <3>4. LiveMains \subseteq Mains
      BY DEF LiveMains
    <3>3. Nobody
      BY <3>1, <3>2, <3>4, <1>f DEF Nobody, Hidden
    <3> QED
      BY <2>1, <3>3 DEF Nobody, LiveMains
  <2> QED
    BY <2>1, <2>2, <2>3, <2>4
<1>10. ASSUME NEW r \in Requests, DeployMain(r) PROVE Alone'
  <2>4. step[r] = "deployMain"
    BY <1>10 DEF DeployMain
  <2>1. step'[r] # "deployMain" /\ \A q \in Requests \ {r} : step'[q] = step[q]
    BY SMTT(60), <1>10, <1>s, DeployMainGoes
  <2>2. UNCHANGED <<excused, tools>>
    BY <1>10 DEF DeployMain
  <2>3. \A q \in Requests \ {r} : step[q] = "deployMain" => q \in excused
    BY <2>4, <1>h
  <2> QED
    BY <2>1, <2>2, <2>3
<1>11. ASSUME NEW r \in Requests, ResolveMain(r) PROVE Alone'
  BY SMTT(60), <1>11, <1>s, <1>k, <1>o, <1>f, <1>i, <1>z, <1>x, <1>h DEF ResolveMain, Spend
<1>12. ASSUME NEW r \in Requests, NotifyStackComplete(r) PROVE Alone'
  BY SMTT(60), <1>12, <1>s, <1>k, <1>o, <1>f, <1>i, <1>z, <1>x, <1>h DEF NotifyStackComplete, Notify
<1>13. ASSUME NEW r \in Requests, AwaitMain(r) PROVE Alone'
  BY SMTT(60), <1>13, <1>s, <1>k, <1>o, <1>f, <1>i, <1>z, <1>x, <1>h
  DEF AwaitMain, Poll, Probes, Spend, Deadline, Hopeless
<1>14. ASSUME NEW r \in Requests, Reprobe(r) PROVE Alone'
  BY SMTT(60), <1>14, <1>s, <1>k, <1>o, <1>f, <1>i, <1>z, <1>x, <1>h DEF Reprobe, Probes, Spend
<1>15. ASSUME NEW r \in Requests, SyncRuntime(r) PROVE Alone'
  BY SMTT(60), <1>15, <1>s, <1>k, <1>o, <1>f, <1>i, <1>z, <1>x, <1>h DEF SyncRuntime, Deadline
<1>16. ASSUME NEW r \in Requests, NotifyReady(r) PROVE Alone'
  BY SMTT(60), <1>16, <1>s, <1>k, <1>o, <1>f, <1>i, <1>z, <1>x, <1>h DEF NotifyReady, Notify, Ends
<1>17. ASSUME NEW r \in Requests, NotifyFailed(r) PROVE Alone'
  BY SMTT(60), <1>17, <1>s, <1>k, <1>o, <1>f, <1>i, <1>z, <1>x, <1>h DEF NotifyFailed, Notify, Ends
<1>18. ASSUME NEW r \in Requests, Dies(r) PROVE Alone'
  BY SMTT(60), <1>18, <1>s, <1>k, <1>o, <1>f, <1>i, <1>z, <1>x, <1>h DEF Dies, Ends
<1>w. ASSUME NEW i \in Ids, UNCHANGED <<step, excused, tools>>,
             \/ StackStep(i) \/ ApiGoesOn(i) \/ UNCHANGED vars
             \/ \E g \in Gateways : PublishUrl(g)
      PROVE  Alone'
  BY <1>w, <1>h, NobodyStays
<1>19. ASSUME NEW g \in Gateways, PublishUrl(g) PROVE Alone'
  BY <1>19, <1>w DEF PublishUrl
<1>20. ASSUME NEW i \in Ids, StackCompletes(i) PROVE Alone'
  BY <1>20, <1>w DEF StackCompletes, StackStep
<1>21. ASSUME NEW i \in Ids, StackFails(i) PROVE Alone'
  BY <1>21, <1>w DEF StackFails, StackStep
<1>22. ASSUME NEW i \in Ids, Update(i) PROVE Alone'
  BY <1>22, <1>w DEF Update, StackStep
<1>23. ASSUME NEW i \in Ids, Delete(i) PROVE Alone'
  BY <1>23, <1>w DEF Delete, StackStep
<1>24. ASSUME NEW i \in Ids, StackGone(i) PROVE Alone'
  BY <1>24, <1>w DEF StackGone, StackStep
<1>25. ASSUME NEW i \in Ids, ExpireRow(i) PROVE Alone'
  BY <1>25, <1>w DEF ExpireRow, StackStep
<1>27. ASSUME NEW i \in Ids, ApiGoesOn(i) PROVE Alone'
  BY <1>27, <1>w DEF ApiGoesOn
<1>26. CASE UNCHANGED vars
  BY <1>26, <1>h DEF vars, Nobody, LiveMains
<1> HIDE DEF Alone
<1> QED
  BY <1>1, <1>2, <1>3, <1>4, <1>5, <1>6, <1>7, <1>8, <1>9, <1>10, <1>11,
     <1>12, <1>13, <1>14, <1>15, <1>16, <1>17, <1>18, <1>19, <1>20, <1>21,
     <1>22, <1>23, <1>24, <1>25, <1>26, <1>27
  DEF Next, Step, GatewayStep, MainStep, NotifyStep, StackStep

LEMMA NoTwinsInductive == Inv /\ TypeOK' /\ [Next]_vars => NoTwins'
<1> SUFFICES ASSUME Inv, TypeOK', [Next]_vars PROVE NoTwins'
  OBVIOUS
<1>h. NoTwins /\ Alone
  BY DEF Inv
<1> USE DEF NoTwins, Running, At, Goto, Well, Mishap, Ids, Active, InProgress, Deleted, Failed,
            cfnVars, ownVars, historyVars
<1> USE DEF Alone
<1>1. ASSUME NEW r \in Requests, Receive(r) PROVE NoTwins'
  BY SMTT(60), <1>1, <1>h DEF Receive, Spend
<1>2. ASSUME NEW r \in Requests, NotifyStarted(r) PROVE NoTwins'
  BY SMTT(60), <1>2, <1>h DEF NotifyStarted, Notify
<1>3. ASSUME NEW r \in Requests, BuildWorkflow(r) PROVE NoTwins'
  BY SMTT(60), <1>3, <1>h DEF BuildWorkflow
<1>4. ASSUME NEW r \in Requests, FindGateway(r) PROVE NoTwins'
  BY SMTT(60), <1>4, <1>h DEF FindGateway, Probes, Resumable, Spend, AfterGateway
<1>5. ASSUME NEW r \in Requests, DeployGateway(r) PROVE NoTwins'
  BY SMTT(60), <1>5, <1>h DEF DeployGateway, Create, Abandon
<1>6. ASSUME NEW r \in Requests, ResolveGateway(r) PROVE NoTwins'
  BY SMTT(60), <1>6, <1>h DEF ResolveGateway, Spend, AfterGateway
<1>7. ASSUME NEW r \in Requests, AwaitGateway(r) PROVE NoTwins'
  BY SMTT(60), <1>7, <1>h DEF AwaitGateway, Poll, Probes, Spend, Deadline, Hopeless
<1>8. ASSUME NEW r \in Requests, AwaitUrl(r) PROVE NoTwins'
  BY SMTT(60), <1>8, <1>h DEF AwaitUrl, Spend, Deadline, HasUrl
<1>9. ASSUME NEW r \in Requests, FindMain(r) PROVE NoTwins'
  BY SMTT(60), <1>9, <1>h DEF FindMain, Probes, Resumable, Spend, Dead
<1>10. ASSUME NEW r \in Requests, DeployMain(r) PROVE NoTwins'
  <2>1. At(r, "deployMain") /\ tools' = tools
    BY <1>10 DEF DeployMain
  <2>2. r \in excused \/ tools = "orchestrator" \/ LiveMains = {}
    BY <2>1, <1>h DEF Nobody
  <2>3. r \in excused \/ LiveMains = {} => twinned' = twinned
    BY Zenon, <1>10 DEF DeployMain
  <2> QED
    BY <2>1, <2>2, <2>3, <1>h
<1>11. ASSUME NEW r \in Requests, ResolveMain(r) PROVE NoTwins'
  BY SMTT(60), <1>11, <1>h DEF ResolveMain, Spend
<1>12. ASSUME NEW r \in Requests, NotifyStackComplete(r) PROVE NoTwins'
  BY SMTT(60), <1>12, <1>h DEF NotifyStackComplete, Notify
<1>13. ASSUME NEW r \in Requests, AwaitMain(r) PROVE NoTwins'
  BY SMTT(60), <1>13, <1>h DEF AwaitMain, Poll, Probes, Spend, Deadline, Hopeless
<1>14. ASSUME NEW r \in Requests, Reprobe(r) PROVE NoTwins'
  BY SMTT(60), <1>14, <1>h DEF Reprobe, Probes, Spend
<1>15. ASSUME NEW r \in Requests, SyncRuntime(r) PROVE NoTwins'
  BY SMTT(60), <1>15, <1>h DEF SyncRuntime, Deadline
<1>16. ASSUME NEW r \in Requests, NotifyReady(r) PROVE NoTwins'
  BY SMTT(60), <1>16, <1>h DEF NotifyReady, Notify, Ends
<1>17. ASSUME NEW r \in Requests, NotifyFailed(r) PROVE NoTwins'
  BY SMTT(60), <1>17, <1>h DEF NotifyFailed, Notify, Ends
<1>18. ASSUME NEW r \in Requests, Dies(r) PROVE NoTwins'
  BY SMTT(60), <1>18, <1>h DEF Dies, Ends
<1>19. ASSUME NEW g \in Gateways, PublishUrl(g) PROVE NoTwins'
  BY SMTT(60), <1>19, <1>h DEF PublishUrl
<1>20. ASSUME NEW i \in Ids, StackCompletes(i) PROVE NoTwins'
  BY SMTT(60), <1>20, <1>h DEF StackCompletes, Becomes
<1>21. ASSUME NEW i \in Ids, StackFails(i) PROVE NoTwins'
  BY SMTT(60), <1>21, <1>h DEF StackFails, Becomes
<1>22. ASSUME NEW i \in Ids, Update(i) PROVE NoTwins'
  BY SMTT(60), <1>22, <1>h DEF Update, Becomes
<1>23. ASSUME NEW i \in Ids, Delete(i) PROVE NoTwins'
  BY SMTT(60), <1>23, <1>h DEF Delete, Becomes
<1>24. ASSUME NEW i \in Ids, StackGone(i) PROVE NoTwins'
  BY SMTT(60), <1>24, <1>h DEF StackGone, Becomes
<1>25. ASSUME NEW i \in Ids, ExpireRow(i) PROVE NoTwins'
  BY SMTT(60), <1>25, <1>h DEF ExpireRow, Becomes
<1>27. ASSUME NEW i \in Ids, ApiGoesOn(i) PROVE NoTwins'
  BY SMTT(60), <1>27, <1>h DEF ApiGoesOn
<1>26. CASE UNCHANGED vars
  BY SMTT(60), <1>26, <1>h DEF vars
<1> HIDE DEF NoTwins
<1> QED
  BY <1>1, <1>2, <1>3, <1>4, <1>5, <1>6, <1>7, <1>8, <1>9, <1>10, <1>11,
     <1>12, <1>13, <1>14, <1>15, <1>16, <1>17, <1>18, <1>19, <1>20, <1>21,
     <1>22, <1>23, <1>24, <1>25, <1>26, <1>27
  DEF Next, Step, GatewayStep, MainStep, NotifyStep, StackStep

LEMMA GatewayedInductive == Inv /\ TypeOK' /\ [Next]_vars => Gatewayed'
<1> SUFFICES ASSUME Inv, TypeOK', [Next]_vars PROVE Gatewayed'
  OBVIOUS
<1>s. step \in [Requests -> Steps]
  BY DEF Inv, TypeOK
<1>w. gateway \in [Requests -> Gateways \cup {0}]
  BY DEF Inv, TypeOK
<1>k. stack \in [Ids -> Statuses]
  BY DEF Inv, TypeOK
<1>e. merged \in [Requests -> Gateways \cup {0}]
  BY DEF Inv, TypeOK
<1>p. published \subseteq Gateways
  BY DEF Inv, TypeOK
<1>z. 0 \notin Mains /\ Mains \cap Gateways = {} /\ 0 \notin Gateways
  BY IdsAssumption
<1>h. Gatewayed /\ Held
  BY DEF Inv
<1> USE DEF Gatewayed, Running, At, Goto, Well, Mishap, Ids, Active, InProgress, Deleted,
            Failed, cfnVars, ownVars, historyVars
<1> USE DEF PastCreation, Held
<1>1. ASSUME NEW r \in Requests, Receive(r) PROVE Gatewayed'
  BY SMTT(60), <1>1, <1>s, <1>w, <1>k, <1>e, <1>p, <1>z, <1>h DEF Receive, Spend
<1>2. ASSUME NEW r \in Requests, NotifyStarted(r) PROVE Gatewayed'
  BY SMTT(60), <1>2, <1>s, <1>w, <1>k, <1>e, <1>p, <1>z, <1>h DEF NotifyStarted, Notify
<1>3. ASSUME NEW r \in Requests, BuildWorkflow(r) PROVE Gatewayed'
  BY SMTT(60), <1>3, <1>s, <1>w, <1>k, <1>e, <1>p, <1>z, <1>h DEF BuildWorkflow
<1>4. ASSUME NEW r \in Requests, FindGateway(r) PROVE Gatewayed'
  BY SMTT(60), <1>4, <1>s, <1>w, <1>k, <1>e, <1>p, <1>z, <1>h
  DEF FindGateway, Probes, Resumable, Spend, AfterGateway
<1>5. ASSUME NEW r \in Requests, DeployGateway(r) PROVE Gatewayed'
  BY SMTT(60), <1>5, <1>s, <1>w, <1>k, <1>e, <1>p, <1>z, <1>h DEF DeployGateway, Create, Abandon
<1>6. ASSUME NEW r \in Requests, ResolveGateway(r) PROVE Gatewayed'
  BY SMTT(60), <1>6, <1>s, <1>w, <1>k, <1>e, <1>p, <1>z, <1>h
  DEF ResolveGateway, Spend, AfterGateway
<1>7. ASSUME NEW r \in Requests, AwaitGateway(r) PROVE Gatewayed'
  BY SMTT(60), <1>7, <1>s, <1>w, <1>k, <1>e, <1>p, <1>z, <1>h
  DEF AwaitGateway, Poll, Probes, Spend, Deadline, Hopeless
<1>8. ASSUME NEW r \in Requests, AwaitUrl(r) PROVE Gatewayed'
  BY SMTT(60), <1>8, <1>s, <1>w, <1>k, <1>e, <1>p, <1>z, <1>h DEF AwaitUrl, Spend, Deadline, HasUrl
<1>9. ASSUME NEW r \in Requests, FindMain(r) PROVE Gatewayed'
  BY SMTT(60), <1>9, <1>s, <1>w, <1>k, <1>e, <1>p, <1>z, <1>h
  DEF FindMain, Probes, Resumable, Spend, Dead
<1>10. ASSUME NEW r \in Requests, DeployMain(r) PROVE Gatewayed'
  BY SMTT(60), <1>10, <1>s, <1>w, <1>k, <1>e, <1>p, <1>z, <1>h DEF DeployMain, Create, Abandon, LiveMains
<1>11. ASSUME NEW r \in Requests, ResolveMain(r) PROVE Gatewayed'
  BY SMTT(60), <1>11, <1>s, <1>w, <1>k, <1>e, <1>p, <1>z, <1>h DEF ResolveMain, Spend
<1>12. ASSUME NEW r \in Requests, NotifyStackComplete(r) PROVE Gatewayed'
  BY SMTT(60), <1>12, <1>s, <1>w, <1>k, <1>e, <1>p, <1>z, <1>h DEF NotifyStackComplete, Notify
<1>13. ASSUME NEW r \in Requests, AwaitMain(r) PROVE Gatewayed'
  BY SMTT(60), <1>13, <1>s, <1>w, <1>k, <1>e, <1>p, <1>z, <1>h
  DEF AwaitMain, Poll, Probes, Spend, Deadline, Hopeless
<1>14. ASSUME NEW r \in Requests, Reprobe(r) PROVE Gatewayed'
  BY SMTT(60), <1>14, <1>s, <1>w, <1>k, <1>e, <1>p, <1>z, <1>h DEF Reprobe, Probes, Spend
<1>15. ASSUME NEW r \in Requests, SyncRuntime(r) PROVE Gatewayed'
  BY SMTT(60), <1>15, <1>s, <1>w, <1>k, <1>e, <1>p, <1>z, <1>h DEF SyncRuntime, Deadline
<1>16. ASSUME NEW r \in Requests, NotifyReady(r) PROVE Gatewayed'
  BY SMTT(60), <1>16, <1>s, <1>w, <1>k, <1>e, <1>p, <1>z, <1>h DEF NotifyReady, Notify, Ends
<1>17. ASSUME NEW r \in Requests, NotifyFailed(r) PROVE Gatewayed'
  BY SMTT(60), <1>17, <1>s, <1>w, <1>k, <1>e, <1>p, <1>z, <1>h DEF NotifyFailed, Notify, Ends
<1>18. ASSUME NEW r \in Requests, Dies(r) PROVE Gatewayed'
  BY SMTT(60), <1>18, <1>s, <1>w, <1>k, <1>e, <1>p, <1>z, <1>h DEF Dies, Ends
<1>19. ASSUME NEW g \in Gateways, PublishUrl(g) PROVE Gatewayed'
  BY SMTT(60), <1>19, <1>s, <1>w, <1>k, <1>e, <1>p, <1>z, <1>h DEF PublishUrl
<1>20. ASSUME NEW i \in Ids, StackCompletes(i) PROVE Gatewayed'
  BY SMTT(60), <1>20, <1>s, <1>w, <1>k, <1>e, <1>p, <1>z, <1>h DEF StackCompletes, Becomes
<1>21. ASSUME NEW i \in Ids, StackFails(i) PROVE Gatewayed'
  BY SMTT(60), <1>21, <1>s, <1>w, <1>k, <1>e, <1>p, <1>z, <1>h DEF StackFails, Becomes
<1>22. ASSUME NEW i \in Ids, Update(i) PROVE Gatewayed'
  BY SMTT(60), <1>22, <1>s, <1>w, <1>k, <1>e, <1>p, <1>z, <1>h DEF Update, Becomes
<1>23. ASSUME NEW i \in Ids, Delete(i) PROVE Gatewayed'
  BY SMTT(60), <1>23, <1>s, <1>w, <1>k, <1>e, <1>p, <1>z, <1>h DEF Delete, Becomes
<1>24. ASSUME NEW i \in Ids, StackGone(i) PROVE Gatewayed'
  BY SMTT(60), <1>24, <1>s, <1>w, <1>k, <1>e, <1>p, <1>z, <1>h DEF StackGone, Becomes
<1>25. ASSUME NEW i \in Ids, ExpireRow(i) PROVE Gatewayed'
  BY SMTT(60), <1>25, <1>s, <1>w, <1>k, <1>e, <1>p, <1>z, <1>h DEF ExpireRow, Becomes
<1>27. ASSUME NEW i \in Ids, ApiGoesOn(i) PROVE Gatewayed'
  <2>1. UNCHANGED <<tools, step, gateway, merged, published>>
    BY <1>27 DEF ApiGoesOn
  <2>2. CASE stack' = stack
    BY <2>1, <2>2, <1>h
  <2>3. CASE stack[i] = "asked" /\ stack' # stack
    <3>1. \A j \in Ids \ {i} : stack'[j] = stack[j]
      BY <1>27, <1>k, <2>3 DEF ApiGoesOn
    <3> QED
      BY <2>1, <2>3, <3>1, <1>w, <1>e, <1>z, <1>h
  <2> QED
    BY <1>27, <2>2, <2>3 DEF ApiGoesOn
<1>26. CASE UNCHANGED vars
  BY SMTT(60), <1>26, <1>s, <1>w, <1>k, <1>e, <1>p, <1>z, <1>h DEF vars
<1> HIDE DEF Gatewayed
<1> QED
  BY <1>1, <1>2, <1>3, <1>4, <1>5, <1>6, <1>7, <1>8, <1>9, <1>10, <1>11,
     <1>12, <1>13, <1>14, <1>15, <1>16, <1>17, <1>18, <1>19, <1>20, <1>21,
     <1>22, <1>23, <1>24, <1>25, <1>26, <1>27
  DEF Next, Step, GatewayStep, MainStep, NotifyStep, StackStep

LEMMA ToolsInductive == Inv /\ TypeOK' /\ [Next]_vars => ToolsAreThere'
<1> SUFFICES ASSUME Inv, TypeOK', [Next]_vars PROVE ToolsAreThere'
  OBVIOUS
<1>v. wired \in [Mains -> Gateways \cup {0}]
  BY DEF Inv, TypeOK
<1>p. published \subseteq Gateways
  BY DEF Inv, TypeOK
<1>h. ToolsAreThere /\ Gatewayed
  BY DEF Inv
<1>g. Gatewayed'
  BY GatewayedInductive
<1> USE DEF ToolsAreThere, Running, At, Goto, Well, Mishap, Ids, Active, InProgress, Deleted,
            Failed, cfnVars, ownVars, historyVars
<1> USE DEF Gatewayed, PastCreation
<1>1. ASSUME NEW r \in Requests, Receive(r) PROVE ToolsAreThere'
  BY SMTT(60), <1>1, <1>v, <1>p, <1>h, <1>g DEF Receive, Spend
<1>2. ASSUME NEW r \in Requests, NotifyStarted(r) PROVE ToolsAreThere'
  BY SMTT(60), <1>2, <1>v, <1>p, <1>h, <1>g DEF NotifyStarted, Notify
<1>3. ASSUME NEW r \in Requests, BuildWorkflow(r) PROVE ToolsAreThere'
  BY SMTT(60), <1>3, <1>v, <1>p, <1>h, <1>g DEF BuildWorkflow
<1>4. ASSUME NEW r \in Requests, FindGateway(r) PROVE ToolsAreThere'
  BY SMTT(60), <1>4, <1>v, <1>p, <1>h, <1>g DEF FindGateway, Probes, Resumable, Spend, AfterGateway
<1>5. ASSUME NEW r \in Requests, DeployGateway(r) PROVE ToolsAreThere'
  BY SMTT(60), <1>5, <1>v, <1>p, <1>h, <1>g DEF DeployGateway, Create, Abandon
<1>6. ASSUME NEW r \in Requests, ResolveGateway(r) PROVE ToolsAreThere'
  BY SMTT(60), <1>6, <1>v, <1>p, <1>h, <1>g DEF ResolveGateway, Spend, AfterGateway
<1>7. ASSUME NEW r \in Requests, AwaitGateway(r) PROVE ToolsAreThere'
  BY SMTT(60), <1>7, <1>v, <1>p, <1>h, <1>g
  DEF AwaitGateway, Poll, Probes, Spend, Deadline, Hopeless
<1>8. ASSUME NEW r \in Requests, AwaitUrl(r) PROVE ToolsAreThere'
  BY SMTT(60), <1>8, <1>v, <1>p, <1>h, <1>g DEF AwaitUrl, Spend, Deadline, HasUrl
<1>9. ASSUME NEW r \in Requests, FindMain(r) PROVE ToolsAreThere'
  BY SMTT(60), <1>9, <1>v, <1>p, <1>h, <1>g DEF FindMain, Probes, Resumable, Spend, Dead
<1>10. ASSUME NEW r \in Requests, DeployMain(r) PROVE ToolsAreThere'
  BY SMTT(60), <1>10, <1>v, <1>p, <1>h, <1>g DEF DeployMain, Create, Abandon, LiveMains
<1>11. ASSUME NEW r \in Requests, ResolveMain(r) PROVE ToolsAreThere'
  BY SMTT(60), <1>11, <1>v, <1>p, <1>h, <1>g DEF ResolveMain, Spend
<1>12. ASSUME NEW r \in Requests, NotifyStackComplete(r) PROVE ToolsAreThere'
  BY SMTT(60), <1>12, <1>v, <1>p, <1>h, <1>g DEF NotifyStackComplete, Notify
<1>13. ASSUME NEW r \in Requests, AwaitMain(r) PROVE ToolsAreThere'
  BY SMTT(60), <1>13, <1>v, <1>p, <1>h, <1>g DEF AwaitMain, Poll, Probes, Spend, Deadline, Hopeless
<1>14. ASSUME NEW r \in Requests, Reprobe(r) PROVE ToolsAreThere'
  BY SMTT(60), <1>14, <1>v, <1>p, <1>h, <1>g DEF Reprobe, Probes, Spend
<1>15. ASSUME NEW r \in Requests, SyncRuntime(r) PROVE ToolsAreThere'
  BY SMTT(60), <1>15, <1>v, <1>p, <1>h, <1>g DEF SyncRuntime, Deadline
<1>16. ASSUME NEW r \in Requests, NotifyReady(r) PROVE ToolsAreThere'
  BY SMTT(60), <1>16, <1>v, <1>p, <1>h, <1>g DEF NotifyReady, Notify, Ends
<1>17. ASSUME NEW r \in Requests, NotifyFailed(r) PROVE ToolsAreThere'
  BY SMTT(60), <1>17, <1>v, <1>p, <1>h, <1>g DEF NotifyFailed, Notify, Ends
<1>18. ASSUME NEW r \in Requests, Dies(r) PROVE ToolsAreThere'
  BY SMTT(60), <1>18, <1>v, <1>p, <1>h, <1>g DEF Dies, Ends
<1>19. ASSUME NEW g \in Gateways, PublishUrl(g) PROVE ToolsAreThere'
  BY SMTT(60), <1>19, <1>v, <1>p, <1>h, <1>g DEF PublishUrl
<1>20. ASSUME NEW i \in Ids, StackCompletes(i) PROVE ToolsAreThere'
  BY SMTT(60), <1>20, <1>v, <1>p, <1>h, <1>g DEF StackCompletes, Becomes
<1>21. ASSUME NEW i \in Ids, StackFails(i) PROVE ToolsAreThere'
  BY SMTT(60), <1>21, <1>v, <1>p, <1>h, <1>g DEF StackFails, Becomes
<1>22. ASSUME NEW i \in Ids, Update(i) PROVE ToolsAreThere'
  BY SMTT(60), <1>22, <1>v, <1>p, <1>h, <1>g DEF Update, Becomes
<1>23. ASSUME NEW i \in Ids, Delete(i) PROVE ToolsAreThere'
  BY SMTT(60), <1>23, <1>v, <1>p, <1>h, <1>g DEF Delete, Becomes
<1>24. ASSUME NEW i \in Ids, StackGone(i) PROVE ToolsAreThere'
  BY SMTT(60), <1>24, <1>v, <1>p, <1>h, <1>g DEF StackGone, Becomes
<1>25. ASSUME NEW i \in Ids, ExpireRow(i) PROVE ToolsAreThere'
  BY SMTT(60), <1>25, <1>v, <1>p, <1>h, <1>g DEF ExpireRow, Becomes
<1>27. ASSUME NEW i \in Ids, ApiGoesOn(i) PROVE ToolsAreThere'
  BY SMTT(60), <1>27, <1>v, <1>p, <1>h, <1>g DEF ApiGoesOn
<1>26. CASE UNCHANGED vars
  BY SMTT(60), <1>26, <1>v, <1>p, <1>h, <1>g DEF vars
<1> HIDE DEF ToolsAreThere
<1> QED
  BY <1>1, <1>2, <1>3, <1>4, <1>5, <1>6, <1>7, <1>8, <1>9, <1>10, <1>11,
     <1>12, <1>13, <1>14, <1>15, <1>16, <1>17, <1>18, <1>19, <1>20, <1>21,
     <1>22, <1>23, <1>24, <1>25, <1>26, <1>27
  DEF Next, Step, GatewayStep, MainStep, NotifyStep, StackStep

\* Handlers, stacks and tables stay in their types, for any numbers of them.
THEOREM TypeCorrect == Spec => []TypeOK
<1>1. TypeOK /\ [Next]_vars => TypeOK'
  BY TypeInductive
<1> QED
  BY <1>1, InitTyped, PTL DEF Spec

LEMMA InitInv == Init => Inv
<1> SUFFICES ASSUME Init PROVE Inv
  OBVIOUS
<1>1. TypeOK
  BY InitTyped
<1>2. Held /\ Apart /\ Alone /\ NoTwins /\ Gatewayed /\ ToolsAreThere
  BY DEF Init, Held, Apart, Alone, NoTwins, Gatewayed, ToolsAreThere, At, Running
<1> QED
  BY <1>1, <1>2 DEF Inv

LEMMA InvInductive == Inv /\ [Next]_vars => Inv'
<1> SUFFICES ASSUME Inv, [Next]_vars PROVE Inv'
  OBVIOUS
<1>1. TypeOK'
  BY TypeInductive DEF Inv
<1> QED
  BY <1>1, HeldInductive, ApartInductive, AloneInductive, NoTwinsInductive,
     GatewayedInductive, ToolsInductive DEF Inv

LEMMA InvHolds == Spec => []Inv
  BY InitInv, InvInductive, PTL DEF Spec

\* Retries do not deploy a twin beside the live agent, but for the excused.
THEOREM NoTwinsHolds == Spec => []NoTwins
<1>1. Inv => NoTwins
  BY DEF Inv
<1> QED
  BY <1>1, InvHolds, PTL

\* Agents are deployed with gateways that have a URL and are past creation.
THEOREM ToolsAreThereHolds == Spec => []ToolsAreThere
<1>1. Inv => ToolsAreThere
  BY DEF Inv
<1> QED
  BY <1>1, InvHolds, PTL

-----------------------------------------------------------------------------
(* Refinement. *)

Up == {m \in Mains : stack[m] = "complete"}
Name(r) == IF Phase(r) \in {"seen", "synced", "ready"} THEN main[r] ELSE 0
PhaseOf == [r \in Requests |-> Phase(r)]
NameOf == [r \in Requests |-> IF Phase(r) \in {"seen", "synced", "ready"} THEN main[r] ELSE 0]

\* Only the request r moves.
OthersStay(r) ==
    /\ \A q \in Requests \ {r} : step'[q] = step[q] /\ answer'[q] = answer[q] /\ main'[q] = main[q]
    /\ Up' = Up

\* What a request may do in ProvisionPromise.
Moved(r) ==
    \/ Phase(r)' = Phase(r) /\ Name(r)' = Name(r)
    \/ Phase(r) = "waiting" /\ Phase(r)' = "open" /\ Name(r)' = Name(r)
    \/ \E m \in Up : Phase(r) = "open" /\ Phase(r)' = "seen" /\ Name(r)' = m
    \/ Phase(r) = "seen" /\ Phase(r)' = "synced" /\ Name(r)' = Name(r)
    \/ Phase(r) = "synced" /\ Phase(r)' = "ready" /\ Name(r)' = Name(r)
    \/ Phase(r) \in {"waiting", "open", "seen"} /\ Phase(r)' = "failing" /\ Name(r)' = 0
    \/ Phase(r) = "failing" /\ Phase(r)' = "failed" /\ Name(r)' = Name(r)
    \/ Phase(r) \in {"open", "seen", "synced", "failing"} /\ Phase(r)' = "given up" /\ Name(r)' = 0

LEMMA MovesMap ==
  ASSUME NEW r \in Requests, OthersStay(r), Moved(r)
  PROVE  [Promise!Next]_(Promise!vars)
<1>1. ASSUME NEW q \in Requests \ {r}
      PROVE  Phase(q)' = Phase(q) /\ Name(q)' = Name(q)
  <2>1. step'[q] = step[q] /\ answer'[q] = answer[q] /\ main'[q] = main[q]
    BY DEF OthersStay
  <2>2. Phase(q)' = Phase(q)
    BY Zenon, <2>1 DEF Phase, At, Running
  <2> QED
    BY Zenon, <2>1, <2>2 DEF Name
<1>2. PhaseOf' = [PhaseOf EXCEPT ![r] = Phase(r)'] /\ PhaseOf[r] = Phase(r)
  BY <1>1 DEF PhaseOf
<1>3. NameOf = [q \in Requests |-> Name(q)] /\ NameOf' = [q \in Requests |-> Name(q)']
  BY DEF NameOf, Name
<1>4. NameOf' = [NameOf EXCEPT ![r] = Name(r)'] /\ NameOf[r] = Name(r)
  BY <1>1, <1>3
<1>5. Up' = Up
  BY DEF OthersStay
<1>6. Name(r)' = Name(r) => NameOf' = NameOf
  BY <1>1, <1>3
<1>7. Phase(r)' = Phase(r) => PhaseOf' = PhaseOf
  BY <1>1 DEF PhaseOf
<1> USE DEF Promise!Moves, Promise!Forget
<1>a. CASE Phase(r)' = Phase(r) /\ Name(r)' = Name(r)
  <2>1. UNCHANGED <<Up, PhaseOf, NameOf>>
    BY <1>a, <1>5, <1>6, <1>7
  <2> QED
    BY <2>1 DEF Promise!vars, Up, PhaseOf, NameOf
<1>b. CASE Phase(r) = "waiting" /\ Phase(r)' = "open" /\ Name(r)' = Name(r)
  <2>1. Promise!Open(r)
    BY <1>b, <1>2, <1>4, <1>5, <1>6 DEF Promise!Open, Up, PhaseOf, NameOf
  <2> QED
    BY <2>1 DEF Promise!Next
<1>d. CASE Phase(r) = "seen" /\ Phase(r)' = "synced" /\ Name(r)' = Name(r)
  <2>1. Promise!Sync(r)
    BY <1>d, <1>2, <1>4, <1>5, <1>6 DEF Promise!Sync, Up, PhaseOf, NameOf
  <2> QED
    BY <2>1 DEF Promise!Next
<1>e. CASE Phase(r) = "synced" /\ Phase(r)' = "ready" /\ Name(r)' = Name(r)
  <2>1. Promise!AnswerReady(r)
    BY <1>e, <1>2, <1>4, <1>5, <1>6 DEF Promise!AnswerReady, Up, PhaseOf, NameOf
  <2> QED
    BY <2>1 DEF Promise!Next
<1>f. CASE Phase(r) \in {"waiting", "open", "seen"} /\ Phase(r)' = "failing" /\ Name(r)' = 0
  <2>1. Promise!Fail(r)
    BY <1>f, <1>2, <1>4, <1>5, <1>6 DEF Promise!Fail, Up, PhaseOf, NameOf
  <2> QED
    BY <2>1 DEF Promise!Next
<1>g. CASE Phase(r) = "failing" /\ Phase(r)' = "failed" /\ Name(r)' = Name(r)
  <2>1. Promise!AnswerFailed(r)
    BY <1>g, <1>2, <1>4, <1>5, <1>6 DEF Promise!AnswerFailed, Up, PhaseOf, NameOf
  <2> QED
    BY <2>1 DEF Promise!Next
<1>h. CASE Phase(r) \in {"open", "seen", "synced", "failing"} /\ Phase(r)' = "given up" /\ Name(r)' = 0
  <2>2. /\ PhaseOf[r] \in {"open", "seen", "synced", "failing"}
        /\ PhaseOf' = [PhaseOf EXCEPT ![r] = "given up"] /\ NameOf' = [NameOf EXCEPT ![r] = 0]
    BY Zenon, <1>h, <1>2, <1>4
  <2>1. Promise!GiveUp(r)
    BY Zenon, <2>2, <1>5 DEF Promise!GiveUp, Up, PhaseOf, NameOf
  <2> QED
    BY <2>1 DEF Promise!Next
<1>c. ASSUME NEW m \in Up, Phase(r) = "open", Phase(r)' = "seen", Name(r)' = m
      PROVE  [Promise!Next]_(Promise!vars)
  <2>1. Promise!SeeUp(r, m)
    BY <1>c, <1>2, <1>4, <1>5 DEF Promise!SeeUp, Up, PhaseOf, NameOf
  <2> QED
    BY <2>1 DEF Promise!Next, Up
<1> QED
  BY Zenon, <1>a, <1>b, <1>c, <1>d, <1>e, <1>f, <1>g, <1>h DEF Moved

LEMMA WorldMaps ==
  ASSUME UNCHANGED <<step, answer, main>>
  PROVE  [Promise!Next]_(Promise!vars)
<1>1. PhaseOf' = PhaseOf /\ NameOf' = NameOf
  BY DEF PhaseOf, NameOf, Phase, At, Running
<1>2. Up' \in SUBSET Mains
  BY DEF Up
<1>3. Promise!World
  BY <1>1, <1>2 DEF Promise!World, Up, PhaseOf, NameOf
<1> QED
  BY <1>3 DEF Promise!Next

LEMMA AwaitGatewayGoes ==
  ASSUME NEW r \in Requests, AwaitGateway(r)
  PROVE  /\ step[r] \in {"awaitGateway", "sleepGateway"}
         /\ \E s \in {"url", "sleepGateway", "failing"} : Goto(r, s)
         /\ UNCHANGED <<main, answer>>
<1>1. \E s \in {"url", "sleepGateway", "failing"} : Goto(r, s)
  BY Zenon DEF AwaitGateway, Poll
<1>2. UNCHANGED <<main, answer>>
  BY DEF AwaitGateway, ownVars
<1>3. At(r, "awaitGateway") \/ At(r, "sleepGateway")
  BY Zenon DEF AwaitGateway, At
<1> QED
  BY <1>1, <1>2, <1>3 DEF At

LEMMA AwaitUrlGoes ==
  ASSUME NEW r \in Requests, AwaitUrl(r)
  PROVE  /\ step[r] \in {"url", "sleepUrl"}
         /\ \E s \in {"findMain", "sleepUrl"} : Goto(r, s)
         /\ UNCHANGED <<main, answer>>
<1>1. \E s \in {"findMain", "sleepUrl"} : Goto(r, s)
  BY Zenon DEF AwaitUrl
<1>2. UNCHANGED <<main, answer>>
  BY DEF AwaitUrl, ownVars
<1>3. At(r, "url") \/ At(r, "sleepUrl")
  BY Zenon DEF AwaitUrl, At
<1> QED
  BY <1>1, <1>2, <1>3 DEF At

LEMMA AwaitMainGoes ==
  ASSUME NEW r \in Requests, AwaitMain(r), Held
  PROVE  /\ step[r] \in {"await", "sleep"}
         /\ \/ Goto(r, "sync") /\ main[r] \in Up
            \/ \E s \in {"reprobe", "sleep", "failing"} : Goto(r, s)
         /\ UNCHANGED <<main, answer>>
<1>1. step[r] \in {"await", "sleep"}
  BY Zenon DEF AwaitMain, At
<1>2. \/ Goto(r, "sync") /\ \E s \in Probes(main[r]) : s \in Active
      \/ \E s \in {"reprobe", "sleep", "failing"} : Goto(r, s)
  BY Zenon DEF AwaitMain, Poll
<1>3. main[r] \in Mains
  BY <1>1 DEF Held
<1>4. (\E s \in Probes(main[r]) : s \in Active) => main[r] \in Up
  BY <1>3 DEF Probes, Active, Up
<1>5. UNCHANGED <<main, answer>>
  BY DEF AwaitMain, ownVars
<1> QED
  BY <1>1, <1>2, <1>4, <1>5

LEMMA InitMaps == Init => Promise!Init
<1> SUFFICES ASSUME Init PROVE Promise!Init
  OBVIOUS
<1>1. \A r \in Requests : Phase(r) = "waiting"
  BY DEF Init, Phase, At
<1> QED
  BY <1>1 DEF Promise!Init

LEMMA StepMaps == Inv /\ TypeOK' /\ [Next]_vars => [Promise!Next]_(Promise!vars)
<1> SUFFICES ASSUME Inv, TypeOK', [Next]_vars PROVE [Promise!Next]_(Promise!vars)
  OBVIOUS
<1>s. step \in [Requests -> Steps] /\ main \in [Requests -> Mains \cup {0}]
  BY DEF Inv, TypeOK
<1>a. answer \in [Requests -> Answers] /\ stack \in [Ids -> Statuses]
  BY DEF Inv, TypeOK
<1>h. Held
  BY DEF Inv
<1>z. Mains \subseteq Ids /\ Mains \cap Gateways = {}
  BY IdsAssumption DEF Ids
<1> USE DEF Held, Running, At, Goto, Well, Mishap, cfnVars, ownVars, historyVars
<1>1. ASSUME NEW r \in Requests, Receive(r) PROVE [Promise!Next]_(Promise!vars)
  <2>1. OthersStay(r)
    BY SMTT(60), <1>1, <1>s, <1>a DEF OthersStay, Up, Receive, Spend
  <2>2. Moved(r)
    BY SMTT(60), <1>1, <1>s, <1>a, <1>h, <1>z
    DEF Receive, Spend, Moved, Phase, Name, Up, Active, InProgress, Deleted, Failed
  <2> QED
    BY Zenon, <2>1, <2>2, MovesMap
<1>2. ASSUME NEW r \in Requests, NotifyStarted(r) PROVE [Promise!Next]_(Promise!vars)
  <2>1. OthersStay(r)
    BY SMTT(60), <1>2, <1>s, <1>a DEF OthersStay, Up, NotifyStarted, Notify
  <2>2. Moved(r)
    BY SMTT(60), <1>2, <1>s, <1>a, <1>h, <1>z
    DEF NotifyStarted, Notify, Moved, Phase, Name, Up, Active, InProgress, Deleted, Failed
  <2> QED
    BY Zenon, <2>1, <2>2, MovesMap
<1>3. ASSUME NEW r \in Requests, BuildWorkflow(r) PROVE [Promise!Next]_(Promise!vars)
  <2>1. OthersStay(r)
    BY SMTT(60), <1>3, <1>s, <1>a DEF OthersStay, Up, BuildWorkflow
  <2>2. Moved(r)
    BY SMTT(60), <1>3, <1>s, <1>a, <1>h, <1>z
    DEF BuildWorkflow, Moved, Phase, Name, Up, Active, InProgress, Deleted, Failed
  <2> QED
    BY Zenon, <2>1, <2>2, MovesMap
<1>4. ASSUME NEW r \in Requests, FindGateway(r) PROVE [Promise!Next]_(Promise!vars)
  <2>1. OthersStay(r)
    BY SMTT(60), <1>4, <1>s, <1>a
    DEF OthersStay, Up, FindGateway, Probes, Resumable, Spend, AfterGateway
  <2>2. Moved(r)
    BY SMTT(60), <1>4, <1>s, <1>a, <1>h, <1>z
    DEF FindGateway, Probes, Resumable, Spend, AfterGateway, Moved, Phase, Name, Up, Active,
        InProgress, Deleted, Failed
  <2> QED
    BY Zenon, <2>1, <2>2, MovesMap
<1>5. ASSUME NEW r \in Requests, DeployGateway(r) PROVE [Promise!Next]_(Promise!vars)
  <2>1. OthersStay(r)
    BY <1>5, <1>s, <1>a, <1>z, DeployGatewayGoes DEF OthersStay, Up, DeployGateway, Create, Abandon
  <2>2. Moved(r)
    BY <1>5, <1>s, DeployGatewayGoes DEF DeployGateway, Moved, Phase, Name
  <2> QED
    BY Zenon, <2>1, <2>2, MovesMap
<1>6. ASSUME NEW r \in Requests, ResolveGateway(r) PROVE [Promise!Next]_(Promise!vars)
  <2>1. OthersStay(r)
    BY SMTT(60), <1>6, <1>s, <1>a DEF OthersStay, Up, ResolveGateway, Spend, AfterGateway
  <2>2. Moved(r)
    BY SMTT(60), <1>6, <1>s, <1>a, <1>h, <1>z
    DEF ResolveGateway, Spend, AfterGateway, Moved, Phase, Name, Up, Active, InProgress,
        Deleted, Failed
  <2> QED
    BY Zenon, <2>1, <2>2, MovesMap
<1>7. ASSUME NEW r \in Requests, AwaitGateway(r) PROVE [Promise!Next]_(Promise!vars)
  <2>1. OthersStay(r)
    BY SMTT(60), <1>7, <1>s, <1>a
    DEF OthersStay, Up, AwaitGateway, Poll, Probes, Spend, Deadline, Hopeless
  <2>2. Phase(r) = "open"
    BY <1>7, <1>h, AwaitGatewayGoes DEF Phase
  <2>3. \E s \in {"url", "sleepGateway", "failing"} : step'[r] = s
    BY <1>7, <1>s, <1>h, AwaitGatewayGoes
  <2>4. Phase(r)' \in {"open", "failing"}
    BY <2>3, AwaitGatewayGoes, <1>7, <1>h DEF Phase, Name
  <2>5. Moved(r)
    BY Zenon, <2>2, <2>4 DEF Moved, Name
  <2> QED
    BY Zenon, <2>1, <2>5, MovesMap
<1>8. ASSUME NEW r \in Requests, AwaitUrl(r) PROVE [Promise!Next]_(Promise!vars)
  <2>1. OthersStay(r)
    BY SMTT(60), <1>8, <1>s, <1>a DEF OthersStay, Up, AwaitUrl, Spend, Deadline, HasUrl
  <2>2. Phase(r) = "open"
    BY <1>8, <1>h, AwaitUrlGoes DEF Phase
  <2>3. \E s \in {"findMain", "sleepUrl"} : step'[r] = s
    BY <1>8, <1>s, <1>h, AwaitUrlGoes
  <2>4. Phase(r)' = "open"
    BY <2>3, AwaitUrlGoes, <1>8, <1>h DEF Phase, Name
  <2>5. Moved(r)
    BY Zenon, <2>2, <2>4 DEF Moved, Name
  <2> QED
    BY Zenon, <2>1, <2>5, MovesMap
<1>9. ASSUME NEW r \in Requests, FindMain(r) PROVE [Promise!Next]_(Promise!vars)
  <2>1. OthersStay(r)
    BY SMTT(60), <1>9, <1>s, <1>a DEF OthersStay, Up, FindMain, Probes, Resumable, Spend, Dead
  <2>2. Moved(r)
    BY SMTT(60), <1>9, <1>s, <1>a, <1>h, <1>z
    DEF FindMain, Probes, Resumable, Spend, Dead, Moved, Phase, Name, Up, Active, InProgress,
        Deleted, Failed
  <2> QED
    BY Zenon, <2>1, <2>2, MovesMap
<1>10. ASSUME NEW r \in Requests, DeployMain(r) PROVE [Promise!Next]_(Promise!vars)
  <2>1. OthersStay(r)
    BY <1>10, <1>s, <1>a, <1>z, DeployMainGoes DEF OthersStay, Up, DeployMain, Create, Abandon
  <2>2. Moved(r)
    BY <1>10, <1>s, DeployMainGoes DEF DeployMain, Moved, Phase, Name
  <2> QED
    BY Zenon, <2>1, <2>2, MovesMap
<1>11. ASSUME NEW r \in Requests, ResolveMain(r) PROVE [Promise!Next]_(Promise!vars)
  <2>1. OthersStay(r)
    BY SMTT(60), <1>11, <1>s, <1>a DEF OthersStay, Up, ResolveMain, Spend
  <2>2. Moved(r)
    BY SMTT(60), <1>11, <1>s, <1>a, <1>h, <1>z
    DEF ResolveMain, Spend, Moved, Phase, Name, Up, Active, InProgress, Deleted, Failed
  <2> QED
    BY Zenon, <2>1, <2>2, MovesMap
<1>12. ASSUME NEW r \in Requests, NotifyStackComplete(r) PROVE [Promise!Next]_(Promise!vars)
  <2>1. OthersStay(r)
    BY SMTT(60), <1>12, <1>s, <1>a DEF OthersStay, Up, NotifyStackComplete, Notify
  <2>2. Moved(r)
    BY SMTT(60), <1>12, <1>s, <1>a, <1>h, <1>z
    DEF NotifyStackComplete, Notify, Moved, Phase, Name, Up, Active, InProgress, Deleted, Failed
  <2> QED
    BY Zenon, <2>1, <2>2, MovesMap
<1>13. ASSUME NEW r \in Requests, AwaitMain(r) PROVE [Promise!Next]_(Promise!vars)
  <2>1. OthersStay(r)
    BY SMTT(60), <1>13, <1>s, <1>a
    DEF OthersStay, Up, AwaitMain, Poll, Probes, Spend, Deadline, Hopeless
  <2>2. Phase(r) = "open"
    BY <1>13, <1>h, AwaitMainGoes DEF Phase
  <2>3. \E s \in {"sync", "reprobe", "sleep", "failing"} : step'[r] = s /\ (s = "sync" => main[r] \in Up)
    BY <1>13, <1>s, <1>h, AwaitMainGoes
  <2>4. \/ Phase(r)' \in {"open", "failing"}
        \/ Phase(r)' = "seen" /\ Name(r)' \in Up
    BY <2>3, AwaitMainGoes, <1>13, <1>h DEF Phase, Name
  <2>5. Moved(r)
    BY Zenon, <2>2, <2>4 DEF Moved, Name
  <2> QED
    BY Zenon, <2>1, <2>5, MovesMap
<1>14. ASSUME NEW r \in Requests, Reprobe(r) PROVE [Promise!Next]_(Promise!vars)
  <2>1. OthersStay(r)
    BY SMTT(60), <1>14, <1>s, <1>a DEF OthersStay, Up, Reprobe, Probes, Spend
  <2>2. Moved(r)
    BY SMTT(60), <1>14, <1>s, <1>a, <1>h, <1>z
    DEF Reprobe, Probes, Spend, Moved, Phase, Name, Up, Active, InProgress, Deleted, Failed
  <2> QED
    BY Zenon, <2>1, <2>2, MovesMap
<1>15. ASSUME NEW r \in Requests, SyncRuntime(r) PROVE [Promise!Next]_(Promise!vars)
  <2>1. OthersStay(r)
    BY SMTT(60), <1>15, <1>s, <1>a DEF OthersStay, Up, SyncRuntime, Deadline
  <2>2. Moved(r)
    BY SMTT(60), <1>15, <1>s, <1>a, <1>h, <1>z
    DEF SyncRuntime, Deadline, Moved, Phase, Name, Up, Active, InProgress, Deleted, Failed
  <2> QED
    BY Zenon, <2>1, <2>2, MovesMap
<1>16. ASSUME NEW r \in Requests, NotifyReady(r) PROVE [Promise!Next]_(Promise!vars)
  <2>1. OthersStay(r)
    BY SMTT(60), <1>16, <1>s, <1>a DEF OthersStay, Up, NotifyReady, Notify, Ends
  <2>2. Moved(r)
    BY SMTT(60), <1>16, <1>s, <1>a, <1>h, <1>z
    DEF NotifyReady, Notify, Ends, Moved, Phase, Name, Up, Active, InProgress, Deleted, Failed
  <2> QED
    BY Zenon, <2>1, <2>2, MovesMap
<1>17. ASSUME NEW r \in Requests, NotifyFailed(r) PROVE [Promise!Next]_(Promise!vars)
  <2>1. OthersStay(r)
    BY SMTT(60), <1>17, <1>s, <1>a DEF OthersStay, Up, NotifyFailed, Notify, Ends
  <2>2. Moved(r)
    BY SMTT(60), <1>17, <1>s, <1>a, <1>h, <1>z
    DEF NotifyFailed, Notify, Ends, Moved, Phase, Name, Up, Active, InProgress, Deleted, Failed
  <2> QED
    BY Zenon, <2>1, <2>2, MovesMap
<1>18. ASSUME NEW r \in Requests, Dies(r) PROVE [Promise!Next]_(Promise!vars)
  <2>1. OthersStay(r)
    BY SMTT(60), <1>18, <1>s, <1>a DEF OthersStay, Up, Dies, Ends
  <2>2. Moved(r)
    BY SMTT(60), <1>18, <1>s, <1>a, <1>h, <1>z
    DEF Dies, Ends, Moved, Phase, Name, Up, Active, InProgress, Deleted, Failed
  <2> QED
    BY Zenon, <2>1, <2>2, MovesMap
<1>19. ASSUME NEW g \in Gateways, PublishUrl(g) PROVE [Promise!Next]_(Promise!vars)
  BY <1>19, WorldMaps DEF PublishUrl
<1>20. ASSUME NEW i \in Ids, StackCompletes(i) PROVE [Promise!Next]_(Promise!vars)
  BY <1>20, WorldMaps DEF StackCompletes
<1>21. ASSUME NEW i \in Ids, StackFails(i) PROVE [Promise!Next]_(Promise!vars)
  BY <1>21, WorldMaps DEF StackFails
<1>22. ASSUME NEW i \in Ids, Update(i) PROVE [Promise!Next]_(Promise!vars)
  BY <1>22, WorldMaps DEF Update
<1>23. ASSUME NEW i \in Ids, Delete(i) PROVE [Promise!Next]_(Promise!vars)
  BY <1>23, WorldMaps DEF Delete
<1>24. ASSUME NEW i \in Ids, StackGone(i) PROVE [Promise!Next]_(Promise!vars)
  BY <1>24, WorldMaps DEF StackGone
<1>25. ASSUME NEW i \in Ids, ExpireRow(i) PROVE [Promise!Next]_(Promise!vars)
  BY <1>25, WorldMaps DEF ExpireRow
<1>27. ASSUME NEW i \in Ids, ApiGoesOn(i) PROVE [Promise!Next]_(Promise!vars)
  BY <1>27, WorldMaps DEF ApiGoesOn
<1>26. CASE UNCHANGED vars
  BY <1>26, WorldMaps DEF vars
<1> QED
  BY <1>1, <1>2, <1>3, <1>4, <1>5, <1>6, <1>7, <1>8, <1>9, <1>10, <1>11,
     <1>12, <1>13, <1>14, <1>15, <1>16, <1>17, <1>18, <1>19, <1>20, <1>21,
     <1>22, <1>23, <1>24, <1>25, <1>26, <1>27
  DEF Next, Step, GatewayStep, MainStep, NotifyStep, StackStep

\* A handler implements ProvisionPromise: whatever fails, is deleted or dies,
\* "ready" names an agent that was seen up during the request, and synced after.
THEOREM KeepsPromiseHolds == Spec => KeepsPromise
<1>1. Inv /\ Inv' /\ [Next]_vars => [Promise!Next]_(Promise!vars)
  BY StepMaps DEF Inv
<1> QED
  BY <1>1, InitMaps, InvHolds, PTL DEF Spec, KeepsPromise, Promise!Spec

=============================================================================
