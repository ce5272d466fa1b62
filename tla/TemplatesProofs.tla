-------------------------- MODULE TemplatesProofs --------------------------
(***************************************************************************)
(* The safety of Templates, for every number of templates, invocations,    *)
(* test deployments and mishaps.                                           *)
(***************************************************************************)
EXTENDS TemplateRaces, TLAPS

-----------------------------------------------------------------------------
(* The inductive invariant. *)

TableType ==
    /\ status \in [Templates -> Statuses] /\ devops \in [Templates -> Bodies]
    /\ slug \in [Templates -> Names] /\ testName \in [Templates -> Names]
    /\ testId \in [Templates -> Stacks \cup {NoStack}]
    /\ deploy \in [Templates -> DeployStatuses] /\ validated \subseteq Templates

StackType ==
    /\ owner \in [Stacks -> Templates] /\ body \in [Stacks -> Bodies]
    /\ name \in [Stacks -> Names]
    /\ cfn \in [Stacks -> StackStatuses] /\ rows \subseteq Stacks
    /\ catalog \subseteq Templates
    /\ completed \subseteq Stacks
    /\ doubled \subseteq Templates /\ mishaps \in 0..MaxMishaps

\* A sync has worked out a status of the template before it records it.
WorkerType ==
    /\ pc \in [Workers -> Steps] /\ at \in [Workers -> Templates]
    /\ curId \in [Workers -> Stacks \cup {NoStack}] /\ curBody \in [Workers -> Bodies]
    /\ curName \in [Workers -> Names]
    /\ seen \in [Workers -> StackStatuses \cup DeployStatuses \cup {"unknown"}]
    /\ \A w \in Workers : pc[w] = "record" => seen[w] \in {"active", "failed", "deploying"}

TypeInv == TableType /\ StackType /\ WorkerType

\* Steps that use the test deployment that the invocation has at hand.
Following == {"describe", "probe", "drop", "adopt", "note", "noteFound", "retain"}

\* What has a record or was up was made.
MadeInv ==
    /\ \A s \in rows \cup completed : cfn[s] # "none"
    /\ \A s \in Stacks : cfn[s] = "complete" => s \in completed

\* The test deployment that a template names was made for it.
NamedInv ==
    \A t \in Templates : testId[t] # NoStack => owner[testId[t]] = t /\ cfn[testId[t]] # "none"

\* ... and the one that an invocation has at hand for its template.
HandInv ==
    /\ \A w \in Workers : curId[w] # NoStack => owner[curId[w]] = at[w] /\ cfn[curId[w]] # "none"
    /\ \A w \in Workers : pc[w] \in Following => curId[w] # NoStack

RefInv == MadeInv /\ NamedInv /\ HandInv

\* The templates of which a test deployment was up.
Proven == {t \in Templates : \E s \in completed : owner[s] = t}

\* What says that a test is active, in the table or at hand, is about such a template.
UpInv ==
    /\ \A t \in Templates : deploy[t] = "active" => t \in Proven
    /\ validated \subseteq Proven
    /\ \A t \in Specialists : status[t] \in {"published", "archived"} => t \in Proven
    /\ \A w \in Workers :
           /\ pc[w] = "probe" /\ seen[w] = "complete" => at[w] \in Proven
           /\ pc[w] = "record" /\ seen[w] = "active" => at[w] \in Proven
           /\ pc[w] = "validate" => at[w] \in Proven
           /\ pc[w] \in {"slug", "publish", "unlist", "archive"} /\ at[w] \in Specialists
                  => at[w] \in Proven

\* The invocations that looked for a test deployment and found none.
Making == {w \in Workers : pc[w] \in {"mark", "deploy"}}

\* The test deployments that have a record, or will if the agent Lambda goes on.
Present == rows \cup {s \in Stacks : cfn[s] = "asked"}

\* Under a name, unless two were made at a time, there is none when one is made,
\* only one invocation makes it, and then there is one.
MakingInv ==
    /\ \A w \in Making :
           at[w] \in doubled
               \/ \A s \in Present : ~(owner[s] = at[w] /\ name[s] = curName[w])
    /\ \A v, w \in Making :
           at[v] = at[w] /\ curName[v] = curName[w] /\ at[w] \notin doubled => v = w
    /\ \A r, s \in Present :
           owner[r] = owner[s] /\ name[r] = name[s] /\ owner[s] \notin doubled => r = s

TemplatesInv == TypeInv /\ RefInv /\ UpInv /\ MakingInv

-----------------------------------------------------------------------------
(* Types. *)

\* What an idle invocation has is of the right kind.
LEMMA Anything == AnyTemplate \in Templates /\ AnyBody \in Bodies /\ NoName \in Names
BY TemplatesAssumption DEF AnyTemplate, AnyBody, Names

\* A template is called by a name.
LEMMA RenamesFit == \A n \in Names : Renames[n] \subseteq Names
BY TemplatesAssumption DEF Names

\* One more mishap is within the bound.
LEMMA FailCounted ==
    ASSUME mishaps \in 0..MaxMishaps, Fail
    PROVE  mishaps' \in 0..MaxMishaps
BY TemplatesAssumption DEF Fail

\* The table of templates keeps its types.
LEMMA TableTypeStep == TypeInv /\ [Next]_vars => TableType'
<1> SUFFICES ASSUME TypeInv, [Next]_vars PROVE TableType'
    OBVIOUS
<1> USE DEF TypeInv, TableType, StackType, WorkerType, Statuses, DeployStatuses, templateVars
<1>1. ASSUME NEW t \in Templates, CreateTemplate(t) PROVE TableType'
    BY <1>1, RenamesFit DEF CreateTemplate
<1>2. ASSUME NEW w \in Workers, NEW t \in Templates, UpdateTemplate(w, t) PROVE TableType'
    BY <1>2 DEF UpdateTemplate, LoadFor, Load, LoadId, LoadTest, Goto
<1>3. ASSUME NEW w \in Workers, NEW t \in Templates, StartTesting(w, t) PROVE TableType'
    BY <1>3 DEF StartTesting, LoadFor, Load, LoadId, LoadTest, Goto
<1>4. ASSUME NEW w \in Workers, NEW t \in Templates, CancelTesting(w, t) PROVE TableType'
    BY <1>4 DEF CancelTesting, LoadFor, Load, LoadId, LoadTest, Goto
<1>5. ASSUME NEW w \in Workers, NEW t \in Templates, RestartTesting(w, t) PROVE TableType'
    BY <1>5 DEF RestartTesting, LoadFor, Load, LoadId, LoadTest, Goto
<1>6. ASSUME NEW w \in Workers, NEW t \in Templates, MarkTestingValidated(w, t) PROVE TableType'
    BY <1>6 DEF MarkTestingValidated, LoadFor, Load, LoadId, LoadTest, Goto
<1>7. ASSUME NEW w \in Workers, NEW t \in Templates, RefreshTestingStatus(w, t) PROVE TableType'
    BY <1>7 DEF RefreshTestingStatus, LoadFor, Load, LoadId, LoadTest, Goto
<1>8. ASSUME NEW w \in Workers, NEW t \in Templates, PublishTemplate(w, t) PROVE TableType'
    BY <1>8 DEF PublishTemplate, LoadFor, Load, LoadId, LoadTest, Goto
<1>9. ASSUME NEW w \in Workers, NEW t \in Templates, UnpublishTemplate(w, t) PROVE TableType'
    BY <1>9 DEF UnpublishTemplate, LoadFor, Load, LoadId, LoadTest, Goto
<1>10. ASSUME NEW w \in Workers, Save(w) PROVE TableType'
    <2>1. slug' \in [Templates -> Names]
        BY <1>10, RenamesFit DEF Save
    <2>2. deploy' \in [Templates -> DeployStatuses] /\ validated' \subseteq Templates
        BY <1>10 DEF Save
    <2>3. devops' \in [Templates -> Bodies]
        BY <1>10 DEF Save
    <2>4. UNCHANGED <<status, testId, testName>>
        BY <1>10 DEF Save
    <2> QED
        BY <2>1, <2>2, <2>3, <2>4
<1>11. ASSUME NEW w \in Workers, Find(w) PROVE TableType'
    BY <1>11 DEF Find, Scan, Follow, Onward, Return, Goto
<1>12. ASSUME NEW w \in Workers, NoteFound(w) PROVE TableType'
    BY <1>12 DEF NoteFound, Onward, Goto, Writes
<1>13. ASSUME NEW w \in Workers, Wait(w) PROVE TableType'
    BY <1>13 DEF Wait, PersistDeploy, Return, Goto, Writes
<1>14. ASSUME NEW w \in Workers, Describe(w) PROVE TableType'
    BY <1>14 DEF Describe, Answers, Goto
<1>15. ASSUME NEW w \in Workers, Probe(w) PROVE TableType'
    BY <1>15 DEF Probe, Answers, Goto, Verdict
<1>16. ASSUME NEW w \in Workers, Record(w) PROVE TableType'
    BY <1>16 DEF Record, PersistDeploy, Return, Goto, Writes
<1>17. ASSUME NEW w \in Workers, Drop(w) PROVE TableType'
    BY <1>17, Anything DEF Drop, PersistDraft, Return, Goto, Writes
<1>18. ASSUME NEW w \in Workers, Lookup(w) PROVE TableType'
    BY <1>18 DEF Lookup, Scan, Follow, Onward, Return, Goto
<1>19. ASSUME NEW w \in Workers, Adopt(w) PROVE TableType'
    BY <1>19 DEF Adopt, PersistTesting, Onward, Goto, Writes
<1>20. ASSUME NEW w \in Workers, Mark(w) PROVE TableType'
    BY <1>20 DEF Mark, PersistTesting, Onward, Goto, Writes
<1>21. ASSUME NEW w \in Workers, DeployTestStack(w) PROVE TableType'
    BY <1>21 DEF DeployTestStack, Onward, Return, Goto, Fail
<1>22. ASSUME NEW w \in Workers, Resolve(w) PROVE TableType'
    BY <1>22 DEF Resolve, Scan, Follow, Onward, Return, Goto
<1>23. ASSUME NEW w \in Workers, Note(w) PROVE TableType'
    BY <1>23 DEF Note, Return, Goto, Writes
<1>24. ASSUME NEW w \in Workers, Recover(w) PROVE TableType'
    BY <1>24 DEF Recover, Scan, Follow, Onward, Return, Goto
<1>25. ASSUME NEW w \in Workers, Retain(w) PROVE TableType'
    BY <1>25 DEF Retain, PersistTesting, Return, Goto, Writes
<1>26. ASSUME NEW w \in Workers, GiveUp(w) PROVE TableType'
    BY <1>26, Anything DEF GiveUp, PersistDraft, Return, Goto, Writes
<1>27. ASSUME NEW w \in Workers, Reset(w) PROVE TableType'
    BY <1>27, Anything DEF Reset, PersistDraft, Onward, Goto, Writes
<1>28. ASSUME NEW w \in Workers, TearDown(w) PROVE TableType'
    BY <1>28 DEF TearDown, Delete, Fail, Return, Onward, Goto
<1>29. ASSUME NEW w \in Workers, Reload(w) PROVE TableType'
    BY <1>29 DEF Reload, Return, Goto
<1>30. ASSUME NEW w \in Workers, Validate(w) PROVE TableType'
    BY <1>30 DEF Validate, Return, Goto, Writes
<1>31. ASSUME NEW w \in Workers, Orphan(w) PROVE TableType'
    BY <1>31 DEF Orphan, Scan, Follow, Onward, Return, Goto
<1>32. ASSUME NEW w \in Workers, AssertSlug(w) PROVE TableType'
    BY <1>32 DEF AssertSlug, Onward, Return, Goto
<1>33. ASSUME NEW w \in Workers, Publish(w) PROVE TableType'
    BY <1>33, Anything DEF Publish, Onward, Goto, Writes
<1>34. ASSUME NEW w \in Workers, Emit(w) PROVE TableType'
    BY <1>34 DEF Emit, Fail, Onward, Goto
<1>35. ASSUME NEW w \in Workers, Unlist(w) PROVE TableType'
    BY <1>35 DEF Unlist, Fail, Onward, Return, Goto
<1>36. ASSUME NEW w \in Workers, Archive(w) PROVE TableType'
    BY <1>36 DEF Archive, Return, Goto, Writes
<1>37. ASSUME NEW w \in Workers, TearDownPublished(w) PROVE TableType'
    BY <1>37 DEF TearDownPublished, Delete, Fail, Return, Goto
<1>38. ASSUME NEW w \in Workers, Dies(w) PROVE TableType'
    BY <1>38 DEF Dies, Fail, Return, Goto
<1>39. ASSUME NEW s \in Stacks, StackSettles(s) PROVE TableType'
    BY <1>39 DEF StackSettles
<1>40. ASSUME UNCHANGED vars PROVE TableType'
    BY <1>40 DEF vars
<1>41. ASSUME NEW t \in Templates, Poll(t) PROVE TableType'
    BY <1>41, <1>7, TemplatesAssumption DEF Poll
<1>42. ASSUME NEW s \in Stacks, AgentGoesOn(s) PROVE TableType'
    BY <1>42 DEF AgentGoesOn
<1> QED
  BY <1>1, <1>2, <1>3, <1>4, <1>5, <1>6, <1>7, <1>8, <1>9, <1>10, <1>11, <1>12, <1>13, <1>14,
     <1>15, <1>16, <1>17, <1>18, <1>19, <1>20, <1>21, <1>22, <1>23, <1>24, <1>25, <1>26, <1>27,
     <1>28, <1>29, <1>30, <1>31, <1>32, <1>33, <1>34, <1>35, <1>36, <1>37, <1>38, <1>39, <1>40,
     <1>41, <1>42
  DEF Next, Author, Call

\* The stacks, the catalog and the counts keep their types.
LEMMA StackTypeStep == TypeInv /\ [Next]_vars => StackType'
<1> SUFFICES ASSUME TypeInv, [Next]_vars PROVE StackType'
    OBVIOUS
<1> USE DEF TypeInv, TableType, StackType, WorkerType, stackVars, StackStatuses
<1>1. ASSUME NEW t \in Templates, CreateTemplate(t) PROVE StackType'
    BY <1>1, FailCounted DEF CreateTemplate
<1>2. ASSUME NEW w \in Workers, NEW t \in Templates, UpdateTemplate(w, t) PROVE StackType'
    BY <1>2, FailCounted DEF UpdateTemplate, LoadFor, Load, LoadId, LoadTest, Goto
<1>3. ASSUME NEW w \in Workers, NEW t \in Templates, StartTesting(w, t) PROVE StackType'
    BY <1>3, FailCounted DEF StartTesting, LoadFor, Load, LoadId, LoadTest, Goto
<1>4. ASSUME NEW w \in Workers, NEW t \in Templates, CancelTesting(w, t) PROVE StackType'
    BY <1>4, FailCounted DEF CancelTesting, LoadFor, Load, LoadId, LoadTest, Goto
<1>5. ASSUME NEW w \in Workers, NEW t \in Templates, RestartTesting(w, t) PROVE StackType'
    BY <1>5, FailCounted DEF RestartTesting, LoadFor, Load, LoadId, LoadTest, Goto
<1>6. ASSUME NEW w \in Workers, NEW t \in Templates, MarkTestingValidated(w, t) PROVE StackType'
    BY <1>6, FailCounted DEF MarkTestingValidated, LoadFor, Load, LoadId, LoadTest, Goto
<1>7. ASSUME NEW w \in Workers, NEW t \in Templates, RefreshTestingStatus(w, t) PROVE StackType'
    BY <1>7, FailCounted DEF RefreshTestingStatus, LoadFor, Load, LoadId, LoadTest, Goto
<1>8. ASSUME NEW w \in Workers, NEW t \in Templates, PublishTemplate(w, t) PROVE StackType'
    BY <1>8, FailCounted DEF PublishTemplate, LoadFor, Load, LoadId, LoadTest, Goto
<1>9. ASSUME NEW w \in Workers, NEW t \in Templates, UnpublishTemplate(w, t) PROVE StackType'
    BY <1>9, FailCounted DEF UnpublishTemplate, LoadFor, Load, LoadId, LoadTest, Goto
<1>10. ASSUME NEW w \in Workers, Save(w) PROVE StackType'
    BY <1>10, FailCounted DEF Save, Return, Goto, Writes
<1>11. ASSUME NEW w \in Workers, Find(w) PROVE StackType'
    BY <1>11, FailCounted DEF Find, Scan, Follow, Onward, Return, Goto
<1>12. ASSUME NEW w \in Workers, NoteFound(w) PROVE StackType'
    BY <1>12, FailCounted DEF NoteFound, Onward, Goto, Writes
<1>13. ASSUME NEW w \in Workers, Wait(w) PROVE StackType'
    BY <1>13, FailCounted DEF Wait, PersistDeploy, Return, Goto, Writes
<1>14. ASSUME NEW w \in Workers, Describe(w) PROVE StackType'
    BY <1>14, FailCounted DEF Describe, Answers, Goto
<1>15. ASSUME NEW w \in Workers, Probe(w) PROVE StackType'
    BY <1>15, FailCounted DEF Probe, Answers, Goto, Verdict
<1>16. ASSUME NEW w \in Workers, Record(w) PROVE StackType'
    BY <1>16, FailCounted DEF Record, PersistDeploy, Return, Goto, Writes
<1>17. ASSUME NEW w \in Workers, Drop(w) PROVE StackType'
    BY <1>17, FailCounted DEF Drop, PersistDraft, Return, Goto, Writes
<1>18. ASSUME NEW w \in Workers, Lookup(w) PROVE StackType'
    BY <1>18, FailCounted DEF Lookup, Scan, Follow, Onward, Return, Goto
<1>19. ASSUME NEW w \in Workers, Adopt(w) PROVE StackType'
    BY <1>19, FailCounted DEF Adopt, PersistTesting, Onward, Goto, Writes
<1>20. ASSUME NEW w \in Workers, Mark(w) PROVE StackType'
    BY <1>20, FailCounted DEF Mark, PersistTesting, Onward, Goto, Writes
<1>21. ASSUME NEW w \in Workers, DeployTestStack(w) PROVE StackType'
    BY <1>21, FailCounted DEF DeployTestStack, Onward, Return, Goto, Fail
<1>22. ASSUME NEW w \in Workers, Resolve(w) PROVE StackType'
    BY <1>22, FailCounted DEF Resolve, Scan, Follow, Onward, Return, Goto
<1>23. ASSUME NEW w \in Workers, Note(w) PROVE StackType'
    BY <1>23, FailCounted DEF Note, Return, Goto, Writes
<1>24. ASSUME NEW w \in Workers, Recover(w) PROVE StackType'
    BY <1>24, FailCounted DEF Recover, Scan, Follow, Onward, Return, Goto
<1>25. ASSUME NEW w \in Workers, Retain(w) PROVE StackType'
    BY <1>25, FailCounted DEF Retain, PersistTesting, Return, Goto, Writes
<1>26. ASSUME NEW w \in Workers, GiveUp(w) PROVE StackType'
    BY <1>26, FailCounted DEF GiveUp, PersistDraft, Return, Goto, Writes
<1>27. ASSUME NEW w \in Workers, Reset(w) PROVE StackType'
    BY <1>27, FailCounted DEF Reset, PersistDraft, Onward, Goto, Writes
<1>28. ASSUME NEW w \in Workers, TearDown(w) PROVE StackType'
    BY <1>28, FailCounted DEF TearDown, Delete, Fail, Return, Onward, Goto
<1>29. ASSUME NEW w \in Workers, Reload(w) PROVE StackType'
    BY <1>29, FailCounted DEF Reload, Return, Goto
<1>30. ASSUME NEW w \in Workers, Validate(w) PROVE StackType'
    BY <1>30, FailCounted DEF Validate, Return, Goto, Writes
<1>31. ASSUME NEW w \in Workers, Orphan(w) PROVE StackType'
    BY <1>31, FailCounted DEF Orphan, Scan, Follow, Onward, Return, Goto
<1>32. ASSUME NEW w \in Workers, AssertSlug(w) PROVE StackType'
    BY <1>32, FailCounted DEF AssertSlug, Onward, Return, Goto
<1>33. ASSUME NEW w \in Workers, Publish(w) PROVE StackType'
    BY <1>33, FailCounted DEF Publish, Onward, Goto, Writes
<1>34. ASSUME NEW w \in Workers, Emit(w) PROVE StackType'
    BY <1>34, FailCounted DEF Emit, Fail, Onward, Goto
<1>35. ASSUME NEW w \in Workers, Unlist(w) PROVE StackType'
    BY <1>35, FailCounted DEF Unlist, Fail, Onward, Return, Goto
<1>36. ASSUME NEW w \in Workers, Archive(w) PROVE StackType'
    BY <1>36, FailCounted DEF Archive, Return, Goto, Writes
<1>37. ASSUME NEW w \in Workers, TearDownPublished(w) PROVE StackType'
    BY <1>37, FailCounted DEF TearDownPublished, Delete, Fail, Return, Goto
<1>38. ASSUME NEW w \in Workers, Dies(w) PROVE StackType'
    BY <1>38, FailCounted DEF Dies, Fail, Return, Goto
<1>39. ASSUME NEW s \in Stacks, StackSettles(s) PROVE StackType'
    BY <1>39, FailCounted DEF StackSettles
<1>40. ASSUME UNCHANGED vars PROVE StackType'
    BY <1>40, FailCounted DEF vars
<1>41. ASSUME NEW t \in Templates, Poll(t) PROVE StackType'
    BY <1>41, <1>7, TemplatesAssumption DEF Poll
<1>42. ASSUME NEW s \in Stacks, AgentGoesOn(s) PROVE StackType'
    BY <1>42 DEF AgentGoesOn
<1> QED
  BY <1>1, <1>2, <1>3, <1>4, <1>5, <1>6, <1>7, <1>8, <1>9, <1>10, <1>11, <1>12, <1>13, <1>14,
     <1>15, <1>16, <1>17, <1>18, <1>19, <1>20, <1>21, <1>22, <1>23, <1>24, <1>25, <1>26, <1>27,
     <1>28, <1>29, <1>30, <1>31, <1>32, <1>33, <1>34, <1>35, <1>36, <1>37, <1>38, <1>39, <1>40,
     <1>41, <1>42
  DEF Next, Author, Call

\* The invocations keep their types.
LEMMA WorkerTypeStep == TypeInv /\ [Next]_vars => WorkerType'
<1> SUFFICES ASSUME TypeInv, [Next]_vars PROVE WorkerType'
    OBVIOUS
<1> USE DEF TypeInv, TableType, StackType, WorkerType, workerVars, Steps, StackStatuses,
            DeployStatuses, SyncStep, Named
<1>1. ASSUME NEW t \in Templates, CreateTemplate(t) PROVE WorkerType'
    BY <1>1, Anything DEF CreateTemplate
<1>2. ASSUME NEW w \in Workers, NEW t \in Templates, UpdateTemplate(w, t) PROVE WorkerType'
    BY <1>2, Anything DEF UpdateTemplate, LoadFor, Load, LoadId, LoadTest, Goto
<1>3. ASSUME NEW w \in Workers, NEW t \in Templates, StartTesting(w, t) PROVE WorkerType'
    BY <1>3, Anything DEF StartTesting, LoadFor, Load, LoadId, LoadTest, Goto
<1>4. ASSUME NEW w \in Workers, NEW t \in Templates, CancelTesting(w, t) PROVE WorkerType'
    BY <1>4, Anything DEF CancelTesting, LoadFor, Load, LoadId, LoadTest, Goto
<1>5. ASSUME NEW w \in Workers, NEW t \in Templates, RestartTesting(w, t) PROVE WorkerType'
    BY <1>5, Anything DEF RestartTesting, LoadFor, Load, LoadId, LoadTest, Goto
<1>6. ASSUME NEW w \in Workers, NEW t \in Templates, MarkTestingValidated(w, t) PROVE WorkerType'
    BY <1>6, Anything DEF MarkTestingValidated, LoadFor, Load, LoadId, LoadTest, Goto
<1>7. ASSUME NEW w \in Workers, NEW t \in Templates, RefreshTestingStatus(w, t) PROVE WorkerType'
    BY <1>7, Anything DEF RefreshTestingStatus, LoadFor, Load, LoadId, LoadTest, Goto
<1>8. ASSUME NEW w \in Workers, NEW t \in Templates, PublishTemplate(w, t) PROVE WorkerType'
    BY <1>8, Anything DEF PublishTemplate, LoadFor, Load, LoadId, LoadTest, Goto
<1>9. ASSUME NEW w \in Workers, NEW t \in Templates, UnpublishTemplate(w, t) PROVE WorkerType'
    BY <1>9, Anything DEF UnpublishTemplate, LoadFor, Load, LoadId, LoadTest, Goto
<1>10. ASSUME NEW w \in Workers, Save(w) PROVE WorkerType'
    BY <1>10, Anything DEF Save, Return, Goto, Writes
<1>11. ASSUME NEW w \in Workers, Find(w) PROVE WorkerType'
    BY <1>11, Anything DEF Find, Scan, Follow, Onward, Return, Goto
<1>12. ASSUME NEW w \in Workers, NoteFound(w) PROVE WorkerType'
    BY <1>12, Anything DEF NoteFound, Onward, Goto, Writes
<1>13. ASSUME NEW w \in Workers, Wait(w) PROVE WorkerType'
    BY <1>13, Anything DEF Wait, PersistDeploy, Return, Goto, Writes
<1>14. ASSUME NEW w \in Workers, Describe(w) PROVE WorkerType'
    BY <1>14, Anything DEF Describe, Answers, Goto
<1>15. ASSUME NEW w \in Workers, Probe(w) PROVE WorkerType'
    BY <1>15, Anything DEF Probe, Answers, Goto, Verdict
<1>16. ASSUME NEW w \in Workers, Record(w) PROVE WorkerType'
    BY <1>16, Anything DEF Record, PersistDeploy, Return, Goto, Writes
<1>17. ASSUME NEW w \in Workers, Drop(w) PROVE WorkerType'
    BY <1>17, Anything DEF Drop, PersistDraft, Return, Goto, Writes
<1>18. ASSUME NEW w \in Workers, Lookup(w) PROVE WorkerType'
    BY <1>18, Anything DEF Lookup, Scan, Follow, Onward, Return, Goto
<1>19. ASSUME NEW w \in Workers, Adopt(w) PROVE WorkerType'
    BY <1>19, Anything DEF Adopt, PersistTesting, Onward, Goto, Writes
<1>20. ASSUME NEW w \in Workers, Mark(w) PROVE WorkerType'
    BY <1>20, Anything DEF Mark, PersistTesting, Onward, Goto, Writes
<1>21. ASSUME NEW w \in Workers, DeployTestStack(w) PROVE WorkerType'
    BY <1>21, Anything DEF DeployTestStack, Onward, Return, Goto, Fail
<1>22. ASSUME NEW w \in Workers, Resolve(w) PROVE WorkerType'
    BY <1>22, Anything DEF Resolve, Scan, Follow, Onward, Return, Goto
<1>23. ASSUME NEW w \in Workers, Note(w) PROVE WorkerType'
    BY <1>23, Anything DEF Note, Return, Goto, Writes
<1>24. ASSUME NEW w \in Workers, Recover(w) PROVE WorkerType'
    BY <1>24, Anything DEF Recover, Scan, Follow, Onward, Return, Goto
<1>25. ASSUME NEW w \in Workers, Retain(w) PROVE WorkerType'
    BY <1>25, Anything DEF Retain, PersistTesting, Return, Goto, Writes
<1>26. ASSUME NEW w \in Workers, GiveUp(w) PROVE WorkerType'
    BY <1>26, Anything DEF GiveUp, PersistDraft, Return, Goto, Writes
<1>27. ASSUME NEW w \in Workers, Reset(w) PROVE WorkerType'
    BY <1>27, Anything DEF Reset, PersistDraft, Onward, Goto, Writes
<1>28. ASSUME NEW w \in Workers, TearDown(w) PROVE WorkerType'
    BY <1>28, Anything DEF TearDown, Delete, Fail, Return, Onward, Goto
<1>29. ASSUME NEW w \in Workers, Reload(w) PROVE WorkerType'
    <2>1. ASSUME Goto(w, "lookup"), curId' = [curId EXCEPT ![w] = NoStack],
                 curBody' = [curBody EXCEPT ![w] = devops[at[w]]],
                 curName' = [curName EXCEPT ![w] = slug[at[w]]], UNCHANGED <<at, seen>>
          PROVE  WorkerType'
        BY <2>1 DEF Goto
    <2>2. ASSUME Goto(w, SyncStep(testId[at[w]])), curId' = [curId EXCEPT ![w] = testId[at[w]]],
                 curName' = [curName EXCEPT ![w] = testName[at[w]]], UNCHANGED <<at, curBody, seen>>
          PROVE  WorkerType'
        BY <2>2 DEF Goto
    <2>3. ASSUME Return(w) PROVE WorkerType'
        BY <2>3, Anything DEF Return, Goto
    <2> QED BY <1>29, <2>1, <2>2, <2>3 DEF Reload
<1>30. ASSUME NEW w \in Workers, Validate(w) PROVE WorkerType'
    BY <1>30, Anything DEF Validate, Return, Goto, Writes
<1>31. ASSUME NEW w \in Workers, Orphan(w) PROVE WorkerType'
    BY <1>31, Anything DEF Orphan, Scan, Follow, Onward, Return, Goto
<1>32. ASSUME NEW w \in Workers, AssertSlug(w) PROVE WorkerType'
    BY <1>32, Anything DEF AssertSlug, Onward, Return, Goto
<1>33. ASSUME NEW w \in Workers, Publish(w) PROVE WorkerType'
    BY <1>33, Anything DEF Publish, Onward, Goto, Writes
<1>34. ASSUME NEW w \in Workers, Emit(w) PROVE WorkerType'
    BY <1>34, Anything DEF Emit, Fail, Onward, Goto
<1>35. ASSUME NEW w \in Workers, Unlist(w) PROVE WorkerType'
    BY <1>35, Anything DEF Unlist, Fail, Onward, Return, Goto
<1>36. ASSUME NEW w \in Workers, Archive(w) PROVE WorkerType'
    BY <1>36, Anything DEF Archive, Return, Goto, Writes
<1>37. ASSUME NEW w \in Workers, TearDownPublished(w) PROVE WorkerType'
    BY <1>37, Anything DEF TearDownPublished, Delete, Fail, Return, Goto
<1>38. ASSUME NEW w \in Workers, Dies(w) PROVE WorkerType'
    BY <1>38, Anything DEF Dies, Fail, Return, Goto
<1>39. ASSUME NEW s \in Stacks, StackSettles(s) PROVE WorkerType'
    BY <1>39, Anything DEF StackSettles
<1>40. ASSUME UNCHANGED vars PROVE WorkerType'
    BY <1>40, Anything DEF vars
<1>41. ASSUME NEW t \in Templates, Poll(t) PROVE WorkerType'
    BY <1>41, <1>7, TemplatesAssumption DEF Poll
<1>42. ASSUME NEW s \in Stacks, AgentGoesOn(s) PROVE WorkerType'
    BY <1>42 DEF AgentGoesOn
<1> QED
  BY <1>1, <1>2, <1>3, <1>4, <1>5, <1>6, <1>7, <1>8, <1>9, <1>10, <1>11, <1>12, <1>13, <1>14,
     <1>15, <1>16, <1>17, <1>18, <1>19, <1>20, <1>21, <1>22, <1>23, <1>24, <1>25, <1>26, <1>27,
     <1>28, <1>29, <1>30, <1>31, <1>32, <1>33, <1>34, <1>35, <1>36, <1>37, <1>38, <1>39, <1>40,
     <1>41, <1>42
  DEF Next, Author, Call

-----------------------------------------------------------------------------
(* What is known of stacks. *)

\* An invocation starts with nothing at hand, or with what its template names.
LEMMA LoadHand ==
    ASSUME TypeInv, RefInv, NEW w \in Workers, NEW t \in Templates, NEW step \in Steps,
           NEW i \in {NoStack, testId[t]}, step \in Following => i # NoStack,
           at' = [at EXCEPT ![w] = t], curId' = [curId EXCEPT ![w] = i],
           pc' = [pc EXCEPT ![w] = step], cfn' = cfn, owner' = owner
    PROVE  HandInv'
BY DEF TypeInv, TableType, StackType, WorkerType, RefInv, NamedInv, HandInv

\* A deletion makes no stack complete and unmakes none.
LEMMA DeleteShrinks ==
    ASSUME TypeInv, RefInv, NEW s \in Stacks, Delete(s)
    PROVE  /\ rows' \subseteq rows
           /\ \A r \in Stacks : /\ cfn[r] # "none" => cfn'[r] # "none"
                                /\ cfn'[r] = "complete" => cfn[r] = "complete"
BY DEF TypeInv, StackType, RefInv, MadeInv, Delete

\* What is known of stacks stays true when stacks are deleted.
LEMMA RefShrinks ==
    ASSUME TypeInv, RefInv, owner' = owner, completed' = completed, testId' = testId,
           rows' \subseteq rows,
           \A r \in Stacks : /\ cfn[r] # "none" => cfn'[r] # "none"
                             /\ cfn'[r] = "complete" => cfn[r] = "complete",
           \A v \in Workers : curId'[v] # NoStack => curId'[v] = curId[v] /\ at'[v] = at[v],
           \A v \in Workers : pc'[v] \in Following => pc[v] \in Following /\ curId'[v] = curId[v]
    PROVE  RefInv'
<1> USE DEF TypeInv, TableType, StackType, WorkerType, NoStack
<1>1. MadeInv'
    BY DEF RefInv, MadeInv
<1>2. NamedInv'
    BY DEF RefInv, NamedInv
<1>3. HandInv'
    BY DEF RefInv, HandInv
<1> QED BY <1>1, <1>2, <1>3 DEF RefInv

\* A scan finds a test deployment that was made for the template.
LEMMA ScanKeepsRefs ==
    ASSUME TypeInv, RefInv, NEW w \in Workers, NEW hit \in Steps,
           NEW miss \in Steps \ Following, Scan(w, hit, miss)
    PROVE  RefInv'
<1> USE DEF TypeInv, TableType, StackType, WorkerType, Stacks, NoStack
<1>1. UNCHANGED <<testId, owner, cfn, rows, completed>>
    BY DEF Scan, templateVars, stackVars
<1>2. MadeInv' /\ NamedInv'
    BY <1>1 DEF RefInv, MadeInv, NamedInv
<1>3. CASE \E s \in Named(at[w], curName[w]) : Follow(w, s, hit)
    <2>1. PICK s \in rows : owner[s] = at[w] /\ Follow(w, s, hit)
        BY <1>3 DEF Named
    <2>2. HandInv'
        BY <1>1, <2>1 DEF RefInv, MadeInv, HandInv, Follow, Goto
    <2> QED BY <1>2, <2>2 DEF RefInv
<1>4. CASE Return(w)
    <2>1. /\ \A v \in Workers : curId'[v] # NoStack => curId'[v] = curId[v] /\ at'[v] = at[v]
          /\ \A v \in Workers : pc'[v] \in Following => pc[v] \in Following /\ curId'[v] = curId[v]
        BY <1>4 DEF Return, Goto, Following
    <2>2. HandInv'
        BY <1>1, <2>1 DEF RefInv, HandInv
    <2> QED BY <1>2, <2>2 DEF RefInv
<1>5. CASE Onward(w, miss)
    <2>1. HandInv'
        BY <1>1, <1>5 DEF RefInv, HandInv, Onward, Goto
    <2> QED BY <1>2, <2>1 DEF RefInv
<1> QED BY <1>3, <1>4, <1>5 DEF Scan

\* What is known of stacks stays true.
LEMMA RefStep == TypeInv /\ RefInv /\ [Next]_vars => RefInv'
<1> SUFFICES ASSUME TypeInv /\ RefInv, [Next]_vars PROVE RefInv'
    OBVIOUS
<1> USE DEF TypeInv, TableType, StackType, WorkerType, templateVars, stackVars, workerVars,
            RefInv, MadeInv, NamedInv, HandInv, Stacks, NoStack, Following, SyncStep, Named
<1>1. ASSUME NEW t \in Templates, CreateTemplate(t) PROVE RefInv'
    BY <1>1, Anything DEF CreateTemplate
<1>2. ASSUME NEW w \in Workers, NEW t \in Templates, UpdateTemplate(w, t) PROVE RefInv'
    <2>1. MadeInv' /\ NamedInv'
        BY <1>2 DEF UpdateTemplate, LoadFor, Load, LoadId, LoadTest, Goto
    <2>2. PICK step \in Steps, i \in {NoStack, testId[t]} :
              /\ at' = [at EXCEPT ![w] = t] /\ curId' = [curId EXCEPT ![w] = i]
              /\ pc' = [pc EXCEPT ![w] = step] /\ (step \in Following => i # NoStack)
        BY <1>2 DEF UpdateTemplate, LoadFor, Load, LoadId, LoadTest, Goto, Steps
    <2>3. HandInv'
        BY <1>2, <2>2, LoadHand DEF UpdateTemplate, LoadFor, Load, LoadId, LoadTest, Goto
    <2> QED BY <2>1, <2>3
<1>3. ASSUME NEW w \in Workers, NEW t \in Templates, StartTesting(w, t) PROVE RefInv'
    <2>1. MadeInv' /\ NamedInv'
        <3>1. UNCHANGED <<testId, owner, cfn, rows, completed>>
            BY <1>3 DEF StartTesting, LoadFor, LoadTest
        <3> QED
            BY <3>1
    <2>2. PICK step \in Steps, i \in {NoStack, testId[t]} :
              /\ at' = [at EXCEPT ![w] = t] /\ curId' = [curId EXCEPT ![w] = i]
              /\ pc' = [pc EXCEPT ![w] = step] /\ (step \in Following => i # NoStack)
        BY <1>3 DEF StartTesting, LoadFor, Load, LoadId, LoadTest, Goto, Steps
    <2>3. HandInv'
        BY <1>3, <2>2, LoadHand DEF StartTesting, LoadFor, Load, LoadId, LoadTest, Goto
    <2> QED BY <2>1, <2>3
<1>4. ASSUME NEW w \in Workers, NEW t \in Templates, CancelTesting(w, t) PROVE RefInv'
    BY <1>4, Anything DEF CancelTesting, LoadFor, Load, LoadId, LoadTest, Goto
<1>5. ASSUME NEW w \in Workers, NEW t \in Templates, RestartTesting(w, t) PROVE RefInv'
    BY <1>5, Anything DEF RestartTesting, LoadFor, Load, LoadId, LoadTest, Goto
<1>6. ASSUME NEW w \in Workers, NEW t \in Templates, MarkTestingValidated(w, t) PROVE RefInv'
    BY <1>6, Anything DEF MarkTestingValidated, LoadFor, Load, LoadId, LoadTest, Goto
<1>7. ASSUME NEW w \in Workers, NEW t \in Templates, RefreshTestingStatus(w, t) PROVE RefInv'
    <2>1. MadeInv' /\ NamedInv'
        BY <1>7 DEF RefreshTestingStatus, LoadFor, Load, LoadId, LoadTest, Goto
    <2>2. PICK step \in Steps, i \in {NoStack, testId[t]} :
              /\ at' = [at EXCEPT ![w] = t] /\ curId' = [curId EXCEPT ![w] = i]
              /\ pc' = [pc EXCEPT ![w] = step] /\ (step \in Following => i # NoStack)
        BY <1>7 DEF RefreshTestingStatus, LoadFor, Load, LoadId, LoadTest, Goto, Steps
    <2>3. HandInv'
        BY <1>7, <2>2, LoadHand DEF RefreshTestingStatus, LoadFor, Load, LoadId, LoadTest, Goto
    <2> QED BY <2>1, <2>3
<1>8. ASSUME NEW w \in Workers, NEW t \in Templates, PublishTemplate(w, t) PROVE RefInv'
    BY <1>8, Anything DEF PublishTemplate, LoadFor, Load, LoadId, LoadTest, Goto
<1>9. ASSUME NEW w \in Workers, NEW t \in Templates, UnpublishTemplate(w, t) PROVE RefInv'
    BY <1>9, Anything DEF UnpublishTemplate, LoadFor, Load, LoadId, LoadTest, Goto
<1>10. ASSUME NEW w \in Workers, Save(w) PROVE RefInv'
    BY <1>10, Anything DEF Save, Return, Goto, Writes
<1>11. ASSUME NEW w \in Workers, Find(w) PROVE RefInv'
    <2>1. Scan(w, "noteFound", "wait") /\ "noteFound" \in Steps /\ "wait" \in Steps \ Following
        BY <1>11 DEF Find, Steps
    <2> HIDE DEF TypeInv, RefInv
    <2> QED BY <2>1, ScanKeepsRefs
<1>12. ASSUME NEW w \in Workers, NoteFound(w) PROVE RefInv'
    BY <1>12, Anything DEF NoteFound, Onward, Goto, Writes
<1>13. ASSUME NEW w \in Workers, Wait(w) PROVE RefInv'
    BY <1>13, Anything DEF Wait, PersistDeploy, Return, Goto, Writes
<1>14. ASSUME NEW w \in Workers, Describe(w) PROVE RefInv'
    BY <1>14, Anything DEF Describe, Answers, Goto
<1>15. ASSUME NEW w \in Workers, Probe(w) PROVE RefInv'
    BY <1>15, Anything DEF Probe, Answers, Goto, Verdict
<1>16. ASSUME NEW w \in Workers, Record(w) PROVE RefInv'
    BY <1>16, Anything DEF Record, PersistDeploy, Return, Goto, Writes
<1>17. ASSUME NEW w \in Workers, Drop(w) PROVE RefInv'
    BY <1>17, Anything DEF Drop, PersistDraft, Return, Goto, Writes
<1>18. ASSUME NEW w \in Workers, Lookup(w) PROVE RefInv'
    <2>1. Scan(w, "adopt", "mark") /\ "adopt" \in Steps /\ "mark" \in Steps \ Following
        BY <1>18 DEF Lookup, Steps
    <2> HIDE DEF TypeInv, RefInv
    <2> QED BY <2>1, ScanKeepsRefs
<1>19. ASSUME NEW w \in Workers, Adopt(w) PROVE RefInv'
    BY <1>19, Anything DEF Adopt, PersistTesting, Onward, Goto, Writes
<1>20. ASSUME NEW w \in Workers, Mark(w) PROVE RefInv'
    BY <1>20, Anything DEF Mark, PersistTesting, Onward, Goto, Writes
<1>21. ASSUME NEW w \in Workers, DeployTestStack(w) PROVE RefInv'
    <2>1. CASE UNCHANGED stackVars /\ Onward(w, "recover")
        BY <1>21, <2>1 DEF DeployTestStack, Onward, Goto
    <2>2. CASE ~(UNCHANGED stackVars /\ Onward(w, "recover"))
        <3>1. PICK s \in Stacks, a \in {"creating", "asked"} :
                  /\ cfn[s] = "none" /\ cfn' = [cfn EXCEPT ![s] = a]
                  /\ owner' = [owner EXCEPT ![s] = at[w]]
                  /\ rows' \in {rows, rows \cup {s}} /\ completed' = completed
            BY <1>21, <2>2 DEF DeployTestStack
        <3>2. testId' = testId
            BY <1>21 DEF DeployTestStack
        <3>3. /\ \A v \in Workers : curId'[v] # NoStack => curId'[v] = curId[v] /\ at'[v] = at[v]
              /\ \A v \in Workers : pc'[v] \in Following => v # w /\ pc'[v] = pc[v] /\ curId'[v] = curId[v]
            BY <1>21, <2>2 DEF DeployTestStack, Return, Onward, Goto
        <3>4. MadeInv'
            BY <3>1
        <3>5. NamedInv'
            BY <3>1, <3>2
        <3>6. \A v \in Workers : curId[v] # s /\ (curId[v] # NoStack => curId[v] \in Stacks)
            BY <3>1
        <3>7. HandInv'
            BY <3>1, <3>3, <3>6
        <3> QED BY <3>4, <3>5, <3>7
    <2> QED BY <2>1, <2>2
<1>22. ASSUME NEW w \in Workers, Resolve(w) PROVE RefInv'
    <2>1. Scan(w, "note", "recover") /\ "note" \in Steps /\ "recover" \in Steps \ Following
        BY <1>22 DEF Resolve, Steps
    <2> HIDE DEF TypeInv, RefInv
    <2> QED BY <2>1, ScanKeepsRefs
<1>23. ASSUME NEW w \in Workers, Note(w) PROVE RefInv'
    BY <1>23, Anything DEF Note, Return, Goto, Writes
<1>24. ASSUME NEW w \in Workers, Recover(w) PROVE RefInv'
    <2>1. Scan(w, "retain", "giveUp") /\ "retain" \in Steps /\ "giveUp" \in Steps \ Following
        BY <1>24 DEF Recover, Steps
    <2> HIDE DEF TypeInv, RefInv
    <2> QED BY <2>1, ScanKeepsRefs
<1>25. ASSUME NEW w \in Workers, Retain(w) PROVE RefInv'
    BY <1>25, Anything DEF Retain, PersistTesting, Return, Goto, Writes
<1>26. ASSUME NEW w \in Workers, GiveUp(w) PROVE RefInv'
    BY <1>26, Anything DEF GiveUp, PersistDraft, Return, Goto, Writes
<1>27. ASSUME NEW w \in Workers, Reset(w) PROVE RefInv'
    BY <1>27, Anything DEF Reset, PersistDraft, Onward, Goto, Writes
<1>28. ASSUME NEW w \in Workers, TearDown(w) PROVE RefInv'
    <2>1. pc' \in {[pc EXCEPT ![w] = "idle"], [pc EXCEPT ![w] = "reload"]}
        BY <1>28 DEF TearDown, Return, Onward, Goto
    <2>2. \A v \in Workers : curId'[v] # NoStack => curId'[v] = curId[v] /\ at'[v] = at[v]
        BY <1>28 DEF TearDown, Return, Onward, Goto
    <2>3. \A v \in Workers : pc'[v] \in Following => pc[v] \in Following /\ curId'[v] = curId[v]
        BY <1>28, <2>1 DEF TearDown, Return, Onward, Goto
    <2>4. owner' = owner /\ completed' = completed /\ testId' = testId
        BY <1>28 DEF TearDown
    <2>5. CASE curId[w] # NoStack /\ Delete(curId[w])
        BY <2>2, <2>3, <2>4, <2>5, DeleteShrinks, RefShrinks
    <2>6. CASE UNCHANGED <<cfn, rows>>
        BY <2>2, <2>3, <2>4, <2>6, RefShrinks
    <2> QED BY <1>28, <2>5, <2>6 DEF TearDown
<1>29. ASSUME NEW w \in Workers, Reload(w) PROVE RefInv'
    <2>1. MadeInv' /\ NamedInv'
        BY <1>29 DEF Reload
    <2>2. UNCHANGED <<owner, cfn, testId>>
        BY <1>29 DEF Reload
    <2>3. ASSUME Goto(w, "lookup"), curId' = [curId EXCEPT ![w] = NoStack], UNCHANGED at
          PROVE  HandInv'
        BY <2>2, <2>3 DEF Goto
    <2>4. ASSUME Goto(w, SyncStep(testId[at[w]])), curId' = [curId EXCEPT ![w] = testId[at[w]]],
                 UNCHANGED at
          PROVE  HandInv'
        BY <2>2, <2>4 DEF Goto
    <2>5. ASSUME Return(w) PROVE HandInv'
        BY <2>2, <2>5, Anything DEF Return, Goto
    <2> QED BY <1>29, <2>1, <2>3, <2>4, <2>5 DEF Reload
<1>30. ASSUME NEW w \in Workers, Validate(w) PROVE RefInv'
    BY <1>30, Anything DEF Validate, Return, Goto, Writes
<1>31. ASSUME NEW w \in Workers, Orphan(w) PROVE RefInv'
    <2>1. Scan(w, "adopt", "idle") /\ "adopt" \in Steps /\ "idle" \in Steps \ Following
        BY <1>31 DEF Orphan, Steps
    <2> HIDE DEF TypeInv, RefInv
    <2> QED BY <2>1, ScanKeepsRefs
<1>32. ASSUME NEW w \in Workers, AssertSlug(w) PROVE RefInv'
    BY <1>32, Anything DEF AssertSlug, Onward, Return, Goto
<1>33. ASSUME NEW w \in Workers, Publish(w) PROVE RefInv'
    BY <1>33, Anything DEF Publish, Onward, Goto, Writes
<1>34. ASSUME NEW w \in Workers, Emit(w) PROVE RefInv'
    BY <1>34, Anything DEF Emit, Fail, Onward, Goto
<1>35. ASSUME NEW w \in Workers, Unlist(w) PROVE RefInv'
    <2>1. MadeInv' /\ NamedInv'
        BY <1>35 DEF Unlist
    <2>2. UNCHANGED <<owner, cfn>>
        BY <1>35 DEF Unlist
    <2>3. HandInv'
        <3>1. CASE Onward(w, "archive")
            BY <2>2, <3>1 DEF Onward, Goto
        <3>2. CASE Return(w)
            BY <2>2, <3>2, Anything DEF Return, Goto
        <3> QED BY <1>35, <3>1, <3>2 DEF Unlist
    <2> QED BY <2>1, <2>3
<1>36. ASSUME NEW w \in Workers, Archive(w) PROVE RefInv'
    BY <1>36, Anything DEF Archive, Return, Goto, Writes
<1>37. ASSUME NEW w \in Workers, TearDownPublished(w) PROVE RefInv'
    <2>1. pc' = [pc EXCEPT ![w] = "idle"]
        BY <1>37 DEF TearDownPublished, Return, Goto
    <2>2. \A v \in Workers : curId'[v] # NoStack => curId'[v] = curId[v] /\ at'[v] = at[v]
        BY <1>37 DEF TearDownPublished, Return, Goto
    <2>3. \A v \in Workers : pc'[v] \in Following => pc[v] \in Following /\ curId'[v] = curId[v]
        BY <1>37, <2>1 DEF TearDownPublished, Return, Goto
    <2>4. owner' = owner /\ completed' = completed /\ testId' = testId
        BY <1>37 DEF TearDownPublished
    <2>5. CASE curId[w] # NoStack /\ Delete(curId[w])
        BY <2>2, <2>3, <2>4, <2>5, DeleteShrinks, RefShrinks
    <2>6. CASE UNCHANGED <<cfn, rows>>
        BY <2>2, <2>3, <2>4, <2>6, RefShrinks
    <2> QED BY <1>37, <2>5, <2>6 DEF TearDownPublished
<1>38. ASSUME NEW w \in Workers, Dies(w) PROVE RefInv'
    BY <1>38, Anything DEF Dies, Fail, Return, Goto
<1>39. ASSUME NEW s \in Stacks, StackSettles(s) PROVE RefInv'
    <2>1. cfn[s] # "none" /\ \E a \in StackStatuses \ {"none"} :
              /\ cfn' = [cfn EXCEPT ![s] = a]
              /\ completed' = IF a = "complete" THEN completed \cup {s} ELSE completed
        <3>1. CASE cfn[s] = "creating" /\ cfn' = [cfn EXCEPT ![s] = "complete"] /\ completed' = completed \cup {s}
            BY <3>1 DEF StackStatuses
        <3>2. CASE cfn[s] = "creating" /\ cfn' = [cfn EXCEPT ![s] = "failed"] /\ completed' = completed
            <4>1. "failed" \in StackStatuses \ {"none"} /\ "failed" # "complete" /\ cfn[s] # "none"
                BY <3>2 DEF StackStatuses
            <4> QED BY <3>2, <4>1
        <3>3. CASE cfn[s] = "deleting" /\ (\E a \in {"gone", "failed"} : cfn' = [cfn EXCEPT ![s] = a]) /\ completed' = completed
            <4>1. PICK a \in {"gone", "failed"} : cfn' = [cfn EXCEPT ![s] = a]
                BY <3>3
            <4>2. a \in StackStatuses \ {"none"} /\ a # "complete" /\ cfn[s] # "none"
                BY <3>3 DEF StackStatuses
            <4> QED BY <3>3, <4>1, <4>2
        <3> QED BY <1>39, <3>1, <3>2, <3>3 DEF StackSettles
    <2>2. UNCHANGED <<testId, pc, at, curId, owner, rows>>
        BY <1>39 DEF StackSettles
    <2>3. MadeInv'
        BY <2>1, <2>2
    <2>4. NamedInv'
        BY <2>1, <2>2
    <2>5. HandInv'
        BY <2>1, <2>2
    <2> QED BY <2>3, <2>4, <2>5
<1>40. ASSUME UNCHANGED vars PROVE RefInv'
    BY <1>40, Anything DEF vars
<1>41. ASSUME NEW t \in Templates, Poll(t) PROVE RefInv'
    BY <1>41, <1>7, TemplatesAssumption DEF Poll
<1>42. ASSUME NEW s \in Stacks, AgentGoesOn(s) PROVE RefInv'
    <2>1. PICK a \in {"creating", "gone"} :
              cfn[s] = "asked" /\ cfn' = [cfn EXCEPT ![s] = a] /\ rows' \in {rows, rows \cup {s}}
        BY <1>42 DEF AgentGoesOn
    <2>2. UNCHANGED <<testId, pc, at, curId, owner, completed>>
        BY <1>42 DEF AgentGoesOn
    <2>3. MadeInv'
        BY <2>1, <2>2
    <2>4. NamedInv'
        BY <2>1, <2>2
    <2>5. HandInv'
        BY <2>1, <2>2
    <2> QED BY <2>3, <2>4, <2>5
<1> QED
  BY <1>1, <1>2, <1>3, <1>4, <1>5, <1>6, <1>7, <1>8, <1>9, <1>10, <1>11, <1>12, <1>13, <1>14,
     <1>15, <1>16, <1>17, <1>18, <1>19, <1>20, <1>21, <1>22, <1>23, <1>24, <1>25, <1>26, <1>27,
     <1>28, <1>29, <1>30, <1>31, <1>32, <1>33, <1>34, <1>35, <1>36, <1>37, <1>38, <1>39, <1>40,
     <1>41, <1>42
  DEF Next, Author, Call

\* A stack that was up was up for good.
LEMMA ProvenStays == TypeInv /\ RefInv /\ [Next]_vars => Proven \subseteq Proven'
<1> SUFFICES ASSUME TypeInv /\ RefInv, [Next]_vars PROVE Proven \subseteq Proven'
    OBVIOUS
<1> USE DEF TypeInv, TableType, StackType, WorkerType, templateVars, stackVars, workerVars,
            RefInv, MadeInv, NamedInv, HandInv, Proven
<1>1. ASSUME NEW t \in Templates, CreateTemplate(t) PROVE Proven \subseteq Proven'
    BY <1>1 DEF CreateTemplate
<1>2. ASSUME NEW w \in Workers, NEW t \in Templates, UpdateTemplate(w, t) PROVE Proven \subseteq Proven'
    BY <1>2 DEF UpdateTemplate, LoadFor, Load, LoadId, LoadTest, Goto
<1>3. ASSUME NEW w \in Workers, NEW t \in Templates, StartTesting(w, t) PROVE Proven \subseteq Proven'
    BY <1>3 DEF StartTesting, LoadFor, Load, LoadId, LoadTest, Goto
<1>4. ASSUME NEW w \in Workers, NEW t \in Templates, CancelTesting(w, t) PROVE Proven \subseteq Proven'
    BY <1>4 DEF CancelTesting, LoadFor, Load, LoadId, LoadTest, Goto
<1>5. ASSUME NEW w \in Workers, NEW t \in Templates, RestartTesting(w, t) PROVE Proven \subseteq Proven'
    BY <1>5 DEF RestartTesting, LoadFor, Load, LoadId, LoadTest, Goto
<1>6. ASSUME NEW w \in Workers, NEW t \in Templates, MarkTestingValidated(w, t) PROVE Proven \subseteq Proven'
    BY <1>6 DEF MarkTestingValidated, LoadFor, Load, LoadId, LoadTest, Goto
<1>7. ASSUME NEW w \in Workers, NEW t \in Templates, RefreshTestingStatus(w, t) PROVE Proven \subseteq Proven'
    BY <1>7 DEF RefreshTestingStatus, LoadFor, Load, LoadId, LoadTest, Goto
<1>8. ASSUME NEW w \in Workers, NEW t \in Templates, PublishTemplate(w, t) PROVE Proven \subseteq Proven'
    BY <1>8 DEF PublishTemplate, LoadFor, Load, LoadId, LoadTest, Goto
<1>9. ASSUME NEW w \in Workers, NEW t \in Templates, UnpublishTemplate(w, t) PROVE Proven \subseteq Proven'
    BY <1>9 DEF UnpublishTemplate, LoadFor, Load, LoadId, LoadTest, Goto
<1>10. ASSUME NEW w \in Workers, Save(w) PROVE Proven \subseteq Proven'
    BY <1>10 DEF Save, Return, Goto, Writes
<1>11. ASSUME NEW w \in Workers, Find(w) PROVE Proven \subseteq Proven'
    BY <1>11 DEF Find, Scan, Follow, Onward, Return, Goto
<1>12. ASSUME NEW w \in Workers, NoteFound(w) PROVE Proven \subseteq Proven'
    BY <1>12 DEF NoteFound, Onward, Goto, Writes
<1>13. ASSUME NEW w \in Workers, Wait(w) PROVE Proven \subseteq Proven'
    BY <1>13 DEF Wait, PersistDeploy, Return, Goto, Writes
<1>14. ASSUME NEW w \in Workers, Describe(w) PROVE Proven \subseteq Proven'
    BY <1>14 DEF Describe, Answers, Goto
<1>15. ASSUME NEW w \in Workers, Probe(w) PROVE Proven \subseteq Proven'
    BY <1>15 DEF Probe, Answers, Goto, Verdict
<1>16. ASSUME NEW w \in Workers, Record(w) PROVE Proven \subseteq Proven'
    BY <1>16 DEF Record, PersistDeploy, Return, Goto, Writes
<1>17. ASSUME NEW w \in Workers, Drop(w) PROVE Proven \subseteq Proven'
    BY <1>17 DEF Drop, PersistDraft, Return, Goto, Writes
<1>18. ASSUME NEW w \in Workers, Lookup(w) PROVE Proven \subseteq Proven'
    BY <1>18 DEF Lookup, Scan, Follow, Onward, Return, Goto
<1>19. ASSUME NEW w \in Workers, Adopt(w) PROVE Proven \subseteq Proven'
    BY <1>19 DEF Adopt, PersistTesting, Onward, Goto, Writes
<1>20. ASSUME NEW w \in Workers, Mark(w) PROVE Proven \subseteq Proven'
    BY <1>20 DEF Mark, PersistTesting, Onward, Goto, Writes
<1>21. ASSUME NEW w \in Workers, DeployTestStack(w) PROVE Proven \subseteq Proven'
    BY <1>21 DEF DeployTestStack, Onward, Return, Goto, Fail
<1>22. ASSUME NEW w \in Workers, Resolve(w) PROVE Proven \subseteq Proven'
    BY <1>22 DEF Resolve, Scan, Follow, Onward, Return, Goto
<1>23. ASSUME NEW w \in Workers, Note(w) PROVE Proven \subseteq Proven'
    BY <1>23 DEF Note, Return, Goto, Writes
<1>24. ASSUME NEW w \in Workers, Recover(w) PROVE Proven \subseteq Proven'
    BY <1>24 DEF Recover, Scan, Follow, Onward, Return, Goto
<1>25. ASSUME NEW w \in Workers, Retain(w) PROVE Proven \subseteq Proven'
    BY <1>25 DEF Retain, PersistTesting, Return, Goto, Writes
<1>26. ASSUME NEW w \in Workers, GiveUp(w) PROVE Proven \subseteq Proven'
    BY <1>26 DEF GiveUp, PersistDraft, Return, Goto, Writes
<1>27. ASSUME NEW w \in Workers, Reset(w) PROVE Proven \subseteq Proven'
    BY <1>27 DEF Reset, PersistDraft, Onward, Goto, Writes
<1>28. ASSUME NEW w \in Workers, TearDown(w) PROVE Proven \subseteq Proven'
    BY <1>28 DEF TearDown, Delete, Fail, Return, Onward, Goto
<1>29. ASSUME NEW w \in Workers, Reload(w) PROVE Proven \subseteq Proven'
    BY <1>29 DEF Reload, Return, Goto
<1>30. ASSUME NEW w \in Workers, Validate(w) PROVE Proven \subseteq Proven'
    BY <1>30 DEF Validate, Return, Goto, Writes
<1>31. ASSUME NEW w \in Workers, Orphan(w) PROVE Proven \subseteq Proven'
    BY <1>31 DEF Orphan, Scan, Follow, Onward, Return, Goto
<1>32. ASSUME NEW w \in Workers, AssertSlug(w) PROVE Proven \subseteq Proven'
    BY <1>32 DEF AssertSlug, Onward, Return, Goto
<1>33. ASSUME NEW w \in Workers, Publish(w) PROVE Proven \subseteq Proven'
    BY <1>33 DEF Publish, Onward, Goto, Writes
<1>34. ASSUME NEW w \in Workers, Emit(w) PROVE Proven \subseteq Proven'
    BY <1>34 DEF Emit, Fail, Onward, Goto
<1>35. ASSUME NEW w \in Workers, Unlist(w) PROVE Proven \subseteq Proven'
    BY <1>35 DEF Unlist, Fail, Onward, Return, Goto
<1>36. ASSUME NEW w \in Workers, Archive(w) PROVE Proven \subseteq Proven'
    BY <1>36 DEF Archive, Return, Goto, Writes
<1>37. ASSUME NEW w \in Workers, TearDownPublished(w) PROVE Proven \subseteq Proven'
    BY <1>37 DEF TearDownPublished, Delete, Fail, Return, Goto
<1>38. ASSUME NEW w \in Workers, Dies(w) PROVE Proven \subseteq Proven'
    BY <1>38 DEF Dies, Fail, Return, Goto
<1>39. ASSUME NEW s \in Stacks, StackSettles(s) PROVE Proven \subseteq Proven'
    BY <1>39 DEF StackSettles
<1>40. ASSUME UNCHANGED vars PROVE Proven \subseteq Proven'
    BY <1>40 DEF vars
<1>41. ASSUME NEW t \in Templates, Poll(t) PROVE Proven \subseteq Proven'
    BY <1>41, <1>7, TemplatesAssumption DEF Poll
<1>42. ASSUME NEW s \in Stacks, AgentGoesOn(s) PROVE Proven \subseteq Proven'
    BY <1>42 DEF AgentGoesOn
<1> QED
  BY <1>1, <1>2, <1>3, <1>4, <1>5, <1>6, <1>7, <1>8, <1>9, <1>10, <1>11, <1>12, <1>13, <1>14,
     <1>15, <1>16, <1>17, <1>18, <1>19, <1>20, <1>21, <1>22, <1>23, <1>24, <1>25, <1>26, <1>27,
     <1>28, <1>29, <1>30, <1>31, <1>32, <1>33, <1>34, <1>35, <1>36, <1>37, <1>38, <1>39, <1>40,
     <1>41, <1>42
  DEF Next, Author, Call

-----------------------------------------------------------------------------
(* What was up. *)

\* What is active was up.
LEMMA UpStep == TypeInv /\ RefInv /\ UpInv /\ [Next]_vars => UpInv'
<1> SUFFICES ASSUME TypeInv /\ RefInv /\ UpInv, [Next]_vars PROVE UpInv'
    OBVIOUS
<1>0. Proven \subseteq Proven'
    BY ProvenStays
<1>00. \A s \in Stacks : cfn[s] = "complete" => owner[s] \in Proven
    BY DEF TypeInv, StackType, RefInv, MadeInv, NamedInv, HandInv, Proven
<1> USE DEF TypeInv, TableType, StackType, WorkerType, templateVars, stackVars, workerVars,
            RefInv, MadeInv, NamedInv, HandInv, UpInv, Statuses, SyncStep, Following, NoStack
<1>1. ASSUME NEW t \in Templates, CreateTemplate(t) PROVE UpInv'
    BY <1>1, <1>0, Anything DEF CreateTemplate
<1>2. ASSUME NEW w \in Workers, NEW t \in Templates, UpdateTemplate(w, t) PROVE UpInv'
    BY <1>2, <1>0, Anything DEF UpdateTemplate, LoadFor, Load, LoadId, LoadTest, Goto
<1>3. ASSUME NEW w \in Workers, NEW t \in Templates, StartTesting(w, t) PROVE UpInv'
    BY <1>3, <1>0, Anything DEF StartTesting, LoadFor, Load, LoadId, LoadTest, Goto
<1>4. ASSUME NEW w \in Workers, NEW t \in Templates, CancelTesting(w, t) PROVE UpInv'
    BY <1>4, <1>0, Anything DEF CancelTesting, LoadFor, Load, LoadId, LoadTest, Goto
<1>5. ASSUME NEW w \in Workers, NEW t \in Templates, RestartTesting(w, t) PROVE UpInv'
    BY <1>5, <1>0, Anything DEF RestartTesting, LoadFor, Load, LoadId, LoadTest, Goto
<1>6. ASSUME NEW w \in Workers, NEW t \in Templates, MarkTestingValidated(w, t) PROVE UpInv'
    BY <1>6, <1>0, Anything DEF MarkTestingValidated, LoadFor, Load, LoadId, LoadTest, Goto
<1>7. ASSUME NEW w \in Workers, NEW t \in Templates, RefreshTestingStatus(w, t) PROVE UpInv'
    BY <1>7, <1>0, Anything DEF RefreshTestingStatus, LoadFor, Load, LoadId, LoadTest, Goto
<1>8. ASSUME NEW w \in Workers, NEW t \in Templates, PublishTemplate(w, t) PROVE UpInv'
    BY <1>8, <1>0, TemplatesAssumption DEF PublishTemplate, Publishable, LoadFor, Load, LoadId, LoadTest, Goto
<1>9. ASSUME NEW w \in Workers, NEW t \in Templates, UnpublishTemplate(w, t) PROVE UpInv'
    BY <1>9, <1>0, Anything DEF UnpublishTemplate, LoadFor, Load, LoadId, LoadTest, Goto
<1>10. ASSUME NEW w \in Workers, Save(w) PROVE UpInv'
    BY <1>10, <1>0, Anything DEF Save, Return, Goto, Writes
<1>11. ASSUME NEW w \in Workers, Find(w) PROVE UpInv'
    BY <1>11, <1>0, Anything DEF Find, Scan, Follow, Onward, Return, Goto
<1>12. ASSUME NEW w \in Workers, NoteFound(w) PROVE UpInv'
    BY <1>12, <1>0, Anything DEF NoteFound, Onward, Goto, Writes
<1>13. ASSUME NEW w \in Workers, Wait(w) PROVE UpInv'
    BY <1>13, <1>0, Anything DEF Wait, PersistDeploy, Return, Goto, Writes
<1>14. ASSUME NEW w \in Workers, Describe(w) PROVE UpInv'
    BY <1>14, <1>0, <1>00 DEF Describe, Answers, Goto
<1>15. ASSUME NEW w \in Workers, Probe(w) PROVE UpInv'
    BY <1>15, <1>0, <1>00 DEF Probe, Answers, Goto, Verdict
<1>16. ASSUME NEW w \in Workers, Record(w) PROVE UpInv'
    BY <1>16, <1>0, Anything DEF Record, PersistDeploy, Return, Goto, Writes
<1>17. ASSUME NEW w \in Workers, Drop(w) PROVE UpInv'
    BY <1>17, <1>0, Anything DEF Drop, PersistDraft, Return, Goto, Writes
<1>18. ASSUME NEW w \in Workers, Lookup(w) PROVE UpInv'
    BY <1>18, <1>0, Anything DEF Lookup, Scan, Follow, Onward, Return, Goto
<1>19. ASSUME NEW w \in Workers, Adopt(w) PROVE UpInv'
    BY <1>19, <1>0, Anything DEF Adopt, PersistTesting, Onward, Goto, Writes
<1>20. ASSUME NEW w \in Workers, Mark(w) PROVE UpInv'
    BY <1>20, <1>0, Anything DEF Mark, PersistTesting, Onward, Goto, Writes
<1>21. ASSUME NEW w \in Workers, DeployTestStack(w) PROVE UpInv'
    BY <1>21, <1>0, Anything DEF DeployTestStack, Onward, Return, Goto, Fail
<1>22. ASSUME NEW w \in Workers, Resolve(w) PROVE UpInv'
    BY <1>22, <1>0, Anything DEF Resolve, Scan, Follow, Onward, Return, Goto
<1>23. ASSUME NEW w \in Workers, Note(w) PROVE UpInv'
    BY <1>23, <1>0, Anything DEF Note, Return, Goto, Writes
<1>24. ASSUME NEW w \in Workers, Recover(w) PROVE UpInv'
    BY <1>24, <1>0, Anything DEF Recover, Scan, Follow, Onward, Return, Goto
<1>25. ASSUME NEW w \in Workers, Retain(w) PROVE UpInv'
    BY <1>25, <1>0, Anything DEF Retain, PersistTesting, Return, Goto, Writes
<1>26. ASSUME NEW w \in Workers, GiveUp(w) PROVE UpInv'
    BY <1>26, <1>0, Anything DEF GiveUp, PersistDraft, Return, Goto, Writes
<1>27. ASSUME NEW w \in Workers, Reset(w) PROVE UpInv'
    BY <1>27, <1>0, Anything DEF Reset, PersistDraft, Onward, Goto, Writes
<1>28. ASSUME NEW w \in Workers, TearDown(w) PROVE UpInv'
    BY <1>28, <1>0, Anything DEF TearDown, Delete, Fail, Return, Onward, Goto
<1>29. ASSUME NEW w \in Workers, Reload(w) PROVE UpInv'
    BY <1>29, <1>0, Anything DEF Reload, Return, Goto
<1>30. ASSUME NEW w \in Workers, Validate(w) PROVE UpInv'
    BY <1>30, <1>0, Anything DEF Validate, Return, Goto, Writes
<1>31. ASSUME NEW w \in Workers, Orphan(w) PROVE UpInv'
    BY <1>31, <1>0, Anything DEF Orphan, Scan, Follow, Onward, Return, Goto
<1>32. ASSUME NEW w \in Workers, AssertSlug(w) PROVE UpInv'
    BY <1>32, <1>0, Anything DEF AssertSlug, Onward, Return, Goto
<1>33. ASSUME NEW w \in Workers, Publish(w) PROVE UpInv'
    BY <1>33, <1>0, Anything DEF Publish, Onward, Goto, Writes
<1>34. ASSUME NEW w \in Workers, Emit(w) PROVE UpInv'
    BY <1>34, <1>0, Anything DEF Emit, Fail, Onward, Goto
<1>35. ASSUME NEW w \in Workers, Unlist(w) PROVE UpInv'
    BY <1>35, <1>0, Anything DEF Unlist, Fail, Onward, Return, Goto
<1>36. ASSUME NEW w \in Workers, Archive(w) PROVE UpInv'
    BY <1>36, <1>0, Anything DEF Archive, Return, Goto, Writes
<1>37. ASSUME NEW w \in Workers, TearDownPublished(w) PROVE UpInv'
    BY <1>37, <1>0, Anything DEF TearDownPublished, Delete, Fail, Return, Goto
<1>38. ASSUME NEW w \in Workers, Dies(w) PROVE UpInv'
    BY <1>38, <1>0, Anything DEF Dies, Fail, Return, Goto
<1>39. ASSUME NEW s \in Stacks, StackSettles(s) PROVE UpInv'
    BY <1>39, <1>0, Anything DEF StackSettles
<1>40. ASSUME UNCHANGED vars PROVE UpInv'
    BY <1>40, <1>0, Anything DEF vars
<1>41. ASSUME NEW t \in Templates, Poll(t) PROVE UpInv'
    BY <1>41, <1>7, TemplatesAssumption DEF Poll
<1>42. ASSUME NEW s \in Stacks, AgentGoesOn(s) PROVE UpInv'
    BY <1>42, <1>0 DEF AgentGoesOn
<1> QED
  BY <1>1, <1>2, <1>3, <1>4, <1>5, <1>6, <1>7, <1>8, <1>9, <1>10, <1>11, <1>12, <1>13, <1>14,
     <1>15, <1>16, <1>17, <1>18, <1>19, <1>20, <1>21, <1>22, <1>23, <1>24, <1>25, <1>26, <1>27,
     <1>28, <1>29, <1>30, <1>31, <1>32, <1>33, <1>34, <1>35, <1>36, <1>37, <1>38, <1>39, <1>40,
     <1>41, <1>42
  DEF Next, Author, Call

-----------------------------------------------------------------------------
(* One test deployment at a time. *)

\* Only one makes a test deployment.
LEMMA MakingStep == TypeInv /\ RefInv /\ MakingInv /\ [Next]_vars => MakingInv'
<1> SUFFICES ASSUME TypeInv /\ RefInv /\ MakingInv, [Next]_vars PROVE MakingInv'
    OBVIOUS
<1> USE DEF TypeInv, TableType, StackType, WorkerType, templateVars, stackVars, workerVars,
            RefInv, MadeInv, NamedInv, HandInv, MakingInv, Making, Present, SyncStep
<1>1. ASSUME NEW t \in Templates, CreateTemplate(t) PROVE MakingInv'
    BY <1>1 DEF CreateTemplate
<1>2. ASSUME NEW w \in Workers, NEW t \in Templates, UpdateTemplate(w, t) PROVE MakingInv'
    <2>1. \E step \in {"save", "saveStale"} : pc' = [pc EXCEPT ![w] = step]
        BY <1>2 DEF UpdateTemplate, Load, LoadFor, Goto
    <2>2. /\ at' = [at EXCEPT ![w] = t] /\ curName' = [curName EXCEPT ![w] = NoName]
          /\ UNCHANGED <<rows, cfn, owner, name, doubled>>
        BY <1>2 DEF UpdateTemplate, Load, LoadFor
    <2>3. Making' \subseteq Making
        BY <2>1
    <2>4. \A v \in Making' : at'[v] = at[v] /\ curName'[v] = curName[v]
        BY <2>1, <2>2
    <2> QED BY <2>2, <2>3, <2>4
<1>3. ASSUME NEW w \in Workers, NEW t \in Templates, StartTesting(w, t) PROVE MakingInv'
    BY <1>3 DEF StartTesting, LoadFor, Load, LoadId, LoadTest, Goto
<1>4. ASSUME NEW w \in Workers, NEW t \in Templates, CancelTesting(w, t) PROVE MakingInv'
    BY <1>4 DEF CancelTesting, LoadFor, Load, LoadId, LoadTest, Goto
<1>5. ASSUME NEW w \in Workers, NEW t \in Templates, RestartTesting(w, t) PROVE MakingInv'
    BY <1>5 DEF RestartTesting, LoadFor, Load, LoadId, LoadTest, Goto
<1>6. ASSUME NEW w \in Workers, NEW t \in Templates, MarkTestingValidated(w, t) PROVE MakingInv'
    BY <1>6 DEF MarkTestingValidated, LoadFor, Load, LoadId, LoadTest, Goto
<1>7. ASSUME NEW w \in Workers, NEW t \in Templates, RefreshTestingStatus(w, t) PROVE MakingInv'
    BY <1>7 DEF RefreshTestingStatus, LoadFor, Load, LoadId, LoadTest, Goto
<1>8. ASSUME NEW w \in Workers, NEW t \in Templates, PublishTemplate(w, t) PROVE MakingInv'
    BY <1>8 DEF PublishTemplate, LoadFor, Load, LoadId, LoadTest, Goto
<1>9. ASSUME NEW w \in Workers, NEW t \in Templates, UnpublishTemplate(w, t) PROVE MakingInv'
    BY <1>9 DEF UnpublishTemplate, LoadFor, Load, LoadId, LoadTest, Goto
<1>10. ASSUME NEW w \in Workers, Save(w) PROVE MakingInv'
    BY <1>10 DEF Save, Return, Goto, Writes
<1>11. ASSUME NEW w \in Workers, Find(w) PROVE MakingInv'
    BY <1>11 DEF Find, Scan, Follow, Onward, Return, Goto
<1>12. ASSUME NEW w \in Workers, NoteFound(w) PROVE MakingInv'
    BY <1>12 DEF NoteFound, Onward, Goto, Writes
<1>13. ASSUME NEW w \in Workers, Wait(w) PROVE MakingInv'
    BY <1>13 DEF Wait, PersistDeploy, Return, Goto, Writes
<1>14. ASSUME NEW w \in Workers, Describe(w) PROVE MakingInv'
    BY <1>14 DEF Describe, Answers, Goto
<1>15. ASSUME NEW w \in Workers, Probe(w) PROVE MakingInv'
    BY <1>15 DEF Probe, Answers, Goto, Verdict
<1>16. ASSUME NEW w \in Workers, Record(w) PROVE MakingInv'
    BY <1>16 DEF Record, PersistDeploy, Return, Goto, Writes
<1>17. ASSUME NEW w \in Workers, Drop(w) PROVE MakingInv'
    BY <1>17 DEF Drop, PersistDraft, Return, Goto, Writes
<1>18. ASSUME NEW w \in Workers, Lookup(w) PROVE MakingInv'
    BY <1>18 DEF Lookup, Named, Underway, Scan, Follow, Onward, Return, Goto
<1>19. ASSUME NEW w \in Workers, Adopt(w) PROVE MakingInv'
    BY <1>19 DEF Adopt, PersistTesting, Onward, Goto, Writes
<1>20. ASSUME NEW w \in Workers, Mark(w) PROVE MakingInv'
    BY <1>20 DEF Mark, PersistTesting, Onward, Goto, Writes
<1>21. ASSUME NEW w \in Workers, DeployTestStack(w) PROVE MakingInv'
    BY <1>21 DEF DeployTestStack, Onward, Return, Goto, Fail
<1>22. ASSUME NEW w \in Workers, Resolve(w) PROVE MakingInv'
    BY <1>22 DEF Resolve, Scan, Follow, Onward, Return, Goto
<1>23. ASSUME NEW w \in Workers, Note(w) PROVE MakingInv'
    BY <1>23 DEF Note, Return, Goto, Writes
<1>24. ASSUME NEW w \in Workers, Recover(w) PROVE MakingInv'
    BY <1>24 DEF Recover, Scan, Follow, Onward, Return, Goto
<1>25. ASSUME NEW w \in Workers, Retain(w) PROVE MakingInv'
    BY <1>25 DEF Retain, PersistTesting, Return, Goto, Writes
<1>26. ASSUME NEW w \in Workers, GiveUp(w) PROVE MakingInv'
    BY <1>26 DEF GiveUp, PersistDraft, Return, Goto, Writes
<1>27. ASSUME NEW w \in Workers, Reset(w) PROVE MakingInv'
    BY <1>27 DEF Reset, PersistDraft, Onward, Goto, Writes
<1>28. ASSUME NEW w \in Workers, TearDown(w) PROVE MakingInv'
    BY <1>28 DEF TearDown, Delete, Fail, Return, Onward, Goto
<1>29. ASSUME NEW w \in Workers, Reload(w) PROVE MakingInv'
    BY <1>29 DEF Reload, Return, Goto
<1>30. ASSUME NEW w \in Workers, Validate(w) PROVE MakingInv'
    BY <1>30 DEF Validate, Return, Goto, Writes
<1>31. ASSUME NEW w \in Workers, Orphan(w) PROVE MakingInv'
    BY <1>31 DEF Orphan, Scan, Follow, Onward, Return, Goto
<1>32. ASSUME NEW w \in Workers, AssertSlug(w) PROVE MakingInv'
    BY <1>32 DEF AssertSlug, Onward, Return, Goto
<1>33. ASSUME NEW w \in Workers, Publish(w) PROVE MakingInv'
    BY <1>33 DEF Publish, Onward, Goto, Writes
<1>34. ASSUME NEW w \in Workers, Emit(w) PROVE MakingInv'
    BY <1>34 DEF Emit, Fail, Onward, Goto
<1>35. ASSUME NEW w \in Workers, Unlist(w) PROVE MakingInv'
    BY <1>35 DEF Unlist, Fail, Onward, Return, Goto
<1>36. ASSUME NEW w \in Workers, Archive(w) PROVE MakingInv'
    BY <1>36 DEF Archive, Return, Goto, Writes
<1>37. ASSUME NEW w \in Workers, TearDownPublished(w) PROVE MakingInv'
    BY <1>37 DEF TearDownPublished, Delete, Fail, Return, Goto
<1>38. ASSUME NEW w \in Workers, Dies(w) PROVE MakingInv'
    BY <1>38 DEF Dies, Fail, Return, Goto
<1>39. ASSUME NEW s \in Stacks, StackSettles(s) PROVE MakingInv'
    BY <1>39 DEF StackSettles
<1>40. ASSUME UNCHANGED vars PROVE MakingInv'
    BY <1>40 DEF vars
<1>41. ASSUME NEW t \in Templates, Poll(t) PROVE MakingInv'
    BY <1>41, <1>7, TemplatesAssumption DEF Poll
<1>42. ASSUME NEW s \in Stacks, AgentGoesOn(s) PROVE MakingInv'
    BY <1>42 DEF AgentGoesOn
<1> QED
  BY <1>1, <1>2, <1>3, <1>4, <1>5, <1>6, <1>7, <1>8, <1>9, <1>10, <1>11, <1>12, <1>13, <1>14,
     <1>15, <1>16, <1>17, <1>18, <1>19, <1>20, <1>21, <1>22, <1>23, <1>24, <1>25, <1>26, <1>27,
     <1>28, <1>29, <1>30, <1>31, <1>32, <1>33, <1>34, <1>35, <1>36, <1>37, <1>38, <1>39, <1>40,
     <1>41, <1>42
  DEF Next, Author, Call

-----------------------------------------------------------------------------
(* The theorems. *)

\* The invariant holds at the start: nothing exists.
LEMMA TemplatesInit == Init => TemplatesInv
<1> SUFFICES ASSUME Init PROVE TemplatesInv
    OBVIOUS
<1>1. TypeInv
    BY Anything, TemplatesAssumption
    DEF Init, TypeInv, TableType, StackType, WorkerType, Statuses, DeployStatuses, StackStatuses, Steps
<1>2. RefInv
    BY DEF Init, RefInv, MadeInv, NamedInv, HandInv, Following
<1>3. UpInv
    BY DEF Init, UpInv, Templates
<1>4. MakingInv
    BY DEF Init, MakingInv, Making, Present
<1> QED BY <1>1, <1>2, <1>3, <1>4 DEF TemplatesInv

\* The invariant is inductive.
THEOREM TemplatesInvariant == Spec => []TemplatesInv
<1>1. Init => TemplatesInv
    BY TemplatesInit
<1>2. TemplatesInv /\ [Next]_vars => TemplatesInv'
    BY TableTypeStep, StackTypeStep, WorkerTypeStep, RefStep, UpStep, MakingStep
    DEF TemplatesInv, TypeInv
<1> QED BY <1>1, <1>2, PTL DEF Spec

\* Every variable has its type.
THEOREM TemplatesTypeCorrect == Spec => []TypeOK
<1>1. TemplatesInv => TypeOK
    BY DEF TemplatesInv, TypeInv, TableType, StackType, WorkerType, TypeOK
<1> QED BY <1>1, TemplatesInvariant, PTL

\* The table never has two test deployments of a template under a name, except
\* of one that two set out to deploy at a time.
THEOREM TestStackIsOne == Spec => []OneTestStack
<1>1. TemplatesInv => OneTestStack
    BY DEF TemplatesInv, MakingInv, Present, OneTestStack
<1> QED BY <1>1, TemplatesInvariant, PTL

\* No specialist is published, or archived, of which no test deployment was up.
THEOREM PublishedIsUp == Spec => []PublishedWasUp
<1>1. TemplatesInv => PublishedWasUp
    BY DEF TemplatesInv, UpInv, Proven, PublishedWasUp
<1> QED BY <1>1, TemplatesInvariant, PTL

-----------------------------------------------------------------------------
(* The API implements TemplateLife: the invariant. *)

\* The steps of an invocation that found its template a draft, or in testing.
OnDraft == {"save", "lookup", "mark", "adopt", "tearDown", "replace", "reload", "orphan"}
OnTest == {"saveStale", "find", "noteFound", "wait", "describe", "probe", "record", "drop",
           "deploy", "resolve", "note", "recover", "retain", "giveUp", "cancel", "restart",
           "validate"}

\* What the one invocation that works on t has loaded, or written, still holds.
Fits(step, t) ==
    /\ step \in OnDraft => status[t] = "draft"
    /\ step \in OnTest => status[t] = "in_testing"
    /\ step = "validate" => deploy[t] = "active"
    /\ step \in {"slug", "publish"} => Publishable(t)
    /\ step \in {"emit", "unlist", "archive"} => status[t] = "published"
    /\ step = "archive" => t \notin catalog

\* After its answer an invocation has only a deletion left.
Working(w) == pc[w] \notin {"idle", "frozen"}

\* Of a template that is not raced, what its one invocation knows of it is true.
RaceInv ==
    /\ raced \subseteq Templates
    /\ \A t \in Templates : Contended(t) => t \in raced
    /\ \A w \in Workers : Working(w) /\ at[w] \notin raced => Fits(pc[w], at[w])
    /\ \A t \in Templates \ raced : status[t] # "in_testing" => deploy[t] = "none"

\* What RacedNext adds to a step.
NoticeRaces == raced' = raced \cup {t \in Templates : Contended(t)'}

\* A step of an invocation that writes at most the template it works on.
Turns(w, t) ==
    /\ Working(w) /\ at[w] = t
    /\ \A v \in Workers \ {w} : pc'[v] = pc[v] /\ at'[v] = at[v]
    /\ pc'[w] = "idle" \/ at'[w] = t
    /\ \A u \in Templates \ {t} :
           /\ status'[u] = status[u] /\ devops'[u] = devops[u] /\ deploy'[u] = deploy[u]
           /\ u \in validated' <=> u \in validated
           /\ u \in catalog' <=> u \in catalog
    /\ Proven' = Proven

\* The others are where they were, so nobody new is contended.
LEMMA TurnsRaceNobody ==
    ASSUME TypeInv, TypeInv', RaceInv, NoticeRaces, NEW w \in Workers, NEW t \in Templates,
           Turns(w, t)
    PROVE  raced' = raced
<1>1. ASSUME NEW u \in Templates, Contended(u)' PROVE Contended(u)
    BY <1>1 DEF Contended, Works, Turns, Working
<1> QED
    BY <1>1 DEF NoticeRaces, RaceInv

\* The others keep what they know: they work on other templates, or raced ones.
LEMMA TurnsKeepInv ==
    ASSUME TypeInv, TypeInv', RaceInv, NoticeRaces, NEW w \in Workers, NEW t \in Templates,
           Turns(w, t),
           t \notin raced => /\ Working(w)' => Fits(pc[w], t)'
                             /\ status'[t] # "in_testing" => deploy'[t] = "none"
    PROVE  RaceInv'
<1>1. raced' = raced
    BY TurnsRaceNobody
<1>2. \A u \in Templates : Contended(u)' => u \in raced'
    BY DEF NoticeRaces
<1>3. ASSUME NEW v \in Workers, Working(v)', at'[v] \notin raced PROVE Fits(pc[v], at[v])'
    <2>1. CASE v = w
        BY <1>3, <2>1 DEF Turns, Working, Fits, Publishable
    <2>2. CASE v # w
        <3>1. at[v] # t /\ at[v] \in Templates
            BY <1>1, <1>3, <2>2
            DEF Turns, Working, RaceInv, Contended, Works, TypeInv, WorkerType
        <3>2. Fits(pc[v], at[v])
            BY <1>3, <2>2 DEF Turns, Working, RaceInv
        <3> QED
            BY <3>1, <3>2, <2>2 DEF Turns, Fits, Publishable
    <2> QED
        BY <2>1, <2>2
<1>4. \A u \in Templates \ raced : status'[u] # "in_testing" => deploy'[u] = "none"
    BY DEF Turns, RaceInv
<1> QED
    BY <1>1, <1>2, <1>3, <1>4 DEF RaceInv

\* An invocation starts on t, and may find another one at work there.
LEMMA LoadKeepsInv ==
    ASSUME TypeInv, TypeInv', RaceInv, NoticeRaces, NEW w \in Workers, NEW t \in Templates,
           NEW step \in Steps \ {"idle", "frozen"}, Fits(step, t),
           NEW s, NEW b, NEW n, LoadFor(w, t, step, s, b, n)
    PROVE  RaceInv' /\ raced' \subseteq raced \cup {t}
<1> USE DEF TypeInv, WorkerType, LoadFor, Goto, templateVars
<1>1. ASSUME NEW u \in Templates \ {t}, Contended(u)' PROVE Contended(u)
    BY <1>1 DEF Contended, Works
<1>2. raced \subseteq raced' /\ raced' \subseteq raced \cup {t}
    BY <1>1 DEF NoticeRaces, RaceInv
<1>3. ASSUME NEW v \in Workers, Working(v)', at'[v] \notin raced' PROVE Fits(pc[v], at[v])'
    BY <1>2, <1>3 DEF Working, RaceInv, Fits, Publishable
<1>4. raced' \subseteq Templates /\ \A u \in Templates : Contended(u)' => u \in raced'
    BY DEF NoticeRaces, RaceInv
<1>5. \A u \in Templates \ raced' : status'[u] # "in_testing" => deploy'[u] = "none"
    BY <1>2 DEF RaceInv
<1> QED
    BY <1>2, <1>3, <1>4, <1>5 DEF RaceInv

\* Every call is a step of an invocation on the template that it works on.
LEMMA CallTurns ==
    ASSUME TypeInv, RefInv, NEW w \in Workers, NEW t \in Templates, at[w] = t, Call(w)
    PROVE  Turns(w, t)
<1> USE DEF TypeInv, TableType, StackType, WorkerType, RefInv, MadeInv, Turns, Working, Proven,
            templateVars, stackVars
<1>1. CASE Save(w)
  BY <1>1 DEF Save, Return, Goto, Writes
<1>2. CASE Find(w)
  BY <1>2 DEF Find, Scan, Follow, Onward, Return, Goto
<1>3. CASE NoteFound(w)
  BY <1>3 DEF NoteFound, Onward, Goto, Writes
<1>4. CASE Wait(w)
  BY <1>4 DEF Wait, PersistDeploy, Return, Goto, Writes
<1>5. CASE Describe(w)
  BY <1>5 DEF Describe, Answers, Goto
<1>6. CASE Probe(w)
  BY <1>6 DEF Probe, Answers, Goto
<1>7. CASE Record(w)
  BY <1>7 DEF Record, PersistDeploy, Return, Goto, Writes
<1>8. CASE Drop(w)
  BY <1>8 DEF Drop, PersistDraft, Return, Goto, Writes
<1>9. CASE Lookup(w)
  BY <1>9 DEF Lookup, Scan, Follow, Onward, Return, Goto
<1>10. CASE Adopt(w)
  BY <1>10 DEF Adopt, PersistTesting, Onward, Goto, Writes
<1>11. CASE Mark(w)
  BY <1>11 DEF Mark, PersistTesting, Onward, Goto, Writes
<1>12. CASE DeployTestStack(w)
  BY <1>12 DEF DeployTestStack, Onward, Return, Goto, Fail
<1>13. CASE Resolve(w)
  BY <1>13 DEF Resolve, Scan, Follow, Onward, Return, Goto
<1>14. CASE Note(w)
  BY <1>14 DEF Note, Return, Goto, Writes
<1>15. CASE Recover(w)
  BY <1>15 DEF Recover, Scan, Follow, Onward, Return, Goto
<1>16. CASE Retain(w)
  BY <1>16 DEF Retain, PersistTesting, Return, Goto, Writes
<1>17. CASE GiveUp(w)
  BY <1>17 DEF GiveUp, PersistDraft, Return, Goto, Writes
<1>18. CASE Reset(w)
  BY <1>18 DEF Reset, PersistDraft, Onward, Goto, Writes
<1>19. CASE TearDown(w)
  BY <1>19 DEF TearDown, Return, Onward, Goto
<1>20. CASE Reload(w)
  BY <1>20 DEF Reload, SyncStep, Return, Goto
<1>21. CASE Validate(w)
  BY <1>21 DEF Validate, Return, Goto, Writes
<1>22. CASE Orphan(w)
  BY <1>22 DEF Orphan, Scan, Follow, Onward, Return, Goto
<1>23. CASE AssertSlug(w)
  BY <1>23 DEF AssertSlug, Onward, Return, Goto
<1>24. CASE Publish(w)
  BY <1>24 DEF Publish, Onward, Goto, Writes
<1>25. CASE Emit(w)
  BY <1>25 DEF Emit, Fail, Onward, Goto
<1>26. CASE Unlist(w)
  BY <1>26 DEF Unlist, Fail, Onward, Return, Goto
<1>27. CASE Archive(w)
  BY <1>27 DEF Archive, Return, Goto, Writes
<1> QED
  BY <1>1, <1>2, <1>3, <1>4, <1>5, <1>6, <1>7, <1>8, <1>9, <1>10, <1>11, <1>12, <1>13, <1>14, <1>15, <1>16, <1>17, <1>18, <1>19, <1>20, <1>21, <1>22, <1>23, <1>24, <1>25, <1>26, <1>27 DEF Call

\* After the call, what it has loaded or written fits its next step.
LEMMA CallFits ==
    ASSUME TypeInv, RaceInv, NEW w \in Workers, NEW t \in Templates \ raced, at[w] = t, Call(w)
    PROVE  /\ Working(w)' => Fits(pc[w], t)'
           /\ status'[t] # "in_testing" => deploy'[t] = "none"
<1> USE DEF TypeInv, TableType, StackType, WorkerType, RaceInv, Fits, Publishable, Working, OnDraft,
            OnTest, templateVars, stackVars
<1>1. CASE Save(w)
  BY <1>1 DEF Save, Return, Goto, Writes
<1>2. CASE Find(w)
  BY <1>2 DEF Find, Scan, Follow, Onward, Return, Goto
<1>3. CASE NoteFound(w)
  BY <1>3 DEF NoteFound, Onward, Goto, Writes
<1>4. CASE Wait(w)
  BY <1>4 DEF Wait, PersistDeploy, Return, Goto, Writes
<1>5. CASE Describe(w)
  BY <1>5 DEF Describe, Answers, Goto
<1>6. CASE Probe(w)
  BY <1>6 DEF Probe, Answers, Goto
<1>7. CASE Record(w)
  BY <1>7 DEF Record, PersistDeploy, Return, Goto, Writes
<1>8. CASE Drop(w)
  BY <1>8 DEF Drop, PersistDraft, Return, Goto, Writes
<1>9. CASE Lookup(w)
  BY <1>9 DEF Lookup, Scan, Follow, Onward, Return, Goto
<1>10. CASE Adopt(w)
  BY <1>10 DEF Adopt, PersistTesting, Onward, Goto, Writes
<1>11. CASE Mark(w)
  BY <1>11 DEF Mark, PersistTesting, Onward, Goto, Writes
<1>12. CASE DeployTestStack(w)
  BY <1>12 DEF DeployTestStack, Onward, Return, Goto, Fail
<1>13. CASE Resolve(w)
  BY <1>13 DEF Resolve, Scan, Follow, Onward, Return, Goto
<1>14. CASE Note(w)
  BY <1>14 DEF Note, Return, Goto, Writes
<1>15. CASE Recover(w)
  BY <1>15 DEF Recover, Scan, Follow, Onward, Return, Goto
<1>16. CASE Retain(w)
  BY <1>16 DEF Retain, PersistTesting, Return, Goto, Writes
<1>17. CASE GiveUp(w)
  BY <1>17 DEF GiveUp, PersistDraft, Return, Goto, Writes
<1>18. CASE Reset(w)
  BY <1>18 DEF Reset, PersistDraft, Onward, Goto, Writes
<1>19. CASE TearDown(w)
  BY <1>19 DEF TearDown, Return, Onward, Goto
<1>20. CASE Reload(w)
  BY <1>20 DEF Reload, SyncStep, Return, Goto
<1>21. CASE Validate(w)
  BY <1>21 DEF Validate, Return, Goto, Writes
<1>22. CASE Orphan(w)
  BY <1>22 DEF Orphan, Scan, Follow, Onward, Return, Goto
<1>23. CASE AssertSlug(w)
  BY <1>23 DEF AssertSlug, Onward, Return, Goto
<1>24. CASE Publish(w)
  BY <1>24 DEF Publish, Onward, Goto, Writes
<1>25. CASE Emit(w)
  BY <1>25 DEF Emit, Fail, Onward, Goto
<1>26. CASE Unlist(w)
  BY <1>26 DEF Unlist, Fail, Onward, Return, Goto
<1>27. CASE Archive(w)
  BY <1>27 DEF Archive, Return, Goto, Writes
<1> QED
  BY <1>1, <1>2, <1>3, <1>4, <1>5, <1>6, <1>7, <1>8, <1>9, <1>10, <1>11, <1>12, <1>13, <1>14, <1>15, <1>16, <1>17, <1>18, <1>19, <1>20, <1>21, <1>22, <1>23, <1>24, <1>25, <1>26, <1>27 DEF Call

-----------------------------------------------------------------------------
(* Each call maps to a step of TemplateLife. *)

\* A call on a raced template, or one that writes nothing, is not seen.
LEMMA UnseenMaps ==
    ASSUME TypeInv, TypeInv', raced' = raced, NEW w \in Workers, NEW t \in Templates,
           Turns(w, t),
           \/ t \in raced
           \/ /\ status'[t] = status[t] /\ devops'[t] = devops[t] /\ deploy'[t] = deploy[t]
              /\ t \in validated' <=> t \in validated
              /\ t \in catalog' <=> t \in catalog
    PROVE  UNCHANGED Life!vars
<1>1. ASSUME NEW u \in Templates
      PROVE  LifeOf(u)' = LifeOf(u) /\ DevopsOf(u)' = DevopsOf(u) /\ TestOf(u)' = TestOf(u)
    BY DEF Turns, LifeOf, DevopsOf, TestOf
<1>2. (validated \ raced)' = validated \ raced /\ (catalog \ raced)' = catalog \ raced
    BY DEF Turns, TypeInv, TableType, StackType
<1> QED
    BY <1>1, <1>2 DEF Life!vars, Turns, Proven

\* What TemplateLife sees of a call on one that is not.
LEMMA SeenOfOne ==
    ASSUME TypeInv, TypeInv', raced' = raced, NEW w \in Workers, NEW t \in Templates \ raced,
           Turns(w, t)
    PROVE  /\ LifeOf(t) = status[t] /\ TestOf(t) = deploy[t]
           /\ [u \in Templates |-> LifeOf(u)]'
                = [[u \in Templates |-> LifeOf(u)] EXCEPT ![t] = status'[t]]
           /\ [u \in Templates |-> DevopsOf(u)]'
                = [[u \in Templates |-> DevopsOf(u)] EXCEPT ![t] = devops'[t]]
           /\ [u \in Templates |-> TestOf(u)]'
                = [[u \in Templates |-> TestOf(u)] EXCEPT ![t] = deploy'[t]]
           /\ devops'[t] = devops[t]
                => [u \in Templates |-> DevopsOf(u)]' = [u \in Templates |-> DevopsOf(u)]
           /\ (validated \ raced)' = IF t \in validated' THEN (validated \ raced) \cup {t}
                                     ELSE (validated \ raced) \ {t}
           /\ (t \in validated' <=> t \in validated) => (validated \ raced)' = validated \ raced
           /\ (catalog \ raced)' = IF t \in catalog' THEN (catalog \ raced) \cup {t}
                                   ELSE (catalog \ raced) \ {t}
           /\ (t \in catalog' <=> t \in catalog) => (catalog \ raced)' = catalog \ raced
           /\ UNCHANGED {u \in Templates : \E s \in completed : owner[s] = u}
<1>1. ASSUME NEW u \in Templates \ {t}
      PROVE  LifeOf(u)' = LifeOf(u) /\ DevopsOf(u)' = DevopsOf(u) /\ TestOf(u)' = TestOf(u)
    BY DEF Turns, LifeOf, DevopsOf, TestOf
<1>2. /\ LifeOf(t) = status[t] /\ TestOf(t) = deploy[t] /\ DevopsOf(t) = devops[t]
      /\ LifeOf(t)' = status'[t] /\ TestOf(t)' = deploy'[t] /\ DevopsOf(t)' = devops'[t]
    BY DEF LifeOf, TestOf, DevopsOf
<1>3. /\ (validated \ raced)' = IF t \in validated' THEN (validated \ raced) \cup {t}
                                ELSE (validated \ raced) \ {t}
      /\ (t \in validated' <=> t \in validated) => (validated \ raced)' = validated \ raced
    BY DEF Turns, TypeInv, TableType
<1>4. /\ (catalog \ raced)' = IF t \in catalog' THEN (catalog \ raced) \cup {t}
                              ELSE (catalog \ raced) \ {t}
      /\ (t \in catalog' <=> t \in catalog) => (catalog \ raced)' = catalog \ raced
    BY DEF Turns, TypeInv, StackType
<1>5. UNCHANGED {u \in Templates : \E s \in completed : owner[s] = u}
    BY DEF Turns, Proven
<1> QED
    BY <1>1, <1>2, <1>3, <1>4, <1>5

\* The one invocation at work on t, and what is known of it.
AloneOn(w, t) == at[w] = t /\ t \notin raced /\ Working(w) /\ Fits(pc[w], t)

\* ... which is the one that takes the step.
LEMMA AloneFits ==
    ASSUME RaceInv, NEW w \in Workers, NEW t \in Templates \ raced, Turns(w, t)
    PROVE  AloneOn(w, t)
BY DEF RaceInv, Turns, AloneOn

\* An edit of a draft, or of a template in testing, whose test is stale then; or
\* of what is not deployed.
LEMMA SaveMaps ==
    ASSUME TypeInv, TypeInv', RaceInv, raced' = raced, NEW w \in Workers,
           NEW t \in Templates \ raced, Turns(w, t), Save(w)
    PROVE  Life!Edit(t) \/ UNCHANGED Life!vars
<1> USE DEF TypeInv, TableType, StackType, WorkerType, Save, Writes, stackVars
<1>1. AloneOn(w, t)
    BY AloneFits
<1>2. CASE UNCHANGED <<devops, deploy, validated>>
    <2>1. UNCHANGED <<status, catalog>>
        OBVIOUS
    <2> QED
        BY <1>2, <2>1, UnseenMaps
<1>3. CASE /\ \E b \in Bodies : devops' = [devops EXCEPT ![t] = b]
           /\ IF pc[w] = "saveStale"
                THEN /\ deploy' = [deploy EXCEPT ![t] = "stale"] /\ validated' = validated \ {t}
                ELSE UNCHANGED <<deploy, validated>>
    <2>1. devops'[t] \in Bodies /\ status'[t] = status[t]
          /\ (t \in catalog' <=> t \in catalog)
        BY <1>1 DEF AloneOn
    <2>2. CASE pc[w] = "save"
        <3>1. /\ status[t] = "draft" /\ deploy[t] = "none" /\ deploy'[t] = "none"
              /\ t \in validated' <=> t \in validated
            BY <1>1, <1>3, <2>2 DEF AloneOn, Fits, OnDraft, RaceInv
        <3>2. Life!Becomes(t, {"draft"}, "draft", "none")
            BY <2>1, <3>1, SeenOfOne DEF Life!Becomes
        <3> QED
            BY <2>1, <3>1, <3>2, SeenOfOne DEF Life!Edit, Life!Edits
    <2>3. CASE pc[w] = "saveStale"
        <3>1. status[t] = "in_testing" /\ deploy'[t] = "stale" /\ t \notin validated'
            BY <1>1, <1>3, <2>3 DEF AloneOn, Fits, OnTest
        <3>2. Life!Becomes(t, {"in_testing"}, "in_testing", "stale")
            BY <2>1, <3>1, SeenOfOne DEF Life!Becomes
        <3> QED
            BY <2>1, <3>1, <3>2, SeenOfOne DEF Life!Edit, Life!Edits
    <2> QED
        BY <2>2, <2>3
<1> QED
    BY <1>1, <1>2, <1>3 DEF AloneOn

\* What a sync, or the end of a start, records of the test.
LEMMA LearnMaps ==
    ASSUME TypeInv, TypeInv', RaceInv, UpInv, raced' = raced, NEW w \in Workers,
           NEW t \in Templates \ raced, Turns(w, t), Wait(w) \/ Note(w) \/ Record(w)
    PROVE  \E ds \in {"deploying", "active", "failed"} : Life!Learn(t, ds)
<1> USE DEF TypeInv, TableType, StackType, WorkerType, Writes, stackVars, Wait, Note, Record,
            PersistDeploy
<1>1. AloneOn(w, t)
    BY AloneFits
<1>2. /\ status[t] = "in_testing" /\ status'[t] = "in_testing" /\ devops'[t] = devops[t]
      /\ t \in validated' <=> t \in validated
      /\ t \in catalog' <=> t \in catalog
    BY <1>1 DEF AloneOn, Fits, OnTest
<1>3. PICK ds \in {"deploying", "active", "failed"} :
          deploy'[t] = ds /\ (ds = "active" => t \in Proven)
    BY <1>1 DEF AloneOn, UpInv
<1>4. Life!Becomes(t, {"in_testing"}, "in_testing", ds)
    BY <1>2, <1>3, SeenOfOne DEF Life!Becomes
<1> QED
    BY <1>2, <1>3, <1>4, SeenOfOne DEF Life!Learn, Proven

\* Whatever gives a test up takes the template back to draft.
LEMMA BackMaps ==
    ASSUME TypeInv, TypeInv', RaceInv, raced' = raced, NEW w \in Workers,
           NEW t \in Templates \ raced, Turns(w, t), Drop(w) \/ GiveUp(w) \/ Reset(w)
    PROVE  Life!Back(t)
<1> USE DEF TypeInv, TableType, StackType, WorkerType, Writes, stackVars, Drop, GiveUp, Reset,
            PersistDraft
<1>1. AloneOn(w, t)
    BY AloneFits
<1>2. /\ status[t] = "in_testing" /\ status'[t] = "draft" /\ deploy'[t] = "none"
      /\ devops'[t] = devops[t] /\ t \notin validated'
      /\ t \in catalog' <=> t \in catalog
    BY <1>1 DEF AloneOn, Fits, OnTest
<1>3. Life!Becomes(t, {"in_testing"}, "draft", "none")
    BY <1>2, SeenOfOne DEF Life!Becomes
<1> QED
    BY <1>2, <1>3, SeenOfOne DEF Life!Back

\* A draft is tried out, or a test is taken up again.
LEMMA TryMaps ==
    ASSUME TypeInv, TypeInv', RaceInv, raced' = raced, NEW w \in Workers,
           NEW t \in Templates \ raced, Turns(w, t), Adopt(w) \/ Mark(w) \/ Retain(w)
    PROVE  Life!Try(t)
<1> USE DEF TypeInv, TableType, StackType, WorkerType, Writes, stackVars, Adopt, Mark, Retain,
            PersistTesting
<1>1. AloneOn(w, t)
    BY AloneFits
<1>2. /\ status[t] \in {"draft", "in_testing"} /\ status'[t] = "in_testing"
      /\ deploy'[t] = "deploying" /\ devops'[t] = devops[t] /\ t \notin validated'
      /\ t \in catalog' <=> t \in catalog
    BY <1>1 DEF AloneOn, Fits, OnDraft, OnTest
<1>3. Life!Becomes(t, {"draft", "in_testing"}, "in_testing", "deploying")
    BY <1>2, SeenOfOne DEF Life!Becomes
<1> QED
    BY <1>2, <1>3, SeenOfOne DEF Life!Try

\* The test is active still when the author has validated it.
LEMMA ValidateMaps ==
    ASSUME TypeInv, TypeInv', RaceInv, raced' = raced, NEW w \in Workers,
           NEW t \in Templates \ raced, Turns(w, t), Validate(w)
    PROVE  Life!Validate(t)
<1> USE DEF TypeInv, TableType, StackType, WorkerType, Writes, stackVars, Validate
<1>1. AloneOn(w, t)
    BY AloneFits
<1>2. /\ status[t] = "in_testing" /\ deploy[t] = "active" /\ t \in validated'
      /\ status' = status /\ deploy' = deploy /\ devops'[t] = devops[t]
      /\ t \in catalog' <=> t \in catalog
    BY <1>1 DEF AloneOn, Fits, OnTest
<1>3. /\ [u \in Templates |-> LifeOf(u)]' = [u \in Templates |-> LifeOf(u)]
      /\ [u \in Templates |-> TestOf(u)]' = [u \in Templates |-> TestOf(u)]
    BY <1>2 DEF LifeOf, TestOf
<1> QED
    BY <1>2, <1>3, SeenOfOne DEF Life!Validate

\* What was checked when the template was loaded still holds when it is published.
LEMMA PublishMaps ==
    ASSUME TypeInv, TypeInv', RaceInv, raced' = raced, NEW w \in Workers,
           NEW t \in Templates \ raced, Turns(w, t), Publish(w)
    PROVE  Life!Publish(t)
<1> USE DEF TypeInv, TableType, StackType, WorkerType, Writes, stackVars, Publish
<1>1. AloneOn(w, t)
    BY AloneFits
<1>2. /\ status'[t] = "published" /\ deploy'[t] = "none" /\ devops'[t] = devops[t]
      /\ t \notin validated'
      /\ t \in catalog' <=> t \in catalog
    BY <1>1 DEF AloneOn
<1>3. Publishable(t)
    BY <1>1 DEF AloneOn, Fits
<1>4. Life!Becomes(t, {"draft", "in_testing"}, "published", "none")
    <2>1. LifeOf(t) \in {"draft", "in_testing"}
        BY <1>3, SeenOfOne DEF Publishable
    <2> HIDE DEF Publish
    <2> QED
        BY <1>2, <2>1, SeenOfOne DEF Life!Becomes
<1> QED
    BY <1>2, <1>3, <1>4, SeenOfOne DEF Life!Publish, Publishable

\* Only a published template is listed, or taken off the list.
LEMMA AnnounceMaps ==
    ASSUME TypeInv, TypeInv', RaceInv, raced' = raced, NEW w \in Workers,
           NEW t \in Templates \ raced, Turns(w, t), Emit(w) \/ Unlist(w)
    PROVE  Life!Announce(t)
<1> USE DEF TypeInv, TableType, StackType, WorkerType, templateVars, Emit, Unlist
<1>1. AloneOn(w, t)
    BY AloneFits
<1>2. /\ status[t] = "published" /\ UNCHANGED <<status, devops, deploy, validated>>
    BY <1>1 DEF AloneOn, Fits
<1>3. /\ [u \in Templates |-> LifeOf(u)]' = [u \in Templates |-> LifeOf(u)]
      /\ [u \in Templates |-> TestOf(u)]' = [u \in Templates |-> TestOf(u)]
      /\ [u \in Templates |-> DevopsOf(u)]' = [u \in Templates |-> DevopsOf(u)]
      /\ (validated \ raced)' = validated \ raced
    BY <1>2 DEF LifeOf, TestOf, DevopsOf
<1> QED
    BY <1>2, <1>3, SeenOfOne DEF Life!Announce

\* It is off the list when it is archived.
LEMMA ArchiveMaps ==
    ASSUME TypeInv, TypeInv', RaceInv, raced' = raced, NEW w \in Workers,
           NEW t \in Templates \ raced, Turns(w, t), Archive(w)
    PROVE  Life!Archive(t)
<1> USE DEF TypeInv, TableType, StackType, WorkerType, Writes, stackVars, Archive
<1>1. AloneOn(w, t)
    BY AloneFits
<1>2. /\ status[t] = "published" /\ status'[t] = "archived"
      /\ deploy'[t] = "none" /\ devops'[t] = devops[t] /\ t \notin catalog
      /\ t \in validated' <=> t \in validated
      /\ t \in catalog' <=> t \in catalog
    BY <1>1 DEF AloneOn, Fits, RaceInv
<1>3. Life!Becomes(t, {"published"}, "archived", "none")
    <2>1. LifeOf(t) = "published"
        BY <1>2, SeenOfOne
    <2> HIDE DEF Archive
    <2> QED
        BY <1>2, <2>1, SeenOfOne DEF Life!Becomes
<1> QED
    BY <1>2, <1>3, SeenOfOne DEF Life!Archive

\* The other calls write nothing of it.
LEMMA QuietCalls ==
    ASSUME TypeInv, TypeInv', raced' = raced, NEW w \in Workers, NEW t \in Templates, Turns(w, t),
           \/ Find(w) \/ NoteFound(w) \/ Describe(w) \/ Probe(w) \/ Lookup(w)
           \/ DeployTestStack(w) \/ Resolve(w) \/ Recover(w) \/ TearDown(w) \/ Reload(w)
           \/ Orphan(w) \/ AssertSlug(w)
    PROVE  UNCHANGED Life!vars
<1>1. UNCHANGED <<status, devops, deploy, validated, catalog>>
    BY DEF Find, NoteFound, Describe, Probe, Lookup, DeployTestStack, Resolve, Recover, TearDown,
           Reload, Orphan, AssertSlug, Scan, Writes, templateVars, stackVars
<1> QED
    BY <1>1, UnseenMaps

\* So every call is a step of TemplateLife, or none.
LEMMA CallMaps ==
    ASSUME TypeInv, TypeInv', RefInv, RaceInv, UpInv, NoticeRaces, NEW w \in Workers, Call(w)
    PROVE  RaceInv' /\ (Life!Next \/ UNCHANGED Life!vars)
<1> DEFINE t == at[w]
<1>1. t \in Templates
    BY DEF TypeInv, WorkerType
<1>2. Turns(w, t)
    BY <1>1, CallTurns
<1>3. raced' = raced
    BY <1>1, <1>2, TurnsRaceNobody
<1>4. RaceInv'
    BY <1>1, <1>2, CallFits, TurnsKeepInv
<1>5. CASE t \in raced
    BY <1>1, <1>2, <1>3, <1>4, <1>5, UnseenMaps
<1>6. CASE t \notin raced
    BY <1>1, <1>2, <1>3, <1>4, <1>6, SaveMaps, LearnMaps, BackMaps, TryMaps, ValidateMaps,
       PublishMaps, AnnounceMaps, ArchiveMaps, QuietCalls
    DEF Call, Life!Next
<1> QED
    BY <1>5, <1>6

-----------------------------------------------------------------------------
(* The other steps. *)

\* A request writes nothing, but may find another one at work on its template.
LEMMA LoadMaps ==
    ASSUME TypeInv, TypeInv', RaceInv, NoticeRaces, NEW w \in Workers, NEW t \in Templates,
           NEW step \in Steps \ {"idle", "frozen"}, Fits(step, t),
           NEW s, NEW b, NEW n, LoadFor(w, t, step, s, b, n)
    PROVE  RaceInv' /\ (Life!Race(t) \/ UNCHANGED Life!vars)
<1>1. RaceInv' /\ raced \subseteq raced' /\ raced' \subseteq raced \cup {t}
    BY LoadKeepsInv DEF NoticeRaces
<1>2. UNCHANGED <<status, devops, deploy, validated, catalog, owner, completed>>
    BY DEF LoadFor, templateVars, stackVars
<1>3. CASE raced' = raced
    BY <1>1, <1>2, <1>3 DEF Life!vars, LifeOf, DevopsOf, TestOf
<1>4. CASE t \notin raced /\ raced' = raced \cup {t}
    <2>1. /\ [u \in Templates |-> LifeOf(u)]'
               = [[u \in Templates |-> LifeOf(u)] EXCEPT ![t] = "raced"]
          /\ [u \in Templates |-> TestOf(u)]'
               = [[u \in Templates |-> TestOf(u)] EXCEPT ![t] = "none"]
          /\ [u \in Templates |-> DevopsOf(u)]'
               = [[u \in Templates |-> DevopsOf(u)] EXCEPT ![t] = AnyBody]
        BY <1>2, <1>4 DEF LifeOf, TestOf, DevopsOf
    <2>2. LifeOf(t) \in Life!Lives \ {"raced"}
        BY <1>4 DEF TypeInv, TableType, Statuses, Life!Lives, LifeOf
    <2>3. Life!Becomes(t, Life!Lives \ {"raced"}, "raced", "none")
        BY <2>1, <2>2 DEF Life!Becomes
    <2>4. /\ (validated \ raced)' = (validated \ raced) \ {t}
          /\ (catalog \ raced)' = (catalog \ raced) \ {t}
        BY <1>2, <1>4
    <2> QED
        BY <1>1, <1>2, <2>1, <2>3, <2>4 DEF Life!Race
<1> QED
    BY <1>1, <1>3, <1>4

\* What a request loads allows its first step.
LEMMA RefreshMaps ==
    ASSUME TypeInv, TypeInv', RaceInv, NoticeRaces, NEW w \in Workers, NEW t \in Templates,
           RefreshTestingStatus(w, t)
    PROVE  RaceInv' /\ (Life!Race(t) \/ UNCHANGED Life!vars)
BY LoadMaps DEF RefreshTestingStatus, LoadTest, SyncStep, Fits, OnDraft, OnTest, Steps

\* The same of a start, ...
LEMMA StartMaps ==
    ASSUME TypeInv, TypeInv', RaceInv, NoticeRaces, NEW w \in Workers, NEW t \in Templates,
           StartTesting(w, t)
    PROVE  RaceInv' /\ (Life!Race(t) \/ UNCHANGED Life!vars)
BY LoadMaps DEF StartTesting, LoadTest, SyncStep, Fits, OnDraft, OnTest, Steps

\* ... and of every other request.
LEMMA AuthorMaps ==
    ASSUME TypeInv, TypeInv', RaceInv, UpInv, NoticeRaces, NEW w \in Workers,
           NEW t \in Templates, Author(w, t)
    PROVE  RaceInv' /\ (Life!Race(t) \/ UNCHANGED Life!vars)
<1>1. CASE UpdateTemplate(w, t)
    BY <1>1, LoadMaps DEF UpdateTemplate, Load, Fits, OnDraft, OnTest, Steps
<1>2. CASE CancelTesting(w, t)
    BY <1>2, LoadMaps DEF CancelTesting, LoadId, Fits, OnDraft, OnTest, Steps
<1>3. CASE RestartTesting(w, t)
    BY <1>3, LoadMaps DEF RestartTesting, LoadId, Fits, OnDraft, OnTest, Steps
<1>4. CASE MarkTestingValidated(w, t)
    BY <1>4, LoadMaps DEF MarkTestingValidated, Load, Fits, OnDraft, OnTest, Steps
<1>5. CASE PublishTemplate(w, t)
    BY <1>5, LoadMaps DEF PublishTemplate, LoadId, Fits, OnDraft, OnTest, Steps
<1>6. CASE UnpublishTemplate(w, t)
    BY <1>6, LoadMaps DEF UnpublishTemplate, Load, Fits, OnDraft, OnTest, Steps
<1> QED
    BY <1>1, <1>2, <1>3, <1>4, <1>5, <1>6, StartMaps, RefreshMaps DEF Author

\* An invocation ends without a write to the table or the catalog.
LEMMA EndMaps ==
    ASSUME TypeInv, TypeInv', RaceInv, NoticeRaces, NEW w \in Workers,
           TearDownPublished(w) \/ Dies(w)
    PROVE  RaceInv' /\ UNCHANGED Life!vars
<1>1. UNCHANGED <<status, devops, deploy, validated, catalog, owner, completed>>
    BY DEF TearDownPublished, Dies, templateVars, stackVars
<1>2. /\ pc'[w] = "idle"
      /\ \A v \in Workers \ {w} : pc'[v] = pc[v] /\ at'[v] = at[v]
    BY DEF TypeInv, WorkerType, TearDownPublished, Dies, Return, Goto
<1>3. ASSUME NEW u \in Templates, Contended(u)' PROVE Contended(u)
    BY <1>2, <1>3 DEF Contended, Works
<1>4. raced' = raced
    BY <1>3 DEF NoticeRaces, RaceInv
<1>5. ASSUME NEW v \in Workers, Working(v)', at'[v] \notin raced PROVE Fits(pc[v], at[v])'
    BY <1>1, <1>2, <1>5 DEF RaceInv, Working, Fits, Publishable
<1>6. RaceInv'
    BY <1>1, <1>3, <1>4, <1>5 DEF RaceInv
<1> QED
    BY <1>1, <1>4, <1>6 DEF Life!vars, LifeOf, DevopsOf, TestOf

\* No invocation is at work on a template that is not there.
LEMMA CreateMaps ==
    ASSUME TypeInv, TypeInv', RaceInv, NoticeRaces, NEW t \in Templates, CreateTemplate(t)
    PROVE  RaceInv' /\ (Life!Create(t) \/ UNCHANGED Life!vars)
<1> USE DEF TypeInv, TableType
<1>1. UNCHANGED <<deploy, validated, catalog, owner, completed, pc, at>>
    BY DEF CreateTemplate, stackVars, workerVars
<1>2. raced' = raced
    BY <1>1 DEF NoticeRaces, RaceInv, Contended, Works
<1>3. ASSUME NEW v \in Workers, Working(v), at[v] \notin raced PROVE at[v] # t
    <2>1. pc[v] \in Steps \ {"idle", "frozen"}
        BY <1>3 DEF WorkerType, Working
    <2>2. Fits(pc[v], at[v])
        BY <1>3 DEF RaceInv
    <2> QED
        BY <2>1, <2>2 DEF Steps, Fits, OnDraft, OnTest, Publishable, CreateTemplate
<1>4. ASSUME NEW v \in Workers, Working(v)', at'[v] \notin raced PROVE Fits(pc[v], at[v])'
    BY <1>1, <1>3, <1>4 DEF RaceInv, Working, Fits, Publishable, CreateTemplate
<1>5. RaceInv'
    BY <1>1, <1>2, <1>4 DEF RaceInv, CreateTemplate, Contended, Works
<1>6. CASE t \in raced
    <2>1. ASSUME NEW u \in Templates
          PROVE  LifeOf(u)' = LifeOf(u) /\ DevopsOf(u)' = DevopsOf(u) /\ TestOf(u)' = TestOf(u)
        BY <1>1, <1>2, <1>6 DEF CreateTemplate, LifeOf, DevopsOf, TestOf
    <2> QED
        BY <1>1, <1>2, <1>5, <2>1 DEF Life!vars
<1>7. CASE t \notin raced
    <2>1. PICK b \in Bodies : devops' = [devops EXCEPT ![t] = b]
        BY DEF CreateTemplate
    <2>2. status' = [status EXCEPT ![t] = "draft"] /\ LifeOf(t) = "absent" /\ deploy[t] = "none"
        BY <1>7 DEF CreateTemplate, LifeOf, RaceInv
    <2>3. /\ [u \in Templates |-> LifeOf(u)]'
               = [[u \in Templates |-> LifeOf(u)] EXCEPT ![t] = "draft"]
          /\ [u \in Templates |-> TestOf(u)]'
               = [[u \in Templates |-> TestOf(u)] EXCEPT ![t] = "none"]
          /\ [u \in Templates |-> DevopsOf(u)]'
               = [[u \in Templates |-> DevopsOf(u)] EXCEPT ![t] = b]
        BY <1>1, <1>2, <1>7, <2>1, <2>2 DEF LifeOf, TestOf, DevopsOf
    <2>4. Life!Becomes(t, {"absent"}, "draft", "none")
        BY <2>2, <2>3 DEF Life!Becomes
    <2>5. Life!Edits(t)
        BY <2>3 DEF Life!Edits
    <2>6. UNCHANGED <<validated \ raced, catalog \ raced,
                      {u \in Templates : \E s \in completed : owner[s] = u}>>
        BY <1>1, <1>2
    <2>7. Life!Create(t)
        BY <1>1, <1>2, <2>4, <2>5, <2>6 DEF Life!Create
    <2> QED
        BY <1>5, <2>7
<1> QED
    BY <1>6, <1>7

\* A test deployment comes up for the template that it was made for.
LEMMA StackMaps ==
    ASSUME TypeInv, TypeInv', RaceInv, NoticeRaces, NEW s \in Stacks, NEW t \in Templates,
           t = owner[s], StackSettles(s)
    PROVE  RaceInv' /\ (Life!ComesUp(t) \/ UNCHANGED Life!vars)
<1>1. UNCHANGED <<status, devops, deploy, validated, catalog, owner, pc, at>>
    BY DEF StackSettles, templateVars, workerVars
<1>2. raced' = raced
    BY <1>1 DEF NoticeRaces, RaceInv, Contended, Works
<1>3. RaceInv'
    BY <1>1, <1>2 DEF RaceInv, Working, Contended, Works, Fits, Publishable
<1>4. /\ [u \in Templates |-> LifeOf(u)]' = [u \in Templates |-> LifeOf(u)]
      /\ [u \in Templates |-> TestOf(u)]' = [u \in Templates |-> TestOf(u)]
      /\ [u \in Templates |-> DevopsOf(u)]' = [u \in Templates |-> DevopsOf(u)]
    BY <1>1, <1>2 DEF LifeOf, TestOf, DevopsOf
<1>5. CASE completed' = completed
    BY <1>1, <1>2, <1>3, <1>4, <1>5 DEF Life!vars
<1>6. CASE completed' = completed \cup {s}
    <2>1. {u \in Templates : \E r \in completed : owner[r] = u}'
            = {u \in Templates : \E r \in completed : owner[r] = u} \cup {t}
        BY <1>1, <1>6 DEF TypeInv, StackType
    <2> QED
        BY <1>1, <1>2, <1>3, <1>4, <2>1 DEF Life!ComesUp
<1> QED
    BY <1>5, <1>6 DEF StackSettles

\* The agent Lambda is not seen.
LEMMA AgentMaps ==
    ASSUME TypeInv, TypeInv', RaceInv, NoticeRaces, NEW s \in Stacks, AgentGoesOn(s)
    PROVE  RaceInv' /\ UNCHANGED Life!vars
<1>1. UNCHANGED <<status, devops, deploy, validated, catalog, owner, completed, pc, at>>
    BY DEF AgentGoesOn, templateVars, workerVars
<1>2. raced' = raced
    BY <1>1 DEF NoticeRaces, RaceInv, Contended, Works
<1>3. RaceInv'
    BY <1>1, <1>2 DEF RaceInv, Working, Contended, Works, Fits, Publishable
<1> QED
    BY <1>1, <1>2, <1>3 DEF Life!vars, LifeOf, DevopsOf, TestOf

-----------------------------------------------------------------------------
(* The API implements TemplateLife: the theorem. *)

\* At the start there is no template, and nobody works on one.
LEMMA RaceInit == RacedInit => RaceInv /\ Life!Init
<1> SUFFICES ASSUME Init, raced = {} PROVE RaceInv /\ Life!Init
    BY DEF RacedInit
<1>1. RaceInv
    BY DEF Init, RaceInv, Contended, Works, Working
<1>2. Life!Init
    BY DEF Init, Life!Init, LifeOf, DevopsOf, TestOf
<1> QED
    BY <1>1, <1>2

\* Every step keeps the invariant and is one of TemplateLife or none.
LEMMA RacedStepMaps ==
    ASSUME TemplatesInv, TemplatesInv', RaceInv, [RacedNext]_<<vars, raced>>
    PROVE  RaceInv' /\ [Life!Next]_(Life!vars)
<1> USE DEF TemplatesInv
<1>1. CASE UNCHANGED <<vars, raced>>
    BY <1>1
    DEF vars, templateVars, stackVars, workerVars, RaceInv, Contended, Works, Working, Fits,
        Publishable, Life!vars, LifeOf, DevopsOf, TestOf
<1>2. CASE RacedNext
    <2>1. Next /\ NoticeRaces
        BY <1>2 DEF RacedNext, NoticeRaces
    <2>2. ASSUME NEW t \in Templates, CreateTemplate(t) PROVE RaceInv' /\ [Life!Next]_(Life!vars)
        BY <2>1, <2>2, CreateMaps DEF Life!Next
    <2>3. ASSUME NEW t \in Templates, Poll(t) PROVE RaceInv' /\ [Life!Next]_(Life!vars)
        BY <2>1, <2>3, RefreshMaps, TemplatesAssumption DEF Poll, Life!Next
    <2>4. ASSUME NEW w \in Workers, NEW t \in Templates, Author(w, t)
          PROVE  RaceInv' /\ [Life!Next]_(Life!vars)
        BY <2>1, <2>4, AuthorMaps DEF Life!Next
    <2>5. ASSUME NEW w \in Workers, Call(w) PROVE RaceInv' /\ [Life!Next]_(Life!vars)
        BY <2>1, <2>5, CallMaps
    <2>6. ASSUME NEW w \in Workers, TearDownPublished(w) \/ Dies(w)
          PROVE  RaceInv' /\ [Life!Next]_(Life!vars)
        BY <2>1, <2>6, EndMaps
    <2>7. ASSUME NEW s \in Stacks, StackSettles(s) PROVE RaceInv' /\ [Life!Next]_(Life!vars)
        <3>1. PICK t \in Templates : t = owner[s]
            BY DEF TypeInv, StackType
        <3> QED
            BY <2>1, <2>7, <3>1, StackMaps DEF Life!Next
    <2>8. ASSUME NEW s \in Stacks, AgentGoesOn(s) PROVE RaceInv' /\ [Life!Next]_(Life!vars)
        BY <2>1, <2>8, AgentMaps
    <2> QED
        BY <2>1, <2>2, <2>3, <2>4, <2>5, <2>6, <2>7, <2>8 DEF Next
<1> QED
    BY <1>1, <1>2

\* With or without failures, races aside: a template is edited, tried out,
\* validated, published, listed and archived as its author is promised.
THEOREM LifeIsFollowed == RacedSpec => FollowsLife
<1>1. RacedInit => RaceInv /\ Life!Init
    BY RaceInit
<1>2. TemplatesInv /\ TemplatesInv' /\ RaceInv /\ [RacedNext]_<<vars, raced>>
        => RaceInv' /\ [Life!Next]_(Life!vars)
    BY RacedStepMaps
<1>3. [RacedNext]_<<vars, raced>> => [Next]_vars
    BY DEF RacedNext
<1>4. RacedSpec => []TemplatesInv
    <2>1. RacedSpec => Spec
        BY <1>3, PTL DEF RacedSpec, RacedInit, Spec
    <2> QED
        BY <2>1, TemplatesInvariant, PTL
<1> QED
    BY <1>1, <1>2, <1>4, PTL DEF RacedSpec, FollowsLife, Life!Spec
=============================================================================
