--------------------------- MODULE TemplateRaces ---------------------------
(***************************************************************************)
(* Templates with one more history variable, the templates that two        *)
(* invocations have worked on at a time, and what it is needed for: that   *)
(* the API implements TemplateLife as long as its operations do not        *)
(* overlap, whatever fails in them.                                        *)
(***************************************************************************)
EXTENDS Templates

VARIABLE raced

\* An invocation is at work on t; after its answer it no longer is.
Works(w, t) == pc[w] \notin {"idle", "frozen"} /\ at[w] = t

Contended(t) == \E v, w \in Workers : v # w /\ Works(v, t) /\ Works(w, t)

RacedNext == Next /\ raced' = raced \cup {t \in Templates : Contended(t)'}

RacedInit == Init /\ raced = {}
RacedSpec == RacedInit /\ [][RacedNext]_<<vars, raced>>
RacedFairSpec == RacedSpec /\ Fairness

\* Where a template is in TemplateLife.
LifeOf(t) == IF t \in raced THEN "raced" ELSE status[t]
DevopsOf(t) == IF t \in raced THEN AnyBody ELSE devops[t]
TestOf(t) == IF t \in raced THEN "none" ELSE deploy[t]

Life == INSTANCE TemplateLife WITH
    life <- [t \in Templates |-> LifeOf(t)],
    devops <- [t \in Templates |-> DevopsOf(t)],
    test <- [t \in Templates |-> TestOf(t)],
    valid <- validated \ raced,
    listed <- catalog \ raced,
    up <- {t \in Templates : \E s \in completed : owner[s] = t}

\* The API implements TemplateLife, unless two operations overlap on one
\* template: each writes what it loaded, and the last one wins.
FollowsLife == Life!Spec
=============================================================================
