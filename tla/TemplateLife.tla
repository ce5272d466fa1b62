---------------------------- MODULE TemplateLife ----------------------------
(***************************************************************************)
(* What the author of a template is promised, with none of the invocations *)
(* that carry it out: it is a draft, is tried out, is published and is     *)
(* archived; what is tried out counts as active only when a test           *)
(* deployment of it was up; a specialist is published straight from an     *)
(* active test that its author has validated and not edited since; AIW     *)
(* lists it only then, and no longer when it is archived.  Nothing is      *)
(* promised of a template that two invocations have worked on at a time:   *)
(* it is raced.                                                            *)
(***************************************************************************)

CONSTANTS Templates, Orchestrators, Bodies,
          AnyBody \* of a raced template

VARIABLES
    life,   \* of a template, see Lives
    devops, \* what it deploys
    test,   \* what is known of its test
    valid,  \* templates whose test the author has validated
    listed, \* templates that AIW lists
    up      \* templates of which a test deployment was up

vars == <<life, devops, test, valid, listed, up>>

Lives == {"absent", "draft", "in_testing", "published", "archived", "raced"}

Init ==
    /\ life = [t \in Templates |-> "absent"]
    /\ devops = [t \in Templates |-> AnyBody]
    /\ test = [t \in Templates |-> "none"]
    /\ valid = {} /\ listed = {} /\ up = {}

\* t goes from one of the lives in from to another, and its test with it.
Becomes(t, from, to, ds) ==
    /\ life[t] \in from
    /\ life' = [life EXCEPT ![t] = to]
    /\ test' = [test EXCEPT ![t] = ds]

Edits(t) == \E b \in Bodies : devops' = [devops EXCEPT ![t] = b]

Create(t) ==
    /\ Becomes(t, {"absent"}, "draft", "none") /\ Edits(t)
    /\ UNCHANGED <<valid, listed, up>>

Edit(t) ==
    /\ \/ Becomes(t, {"draft"}, "draft", "none") /\ UNCHANGED valid
       \/ Becomes(t, {"in_testing"}, "in_testing", "stale") /\ valid' = valid \ {t}
    /\ Edits(t) /\ UNCHANGED <<listed, up>>

Try(t) ==
    /\ Becomes(t, {"draft", "in_testing"}, "in_testing", "deploying")
    /\ valid' = valid \ {t} /\ UNCHANGED <<devops, listed, up>>

Learn(t, ds) ==
    /\ ds = "active" => t \in up
    /\ Becomes(t, {"in_testing"}, "in_testing", ds)
    /\ UNCHANGED <<devops, valid, listed, up>>

Validate(t) ==
    /\ life[t] = "in_testing" /\ test[t] = "active"
    /\ valid' = valid \cup {t}
    /\ UNCHANGED <<life, devops, test, listed, up>>

\* The test is cancelled, or its deployment is gone.
Back(t) ==
    /\ Becomes(t, {"in_testing"}, "draft", "none")
    /\ valid' = valid \ {t} /\ UNCHANGED <<devops, listed, up>>

Publish(t) ==
    /\ t \in Orchestrators \/ (life[t] = "in_testing" /\ test[t] = "active" /\ t \in valid)
    /\ Becomes(t, {"draft", "in_testing"}, "published", "none")
    /\ valid' = valid \ {t} /\ UNCHANGED <<devops, listed, up>>

Announce(t) ==
    /\ life[t] = "published"
    /\ listed' \in {listed \cup {t}, listed \ {t}}
    /\ UNCHANGED <<life, devops, test, valid, up>>

Archive(t) ==
    /\ t \notin listed
    /\ Becomes(t, {"published"}, "archived", "none")
    /\ UNCHANGED <<devops, valid, listed, up>>

ComesUp(t) == up' = up \cup {t} /\ UNCHANGED <<life, devops, test, valid, listed>>

Race(t) ==
    /\ Becomes(t, Lives \ {"raced"}, "raced", "none")
    /\ devops' = [devops EXCEPT ![t] = AnyBody]
    /\ valid' = valid \ {t} /\ listed' = listed \ {t} /\ UNCHANGED up

Next == \E t \in Templates :
    \/ Create(t) \/ Edit(t) \/ Try(t) \/ Validate(t) \/ Back(t) \/ Publish(t) \/ Announce(t)
    \/ Archive(t) \/ ComesUp(t) \/ Race(t)
    \/ \E ds \in {"deploying", "active", "failed"} : Learn(t, ds)

Spec == Init /\ [][Next]_vars
=============================================================================
