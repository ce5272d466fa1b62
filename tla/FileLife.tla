------------------------------ MODULE FileLife ------------------------------
(***************************************************************************)
(* What the client of an attached file is promised, with no table, bucket  *)
(* or event: a file is granted to one upload at a time, and only when no   *)
(* good one is there; it is accepted once that upload's content is stored  *)
(* and is what its name says; the content of an accepted file leaves only  *)
(* with its age or with a delete; a delete is only done when the content   *)
(* is gone, and then none of it comes back; a file that is waited for does *)
(* not expire.  Nothing is promised of a file that was granted or deleted  *)
(* while an upload or a delete of it was under way, or that waited for an  *)
(* upload while news of an earlier one came again: it is disturbed.        *)
(***************************************************************************)

CONSTANTS Files, Uploads, NoUpload

VARIABLES
    life,    \* of a file, see Lives
    upload,  \* the upload that a file stands for, or NoUpload
    leaving, \* files whose content a delete has removed, and not yet the file
    asked,   \* uploads that were asked for
    sound,   \* those whose content is what the file's name says
    kept,    \* uploads whose content is stored
    old      \* uploads whose content was stored for too long

vars == <<life, upload, leaving, asked, sound, kept, old>>

Lives == {"absent", "pending", "uploaded", "invalid", "deleted", "disturbed"}

Init ==
    /\ life = [f \in Files |-> "absent"] /\ upload = [f \in Files |-> NoUpload]
    /\ leaving = {}
    /\ asked = {} /\ sound = {} /\ kept = {} /\ old = {}

\* A client asks for the upload k, with good content or not.
Ask(k, good) ==
    /\ k \notin asked
    /\ asked' = asked \cup {k}
    /\ sound' = IF good THEN sound \cup {k} ELSE sound
    /\ UNCHANGED <<kept, old>>

Refuse(k, good) == Ask(k, good) /\ UNCHANGED <<life, upload, leaving>>

\* f gets a new life, in which it stands for k.
Becomes(f, from, to, k) ==
    /\ life[f] \in from
    /\ life' = [life EXCEPT ![f] = to]
    /\ upload' = [upload EXCEPT ![f] = k]

Grant(f, k, good) ==
    /\ Becomes(f, {"absent", "invalid", "deleted"}, "pending", k)
    /\ Ask(k, good)
    /\ leaving' = leaving \ {f}

\* The content of k arrives, for the first time or again.
Store(k) ==
    /\ k \in asked
    /\ \A f \in Files : life[f] = "deleted" => upload[f] # k
    /\ kept' = kept \cup {k}
    /\ old' = old \ {k}
    /\ UNCHANGED <<life, upload, leaving, asked, sound>>

contentVars == <<asked, sound, kept, old>>

Accept(f) ==
    /\ upload[f] \in sound
    /\ upload[f] \in kept \/ f \in leaving
    /\ Becomes(f, {"pending"}, "uploaded", upload[f])
    /\ UNCHANGED <<leaving, contentVars>>

Reject(f) ==
    /\ Becomes(f, {"pending"}, "invalid", upload[f])
    /\ UNCHANGED <<leaving, contentVars>>

\* A delete removes the content of f, and then f; it may find f expired.
Leave(f) ==
    /\ upload[f] # NoUpload
    /\ leaving' = leaving \cup {f}
    /\ kept' = kept \ {upload[f]}
    /\ UNCHANGED <<life, upload, asked, sound, old>>

Delete(f) ==
    /\ upload[f] \notin kept
    /\ Becomes(f, Lives \ {"disturbed"}, "deleted", upload[f])
    /\ leaving' \in {leaving, leaving \ {f}}
    /\ UNCHANGED contentVars

Expire(f) ==
    /\ Becomes(f, {"uploaded", "invalid", "deleted"}, "absent", NoUpload)
    /\ leaving' = leaving \ {f}
    /\ UNCHANGED contentVars

\* Content that is too old, or that no file stands for, is removed.
Age(k) ==
    /\ k \in kept
    /\ kept' = kept \ {k}
    /\ old' = old \cup {k}
    /\ UNCHANGED <<life, upload, leaving, asked, sound>>

Drop(k) ==
    /\ \A f \in Files : upload[f] # k
    /\ kept' = kept \ {k}
    /\ UNCHANGED <<life, upload, leaving, asked, sound, old>>

Disturb(f) ==
    /\ Becomes(f, Lives \ {"disturbed"}, "disturbed", NoUpload)
    /\ leaving' = leaving \ {f}
    /\ UNCHANGED contentVars \/ \E k \in Uploads, good \in BOOLEAN : Ask(k, good)

Next ==
    \/ \E f \in Files : \/ Accept(f) \/ Reject(f) \/ Leave(f) \/ Delete(f)
                        \/ Expire(f) \/ Disturb(f)
    \/ \E k \in Uploads : Store(k) \/ Age(k) \/ Drop(k)
    \/ \E k \in Uploads, good \in BOOLEAN :
           Refuse(k, good) \/ \E f \in Files : Grant(f, k, good)

Spec == Init /\ [][Next]_vars
=============================================================================
