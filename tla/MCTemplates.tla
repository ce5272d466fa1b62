---------------------------- MODULE MCTemplates ----------------------------
(* TLC instances of Templates. *)
EXTENDS TemplateRaces

CONSTANTS author, page, n1, n2

\* One author asks for everything; the page only polls.
OneAuthor == [w \in Workers |-> IF w = author THEN Operations ELSE {}]

\* A template starts as n1, and may become n2.
OneRename == [n \in Names |-> IF n = NoName THEN {n1} ELSE {n, n2}]
=============================================================================
