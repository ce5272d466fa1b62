------------------------- MODULE MCMultimodalFiles -------------------------
(* TLC instance of MultimodalFiles. *)
EXTENDS MultimodalFiles

\* A file posted again and again multiplies the states; the theorems about the
\* safety properties cover it.
TheseFaults == Mishaps \ {"postAgain"}
=============================================================================
