------------------------------ MODULE MCSetup ------------------------------
(* Two releases, the second with one file more. *)
EXTENDS Setup, TLC

CONSTANTS a, b, v1, v2

MCFilesOf == (v1 :> {a}) @@ (v2 :> {a, b})

\* No cache, the first release's, an edited one, and one with a file of its own.
MCBefore == {Absent, a :> v1, a :> Edited, (a :> v1) @@ (b :> Edited)}
=============================================================================
