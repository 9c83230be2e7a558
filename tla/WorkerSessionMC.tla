-------------------------- MODULE WorkerSessionMC --------------------------
(* Values for the sequence and function constants of WorkerSession.        *)
EXTENDS WorkerSession

CONSTANTS f, g, h

OneFunction == <<f>>
TwoFunctions == <<f, g>>
ThreeFunctions == <<f, g, h>>

\* Hashes of f, g and h: f and h share a slot of 2 or 3, until the registry of 2
\* grows to 4.
Clashing == [x \in Funcs |-> CASE x = f -> 6 [] x = g -> 1 [] x = h -> 0]
=============================================================================
