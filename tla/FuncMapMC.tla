----------------------------- MODULE FuncMapMC -----------------------------
(* Values for the constants of FuncMap: a hash under which two names share *)
(* a slot of the smallest registry, and one under which none do.           *)
EXTENDS FuncMap, TLC

CONSTANTS a, b, c

Clashing == a :> 0 @@ b :> 1 @@ c :> 2
Spread == a :> 4 @@ b :> 1 @@ c :> 2
=============================================================================
