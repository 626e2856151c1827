-------------------------- MODULE MCGuardedChange --------------------------
(* Model-checking instances of GuardedChange: what each change is about.     *)
EXTENDS GuardedChange, TLC

CONSTANTS c1, c2, key, unit

OneKey  == c1 :> key
OneUnit == c1 :> unit
Apart   == c1 :> key @@ c2 :> unit
Shared  == c1 :> key @@ c2 :> key
=============================================================================
