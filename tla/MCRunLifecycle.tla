--------------------------- MODULE MCRunLifecycle ---------------------------
(* Model-checking instance of RunLifecycle: symmetry over interchangeable    *)
(* task slots, API handlers and approval ids (safety runs only).             *)
EXTENDS RunLifecycle, TLC

Symmetry == Permutations(Task) \cup Permutations(Handler) \cup Permutations(Gate)

=============================================================================
