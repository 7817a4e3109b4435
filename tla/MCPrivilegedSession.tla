------------------------ MODULE MCPrivilegedSession ------------------------
(***************************************************************************)
(* The instances of PrivilegedSession that TLC checks.                       *)
(***************************************************************************)
EXTENDS PrivilegedSession

AllKinds == {"diagnostic", "repair", "plan", "shell", "rollback", "plain"}

\* Every kind of request whose waits the code bounds.
BoundedKinds == {"diagnostic", "repair", "plan", "plain"}

\* A repair whose success lets the deferred diagnostic start below its dialog.
RepairThenDiagnostic == {"diagnostic", "repair"}

\* The mutating kinds whose child cannot end with code 126.
RepairKinds == {"repair", "plan"}

Either == {TRUE, FALSE}
Never == {FALSE}
Always == {TRUE}
=============================================================================
