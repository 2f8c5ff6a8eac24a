---------------------------- MODULE SignInTerms ----------------------------
(***************************************************************************)
(* The bounds of SignIn, and its names: a login is known by its code, the  *)
(* listeners of a login by the start they belong to.                       *)
(***************************************************************************)
EXTENDS Integers

CONSTANTS
    MaxLogins,      \* bound: clicks on the button and submits of the form
    MaxServed,      \* connections that a thread takes (10 in the code)
    MaxStrays,      \* bound: connections that bring no code
    MaxRestarts,    \* bound: restarts of the application
    Nobody

ASSUME SignInAssumption == MaxLogins \in Nat /\ MaxServed \in Nat /\ Nobody \notin Nat

Families == {"v4", "v6"}
Starts == 1 .. MaxLogins
Codes == 1 .. MaxLogins
=============================================================================
