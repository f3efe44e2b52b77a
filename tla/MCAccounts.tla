----------------------------- MODULE MCAccounts -----------------------------
(***************************************************************************)
(* Instances of Accounts for TLC.                                          *)
(***************************************************************************)
EXTENDS Accounts, TLC

CONSTANTS u1, u2, t1, t2, h1, h2

\* Promotion and demotion, deactivation and reactivation, a new password.
MCBodies ==
    {"is_admin" :> TRUE, "is_admin" :> FALSE,
     "is_active" :> FALSE, "is_active" :> TRUE, "password" :> "new"}

Symmetry == Permutations(User) \cup Permutations(Token) \cup Permutations(Handler)
=============================================================================
