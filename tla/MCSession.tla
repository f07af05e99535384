----------------------------- MODULE MCSession -----------------------------
(* Instances of Session for TLC. *)
EXTENDS Session, TLC

\* Enabled common users; an instance whose handlers do not look at a second
\* factor starts without it.
Start(twofa, passkey) ==
    [status : {UserStatusEnabled}, role : {RoleCommonUser}, deleted : {FALSE},
     twofa : twofa, passkey : passkey]

TwoFAUsers   == Start(BOOLEAN, {FALSE})
AllUsers     == Start(BOOLEAN, BOOLEAN)

Symmetry == Permutations(Users) \cup Permutations(Procs) \cup Permutations(Browsers)
=============================================================================
