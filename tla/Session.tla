------------------------------ MODULE Session ------------------------------
(***************************************************************************)
(* Login, logout and "secure verification" (controller/user.go,            *)
(* controller/twofa.go, controller/passkey.go,                             *)
(* controller/secure_verification.go, middleware/auth.go).                 *)
(*                                                                         *)
(* The session is a signed cookie (main.go, cookie.NewStore): the server   *)
(* keeps no copy.  A request carries the cookie its browser held when the  *)
(* request was sent; a handler that saves the session answers with a whole *)
(* new cookie, and the browser keeps the last one it receives.  Responses  *)
(* may arrive in any order or not at all.                                  *)
(*                                                                         *)
(* A database write is an action of its own, and so is a read whose result *)
(* a handler keeps across another statement; reads that are only tested    *)
(* are one action.  Whether a typed password, code or passkey assertion is *)
(* right is part of the request (TwoFA models how a code is judged).       *)
(***************************************************************************)
EXTENDS Naturals

CONSTANTS
    Users, Browsers,
    Procs,       \* the requests that may be in flight at one time
    None,        \* "no user"
    Timeout,     \* SecureVerificationTimeout (300 s)
    InitRows,    \* the rows users may start with
    Ops,         \* the handlers clients call in this instance
    MaxTime,     \* bound: the last clock value
    MaxChanges,  \* bound: changes to users by other requests
    MaxFaults    \* bound: database errors

RoleCommonUser == 1
RoleAdminUser  == 10
RoleRootUser   == 100

UserStatusEnabled  == 1
UserStatusDisabled == 2

Row == [status : {UserStatusEnabled, UserStatusDisabled},
        role : {RoleCommonUser, RoleAdminUser, RoleRootUser},
        deleted : BOOLEAN, twofa : BOOLEAN, passkey : BOOLEAN]

ASSUME SessionAssumption ==
    /\ None \notin Users
    /\ InitRows \subseteq Row
    /\ Timeout \in Nat \ {0}
    /\ MaxTime \in Nat \ {0}
    /\ MaxChanges \in Nat
    /\ MaxFaults \in Nat

VARIABLES
    now,      \* time.Now().Unix()
    users,    \* users[u]: the row of u, its 2FA and passkey rows
    cookie,   \* cookie[b]: the session browser b holds
    changes, faults,
    pc,       \* pc[p]: the next step of request p
    in,       \* in[p]: its handler and what the client sent
    br,       \* br[p]: its browser
    ses,      \* ses[p]: its session, taken from the cookie
    rec,      \* rec[p]: its copy of a user row
    saved,    \* saved[p]: the response carries ses[p] as a new cookie
    ok,       \* ok[p]: what it answers
    (* History, read by no action: *)
    proofs,   \* proofs[b]: <<u, factor>> that b presented and the server saw
    verifs,   \* verifs[b]: <<u, t>>, u passed UniversalVerify in b at t
    held,     \* held[u]: the <<status, role>> u has had
    out       \* out[b]: b got the answer to a logout while it had no login
              \* under way, and sent none since

dbVars   == <<users, held>>
reqVars  == <<pc, in, br, ses, rec, saved, ok>>
histVars == <<proofs, verifs, out>>
vars == <<now, cookie, changes, faults, dbVars, reqVars, histVars>>

-----------------------------------------------------------------------------
\* What the keys of a session hold; id stands for id, username and group,
\* pending for pending_user_id and pending_username, verified for
\* secure_verified_at (0: absent), and the last two for the passkey keys.
Sessions == [id : Users \cup {None}, role : Nat, status : Nat,
             pending : Users \cup {None}, verified : Nat,
             loginCh : BOOLEAN, verifyCh : Users \cup {None}]

NoSession == [id |-> None, role |-> 0, status |-> 0, pending |-> None,
              verified |-> 0, loginCh |-> FALSE, verifyCh |-> None]

\* What a client sends.  login and passkeyLoginFinish name a user.
LoginOps == {"login", "login2fa", "passkeyLoginFinish"}

Inputs ==
    [op : {"login", "passkeyLoginFinish"}, user : Users, good : BOOLEAN]
    \cup [op : {"login2fa", "verify2fa", "passkeyVerifyFinish"}, user : {None},
          good : BOOLEAN]
    \cup [op : {"logout", "status", "admin", "verifyPasskey",
                "passkeyLoginBegin", "passkeyVerifyBegin"},
          user : {None}, good : {TRUE}]

NoInput == [op |-> "logout", user |-> None, good |-> TRUE]

NoRec == [status |-> UserStatusDisabled, role |-> RoleCommonUser,
          deleted |-> TRUE, twofa |-> FALSE, passkey |-> FALSE]

Steps == {"idle", "sent", "login", "login2fa", "passkeyLogin",
          "passkeyVerify", "reply"}

-----------------------------------------------------------------------------
\* Mutant: the role of the session is not set.
SetupLoginKeepRole(s, u, r) == [s EXCEPT !.id = u, !.status = r.status,
                                         !.role = IF s.id = None THEN r.role ELSE s.role]

\* setupLogin sets its own keys and leaves the others as they are.
SetupLogin(s, u, r) == [s EXCEPT !.id = u, !.role = r.role, !.status = r.status]

\* Mutant: Clear forgets the login.
ClearedPending(s) == [s EXCEPT !.pending = None, !.verified = 0]

\* session.Clear
Cleared(s) == NoSession

\* FillUserById: a deleted user keeps the zero status.
Enabled(u) == ~users[u].deleted /\ users[u].status = UserStatusEnabled

\* authHelper: it looks at the session only, never at the users table.
AuthHelper(s, minRole) ==
    s.id # None /\ s.status # UserStatusDisabled /\ s.role >= minRole

\* Mutant: a verification is good for one second more.
VerifiedLate(s) == s.verified # 0 /\ now - s.verified <= Timeout

\* CheckSecureVerification and the test in SecureVerificationRequired.
Verified(s) == s.verified # 0 /\ now - s.verified < Timeout

\* Mutant: 2FA is never found enabled.
NeverTwoFA(u) == FALSE

IsTwoFAEnabled(u) == users[u].twofa

-----------------------------------------------------------------------------
Init ==
    /\ now = 1
    /\ users \in [Users -> InitRows]
    /\ held = [u \in Users |-> {<<users[u].status, users[u].role>>}]
    /\ cookie = [b \in Browsers |-> NoSession]
    /\ changes = 0 /\ faults = 0
    /\ pc = [p \in Procs |-> "idle"]
    /\ in = [p \in Procs |-> NoInput]
    /\ br \in [Procs -> Browsers]
    /\ ses = [p \in Procs |-> NoSession]
    /\ rec = [p \in Procs |-> NoRec]
    /\ saved = [p \in Procs |-> FALSE]
    /\ ok = [p \in Procs |-> FALSE]
    /\ proofs = [b \in Browsers |-> {}]
    /\ verifs = [b \in Browsers |-> {}]
    /\ out = [b \in Browsers |-> FALSE]

At(p, step) == pc[p] = step

Is(p, op) == pc[p] = "sent" /\ in[p].op = op

Send(p, b, i) ==
    /\ At(p, "idle")
    /\ pc' = [pc EXCEPT ![p] = "sent"]
    /\ in' = [in EXCEPT ![p] = i]
    /\ br' = [br EXCEPT ![p] = b]
    /\ ses' = [ses EXCEPT ![p] = cookie[b]]
    /\ out' = [out EXCEPT ![b] = out[b] /\ i.op \notin LoginOps]
    /\ UNCHANGED <<now, cookie, changes, faults, dbVars, rec, saved, ok,
                   proofs, verifs>>

\* The answer a, with or without a new cookie s.
Answer(p, s, set, a) ==
    /\ pc' = [pc EXCEPT ![p] = "reply"]
    /\ ses' = [ses EXCEPT ![p] = IF set THEN s ELSE NoSession]
    /\ saved' = [saved EXCEPT ![p] = set]
    /\ ok' = [ok EXCEPT ![p] = a]
    /\ rec' = [rec EXCEPT ![p] = NoRec]
    /\ UNCHANGED <<now, cookie, changes, in, br, out>>

Refuse(p) == Answer(p, ses[p], FALSE, FALSE)

\* The first read of a handler that goes on at another step.
Continue(p, step, u) ==
    /\ pc' = [pc EXCEPT ![p] = step]
    /\ rec' = [rec EXCEPT ![p] = users[u]]
    /\ UNCHANGED <<now, cookie, changes, in, br, saved, ok, out>>

\* u's factor was presented, if what the client sent is right.
Prove(p, u, factor) ==
    proofs' = [proofs EXCEPT ![br[p]] =
                  proofs[br[p]] \cup (IF in[p].good THEN {<<u, factor>>} ELSE {})]

LoginUnderWay(b) ==
    \E p \in Procs : pc[p] # "idle" /\ br[p] = b /\ in[p].op \in LoginOps

(* The browser takes the response, or it is lost on the way. *)
Receive(p) ==
    /\ At(p, "reply")
    /\ pc' = [pc EXCEPT ![p] = "idle"]
    /\ in' = [in EXCEPT ![p] = NoInput]
    /\ ses' = [ses EXCEPT ![p] = NoSession]
    /\ saved' = [saved EXCEPT ![p] = FALSE]
    /\ ok' = [ok EXCEPT ![p] = FALSE]
    /\ \/ /\ cookie' = [cookie EXCEPT ![br[p]] = IF saved[p] THEN ses[p]
                                                 ELSE cookie[br[p]]]
          /\ out' = [out EXCEPT ![br[p]] =
                        \/ out[br[p]]
                        \/ in[p].op = "logout" /\ ~LoginUnderWay(br[p])]
       \/ UNCHANGED <<cookie, out>>
    /\ UNCHANGED <<now, changes, faults, dbVars, br, rec, proofs, verifs>>
-----------------------------------------------------------------------------
(* Login: ValidateAndFill, then IsTwoFAEnabled. *)
Login(p) ==
    LET u == in[p].user IN
    /\ Is(p, "login")
    /\ \/ /\ in[p].good /\ Enabled(u)
          /\ Prove(p, u, "password")
          /\ Continue(p, "login", u)
          /\ UNCHANGED ses
       \/ /\ ~(in[p].good /\ Enabled(u))
          /\ Refuse(p)
          /\ UNCHANGED proofs
    /\ UNCHANGED <<faults, dbVars, verifs>>

LoginDecide(p) ==
    LET u == in[p].user IN
    /\ At(p, "login")
    /\ IF IsTwoFAEnabled(u)
       THEN Answer(p, [ses[p] EXCEPT !.pending = u], TRUE, TRUE)
       ELSE Answer(p, SetupLogin(ses[p], u, rec[p]), TRUE, TRUE)
    /\ IF users[u].twofa THEN UNCHANGED proofs ELSE Prove(p, u, "no2fa")
    /\ UNCHANGED <<faults, dbVars, verifs>>

\* IsTwoFAEnabled takes a database error for "not enabled".
LoginDecideOnError(p) ==
    /\ At(p, "login")
    /\ faults < MaxFaults
    /\ faults' = faults + 1
    /\ Answer(p, SetupLogin(ses[p], in[p].user, rec[p]), TRUE, TRUE)
    /\ UNCHANGED <<dbVars, proofs, verifs>>

(* Verify2FALogin: the pending user's row, then the 2FA row and the code.  It
   does not look at the status. *)
Verify2FALogin(p) ==
    LET u == ses[p].pending IN
    /\ Is(p, "login2fa")
    /\ IF u # None /\ ~users[u].deleted
       THEN Continue(p, "login2fa", u) /\ UNCHANGED ses
       ELSE Refuse(p)
    /\ UNCHANGED <<faults, dbVars, proofs, verifs>>

Verify2FALoginDecide(p) ==
    LET u == ses[p].pending IN
    /\ At(p, "login2fa")
    /\ \/ /\ users[u].twofa /\ in[p].good
          /\ Prove(p, u, "code")
          /\ Answer(p, SetupLogin([ses[p] EXCEPT !.pending = None], u, rec[p]),
                    TRUE, TRUE)
       \/ /\ ~(users[u].twofa /\ in[p].good)
          /\ Refuse(p)
          /\ UNCHANGED proofs
    /\ UNCHANGED <<faults, dbVars, verifs>>

Logout(p) ==
    /\ Is(p, "logout")
    /\ Answer(p, Cleared(ses[p]), TRUE, TRUE)
    /\ UNCHANGED <<faults, dbVars, proofs, verifs>>

\* A request to a route behind AdminAuth, for instance GetAllUsers.
AdminRequest(p) ==
    /\ Is(p, "admin")
    /\ Answer(p, ses[p], FALSE, AuthHelper(ses[p], RoleAdminUser))
    /\ UNCHANGED <<faults, dbVars, proofs, verifs>>
-----------------------------------------------------------------------------
(* UniversalVerify.  With method "passkey" the handler checks only that the
   user has a credential. *)
VerifyAccepts(p) ==
    LET u == ses[p].id IN
    /\ AuthHelper(ses[p], RoleCommonUser)
    /\ Enabled(u)
    /\ IF in[p].op = "verify2fa" THEN users[u].twofa /\ in[p].good
                                 ELSE users[u].passkey

UniversalVerify(p) ==
    LET u == ses[p].id IN
    /\ Is(p, "verify2fa") \/ Is(p, "verifyPasskey")
    /\ \/ /\ VerifyAccepts(p)
          /\ IF in[p].op = "verify2fa" THEN Prove(p, u, "code")
                                       ELSE UNCHANGED proofs
          /\ verifs' = [verifs EXCEPT ![br[p]] = verifs[br[p]] \cup {<<u, now>>}]
          /\ Answer(p, [ses[p] EXCEPT !.verified = now], TRUE, TRUE)
       \/ /\ ~VerifyAccepts(p)
          /\ Refuse(p)
          /\ UNCHANGED <<proofs, verifs>>
    /\ UNCHANGED <<faults, dbVars>>

\* An expired timestamp is deleted from the session.
GetVerificationStatus(p) ==
    LET s == ses[p] IN
    /\ Is(p, "status")
    /\ IF AuthHelper(s, RoleCommonUser) /\ s.verified # 0 /\ ~Verified(s)
       THEN Answer(p, [s EXCEPT !.verified = 0], TRUE, FALSE)
       ELSE Answer(p, s, FALSE, AuthHelper(s, RoleCommonUser) /\ Verified(s))
    /\ UNCHANGED <<faults, dbVars, proofs, verifs>>
-----------------------------------------------------------------------------
(* Passkeys.  The WebAuthn session data is kept in the cookie too;
   PopSessionData saves the session without it, whatever happens next. *)
PasskeyLoginBegin(p) ==
    /\ Is(p, "passkeyLoginBegin")
    /\ Answer(p, [ses[p] EXCEPT !.loginCh = TRUE], TRUE, TRUE)
    /\ UNCHANGED <<faults, dbVars, proofs, verifs>>

\* FinishPasskeyLogin, with the handler that looks the credential's user up
PasskeyLoginAccepts(p, u) == in[p].good /\ users[u].passkey /\ Enabled(u)

PasskeyLoginFinish(p) ==
    LET u == in[p].user
        popped == [ses[p] EXCEPT !.loginCh = FALSE]
        accepted == PasskeyLoginAccepts(p, u)
    IN
    /\ Is(p, "passkeyLoginFinish")
    /\ \/ /\ ~ses[p].loginCh
          /\ Refuse(p)
          /\ UNCHANGED proofs
       \/ /\ ses[p].loginCh /\ ~accepted
          /\ Answer(p, popped, TRUE, FALSE)
          /\ UNCHANGED proofs
       \/ /\ ses[p].loginCh /\ accepted
          /\ Prove(p, u, "passkey")
          /\ Continue(p, "passkeyLogin", u)
          /\ ses' = [ses EXCEPT ![p] = popped]
    /\ UNCHANGED <<faults, dbVars, verifs>>

\* getSessionUser, behind UserAuth
SessionUser(s) == AuthHelper(s, RoleCommonUser) /\ Enabled(s.id)

PasskeyVerifyBegin(p) ==
    LET s == ses[p] IN
    /\ Is(p, "passkeyVerifyBegin")
    /\ IF SessionUser(s) /\ users[s.id].passkey
       THEN Answer(p, [s EXCEPT !.verifyCh = s.id], TRUE, TRUE)
       ELSE Refuse(p)
    /\ UNCHANGED <<faults, dbVars, proofs, verifs>>

PasskeyVerifyFinish(p) ==
    LET s == ses[p]
        popped == [s EXCEPT !.verifyCh = None]
        begun == SessionUser(s) /\ users[s.id].passkey /\ s.verifyCh # None
        accepted == in[p].good /\ s.verifyCh = s.id
    IN
    /\ Is(p, "passkeyVerifyFinish")
    /\ \/ /\ ~begun
          /\ Refuse(p)
          /\ UNCHANGED proofs
       \/ /\ begun /\ ~accepted
          /\ Answer(p, popped, TRUE, FALSE)
          /\ UNCHANGED proofs
       \/ /\ begun /\ accepted
          /\ Prove(p, s.id, "passkey")
          /\ Continue(p, "passkeyVerify", s.id)
          /\ ses' = [ses EXCEPT ![p] = popped]
    /\ UNCHANGED <<faults, dbVars, verifs>>

(* UpsertPasskeyCredential writes the credential row the handler read, which
   another request may have deleted since.  On an error neither handler gets
   further, but the session without the challenge has been saved. *)
PasskeyUpsert(p) ==
    LET u == IF At(p, "passkeyLogin") THEN in[p].user ELSE ses[p].id IN
    /\ At(p, "passkeyLogin") \/ At(p, "passkeyVerify")
    /\ users' = [users EXCEPT ![u].passkey = TRUE]
    /\ Answer(p, IF At(p, "passkeyLogin") THEN SetupLogin(ses[p], u, rec[p])
                                          ELSE ses[p], TRUE, TRUE)
    /\ UNCHANGED <<faults, held, proofs, verifs>>

PasskeyUpsertError(p) ==
    /\ At(p, "passkeyLogin") \/ At(p, "passkeyVerify")
    /\ faults < MaxFaults
    /\ faults' = faults + 1
    /\ Answer(p, ses[p], TRUE, FALSE)
    /\ UNCHANGED <<dbVars, proofs, verifs>>
-----------------------------------------------------------------------------
(* Other requests change users: ManageUser by an administrator of role me,
   and the 2FA and passkey handlers of the user's other sessions. *)
Managed(r, action) ==
    CASE action = "disable" -> [r EXCEPT !.status = UserStatusDisabled]
      [] action = "enable"  -> [r EXCEPT !.status = UserStatusEnabled]
      [] action = "delete"  -> [r EXCEPT !.deleted = TRUE]
      [] action = "promote" -> [r EXCEPT !.role = RoleAdminUser]
      [] action = "demote"  -> [r EXCEPT !.role = RoleCommonUser]

MayManage(r, me, action) ==
    /\ me > r.role \/ me = RoleRootUser
    /\ action \in {"disable", "delete", "demote"} => r.role # RoleRootUser
    /\ action = "promote" => me = RoleRootUser /\ r.role < RoleAdminUser
    /\ action = "demote" => r.role # RoleCommonUser

ChangeUser(u, r) ==
    /\ changes < MaxChanges
    /\ changes' = changes + 1
    /\ users' = [users EXCEPT ![u] = r]
    /\ held' = [held EXCEPT ![u] = held[u] \cup {<<r.status, r.role>>}]
    /\ UNCHANGED <<now, cookie, faults, reqVars, histVars>>

\* Update does not write the row of a user who is deleted already.
ManageUser(u, me, action) ==
    /\ ~users[u].deleted
    /\ MayManage(users[u], me, action)
    /\ ChangeUser(u, Managed(users[u], action))

Toggle2FA(u) == ChangeUser(u, [users[u] EXCEPT !.twofa = ~users[u].twofa])

TogglePasskey(u) == ChangeUser(u, [users[u] EXCEPT !.passkey = ~users[u].passkey])

Tick ==
    /\ now < MaxTime
    /\ now' = now + 1
    /\ UNCHANGED <<cookie, changes, faults, dbVars, reqVars, histVars>>

Handle(p) ==
    \/ Login(p) \/ LoginDecide(p) \/ LoginDecideOnError(p)
    \/ Verify2FALogin(p) \/ Verify2FALoginDecide(p)
    \/ Logout(p) \/ AdminRequest(p)
    \/ UniversalVerify(p) \/ GetVerificationStatus(p)
    \/ PasskeyLoginBegin(p) \/ PasskeyLoginFinish(p)
    \/ PasskeyVerifyBegin(p) \/ PasskeyVerifyFinish(p)
    \/ PasskeyUpsert(p) \/ PasskeyUpsertError(p)

Next ==
    \/ \E p \in Procs, b \in Browsers, i \in Inputs :
          i.op \in Ops /\ Send(p, b, i)
    \/ \E p \in Procs : Handle(p) \/ Receive(p)
    \/ \E u \in Users, me \in {RoleAdminUser, RoleRootUser},
          a \in {"disable", "enable", "delete", "promote", "demote"} :
          ManageUser(u, me, a)
    \/ \E u \in Users : Toggle2FA(u) \/ TogglePasskey(u)
    \/ Tick

Spec == Init /\ [][Next]_vars
-----------------------------------------------------------------------------
\* Types of the whole state.
TypeOK ==
    /\ now \in 1..MaxTime
    /\ changes \in 0..MaxChanges
    /\ faults \in 0..MaxFaults
    /\ users \in [Users -> Row]
    /\ held \in [Users -> SUBSET ({1, 2} \X {1, 10, 100})]
    /\ cookie \in [Browsers -> Sessions]
    /\ pc \in [Procs -> Steps]
    /\ in \in [Procs -> Inputs]
    /\ br \in [Procs -> Browsers]
    /\ ses \in [Procs -> Sessions]
    /\ rec \in [Procs -> Row]
    /\ saved \in [Procs -> BOOLEAN]
    /\ ok \in [Procs -> BOOLEAN]
    /\ proofs \in [Browsers -> SUBSET (Users \X {"password", "code", "passkey", "no2fa"})]
    /\ verifs \in [Browsers -> SUBSET (Users \X (1..MaxTime))]
    /\ out \in [Browsers -> BOOLEAN]

\* What a login of u takes, given the facts a browser has proved: a passkey,
\* or the password and, unless Login found 2FA off, a code.
Entitled(facts, u) ==
    \/ <<u, "passkey">> \in facts
    \/ /\ <<u, "password">> \in facts
       /\ <<u, "code">> \in facts \/ <<u, "no2fa">> \in facts

SessionOK(facts, s) ==
    /\ s.id # None => Entitled(facts, s.id)
    /\ s.pending # None => <<s.pending, "password">> \in facts

\* However responses are reordered or lost, a browser holds a session of u
\* only if it presented u's passkey, or u's password and, when the 2FA row
\* was enabled, a code; and a pending login only after u's password.
SessionProven == \A b \in Browsers : SessionOK(proofs[b], cookie[b])

AuthorityOK(h, s) == s.id # None => <<s.status, s.role>> \in h[s.id]

\* The role and status a session carries are a pair its user really had, at
\* one time: keys of two users, or of two states of a user, never mix
\* (setupLogin overwrites a session in place, from a copy of the row).
AuthorityWasHeld == \A b \in Browsers : AuthorityOK(held, cookie[b])

\* GetVerificationStatus answers "verified" only if this browser passed
\* UniversalVerify less than SecureVerificationTimeout ago, whatever cookies
\* overwrote each other since.
VerifiedIsFresh ==
    [][\A p \in Procs : pc[p] = "sent" /\ in[p].op = "status" /\ pc'[p] = "reply"
                        /\ ok'[p]
          => \E v \in verifs[br[p]] : now - v[2] < Timeout]_vars

\* docs/AUTH.md: "Session cleared on logout": once the browser has the answer
\* to Logout it holds no login until it sends another one.
LogoutIsFinal == \A b \in Browsers : out[b] => cookie[b].id = None

(* The inductive invariants of Session_proofs: what a request knows at the
   steps between two statements, for the sessions in flight as well. *)
Shape(p) ==
    /\ pc[p] \in {"login", "passkeyLogin"} => in[p].good /\ in[p].user \in Users
    /\ pc[p] = "login2fa" => ses[p].pending \in Users
    /\ pc[p] = "passkeyVerify" => ses[p].id \in Users

ProvenRequest(p) ==
    /\ SessionOK(proofs[br[p]], ses[p])
    /\ pc[p] = "login" => <<in[p].user, "password">> \in proofs[br[p]]
    /\ pc[p] = "passkeyLogin" => <<in[p].user, "passkey">> \in proofs[br[p]]

AuthorityRequest(p) ==
    /\ AuthorityOK(held, ses[p])
    /\ pc[p] \in {"login", "passkeyLogin"}
          => <<rec[p].status, rec[p].role>> \in held[in[p].user]
    /\ pc[p] = "login2fa"
          => <<rec[p].status, rec[p].role>> \in held[ses[p].pending]

TypeInv == TypeOK /\ \A p \in Procs : Shape(p)

ProvenInv == SessionProven /\ \A p \in Procs : ProvenRequest(p)

AuthorityInv ==
    /\ AuthorityWasHeld
    /\ \A u \in Users : <<users[u].status, users[u].role>> \in held[u]
    /\ \A p \in Procs : AuthorityRequest(p)

\* Which handler a request is in at a step, and what a logout answers.
HandlerOK(p) ==
    /\ pc[p] = "login" => in[p].op = "login"
    /\ pc[p] = "login2fa" => in[p].op = "login2fa"
    /\ pc[p] = "passkeyLogin" => in[p].op = "passkeyLoginFinish"
    /\ pc[p] = "passkeyVerify" => in[p].op = "passkeyVerifyFinish"
    /\ pc[p] = "reply" /\ in[p].op = "logout" => saved[p] /\ ses[p].id = None

\* The verification time of session s is one the browser was verified at.
Stamped(passed, s) == s.verified # 0 => \E v \in passed : v[2] = s.verified

VerifiedInv ==
    /\ \A b \in Browsers : Stamped(verifs[b], cookie[b])
    /\ \A p \in Procs : Stamped(verifs[br[p]], ses[p])

\* A browser that is logged out has no login in a request under way either.
LoggedOut(p) ==
    pc[p] # "idle" /\ out[br[p]] => in[p].op \notin LoginOps /\ ses[p].id = None

LogoutInv == LogoutIsFinal /\ \A p \in Procs : HandlerOK(p) /\ LoggedOut(p)

\* Every browser waits for an answer before it sends its next request.
OneAtATime ==
    \A p, q \in Procs : p # q /\ pc[p] # "idle" /\ pc[q] # "idle" => br[p] # br[q]
=============================================================================
