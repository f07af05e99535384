--------------------------- MODULE Session_proofs ---------------------------
(***************************************************************************)
(* Proofs of the invariants of Session, for any users, browsers, requests  *)
(* in flight and bounds.  Every step of a handler either answers (Answer)  *)
(* or goes on with a copy of a row (Continue); one lemma for each says     *)
(* what has to be shown of the session and the copy, and every action is   *)
(* an application of the two.                                              *)
(***************************************************************************)
EXTENDS Session, TLAPS

Facts == Users \X {"password", "code", "passkey", "no2fa"}

\* What an input tells about its parts.
LEMMA InputFacts ==
    ASSUME NEW i \in Inputs
    PROVE  /\ i.user \in Users \cup {None}
           /\ i.good \in BOOLEAN
           /\ i.op \in {"login", "passkeyLoginFinish"} => i.user \in Users
BY DEF Inputs

LEMMA InitialValues == /\ NoSession \in Sessions
                       /\ NoInput \in Inputs
                       /\ NoRec \in Row
BY DEF NoSession, Sessions, NoInput, Inputs, NoRec, Row, UserStatusEnabled,
       UserStatusDisabled, RoleCommonUser, RoleAdminUser, RoleRootUser

\* setupLogin sets its keys and leaves pending alone.
LEMMA SetupLoginFacts ==
    ASSUME NEW s \in Sessions, NEW u \in Users, NEW r \in Row
    PROVE  /\ SetupLogin(s, u, r) \in Sessions
           /\ SetupLogin(s, u, r).id = u
           /\ SetupLogin(s, u, r).pending = s.pending
           /\ SetupLogin(s, u, r).status = r.status
           /\ SetupLogin(s, u, r).role = r.role
<1>1. r.status \in Nat /\ r.role \in Nat
  BY DEF Row, UserStatusEnabled, UserStatusDisabled, RoleCommonUser,
         RoleAdminUser, RoleRootUser
<1> QED
  BY <1>1 DEF SetupLogin, Sessions

\* Changes of one key.
LEMMA EditFacts ==
    ASSUME NEW s \in Sessions, NEW u \in Users \cup {None}, NEW t \in Nat,
           NEW c \in BOOLEAN
    PROVE  /\ [s EXCEPT !.pending = u] \in Sessions
           /\ [s EXCEPT !.verified = t] \in Sessions
           /\ [s EXCEPT !.loginCh = c] \in Sessions
           /\ [s EXCEPT !.verifyCh = u] \in Sessions
BY DEF Sessions

\* SessionOK and AuthorityOK look at few keys only.
LEMMA EditKeeps ==
    ASSUME NEW s \in Sessions, NEW u, NEW t, NEW c, NEW f, NEW h
    PROVE  /\ SessionOK(f, s) => /\ SessionOK(f, [s EXCEPT !.verified = t])
                                 /\ SessionOK(f, [s EXCEPT !.loginCh = c])
                                 /\ SessionOK(f, [s EXCEPT !.verifyCh = u])
                                 /\ u = None => SessionOK(f, [s EXCEPT !.pending = u])
                                 /\ <<u, "password">> \in f
                                       => SessionOK(f, [s EXCEPT !.pending = u])
           /\ AuthorityOK(h, s) => /\ AuthorityOK(h, [s EXCEPT !.verified = t])
                                   /\ AuthorityOK(h, [s EXCEPT !.loginCh = c])
                                   /\ AuthorityOK(h, [s EXCEPT !.verifyCh = u])
                                   /\ AuthorityOK(h, [s EXCEPT !.pending = u])
BY DEF Sessions, SessionOK, AuthorityOK, Entitled

LEMMA SessionMono ==
    ASSUME NEW f, NEW g, NEW s, SessionOK(f, s), f \subseteq g
    PROVE  SessionOK(g, s)
BY DEF SessionOK, Entitled

LEMMA NothingOK == \A f, h : SessionOK(f, NoSession) /\ AuthorityOK(h, NoSession)
BY DEF SessionOK, AuthorityOK, NoSession

\* A session that setupLogin leaves behind is as good as its login.
LEMMA SetupLoginOK ==
    ASSUME NEW s \in Sessions, NEW u \in Users, NEW r \in Row, NEW f, NEW h
    PROVE  /\ SessionOK(f, s) /\ Entitled(f, u) => SessionOK(f, SetupLogin(s, u, r))
           /\ <<r.status, r.role>> \in h[u] => AuthorityOK(h, SetupLogin(s, u, r))
BY SetupLoginFacts DEF SessionOK, AuthorityOK

-----------------------------------------------------------------------------
\* The types that Answer and Continue leave to the action.
OtherTypes ==
    /\ faults' \in 0..MaxFaults
    /\ users' \in [Users -> Row]
    /\ held' \in [Users -> SUBSET ({1, 2} \X {1, 10, 100})]
    /\ proofs' \in [Browsers -> SUBSET Facts]
    /\ verifs' \in [Browsers -> SUBSET (Users \X (1..MaxTime))]

LEMMA AnswerType ==
    ASSUME TypeInv, NEW p \in Procs, NEW s \in Sessions, NEW set \in BOOLEAN,
           NEW a \in BOOLEAN, Answer(p, s, set, a), OtherTypes
    PROVE  TypeInv'
<1>1. /\ pc' \in [Procs -> Steps] /\ saved' \in [Procs -> BOOLEAN]
      /\ ok' \in [Procs -> BOOLEAN]
  BY DEF TypeInv, TypeOK, Answer, Steps
<1>2. ses' \in [Procs -> Sessions]
  BY InitialValues DEF TypeInv, TypeOK, Answer
<1>3. rec' \in [Procs -> Row]
  BY InitialValues DEF TypeInv, TypeOK, Answer
<1>4. TypeOK'
  BY <1>1, <1>2, <1>3 DEF TypeInv, TypeOK, Answer, OtherTypes, Facts
<1>5. ASSUME NEW q \in Procs PROVE Shape(q)'
  <2>1. CASE q = p
    <3>1. pc'[q] = "reply"
      BY <2>1 DEF TypeInv, TypeOK, Answer
    <3>2. QED
      BY <3>1 DEF Shape
  <2>2. CASE q # p
    <3>1. pc'[q] = pc[q] /\ ses'[q] = ses[q] /\ in'[q] = in[q]
      BY <2>2 DEF TypeInv, TypeOK, Answer
    <3>2. QED
      BY <3>1 DEF TypeInv, Shape
  <2>3. QED
    BY <2>1, <2>2
<1>6. QED
  BY <1>4, <1>5 DEF TypeInv

LEMMA ContinueType ==
    ASSUME TypeInv, NEW p \in Procs, NEW step \in Steps, NEW u \in Users,
           NEW s \in Sessions, Continue(p, step, u), OtherTypes,
           ses' = [ses EXCEPT ![p] = s],
           step \in {"login", "passkeyLogin"} => in[p].good /\ in[p].user \in Users,
           step = "login2fa" => s.pending \in Users,
           step = "passkeyVerify" => s.id \in Users
    PROVE  TypeInv'
<1>1. pc' \in [Procs -> Steps] /\ ses' \in [Procs -> Sessions]
  BY DEF TypeInv, TypeOK, Continue
<1>2. rec' \in [Procs -> Row]
  BY DEF TypeInv, TypeOK, Continue
<1>3. TypeOK'
  BY <1>1, <1>2 DEF TypeInv, TypeOK, Continue, OtherTypes, Facts
<1>4. ASSUME NEW q \in Procs PROVE Shape(q)'
  <2>1. CASE q = p
    <3>1. pc'[q] = step /\ ses'[q] = s /\ in'[q] = in[p]
      BY <2>1 DEF TypeInv, TypeOK, Continue
    <3>2. QED
      BY <3>1 DEF Shape
  <2>2. CASE q # p
    <3>1. pc'[q] = pc[q] /\ ses'[q] = ses[q] /\ in'[q] = in[q]
      BY <2>2 DEF TypeInv, TypeOK, Continue
    <3>2. QED
      BY <3>1 DEF TypeInv, Shape
  <2>3. QED
    BY <2>1, <2>2
<1>5. QED
  BY <1>3, <1>4 DEF TypeInv

-----------------------------------------------------------------------------
\* What browsers have proved never shrinks.
Grows == \A b \in Browsers : proofs[b] \subseteq proofs'[b]

LEMMA AnswerProven ==
    ASSUME TypeInv, ProvenInv, NEW p \in Procs, NEW s \in Sessions,
           NEW set \in BOOLEAN, NEW a \in BOOLEAN, Answer(p, s, set, a), Grows,
           set => SessionOK(proofs'[br[p]], s)
    PROVE  ProvenInv'
<1>1. cookie' = cookie /\ br' = br /\ in' = in
  BY DEF Answer
<1>2. ASSUME NEW b \in Browsers PROVE SessionOK(proofs'[b], cookie'[b])
  <2>1. SessionOK(proofs[b], cookie[b]) /\ proofs[b] \subseteq proofs'[b]
    BY DEF ProvenInv, SessionProven, Grows
  <2>2. QED
    BY <1>1, <2>1, SessionMono
<1>3. ASSUME NEW q \in Procs PROVE ProvenRequest(q)'
  <2>0. br[q] \in Browsers
    BY DEF TypeInv, TypeOK
  <2>1. CASE q = p
    <3>1. pc'[q] = "reply" /\ ses'[q] = IF set THEN s ELSE NoSession
      BY <2>1 DEF TypeInv, TypeOK, Answer
    <3>2. SessionOK(proofs'[br[p]], ses'[q])
      BY <3>1, NothingOK
    <3>3. QED
      BY <1>1, <2>1, <3>1, <3>2 DEF ProvenRequest
  <2>2. CASE q # p
    <3>1. pc'[q] = pc[q] /\ ses'[q] = ses[q]
      BY <2>2 DEF TypeInv, TypeOK, Answer
    <3>2. SessionOK(proofs[br[q]], ses[q]) /\ proofs[br[q]] \subseteq proofs'[br[q]]
      BY <2>0 DEF ProvenInv, ProvenRequest, Grows
    <3>3. SessionOK(proofs'[br[q]], ses[q])
      BY <3>2, SessionMono
    <3>4. QED
      BY <1>1, <3>1, <3>2, <3>3 DEF ProvenInv, ProvenRequest
  <2>3. QED
    BY <2>1, <2>2
<1>4. QED
  BY <1>2, <1>3 DEF ProvenInv, SessionProven

LEMMA ContinueProven ==
    ASSUME TypeInv, ProvenInv, NEW p \in Procs, NEW step \in Steps,
           NEW u \in Users, NEW s \in Sessions, Continue(p, step, u), Grows,
           ses' = [ses EXCEPT ![p] = s],
           SessionOK(proofs[br[p]], s),
           step = "login" => <<in[p].user, "password">> \in proofs'[br[p]],
           step = "passkeyLogin" => <<in[p].user, "passkey">> \in proofs'[br[p]]
    PROVE  ProvenInv'
<1>1. cookie' = cookie /\ br' = br /\ in' = in
  BY DEF Continue
<1>2. ASSUME NEW b \in Browsers PROVE SessionOK(proofs'[b], cookie'[b])
  <2>1. SessionOK(proofs[b], cookie[b]) /\ proofs[b] \subseteq proofs'[b]
    BY DEF ProvenInv, SessionProven, Grows
  <2>2. QED
    BY <1>1, <2>1, SessionMono
<1>3. ASSUME NEW q \in Procs PROVE ProvenRequest(q)'
  <2>0. br[q] \in Browsers
    BY DEF TypeInv, TypeOK
  <2>1. CASE q = p
    <3>1. pc'[q] = step /\ ses'[q] = s
      BY <2>1 DEF TypeInv, TypeOK, Continue
    <3>2. proofs[br[p]] \subseteq proofs'[br[p]]
      BY <2>0, <2>1 DEF Grows
    <3>3. SessionOK(proofs'[br[p]], s)
      BY <3>2, SessionMono
    <3>4. QED
      BY <1>1, <2>1, <3>1, <3>3 DEF ProvenRequest
  <2>2. CASE q # p
    <3>1. pc'[q] = pc[q] /\ ses'[q] = ses[q]
      BY <2>2 DEF TypeInv, TypeOK, Continue
    <3>2. SessionOK(proofs[br[q]], ses[q]) /\ proofs[br[q]] \subseteq proofs'[br[q]]
      BY <2>0 DEF ProvenInv, ProvenRequest, Grows
    <3>3. SessionOK(proofs'[br[q]], ses[q])
      BY <3>2, SessionMono
    <3>4. QED
      BY <1>1, <3>1, <3>2, <3>3 DEF ProvenInv, ProvenRequest
  <2>3. QED
    BY <2>1, <2>2
<1>4. QED
  BY <1>2, <1>3 DEF ProvenInv, SessionProven

-----------------------------------------------------------------------------
\* The history holds what the table holds.
RowsHeld == /\ held' = held
            /\ \A u \in Users : <<users'[u].status, users'[u].role>> \in held[u]

LEMMA AnswerAuthority ==
    ASSUME TypeInv, AuthorityInv, NEW p \in Procs, NEW s \in Sessions,
           NEW set \in BOOLEAN, NEW a \in BOOLEAN, Answer(p, s, set, a), RowsHeld,
           set => AuthorityOK(held, s)
    PROVE  AuthorityInv'
<1>1. cookie' = cookie /\ in' = in /\ held' = held
  BY DEF Answer, RowsHeld
<1>2. ASSUME NEW q \in Procs PROVE AuthorityRequest(q)'
  <2>1. CASE q = p
    <3>1. pc'[q] = "reply" /\ ses'[q] = IF set THEN s ELSE NoSession
      BY <2>1 DEF TypeInv, TypeOK, Answer
    <3>2. AuthorityOK(held, ses'[q])
      BY <3>1, NothingOK
    <3>3. QED
      BY <1>1, <3>1, <3>2 DEF AuthorityRequest
  <2>2. CASE q # p
    <3>1. pc'[q] = pc[q] /\ ses'[q] = ses[q] /\ rec'[q] = rec[q]
      BY <2>2 DEF TypeInv, TypeOK, Answer
    <3>2. QED
      BY <1>1, <3>1 DEF AuthorityInv, AuthorityRequest
  <2>3. QED
    BY <2>1, <2>2
<1>3. QED
  BY <1>1, <1>2 DEF AuthorityInv, AuthorityWasHeld, RowsHeld

LEMMA ContinueAuthority ==
    ASSUME TypeInv, AuthorityInv, NEW p \in Procs, NEW step \in Steps,
           NEW u \in Users, NEW s \in Sessions, Continue(p, step, u),
           users' = users, held' = held, ses' = [ses EXCEPT ![p] = s],
           AuthorityOK(held, s),
           step \in {"login", "passkeyLogin"} => in[p].user = u,
           step = "login2fa" => s.pending = u
    PROVE  AuthorityInv'
<1>1. cookie' = cookie /\ in' = in
  BY DEF Continue
<1>2. ASSUME NEW q \in Procs PROVE AuthorityRequest(q)'
  <2>1. CASE q = p
    <3>1. pc'[q] = step /\ ses'[q] = s /\ rec'[q] = users[u]
      BY <2>1 DEF TypeInv, TypeOK, Continue
    <3>2. <<users[u].status, users[u].role>> \in held[u]
      BY DEF AuthorityInv
    <3>3. QED
      BY <1>1, <2>1, <3>1, <3>2 DEF AuthorityRequest
  <2>2. CASE q # p
    <3>1. pc'[q] = pc[q] /\ ses'[q] = ses[q] /\ rec'[q] = rec[q]
      BY <2>2 DEF TypeInv, TypeOK, Continue
    <3>2. QED
      BY <1>1, <3>1 DEF AuthorityInv, AuthorityRequest
  <2>3. QED
    BY <2>1, <2>2
<1>3. QED
  BY <1>1, <1>2 DEF AuthorityInv, AuthorityWasHeld

-----------------------------------------------------------------------------
(* The actions.  ProvenInv is kept as long as IsTwoFAEnabled is never asked
   in vain (no database errors); the other two always. *)
Kept == /\ TypeInv'
        /\ AuthorityInv'
        /\ ProvenInv /\ MaxFaults = 0 => ProvenInv'

\* What a request's parts are.
LEMMA RequestFacts ==
    ASSUME TypeInv, NEW p \in Procs
    PROVE  /\ in[p] \in Inputs /\ br[p] \in Browsers /\ ses[p] \in Sessions
           /\ rec[p] \in Row /\ in[p].good \in BOOLEAN
           /\ in[p].user \in Users \cup {None}
           /\ in[p].op \in {"login", "passkeyLoginFinish"} => in[p].user \in Users
<1>1. /\ in[p] \in Inputs /\ br[p] \in Browsers /\ ses[p] \in Sessions
      /\ rec[p] \in Row
  BY DEF TypeInv, TypeOK
<1>2. QED
  BY <1>1, InputFacts

\* A proof adds a fact of the browser and keeps the others.
LEMMA ProveFacts ==
    ASSUME TypeInv, NEW p \in Procs, NEW u \in Users,
           NEW factor \in {"password", "code", "passkey", "no2fa"},
           Prove(p, u, factor)
    PROVE  /\ proofs' \in [Browsers -> SUBSET Facts]
           /\ Grows
           /\ in[p].good => <<u, factor>> \in proofs'[br[p]]
<1>1. br[p] \in Browsers /\ in[p].good \in BOOLEAN
  BY RequestFacts
<1>2. proofs \in [Browsers -> SUBSET Facts]
  BY DEF TypeInv, TypeOK, Facts
<1>3. <<u, factor>> \in Facts
  BY DEF Facts
<1> DEFINE new == IF in[p].good THEN {<<u, factor>>} ELSE {}
<1>4. new \in SUBSET Facts
  BY <1>3
<1>5. proofs' = [proofs EXCEPT ![br[p]] = proofs[br[p]] \cup new]
  BY DEF Prove
<1>6. in[p].good => <<u, factor>> \in new
  OBVIOUS
<1> HIDE DEF new
<1>7. proofs' \in [Browsers -> SUBSET Facts]
  BY <1>1, <1>2, <1>4, <1>5
<1>8. Grows
  BY <1>1, <1>2, <1>5 DEF Grows
<1>9. QED
  BY <1>1, <1>2, <1>5, <1>6, <1>7, <1>8

\* The rest of the state when an action leaves it alone.
LEMMA UnchangedTypes ==
    ASSUME TypeInv
    PROVE  /\ UNCHANGED faults => faults' \in 0..MaxFaults
           /\ UNCHANGED dbVars => /\ users' \in [Users -> Row]
                                  /\ held' \in [Users -> SUBSET ({1, 2} \X {1, 10, 100})]
           /\ UNCHANGED proofs => proofs' \in [Browsers -> SUBSET Facts] /\ Grows
           /\ UNCHANGED verifs => verifs' \in [Browsers -> SUBSET (Users \X (1..MaxTime))]
BY DEF TypeInv, TypeOK, dbVars, Facts, Grows

\* An answer that changes nothing but the session.
LEMMA PlainAnswer ==
    ASSUME TypeInv, AuthorityInv, NEW p \in Procs, NEW s \in Sessions,
           NEW set \in BOOLEAN, NEW a \in BOOLEAN, Answer(p, s, set, a),
           UNCHANGED <<faults, dbVars, proofs, verifs>>,
           set => AuthorityOK(held, s),
           set /\ ProvenInv => SessionOK(proofs[br[p]], s)
    PROVE  Kept
<1>1. OtherTypes /\ Grows
  BY UnchangedTypes DEF OtherTypes
<1>2. TypeInv'
  BY <1>1, AnswerType
<1>3. RowsHeld
  BY DEF AuthorityInv, RowsHeld, dbVars
<1>4. AuthorityInv'
  BY <1>3, AnswerAuthority
<1>5. ProvenInv => ProvenInv'
  <2>1. ASSUME ProvenInv PROVE set => SessionOK(proofs'[br[p]], s)
    BY <2>1
  <2>2. QED
    BY <1>1, <2>1, AnswerProven
<1>6. QED
  BY <1>2, <1>4, <1>5 DEF Kept

LEMMA PlainRefuse ==
    ASSUME TypeInv, AuthorityInv, NEW p \in Procs, Refuse(p),
           UNCHANGED <<faults, dbVars, proofs, verifs>>
    PROVE  Kept
BY PlainAnswer, RequestFacts DEF Refuse

\* The invariants, read for one request.
LEMMA InFlight ==
    ASSUME TypeInv, AuthorityInv, NEW p \in Procs
    PROVE  /\ AuthorityOK(held, ses[p])
           /\ ProvenInv => SessionOK(proofs[br[p]], ses[p])
BY DEF AuthorityInv, AuthorityRequest, ProvenInv, ProvenRequest

LEMMA LoginKeeps ==
    ASSUME TypeInv, AuthorityInv, NEW p \in Procs, Login(p)
    PROVE  Kept
<1> DEFINE u == in[p].user
<1>1. u \in Users /\ in[p].good \in BOOLEAN /\ ses[p] \in Sessions /\ br[p] \in Browsers
  BY RequestFacts DEF Login, Is
<1>2. CASE in[p].good /\ Enabled(u)
  <2>1. Prove(p, u, "password") /\ Continue(p, "login", u) /\ UNCHANGED ses
    BY <1>2 DEF Login
  <2>2. OtherTypes /\ Grows /\ <<u, "password">> \in proofs'[br[p]]
    BY <1>1, <1>2, <2>1, ProveFacts, UnchangedTypes DEF Login, OtherTypes
  <2>3. ses' = [ses EXCEPT ![p] = ses[p]] /\ "login" \in Steps
    BY <2>1 DEF TypeInv, TypeOK, Steps
  <2>4. TypeInv'
    BY <1>1, <1>2, <2>1, <2>2, <2>3, ContinueType
  <2>5. AuthorityInv'
    BY <1>1, <2>1, <2>3, InFlight, ContinueAuthority DEF Login, dbVars
  <2>6. ProvenInv => ProvenInv'
    BY <1>1, <2>1, <2>2, <2>3, InFlight, ContinueProven
  <2>7. QED
    BY <2>4, <2>5, <2>6 DEF Kept
<1>3. CASE ~(in[p].good /\ Enabled(u))
  BY <1>3, PlainRefuse DEF Login
<1>4. QED
  BY <1>2, <1>3

LEMMA LoginDecideKeeps ==
    ASSUME TypeInv, AuthorityInv, NEW p \in Procs, LoginDecide(p)
    PROVE  Kept
<1> DEFINE u == in[p].user
           f == proofs[br[p]]
<1>1. /\ u \in Users /\ in[p].good /\ ses[p] \in Sessions /\ br[p] \in Browsers
      /\ rec[p] \in Row /\ pc[p] = "login"
  BY RequestFacts DEF LoginDecide, At, TypeInv, Shape
<1>2. /\ <<rec[p].status, rec[p].role>> \in held[u]
      /\ ProvenInv => <<u, "password">> \in f
  BY <1>1 DEF AuthorityInv, AuthorityRequest, ProvenInv, ProvenRequest
<1>3. CASE users[u].twofa
  <2> DEFINE s == [ses[p] EXCEPT !.pending = u]
  <2>1. Answer(p, s, TRUE, TRUE) /\ UNCHANGED <<faults, dbVars, proofs, verifs>>
    BY <1>3 DEF LoginDecide, IsTwoFAEnabled
  <2>2. s \in Sessions
    BY <1>1, EditFacts
  <2>3. AuthorityOK(held, s) /\ (ProvenInv => SessionOK(f, s))
    BY <1>1, <1>2, InFlight, EditKeeps
  <2> HIDE DEF s
  <2>4. QED
    BY <2>1, <2>2, <2>3, PlainAnswer
<1>4. CASE ~users[u].twofa
  <2> DEFINE s == SetupLogin(ses[p], u, rec[p])
  <2>1. Answer(p, s, TRUE, TRUE) /\ Prove(p, u, "no2fa")
    BY <1>4 DEF LoginDecide, IsTwoFAEnabled
  <2>2. OtherTypes /\ Grows /\ <<u, "no2fa">> \in proofs'[br[p]]
    BY <1>1, <2>1, ProveFacts, UnchangedTypes DEF LoginDecide, OtherTypes
  <2>3. s \in Sessions
    BY <1>1, SetupLoginFacts
  <2>4. AuthorityOK(held, s)
    BY <1>1, <1>2, SetupLoginOK
  <2>5. ASSUME ProvenInv PROVE SessionOK(proofs'[br[p]], s)
    <3>1. f \subseteq proofs'[br[p]]
      BY <1>1, <2>2 DEF Grows
    <3>2. SessionOK(proofs'[br[p]], ses[p])
      BY <2>5, <3>1, InFlight, SessionMono
    <3>3. Entitled(proofs'[br[p]], u)
      BY <1>2, <2>2, <2>5, <3>1 DEF Entitled
    <3>4. QED
      BY <1>1, <3>2, <3>3, SetupLoginOK
  <2>6. RowsHeld
    BY DEF LoginDecide, AuthorityInv, RowsHeld, dbVars
  <2> HIDE DEF s
  <2>7. TypeInv' /\ AuthorityInv'
    BY <2>1, <2>2, <2>3, <2>4, <2>6, AnswerType, AnswerAuthority
  <2>8. ProvenInv => ProvenInv'
    BY <2>1, <2>2, <2>3, <2>5, AnswerProven
  <2>9. QED
    BY <2>7, <2>8 DEF Kept
<1>5. QED
  BY <1>3, <1>4

LEMMA LoginDecideOnErrorKeeps ==
    ASSUME TypeInv, AuthorityInv, NEW p \in Procs, LoginDecideOnError(p)
    PROVE  Kept
<1> DEFINE u == in[p].user
           s == SetupLogin(ses[p], u, rec[p])
<1>1. u \in Users /\ ses[p] \in Sessions /\ rec[p] \in Row /\ pc[p] = "login"
  BY RequestFacts DEF LoginDecideOnError, At, TypeInv, Shape
<1>2. Answer(p, s, TRUE, TRUE)
  BY DEF LoginDecideOnError
<1>3. s \in Sessions
  BY <1>1, SetupLoginFacts
<1>4. AuthorityOK(held, s)
  BY <1>1, SetupLoginOK DEF AuthorityInv, AuthorityRequest
<1>5. faults \in 0..MaxFaults /\ MaxFaults \in Nat
  BY SessionAssumption DEF TypeInv, TypeOK
<1>6. faults' \in 0..MaxFaults /\ MaxFaults # 0
  BY <1>5 DEF LoginDecideOnError
<1>7. OtherTypes
  BY <1>6, UnchangedTypes DEF LoginDecideOnError, OtherTypes
<1>8. RowsHeld
  BY DEF LoginDecideOnError, AuthorityInv, RowsHeld, dbVars
<1> HIDE DEF s
<1>9. TypeInv' /\ AuthorityInv'
  BY <1>2, <1>3, <1>4, <1>7, <1>8, AnswerType, AnswerAuthority
<1>10. QED
  BY <1>6, <1>9 DEF Kept

LEMMA Verify2FALoginKeeps ==
    ASSUME TypeInv, AuthorityInv, NEW p \in Procs, Verify2FALogin(p)
    PROVE  Kept
<1> DEFINE u == ses[p].pending
<1>1. ses[p] \in Sessions /\ u \in Users \cup {None}
  BY RequestFacts DEF Sessions
<1>2. CASE u # None /\ ~users[u].deleted
  <2>1. Continue(p, "login2fa", u) /\ UNCHANGED ses /\ u \in Users
    BY <1>1, <1>2 DEF Verify2FALogin
  <2>2. OtherTypes /\ Grows
    BY UnchangedTypes DEF Verify2FALogin, OtherTypes
  <2>3. ses' = [ses EXCEPT ![p] = ses[p]] /\ "login2fa" \in Steps
    BY <2>1 DEF TypeInv, TypeOK, Steps
  <2>4. TypeInv'
    BY <1>1, <2>1, <2>2, <2>3, ContinueType
  <2>5. AuthorityInv'
    BY <1>1, <2>1, <2>3, InFlight, ContinueAuthority DEF Verify2FALogin, dbVars
  <2>6. ProvenInv => ProvenInv'
    BY <1>1, <2>1, <2>2, <2>3, InFlight, ContinueProven
  <2>7. QED
    BY <2>4, <2>5, <2>6 DEF Kept
<1>3. CASE ~(u # None /\ ~users[u].deleted)
  BY <1>3, PlainRefuse DEF Verify2FALogin
<1>4. QED
  BY <1>2, <1>3

LEMMA Verify2FALoginDecideKeeps ==
    ASSUME TypeInv, AuthorityInv, NEW p \in Procs, Verify2FALoginDecide(p)
    PROVE  Kept
<1> DEFINE u == ses[p].pending
           f == proofs[br[p]]
           t == [ses[p] EXCEPT !.pending = None]
           s == SetupLogin(t, u, rec[p])
<1>1. /\ u \in Users /\ ses[p] \in Sessions /\ br[p] \in Browsers
      /\ rec[p] \in Row /\ pc[p] = "login2fa" /\ in[p].good \in BOOLEAN
  BY RequestFacts DEF Verify2FALoginDecide, At, TypeInv, Shape
<1>2. t \in Sessions
  BY <1>1, EditFacts
<1>3. CASE users[u].twofa /\ in[p].good
  <2>1. Answer(p, s, TRUE, TRUE) /\ Prove(p, u, "code")
    BY <1>3 DEF Verify2FALoginDecide
  <2>2. OtherTypes /\ Grows /\ <<u, "code">> \in proofs'[br[p]]
    BY <1>1, <1>3, <2>1, ProveFacts, UnchangedTypes DEF Verify2FALoginDecide, OtherTypes
  <2>3. s \in Sessions
    BY <1>1, <1>2, SetupLoginFacts
  <2>4. AuthorityOK(held, s)
    <3>1. <<rec[p].status, rec[p].role>> \in held[u]
      BY <1>1 DEF AuthorityInv, AuthorityRequest
    <3>2. QED
      BY <1>1, <1>2, <3>1, SetupLoginOK
  <2>5. ASSUME ProvenInv PROVE SessionOK(proofs'[br[p]], s)
    <3>1. f \subseteq proofs'[br[p]]
      BY <1>1, <2>2 DEF Grows
    <3>2. SessionOK(f, ses[p])
      BY <2>5, InFlight
    <3>3. SessionOK(f, t)
      BY <1>1, <3>2, EditKeeps
    <3>4. SessionOK(proofs'[br[p]], t)
      BY <3>1, <3>3, SessionMono
    <3>5. <<u, "password">> \in f
      BY <1>1, <3>2, SessionAssumption DEF SessionOK
    <3>6. Entitled(proofs'[br[p]], u)
      BY <2>2, <3>1, <3>5 DEF Entitled
    <3>7. QED
      BY <1>1, <1>2, <3>4, <3>6, SetupLoginOK
  <2>6. RowsHeld
    BY DEF Verify2FALoginDecide, AuthorityInv, RowsHeld, dbVars
  <2> HIDE DEF s
  <2>7. TypeInv' /\ AuthorityInv'
    BY <2>1, <2>2, <2>3, <2>4, <2>6, AnswerType, AnswerAuthority
  <2>8. ProvenInv => ProvenInv'
    BY <2>1, <2>2, <2>3, <2>5, AnswerProven
  <2>9. QED
    BY <2>7, <2>8 DEF Kept
<1>4. CASE ~(users[u].twofa /\ in[p].good)
  BY <1>4, PlainRefuse DEF Verify2FALoginDecide
<1>5. QED
  BY <1>3, <1>4

LEMMA LogoutKeeps ==
    ASSUME TypeInv, AuthorityInv, NEW p \in Procs, Logout(p)
    PROVE  Kept
BY PlainAnswer, InitialValues, NothingOK DEF Logout, Cleared

LEMMA AdminRequestKeeps ==
    ASSUME TypeInv, AuthorityInv, NEW p \in Procs, AdminRequest(p)
    PROVE  Kept
<1>1. AuthHelper(ses[p], RoleAdminUser) \in BOOLEAN
  BY DEF AuthHelper
<1>2. QED
  BY <1>1, PlainAnswer, RequestFacts DEF AdminRequest

LEMMA UniversalVerifyKeeps ==
    ASSUME TypeInv, AuthorityInv, NEW p \in Procs, UniversalVerify(p)
    PROVE  Kept
<1> DEFINE u == ses[p].id
           s == [ses[p] EXCEPT !.verified = now]
<1>1. /\ ses[p] \in Sessions /\ br[p] \in Browsers /\ u \in Users \cup {None}
      /\ now \in Nat /\ now \in 1..MaxTime /\ MaxTime \in Nat
  BY RequestFacts, SessionAssumption DEF Sessions, TypeInv, TypeOK
<1>2. CASE VerifyAccepts(p)
  <2>1. u \in Users
    BY <1>1, <1>2 DEF VerifyAccepts, AuthHelper
  <2>2. Answer(p, s, TRUE, TRUE) /\ UNCHANGED <<faults, dbVars>>
    BY <1>2 DEF UniversalVerify
  <2>3. proofs' \in [Browsers -> SUBSET Facts] /\ Grows
    <3>1. Prove(p, u, "code") \/ UNCHANGED proofs
      BY <1>2 DEF UniversalVerify
    <3>2. QED
      BY <2>1, <3>1, ProveFacts, UnchangedTypes
  <2>4. verifs' \in [Browsers -> SUBSET (Users \X (1..MaxTime))]
    <3>1. verifs' = [verifs EXCEPT ![br[p]] = verifs[br[p]] \cup {<<u, now>>}]
      BY <1>2 DEF UniversalVerify
    <3>2. verifs \in [Browsers -> SUBSET (Users \X (1..MaxTime))]
      BY DEF TypeInv, TypeOK
    <3>3. <<u, now>> \in Users \X (1..MaxTime)
      BY <1>1, <2>1
    <3>4. QED
      BY <1>1, <3>1, <3>2, <3>3
  <2>5. OtherTypes
    BY <2>2, <2>3, <2>4, UnchangedTypes DEF OtherTypes
  <2>6. s \in Sessions
    BY <1>1, EditFacts
  <2>7. AuthorityOK(held, s)
    BY <1>1, InFlight, EditKeeps
  <2>8. ASSUME ProvenInv PROVE SessionOK(proofs'[br[p]], s)
    <3>1. SessionOK(proofs[br[p]], s)
      BY <1>1, <2>8, InFlight, EditKeeps
    <3>2. proofs[br[p]] \subseteq proofs'[br[p]]
      BY <1>1, <2>3 DEF Grows
    <3> HIDE DEF s
    <3>3. QED
      BY <3>1, <3>2, SessionMono
  <2>9. RowsHeld
    BY <2>2 DEF AuthorityInv, RowsHeld, dbVars
  <2> HIDE DEF s
  <2>10. TypeInv' /\ AuthorityInv'
    BY <2>2, <2>5, <2>6, <2>7, <2>9, AnswerType, AnswerAuthority
  <2>11. ProvenInv => ProvenInv'
    BY <2>2, <2>3, <2>6, <2>8, AnswerProven
  <2>12. QED
    BY <2>10, <2>11 DEF Kept
<1>3. CASE ~VerifyAccepts(p)
  BY <1>3, PlainRefuse DEF UniversalVerify
<1>4. QED
  BY <1>2, <1>3

LEMMA GetVerificationStatusKeeps ==
    ASSUME TypeInv, AuthorityInv, NEW p \in Procs, GetVerificationStatus(p)
    PROVE  Kept
<1> DEFINE s == ses[p]
           live == AuthHelper(s, RoleCommonUser) /\ Verified(s)
           e == [s EXCEPT !.verified = 0]
<1>1. s \in Sessions /\ live \in BOOLEAN
  BY RequestFacts DEF AuthHelper, Verified
<1>2. e \in Sessions
  BY <1>1, EditFacts
<1>3. AuthorityOK(held, e) /\ (ProvenInv => SessionOK(proofs[br[p]], e))
  BY <1>1, InFlight, EditKeeps
<1>4. /\ Answer(p, e, TRUE, FALSE) \/ Answer(p, s, FALSE, live)
      /\ UNCHANGED <<faults, dbVars, proofs, verifs>>
  BY DEF GetVerificationStatus
<1> HIDE DEF s, live, e
<1>5. CASE Answer(p, e, TRUE, FALSE)
  BY <1>2, <1>3, <1>4, <1>5, PlainAnswer
<1>6. CASE Answer(p, s, FALSE, live)
  BY <1>1, <1>4, <1>6, PlainAnswer
<1>7. QED
  BY <1>4, <1>5, <1>6

-----------------------------------------------------------------------------
LEMMA PasskeyLoginBeginKeeps ==
    ASSUME TypeInv, AuthorityInv, NEW p \in Procs, PasskeyLoginBegin(p)
    PROVE  Kept
<1> DEFINE s == [ses[p] EXCEPT !.loginCh = TRUE]
<1>1. ses[p] \in Sessions
  BY RequestFacts
<1>2. s \in Sessions
  BY <1>1, EditFacts
<1>3. AuthorityOK(held, s) /\ (ProvenInv => SessionOK(proofs[br[p]], s))
  BY <1>1, InFlight, EditKeeps
<1>4. Answer(p, s, TRUE, TRUE) /\ UNCHANGED <<faults, dbVars, proofs, verifs>>
  BY DEF PasskeyLoginBegin
<1> HIDE DEF s
<1>5. QED
  BY <1>2, <1>3, <1>4, PlainAnswer

LEMMA PasskeyLoginFinishKeeps ==
    ASSUME TypeInv, AuthorityInv, NEW p \in Procs, PasskeyLoginFinish(p)
    PROVE  Kept
<1> DEFINE u == in[p].user
           s == [ses[p] EXCEPT !.loginCh = FALSE]
<1>1. /\ u \in Users /\ ses[p] \in Sessions /\ br[p] \in Browsers
      /\ in[p].good \in BOOLEAN
  BY RequestFacts DEF PasskeyLoginFinish, Is
<1>2. s \in Sessions
  BY <1>1, EditFacts
<1>3. AuthorityOK(held, s) /\ (ProvenInv => SessionOK(proofs[br[p]], s))
  BY <1>1, InFlight, EditKeeps
<1>4. CASE ~ses[p].loginCh
  BY <1>4, PlainRefuse DEF PasskeyLoginFinish
<1>5. CASE ses[p].loginCh /\ ~PasskeyLoginAccepts(p, u)
  <2>1. Answer(p, s, TRUE, FALSE) /\ UNCHANGED <<faults, dbVars, proofs, verifs>>
    BY <1>5 DEF PasskeyLoginFinish
  <2> HIDE DEF s
  <2>2. QED
    BY <1>2, <1>3, <2>1, PlainAnswer
<1>6. CASE ses[p].loginCh /\ PasskeyLoginAccepts(p, u)
  <2>1. /\ Prove(p, u, "passkey") /\ Continue(p, "passkeyLogin", u)
        /\ ses' = [ses EXCEPT ![p] = s] /\ in[p].good
        /\ UNCHANGED <<faults, dbVars, verifs>>
    BY <1>6 DEF PasskeyLoginFinish, PasskeyLoginAccepts
  <2>2. OtherTypes /\ Grows /\ <<u, "passkey">> \in proofs'[br[p]]
    BY <1>1, <2>1, ProveFacts, UnchangedTypes DEF OtherTypes
  <2>3. "passkeyLogin" \in Steps /\ users' = users /\ held' = held
    BY <2>1 DEF Steps, dbVars
  <2> HIDE DEF s
  <2>4. TypeInv'
    BY <1>1, <1>2, <2>1, <2>2, <2>3, ContinueType
  <2>5. AuthorityInv'
    BY <1>1, <1>2, <1>3, <2>1, <2>3, ContinueAuthority
  <2>6. ProvenInv => ProvenInv'
    BY <1>1, <1>2, <1>3, <2>1, <2>2, <2>3, ContinueProven
  <2>7. QED
    BY <2>4, <2>5, <2>6 DEF Kept
<1>7. QED
  BY <1>4, <1>5, <1>6

LEMMA PasskeyVerifyBeginKeeps ==
    ASSUME TypeInv, AuthorityInv, NEW p \in Procs, PasskeyVerifyBegin(p)
    PROVE  Kept
<1> DEFINE s == [ses[p] EXCEPT !.verifyCh = ses[p].id]
<1>1. ses[p] \in Sessions /\ ses[p].id \in Users \cup {None}
  BY RequestFacts DEF Sessions
<1>2. s \in Sessions
  BY <1>1, EditFacts
<1>3. AuthorityOK(held, s) /\ (ProvenInv => SessionOK(proofs[br[p]], s))
  BY <1>1, InFlight, EditKeeps
<1>4. /\ Answer(p, s, TRUE, TRUE) \/ Refuse(p)
      /\ UNCHANGED <<faults, dbVars, proofs, verifs>>
  BY DEF PasskeyVerifyBegin
<1> HIDE DEF s
<1>5. QED
  BY <1>2, <1>3, <1>4, PlainAnswer, PlainRefuse

LEMMA PasskeyVerifyFinishKeeps ==
    ASSUME TypeInv, AuthorityInv, NEW p \in Procs, PasskeyVerifyFinish(p)
    PROVE  Kept
<1> DEFINE u == ses[p].id
           s == [ses[p] EXCEPT !.verifyCh = None]
           begun == SessionUser(ses[p]) /\ users[u].passkey /\ ses[p].verifyCh # None
           accepted == in[p].good /\ ses[p].verifyCh = u
<1>1. /\ u \in Users \cup {None} /\ ses[p] \in Sessions /\ br[p] \in Browsers
      /\ in[p].good \in BOOLEAN
  BY RequestFacts DEF Sessions
<1>2. s \in Sessions /\ s.id = u
  BY <1>1, EditFacts DEF Sessions
<1>3. AuthorityOK(held, s) /\ (ProvenInv => SessionOK(proofs[br[p]], s))
  BY <1>1, InFlight, EditKeeps
<1>4. CASE ~begun
  BY <1>4, PlainRefuse DEF PasskeyVerifyFinish
<1>5. CASE begun /\ ~accepted
  <2>1. Answer(p, s, TRUE, FALSE) /\ UNCHANGED <<faults, dbVars, proofs, verifs>>
    BY <1>5 DEF PasskeyVerifyFinish
  <2> HIDE DEF s
  <2>2. QED
    BY <1>2, <1>3, <2>1, PlainAnswer
<1>6. CASE begun /\ accepted
  <2>1. /\ Prove(p, u, "passkey") /\ Continue(p, "passkeyVerify", u)
        /\ ses' = [ses EXCEPT ![p] = s]
        /\ UNCHANGED <<faults, dbVars, verifs>>
    BY <1>6 DEF PasskeyVerifyFinish
  <2>2. u \in Users
    BY <1>1, <1>6 DEF SessionUser, AuthHelper
  <2>3. OtherTypes /\ Grows
    BY <2>1, <2>2, ProveFacts, UnchangedTypes DEF OtherTypes
  <2>4. "passkeyVerify" \in Steps /\ users' = users /\ held' = held
    BY <2>1 DEF Steps, dbVars
  <2> HIDE DEF s
  <2>5. TypeInv'
    BY <1>2, <2>1, <2>2, <2>3, <2>4, ContinueType
  <2>6. AuthorityInv'
    BY <1>2, <1>3, <2>1, <2>2, <2>4, ContinueAuthority
  <2>7. ProvenInv => ProvenInv'
    BY <1>2, <1>3, <2>1, <2>2, <2>3, <2>4, ContinueProven
  <2>8. QED
    BY <2>5, <2>6, <2>7 DEF Kept
<1>7. QED
  BY <1>4, <1>5, <1>6

\* Storing a credential changes neither status nor role.
LEMMA UpsertFacts ==
    ASSUME TypeInv, AuthorityInv, NEW u \in Users, held' = held,
           users' = [users EXCEPT ![u].passkey = TRUE]
    PROVE  /\ users' \in [Users -> Row]
           /\ RowsHeld
<1>1. users \in [Users -> Row]
  BY DEF TypeInv, TypeOK
<1>2. ASSUME NEW v \in Users
      PROVE  /\ users'[v] \in Row
             /\ users'[v].status = users[v].status /\ users'[v].role = users[v].role
  <2>1. users[v] \in Row
    BY <1>1
  <2>2. CASE v = u
    <3>1. users'[v] = [users[v] EXCEPT !.passkey = TRUE]
      BY <1>1, <2>2
    <3>2. [users[v] EXCEPT !.passkey = TRUE] \in Row
      BY <2>1 DEF Row
    <3>3. /\ [users[v] EXCEPT !.passkey = TRUE].status = users[v].status
          /\ [users[v] EXCEPT !.passkey = TRUE].role = users[v].role
      BY <2>1 DEF Row
    <3>4. QED
      BY <3>1, <3>2, <3>3
  <2>3. CASE v # u
    <3>1. users'[v] = users[v]
      BY <1>1, <2>3
    <3>2. QED
      BY <2>1, <3>1
  <2>4. QED
    BY <2>2, <2>3
<1>3. users' \in [Users -> Row]
  BY <1>1, <1>2
<1>4. QED
  BY <1>2, <1>3 DEF AuthorityInv, RowsHeld

LEMMA PasskeyUpsertKeeps ==
    ASSUME TypeInv, AuthorityInv, NEW p \in Procs, PasskeyUpsert(p)
    PROVE  Kept
<1> DEFINE f == proofs[br[p]]
<1>1. /\ ses[p] \in Sessions /\ br[p] \in Browsers /\ rec[p] \in Row
      /\ AuthorityOK(held, ses[p]) /\ (ProvenInv => SessionOK(f, ses[p]))
  BY RequestFacts, InFlight
<1>2. ASSUME NEW u \in Users, NEW s \in Sessions, Answer(p, s, TRUE, TRUE),
             users' = [users EXCEPT ![u].passkey = TRUE],
             AuthorityOK(held, s), ProvenInv => SessionOK(f, s)
      PROVE  Kept
  <2>1. UNCHANGED <<faults, held, proofs, verifs>>
    BY DEF PasskeyUpsert
  <2>2. users' \in [Users -> Row] /\ RowsHeld
    BY <1>2, <2>1, UpsertFacts
  <2>3. OtherTypes /\ Grows
    BY <2>1, <2>2 DEF OtherTypes, TypeInv, TypeOK, Grows, Facts
  <2>4. TypeInv' /\ AuthorityInv'
    BY <1>2, <2>2, <2>3, AnswerType, AnswerAuthority
  <2>5. ProvenInv => ProvenInv'
    <3>1. proofs' = proofs
      BY <2>1
    <3>2. QED
      BY <1>2, <2>3, <3>1, AnswerProven
  <2>6. QED
    BY <2>4, <2>5 DEF Kept
<1>3. CASE pc[p] = "passkeyLogin"
  <2> DEFINE u == in[p].user
             s == SetupLogin(ses[p], u, rec[p])
  <2>1. u \in Users
    BY <1>3 DEF TypeInv, Shape
  <2>2. Answer(p, s, TRUE, TRUE) /\ users' = [users EXCEPT ![u].passkey = TRUE]
    BY <1>3 DEF PasskeyUpsert, At
  <2>3. s \in Sessions
    BY <1>1, <2>1, SetupLoginFacts
  <2>4. <<rec[p].status, rec[p].role>> \in held[u]
    BY <1>3 DEF AuthorityInv, AuthorityRequest
  <2>5. ProvenInv => Entitled(f, u)
    BY <1>3 DEF ProvenInv, ProvenRequest, Entitled
  <2>6. AuthorityOK(held, s) /\ (ProvenInv => SessionOK(f, s))
    BY <1>1, <2>1, <2>4, <2>5, SetupLoginOK
  <2> HIDE DEF s
  <2>7. QED
    BY <1>2, <2>1, <2>2, <2>3, <2>6
<1>4. CASE pc[p] = "passkeyVerify"
  <2> DEFINE u == ses[p].id
  <2>1. u \in Users
    BY <1>4 DEF TypeInv, Shape
  <2>2. Answer(p, ses[p], TRUE, TRUE) /\ users' = [users EXCEPT ![u].passkey = TRUE]
    BY <1>4 DEF PasskeyUpsert, At
  <2>3. QED
    BY <1>1, <1>2, <2>1, <2>2
<1>5. QED
  BY <1>3, <1>4 DEF PasskeyUpsert, At

LEMMA PasskeyUpsertErrorKeeps ==
    ASSUME TypeInv, AuthorityInv, NEW p \in Procs, PasskeyUpsertError(p)
    PROVE  Kept
<1>1. Answer(p, ses[p], TRUE, FALSE) /\ ses[p] \in Sessions
  BY RequestFacts DEF PasskeyUpsertError
<1>2. faults \in 0..MaxFaults /\ MaxFaults \in Nat
  BY SessionAssumption DEF TypeInv, TypeOK
<1>3. faults' \in 0..MaxFaults
  BY <1>2 DEF PasskeyUpsertError
<1>4. OtherTypes /\ Grows /\ proofs' = proofs
  BY <1>3, UnchangedTypes DEF PasskeyUpsertError, OtherTypes
<1>5. RowsHeld
  BY DEF PasskeyUpsertError, AuthorityInv, RowsHeld, dbVars
<1>6. TypeInv' /\ AuthorityInv'
  BY <1>1, <1>4, <1>5, InFlight, AnswerType, AnswerAuthority
<1>7. ProvenInv => ProvenInv'
  BY <1>1, <1>4, InFlight, AnswerProven
<1>8. QED
  BY <1>6, <1>7 DEF Kept

-----------------------------------------------------------------------------
(* The browser's side. *)
LEMMA SendKeeps ==
    ASSUME TypeInv, AuthorityInv, NEW p \in Procs, NEW b \in Browsers,
           NEW i \in Inputs, Send(p, b, i)
    PROVE  Kept
<1>1. cookie[b] \in Sessions
  BY DEF TypeInv, TypeOK
<1>2. /\ pc' \in [Procs -> Steps] /\ in' \in [Procs -> Inputs]
      /\ br' \in [Procs -> Browsers] /\ ses' \in [Procs -> Sessions]
  BY <1>1 DEF Send, TypeInv, TypeOK, Steps
<1>3. out' \in [Browsers -> BOOLEAN]
  BY DEF Send, TypeInv, TypeOK
<1>4. TypeOK'
  BY <1>2, <1>3 DEF Send, TypeInv, TypeOK, dbVars
<1>5. /\ pc'[p] = "sent" /\ br'[p] = b /\ ses'[p] = cookie[b]
      /\ \A q \in Procs \ {p} : /\ pc'[q] = pc[q] /\ in'[q] = in[q]
                                /\ br'[q] = br[q] /\ ses'[q] = ses[q]
      /\ rec' = rec /\ cookie' = cookie /\ proofs' = proofs
      /\ users' = users /\ held' = held
  BY DEF Send, TypeInv, TypeOK, dbVars
<1>6. \A q \in Procs : Shape(q)'
  BY <1>5 DEF TypeInv, Shape
<1>7. ASSUME NEW q \in Procs PROVE AuthorityRequest(q)'
  <2>1. CASE q = p
    BY <1>5, <2>1 DEF AuthorityInv, AuthorityWasHeld, AuthorityRequest
  <2>2. CASE q # p
    BY <1>5, <2>2 DEF AuthorityInv, AuthorityRequest
  <2>3. QED
    BY <2>1, <2>2
<1>8. AuthorityInv'
  BY <1>5, <1>7 DEF AuthorityInv, AuthorityWasHeld
<1>9. ASSUME ProvenInv PROVE ProvenInv'
  <2>1. ASSUME NEW q \in Procs PROVE ProvenRequest(q)'
    <3>1. CASE q = p
      BY <1>5, <1>9, <3>1 DEF ProvenInv, SessionProven, ProvenRequest
    <3>2. CASE q # p
      BY <1>5, <1>9, <3>2 DEF ProvenInv, ProvenRequest
    <3>3. QED
      BY <3>1, <3>2
  <2>2. QED
    BY <1>5, <1>9, <2>1 DEF ProvenInv, SessionProven
<1>10. QED
  BY <1>4, <1>6, <1>8, <1>9 DEF Kept, TypeInv

LEMMA ReceiveKeeps ==
    ASSUME TypeInv, AuthorityInv, NEW p \in Procs, Receive(p)
    PROVE  Kept
<1>1. ses[p] \in Sessions /\ br[p] \in Browsers
  BY RequestFacts
<1>2. /\ pc' \in [Procs -> Steps] /\ in' \in [Procs -> Inputs]
      /\ ses' \in [Procs -> Sessions] /\ saved' \in [Procs -> BOOLEAN]
      /\ ok' \in [Procs -> BOOLEAN]
  BY InitialValues DEF Receive, TypeInv, TypeOK, Steps
<1>3. cookie' \in [Browsers -> Sessions]
  BY <1>1 DEF Receive, TypeInv, TypeOK
<1>4. out' \in [Browsers -> BOOLEAN]
  BY <1>1 DEF Receive, TypeInv, TypeOK
<1>5. TypeOK'
  BY <1>2, <1>3, <1>4 DEF Receive, TypeInv, TypeOK, dbVars
<1>6. /\ pc'[p] = "idle" /\ ses'[p] = NoSession
      /\ \A q \in Procs \ {p} : /\ pc'[q] = pc[q] /\ in'[q] = in[q]
                                /\ ses'[q] = ses[q]
      /\ \A b \in Browsers :
            cookie'[b] = cookie[b] \/ (b = br[p] /\ cookie'[b] = ses[p])
      /\ rec' = rec /\ br' = br /\ proofs' = proofs
      /\ users' = users /\ held' = held
  <2>1. /\ pc'[p] = "idle" /\ ses'[p] = NoSession
        /\ \A q \in Procs \ {p} : /\ pc'[q] = pc[q] /\ in'[q] = in[q]
                                  /\ ses'[q] = ses[q]
        /\ rec' = rec /\ br' = br /\ proofs' = proofs
    BY DEF Receive, TypeInv, TypeOK
  <2>2. users' = users /\ held' = held
    BY DEF Receive, dbVars
  <2>3. ASSUME NEW b \in Browsers
        PROVE  cookie'[b] = cookie[b] \/ (b = br[p] /\ cookie'[b] = ses[p])
    <3>1. cookie \in [Browsers -> Sessions]
      BY DEF TypeInv, TypeOK
    <3>2. \/ cookie' = [cookie EXCEPT ![br[p]] = ses[p]]
          \/ cookie' = [cookie EXCEPT ![br[p]] = cookie[br[p]]]
          \/ cookie' = cookie
      BY DEF Receive
    <3>3. QED
      BY <1>1, <3>1, <3>2
  <2>4. QED
    BY <2>1, <2>2, <2>3
<1>7. \A q \in Procs : Shape(q)'
  BY <1>6 DEF TypeInv, Shape
<1>8. ASSUME NEW q \in Procs PROVE AuthorityRequest(q)'
  <2>1. CASE q = p
    BY <1>6, <2>1, NothingOK DEF AuthorityRequest
  <2>2. CASE q # p
    BY <1>6, <2>2 DEF AuthorityInv, AuthorityRequest
  <2>3. QED
    BY <2>1, <2>2
<1>9. AuthorityInv'
  <2>1. \A b \in Browsers : AuthorityOK(held, cookie'[b])
    BY <1>6, InFlight DEF AuthorityInv, AuthorityWasHeld
  <2>2. QED
    BY <1>6, <1>8, <2>1 DEF AuthorityInv, AuthorityWasHeld
<1>10. ASSUME ProvenInv PROVE ProvenInv'
  <2>1. ASSUME NEW q \in Procs PROVE ProvenRequest(q)'
    <3>1. CASE q = p
      BY <1>6, <3>1, NothingOK DEF ProvenRequest
    <3>2. CASE q # p
      BY <1>6, <1>10, <3>2 DEF ProvenInv, ProvenRequest
    <3>3. QED
      BY <3>1, <3>2
  <2>2. \A b \in Browsers : SessionOK(proofs[b], cookie'[b])
    BY <1>6, <1>10, InFlight DEF ProvenInv, SessionProven
  <2>3. QED
    BY <1>6, <2>1, <2>2 DEF ProvenInv, SessionProven
<1>11. QED
  BY <1>5, <1>7, <1>9, <1>10 DEF Kept, TypeInv

-----------------------------------------------------------------------------
(* Changes of users, and the clock. *)
LEMMA ChangeUserKeeps ==
    ASSUME TypeInv, AuthorityInv, NEW u \in Users, NEW r \in Row, ChangeUser(u, r)
    PROVE  Kept
<1>1. changes' \in 0..MaxChanges
  BY SessionAssumption DEF ChangeUser, TypeInv, TypeOK
<1>2. users' \in [Users -> Row]
  BY DEF ChangeUser, TypeInv, TypeOK
<1>3. <<r.status, r.role>> \in {1, 2} \X {1, 10, 100}
  BY DEF Row, UserStatusEnabled, UserStatusDisabled, RoleCommonUser,
         RoleAdminUser, RoleRootUser
<1>4. held \in [Users -> SUBSET ({1, 2} \X {1, 10, 100})]
  BY DEF TypeInv, TypeOK
<1>5. held' = [held EXCEPT ![u] = held[u] \cup {<<r.status, r.role>>}]
  BY DEF ChangeUser
<1>6. held' \in [Users -> SUBSET ({1, 2} \X {1, 10, 100})]
  BY <1>3, <1>4, <1>5
<1>7. TypeInv'
  <2>1. TypeOK'
    BY <1>1, <1>2, <1>6 DEF ChangeUser, TypeInv, TypeOK, reqVars, histVars
  <2>2. \A q \in Procs : Shape(q)'
    BY DEF ChangeUser, TypeInv, Shape, reqVars
  <2>3. QED
    BY <2>1, <2>2 DEF TypeInv
<1>8. \A v \in Users : held[v] \subseteq held'[v]
  BY <1>4, <1>5
<1>9. ASSUME NEW s \in Sessions, AuthorityOK(held, s) PROVE AuthorityOK(held', s)
  BY <1>8, <1>9 DEF AuthorityOK, Sessions
<1>10. \A v \in Users : <<users'[v].status, users'[v].role>> \in held'[v]
  <2>1. users' = [users EXCEPT ![u] = r] /\ users \in [Users -> Row]
    BY DEF ChangeUser, TypeInv, TypeOK
  <2>2. ASSUME NEW v \in Users PROVE <<users'[v].status, users'[v].role>> \in held'[v]
    <3>1. CASE v = u
      BY <1>4, <1>5, <2>1, <3>1
    <3>2. CASE v # u
      BY <1>8, <2>1, <3>2 DEF AuthorityInv
    <3>3. QED
      BY <3>1, <3>2
  <2>3. QED
    BY <2>2
<1>11. /\ cookie' = cookie /\ pc' = pc /\ in' = in /\ ses' = ses /\ rec' = rec
       /\ br' = br /\ proofs' = proofs
  BY DEF ChangeUser, reqVars, histVars
<1>12. ASSUME NEW q \in Procs PROVE AuthorityRequest(q)'
  <2>1. AuthorityOK(held', ses[q])
    BY <1>9, InFlight, RequestFacts
  <2>2. pc[q] \in {"login", "passkeyLogin"} => in[q].user \in Users
    BY DEF TypeInv, Shape
  <2>3. pc[q] = "login2fa" => ses[q].pending \in Users
    BY DEF TypeInv, Shape
  <2>4. QED
    BY <1>8, <1>11, <2>1, <2>2, <2>3 DEF AuthorityInv, AuthorityRequest
<1>13. ASSUME NEW b \in Browsers PROVE AuthorityOK(held', cookie[b])
  <2>1. cookie[b] \in Sessions
    BY DEF TypeInv, TypeOK
  <2>2. QED
    BY <1>9, <2>1 DEF AuthorityInv, AuthorityWasHeld
<1>14. AuthorityInv'
  BY <1>10, <1>11, <1>12, <1>13 DEF AuthorityInv, AuthorityWasHeld
<1>15. ProvenInv => ProvenInv'
  BY <1>11 DEF ProvenInv, SessionProven, ProvenRequest
<1>16. QED
  BY <1>7, <1>14, <1>15 DEF Kept

LEMMA ManagedRow ==
    ASSUME NEW r \in Row,
           NEW a \in {"disable", "enable", "delete", "promote", "demote"}
    PROVE  Managed(r, a) \in Row
BY DEF Managed, Row, UserStatusEnabled, UserStatusDisabled, RoleCommonUser,
       RoleAdminUser, RoleRootUser

\* The clock, and steps that change nothing.
LEMMA QuietKeeps ==
    ASSUME TypeInv, AuthorityInv, Tick \/ UNCHANGED vars
    PROVE  Kept
<1>1. UNCHANGED <<cookie, changes, faults, dbVars, reqVars, histVars>>
  BY DEF Tick, vars
<1>2. now' \in 1..MaxTime
  BY SessionAssumption DEF Tick, vars, TypeInv, TypeOK
<1>3. TypeInv'
  <2>1. TypeOK'
    BY <1>1, <1>2 DEF TypeInv, TypeOK, dbVars, reqVars, histVars
  <2>2. \A q \in Procs : Shape(q)'
    BY <1>1 DEF TypeInv, Shape, reqVars
  <2>3. QED
    BY <2>1, <2>2 DEF TypeInv
<1>4. AuthorityInv'
  BY <1>1 DEF AuthorityInv, AuthorityWasHeld, AuthorityRequest, dbVars, reqVars
<1>5. ProvenInv => ProvenInv'
  BY <1>1 DEF ProvenInv, SessionProven, ProvenRequest, reqVars, histVars
<1>6. QED
  BY <1>3, <1>4, <1>5 DEF Kept

LEMMA NextKeeps ==
    ASSUME TypeInv, AuthorityInv, [Next]_vars
    PROVE  Kept
<1>1. ASSUME NEW p \in Procs, Handle(p) PROVE Kept
  BY <1>1, LoginKeeps, LoginDecideKeeps, LoginDecideOnErrorKeeps,
     Verify2FALoginKeeps, Verify2FALoginDecideKeeps, LogoutKeeps,
     AdminRequestKeeps, UniversalVerifyKeeps, GetVerificationStatusKeeps,
     PasskeyLoginBeginKeeps, PasskeyLoginFinishKeeps, PasskeyVerifyBeginKeeps,
     PasskeyVerifyFinishKeeps, PasskeyUpsertKeeps, PasskeyUpsertErrorKeeps
     DEF Handle
<1>2. ASSUME NEW u \in Users PROVE users[u] \in Row
  BY DEF TypeInv, TypeOK
<1>3. ASSUME NEW u \in Users, NEW me,
             NEW a \in {"disable", "enable", "delete", "promote", "demote"},
             ManageUser(u, me, a)
      PROVE  Kept
  BY <1>2, <1>3, ManagedRow, ChangeUserKeeps DEF ManageUser
<1>4. ASSUME NEW u \in Users, Toggle2FA(u) \/ TogglePasskey(u) PROVE Kept
  <2>1. /\ [users[u] EXCEPT !.twofa = ~users[u].twofa] \in Row
        /\ [users[u] EXCEPT !.passkey = ~users[u].passkey] \in Row
    BY <1>2 DEF Row
  <2>2. QED
    BY <1>4, <2>1, ChangeUserKeeps DEF Toggle2FA, TogglePasskey
<1>5. QED
  BY <1>1, <1>3, <1>4, SendKeeps, ReceiveKeeps, QuietKeeps DEF Next

LEMMA InitOK == Init => TypeInv /\ AuthorityInv /\ ProvenInv
<1> SUFFICES ASSUME Init PROVE TypeInv /\ AuthorityInv /\ ProvenInv
  OBVIOUS
<1>1. users \in [Users -> Row]
  BY SessionAssumption DEF Init
<1>2. ASSUME NEW u \in Users
      PROVE  <<users[u].status, users[u].role>> \in {1, 2} \X {1, 10, 100}
  BY <1>1 DEF Row, UserStatusEnabled, UserStatusDisabled, RoleCommonUser,
         RoleAdminUser, RoleRootUser
<1>3. held \in [Users -> SUBSET ({1, 2} \X {1, 10, 100})]
  BY <1>2 DEF Init
<1>4. TypeOK
  BY <1>1, <1>3, SessionAssumption, InitialValues DEF Init, TypeOK, Steps
<1>5. TypeInv
  BY <1>4 DEF Init, TypeInv, Shape
<1>6. AuthorityInv
  BY NothingOK DEF Init, AuthorityInv, AuthorityWasHeld, AuthorityRequest
<1>7. ProvenInv
  BY <1>4, NothingOK DEF Init, ProvenInv, SessionProven, ProvenRequest, TypeOK
<1>8. QED
  BY <1>5, <1>6, <1>7

\* Types, and what requests know at their intermediate steps.
THEOREM TypeCorrect == Spec => []TypeOK
<1>1. TypeInv /\ AuthorityInv /\ [Next]_vars => (TypeInv /\ AuthorityInv)'
  BY NextKeeps DEF Kept
<1>2. TypeInv => TypeOK
  BY DEF TypeInv
<1>3. QED
  BY <1>1, <1>2, InitOK, PTL DEF Spec

\* Whatever overlaps, a session's role and status are a pair its user had.
THEOREM AuthorityHeld == Spec => []AuthorityWasHeld
<1>1. TypeInv /\ AuthorityInv /\ [Next]_vars => (TypeInv /\ AuthorityInv)'
  BY NextKeeps DEF Kept
<1>2. AuthorityInv => AuthorityWasHeld
  BY DEF AuthorityInv
<1>3. QED
  BY <1>1, <1>2, InitOK, PTL DEF Spec

\* If no read of the 2FA row fails, every session in a browser rests on the
\* factors of its user, under every order and loss of responses.
THEOREM SessionsProven ==
    ASSUME MaxFaults = 0
    PROVE  Spec => []SessionProven
<1> DEFINE I == TypeInv /\ AuthorityInv /\ ProvenInv
<1>1. I /\ [Next]_vars => I'
  BY NextKeeps DEF Kept
<1>2. I => SessionProven
  BY DEF ProvenInv
<1>3. Init => I
  BY InitOK
<1>4. QED
  BY <1>1, <1>2, <1>3, PTL DEF Spec

-----------------------------------------------------------------------------
(***************************************************************************)
(* Secure verification and logout.  Both look at single keys of the        *)
(* sessions in flight, so one predicate, Handled, says what a step of a    *)
(* handler may do to them; every action satisfies it.                      *)
(***************************************************************************)
\* s may replace ses[p]: it has no other verification time than one the
\* browser got, and no login unless the handler is one that logs in.
Follows(p, s) ==
    /\ s.verified \in {0, ses[p].verified} \/ (\E v \in verifs'[br[p]] : v[2] = s.verified)
    /\ in[p].op \notin LoginOps => s.id \in {None, ses[p].id}

Handled(p) ==
    /\ cookie' = cookie /\ br' = br /\ in' = in /\ out' = out
    /\ \A q \in Procs \ {p} : pc'[q] = pc[q] /\ ses'[q] = ses[q] /\ saved'[q] = saved[q]
    /\ \A b \in Browsers : verifs[b] \subseteq verifs'[b]
    /\ pc[p] # "idle"
    /\ Follows(p, ses'[p])
    /\ HandlerOK(p)'
    /\ pc[p] = "sent" /\ in[p].op = "status" /\ ok'[p] => Verified(ses[p])

LEMMA AnswerHandled ==
    ASSUME TypeInv, NEW p \in Procs, NEW s \in Sessions, NEW set \in BOOLEAN,
           NEW a \in BOOLEAN, Answer(p, s, set, a), pc[p] # "idle",
           \A b \in Browsers : verifs[b] \subseteq verifs'[b],
           set => Follows(p, s),
           in[p].op = "logout" => set /\ s.id = None,
           in[p].op = "status" /\ a => Verified(ses[p])
    PROVE  Handled(p)
<1>1. cookie' = cookie /\ br' = br /\ in' = in /\ out' = out
  BY DEF Answer
<1>2. /\ pc'[p] = "reply" /\ saved'[p] = set /\ ok'[p] = a
      /\ ses'[p] = IF set THEN s ELSE NoSession
      /\ \A q \in Procs \ {p} : pc'[q] = pc[q] /\ ses'[q] = ses[q] /\ saved'[q] = saved[q]
  BY DEF Answer, TypeInv, TypeOK
<1>3. Follows(p, NoSession)
  BY DEF Follows, NoSession
<1>4. Follows(p, ses'[p])
  BY <1>2, <1>3
<1>5. HandlerOK(p)'
  BY <1>1, <1>2 DEF HandlerOK
<1>6. pc[p] = "sent" /\ in[p].op = "status" /\ ok'[p] => Verified(ses[p])
  BY <1>2
<1>7. QED
  BY <1>1, <1>2, <1>4, <1>5, <1>6 DEF Handled

LEMMA ContinueHandled ==
    ASSUME TypeInv, NEW p \in Procs, NEW s \in Sessions, NEW step \in Steps, NEW u,
           Continue(p, step, u), pc[p] # "idle", UNCHANGED verifs,
           ses' = [ses EXCEPT ![p] = s], Follows(p, s), in[p].op # "status",
           step = "login" => in[p].op = "login",
           step = "login2fa" => in[p].op = "login2fa",
           step = "passkeyLogin" => in[p].op = "passkeyLoginFinish",
           step = "passkeyVerify" => in[p].op = "passkeyVerifyFinish",
           step # "reply"
    PROVE  Handled(p)
<1>1. cookie' = cookie /\ br' = br /\ in' = in /\ out' = out /\ saved' = saved
  BY DEF Continue
<1>2. /\ pc'[p] = step /\ ses'[p] = s
      /\ \A q \in Procs \ {p} : pc'[q] = pc[q] /\ ses'[q] = ses[q]
  BY DEF Continue, TypeInv, TypeOK
<1>3. HandlerOK(p)'
  BY <1>1, <1>2 DEF HandlerOK
<1>4. QED
  BY <1>1, <1>2, <1>3 DEF Handled

\* Sessions that may replace ses[p].
LEMMA FollowsFacts ==
    ASSUME TypeInv, NEW p \in Procs
    PROVE  /\ Follows(p, ses[p]) /\ Follows(p, NoSession)
           /\ \A u \in Users \cup {None} : /\ Follows(p, [ses[p] EXCEPT !.pending = u])
                                           /\ Follows(p, [ses[p] EXCEPT !.verifyCh = u])
           /\ \A c \in BOOLEAN : Follows(p, [ses[p] EXCEPT !.loginCh = c])
           /\ Follows(p, [ses[p] EXCEPT !.verified = 0])
           /\ (\E v \in verifs'[br[p]] : v[2] = now)
                 => Follows(p, [ses[p] EXCEPT !.verified = now])
<1>1. ses[p] \in Sessions
  BY DEF TypeInv, TypeOK
<1>2. QED
  BY <1>1 DEF Follows, Sessions, NoSession

LEMMA SetupLoginFollows ==
    ASSUME TypeInv, NEW p \in Procs, NEW s \in Sessions, NEW u \in Users, NEW r \in Row,
           s.verified = ses[p].verified, in[p].op \in LoginOps
    PROVE  Follows(p, SetupLogin(s, u, r))
<1>1. SetupLogin(s, u, r).verified = s.verified
  BY DEF SetupLogin, Sessions
<1>2. QED
  BY <1>1 DEF Follows

LEMMA HandleFollows ==
    ASSUME TypeInv, NEW p \in Procs, HandlerOK(p), Handle(p)
    PROVE  Handled(p)
<1> DEFINE s == ses[p]
<1>1. /\ s \in Sessions /\ br[p] \in Browsers /\ rec[p] \in Row /\ in[p].good \in BOOLEAN
      /\ in[p].op \in {"login", "passkeyLoginFinish"} => in[p].user \in Users
  BY RequestFacts, InputFacts DEF TypeInv, TypeOK
<1>2. UNCHANGED verifs => \A b \in Browsers : verifs[b] \subseteq verifs'[b]
  OBVIOUS
<1>3. ASSUME Refuse(p), pc[p] # "idle", UNCHANGED verifs, in[p].op # "logout"
      PROVE  Handled(p)
  BY <1>1, <1>2, <1>3, AnswerHandled DEF Refuse
<1>4. ASSUME NEW t \in Sessions, NEW a \in BOOLEAN, Answer(p, t, TRUE, a), Follows(p, t),
             pc[p] # "idle", UNCHANGED verifs, in[p].op \notin {"logout", "status"}
      PROVE  Handled(p)
  BY <1>1, <1>2, <1>4, AnswerHandled
<1>5. CASE Login(p)
  <2>1. pc[p] = "sent" /\ in[p].op = "login" /\ UNCHANGED verifs
    BY <1>5 DEF Login, Is
  <2>2. CASE Continue(p, "login", in[p].user) /\ UNCHANGED ses
    <3>1. ses' = [ses EXCEPT ![p] = s] /\ "login" \in Steps
      BY <2>2 DEF TypeInv, TypeOK, Steps
    <3>2. QED
      BY <1>1, <2>1, <2>2, <3>1, FollowsFacts, ContinueHandled
  <2>3. CASE Refuse(p)
    BY <1>3, <2>1, <2>3
  <2>4. QED
    BY <1>5, <2>2, <2>3 DEF Login
<1>6. CASE LoginDecide(p) \/ LoginDecideOnError(p)
  <2>1. pc[p] = "login" /\ in[p].op = "login" /\ UNCHANGED verifs
    BY <1>6 DEF LoginDecide, LoginDecideOnError, At, HandlerOK
  <2>2. /\ [s EXCEPT !.pending = in[p].user] \in Sessions
        /\ SetupLogin(s, in[p].user, rec[p]) \in Sessions
    BY <1>1, <2>1, EditFacts, SetupLoginFacts
  <2>3. /\ Follows(p, [s EXCEPT !.pending = in[p].user])
        /\ Follows(p, SetupLogin(s, in[p].user, rec[p]))
    BY <1>1, <2>1, FollowsFacts, SetupLoginFollows DEF LoginOps
  <2>4. \/ Answer(p, [s EXCEPT !.pending = in[p].user], TRUE, TRUE)
        \/ Answer(p, SetupLogin(s, in[p].user, rec[p]), TRUE, TRUE)
    BY <1>6 DEF LoginDecide, LoginDecideOnError
  <2>5. QED
    BY <1>4, <2>1, <2>2, <2>3, <2>4
<1>7. CASE Verify2FALogin(p)
  <2>1. pc[p] = "sent" /\ in[p].op = "login2fa" /\ UNCHANGED verifs
    BY <1>7 DEF Verify2FALogin, Is
  <2>2. CASE Continue(p, "login2fa", s.pending) /\ UNCHANGED ses
    <3>1. ses' = [ses EXCEPT ![p] = s] /\ "login2fa" \in Steps
      BY <2>2 DEF TypeInv, TypeOK, Steps
    <3>2. QED
      BY <1>1, <2>1, <2>2, <3>1, FollowsFacts, ContinueHandled
  <2>3. CASE Refuse(p)
    BY <1>3, <2>1, <2>3
  <2>4. QED
    BY <1>7, <2>2, <2>3 DEF Verify2FALogin
<1>8. CASE Verify2FALoginDecide(p)
  <2> DEFINE t == [s EXCEPT !.pending = None]
  <2>1. pc[p] = "login2fa" /\ in[p].op = "login2fa" /\ UNCHANGED verifs /\ s.pending \in Users
    BY <1>8 DEF Verify2FALoginDecide, At, HandlerOK, TypeInv, Shape
  <2>2. t \in Sessions /\ t.verified = s.verified
    BY <1>1, EditFacts DEF Sessions
  <2>3. /\ SetupLogin(t, s.pending, rec[p]) \in Sessions
        /\ Follows(p, SetupLogin(t, s.pending, rec[p]))
    BY <1>1, <2>1, <2>2, SetupLoginFacts, SetupLoginFollows DEF LoginOps
  <2>4. \/ Answer(p, SetupLogin(t, s.pending, rec[p]), TRUE, TRUE)
        \/ Refuse(p)
    BY <1>8 DEF Verify2FALoginDecide
  <2>5. QED
    BY <1>3, <1>4, <2>1, <2>3, <2>4
<1>9. CASE Logout(p)
  <2>1. /\ pc[p] = "sent" /\ in[p].op = "logout" /\ UNCHANGED verifs
        /\ Answer(p, NoSession, TRUE, TRUE)
    BY <1>9 DEF Logout, Is, Cleared
  <2>2. NoSession.id = None /\ NoSession \in Sessions
    BY InitialValues DEF NoSession
  <2>3. QED
    BY <1>2, <2>1, <2>2, FollowsFacts, AnswerHandled
<1>10. CASE AdminRequest(p)
  <2>1. pc[p] = "sent" /\ in[p].op = "admin" /\ UNCHANGED verifs
    BY <1>10 DEF AdminRequest, Is
  <2>2. PICK a \in BOOLEAN : Answer(p, s, FALSE, a)
    BY <1>10 DEF AdminRequest, AuthHelper
  <2>3. QED
    BY <1>1, <1>2, <2>1, <2>2, AnswerHandled
<1>11. CASE UniversalVerify(p)
  <2>1. pc[p] = "sent" /\ in[p].op \in {"verify2fa", "verifyPasskey"}
    BY <1>11 DEF UniversalVerify, Is
  <2>2. CASE Refuse(p) /\ UNCHANGED verifs
    BY <1>3, <2>1, <2>2
  <2>3. CASE /\ verifs' = [verifs EXCEPT ![br[p]] = verifs[br[p]] \cup {<<s.id, now>>}]
             /\ Answer(p, [s EXCEPT !.verified = now], TRUE, TRUE)
    <3>1. \A b \in Browsers : verifs[b] \subseteq verifs'[b]
      BY <1>1, <2>3 DEF TypeInv, TypeOK
    <3>2. <<s.id, now>> \in verifs'[br[p]] /\ <<s.id, now>>[2] = now
      BY <1>1, <2>3 DEF TypeInv, TypeOK
    <3>3. now \in Nat
      BY SessionAssumption DEF TypeInv, TypeOK
    <3>4. [s EXCEPT !.verified = now] \in Sessions
      BY <1>1, <3>3, EditFacts
    <3>5. Follows(p, [s EXCEPT !.verified = now])
      BY <3>2, FollowsFacts
    <3>6. QED
      BY <2>1, <2>3, <3>1, <3>4, <3>5, AnswerHandled
  <2>4. QED
    BY <1>11, <2>2, <2>3 DEF UniversalVerify
<1>12. CASE GetVerificationStatus(p)
  <2>1. pc[p] = "sent" /\ in[p].op = "status" /\ UNCHANGED verifs
    BY <1>12 DEF GetVerificationStatus, Is
  <2>2. CASE Answer(p, [s EXCEPT !.verified = 0], TRUE, FALSE)
    <3>1. [s EXCEPT !.verified = 0] \in Sessions
      BY <1>1, EditFacts
    <3>2. QED
      BY <1>2, <2>1, <2>2, <3>1, FollowsFacts, AnswerHandled
  <2>3. CASE Answer(p, s, FALSE, AuthHelper(s, RoleCommonUser) /\ Verified(s))
    <3>1. PICK a \in BOOLEAN : a = (AuthHelper(s, RoleCommonUser) /\ Verified(s))
      BY DEF AuthHelper, Verified
    <3>2. Answer(p, s, FALSE, a) /\ (a => Verified(s))
      BY <2>3, <3>1
    <3>3. QED
      BY <1>1, <1>2, <2>1, <3>2, AnswerHandled
  <2>4. QED
    BY <1>12, <2>2, <2>3 DEF GetVerificationStatus
<1>13. CASE PasskeyLoginBegin(p)
  <2>1. /\ pc[p] = "sent" /\ in[p].op = "passkeyLoginBegin" /\ UNCHANGED verifs
        /\ Answer(p, [s EXCEPT !.loginCh = TRUE], TRUE, TRUE)
    BY <1>13 DEF PasskeyLoginBegin, Is
  <2>2. [s EXCEPT !.loginCh = TRUE] \in Sessions
    BY <1>1, EditFacts
  <2>3. QED
    BY <1>4, <2>1, <2>2, FollowsFacts
<1>14. CASE PasskeyLoginFinish(p)
  <2> DEFINE t == [s EXCEPT !.loginCh = FALSE]
  <2>1. pc[p] = "sent" /\ in[p].op = "passkeyLoginFinish" /\ UNCHANGED verifs
    BY <1>14 DEF PasskeyLoginFinish, Is
  <2>2. t \in Sessions /\ Follows(p, t)
    BY <1>1, EditFacts, FollowsFacts
  <2>3. \/ Refuse(p) \/ Answer(p, t, TRUE, FALSE)
        \/ Continue(p, "passkeyLogin", in[p].user) /\ ses' = [ses EXCEPT ![p] = t]
    BY <1>14 DEF PasskeyLoginFinish
  <2> HIDE DEF t
  <2>4. CASE Continue(p, "passkeyLogin", in[p].user) /\ ses' = [ses EXCEPT ![p] = t]
    <3>1. "passkeyLogin" \in Steps
      BY DEF Steps
    <3>2. QED
      BY <2>1, <2>2, <2>4, <3>1, ContinueHandled
  <2>5. QED
    BY <1>3, <1>4, <2>1, <2>2, <2>3, <2>4
<1>15. CASE PasskeyVerifyBegin(p)
  <2> DEFINE t == [s EXCEPT !.verifyCh = s.id]
  <2>1. pc[p] = "sent" /\ in[p].op = "passkeyVerifyBegin" /\ UNCHANGED verifs
    BY <1>15 DEF PasskeyVerifyBegin, Is
  <2>2. s.id \in Users \cup {None}
    BY <1>1 DEF Sessions
  <2>3. t \in Sessions /\ Follows(p, t)
    BY <1>1, <2>2, EditFacts, FollowsFacts
  <2>4. Refuse(p) \/ Answer(p, t, TRUE, TRUE)
    BY <1>15 DEF PasskeyVerifyBegin
  <2> HIDE DEF t
  <2>5. QED
    BY <1>3, <1>4, <2>1, <2>3, <2>4
<1>16. CASE PasskeyVerifyFinish(p)
  <2> DEFINE t == [s EXCEPT !.verifyCh = None]
  <2>1. pc[p] = "sent" /\ in[p].op = "passkeyVerifyFinish" /\ UNCHANGED verifs
    BY <1>16 DEF PasskeyVerifyFinish, Is
  <2>2. t \in Sessions /\ Follows(p, t)
    BY <1>1, EditFacts, FollowsFacts
  <2>3. \/ Refuse(p) \/ Answer(p, t, TRUE, FALSE)
        \/ Continue(p, "passkeyVerify", s.id) /\ ses' = [ses EXCEPT ![p] = t]
    BY <1>16 DEF PasskeyVerifyFinish
  <2> HIDE DEF t
  <2>4. CASE Continue(p, "passkeyVerify", s.id) /\ ses' = [ses EXCEPT ![p] = t]
    <3>1. "passkeyVerify" \in Steps
      BY DEF Steps
    <3>2. QED
      BY <2>1, <2>2, <2>4, <3>1, ContinueHandled
  <2>5. QED
    BY <1>3, <1>4, <2>1, <2>2, <2>3, <2>4
<1>17. CASE PasskeyUpsert(p) \/ PasskeyUpsertError(p)
  <2>1. /\ pc[p] \in {"passkeyLogin", "passkeyVerify"} /\ UNCHANGED verifs
        /\ in[p].op \in {"passkeyLoginFinish", "passkeyVerifyFinish"}
        /\ pc[p] = "passkeyLogin" => in[p].op = "passkeyLoginFinish"
    BY <1>17 DEF PasskeyUpsert, PasskeyUpsertError, At, HandlerOK
  <2>2. pc[p] = "passkeyLogin" => /\ SetupLogin(s, in[p].user, rec[p]) \in Sessions
                                  /\ Follows(p, SetupLogin(s, in[p].user, rec[p]))
    BY <1>1, <2>1, SetupLoginFacts, SetupLoginFollows DEF LoginOps
  <2>3. \/ \E a \in BOOLEAN : Answer(p, s, TRUE, a)
        \/ pc[p] = "passkeyLogin" /\ Answer(p, SetupLogin(s, in[p].user, rec[p]), TRUE, TRUE)
    <3>1. CASE PasskeyUpsertError(p)
      BY <3>1 DEF PasskeyUpsertError
    <3>2. CASE PasskeyUpsert(p) /\ pc[p] = "passkeyLogin"
      BY <3>2 DEF PasskeyUpsert, At
    <3>3. CASE PasskeyUpsert(p) /\ pc[p] # "passkeyLogin"
      BY <3>3 DEF PasskeyUpsert, At
    <3>4. QED
      BY <1>17, <3>1, <3>2, <3>3
  <2>4. QED
    BY <1>1, <1>4, <2>1, <2>2, <2>3, FollowsFacts
<1>18. QED
  BY <1>5, <1>6, <1>7, <1>8, <1>9, <1>10, <1>11, <1>12, <1>13, <1>14, <1>15,
     <1>16, <1>17 DEF Handle

\* The browser's side, for the same keys.
LEMMA SentFacts ==
    ASSUME TypeInv, NEW p \in Procs, NEW b \in Browsers, NEW i \in Inputs, Send(p, b, i)
    PROVE  /\ pc[p] = "idle" /\ pc'[p] = "sent" /\ in'[p] = i /\ br'[p] = b
           /\ ses'[p] = cookie[b]
           /\ \A q \in Procs \ {p} : /\ pc'[q] = pc[q] /\ in'[q] = in[q] /\ br'[q] = br[q]
                                     /\ ses'[q] = ses[q]
           /\ saved' = saved /\ cookie' = cookie /\ verifs' = verifs
           /\ out'[b] = (out[b] /\ i.op \notin LoginOps)
           /\ \A c \in Browsers \ {b} : out'[c] = out[c]
BY DEF Send, At, TypeInv, TypeOK

LEMMA ReceivedFacts ==
    ASSUME TypeInv, NEW p \in Procs, Receive(p)
    PROVE  /\ pc[p] = "reply" /\ pc'[p] = "idle" /\ ses'[p] = NoSession
           /\ \A q \in Procs \ {p} : /\ pc'[q] = pc[q] /\ in'[q] = in[q] /\ ses'[q] = ses[q]
                                     /\ saved'[q] = saved[q]
           /\ br' = br /\ verifs' = verifs
           /\ \A c \in Browsers \ {br[p]} : cookie'[c] = cookie[c] /\ out'[c] = out[c]
           /\ \/ cookie' = cookie /\ out' = out
              \/ /\ cookie'[br[p]] = IF saved[p] THEN ses[p] ELSE cookie[br[p]]
                 /\ out'[br[p]] => out[br[p]] \/ in[p].op = "logout"
<1>1. br[p] \in Browsers
  BY RequestFacts
<1>2. /\ pc[p] = "reply" /\ pc'[p] = "idle" /\ ses'[p] = NoSession
      /\ \A q \in Procs \ {p} : /\ pc'[q] = pc[q] /\ in'[q] = in[q] /\ ses'[q] = ses[q]
                                /\ saved'[q] = saved[q]
      /\ br' = br /\ verifs' = verifs
  BY DEF Receive, At, TypeInv, TypeOK
<1>3. CASE UNCHANGED <<cookie, out>>
  BY <1>2, <1>3
<1>4. CASE /\ cookie' = [cookie EXCEPT ![br[p]] = IF saved[p] THEN ses[p] ELSE cookie[br[p]]]
           /\ out' = [out EXCEPT ![br[p]] = \/ out[br[p]]
                                            \/ in[p].op = "logout" /\ ~LoginUnderWay(br[p])]
  <2>1. /\ cookie'[br[p]] = IF saved[p] THEN ses[p] ELSE cookie[br[p]]
        /\ \A c \in Browsers \ {br[p]} : cookie'[c] = cookie[c]
    BY <1>1, <1>4 DEF TypeInv, TypeOK
  <2>2. PICK o \in BOOLEAN : /\ out' = [out EXCEPT ![br[p]] = o]
                             /\ o => out[br[p]] \/ in[p].op = "logout"
    BY <1>1, <1>4 DEF TypeInv, TypeOK
  <2>3. out'[br[p]] = o /\ \A c \in Browsers \ {br[p]} : out'[c] = out[c]
    BY <1>1, <2>2 DEF TypeInv, TypeOK
  <2>4. QED
    BY <1>2, <2>1, <2>2, <2>3
<1>5. QED
  BY <1>3, <1>4 DEF Receive

\* Steps of others, of the clock, and steps that change nothing.
LEMMA AsideFacts ==
    ASSUME [Next]_vars,
           ~ \E p \in Procs, b \in Browsers, i \in Inputs : Send(p, b, i),
           ~ \E p \in Procs : Handle(p) \/ Receive(p)
    PROVE  UNCHANGED <<cookie, reqVars, histVars>>
<1>1. ASSUME NEW u, NEW r, ChangeUser(u, r) PROVE UNCHANGED <<cookie, reqVars, histVars>>
  BY <1>1 DEF ChangeUser
<1>2. QED
  BY <1>1 DEF Next, ManageUser, Toggle2FA, TogglePasskey, Tick, vars

LEMMA StampedMono ==
    ASSUME NEW f, NEW g, NEW s, Stamped(f, s), f \subseteq g
    PROVE  Stamped(g, s)
BY DEF Stamped

LEMMA HandlerInductive ==
    ASSUME TypeInv, \A p \in Procs : HandlerOK(p), [Next]_vars
    PROVE  \A p \in Procs : HandlerOK(p)'
<1> SUFFICES ASSUME NEW q \in Procs PROVE HandlerOK(q)'
  OBVIOUS
<1>1. ASSUME NEW p \in Procs, NEW b \in Browsers, NEW i \in Inputs, Send(p, b, i)
      PROVE  HandlerOK(q)'
  BY <1>1, SentFacts DEF HandlerOK
<1>2. ASSUME NEW p \in Procs, Handle(p) PROVE HandlerOK(q)'
  <2>1. Handled(p)
    BY <1>2, HandleFollows
  <2>2. QED
    BY <2>1 DEF Handled, HandlerOK
<1>3. ASSUME NEW p \in Procs, Receive(p) PROVE HandlerOK(q)'
  BY <1>3, ReceivedFacts DEF HandlerOK
<1>4. CASE UNCHANGED <<cookie, reqVars, histVars>>
  BY <1>4 DEF reqVars, HandlerOK
<1>5. QED
  BY <1>1, <1>2, <1>3, <1>4, AsideFacts

LEMMA VerifiedInductive ==
    ASSUME TypeInv, \A p \in Procs : HandlerOK(p), VerifiedInv, [Next]_vars
    PROVE  VerifiedInv'
<1>0. ASSUME NEW q \in Procs PROVE br[q] \in Browsers
  BY RequestFacts
<1>1. ASSUME NEW p \in Procs, NEW b \in Browsers, NEW i \in Inputs, Send(p, b, i)
      PROVE  VerifiedInv'
  <2>1. \A c \in Browsers : Stamped(verifs[c], cookie[c])
    BY DEF VerifiedInv
  <2>2. ASSUME NEW q \in Procs PROVE Stamped(verifs'[br'[q]], ses'[q])
    <3>1. CASE q = p
      BY <1>1, <2>1, <3>1, SentFacts
    <3>2. CASE q # p
      BY <1>1, <3>2, SentFacts DEF VerifiedInv
    <3>3. QED
      BY <3>1, <3>2
  <2>3. QED
    BY <1>1, <2>1, <2>2, SentFacts DEF VerifiedInv
<1>2. ASSUME NEW p \in Procs, Handle(p) PROVE VerifiedInv'
  <2>1. Handled(p)
    BY <1>2, HandleFollows
  <2>2. cookie' = cookie /\ br' = br /\ \A b \in Browsers : verifs[b] \subseteq verifs'[b]
    BY <2>1 DEF Handled
  <2>3. ASSUME NEW b \in Browsers PROVE Stamped(verifs'[b], cookie'[b])
    BY <2>2, StampedMono DEF VerifiedInv
  <2>4. ASSUME NEW q \in Procs PROVE Stamped(verifs'[br'[q]], ses'[q])
    <3>1. Stamped(verifs'[br[q]], ses[q])
      BY <1>0, <2>2, StampedMono DEF VerifiedInv
    <3>2. CASE q # p
      BY <2>1, <2>2, <3>1, <3>2 DEF Handled
    <3>3. CASE q = p
      BY <2>1, <2>2, <3>1, <3>3 DEF Handled, Follows, Stamped
    <3>4. QED
      BY <3>2, <3>3
  <2>5. QED
    BY <2>3, <2>4 DEF VerifiedInv
<1>3. ASSUME NEW p \in Procs, Receive(p) PROVE VerifiedInv'
  <2>1. Stamped(verifs[br[p]], ses[p])
    BY DEF VerifiedInv
  <2>2. ASSUME NEW b \in Browsers PROVE Stamped(verifs'[b], cookie'[b])
    <3>1. cookie'[b] = cookie[b] \/ (b = br[p] /\ cookie'[b] = ses[p])
      BY <1>3, ReceivedFacts
    <3>2. QED
      BY <1>3, <2>1, <3>1, ReceivedFacts DEF VerifiedInv
  <2>3. ASSUME NEW q \in Procs PROVE Stamped(verifs'[br'[q]], ses'[q])
    <3>1. CASE q = p
      BY <1>3, <3>1, ReceivedFacts DEF Stamped, NoSession
    <3>2. CASE q # p
      BY <1>3, <3>2, ReceivedFacts DEF VerifiedInv
    <3>3. QED
      BY <3>1, <3>2
  <2>4. QED
    BY <2>2, <2>3 DEF VerifiedInv
<1>4. CASE UNCHANGED <<cookie, reqVars, histVars>>
  BY <1>4 DEF reqVars, histVars, VerifiedInv
<1>5. QED
  BY <1>1, <1>2, <1>3, <1>4, AsideFacts

LEMMA LogoutInductive ==
    ASSUME TypeInv, LogoutInv, OneAtATime, [Next]_vars
    PROVE  LogoutInv'
<1>0. ASSUME NEW q \in Procs PROVE br[q] \in Browsers /\ HandlerOK(q) /\ LoggedOut(q)
  BY RequestFacts DEF LogoutInv
<1>1. \A q \in Procs : HandlerOK(q)'
  BY <1>0, HandlerInductive
<1>2. ASSUME NEW p \in Procs, NEW b \in Browsers, NEW i \in Inputs, Send(p, b, i)
      PROVE  LogoutInv'
  <2>1. \A c \in Browsers : out'[c] => out[c]
    BY <1>2, SentFacts
  <2>2. LogoutIsFinal'
    BY <1>2, <2>1, SentFacts DEF LogoutInv, LogoutIsFinal
  <2>3. ASSUME NEW q \in Procs PROVE LoggedOut(q)'
    <3>1. CASE q = p
      <4>1. in'[q] = i /\ br'[q] = b /\ ses'[q] = cookie[b] /\ out'[b] = (out[b] /\ i.op \notin LoginOps)
        BY <1>2, <3>1, SentFacts
      <4>2. out[b] => cookie[b].id = None
        BY DEF LogoutInv, LogoutIsFinal
      <4>3. QED
        BY <4>1, <4>2 DEF LoggedOut
    <3>2. CASE q # p
      BY <1>0, <1>2, <2>1, <3>2, SentFacts DEF LoggedOut
    <3>3. QED
      BY <3>1, <3>2
  <2>4. QED
    BY <1>1, <2>2, <2>3 DEF LogoutInv
<1>3. ASSUME NEW p \in Procs, Handle(p) PROVE LogoutInv'
  <2>1. Handled(p)
    BY <1>0, <1>3, HandleFollows
  <2>2. ASSUME NEW q \in Procs PROVE LoggedOut(q)'
    <3>1. CASE q = p
      BY <1>0, <2>1, <3>1 DEF LoggedOut, Handled, Follows
    <3>2. CASE q # p
      BY <1>0, <2>1, <3>2 DEF LoggedOut, Handled
    <3>3. QED
      BY <3>1, <3>2
  <2>3. LogoutIsFinal'
    BY <2>1 DEF Handled, LogoutInv, LogoutIsFinal
  <2>4. QED
    BY <1>1, <2>2, <2>3 DEF LogoutInv
<1>4. ASSUME NEW p \in Procs, Receive(p) PROVE LogoutInv'
  <2>1. pc[p] = "reply" /\ pc'[p] = "idle" /\ br' = br
    BY <1>4, ReceivedFacts
  <2>2. ASSUME NEW q \in Procs \ {p}, pc[q] # "idle" PROVE br[q] # br[p]
    BY <2>1, <2>2 DEF OneAtATime
  <2>3. ASSUME NEW q \in Procs PROVE LoggedOut(q)'
    <3>1. CASE q = p
      BY <2>1, <3>1 DEF LoggedOut
    <3>2. CASE q # p
      <4>1. /\ pc'[q] = pc[q] /\ in'[q] = in[q] /\ ses'[q] = ses[q]
            /\ br[q] # br[p] => out'[br[q]] = out[br[q]]
        BY <1>0, <1>4, <3>2, ReceivedFacts
      <4>2. QED
        BY <1>0, <2>1, <2>2, <3>2, <4>1 DEF LoggedOut
    <3>3. QED
      BY <3>1, <3>2
  <2>4. ASSUME NEW b \in Browsers, out'[b] PROVE cookie'[b].id = None
    <3>1. out[b] => cookie[b].id = None
      BY DEF LogoutInv, LogoutIsFinal
    <3>2. CASE b # br[p] \/ (cookie' = cookie /\ out' = out)
      BY <1>4, <2>4, <3>1, <3>2, ReceivedFacts
    <3>3. CASE /\ b = br[p]
               /\ cookie'[b] = IF saved[p] THEN ses[p] ELSE cookie[b]
               /\ out[b] \/ in[p].op = "logout"
      <4>1. CASE in[p].op = "logout"
        BY <1>0, <2>1, <3>3, <4>1 DEF HandlerOK
      <4>2. CASE out[b]
        BY <1>0, <2>1, <3>1, <3>3, <4>2 DEF LoggedOut
      <4>3. QED
        BY <3>3, <4>1, <4>2
    <3>4. QED
      BY <1>4, <2>4, <3>2, <3>3, ReceivedFacts
  <2>5. QED
    BY <1>1, <2>3, <2>4 DEF LogoutInv, LogoutIsFinal
<1>5. CASE UNCHANGED <<cookie, reqVars, histVars>>
  BY <1>1, <1>5 DEF reqVars, histVars, LogoutInv, LogoutIsFinal, LoggedOut
<1>6. QED
  BY <1>2, <1>3, <1>4, <1>5, AsideFacts

LEMMA KeysInitially == Init => VerifiedInv /\ LogoutInv
BY DEF Init, VerifiedInv, LogoutInv, LogoutIsFinal, HandlerOK, LoggedOut, Stamped, NoSession

\* A step that answers a status request is a step of its handler.
LEMMA StatusAnswered ==
    ASSUME TypeInv, \A q \in Procs : HandlerOK(q), [Next]_vars, NEW p \in Procs,
           pc[p] = "sent", in[p].op = "status", pc'[p] = "reply", ok'[p]
    PROVE  Verified(ses[p])
<1>1. ASSUME NEW q \in Procs, NEW b \in Browsers, NEW i \in Inputs, Send(q, b, i)
      PROVE  FALSE
  BY <1>1, SentFacts
<1>2. ASSUME NEW q \in Procs, Receive(q) PROVE FALSE
  BY <1>2, ReceivedFacts
<1>3. ASSUME NEW q \in Procs, Handle(q) PROVE Verified(ses[p])
  <2>1. Handled(q)
    BY <1>3, HandleFollows
  <2>2. q = p
    BY <2>1 DEF Handled
  <2>3. QED
    BY <2>1, <2>2 DEF Handled
<1>4. CASE UNCHANGED <<cookie, reqVars, histVars>>
  BY <1>4 DEF reqVars
<1>5. QED
  BY <1>1, <1>2, <1>3, <1>4, AsideFacts

\* GetVerificationStatus says "verified" only within the timeout of a
\* verification this browser passed, for any number of requests under way.
THEOREM VerificationFresh == Spec => VerifiedIsFresh
<1> DEFINE H == \A p \in Procs : HandlerOK(p)
           I == TypeInv /\ AuthorityInv /\ H /\ VerifiedInv
           A == \A p \in Procs : pc[p] = "sent" /\ in[p].op = "status" /\ pc'[p] = "reply"
                                 /\ ok'[p]
                   => \E v \in verifs[br[p]] : now - v[2] < Timeout
<1>1. Init => I
  BY InitOK, KeysInitially DEF LogoutInv
<1>2. I /\ [Next]_vars => I'
  BY NextKeeps, HandlerInductive, VerifiedInductive DEF Kept
<1>3. I /\ [Next]_vars => A
  <2> SUFFICES ASSUME I, [Next]_vars, NEW p \in Procs, pc[p] = "sent",
                      in[p].op = "status", pc'[p] = "reply", ok'[p]
               PROVE  \E v \in verifs[br[p]] : now - v[2] < Timeout
    OBVIOUS
  <2>1. ses[p].verified # 0 /\ now - ses[p].verified < Timeout
    BY StatusAnswered DEF Verified
  <2>2. Stamped(verifs[br[p]], ses[p])
    BY DEF VerifiedInv
  <2>3. QED
    BY <2>1, <2>2 DEF Stamped
<1>4. I /\ [Next]_vars => [A]_vars
  BY <1>3
<1> HIDE DEF I, A
<1>5. Spec => [][A]_vars
  BY <1>1, <1>2, <1>4, PTL DEF Spec
<1>6. QED
  BY <1>5 DEF VerifiedIsFresh, A

\* If every browser waits for its answers, a logout is final whatever other
\* browsers do: no session of a request under way brings the login back.
THEOREM LogoutFinal == Spec /\ []OneAtATime => []LogoutIsFinal
<1> DEFINE I == TypeInv /\ AuthorityInv /\ LogoutInv
<1>1. Init => I
  BY InitOK, KeysInitially
<1>2. I /\ OneAtATime /\ [Next]_vars => I'
  BY NextKeeps, LogoutInductive DEF Kept
<1>3. I => LogoutIsFinal
  BY DEF LogoutInv
<1> HIDE DEF I
<1>4. QED
  BY <1>1, <1>2, <1>3, PTL DEF Spec
=============================================================================
