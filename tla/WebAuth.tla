------------------------------ MODULE WebAuth ------------------------------
(***************************************************************************)
(* Signing in and out in the web console: the login, registration and      *)
(* password-reset pages, the OAuth callback page, the route guards, and    *)
(* the axios instance they share (web/src/components/auth, helpers).       *)
(*                                                                         *)
(* The tabs of one browser share the stored user (localStorage) and the    *)
(* session cookie; each tab has its own API instance and its own user      *)
(* context.  The session lives in the cookie: a request carries the cookie *)
(* as it is when sent, and an answer that saves the session replaces it.   *)
(* (The instance's header names the stored user; the server never reads it.)*)
(***************************************************************************)
EXTENDS Naturals, FiniteSets, Sequences

CONSTANTS
  Tabs,        \* browser tabs
  Users,       \* users with a password
  TwoFAUsers,  \* the users among them with two-factor authentication
  MaxLinks,    \* bound: reset mails ever sent
  Visits       \* records [status, tab, stored, cookie, may, acts, faults]: the server's
               \* settings, the state of the browser, what the user does, and the bounds

VARIABLES
  status,   \* the server's settings, as every page read them from localStorage
  stored,   \* localStorage user
  cookie,   \* the session: user, pending (2FA), state (OAuth), passkey (a ceremony was begun)
  tab,      \* the tabs
  reqs,     \* requests in flight
  srv,      \* the server: owner of the third-party account, reset links, used codes
  lost,     \* a request failed
  overlap,  \* a request was sent while another was in flight
  crossed,  \* someone signed in while a third-party login was under way
  limits    \* what the user still does (may) and how often (acts), faults, last request id

ghost_vars == <<lost, overlap, crossed>>
web_vars == <<status, stored, cookie, tab, reqs, srv, ghost_vars, limits>>

-----------------------------------------------------------------------------
NoUser == "nobody"
NoSession == [user |-> NoUser, pending |-> NoUser, state |-> 0, passkey |-> FALSE]
NewUser == "newcomer"   \* the account a first third-party login creates
People == Users \cup {NewUser}

\* A page just mounted.
FreshPage ==
  [agreed |-> FALSE,     \* agreedToTerms
   email |-> FALSE,      \* showEmailLogin, showEmailRegister
   turnstile |-> FALSE,  \* turnstileToken is set
   twofa |-> FALSE,      \* showTwoFA
   wechat |-> FALSE,     \* showWeChatLoginModal
   github |-> "ready",   \* the GitHub button: "ready", "going" or "late"
   busy |-> {},          \* loading flags
   wait |-> FALSE,       \* disableButton and its countdown
   token |-> 0,          \* the reset link the page was opened with
   password |-> 0,       \* newPassword
   retry |-> 0, state |-> 0, purpose |-> "none"]  \* the OAuth flow the page belongs to

Closed == [route |-> "closed", guarded |-> FALSE, shown |-> NoUser, mount |-> 0, page |-> FreshPage]

\* AuthRedirect, PrivateRoute and the table of routes: where a path leads when s is stored.
\* No route matches /console/token.
Route(path, s) ==
  CASE path \in {"login", "register"} -> IF s # NoUser THEN "console" ELSE path
    [] path = "console" -> IF s = NoUser THEN "login" ELSE path
    [] path = "console/token" -> "notfound"
    [] OTHER -> path

Cookies == [user : People \cup {NoUser}, pending : Users \cup {NoUser}, state : Nat, passkey : BOOLEAN]
Routes == {"closed", "home", "login", "register", "reset", "confirm", "provider", "callback", "console", "notfound"}

\* No name is one of the marks an answer can carry instead of a name.
ASSUME NamesAssumption == IsFiniteSet(Tabs) /\ {NoUser, NewUser, "", "2fa", "bind"} \cap Users = {} /\ TwoFAUsers \subseteq Users

\* A visit starts in a browser that is signed in or not, on pages the guards admit to and no
\* third-party login under way, with a server that has reset no password; the link last sent,
\* if any, is among the links.  A visit to the account page is about nothing else.
ASSUME VisitsAssumption ==
  \A v \in Visits :
    /\ v.srv \in [owner : People \cup {NoUser}, links : Nat, link : Nat, used : SUBSET Nat, done : {<<>>}, surprise : {FALSE}]
    /\ v.srv.link <= v.srv.links
    /\ v.cookie \in Cookies /\ v.stored = v.cookie.user
    /\ v.tab \in [Tabs -> [route : Routes \ {"provider", "callback"}, guarded : BOOLEAN, shown : {NoUser, v.stored}, mount : Nat,
                           page : {FreshPage}]]
    /\ \A t \in Tabs : v.tab[t].route # "closed" => v.tab[t].shown = v.stored /\ v.tab[t].route = Route(v.tab[t].route, v.stored)
    /\ v.acts \in Nat /\ v.faults \in Nat
    /\ "account" \in v.may => v.may = {"account"}

\* navigate: a page of the same document is replaced by another.
Navigate(tb, path, s) == [tb EXCEPT !.route = Route(path, s), !.mount = @ + 1, !.page = FreshPage]

\* updateAPI: the new instance has no response interceptor.
updateAPI(tb) == [tb EXCEPT !.guarded = FALSE]

\* A document is loaded: the API instance is new, loadUser shows the stored user.
Load(tb, path, s) == [Navigate(tb, path, s) EXCEPT !.guarded = TRUE, !.shown = s]

Of(t) == {r \in reqs : r.tab = t}
Live(r) == tab[r.tab].mount = r.mount

\* Requests of tab t with the kind k, as the tab and the cookie are now.
Request(t, tb, k, x, c) ==
  [id |-> limits.id + 1, tab |-> t, mount |-> tb.mount, kind |-> k, arg |-> x,
   cookie |-> c, route |-> tb.route, agreed |-> tb.page.agreed, checked |-> FALSE]

Count(n) == [limits EXCEPT !.id = @ + n]

-----------------------------------------------------------------------------
(* What the user does. *)

Act(t, name) == name \in limits.may /\ limits.acts > 0 /\ tab[t].route # "closed"
Acted(n) == limits' = [limits EXCEPT !.acts = @ - 1, !.id = @ + n]

On(t, route) == tab[t].route = route
Page(t) == tab[t].page
Idle(t, k) == k \notin Page(t).busy

\* A page changes its own state.
SetPage(t, pg) ==
  /\ tab' = [tab EXCEPT ![t].page = pg] /\ Acted(0)
  /\ UNCHANGED <<status, stored, cookie, reqs, srv, ghost_vars>>

\* A page sends a request; flags are the loading flags it sets.
Send(t, k, x, pg) ==
  /\ tab' = [tab EXCEPT ![t].page = pg]
  /\ reqs' = reqs \cup {Request(t, tab[t], k, x, cookie)}
  /\ overlap' = (overlap \/ reqs # {})
  /\ Acted(1)
  /\ UNCHANGED <<status, stored, cookie, srv, lost, crossed>>

Busy(t, k) == [Page(t) EXCEPT !.busy = @ \cup {k}]
MethodsWithPage == {"wechat", "github", "discord", "oidc", "linuxdo", "telegram"}

\* The forms shown by the login and the registration page.
loginShowsEmail(t) == Page(t).email \/ status.methods \cap MethodsWithPage = {}
registerShowsEmail(t) == Page(t).email \/ status.methods \cap MethodsWithPage = {}

Agreed(t) == status.terms => Page(t).agreed
Checked(t) == status.turnstile => Page(t).turnstile
Modal(t) == Page(t).wechat \/ Page(t).twofa

-----------------------------------------------------------------------------
(* The login page. *)

OnLogin(t, name) == Act(t, name) /\ On(t, "login") /\ ~Modal(t)
LoginOption(t, m) == OnLogin(t, m) /\ m \in status.methods /\ ~loginShowsEmail(t)

loginAgree(t) == OnLogin(t, "agree") /\ status.terms /\ SetPage(t, [Page(t) EXCEPT !.agreed = ~@])
loginTurnstile(t) ==
  /\ Act(t, "turnstile") /\ On(t, "login") /\ status.turnstile /\ ~Page(t).turnstile
  /\ SetPage(t, [Page(t) EXCEPT !.turnstile = TRUE])

handleEmailLoginClick(t) == OnLogin(t, "email") /\ ~loginShowsEmail(t) /\ SetPage(t, [Page(t) EXCEPT !.email = TRUE])
handleOtherLoginOptionsClick(t) ==
  /\ OnLogin(t, "email") /\ Page(t).email /\ status.methods \cap MethodsWithPage # {}
  /\ SetPage(t, [Page(t) EXCEPT !.email = FALSE])

\* handleSubmit of the login form; u is the user whose name was typed.
loginSubmit(t, u) ==
  /\ OnLogin(t, "login") /\ loginShowsEmail(t) /\ Idle(t, "login")
  /\ Agreed(t) /\ Checked(t)
  /\ Send(t, "login", u, Busy(t, "login"))

\* Mutant: the terms are not asked for.
loginWeChatAnyhow(t) == LoginOption(t, "wechat") /\ SetPage(t, [Page(t) EXCEPT !.wechat = TRUE])
\* onWeChatLoginClicked
loginWeChat(t) == LoginOption(t, "wechat") /\ Agreed(t) /\ SetPage(t, [Page(t) EXCEPT !.wechat = TRUE])

\* onSubmitWeChatVerificationCode; the modal covers the page.
loginWeChatCode(t, u) ==
  /\ Act(t, "wechat") /\ On(t, "login") /\ Page(t).wechat /\ Idle(t, "wechat") /\ Checked(t)
  /\ Send(t, "wechat", u, Busy(t, "wechat"))
loginWeChatCancel(t) == Act(t, "wechat") /\ On(t, "login") /\ Page(t).wechat /\ SetPage(t, [Page(t) EXCEPT !.wechat = FALSE])

\* onTelegramLoginClicked: no loading flag.
loginTelegram(t, u) == LoginOption(t, "telegram") /\ Agreed(t) /\ Send(t, "telegram", u, Page(t))

\* handlePasskeyLogin, offered by both forms.
loginPasskey(t) ==
  /\ OnLogin(t, "passkey") /\ "passkey" \in status.methods /\ Idle(t, "passkey") /\ Agreed(t)
  /\ Send(t, "passkeyBegin", "", Busy(t, "passkey"))

\* Mutant: the third-party login starts without signing out.
loginGitHubStaying(t) ==
  /\ LoginOption(t, "github") /\ Agreed(t) /\ Page(t).github = "ready"
  /\ Send(t, "oauthState", "popup", [Page(t) EXCEPT !.github = "going"])
\* The third-party buttons start by signing out (shouldLogout).
loginGitHub(t) ==
  /\ LoginOption(t, "github") /\ Agreed(t) /\ Page(t).github = "ready"
  /\ Send(t, "oauthLogout", "popup", [Page(t) EXCEPT !.github = "going"])
loginDiscord(t) ==
  LoginOption(t, "discord") /\ Agreed(t) /\ Idle(t, "discord") /\ Send(t, "oauthLogout", "popup", Busy(t, "discord"))
loginOIDC(t) ==
  LoginOption(t, "oidc") /\ Agreed(t) /\ Idle(t, "oidc") /\ Send(t, "oauthLogout", "same", Busy(t, "oidc"))
loginLinuxDO(t) ==
  LoginOption(t, "linuxdo") /\ Agreed(t) /\ Idle(t, "linuxdo") /\ Send(t, "oauthLogout", "popup", Busy(t, "linuxdo"))

\* TwoFAVerification.handleSubmit; Enter submits also while a request is in flight.
TwoFASubmit(t) ==
  /\ Act(t, "twofa") /\ On(t, "login") /\ Page(t).twofa
  /\ Send(t, "twofa", "", Busy(t, "twofa"))
handleBackToLogin(t) == Act(t, "back") /\ On(t, "login") /\ Page(t).twofa /\ SetPage(t, [Page(t) EXCEPT !.twofa = FALSE])

LoginStep(t) ==
  \/ loginAgree(t) \/ loginTurnstile(t) \/ handleEmailLoginClick(t) \/ handleOtherLoginOptionsClick(t)
  \/ loginWeChat(t) \/ loginWeChatCancel(t) \/ loginPasskey(t)
  \/ loginGitHub(t) \/ loginDiscord(t) \/ loginOIDC(t) \/ loginLinuxDO(t)
  \/ TwoFASubmit(t) \/ handleBackToLogin(t)
  \/ \E u \in Users : loginSubmit(t, u) \/ loginWeChatCode(t, u) \/ loginTelegram(t, u)

-----------------------------------------------------------------------------
(* The registration page: the third-party buttons do not ask for the terms. *)

OnRegister(t, name) == Act(t, name) /\ On(t, "register") /\ ~Modal(t)
RegisterOption(t, m) == OnRegister(t, m) /\ m \in status.methods /\ ~registerShowsEmail(t)

registerAgree(t) == OnRegister(t, "agree") /\ status.terms /\ registerShowsEmail(t) /\ SetPage(t, [Page(t) EXCEPT !.agreed = ~@])
registerTurnstile(t) ==
  /\ Act(t, "turnstile") /\ On(t, "register") /\ status.turnstile /\ ~Page(t).turnstile
  /\ SetPage(t, [Page(t) EXCEPT !.turnstile = TRUE])
handleEmailRegisterClick(t) == OnRegister(t, "email") /\ ~registerShowsEmail(t) /\ SetPage(t, [Page(t) EXCEPT !.email = TRUE])
handleOtherRegisterOptionsClick(t) ==
  /\ OnRegister(t, "email") /\ Page(t).email /\ status.methods \cap MethodsWithPage # {}
  /\ SetPage(t, [Page(t) EXCEPT !.email = FALSE])

\* handleSubmit of the registration form; the button asks for the terms, not the handler.
registerSubmit(t) ==
  /\ OnRegister(t, "register") /\ registerShowsEmail(t) /\ Idle(t, "register")
  /\ Agreed(t) /\ Checked(t)
  /\ Send(t, "register", "", Busy(t, "register"))

sendVerificationCode(t) ==
  /\ OnRegister(t, "sendCode") /\ registerShowsEmail(t) /\ status.verify /\ Idle(t, "sendCode") /\ ~Page(t).wait
  /\ Checked(t)
  /\ Send(t, "sendCode", "", Busy(t, "sendCode"))

registerWeChat(t) == RegisterOption(t, "wechat") /\ SetPage(t, [Page(t) EXCEPT !.wechat = TRUE])
registerWeChatCode(t, u) ==
  /\ Act(t, "wechat") /\ On(t, "register") /\ Page(t).wechat /\ Idle(t, "wechat") /\ Checked(t)
  /\ Send(t, "wechat", u, Busy(t, "wechat"))
registerWeChatCancel(t) == Act(t, "wechat") /\ On(t, "register") /\ Page(t).wechat /\ SetPage(t, [Page(t) EXCEPT !.wechat = FALSE])
registerTelegram(t, u) == RegisterOption(t, "telegram") /\ Send(t, "telegram", u, Page(t))
registerGitHub(t) ==
  /\ RegisterOption(t, "github") /\ Page(t).github = "ready"
  /\ Send(t, "oauthLogout", "popup", [Page(t) EXCEPT !.github = "going"])
registerDiscord(t) == RegisterOption(t, "discord") /\ Idle(t, "discord") /\ Send(t, "oauthLogout", "popup", Busy(t, "discord"))
registerOIDC(t) == RegisterOption(t, "oidc") /\ Idle(t, "oidc") /\ Send(t, "oauthLogout", "same", Busy(t, "oidc"))
registerLinuxDO(t) == RegisterOption(t, "linuxdo") /\ Idle(t, "linuxdo") /\ Send(t, "oauthLogout", "popup", Busy(t, "linuxdo"))

RegisterStep(t) ==
  \/ registerAgree(t) \/ registerTurnstile(t) \/ handleEmailRegisterClick(t) \/ handleOtherRegisterOptionsClick(t)
  \/ registerSubmit(t) \/ sendVerificationCode(t) \/ registerWeChat(t) \/ registerWeChatCancel(t)
  \/ registerGitHub(t) \/ registerDiscord(t) \/ registerOIDC(t) \/ registerLinuxDO(t)
  \/ \E u \in Users : registerWeChatCode(t, u) \/ registerTelegram(t, u)

-----------------------------------------------------------------------------
(* The pages of the password reset. *)

\* PasswordResetForm.handleSubmit
resetSubmit(t) ==
  /\ Act(t, "resetMail") /\ On(t, "reset") /\ Idle(t, "resetMail") /\ ~Page(t).wait
  /\ Checked(t)
  /\ Send(t, "resetMail", "", [Busy(t, "resetMail") EXCEPT !.wait = TRUE])
resetTurnstile(t) ==
  /\ Act(t, "turnstile") /\ On(t, "reset") /\ status.turnstile /\ ~Page(t).turnstile
  /\ SetPage(t, [Page(t) EXCEPT !.turnstile = TRUE])

\* PasswordResetConfirm.handleSubmit: the button is off while it counts down and once a password is shown.
confirmSubmit(t) ==
  /\ Act(t, "reset") /\ On(t, "confirm") /\ Page(t).token # 0
  /\ Idle(t, "reset") /\ ~Page(t).wait /\ Page(t).password = 0
  /\ Send(t, "reset", Page(t).token, [Busy(t, "reset") EXCEPT !.wait = TRUE])

\* The countdown of the resend, reset and confirm buttons ends.
Countdown(t) ==
  /\ Page(t).wait
  /\ tab' = [tab EXCEPT ![t].page.wait = FALSE]
  /\ UNCHANGED <<status, stored, cookie, reqs, srv, ghost_vars, limits>>

ResetStep(t) == resetSubmit(t) \/ resetTurnstile(t) \/ confirmSubmit(t)

-----------------------------------------------------------------------------
(* The console, links and the address bar. *)

\* PersonalSetting.getUserData
getUserData(t) == Act(t, "self") /\ On(t, "console") /\ Send(t, "self", "", Page(t))
\* useHeaderBar.logout
logout(t) == Act(t, "logout") /\ On(t, "console") /\ Send(t, "logout", "", Page(t))
\* AccountManagement: the third-party account is bound to the user signed in.
bindAccount(t, m) ==
  /\ Act(t, "bind") /\ On(t, "console") /\ m \in status.methods \cap {"github", "discord", "linuxdo"}
  /\ Send(t, "oauthState", "bind", Page(t))
bindOIDC(t) == Act(t, "bind") /\ On(t, "console") /\ "oidc" \in status.methods /\ Send(t, "oauthState", "bindSame", Page(t))

\* A link of the page or the header.
FollowLink(t, path) ==
  /\ Act(t, "link") /\ tab[t].route \notin {"provider", "callback"} /\ ~Modal(t) /\ Route(path, stored) # tab[t].route
  /\ tab' = [tab EXCEPT ![t] = Navigate(@, path, stored)] /\ Acted(0)
  /\ UNCHANGED <<status, stored, cookie, reqs, srv, ghost_vars>>

\* The tab loads another address; the requests of its old document are dropped.
OpenPath(t, path) ==
  /\ "open" \in limits.may /\ limits.acts > 0 /\ Acted(0)
  /\ tab' = [tab EXCEPT ![t] = Load(@, path, stored)]
  /\ reqs' = reqs \ Of(t)
  /\ lost' = (lost \/ Of(t) # {})
  /\ UNCHANGED <<status, stored, cookie, srv, overlap, crossed>>

\* A link of a reset mail is opened.
OpenResetLink(t, n) ==
  /\ "reset" \in limits.may /\ limits.acts > 0 /\ Of(t) = {} /\ tab[t].page.token # n
  /\ tab' = [tab EXCEPT ![t] = [Load(@, "confirm", stored) EXCEPT !.page.token = n]] /\ Acted(0)
  /\ UNCHANGED <<status, stored, cookie, reqs, srv, ghost_vars>>

ConsoleStep(t) ==
  \/ getUserData(t) \/ logout(t) \/ bindOIDC(t)
  \/ \E m \in MethodsWithPage : bindAccount(t, m)
  \/ \E path \in {"home", "login", "register", "reset", "console"} : FollowLink(t, path)
  \/ \E path \in {"home", "login", "console"} : OpenPath(t, path)
  \/ \E n \in 1..srv.links : OpenResetLink(t, n)

-----------------------------------------------------------------------------
(* The third-party site and the timers of the buttons. *)

\* The provider sends the browser back with a code; OAuth2Callback sends it on.
ProviderReturns(t) ==
  /\ On(t, "provider")
  /\ LET tb == [Load(tab[t], "callback", stored) EXCEPT !.page.state = Page(t).state, !.page.purpose = Page(t).purpose] IN
     /\ tab' = [tab EXCEPT ![t] = tb]
     /\ reqs' = reqs \cup {Request(t, tb, "callback", Page(t).state, cookie)}
  /\ limits' = Count(1) /\ overlap' = (overlap \/ reqs # {})
  /\ UNCHANGED <<status, stored, cookie, srv, lost, crossed>>

\* Or without one, or the user closes the tab.
ProviderDenies(t) ==
  /\ On(t, "provider") /\ limits.faults > 0
  /\ tab' = [tab EXCEPT ![t] = Load(@, "console", stored)]
  /\ limits' = [limits EXCEPT !.faults = @ - 1]
  /\ UNCHANGED <<status, stored, cookie, reqs, srv, ghost_vars>>

\* The back-off of sendCode ends: the code is sent again.
RetryTimer(t) ==
  /\ On(t, "callback") /\ Page(t).wait
  /\ LET tb == [tab[t] EXCEPT !.page.wait = FALSE, !.page.retry = @ + 1] IN
     /\ tab' = [tab EXCEPT ![t] = tb]
     /\ reqs' = reqs \cup {Request(t, tb, "callback", Page(t).state, cookie)}
  /\ limits' = Count(1) /\ overlap' = (overlap \/ reqs # {})
  /\ UNCHANGED <<status, stored, cookie, srv, lost, crossed>>

\* Three seconds after a click on a third-party button.
SpinnerTimer(t, m) ==
  /\ m \in Page(t).busy \cap {"discord", "oidc", "linuxdo"}
  /\ tab' = [tab EXCEPT ![t].page.busy = @ \ {m}]
  /\ UNCHANGED <<status, stored, cookie, reqs, srv, ghost_vars, limits>>

\* Twenty seconds after a click on the GitHub button: it stays off.
GitHubTimer(t) ==
  /\ Page(t).github = "going"
  /\ tab' = [tab EXCEPT ![t].page.github = "late"]
  /\ UNCHANGED <<status, stored, cookie, reqs, srv, ghost_vars, limits>>

TimerStep(t) ==
  \/ (Countdown(t) /\ ~On(t, "callback")) \/ ProviderReturns(t) \/ ProviderDenies(t) \/ GitHubTimer(t)
  \/ \E m \in MethodsWithPage : SpinnerTimer(t, m)

-----------------------------------------------------------------------------
(* The server: the answers a request can get. *)

Refused(r) == [ok |-> FALSE, data |-> "", cookie |-> cookie, srv |-> srv]
Ok(x, c) == [ok |-> TRUE, data |-> x, cookie |-> c, srv |-> srv]
SignedIn(r, u) == [r.cookie EXCEPT !.user = u]

loginAnswers(r) ==
  {Refused(r), IF r.arg \in TwoFAUsers THEN Ok("2fa", [r.cookie EXCEPT !.pending = r.arg]) ELSE Ok(r.arg, SignedIn(r, r.arg))}
twofaAnswers(r) ==
  {Refused(r)} \cup (IF r.cookie.pending = NoUser THEN {} ELSE {Ok(r.cookie.pending, [SignedIn(r, r.cookie.pending) EXCEPT !.pending = NoUser])})
partnerAnswers(r) == {Refused(r), Ok(r.arg, SignedIn(r, r.arg))}
passkeyFinishAnswers(r) ==
  IF ~r.cookie.passkey THEN {Refused(r)}
  ELSE {[Refused(r) EXCEPT !.cookie = [r.cookie EXCEPT !.passkey = FALSE]]}
       \cup {Ok(u, [SignedIn(r, u) EXCEPT !.passkey = FALSE]) : u \in Users}

\* authHelper
accepts(r) == r.cookie.user # NoUser

\* The third-party handlers: the state must be the session's and the code unused; a
\* session with a user binds the account, one without signs its owner in.
callbackAnswers(r) ==
  LET used == [srv EXCEPT !.used = @ \cup {r.arg}]
      by == r.cookie.user
      owner == IF srv.owner = NoUser THEN NewUser ELSE srv.owner
  IN IF r.arg # r.cookie.state \/ r.arg \in srv.used THEN {Refused(r)} ELSE
     CASE by # NoUser /\ srv.owner # NoUser -> {[Refused(r) EXCEPT !.srv = used]}
       [] by # NoUser /\ srv.owner = NoUser ->
            {[ok |-> TRUE, data |-> "bind", cookie |-> cookie,
              srv |-> [used EXCEPT !.owner = by, !.surprise = @ \/ tab[r.tab].page.purpose = "login"]]}
       [] OTHER -> {[ok |-> TRUE, data |-> owner, cookie |-> SignedIn(r, owner), srv |-> [used EXCEPT !.owner = owner]]}

\* Mutant: the code is not deleted.
LinkAfterResetKept(r) == srv.link
\* ResetPassword deletes the code it was called with.
LinkAfterReset(r) == 0

\* ResetPassword after VerifyCodeWithKey.
resetAnswers(r) ==
  IF ~r.checked THEN {Refused(r)}
  ELSE {Refused(r),
        [ok |-> TRUE, data |-> "password", cookie |-> cookie,
         srv |-> [srv EXCEPT !.link = LinkAfterReset(r), !.done = Append(@, r.arg)]]}

mailAnswers(r) ==
  {Refused(r)} \cup (IF srv.links < MaxLinks THEN {[Ok("", cookie) EXCEPT !.srv = [srv EXCEPT !.links = @ + 1, !.link = srv.links + 1]]} ELSE {})

Answers(r) ==
  CASE r.kind = "login" -> loginAnswers(r)
    [] r.kind = "twofa" -> twofaAnswers(r)
    [] r.kind \in {"wechat", "telegram"} -> partnerAnswers(r)
    [] r.kind = "passkeyBegin" -> {Refused(r), Ok("", [r.cookie EXCEPT !.passkey = TRUE])}
    [] r.kind = "ceremony" -> {Refused(r), Ok("", cookie)}
    [] r.kind = "passkeyFinish" -> passkeyFinishAnswers(r)
    [] r.kind \in {"logout", "oauthLogout"} -> {Ok("", NoSession)}
    [] r.kind = "oauthState" -> {Ok("", [r.cookie EXCEPT !.state = r.id])}
    [] r.kind = "callback" -> callbackAnswers(r)
    [] r.kind = "self" -> {IF accepts(r) THEN Ok(r.cookie.user, cookie) ELSE Refused(r)}
    [] r.kind = "resetMail" -> mailAnswers(r)
    [] r.kind = "reset" -> resetAnswers(r)
    [] OTHER -> {Refused(r), Ok("", cookie)}

\* VerifyCodeWithKey, some time before the password is set.
VerifyCodeWithKey(r) ==
  /\ r.kind = "reset" /\ ~r.checked /\ srv.link = r.arg
  /\ reqs' = (reqs \ {r}) \cup {[r EXCEPT !.checked = TRUE]}
  /\ UNCHANGED <<status, stored, cookie, tab, srv, ghost_vars, limits>>

-----------------------------------------------------------------------------
(* What a page does with an answer.  A handler goes on after its page was  *)
(* left; only its page's state is then no more.                            *)

MAX_RETRIES == 3
Tab(r) == tab[r.tab]
OnPage(r, pg) == IF Live(r) THEN [Tab(r) EXCEPT !.page = pg] ELSE Tab(r)
NotBusy(r, k) == [Tab(r).page EXCEPT !.busy = @ \ {k}]

\* What is left of the loading flag when the request fails.
FlagOf(k) == CASE k \in {"passkeyBegin", "ceremony", "passkeyFinish"} -> "passkey" [] OTHER -> k

\* Mutant: a refusal leaves the flag set.
RefusedPageStuck(r) == Tab(r)
RefusedPage(r) == OnPage(r, NotBusy(r, FlagOf(r.kind)))

\* The user is dispatched and stored, the instance renewed, the page left.
SignIn(r, u, path) == updateAPI(Navigate([Tab(r) EXCEPT !.shown = u], path, u))

\* Each page's handler: where signing in leads.
loginLanding == "console"          \* LoginForm.handleSubmit
twofaLanding == "console"          \* LoginForm.handle2FASuccess
passkeyLanding == "console"        \* LoginForm.handlePasskeyLogin
callbackLanding == "console/token" \* OAuth2Callback.sendCode
partnerLanding == "home"           \* the WeChat and Telegram handlers
Landing(k) == CASE k = "login" -> loginLanding [] k = "twofa" -> twofaLanding [] k = "passkeyFinish" -> passkeyLanding
                [] k = "callback" -> callbackLanding [] OTHER -> partnerLanding

SignsIn(r, a) == a.ok /\ r.kind \in {"login", "twofa", "wechat", "telegram", "passkeyFinish", "callback"} /\ a.data \in People

\* Mutants: one attempt too many; the last failure is passed over in silence.
sendCodeOnceMore(r) ==
  IF Tab(r).page.retry <= MAX_RETRIES THEN OnPage(r, [Tab(r).page EXCEPT !.wait = TRUE]) ELSE Navigate(Tab(r), "console", stored)
sendCodeStays(r) ==
  IF Tab(r).page.retry < MAX_RETRIES THEN OnPage(r, [Tab(r).page EXCEPT !.wait = TRUE]) ELSE Tab(r)
\* sendCode waits and tries again, or gives up.
sendCodeFails(r) ==
  IF Tab(r).page.retry < MAX_RETRIES THEN OnPage(r, [Tab(r).page EXCEPT !.wait = TRUE]) ELSE Navigate(Tab(r), "console", stored)

\* The interceptor of the first instance: the stored user is removed, the document replaced.
showError401(r) == IF Tab(r).guarded THEN Load(Tab(r), "login", NoUser) ELSE Tab(r)

\* onOIDCClicked stays in the tab, the others open a new one.
SameTab(r) == r.kind = "oauthState" /\ r.arg \in {"same", "bindSame"}
Purpose(r) == IF r.arg \in {"bind", "bindSame"} THEN "bind" ELSE "login"
AtProvider(r, tb) == [tb EXCEPT !.page.state = r.id, !.page.purpose = Purpose(r)]

TabAfter(r, a) ==
  IF SignsIn(r, a) THEN SignIn(r, a.data, Landing(r.kind)) ELSE
  CASE r.kind = "login" /\ a.ok -> OnPage(r, [NotBusy(r, "login") EXCEPT !.twofa = TRUE])
    [] r.kind = "logout" -> Navigate([Tab(r) EXCEPT !.shown = NoUser], "login", NoUser)
    [] r.kind = "oauthLogout" -> updateAPI(Tab(r))
    [] r.kind = "oauthState" -> IF SameTab(r) THEN AtProvider(r, Load(Tab(r), "provider", stored)) ELSE Tab(r)
    [] r.kind = "callback" -> IF a.ok THEN Navigate(Tab(r), "console", stored) ELSE sendCodeFails(r)
    [] r.kind = "self" -> IF a.ok THEN [Tab(r) EXCEPT !.shown = a.data] ELSE showError401(r)
    [] r.kind \in {"passkeyBegin", "ceremony"} /\ a.ok -> Tab(r)
    [] r.kind = "register" /\ a.ok -> Navigate(Tab(r), "login", stored)
    [] r.kind = "sendCode" /\ a.ok -> OnPage(r, [NotBusy(r, "sendCode") EXCEPT !.wait = TRUE])
    [] r.kind = "reset" /\ a.ok -> OnPage(r, [NotBusy(r, "reset") EXCEPT !.password = Len(a.srv.done)])
    [] OTHER -> RefusedPage(r)

\* Mutant: signing out leaves the stored user.
StoredAfterLogoutKept == stored
StoredAfterLogout == NoUser

StoredAfter(r, a) ==
  CASE SignsIn(r, a) -> a.data
    [] r.kind \in {"logout", "oauthLogout"} -> StoredAfterLogout
    [] r.kind = "self" /\ a.ok -> a.data
    [] r.kind = "self" /\ ~a.ok /\ Tab(r).guarded -> NoUser
    [] OTHER -> stored

\* The request a handler sends next, with the cookie the answer brought.
NextKind(r, a) ==
  CASE r.kind = "oauthLogout" -> "oauthState"
    [] r.kind = "passkeyBegin" /\ a.ok -> "ceremony"
    [] r.kind = "ceremony" /\ a.ok -> "passkeyFinish"
    [] OTHER -> "none"
FollowUp(r, a) ==
  IF NextKind(r, a) = "none" THEN {}
  ELSE {[Request(r.tab, Tab(r), NextKind(r, a), r.arg, a.cookie) EXCEPT !.mount = r.mount, !.route = r.route, !.agreed = r.agreed]}

\* A document that was replaced drops its requests.
Dropped(r, a) == IF (r.kind = "self" /\ ~a.ok /\ Tab(r).guarded) \/ SameTab(r) THEN Of(r.tab) ELSE {r}

\* A new tab with the provider's page, when the browser allows it.
Popup(r) == AtProvider(r, [Closed EXCEPT !.route = "provider"])
PopupTabs(r) == IF r.kind = "oauthState" /\ ~SameTab(r) THEN {t \in Tabs : tab[t].route = "closed"} ELSE {}

\* A third-party login under way, other than by r.
LoginFlow(r) ==
  \/ \E q \in reqs \ {r} : q.kind = "oauthLogout" \/ (q.kind = "oauthState" /\ Purpose(q) = "login")
  \/ \E t \in Tabs : tab[t].route \in {"provider", "callback"} /\ tab[t].page.purpose = "login" /\ ~(t = r.tab /\ r.kind = "callback")

Deliver(r) ==
  \E a \in Answers(r) :
    /\ cookie' = a.cookie /\ srv' = a.srv
    /\ stored' = StoredAfter(r, a)
    /\ reqs' = (reqs \ Dropped(r, a)) \cup FollowUp(r, a)
    /\ limits' = Count(Cardinality(FollowUp(r, a)))
    /\ \/ tab' = [tab EXCEPT ![r.tab] = TabAfter(r, a)]
       \/ \E t \in PopupTabs(r) : tab' = [tab EXCEPT ![r.tab] = TabAfter(r, a), ![t] = Popup(r)]
    /\ overlap' = (overlap \/ (FollowUp(r, a) # {} /\ reqs # {r}))
    /\ crossed' = (crossed \/ (a.cookie # cookie /\ a.cookie.user # NoUser /\ LoginFlow(r)))
    /\ UNCHANGED <<status, lost>>

\* The request or its answer is lost.  The handlers of the reset pages and of the
\* header's logout do not catch that; prepareOAuthState goes on as if signed out.
TabAfterLoss(r) ==
  CASE r.kind \in {"resetMail", "reset", "logout", "oauthState", "self"} -> Tab(r)
    [] r.kind = "oauthLogout" -> updateAPI(Tab(r))
    [] r.kind = "callback" -> sendCodeFails(r)
    [] OTHER -> RefusedPage(r)

Fails(r) ==
  /\ limits.faults > 0 /\ r.kind # "ceremony"
  /\ tab' = [tab EXCEPT ![r.tab] = TabAfterLoss(r)]
  /\ stored' = IF r.kind = "oauthLogout" THEN NoUser ELSE stored
  /\ srv' \in {srv} \cup {a.srv : a \in Answers(r)}
  /\ LET more == IF r.kind = "oauthLogout" THEN FollowUp(r, [cookie |-> cookie, ok |-> FALSE]) ELSE {} IN
     /\ reqs' = (reqs \ {r}) \cup more
     /\ limits' = [limits EXCEPT !.faults = @ - 1, !.id = @ + Cardinality(more)]
  /\ lost' = TRUE
  /\ UNCHANGED <<status, cookie, overlap, crossed>>

-----------------------------------------------------------------------------
WebInit ==
  /\ \E v \in Visits :
       /\ status = v.status /\ stored = v.stored /\ cookie = v.cookie /\ tab = v.tab
       /\ srv = v.srv
       /\ limits = [may |-> v.may, acts |-> v.acts, faults |-> v.faults, id |-> 0]
  /\ reqs = {} /\ lost = FALSE /\ overlap = FALSE /\ crossed = FALSE

Served(r) == Deliver(r) \/ Fails(r) \/ VerifyCodeWithKey(r)

WebNext ==
  \/ \E t \in Tabs : LoginStep(t) \/ RegisterStep(t) \/ ResetStep(t) \/ ConsoleStep(t) \/ TimerStep(t) \/ RetryTimer(t)
  \/ \E r \in reqs : Served(r)

-----------------------------------------------------------------------------
Calm == ~lost /\ ~overlap
Open == {t \in Tabs : tab[t].route # "closed"}

WebTypeOK ==
  /\ stored \in People \cup {NoUser}
  /\ cookie \in [user : People \cup {NoUser}, pending : Users \cup {NoUser}, state : Nat, passkey : BOOLEAN]
  /\ \A t \in Tabs : tab[t].route \in {"closed", "home", "login", "register", "reset", "confirm", "provider", "callback", "console", "notfound"}
                     /\ tab[t].page.retry \in 0..MAX_RETRIES
  /\ \A r \in reqs : r.tab \in Tabs

(* Once requests are answered one at a time, the stored user, by which the *)
(* guards admit to the console, is the user of the session; and a browser  *)
(* with one tab shows that user (the sign-in handlers, logout and          *)
(* prepareOAuthState each write the two copies themselves).                *)
StoredIsSession ==
  Calm /\ reqs = {} =>
    /\ stored \in {NoUser, cookie.user}
    /\ Cardinality(Open) = 1 => \A t \in Open : tab[t].shown \in {NoUser, cookie.user}

(* A third-party sign-in signs in: it does not bind the account to a       *)
(* session that was still there, unless the sign-out before it was lost or *)
(* a session came back while it was under way (shouldLogout).              *)
SignInNeverBinds == srv.surprise => lost \/ crossed

(* With terms to agree to, no request to sign in leaves the login page     *)
(* without the agreement, whichever button and dialog it came through.     *)
(* (The third-party buttons of the registration page do not ask.)          *)
TermsFirst ==
  \A r \in reqs :
    status.terms /\ r.route = "login" /\ r.kind \in {"login", "wechat", "telegram", "passkeyBegin", "oauthLogout"} => r.agreed

(* A reset link sets one password, although it can be opened in two tabs   *)
(* and answers can be lost, unless two requests meet (ResetPassword).      *)
LinkWorksOnce == ~overlap => \A i, j \in DOMAIN srv.done : srv.done[i] = srv.done[j] => i = j

(* A loading flag that stands for a request is set only while that request *)
(* is under way, so a refusal or a loss releases the buttons of the login  *)
(* and registration pages.  The third-party buttons are not covered: their *)
(* flags wait for a timer, and githubButtonDisabled is never reset, so the *)
(* GitHub button stays disabled from its click until the page is left.     *)
NoStuckSpinner ==
  \A t \in Tabs : tab[t].route \in {"login", "register"} =>
    \A k \in tab[t].page.busy \ {"discord", "oidc", "linuxdo"} :
      \E r \in reqs : r.tab = t /\ Live(r) /\ FlagOf(r.kind) = k

(* The callback page is left in the end, whatever its attempts meet        *)
(* (sendCode's retries).                                                   *)
CallbackLeaves == []<>(\A t \in Tabs : tab[t].route # "callback")

(* The sign-in pages: no sign-in that binds instead, the terms of the      *)
(* login page before any attempt, and no loading flag without its request. *)
SignInPagesAreSound == WebTypeOK /\ SignInNeverBinds /\ TermsFirst /\ NoStuckSpinner
=============================================================================
