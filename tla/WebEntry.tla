------------------------------ MODULE WebEntry ------------------------------
(***************************************************************************)
(* The way into the web console: the first-run setup and, once it is done, *)
(* the pages to sign in.  A tab that opens any page of a server without    *)
(* setup is sent to the wizard (SetupCheck); a wizard that finds the setup *)
(* done sends its tab to the home page.  Inside the console the account    *)
(* page is open; deleting the account ends with signing out.               *)
(***************************************************************************)
EXTENDS WebAuth, SetupWizard, AccountPage

entry_vars == <<web_vars, wizard_vars, account_vars>>

EntryInit ==
  /\ WebInit /\ WizardInit /\ AccountInit
  /\ setup <=> \E t \in Tabs : tab[t].route # "closed"
  /\ acct.open <=> "account" \in limits.may

\* The tab of a wizard that went home loads the home page.
SetupCheck(t) ==
  /\ wiz[t].at = "home"
  /\ wiz' = [wiz EXCEPT ![t].at = "closed"]
  /\ tab' = [tab EXCEPT ![t] = Load(@, "home", stored)]
  /\ UNCHANGED <<status, stored, cookie, reqs, srv, ghost_vars, limits, posts, server_vars, met, raced, failed, bounds, account_vars>>

\* Mutant: the account is deleted, the session stays.
SignedOutNot(t) == reqs
SignedOut(t) == reqs \cup {Request(t, tab[t], "logout", "", cookie)}

\* deleteAccount, once the account is deleted, signs out as the header does.
AccountLeaves(t) ==
  /\ acct.leaving /\ On(t, "console")
  /\ acct' = [acct EXCEPT !.leaving = FALSE]
  /\ reqs' = SignedOut(t) /\ limits' = Count(1)
  /\ overlap' = (overlap \/ reqs # {})
  /\ UNCHANGED <<status, stored, cookie, tab, srv, lost, crossed, wizard_vars, calls, usr, told, known, ghost, tour>>

EntryNext ==
  \/ WebNext /\ UNCHANGED <<wizard_vars, account_vars>>
  \/ WizardNext /\ UNCHANGED <<web_vars, account_vars>>
  \/ AccountNext /\ UNCHANGED <<web_vars, wizard_vars>>
  \/ \E t \in Tabs : AccountLeaves(t)
  \/ \E t \in Tabs : SetupCheck(t)

\* Requests are answered or fail, and timers fire; the user may stop at any time.
Fairness ==
  /\ WF_entry_vars((\E r \in reqs : Deliver(r)) /\ UNCHANGED <<wizard_vars, account_vars>>)
  /\ WF_entry_vars((\E t \in Tabs : RetryTimer(t)) /\ UNCHANGED <<wizard_vars, account_vars>>)

Spec == EntryInit /\ [][EntryNext]_entry_vars /\ Fairness

(* Whoever deleted the account is signed out: neither a session nor a      *)
(* stored user is left, unless a request was lost (deleteAccount).         *)
DeletedIsSignedOut ==
  usr.deleted /\ ~ghost.lost /\ ~lost /\ calls = {} /\ reqs = {} /\ ~acct.leaving =>
    stored = NoUser /\ cookie.user = NoUser

(* What the browser believes of its session is so, also after the account  *)
(* was deleted.                                                            *)
SessionAgrees == StoredIsSession /\ DeletedIsSignedOut
=============================================================================
