---------------------------- MODULE AccountPage ----------------------------
(***************************************************************************)
(* The account page of the web console: PersonalSetting with its dialogs,  *)
(* AccountManagement and TwoFASetting (web/src/components/settings), and   *)
(* the handlers behind it.                                                 *)
(*                                                                         *)
(* A GET that repeats one in flight shares its answer (patchAPIInstance).  *)
(* The handlers that store an address, a WeChat account or a token read    *)
(* the user's row, change one field of the copy and write the copy back;   *)
(* requests are split there.  What happens inside the handlers of          *)
(* two-factor authentication is the matter of module TwoFA.                *)
(***************************************************************************)
EXTENDS Naturals, FiniteSets

CONSTANTS
  Addresses,  \* e-mail addresses, numbered from 1
  Tours       \* records [may, acts, faults, turnstile, user]: what the user does, the
              \* bounds, and the account the page is opened on

VARIABLES
  acct,   \* the page: see NewPage
  calls,  \* requests in flight
  usr,    \* the server: the user's row, passkey, two-factor record, mailed codes
  told,   \* the fields of the row as the answers reported them
  known,  \* what the user has seen: the secret in the app, batches of backup codes
  ghost,  \* lost: a request failed; overlap: one was sent while another was in flight;
          \* met: a row was written between the read and the write of another
  tour    \* what the user may still do, the bounds, a counter for fresh values

account_vars == <<acct, calls, usr, told, known, ghost, tour>>

-----------------------------------------------------------------------------
Row == {"email", "wechat", "token", "password"}

\* What the server keeps of the account: the row, passkey, two-factor record, mailed codes.
Accounts ==
  [email : Nat, wechat : Nat, token : Nat, password : Nat, deleted : BOOLEAN, root : BOOLEAN,
   pk : BOOLEAN, begun : BOOLEAN, tf : BOOLEAN, secret : Nat, codes : Nat, mailed : SUBSET Nat]

\* The parts of the page.
Deeds == {"email", "wechat", "token", "password", "delete", "passkey", "twofa"}

\* 0 stands for "none"; the page is not opened on an account that was deleted.
ASSUME ToursAssumption ==
  /\ Addresses \subseteq Nat \ {0}
  /\ Tours \subseteq [may : SUBSET Deeds, acts : Nat, faults : Nat, turnstile : BOOLEAN, user : Accounts]
  /\ \A o \in Tours : ~o.user.deleted

NewCard ==
  [enabled |-> FALSE,             \* status.enabled
   dialog |-> "none",             \* "setup", "disable", "codes"
   secret |-> 0, batch |-> 0,     \* setupData
   step |-> 0,                    \* currentStep
   typed |-> 0,                   \* verificationCode: a code of that secret
   agree |-> FALSE,               \* confirmDisable
   codes |-> 0]                   \* backupCodes

NewPage ==
  [open |-> TRUE, leaving |-> FALSE, dialog |-> "none", turnstile |-> FALSE,
   address |-> 0, wait |-> FALSE, busy |-> {},
   email |-> 0, token |-> 0, pk |-> FALSE, card |-> NewCard]

\* What the server has read for a request: nothing yet.
NoCopy == [f \in Row \cup {"pk", "tf"} |-> IF f \in Row THEN 0 ELSE FALSE]
Call(k, x, flags) == [id |-> tour.n + 1, kind |-> k, arg |-> x, st |-> "sent", copy |-> NoCopy, flags |-> flags]

\* The effect of PersonalSetting and of TwoFASetting when they are mounted.
Mounting ==
  {[id |-> 1, kind |-> "self", arg |-> <<0, 0>>, st |-> "sent", copy |-> NoCopy, flags |-> {}],
   [id |-> 2, kind |-> "tfStatus", arg |-> <<0, 0>>, st |-> "sent", copy |-> NoCopy, flags |-> {}]}

AccountInit ==
  /\ \E o \in Tours :
       /\ usr = o.user
       /\ tour = [may |-> o.may, acts |-> o.acts, faults |-> o.faults, turnstile |-> o.turnstile, n |-> 2]
       /\ acct = [NewPage EXCEPT !.open = o.may # {}]
       /\ calls = IF o.may = {} THEN {} ELSE Mounting
  /\ told = [f \in Row |-> usr[f]]
  /\ known = [app |-> usr.secret, codes |-> {usr.codes}]
  /\ ghost = [lost |-> FALSE, overlap |-> FALSE, met |-> FALSE]

-----------------------------------------------------------------------------
(* The page. *)

Card == acct.card
NoDialog == acct.dialog = "none" /\ Card.dialog = "none"
Doing(a) == acct.open /\ a \in tour.may /\ tour.acts > 0 /\ \A c \in calls : c.kind # "delete"

\* The page changes its own state.
Shows(ac) ==
  /\ acct' = ac
  /\ tour' = [tour EXCEPT !.acts = @ - 1]
  /\ UNCHANGED <<calls, usr, told, known, ghost>>

\* The GETs among the requests; a repeated one joins the one in flight.
Gets == {"self", "pkStatus", "token", "sendCode", "bindEmail", "bindWeChat", "tfStatus"}
Joined(S, c) ==
  LET same == {d \in S : c.kind \in Gets /\ d.kind = c.kind /\ d.arg = c.arg} IN
  IF same = {} THEN S \cup {c} ELSE (S \ same) \cup {[d EXCEPT !.flags = @ \cup c.flags] : d \in same}

\* The page sends a request and sets its loading flags.
Asks(k, x, flags, ac) ==
  /\ acct' = [ac EXCEPT !.busy = @ \cup flags]
  /\ calls' = Joined(calls, Call(k, x, flags))
  /\ ghost' = [ghost EXCEPT !.overlap = @ \/ calls # {}]
  /\ tour' = [tour EXCEPT !.acts = @ - 1, !.n = @ + 1]
  /\ UNCHANGED <<usr, told, known>>

\* The buttons of AccountManagement that open a dialog, and the dialogs' cancel.
OpenDialog(d) == Doing(d) /\ NoDialog /\ Shows([acct EXCEPT !.dialog = d])
CancelDialog == acct.dialog # "none" /\ Doing(acct.dialog) /\ ~(acct.dialog = "passkey" /\ "pkDel" \in acct.busy) /\ Shows([acct EXCEPT !.dialog = "none"])

\* The dialogs, open.
EmailBindModal == Doing("email") /\ acct.dialog = "email"
WeChatBindModal == Doing("wechat") /\ acct.dialog = "wechat"
ChangePasswordModal == Doing("password") /\ acct.dialog = "password"
AccountDeleteModal == Doing("delete") /\ acct.dialog = "delete"

generateAccessToken == Doing("token") /\ NoDialog /\ Asks("token", <<0, 0>>, {}, acct)

\* The address can be edited after the code was asked for.
typeAddress(a) == EmailBindModal /\ acct.address # a /\ Shows([acct EXCEPT !.address = a])
passTurnstile == EmailBindModal /\ tour.turnstile /\ ~acct.turnstile /\ Shows([acct EXCEPT !.turnstile = TRUE])

\* PersonalSetting.sendVerificationCode: without Turnstile only the countdown starts.
sendEmailCode ==
  /\ EmailBindModal /\ acct.address # 0 /\ ~acct.wait /\ "email" \notin acct.busy
  /\ IF tour.turnstile /\ ~acct.turnstile THEN Shows([acct EXCEPT !.wait = TRUE])
     ELSE Asks("sendCode", <<acct.address, 0>>, {"email"}, [acct EXCEPT !.wait = TRUE])

\* The code is one that was mailed, known by its address.
bindEmail(code) == EmailBindModal /\ code \in usr.mailed /\ Asks("bindEmail", <<acct.address, code>>, {"email"}, acct)

EmailCountdown ==
  /\ acct.open /\ acct.wait
  /\ acct' = [acct EXCEPT !.wait = FALSE]
  /\ UNCHANGED <<calls, usr, told, known, ghost, tour>>

bindWeChat(w) == WeChatBindModal /\ Asks("bindWeChat", <<w, 0>>, {}, acct)

\* The original password may be wrong; the new one is another.
changePassword(right) ==
  /\ ChangePasswordModal
  /\ Asks("password", <<IF right THEN told.password ELSE 0, tour.n + 1>>, {}, acct)

\* The user's name is typed.  It is alone: nothing else is under way.
deleteAccount == AccountDeleteModal /\ calls = {} /\ Asks("delete", <<0, 0>>, {}, acct)

\* The button registers a passkey or, once it shows one, asks to remove it.
handleRegisterPasskey == Doing("passkey") /\ NoDialog /\ ~acct.pk /\ "pkReg" \notin acct.busy /\ Asks("pkBegin", <<0, 0>>, {"pkReg"}, acct)
confirmRemovePasskey == OpenDialog("passkey") /\ acct.pk /\ "pkDel" \notin acct.busy
\* The confirmation stays until its handler has ended.
handleRemovePasskey == Doing("passkey") /\ acct.dialog = "passkey" /\ "pkDel" \notin acct.busy /\ Asks("pkDelete", <<0, 0>>, {"pkDel"}, acct)

PageStep ==
  \/ \E d \in {"email", "wechat", "password", "delete"} : OpenDialog(d)
  \/ CancelDialog \/ generateAccessToken \/ passTurnstile \/ sendEmailCode \/ EmailCountdown
  \/ \E a \in Addresses : typeAddress(a) \/ bindEmail(a)
  \/ \E w \in {1, 2} : bindWeChat(w)
  \/ \E right \in BOOLEAN : changePassword(right)
  \/ deleteAccount \/ handleRegisterPasskey \/ confirmRemovePasskey \/ handleRemovePasskey

-----------------------------------------------------------------------------
(* TwoFASetting. *)

CardIs(c) == [acct EXCEPT !.card = c]
CardIdle == "tf" \notin acct.busy
InDialog(d) == Doing("twofa") /\ Card.dialog = d

handleSetup2FA == Doing("twofa") /\ NoDialog /\ ~Card.enabled /\ CardIdle /\ Asks("tfSetup", <<0, 0>>, {"tf"}, acct)

\* The batches of backup codes the card displays.
BackupCodesDisplay(c) ==
  (IF c.dialog = "setup" /\ c.step = 1 THEN {c.batch} ELSE {}) \cup (IF c.dialog = "codes" /\ c.codes # 0 THEN {c.codes} ELSE {})

\* What the dialogs show, the user has seen.
Seen(c) ==
  known' = [app |-> IF c.dialog = "setup" /\ c.step = 0 THEN c.secret ELSE known.app,
            codes |-> known.codes \cup BackupCodesDisplay(c)]

\* Another step of the card's dialogs.
CardShows(c) ==
  /\ acct' = CardIs(c) /\ Seen(c)
  /\ tour' = [tour EXCEPT !.acts = @ - 1]
  /\ UNCHANGED <<calls, usr, told, ghost>>

\* renderSetupModalFooter
setupStep(n) == InDialog("setup") /\ n \in 0..2 /\ n \in {Card.step - 1, Card.step + 1} /\ CardShows([Card EXCEPT !.step = n])
CodeOf(right) == IF right THEN known.app ELSE 1
typeCode(right) ==
  /\ Doing("twofa") /\ (Card.dialog \in {"disable", "codes"} \/ (Card.dialog = "setup" /\ Card.step = 2)) /\ Card.typed # CodeOf(right)
  /\ CardShows([Card EXCEPT !.typed = CodeOf(right)])
confirmDisable == InDialog("disable") /\ CardShows([Card EXCEPT !.agree = ~@])

handleEnable2FA == InDialog("setup") /\ Card.step = 2 /\ Card.typed # 0 /\ CardIdle /\ Asks("tfEnable", <<Card.typed, 0>>, {"tf"}, acct)
handleDisable2FA == InDialog("disable") /\ Card.typed # 0 /\ Card.agree /\ CardIdle /\ Asks("tfDisable", <<Card.typed, 0>>, {"tf"}, acct)
handleRegenerateBackupCodes ==
  InDialog("codes") /\ Card.codes = 0 /\ Card.typed # 0 /\ CardIdle /\ Asks("tfCodes", <<Card.typed, 0>>, {"tf"}, acct)

openDisable == Doing("twofa") /\ NoDialog /\ Card.enabled /\ CardShows([Card EXCEPT !.dialog = "disable"])
openCodes == Doing("twofa") /\ NoDialog /\ Card.enabled /\ CardShows([Card EXCEPT !.dialog = "codes"])

\* Each dialog's onCancel clears its own part.
cancelCard ==
  /\ Doing("twofa") /\ Card.dialog # "none"
  /\ CardShows(CASE Card.dialog = "setup" -> [Card EXCEPT !.dialog = "none", !.secret = 0, !.batch = 0, !.step = 0, !.typed = 0]
                 [] Card.dialog = "disable" -> [Card EXCEPT !.dialog = "none", !.typed = 0, !.agree = FALSE]
                 [] OTHER -> [Card EXCEPT !.dialog = "none", !.typed = 0, !.codes = 0])

CardStep ==
  \/ handleSetup2FA \/ handleEnable2FA \/ handleDisable2FA \/ handleRegenerateBackupCodes
  \/ openDisable \/ openCodes \/ cancelCard \/ confirmDisable
  \/ \E n \in 0..2 : setupStep(n)
  \/ \E right \in BOOLEAN : typeCode(right)

-----------------------------------------------------------------------------
(* The server: the outcomes of a request. *)

Reads == {"self", "pkStatus", "tfStatus", "token", "bindEmail", "bindWeChat"}
WritesBack == {"token", "bindEmail", "bindWeChat"}

\* The handler reads the row it answers with or writes back.
Read(c) ==
  /\ c.kind \in Reads /\ c.st = "sent"
  /\ calls' = (calls \ {c}) \cup {[c EXCEPT !.st = "read", !.copy = [f \in DOMAIN NoCopy |-> usr[f]]]}
  /\ UNCHANGED <<acct, usr, told, known, ghost, tour>>

\* User.Update writes every field of the copy that is not zero.
Update(u, new) == [f \in DOMAIN u |-> IF f \in Row /\ new[f] # 0 THEN new[f] ELSE u[f]]

No(c) == [ok |-> FALSE, usr |-> usr, data |-> 0]
Yes(u, x) == [ok |-> TRUE, usr |-> u, data |-> x]

\* Mutant: the address is set before the row is read.
EmailBindUnset(c) == {No(c), Yes(Update(usr, c.copy), c.arg[1])}
EmailBind(c) == IF c.arg[1] # c.arg[2] THEN {No(c)} ELSE {No(c), Yes(Update(usr, [c.copy EXCEPT !.email = c.arg[1]]), c.arg[1])}
WeChatBind(c) == {No(c), Yes(Update(usr, [c.copy EXCEPT !.wechat = c.arg[1]]), c.arg[1])}
GenerateAccessToken(c) == {No(c), Yes(Update(usr, [c.copy EXCEPT !.token = c.id]), c.id)}
UpdateSelf(c) == IF c.arg[1] # usr.password THEN {No(c)} ELSE {No(c), Yes([usr EXCEPT !.password = c.arg[2]], c.arg[2])}
DeleteSelf(c) == IF usr.root THEN {No(c)} ELSE {Yes([usr EXCEPT !.deleted = TRUE], 0)}
SendEmailVerification(c) == {No(c), Yes([usr EXCEPT !.mailed = @ \cup {c.arg[1]}], 0)}

PasskeyRegisterBegin(c) == {No(c), Yes([usr EXCEPT !.begun = TRUE], 0)}
PasskeyRegisterFinish(c) == IF ~usr.begun THEN {No(c)} ELSE {[No(c) EXCEPT !.usr.begun = FALSE], Yes([usr EXCEPT !.begun = FALSE, !.pk = TRUE], 0)}
PasskeyDelete(c) == {No(c), Yes([usr EXCEPT !.pk = FALSE], 0)}

Setup2FA(c) == IF usr.tf THEN {No(c)} ELSE {Yes([usr EXCEPT !.secret = c.id, !.codes = c.id], c.id)}
Enable2FA(c) == IF usr.tf \/ c.arg[1] # usr.secret THEN {No(c)} ELSE {No(c), Yes([usr EXCEPT !.tf = TRUE], 0)}
Disable2FA(c) == IF ~usr.tf \/ c.arg[1] # usr.secret THEN {No(c)} ELSE {No(c), Yes([usr EXCEPT !.tf = FALSE, !.secret = 0, !.codes = 0], 0)}
RegenerateBackupCodes(c) == IF ~usr.tf \/ c.arg[1] # usr.secret THEN {No(c)} ELSE {No(c), Yes([usr EXCEPT !.codes = c.id], c.id)}

Outcomes(c) ==
  IF c.kind \in Reads /\ c.st = "sent" THEN {} ELSE
  CASE c.kind \in {"self", "pkStatus", "tfStatus"} -> {Yes(usr, 0)}
    [] c.kind = "token" -> GenerateAccessToken(c)
    [] c.kind = "bindEmail" -> EmailBind(c)
    [] c.kind = "bindWeChat" -> WeChatBind(c)
    [] c.kind = "password" -> UpdateSelf(c)
    [] c.kind = "delete" -> DeleteSelf(c)
    [] c.kind = "sendCode" -> SendEmailVerification(c)
    [] c.kind = "pkBegin" -> PasskeyRegisterBegin(c)
    [] c.kind = "pkCreate" -> {No(c), Yes(usr, 0)}
    [] c.kind = "pkFinish" -> PasskeyRegisterFinish(c)
    [] c.kind = "pkDelete" -> PasskeyDelete(c)
    [] c.kind = "tfSetup" -> Setup2FA(c)
    [] c.kind = "tfEnable" -> Enable2FA(c)
    [] c.kind = "tfDisable" -> Disable2FA(c)
    [] c.kind = "tfCodes" -> RegenerateBackupCodes(c)

-----------------------------------------------------------------------------
(* The page and the answers. *)

\* Mutant: new codes are taken over only while their dialog is open.
CodesTakenIfOpen(x) == IF Card.dialog = "codes" THEN x ELSE 0
CodesTaken(x) == x

CardAfter(c, o) ==
  CASE c.kind = "tfStatus" -> [Card EXCEPT !.enabled = c.copy.tf]
    [] c.kind = "tfSetup" /\ o.ok -> [Card EXCEPT !.dialog = "setup", !.secret = o.data, !.batch = o.data, !.step = 0]
    [] c.kind = "tfEnable" /\ o.ok -> [Card EXCEPT !.dialog = IF @ = "setup" THEN "none" ELSE @, !.typed = 0, !.step = 0]
    [] c.kind = "tfDisable" /\ o.ok -> [Card EXCEPT !.dialog = IF @ = "disable" THEN "none" ELSE @, !.typed = 0, !.agree = FALSE]
    [] c.kind = "tfCodes" /\ o.ok -> [Card EXCEPT !.codes = CodesTaken(o.data), !.typed = 0]
    [] OTHER -> Card

Closing(d) == IF acct.dialog = d THEN "none" ELSE acct.dialog

\* The loading flags of a handler are cleared when it ends.
Released(ac, flags) == [ac EXCEPT !.busy = @ \ flags, !.dialog = IF "pkDel" \in flags /\ @ = "passkey" THEN "none" ELSE @]

\* The handlers of PersonalSetting.
PageAfter(c, o) ==
  CASE c.kind = "self" -> [acct EXCEPT !.email = c.copy.email]
    [] c.kind = "pkStatus" -> [acct EXCEPT !.pk = c.copy.pk]
    [] c.kind = "token" /\ o.ok -> [acct EXCEPT !.token = o.data]
    [] c.kind = "bindEmail" /\ o.ok -> [acct EXCEPT !.email = o.data, !.dialog = Closing("email")]
    [] c.kind = "bindWeChat" /\ o.ok -> [acct EXCEPT !.dialog = Closing("wechat")]
    [] c.kind = "password" -> [acct EXCEPT !.dialog = IF o.ok THEN IF @ \in {"password", "wechat"} THEN "none" ELSE @ ELSE Closing("password")]
    [] c.kind = "delete" /\ o.ok -> [acct EXCEPT !.leaving = TRUE, !.open = FALSE]
    [] OTHER -> acct

\* The request a handler sends next.  Mutant: a removal is not followed by a look at the server.
NextCallNoReload(c, o) ==
  CASE c.kind = "self" -> "pkStatus"
    [] c.kind = "pkBegin" /\ o.ok -> "pkCreate"
    [] c.kind = "pkCreate" /\ o.ok -> "pkFinish"
    [] c.kind \in {"tfEnable", "tfDisable", "tfCodes"} /\ o.ok -> "tfStatus"
    [] OTHER -> "none"
NextCall(c, o) ==
  CASE c.kind = "self" -> "pkStatus"
    [] c.kind = "pkBegin" /\ o.ok -> "pkCreate"
    [] c.kind = "pkCreate" /\ o.ok -> "pkFinish"
    [] c.kind \in {"pkFinish", "pkDelete"} /\ o.ok -> "pkStatus"
    [] c.kind \in {"tfEnable", "tfDisable", "tfCodes"} /\ o.ok -> "tfStatus"
    [] OTHER -> "none"

\* fetchStatus is not waited for; the others keep the loading flag of their handler.
FlagsKept(c, o) == IF NextCall(c, o) \in {"none", "tfStatus"} THEN {} ELSE c.flags

FieldOf(k) == CASE k = "bindEmail" -> "email" [] k = "bindWeChat" -> "wechat" [] OTHER -> k
ToldAfter(c, o) == IF o.ok /\ FieldOf(c.kind) \in Row THEN [told EXCEPT ![FieldOf(c.kind)] = o.data] ELSE told

\* A write that falls between the read and the write of another request.
Meets(c, o) == o.usr # usr /\ \E d \in calls \ {c} : d.kind \in WritesBack /\ d.st = "read"

\* The handler's write and the arrival of its answer are one step: the page gets its answers
\* in the order of the writes.
Answer(c) ==
  \E o \in Outcomes(c) :
    LET page == PageAfter(c, o)
        card == CardAfter(c, o)
        next_kind == NextCall(c, o)
    IN
    /\ usr' = o.usr
    /\ told' = ToldAfter(c, o)
    /\ acct' = [Released(page, c.flags \ FlagsKept(c, o)) EXCEPT !.card = card]
    /\ Seen(card)
    /\ calls' = IF next_kind = "none" THEN calls \ {c} ELSE Joined(calls \ {c}, Call(next_kind, <<0, 0>>, FlagsKept(c, o)))
    /\ tour' = IF next_kind = "none" THEN tour ELSE [tour EXCEPT !.n = @ + 1]
    /\ ghost' = [ghost EXCEPT !.met = @ \/ Meets(c, o), !.overlap = @ \/ (next_kind # "none" /\ c.kind # "self" /\ calls # {c})]

\* The request or its answer is lost.  The e-mail handlers catch nothing: their flag stays.
Lost(c) ==
  /\ tour.faults > 0 /\ c.kind # "pkCreate"
  /\ acct' = IF c.flags = {"email"} THEN acct ELSE Released(acct, c.flags)
  /\ calls' = calls \ {c}
  /\ \E u \in {usr} \cup {o.usr : o \in Outcomes(c)} :
       usr' = u /\ ghost' = [ghost EXCEPT !.lost = TRUE, !.met = @ \/ Meets(c, [usr |-> u])]
  /\ tour' = [tour EXCEPT !.faults = @ - 1]
  /\ UNCHANGED <<told, known>>

AccountNext == PageStep \/ CardStep \/ \E c \in calls : Read(c) \/ Answer(c) \/ Lost(c)

-----------------------------------------------------------------------------
AccountTypeOK ==
  /\ acct.dialog \in {"none", "email", "wechat", "password", "delete", "passkey"}
  /\ acct.busy \subseteq {"email", "pkReg", "pkDel", "tf"}
  /\ Card.dialog \in {"none", "setup", "disable", "codes"} /\ Card.step \in 0..2
  /\ \A f \in Row : usr[f] \in Nat

(* When the requests were answered one at a time the page shows the        *)
(* account as it is: the address, the passkey and the state of two-factor  *)
(* authentication (each handler refreshes its own part after its change).  *)
ShowsAccount ==
  ~ghost.lost /\ ~ghost.overlap /\ calls = {} /\ acct.open =>
    acct.email = usr.email /\ acct.pk = usr.pk /\ Card.enabled = usr.tf

(* What an answer reported as stored is stored, although every handler     *)
(* writes back fields it has not changed, unless a request was lost or one *)
(* row was written between the read and the write of another (Update).     *)
ReportedKept == ~ghost.lost /\ ~ghost.met /\ calls = {} => \A f \in Row : told[f] = usr[f]

(* With two-factor authentication on, the user has the secret in the app   *)
(* and was shown the backup codes in force, or the page still holds them,  *)
(* whatever dialogs were closed in between (TwoFASetting).                 *)
CodesAreKnown ==
  usr.tf /\ ~ghost.lost /\ calls = {} =>
    known.app = usr.secret /\ usr.codes \in known.codes \cup {Card.codes}

(* The account is as the page reported it, shows it and handed it out.     *)
AccountIsAsReported == AccountTypeOK /\ ReportedKept /\ ShowsAccount /\ CodesAreKnown
=============================================================================
