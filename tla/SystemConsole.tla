---------------------------- MODULE SystemConsole ----------------------------
(***************************************************************************)
(* The two panes of the console that save piecewise: the system settings   *)
(* (web/src/components/settings/SystemSetting.jsx), where each section has *)
(* its own submit and every checkbox saves at once, and the other settings *)
(* (OtherSetting.jsx), where each text has its own button.                 *)
(*                                                                         *)
(* What the user sees is in `form'.  The system pane keeps a copy in       *)
(* `inputs', replaced by all values of the form on every edit and, after a *)
(* save, by the copy the save started from: the two can disagree.          *)
(* Values are texts; "undefined" is the value of a missing key.            *)
(***************************************************************************)
EXTENDS Naturals, Sequences, FiniteSets, TLC

CONSTANTS Starts,  \* records [page, store, left]: the pane, the options stored, and the bounds: how
                   \* many edits, saves and faults, the fields edited and the sections saved
          Typed    \* texts the user types

VARIABLES
  page,    \* "system" or "other"
  loaded,  \* isLoaded: getOptions has shown the form
  form,    \* the values the form shows
  inputs,  \* the inputs state
  rev,     \* which object inputs is: 0 is the loaded one, which originInputs is too
  origin,  \* originInputs: as first loaded
  lists,   \* the lists kept outside the form, and the filter modes
  modal,   \* showPasswordLoginConfirmModal
  update,  \* showUpdateModal
  busy,    \* keys with loadingInput true
  jobs,    \* the saves started so far
  get,     \* the GET of the pane
  release, \* a question to GitHub is in flight
  store,   \* the server's options as GetOptions reads them: common.OptionMap
  first,   \* the options stored at the start
  touched, \* keys the user edited, or that a submitted well-known URL fills
  confirmed, \* the user has confirmed turning password login off
  left     \* what is left of the bounds

page_vars == <<loaded, form, inputs, rev, origin, lists, modal, update, busy>>
vars == <<page, page_vars, jobs, get, release, store, first, touched, confirmed, left>>

-----------------------------------------------------------------------------
(***************************************************************************)
(* The sections of the system pane: the keys sent on every submit, those   *)
(* sent when they differ from the value first loaded, and those sent when  *)
(* they differ and are not empty (the ones that hold secrets).             *)
(***************************************************************************)
Section(always, changed, secrets) == [always |-> always, changed |-> changed, secrets |-> secrets]

submitServerAddress == Section({"ServerAddress"}, {}, {})
submitWorker  == Section({"WorkerUrl", "WorkerAllowHttpImageRequestEnabled"}, {}, {})
submitSMTP    == Section({}, {"SMTPServer", "SMTPAccount", "SMTPFrom"}, {"SMTPPort", "SMTPToken"})
submitEmailDomainWhitelist == Section({"EmailDomainWhitelist"}, {}, {})
submitSSRF    == Section({"fetch_setting.domain_filter_mode", "fetch_setting.domain_list",
                          "fetch_setting.ip_filter_mode", "fetch_setting.ip_list",
                          "fetch_setting.allowed_ports"}, {}, {})
submitWeChat  == Section({}, {"WeChatServerAddress", "WeChatAccountQRCodeImageURL"}, {"WeChatServerToken"})
submitGitHubOAuth == Section({}, {"GitHubClientId"}, {"GitHubClientSecret"})
submitDiscordOAuth == Section({}, {"discord.client_id"}, {"discord.client_secret"})
submitOIDCSettings ==
  Section({}, {"oidc.well_known", "oidc.client_id", "oidc.authorization_endpoint",
               "oidc.token_endpoint", "oidc.user_info_endpoint"}, {"oidc.client_secret"})
submitTelegramSettings == Section({"TelegramBotToken", "TelegramBotName"}, {}, {})
submitTurnstile == Section({}, {"TurnstileSiteKey"}, {"TurnstileSecretKey"})
submitLinuxDOOAuth == Section({}, {"LinuxDOClientId", "LinuxDOMinimumTrustLevel"}, {"LinuxDOClientSecret"})
submitPasskeySettings ==
  Section({"passkey.rp_display_name", "passkey.rp_id", "passkey.user_verification",
           "passkey.attachment_preference", "passkey.origins"}, {}, {})

SectionNamed ==
  [ServerAddress |-> submitServerAddress, Worker |-> submitWorker, SMTP |-> submitSMTP,
   EmailDomainWhitelist |-> submitEmailDomainWhitelist, SSRF |-> submitSSRF, WeChat |-> submitWeChat,
   GitHubOAuth |-> submitGitHubOAuth, DiscordOAuth |-> submitDiscordOAuth,
   OIDC |-> submitOIDCSettings, Telegram |-> submitTelegramSettings, Turnstile |-> submitTurnstile,
   LinuxDOOAuth |-> submitLinuxDOOAuth, Passkey |-> submitPasskeySettings]
Sections == {SectionNamed[n] : n \in DOMAIN SectionNamed}

\* The checkboxes, each section's part of the rendered form.
SSRFBoxes    == {"fetch_setting.enable_ssrf_protection", "fetch_setting.allow_private_ip",
                 "fetch_setting.apply_ip_filter_for_domain"}
LoginBoxes   == {"PasswordLoginEnabled", "PasswordRegisterEnabled", "EmailVerificationEnabled",
                 "RegisterEnabled", "TurnstileCheckEnabled", "GitHubOAuthEnabled", "discord.enabled",
                 "LinuxDOOAuthEnabled", "WeChatAuthEnabled", "TelegramOAuthEnabled", "oidc.enabled"}
PasskeyBoxes == {"passkey.enabled", "passkey.allow_insecure_origin"}
EmailBoxes   == {"EmailDomainRestrictionEnabled", "EmailAliasRestrictionEnabled", "SMTPSSLEnabled"}
Checkboxes   == SSRFBoxes \cup LoginBoxes \cup PasskeyBoxes \cup EmailBoxes

\* Keys that end in "enabled" are sent one after the other before the rest.
EndsWithEnabled == (Checkboxes \ (SSRFBoxes \cup {"passkey.allow_insecure_origin"}))
                   \cup {"WorkerAllowHttpImageRequestEnabled"}

\* Kept outside the form: tag lists and the two filter modes.
ListKeys == submitSSRF.always \cup submitEmailDomainWhitelist.always
SectionKeys == UNION {s.always \cup s.changed \cup s.secrets : s \in Sections}
FormKeys == (SectionKeys \ ListKeys) \cup Checkboxes \cup {"WorkerValidKey"}

\* The texts of the other pane, each with a button of its own.
submitGeneral == {"Notice", "legal.user_agreement", "legal.privacy_policy"}
submitPersonalization == {"SystemName", "Logo", "HomePageContent", "About", "Footer"}
OtherKeys == submitGeneral \cup submitPersonalization

\* GetOptions leaves these out: the pane never learns them.
HiddenKeys == {"SMTPToken", "WeChatServerToken", "GitHubClientSecret", "TelegramBotToken",
               "TurnstileSecretKey", "TurnstileSiteKey", "LinuxDOClientSecret", "WorkerValidKey"}

Each(ks, v) == [k \in ks |-> v]
ValueOf(f, k) == IF k \in DOMAIN f THEN f[k] ELSE "undefined"

\* GET /api/option/ as the pane sees it.
Seen(s, k) == IF k \in HiddenKeys THEN "undefined" ELSE ValueOf(s, k)

toBoolean(text) == IF text \in {"true", "1"} THEN "true" ELSE "false"
removeTrailingSlash(url) == CASE url = "undefined" -> "" [] url = "a/" -> "a" [] OTHER -> url
Or(v, w) == IF v \in {"", "undefined"} THEN w ELSE v

\* What UpdateOption stores for a value: a missing one is formatted as <nil>.
Wire(v) == IF v = "undefined" THEN "<nil>" ELSE v

\* getOptions of the system pane: the value of a form field, and of a list.
FieldFrom(s, k) ==
  LET v == Seen(s, k)
  IN  IF v = "undefined" THEN v ELSE
      CASE k \in Checkboxes \cup {"WorkerAllowHttpImageRequestEnabled"} -> toBoolean(v)
        [] k = "passkey.user_verification" -> Or(v, "preferred")
        [] OTHER -> v

FirstLists == [k \in ListKeys |->
  CASE k \in {"fetch_setting.domain_filter_mode", "fetch_setting.ip_filter_mode"} -> "true"
    [] k = "EmailDomainWhitelist" -> ""
    [] OTHER -> "[]"]

ListFrom(s, k) == IF k \notin DOMAIN s THEN FirstLists[k]
                  ELSE IF s[k] # "bad" THEN s[k]
                  ELSE IF k = "fetch_setting.allowed_ports" THEN "[80,443]" ELSE "[]"

HiddenSecrets == (HiddenKeys \cap UNION {s.secrets : s \in Sections})

\* Options as this console stores them: an address without its slash, a list that parses, a
\* choice that is made.
AsStored(s) ==
  \A k \in DOMAIN s :
    /\ s[k] # "undefined"
    /\ k \in {"ServerAddress", "WorkerUrl"} => s[k] # "a/"
    /\ k = "WorkerAllowHttpImageRequestEnabled" => s[k] \in {"true", "false"}
    /\ k = "passkey.user_verification" => s[k] # ""
    /\ k \in ListKeys => s[k] # "bad"
    /\ k \in HiddenSecrets => s[k] # "<nil>"

\* A visit starts on such a server; InitOptionMap seeds the switch of the password login.
ASSUME StartsAssumption ==
  \A s \in Starts :
    /\ s.page \in {"system", "other"}
    /\ s.left \in [edits : Nat, saves : Nat, faults : Nat, edited : SUBSET STRING, sections : SUBSET DOMAIN SectionNamed]
    /\ AsStored(s.store)
    /\ s.page = "system" => "PasswordLoginEnabled" \in DOMAIN s.store

\* Nobody types what the server makes of a missing value.
ASSUME TypedAssumption == "<nil>" \notin Typed

-----------------------------------------------------------------------------
KeysOf(p) == IF p = "system" THEN FormKeys ELSE OtherKeys

Init ==
  /\ \E start \in Starts : page = start.page /\ store = start.store /\ left = start.left
  /\ first = store
  /\ loaded = FALSE
  /\ form = Each(KeysOf(page), "") /\ inputs = form /\ rev = 0
  /\ origin = Each(KeysOf(page), "undefined")
  /\ lists = FirstLists
  /\ modal = FALSE /\ update = FALSE /\ busy = {}
  /\ jobs = <<>> /\ get = [st |-> "sent", snap |-> <<>>] /\ release = FALSE
  /\ touched = {} /\ confirmed = FALSE

Spend(b) == left[b] > 0 /\ left' = [left EXCEPT ![b] = @ - 1]

-----------------------------------------------------------------------------
(***************************************************************************)
(* Loading.                                                                *)
(***************************************************************************)
GetRead ==
  /\ get.st = "sent"
  /\ get' = [st |-> "read", snap |-> store]
  /\ UNCHANGED <<page, page_vars, jobs, release, store, first, touched, confirmed, left>>

getOptions ==
  /\ page = "system" /\ get.st = "read"
  /\ get' = [get EXCEPT !.st = "done"]
  /\ inputs' = [k \in FormKeys |-> FieldFrom(get.snap, k)]
  /\ form' = inputs' /\ origin' = inputs' /\ rev' = 0
  /\ lists' = [k \in ListKeys |-> ListFrom(get.snap, k)]
  /\ loaded' = TRUE
  /\ UNCHANGED <<page, modal, update, busy, jobs, release, store, first, touched, confirmed, left>>

\* The other pane takes the keys it knows; one the server lacks is gone.
getOtherOptions ==
  /\ page = "other" /\ get.st = "read"
  /\ get' = [get EXCEPT !.st = "done"]
  /\ inputs' = [k \in OtherKeys |-> ValueOf(get.snap, k)]
  /\ form' = inputs'
  /\ loaded' = TRUE
  /\ UNCHANGED <<page, rev, origin, lists, modal, update, busy, jobs, release, store, first, touched, confirmed, left>>

\* The request is rejected: the system pane keeps showing the large spinner.
GetFails ==
  /\ get.st # "done"
  /\ Spend("faults")
  /\ get' = [get EXCEPT !.st = "done"]
  /\ UNCHANGED <<page, page_vars, jobs, release, store, first, touched, confirmed>>

\* Mutant: the form is there from the start.
FormShownAlways == page = "system"

\* The system pane renders its form only once it is loaded.
FormShown == page = "system" /\ loaded

-----------------------------------------------------------------------------
(***************************************************************************)
(* Editing the system pane.  A text control that is cleared leaves "" or   *)
(* no key at all, as the form library is set up to do.                     *)
(***************************************************************************)
handleFormChange(k) ==
  /\ FormShown /\ ~modal
  /\ k \in FormKeys \ Checkboxes
  /\ Spend("edits")
  /\ \E v \in (IF k = "WorkerAllowHttpImageRequestEnabled" THEN {"true", "false"} ELSE Typed) :
       v # form[k] /\ form' = [form EXCEPT ![k] = v]
  /\ inputs' = form' /\ rev' = rev + 1
  /\ touched' = touched \cup {k}
  /\ UNCHANGED <<page, loaded, origin, lists, modal, update, busy, jobs, get, release, store, first, confirmed>>

EditList(k) ==
  /\ FormShown /\ ~modal
  /\ Spend("edits")
  /\ \E v \in (CASE FirstLists[k] = "true" -> {"true", "false"}
                 [] k = "EmailDomainWhitelist" -> {"", "d"}
                 [] OTHER -> {"[]", "[x]"}) :
       v # lists[k] /\ lists' = [lists EXCEPT ![k] = v]
  /\ touched' = touched \cup {k}
  /\ UNCHANGED <<page, loaded, form, inputs, rev, origin, modal, update, busy, jobs, get, release, store, first, confirmed>>

\* Only a domain that is not in the whitelist yet is added.
handleAddEmail ==
  /\ FormShown /\ ~modal
  /\ Spend("edits")
  /\ lists["EmailDomainWhitelist"] = ""
  /\ lists' = [lists EXCEPT !["EmailDomainWhitelist"] = "d"]
  /\ touched' = touched \cup {"EmailDomainWhitelist"}
  /\ UNCHANGED <<page, loaded, form, inputs, rev, origin, modal, update, busy, jobs, get, release, store, first, confirmed>>

-----------------------------------------------------------------------------
(***************************************************************************)
(* Saving.  updateOptions sends the keys that end in "enabled" one after   *)
(* the other and stops at the first refusal, then all others at once.      *)
(***************************************************************************)
\* Mutant: everything goes out at once.
updateOptionsAtOnce(opts, closing) ==
  [opts |-> opts, closing |-> closing, held |-> inputs, rev |-> rev,
   st |-> IF DOMAIN opts \cap EndsWithEnabled = {} THEN "others" ELSE "boxes",
   put |-> [k \in DOMAIN opts |-> "sent"]]

updateOptions(opts, closing) ==
  LET boxes == DOMAIN opts \cap EndsWithEnabled
      now   == IF boxes = {} THEN DOMAIN opts ELSE boxes
  IN  [opts |-> opts, closing |-> closing, held |-> inputs, rev |-> rev,
       st |-> IF boxes = {} THEN "others" ELSE "boxes",
       put |-> [k \in DOMAIN opts |-> IF k \in now THEN "sent" ELSE "idle"]]

\* Mutant: an emptied secret is sent.
SentKeysWithEmpty(s, in) ==
  s.always \cup {k \in s.changed \cup s.secrets : origin[k] # in[k]}

\* The keys a submit of section s sends, given the inputs it reads.
SentKeys(s, in) ==
  s.always
  \cup {k \in s.changed : origin[k] # in[k]}
  \cup {k \in s.secrets : origin[k] # in[k] /\ in[k] # ""}

WorkerKey(s, in) ==
  {k \in {"WorkerValidKey"} : s = submitWorker /\ (in[k] # "" \/ removeTrailingSlash(in["WorkerUrl"]) = "")}

PasskeyValue(k, in) == Or(form[k], Or(in[k], IF k = "passkey.user_verification" THEN "preferred" ELSE ""))

ValueSent(k, in) ==
  CASE k \in ListKeys -> lists[k]
    [] k \in submitPasskeySettings.always -> PasskeyValue(k, in)
    [] k \in {"ServerAddress", "WorkerUrl", "WeChatServerAddress"} -> removeTrailingSlash(in[k])
    [] k = "WorkerAllowHttpImageRequestEnabled" -> IF in[k] = "true" THEN "true" ELSE "false"
    [] OTHER -> in[k]

Options(s, in) == [k \in SentKeys(s, in) \cup WorkerKey(s, in) |-> ValueSent(k, in)]

OIDCEndpoints == {"oidc.authorization_endpoint", "oidc.token_endpoint", "oidc.user_info_endpoint"}
FetchesFirst(s) == s = submitOIDCSettings /\ inputs["oidc.well_known"] \notin {"", "undefined"}

Submit(s) ==
  /\ FormShown /\ ~modal
  /\ Spend("saves")
  /\ IF FetchesFirst(s)
     THEN /\ jobs' = Append(jobs, [updateOptions(<<>>, FALSE) EXCEPT !.st = "fetch"])
          /\ touched' = touched \cup OIDCEndpoints
     ELSE /\ DOMAIN Options(s, inputs) # {}
          /\ jobs' = Append(jobs, updateOptions(Options(s, inputs), FALSE))
          /\ UNCHANGED touched
  /\ UNCHANGED <<page, page_vars, get, release, store, first, confirmed>>

Fetched(f) == [k \in DOMAIN f |-> IF k \in OIDCEndpoints THEN "b" ELSE f[k]]

\* The well-known document is written into the very object the submit read,
\* which originInputs still is when nothing was edited or saved since the load.
OIDCFetched(j) ==
  LET in   == Fetched(jobs[j].held)
      from == IF jobs[j].rev = 0 THEN Fetched(origin) ELSE origin
      opts == [k \in {k \in submitOIDCSettings.changed : from[k] # in[k]} \cup
                     {k \in submitOIDCSettings.secrets : from[k] # in[k] /\ in[k] # ""} |-> in[k]]
  IN  /\ jobs[j].st = "fetch"
      /\ jobs' = [jobs EXCEPT ![j] = [updateOptions(opts, FALSE) EXCEPT
                                        !.held = in, !.rev = jobs[j].rev,
                                        !.st = IF opts = <<>> THEN "done" ELSE "others"]]
      /\ origin' = from
      /\ inputs' = IF jobs[j].rev = rev THEN in ELSE inputs
      /\ UNCHANGED <<page, loaded, form, rev, lists, modal, update, busy, get, release, store, first, touched, confirmed, left>>

OIDCFetchFails(j) ==
  /\ jobs[j].st = "fetch"
  /\ Spend("faults")
  /\ jobs' = [jobs EXCEPT ![j].st = "failed"]
  /\ UNCHANGED <<page, page_vars, get, release, store, first, touched, confirmed>>

\* Mutant: password login is turned off without asking.
AsksFirstNever(k, v) == FALSE
AsksFirst(k, v) == k = "PasswordLoginEnabled" /\ v = "false"

\* A checkbox saves itself; the save reads the inputs from before the click.
handleCheckboxChange(k) ==
  LET v == IF form[k] = "true" THEN "false" ELSE "true"
  IN  /\ FormShown /\ ~modal
      /\ Spend("saves")
      /\ form' = [form EXCEPT ![k] = v]
      /\ inputs' = form' /\ rev' = rev + 1
      /\ touched' = touched \cup {k}
      /\ modal' = AsksFirst(k, v)
      /\ jobs' = IF AsksFirst(k, v) THEN jobs ELSE Append(jobs, updateOptions(Each({k}, v), FALSE))
      /\ UNCHANGED <<page, loaded, origin, lists, update, busy, get, release, store, first, confirmed>>

handlePasswordLoginConfirm ==
  /\ modal
  /\ Spend("saves")
  /\ jobs' = Append(jobs, updateOptions(Each({"PasswordLoginEnabled"}, "false"), TRUE))
  /\ confirmed' = TRUE
  /\ UNCHANGED <<page, page_vars, get, release, store, first, touched>>

\* onCancel puts the checkbox back; a confirmation in flight is not undone.
CancelConfirm ==
  /\ modal
  /\ modal' = FALSE
  /\ form' = [form EXCEPT !["PasswordLoginEnabled"] = "true"]
  /\ inputs' = form' /\ rev' = rev + 1
  /\ UNCHANGED <<page, loaded, origin, lists, update, busy, jobs, get, release, store, first, touched, confirmed, left>>

-----------------------------------------------------------------------------
(***************************************************************************)
(* The server, and the end of a save.                                      *)
(***************************************************************************)
\* UpdateOption refuses to enable a login method that is not configured.
Needs(k) == CASE k = "GitHubOAuthEnabled" -> "GitHubClientId"
              [] k = "discord.enabled" -> "discord.client_id"
              [] k = "oidc.enabled" -> "oidc.client_id"
              [] k = "LinuxDOOAuthEnabled" -> "LinuxDOClientId"
              [] k = "EmailDomainRestrictionEnabled" -> "EmailDomainWhitelist"
              [] k = "WeChatAuthEnabled" -> "WeChatServerAddress"
              [] k = "TurnstileCheckEnabled" -> "TurnstileSiteKey"
              [] k = "TelegramOAuthEnabled" -> "TelegramBotToken"
              [] OTHER -> "nothing"
Refuses(k, v) == v = "true" /\ Needs(k) # "nothing" /\ ValueOf(store, Needs(k)) \in {"", "undefined"}

UpdateOption(j, k) ==
  LET v == Wire(jobs[j].opts[k])
  IN  /\ jobs[j].put[k] = "sent"
      /\ jobs' = [jobs EXCEPT ![j].put[k] = IF Refuses(k, v) THEN "refused" ELSE "applied"]
      /\ store' = IF Refuses(k, v) THEN store
                  ELSE [i \in DOMAIN store \cup {k} |-> IF i = k THEN v ELSE store[i]]
      /\ UNCHANGED <<page, page_vars, get, release, first, touched, confirmed, left>>

Open(j) == jobs[j].st \in {"boxes", "others"}
Answered(j) == Open(j) /\ \A k \in DOMAIN jobs[j].put : jobs[j].put[k] # "sent"

\* All checkboxes were accepted: the other options go out together.
SendOthers(j) ==
  /\ page = "system" /\ Answered(j)
  /\ jobs[j].st = "boxes"
  /\ \A k \in DOMAIN jobs[j].put : jobs[j].put[k] # "refused"
  /\ \E k \in DOMAIN jobs[j].put : jobs[j].put[k] = "idle"
  /\ jobs' = [jobs EXCEPT ![j].st = "others",
                          ![j].put = [k \in DOMAIN @ |-> IF @[k] = "idle" THEN "sent" ELSE @[k]]]
  /\ UNCHANGED <<page, page_vars, get, release, store, first, touched, confirmed, left>>

RefusedBox(j) == jobs[j].st = "boxes" /\ \E k \in DOMAIN jobs[j].put : jobs[j].put[k] = "refused"

\* The end of updateOptions: refused checkboxes leave the inputs as they are,
\* other refusals are only shown.  The inputs become those the save started from.
UpdateEnds(j) ==
  /\ page = "system" /\ Answered(j)
  /\ RefusedBox(j) \/ \A k \in DOMAIN jobs[j].put : jobs[j].put[k] # "idle"
  /\ jobs' = [jobs EXCEPT ![j].st = IF RefusedBox(j) THEN "failed" ELSE "done"]
  /\ IF RefusedBox(j) THEN UNCHANGED <<inputs, rev>>
     ELSE inputs' = [k \in DOMAIN inputs |-> IF k \in DOMAIN jobs[j].opts THEN jobs[j].opts[k]
                                             ELSE jobs[j].held[k]]
          /\ rev' = rev + 1
  /\ modal' = (modal /\ ~jobs[j].closing)
  /\ UNCHANGED <<page, loaded, form, origin, lists, update, busy, get, release, store, first, touched, confirmed, left>>

\* Mutant: an error escapes and the modal stays.
ModalAfterFailureKept(j) == modal
ModalAfterFailure(j) == modal /\ ~jobs[j].closing

\* Mutant: the button is released in the try block only.
BusyAfterFailureKept(j) == busy
BusyAfterFailure(j) == IF page = "other" THEN busy \ DOMAIN jobs[j].opts ELSE busy

\* A request is lost, before or after it was applied; the others go on.
PutFails(j, k) ==
  /\ Open(j) /\ jobs[j].put[k] \in {"sent", "applied"}
  /\ Spend("faults")
  /\ jobs' = [jobs EXCEPT ![j].put[k] = "lost", ![j].st = "failed"]
  /\ modal' = ModalAfterFailure(j)
  /\ busy' = BusyAfterFailure(j)
  /\ UNCHANGED <<page, loaded, form, inputs, rev, origin, lists, update, get, release, store, first, touched, confirmed>>

-----------------------------------------------------------------------------
(***************************************************************************)
(* The other pane: one text, one button, one request.                      *)
(***************************************************************************)
handleInputChange(k) ==
  /\ page = "other"
  /\ Spend("edits")
  /\ \E v \in Typed : /\ v # form[k]
                      /\ form' = [form EXCEPT ![k] = v] /\ inputs' = [inputs EXCEPT ![k] = v]
  /\ touched' = touched \cup {k}
  /\ UNCHANGED <<page, loaded, rev, origin, lists, modal, update, busy, jobs, get, release, store, first, confirmed>>

\* Mutant: the button stays active while its save is in flight.
ReadyAlways(k) == TRUE

\* A button with loading set takes no clicks.
Ready(k) == k \notin busy

submitOption(k) ==
  /\ page = "other" /\ Ready(k)
  /\ Spend("saves")
  /\ busy' = busy \cup {k}
  /\ jobs' = Append(jobs, updateOptions(Each({k}, inputs[k]), FALSE))
  /\ UNCHANGED <<page, loaded, form, inputs, rev, origin, lists, modal, update, get, release, store, first, touched, confirmed>>

\* updateOption: what was sent becomes the input again, whatever was typed since.
\* The form goes on showing what was typed: it is set by getOptions alone, and
\* the next press of the button sends the older text again.
updateOption(j) ==
  /\ page = "other" /\ Answered(j)
  /\ jobs' = [jobs EXCEPT ![j].st = "done"]
  /\ inputs' = [k \in DOMAIN inputs |-> IF k \in DOMAIN jobs[j].opts /\ jobs[j].put[k] = "applied"
                                        THEN jobs[j].opts[k] ELSE inputs[k]]
  /\ busy' = busy \ DOMAIN jobs[j].opts
  /\ UNCHANGED <<page, loaded, form, rev, origin, lists, modal, update, get, release, store, first, touched, confirmed, left>>

checkUpdate ==
  /\ page = "other" /\ Ready("CheckUpdate")
  /\ Spend("saves")
  /\ busy' = busy \cup {"CheckUpdate"}
  /\ release' = TRUE
  /\ UNCHANGED <<page, loaded, form, inputs, rev, origin, lists, modal, update, jobs, get, store, first, touched, confirmed>>

\* GitHub answers with this version, a newer one or an error, or not at all.
ReleaseAnswered ==
  /\ release
  /\ release' = FALSE
  /\ update' \in {update, TRUE}
  /\ busy' = busy \ {"CheckUpdate"}
  /\ UNCHANGED <<page, loaded, form, inputs, rev, origin, lists, modal, jobs, get, store, first, touched, confirmed, left>>

CloseUpdate ==
  /\ update
  /\ update' = FALSE
  /\ UNCHANGED <<page, loaded, form, inputs, rev, origin, lists, modal, busy, jobs, get, release, store, first, touched, confirmed, left>>

-----------------------------------------------------------------------------
Network ==
  \/ GetRead \/ getOptions \/ getOtherOptions \/ ReleaseAnswered
  \/ \E j \in DOMAIN jobs : \/ OIDCFetched(j) \/ SendOthers(j) \/ UpdateEnds(j) \/ updateOption(j)
                            \/ \E k \in DOMAIN jobs[j].put : UpdateOption(j, k)

Faults ==
  \/ GetFails
  \/ \E j \in DOMAIN jobs : OIDCFetchFails(j) \/ \E k \in DOMAIN jobs[j].put : PutFails(j, k)

User ==
  \/ \E k \in left.edited \cap FormKeys : handleFormChange(k)
  \/ \E k \in left.edited \cap ListKeys : EditList(k)
  \/ \E k \in left.edited \cap Checkboxes : handleCheckboxChange(k)
  \/ ("EmailDomainWhitelist" \in left.edited /\ handleAddEmail)
  \/ \E n \in left.sections : Submit(SectionNamed[n])
  \/ handlePasswordLoginConfirm \/ CancelConfirm
  \/ \E k \in left.edited \cap OtherKeys : handleInputChange(k) \/ submitOption(k)
  \/ checkUpdate \/ CloseUpdate

Next == Network \/ Faults \/ User

\* Every request is answered or fails.
Spec == Init /\ [][Next]_vars /\ WF_vars(Network)

-----------------------------------------------------------------------------
TypeOK ==
  /\ page \in {"system", "other"}
  /\ DOMAIN form = KeysOf(page) /\ DOMAIN inputs = KeysOf(page)
  /\ DOMAIN origin = KeysOf(page)
  /\ DOMAIN lists = ListKeys
  /\ busy \subseteq OtherKeys \cup {"CheckUpdate"}
  /\ page = "system" => busy = {} /\ ~update
  /\ \A j \in DOMAIN jobs :
       /\ jobs[j].st \in {"fetch", "boxes", "others", "done", "failed"}
       /\ jobs[j].st = "boxes" =>
            \A k \in DOMAIN jobs[j].put \ EndsWithEnabled : jobs[j].put[k] = "idle"

\* Saving a section of the system pane leaves every option alone that the user
\* did not edit, although some sections send all of their keys: what they send
\* was loaded first.  Two keys the server never shows are sent unseen.
UntouchedKeepTheirValue ==
  page = "system" => \A k \in DOMAIN first \ (touched \cup {"WorkerValidKey", "TelegramBotToken"}) :
    store[k] = first[k]

\* A secret the server does not show is never replaced by nothing: neither by
\* a field left empty nor by one that was typed in and emptied again.
SecretsAreNotBlanked ==
  \A k \in HiddenSecrets \cap DOMAIN first : first[k] # "" => store[k] \notin {"", "<nil>"}

\* Password login is only turned off after the user confirmed it.
PasswordLoginOffIsConfirmed ==
  page = "system" /\ first["PasswordLoginEnabled"] = "true" /\ store["PasswordLoginEnabled"] = "false"
    => confirmed

\* The saves of one text of the other pane do not overlap: once none is in
\* flight, the server has the text that was submitted last.
SavesOf(k) == {j \in DOMAIN jobs : k \in DOMAIN jobs[j].opts}
LastTextIsStored ==
  page = "other" => \A k \in OtherKeys \ busy :
    (SavesOf(k) # {} /\ \A j \in SavesOf(k) : jobs[j].st = "done") =>
      store[k] = Wire(jobs[CHOOSE j \in SavesOf(k) : \A i \in SavesOf(k) : i <= j].opts[k])

\* A confirmation closes the modal, also when its request fails.
Confirming == \E j \in DOMAIN jobs : jobs[j].closing /\ jobs[j].st \notin {"done", "failed"}
ConfirmedModalCloses == Confirming ~> ~modal

\* Once the user stops pressing them, no button is left with its spinner.
ButtonsAreReleased == busy # {} ~> busy = {}

\* A save changes what was edited and nothing else, the secrets included.
SavesSpareTheRest == TypeOK /\ UntouchedKeepTheirValue /\ SecretsAreNotBlanked

\* Nothing waits for ever: neither the confirmation nor a button.
WaitingEnds == ConfirmedModalCloses /\ ButtonsAreReleased
=============================================================================
