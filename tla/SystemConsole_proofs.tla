------------------------ MODULE SystemConsole_proofs ------------------------
(***************************************************************************)
(* The two piecewise panes of the console, for any options stored, any     *)
(* texts typed and any number of overlapping saves.                        *)
(***************************************************************************)
EXTENDS SystemConsole, TLAPS

-----------------------------------------------------------------------------
(* The keys of the sections. *)

\* The two keys a section sends although the pane never saw them.
Unseen == {"WorkerValidKey", "TelegramBotToken"}

\* The sections, one by one.
LEMMA SectionNames ==
    Sections = {submitServerAddress, submitWorker, submitSMTP, submitEmailDomainWhitelist, submitSSRF, submitWeChat,
                submitGitHubOAuth, submitDiscordOAuth, submitOIDCSettings, submitTelegramSettings, submitTurnstile,
                submitLinuxDOOAuth, submitPasskeySettings}
  BY DEF Sections, SectionNamed

\* The secrets that some section sends and the server never shows.
LEMMA SecretNames ==
    HiddenSecrets = {"SMTPToken", "WeChatServerToken", "GitHubClientSecret", "TurnstileSecretKey", "LinuxDOClientSecret"}
<1>1. UNION {s.secrets : s \in Sections} =
        {"SMTPPort", "SMTPToken", "WeChatServerToken", "GitHubClientSecret", "discord.client_secret", "oidc.client_secret",
         "TurnstileSecretKey", "LinuxDOClientSecret"}
  BY SectionNames
     DEF submitServerAddress, submitWorker, submitSMTP, submitEmailDomainWhitelist, submitSSRF, submitWeChat,
         submitGitHubOAuth, submitDiscordOAuth, submitOIDCSettings, submitTelegramSettings, submitTurnstile,
         submitLinuxDOOAuth, submitPasskeySettings, Section
<1>2. QED
  BY <1>1 DEF HiddenSecrets, HiddenKeys

\* What a section sends unasked is shown to the pane, and is no secret and no checkbox.
LEMMA KeysOfSection ==
    ASSUME NEW s \in Sections
    PROVE  /\ s.always \cup s.changed \cup s.secrets \subseteq FormKeys \cup ListKeys
           /\ s.changed \cup s.secrets \subseteq FormKeys \ ListKeys
           /\ (s.always \cup s.changed \cup s.secrets) \cap Checkboxes = {}
           /\ s.always \cap HiddenKeys \subseteq Unseen
           /\ (s.always \cup s.changed) \cap HiddenSecrets = {}
<1>1. s.always \cup s.changed \cup s.secrets \subseteq SectionKeys
  BY DEF SectionKeys
<1>2. (s.changed \cup s.secrets) \cap ListKeys = {}
  BY SectionNames
     DEF submitServerAddress, submitWorker, submitSMTP, submitEmailDomainWhitelist, submitSSRF, submitWeChat,
         submitGitHubOAuth, submitDiscordOAuth, submitOIDCSettings, submitTelegramSettings, submitTurnstile,
         submitLinuxDOOAuth, submitPasskeySettings, Section, ListKeys
<1>3. (s.always \cup s.changed \cup s.secrets) \cap Checkboxes = {}
  BY SectionNames
     DEF submitServerAddress, submitWorker, submitSMTP, submitEmailDomainWhitelist, submitSSRF, submitWeChat,
         submitGitHubOAuth, submitDiscordOAuth, submitOIDCSettings, submitTelegramSettings, submitTurnstile,
         submitLinuxDOOAuth, submitPasskeySettings, Section, Checkboxes, SSRFBoxes, LoginBoxes, PasskeyBoxes, EmailBoxes
<1>4. s.always \cap HiddenKeys \subseteq Unseen /\ (s.always \cup s.changed) \cap HiddenSecrets = {}
  BY SectionNames, SecretNames
     DEF submitServerAddress, submitWorker, submitSMTP, submitEmailDomainWhitelist, submitSSRF, submitWeChat,
         submitGitHubOAuth, submitDiscordOAuth, submitOIDCSettings, submitTelegramSettings, submitTurnstile,
         submitLinuxDOOAuth, submitPasskeySettings, Section, HiddenKeys, Unseen
<1>5. SectionKeys \subseteq FormKeys \cup ListKeys
  BY DEF FormKeys
<1>6. s.always \cup s.changed \cup s.secrets \subseteq FormKeys \cup ListKeys
  BY <1>1, <1>5
<1>7. s.changed \cup s.secrets \subseteq FormKeys \ ListKeys
  BY <1>2, <1>6
<1>8. QED
  BY <1>3, <1>4, <1>6, <1>7

\* Where the keys of the special cases are.
LEMMA KeyFacts ==
  /\ FormKeys \cap ListKeys = {}
  /\ Checkboxes \subseteq FormKeys
  /\ "PasswordLoginEnabled" \in Checkboxes
  /\ Checkboxes \cap HiddenSecrets = {}
  /\ OIDCEndpoints \subseteq FormKeys /\ OIDCEndpoints \cap HiddenSecrets = {}
  /\ submitOIDCSettings \in Sections /\ submitWorker \in Sections
  /\ HiddenSecrets \subseteq FormKeys /\ HiddenSecrets \subseteq HiddenKeys
  /\ {"WorkerValidKey", "WorkerUrl"} \subseteq FormKeys
  /\ "WorkerValidKey" \notin HiddenSecrets \cup Checkboxes \cup ListKeys
<1>1. submitOIDCSettings \in Sections /\ submitWorker \in Sections /\ submitSMTP \in Sections
  BY SectionNames
<1>2. FormKeys \cap ListKeys = {}
  <2>1. Checkboxes \cap ListKeys = {} /\ "WorkerValidKey" \notin ListKeys
    BY DEF ListKeys, Checkboxes, SSRFBoxes, LoginBoxes, PasskeyBoxes, EmailBoxes, submitSSRF, submitEmailDomainWhitelist, Section
  <2>2. QED
    BY <2>1 DEF FormKeys
<1>3. Checkboxes \cap HiddenSecrets = {} /\ "WorkerValidKey" \notin HiddenSecrets \cup Checkboxes \cup ListKeys
  BY SecretNames DEF ListKeys, Checkboxes, SSRFBoxes, LoginBoxes, PasskeyBoxes, EmailBoxes, submitSSRF, submitEmailDomainWhitelist, Section
<1>4. OIDCEndpoints \subseteq submitOIDCSettings.changed /\ OIDCEndpoints \cap HiddenSecrets = {} /\ "WorkerUrl" \in submitWorker.always
  BY SecretNames DEF OIDCEndpoints, submitOIDCSettings, submitWorker, Section
<1>5. "WorkerUrl" \notin ListKeys
  BY DEF ListKeys, submitSSRF, submitEmailDomainWhitelist, Section
<1>6. "WorkerUrl" \in FormKeys /\ OIDCEndpoints \subseteq FormKeys
  BY <1>1, <1>4, <1>5, KeysOfSection
<1>7. HiddenSecrets \subseteq FormKeys /\ HiddenSecrets \subseteq HiddenKeys
  <2>1. ASSUME NEW k \in HiddenSecrets  PROVE k \in FormKeys /\ k \in HiddenKeys
    <3>1. PICK s \in Sections : k \in s.secrets /\ k \in HiddenKeys
      BY DEF HiddenSecrets
    <3>2. QED  BY <3>1, KeysOfSection
  <2>2. QED  BY <2>1
<1>8. "PasswordLoginEnabled" \in Checkboxes /\ Checkboxes \subseteq FormKeys /\ "WorkerValidKey" \in FormKeys
  BY DEF Checkboxes, LoginBoxes, FormKeys
<1>9. QED
  BY <1>1, <1>2, <1>3, <1>4, <1>6, <1>7, <1>8

-----------------------------------------------------------------------------
(* The invariant of the system pane. *)

\* A job as updateOptions makes it, and the list of them.
IsJob(x) == x = [opts |-> x.opts, closing |-> x.closing, held |-> x.held, rev |-> x.rev, st |-> x.st, put |-> x.put]
IsList(l) == \E S : l \in Seq(S)

\* The options stored in f that the user, who edited the keys t, has left alone.
Plain(f, t) == DOMAIN f \ (t \cup Unseen)

\* Where nothing was edited a form has what was loaded, and nobody has typed "<nil>".
AsLoaded(g, f, t) ==
  /\ DOMAIN g = FormKeys
  /\ \A k \in FormKeys \cap Plain(f, t) : g[k] = FieldFrom(f, k)
  /\ \A k \in HiddenSecrets : g[k] # "<nil>"

\* A text that may be sent for k; c says whether the user has confirmed.
Harmless(k, v, f, t, c) ==
  /\ k \in Plain(f, t) => v = f[k] /\ (k \in FormKeys => v = FieldFrom(f, k))
  /\ k \in HiddenSecrets => v \notin {"", "undefined", "<nil>"}
  /\ k = "PasswordLoginEnabled" /\ v = "false" => c

SystemJob(x, f, t, c) ==
  /\ IsJob(x)
  /\ AsLoaded(x.held, f, t)
  /\ \A k \in DOMAIN x.opts : Harmless(k, x.opts[k], f, t, c)
  /\ DOMAIN x.put = DOMAIN x.opts
  /\ x.st \in {"fetch", "boxes", "others", "done", "failed"}
  /\ x.st = "boxes" => \A k \in DOMAIN x.put \ EndsWithEnabled : x.put[k] = "idle"
  /\ x.st = "fetch" => OIDCEndpoints \subseteq t

\* Nothing is edited or saved before the options are loaded, and they are loaded once.
LoadInv ==
  /\ get = [st |-> get.st, snap |-> get.snap] /\ get.st \in {"sent", "read", "done"}
  /\ loaded => get.st = "done"
  /\ get.st = "read" => get.snap = first
  /\ ~loaded => jobs = <<>> /\ touched = {} /\ store = first /\ ~modal
  /\ modal => "PasswordLoginEnabled" \in touched
  /\ busy = {} /\ ~update /\ ~release

FormInv ==
  /\ DOMAIN form = FormKeys /\ DOMAIN inputs = FormKeys /\ DOMAIN origin = FormKeys /\ DOMAIN lists = ListKeys
  /\ loaded =>
       /\ AsLoaded(form, first, touched) /\ AsLoaded(inputs, first, touched)
       /\ \A k \in FormKeys \cap Plain(first, touched) : origin[k] = FieldFrom(first, k)
       /\ \A k \in HiddenSecrets : origin[k] = "undefined"
       /\ \A k \in ListKeys \cap Plain(first, touched) : lists[k] = first[k]

JobsInv == IsList(jobs) /\ \A j \in DOMAIN jobs : SystemJob(jobs[j], first, touched, confirmed)

StoreInv ==
  /\ DOMAIN first \subseteq DOMAIN store
  /\ \A k \in Plain(first, touched) : store[k] = first[k]
  /\ \A k \in HiddenSecrets \cap DOMAIN first : first[k] # "" => store[k] \notin {"", "<nil>"}
  /\ first["PasswordLoginEnabled"] = "true" /\ store["PasswordLoginEnabled"] = "false" => confirmed

Bounds == [edits : Nat, saves : Nat, faults : Nat, edited : SUBSET STRING, sections : SUBSET DOMAIN SectionNamed]

StartInv ==
  /\ left \in Bounds
  /\ AsStored(first)
  /\ page = "system" => "PasswordLoginEnabled" \in DOMAIN first

SystemInv == page = "system" /\ StartInv /\ LoadInv /\ FormInv /\ JobsInv /\ StoreInv

\* Nothing the invariant reads grows back: fewer options are plain, a confirmation stays.
Onward == page' = page /\ first' = first /\ touched \subseteq touched' /\ (confirmed => confirmed')

\* A list gets one element more, or another one in place of one.
Grown(l, x, m) ==
  /\ IsList(m) /\ DOMAIN m = 1..(Len(l) + 1) /\ DOMAIN l = 1..Len(l) /\ Len(l) \in Nat
  /\ m[Len(l) + 1] = x /\ \A i \in DOMAIN l : m[i] = l[i]

LEMMA Appended == ASSUME NEW l, IsList(l), NEW x PROVE Grown(l, x, Append(l, x))
<1> DEFINE m == Append(l, x)
<1>1. PICK S : l \in Seq(S)
  BY DEF IsList
<1>2. l \in Seq(S \cup {x})
  BY <1>1
<1>3. m \in Seq(S \cup {x})
  BY <1>2
<1>4. QED
  BY <1>1, <1>2, <1>3 DEF IsList, Grown

LEMMA Replaced ==
    ASSUME NEW l, IsList(l), NEW j \in DOMAIN l, NEW x, NEW m, m = [l EXCEPT ![j] = x]
    PROVE  IsList(m) /\ DOMAIN m = DOMAIN l /\ m[j] = x /\ \A i \in DOMAIN l : i # j => m[i] = l[i]
<1>1. PICK S : l \in Seq(S)
  BY DEF IsList
<1>2. m \in Seq(S \cup {x})
  BY <1>1
<1>3. QED
  BY <1>1, <1>2 DEF IsList

\* What was harmless stays harmless.
LEMMA Monotone ==
    ASSUME NEW f, NEW t, NEW u, t \subseteq u, NEW c, NEW d, c => d
    PROVE  /\ Plain(f, u) \subseteq Plain(f, t)
           /\ \A g : AsLoaded(g, f, t) => AsLoaded(g, f, u)
           /\ \A x : SystemJob(x, f, t, c) => SystemJob(x, f, u, d)
<1>1. Plain(f, u) \subseteq Plain(f, t)
  BY DEF Plain
<1>2. \A g : AsLoaded(g, f, t) => AsLoaded(g, f, u)
  BY <1>1 DEF AsLoaded
<1>3. \A k, v : Harmless(k, v, f, t, c) => Harmless(k, v, f, u, d)
  BY <1>1 DEF Harmless
<1>4. ASSUME NEW x, SystemJob(x, f, t, c)  PROVE SystemJob(x, f, u, d)
  BY <1>2, <1>3, <1>4 DEF SystemJob
<1>5. QED
  BY <1>1, <1>2, <1>4

LEMMA JobsOnward ==
    ASSUME Onward
    PROVE  /\ Plain(first', touched') \subseteq Plain(first, touched)
           /\ \A g : AsLoaded(g, first, touched) => AsLoaded(g, first', touched')
           /\ \A x : SystemJob(x, first, touched, confirmed) => SystemJob(x, first', touched', confirmed')
<1>1. PICK f, t, u, c, d : f = first /\ t = touched /\ u = touched' /\ c = confirmed /\ d = confirmed'
  OBVIOUS
<1>2. t \subseteq u /\ (c => d) /\ first' = f
  BY <1>1 DEF Onward
<1>3. /\ Plain(f, u) \subseteq Plain(f, t)
      /\ \A g : AsLoaded(g, f, t) => AsLoaded(g, f, u)
      /\ \A x : SystemJob(x, f, t, c) => SystemJob(x, f, u, d)
  BY <1>2, Monotone
<1>4. QED
  BY <1>1, <1>2, <1>3

\* A job more, or another one in place of one.
LEMMA JobAdded ==
    ASSUME JobsInv, Onward, NEW x, SystemJob(x, first', touched', confirmed'), jobs' = Append(jobs, x)
    PROVE  JobsInv'
<1>1. /\ IsList(jobs') /\ DOMAIN jobs' = 1..(Len(jobs) + 1) /\ DOMAIN jobs = 1..Len(jobs) /\ Len(jobs) \in Nat
      /\ jobs'[Len(jobs) + 1] = x /\ \A i \in DOMAIN jobs : jobs'[i] = jobs[i]
  <2>1. Grown(jobs, x, jobs')
    BY Appended DEF JobsInv
  <2>2. QED
    BY <2>1 DEF Grown
<1>2. ASSUME NEW i \in DOMAIN jobs'  PROVE SystemJob(jobs'[i], first', touched', confirmed')
  <2>1. CASE i = Len(jobs) + 1
    BY <1>1, <2>1
  <2>2. CASE i # Len(jobs) + 1
    <3>1. i \in DOMAIN jobs /\ jobs'[i] = jobs[i]
      BY <1>1, <2>2
    <3>2. SystemJob(jobs[i], first, touched, confirmed)
      BY <3>1 DEF JobsInv
    <3>3. QED  BY <3>1, <3>2, JobsOnward
  <2>3. QED  BY <2>1, <2>2
<1>3. QED
  BY <1>1, <1>2 DEF JobsInv

LEMMA JobChanged ==
    ASSUME JobsInv, Onward, NEW j \in DOMAIN jobs, NEW x, SystemJob(x, first', touched', confirmed'), jobs' = [jobs EXCEPT ![j] = x]
    PROVE  JobsInv'
<1>1. IsList(jobs') /\ DOMAIN jobs' = DOMAIN jobs /\ jobs'[j] = x /\ \A i \in DOMAIN jobs : i # j => jobs'[i] = jobs[i]
  BY Replaced DEF JobsInv
<1>2. ASSUME NEW i \in DOMAIN jobs'  PROVE SystemJob(jobs'[i], first', touched', confirmed')
  <2>1. CASE i = j
    BY <1>1, <2>1
  <2>2. CASE i # j
    <3>1. i \in DOMAIN jobs /\ jobs'[i] = jobs[i]
      BY <1>1, <2>2
    <3>2. SystemJob(jobs[i], first, touched, confirmed)
      BY <3>1 DEF JobsInv
    <3>3. QED  BY <3>1, <3>2, JobsOnward
  <2>3. QED  BY <2>1, <2>2
<1>3. QED
  BY <1>1, <1>2 DEF JobsInv

LEMMA JobsStay == ASSUME JobsInv, Onward, jobs' = jobs PROVE JobsInv'
<1>1. ASSUME NEW i \in DOMAIN jobs'  PROVE SystemJob(jobs'[i], first', touched', confirmed')
  <2>1. SystemJob(jobs[i], first, touched, confirmed)
    BY DEF JobsInv
  <2>2. QED  BY <2>1, JobsOnward
<1>2. QED
  BY <1>1 DEF JobsInv

\* The parts of the invariant that a step leaves alone.
LEMMA StoreStays == ASSUME StoreInv, Onward, store' = store PROVE StoreInv'
  BY JobsOnward DEF StoreInv, Onward

LEMMA FormStays ==
    ASSUME FormInv, Onward, UNCHANGED <<form, inputs, origin, lists, loaded>>
    PROVE  FormInv'
<1>1. CASE ~loaded
  BY <1>1 DEF FormInv
<1>2. CASE loaded
  <2>1. AsLoaded(form', first', touched') /\ AsLoaded(inputs', first', touched')
    <3>1. AsLoaded(form, first, touched) /\ AsLoaded(inputs, first, touched)
      BY <1>2 DEF FormInv
    <3>2. QED  BY <3>1, JobsOnward
  <2>2. QED
    BY <1>2, <2>1, JobsOnward DEF FormInv, Onward
<1>3. QED  BY <1>1, <1>2

LEMMA StartStays ==
    ASSUME StartInv, Onward, left' = left \/ Spend("edits") \/ Spend("saves") \/ Spend("faults")
    PROVE  StartInv'
<1>1. left' \in Bounds
  BY DEF StartInv, Bounds, Spend
<1>2. QED
  BY <1>1 DEF StartInv, Onward

\* A new job as updateOptions makes it.
LEMMA NewJob ==
    ASSUME NEW o, NEW c, AsLoaded(inputs, first, touched), NEW t, touched \subseteq t, NEW d, confirmed => d,
           \A k \in DOMAIN o : Harmless(k, o[k], first, t, d)
    PROVE  SystemJob(updateOptions(o, c), first, t, d) /\ updateOptions(o, c).st \in {"boxes", "others"}
<1> DEFINE boxes == DOMAIN o \cap EndsWithEnabled
           now == IF boxes = {} THEN DOMAIN o ELSE boxes
<1>1. PICK p : p = [k \in DOMAIN o |-> IF k \in now THEN "sent" ELSE "idle"]
  OBVIOUS
<1>2. PICK st \in {"boxes", "others"} : st = IF boxes = {} THEN "others" ELSE "boxes"
  OBVIOUS
<1>3. updateOptions(o, c) = [opts |-> o, closing |-> c, held |-> inputs, rev |-> rev, st |-> st, put |-> p]
  BY <1>1, <1>2 DEF updateOptions
<1>4. PICK x : x = [opts |-> o, closing |-> c, held |-> inputs, rev |-> rev, st |-> st, put |-> p]
  OBVIOUS
<1>5. x.opts = o /\ x.closing = c /\ x.held = inputs /\ x.rev = rev /\ x.st = st /\ x.put = p
  BY <1>4
<1>6. IsJob(x)
  BY <1>4, <1>5 DEF IsJob
<1>7. DOMAIN p = DOMAIN o /\ (st = "boxes" => \A k \in DOMAIN p \ EndsWithEnabled : p[k] = "idle")
  BY <1>1, <1>2
<1>8. SystemJob(x, first, t, d) /\ x.st \in {"boxes", "others"}
  <2>1. AsLoaded(inputs, first, t)
    BY Monotone
  <2>2. QED
    BY <1>2, <1>5, <1>6, <1>7, <2>1 DEF SystemJob
<1>9. QED
  BY <1>3, <1>4, <1>8

-----------------------------------------------------------------------------
(* What a section sends. *)

\* A plain option that is shown, and no checkbox, is loaded as it is stored.
LEMMA FieldIsStored ==
    ASSUME NEW f, AsStored(f), NEW t, NEW k \in FormKeys \cap Plain(f, t), k \notin HiddenKeys, k \notin Checkboxes
    PROVE  FieldFrom(f, k) = f[k]
<1>1. k \in DOMAIN f
  BY DEF Plain
<1>2. Seen(f, k) = f[k] /\ f[k] # "undefined"
  BY <1>1 DEF Seen, ValueOf, AsStored
<1>3. CASE k = "WorkerAllowHttpImageRequestEnabled"
  BY <1>1, <1>2, <1>3 DEF FieldFrom, toBoolean, AsStored
<1>4. CASE k = "passkey.user_verification"
  BY <1>1, <1>2, <1>4 DEF FieldFrom, Or, AsStored
<1>5. CASE k \notin {"WorkerAllowHttpImageRequestEnabled", "passkey.user_verification"}
  BY <1>2, <1>5 DEF FieldFrom
<1>6. QED  BY <1>3, <1>4, <1>5

\* A section sends an option nobody edited as it is stored.
LEMMA PlainIsSent ==
    ASSUME SystemInv, loaded, NEW s \in Sections, NEW k \in SentKeys(s, inputs), k \in Plain(first, touched)
    PROVE  ValueSent(k, inputs) = first[k] /\ (k \in FormKeys => first[k] = FieldFrom(first, k))
<1>1. AsStored(first) /\ AsLoaded(form, first, touched) /\ AsLoaded(inputs, first, touched) /\ k \in DOMAIN first
  BY DEF SystemInv, StartInv, FormInv, Plain
<1>2. k \in FormKeys \cup ListKeys
  BY KeysOfSection DEF SentKeys
<1>3. k \notin Checkboxes
  BY KeysOfSection DEF SentKeys
<1>4. k \in s.always
  <2>1. CASE k \in s.changed \cup s.secrets
    <3>1. k \in FormKeys
      BY <2>1, KeysOfSection
    <3>2. origin[k] = FieldFrom(first, k) /\ inputs[k] = FieldFrom(first, k)
      BY <3>1, <1>1 DEF SystemInv, FormInv, AsLoaded
    <3>3. QED  BY <3>2 DEF SentKeys
  <2>2. QED  BY <2>1 DEF SentKeys
<1>5. k \notin HiddenKeys
  BY <1>4, KeysOfSection DEF Plain
<1>6. CASE k \in ListKeys
  <2>1. lists[k] = first[k]
    BY <1>6 DEF SystemInv, FormInv
  <2>2. k \notin FormKeys
    BY <1>6, KeyFacts
  <2>3. k \notin submitPasskeySettings.always
           \cup {"ServerAddress", "WorkerUrl", "WeChatServerAddress", "WorkerAllowHttpImageRequestEnabled"}
    BY <1>6 DEF ListKeys, submitSSRF, submitEmailDomainWhitelist, submitPasskeySettings, Section
  <2>4. QED  BY <1>6, <2>1, <2>2, <2>3 DEF ValueSent
<1>7. CASE k \notin ListKeys
  <2>1. k \in FormKeys
    BY <1>2, <1>7
  <2>2. first[k] = FieldFrom(first, k)
    BY <1>1, <1>3, <1>5, <2>1, FieldIsStored
  <2>3. form[k] = first[k] /\ inputs[k] = first[k]
    BY <1>1, <2>1, <2>2 DEF AsLoaded
  <2>4. first[k] # "undefined"
    BY <1>1 DEF AsStored
  <2>5. CASE k \in submitPasskeySettings.always
    <3>1. PasskeyValue(k, inputs) = first[k]
      BY <1>1, <2>3, <2>4 DEF PasskeyValue, Or, AsStored
    <3>2. k \notin {"ServerAddress", "WorkerUrl", "WeChatServerAddress", "WorkerAllowHttpImageRequestEnabled"}
      BY <2>5 DEF submitPasskeySettings, Section
    <3>3. QED  BY <1>7, <2>2, <2>5, <3>1, <3>2 DEF ValueSent
  <2>6. CASE k \in {"ServerAddress", "WorkerUrl"}
    <3>1. removeTrailingSlash(inputs[k]) = first[k]
      BY <1>1, <2>3, <2>4, <2>6 DEF removeTrailingSlash, AsStored
    <3>2. k \notin submitPasskeySettings.always
      BY <2>6 DEF submitPasskeySettings, Section
    <3>3. QED  BY <1>7, <2>2, <2>6, <3>1, <3>2 DEF ValueSent
  <2>7. CASE k = "WorkerAllowHttpImageRequestEnabled"
    <3>1. first[k] \in {"true", "false"}
      BY <1>1, <2>7 DEF AsStored
    <3>2. k \notin submitPasskeySettings.always
      BY <2>7 DEF submitPasskeySettings, Section
    <3>3. QED  BY <1>7, <2>2, <2>3, <2>7, <3>1, <3>2 DEF ValueSent
  <2>8. CASE k \notin submitPasskeySettings.always \cup {"ServerAddress", "WorkerUrl", "WorkerAllowHttpImageRequestEnabled"}
    <3>1. k # "WeChatServerAddress"
      BY <1>4, SectionNames
         DEF submitServerAddress, submitWorker, submitSMTP, submitEmailDomainWhitelist, submitSSRF, submitWeChat,
             submitGitHubOAuth, submitDiscordOAuth, submitOIDCSettings, submitTelegramSettings, submitTurnstile,
             submitLinuxDOOAuth, submitPasskeySettings, Section
    <3>2. QED  BY <1>7, <2>2, <2>3, <2>8, <3>1 DEF ValueSent
  <2>9. QED  BY <2>5, <2>6, <2>7, <2>8
<1>8. QED  BY <1>6, <1>7

\* A section sends a secret only when something was typed.
LEMMA SecretIsSent ==
    ASSUME SystemInv, loaded, NEW s \in Sections, NEW k \in SentKeys(s, inputs), k \in HiddenSecrets
    PROVE  ValueSent(k, inputs) \notin {"", "undefined", "<nil>"}
<1>1. k \in s.secrets /\ k \notin s.always \cup s.changed
  BY KeysOfSection DEF SentKeys
<1>2. origin[k] # inputs[k] /\ inputs[k] # ""
  BY <1>1 DEF SentKeys
<1>3. origin[k] = "undefined" /\ inputs[k] # "<nil>"
  BY DEF SystemInv, FormInv, AsLoaded
<1>4. k \notin ListKeys \cup submitPasskeySettings.always
         \cup {"ServerAddress", "WorkerUrl", "WeChatServerAddress", "WorkerAllowHttpImageRequestEnabled"}
  BY SecretNames DEF ListKeys, submitSSRF, submitEmailDomainWhitelist, submitPasskeySettings, Section
<1>5. ValueSent(k, inputs) = inputs[k]
  BY <1>4 DEF ValueSent
<1>6. QED  BY <1>2, <1>3, <1>5

LEMMA SectionIsHarmless ==
    ASSUME SystemInv, loaded, NEW s \in Sections
    PROVE  \A k \in DOMAIN Options(s, inputs) : Harmless(k, Options(s, inputs)[k], first, touched, confirmed)
<1>1. SUFFICES ASSUME NEW k \in SentKeys(s, inputs) \cup WorkerKey(s, inputs)
               PROVE  Harmless(k, ValueSent(k, inputs), first, touched, confirmed)
  BY DEF Options
<1>2. k # "PasswordLoginEnabled"
  <2>1. k \in s.always \cup s.changed \cup s.secrets \/ k = "WorkerValidKey"
    BY DEF SentKeys, WorkerKey
  <2>2. QED  BY <2>1, KeysOfSection, KeyFacts
<1>3. CASE k \in SentKeys(s, inputs)
  BY <1>2, <1>3, PlainIsSent, SecretIsSent DEF Harmless
<1>4. CASE k \in WorkerKey(s, inputs)
  <2>1. k = "WorkerValidKey"
    BY <1>4 DEF WorkerKey
  <2>2. k \notin Plain(first, touched) /\ k \notin HiddenSecrets
    BY <2>1, KeyFacts DEF Plain, Unseen
  <2>3. QED  BY <1>2, <2>2 DEF Harmless
<1>5. QED  BY <1>1, <1>3, <1>4

-----------------------------------------------------------------------------
(* The steps of the system pane. *)

\* The options are loaded.
LEMMA LoadKeeps == ASSUME SystemInv, getOptions PROVE SystemInv'
<1>1. ~loaded /\ get.snap = first /\ jobs = <<>> /\ touched = {} /\ ~modal
  BY DEF SystemInv, LoadInv, getOptions
<1>2. Onward
  BY DEF getOptions, Onward
<1>3. JobsInv' /\ StoreInv' /\ StartInv'
  BY <1>2, JobsStay, StoreStays, StartStays DEF SystemInv, getOptions
<1>4. LoadInv'
  <2>1. get' = [get EXCEPT !.st = "done"] /\ get = [st |-> get.st, snap |-> get.snap]
    BY DEF SystemInv, LoadInv, getOptions
  <2>2. get' = [st |-> "done", snap |-> get.snap] /\ get'.st = "done" /\ get'.snap = get.snap
    BY <2>1
  <2>3. QED
    BY <1>1, <2>2 DEF SystemInv, LoadInv, getOptions
<1>5. FormInv'
  <2>1. inputs' = [k \in FormKeys |-> FieldFrom(first, k)] /\ form' = inputs' /\ origin' = inputs'
        /\ lists' = [k \in ListKeys |-> ListFrom(first, k)] /\ first' = first /\ touched' = touched
    BY <1>1 DEF getOptions
  <2>2. \A k \in HiddenSecrets : FieldFrom(first, k) = "undefined"
    BY KeyFacts DEF FieldFrom, Seen
  <2>3. AsLoaded(inputs', first', touched')
    BY <2>1, <2>2, KeyFacts DEF AsLoaded
  <2>4. ASSUME NEW k \in ListKeys \cap Plain(first, touched)  PROVE ListFrom(first, k) = first[k]
    BY <2>4 DEF ListFrom, Plain, SystemInv, StartInv, AsStored
  <2>5. QED
    BY <2>1, <2>2, <2>3, <2>4, KeyFacts DEF FormInv
<1>6. page' = page
  BY DEF getOptions
<1>7. QED
  BY <1>3, <1>4, <1>5, <1>6 DEF SystemInv

\* The question is answered, or is not.
LEMMA GetKeeps == ASSUME SystemInv, GetRead \/ GetFails PROVE SystemInv'
<1>1. Onward
  BY DEF GetRead, GetFails, Onward
<1>2. JobsInv' /\ StoreInv' /\ StartInv' /\ FormInv'
  BY <1>1, JobsStay, StoreStays, StartStays, FormStays DEF SystemInv, GetRead, GetFails, page_vars
<1>3. LoadInv'
  <2>1. CASE GetRead
    <3>1. get' = [st |-> "read", snap |-> store] /\ ~loaded
      BY <2>1 DEF GetRead, SystemInv, LoadInv
    <3>2. get'.st = "read" /\ get'.snap = first
      BY <3>1 DEF SystemInv, LoadInv
    <3>3. QED
      BY <2>1, <3>1, <3>2 DEF GetRead, SystemInv, LoadInv, page_vars
  <2>2. CASE GetFails
    <3>1. get' = [get EXCEPT !.st = "done"] /\ get = [st |-> get.st, snap |-> get.snap]
      BY <2>2 DEF SystemInv, LoadInv, GetFails
    <3>2. get' = [st |-> "done", snap |-> get.snap] /\ get'.st = "done" /\ get'.snap = get.snap
      BY <3>1
    <3>3. QED
      BY <2>2, <3>2 DEF SystemInv, LoadInv, GetFails, page_vars
  <2>3. QED  BY <2>1, <2>2
<1>4. QED
  BY <1>1, <1>2, <1>3 DEF SystemInv, Onward

\* With the form shown, the parts about loading hold once the options are loaded.
LEMMA LoadedStays ==
    ASSUME SystemInv, loaded, loaded' = loaded, Onward, UNCHANGED <<get, busy, update, release>>,
           modal' => modal \/ "PasswordLoginEnabled" \in touched'
    PROVE  LoadInv'
  BY DEF SystemInv, LoadInv, Onward

\* Fields, lists and tags are edited.
LEMMA EditKeeps ==
    ASSUME SystemInv,
           (\E k \in FormKeys : handleFormChange(k)) \/ (\E k \in ListKeys : EditList(k)) \/ handleAddEmail
    PROVE  SystemInv'
<1>1. /\ loaded /\ loaded' = loaded /\ Onward /\ UNCHANGED <<get, busy, update, release, jobs, store, modal, origin>> /\ Spend("edits")
  <2>1. ASSUME NEW k \in FormKeys, handleFormChange(k)
        PROVE  /\ loaded /\ UNCHANGED <<page, first, confirmed, loaded, get, busy, update, release, jobs, store, modal, origin>>
               /\ touched' = touched \cup {k} /\ Spend("edits")
    BY <2>1 DEF handleFormChange, FormShown
  <2>2. ASSUME NEW k \in ListKeys, EditList(k) \/ (handleAddEmail /\ k = "EmailDomainWhitelist")
        PROVE  /\ loaded /\ UNCHANGED <<page, first, confirmed, loaded, get, busy, update, release, jobs, store, modal, origin>>
               /\ touched' = touched \cup {k} /\ Spend("edits")
    BY <2>2 DEF EditList, handleAddEmail, FormShown
  <2>3. "EmailDomainWhitelist" \in ListKeys
    BY DEF ListKeys, submitEmailDomainWhitelist, Section
  <2>4. QED
    BY <2>1, <2>2, <2>3 DEF Onward
<1>2. JobsInv' /\ StoreInv' /\ StartInv' /\ LoadInv'
  BY <1>1, JobsStay, StoreStays, StartStays, LoadedStays DEF SystemInv
<1>3. FormInv'
  <2>1. ASSUME NEW k \in FormKeys, handleFormChange(k)  PROVE FormInv'
    <3>1. PICK v : form' = [form EXCEPT ![k] = v] /\ (v \in Typed \/ v \in {"true", "false"})
      BY <2>1 DEF handleFormChange
    <3>2. v # "<nil>"
      BY <3>1, TypedAssumption
    <3>3. /\ touched' = touched \cup {k} /\ inputs' = form' /\ lists' = lists /\ first' = first
      BY <2>1 DEF handleFormChange
    <3>4. AsLoaded(form, first, touched) /\ AsLoaded(form, first, touched')
      BY <1>1, <3>3, JobsOnward DEF SystemInv, FormInv
    <3>5. AsLoaded(form', first, touched')
      BY <3>1, <3>2, <3>3, <3>4 DEF AsLoaded, Plain
    <3>6. Plain(first, touched') \subseteq Plain(first, touched)
      BY <3>3 DEF Plain
    <3>7. DOMAIN form' = FormKeys
      BY <3>5 DEF AsLoaded
    <3>8. QED
      BY <1>1, <3>3, <3>5, <3>6, <3>7 DEF SystemInv, FormInv
  <2>2. ASSUME NEW k \in ListKeys, EditList(k) \/ (handleAddEmail /\ k = "EmailDomainWhitelist")  PROVE FormInv'
    <3>1. PICK v : lists' = [lists EXCEPT ![k] = v]
      BY <2>2 DEF EditList, handleAddEmail
    <3>2. touched' = touched \cup {k} /\ UNCHANGED <<form, inputs, first>>
      BY <2>2 DEF EditList, handleAddEmail
    <3>3. AsLoaded(form', first', touched') /\ AsLoaded(inputs', first', touched')
      BY <1>1, <3>2, JobsOnward DEF SystemInv, FormInv
    <3>4. Plain(first, touched') \subseteq Plain(first, touched) /\ k \notin Plain(first, touched')
      BY <3>2 DEF Plain
    <3>5. QED
      BY <1>1, <3>1, <3>2, <3>3, <3>4 DEF SystemInv, FormInv
  <2>3. "EmailDomainWhitelist" \in ListKeys
    BY DEF ListKeys, submitEmailDomainWhitelist, Section
  <2>4. QED
    BY <2>1, <2>2, <2>3
<1>4. QED
  BY <1>1, <1>2, <1>3 DEF SystemInv, Onward

\* The form changes as a whole, by a checkbox or by taking the confirmation back.
LEMMA SwitchKeeps ==
    ASSUME SystemInv, loaded, Onward, NEW k \in Checkboxes, k \in touched', NEW v, v # "<nil>",
           form' = [form EXCEPT ![k] = v], inputs' = form', UNCHANGED <<loaded, origin, lists>>
    PROVE  FormInv'
<1>1. AsLoaded(form, first, touched) /\ AsLoaded(form, first', touched') /\ first' = first
  BY JobsOnward DEF SystemInv, FormInv, Onward
<1>2. k \notin HiddenSecrets /\ k \in FormKeys /\ k \notin Plain(first, touched')
  BY KeyFacts DEF Plain
<1>3. AsLoaded(form', first', touched')
  BY <1>1, <1>2 DEF AsLoaded
<1>4. Plain(first, touched') \subseteq Plain(first, touched)
  BY DEF Plain, Onward
<1>5. DOMAIN form' = FormKeys
  BY <1>3 DEF AsLoaded
<1>6. QED
  BY <1>1, <1>3, <1>4, <1>5 DEF SystemInv, FormInv

\* A section is submitted.
LEMMA SubmitKeeps == ASSUME SystemInv, NEW s \in Sections, Submit(s) PROVE SystemInv'
<1>1. /\ loaded /\ UNCHANGED <<page, loaded, form, inputs, rev, origin, lists, modal, update, busy, get, release, store, first, confirmed>>
      /\ Spend("saves")
  BY DEF Submit, FormShown, page_vars
<1>2. touched \subseteq touched' /\ Onward
  <2>1. touched \subseteq touched'
    BY DEF Submit
  <2>2. QED
    BY <1>1, <2>1 DEF Onward
<1>3. StoreInv' /\ StartInv' /\ FormInv' /\ LoadInv'
  BY <1>1, <1>2, StoreStays, StartStays, FormStays, LoadedStays DEF SystemInv
<1>4. AsLoaded(inputs, first, touched)
  BY <1>1 DEF SystemInv, FormInv
<1>5. JobsInv'
  <2>1. CASE FetchesFirst(s)
    <3>1. PICK u : u = updateOptions(<<>>, FALSE)
      OBVIOUS
    <3>2. SystemJob(u, first, touched', confirmed)
      <4>1. \A k \in DOMAIN <<>> : Harmless(k, <<>>[k], first, touched', confirmed)
        OBVIOUS
      <4>2. QED
        BY <1>2, <1>4, <3>1, <4>1, NewJob
    <3>3. OIDCEndpoints \subseteq touched' /\ jobs' = Append(jobs, [u EXCEPT !.st = "fetch"])
      BY <2>1, <3>1 DEF Submit
    <3>4. PICK x : x = [u EXCEPT !.st = "fetch"]
      OBVIOUS
    <3>5. x = [opts |-> u.opts, closing |-> u.closing, held |-> u.held, rev |-> u.rev, st |-> "fetch", put |-> u.put]
      BY <3>2, <3>4 DEF SystemJob, IsJob
    <3>6. x.opts = u.opts /\ x.closing = u.closing /\ x.held = u.held /\ x.rev = u.rev /\ x.st = "fetch" /\ x.put = u.put
      BY <3>5
    <3>7. SystemJob(x, first, touched', confirmed)
      BY <3>2, <3>3, <3>5, <3>6 DEF SystemJob, IsJob
    <3>8. QED
      BY <1>1, <1>2, <3>3, <3>4, <3>7, JobAdded DEF SystemInv
  <2>2. CASE ~FetchesFirst(s)
    <3>1. PICK x : x = updateOptions(Options(s, inputs), FALSE)
      OBVIOUS
    <3>2. touched' = touched /\ jobs' = Append(jobs, x)
      BY <2>2, <3>1 DEF Submit
    <3>3. SystemJob(x, first, touched', confirmed)
      BY <1>1, <1>4, <3>1, <3>2, NewJob, SectionIsHarmless
    <3>4. QED
      BY <1>1, <1>2, <3>2, <3>3, JobAdded DEF SystemInv
  <2>3. QED  BY <2>1, <2>2
<1>6. QED
  BY <1>1, <1>3, <1>5 DEF SystemInv

\* A save of a single checkbox sends what the user chose.
LEMMA OneBoxIsHarmless ==
    ASSUME NEW k, NEW v, NEW f, NEW t, NEW c, k \in t, k \notin HiddenSecrets, k = "PasswordLoginEnabled" /\ v = "false" => c
    PROVE  \A i \in DOMAIN Each({k}, v) : Harmless(i, Each({k}, v)[i], f, t, c)
<1>1. DOMAIN Each({k}, v) = {k} /\ Each({k}, v)[k] = v
  BY DEF Each
<1>2. k \notin Plain(f, t)
  BY DEF Plain
<1>3. Harmless(k, v, f, t, c)
  BY <1>2 DEF Harmless
<1>4. QED
  BY <1>1, <1>3

LEMMA CheckboxKeeps == ASSUME SystemInv, NEW k \in Checkboxes, handleCheckboxChange(k) PROVE SystemInv'
<1>1. /\ loaded /\ UNCHANGED <<page, loaded, origin, lists, update, busy, get, release, store, first, confirmed>>
      /\ touched' = touched \cup {k} /\ Spend("saves")
  BY DEF handleCheckboxChange, FormShown
<1>2. Onward
  BY <1>1 DEF Onward
<1>3. PICK v \in {"true", "false"} :
        /\ form' = [form EXCEPT ![k] = v] /\ inputs' = form' /\ modal' = AsksFirst(k, v)
        /\ jobs' = IF AsksFirst(k, v) THEN jobs ELSE Append(jobs, updateOptions(Each({k}, v), FALSE))
  BY DEF handleCheckboxChange
<1>4. StoreInv' /\ StartInv' /\ FormInv'
  BY <1>1, <1>2, <1>3, StoreStays, StartStays, SwitchKeeps DEF SystemInv
<1>5. LoadInv'
  BY <1>1, <1>2, <1>3, LoadedStays DEF AsksFirst
<1>6. JobsInv'
  <2>1. CASE AsksFirst(k, v)
    BY <1>2, <1>3, <2>1, JobsStay DEF SystemInv
  <2>2. CASE ~AsksFirst(k, v)
    <3>1. PICK x : x = updateOptions(Each({k}, v), FALSE)
      OBVIOUS
    <3>2. ~(k = "PasswordLoginEnabled" /\ v = "false")
      BY <2>2 DEF AsksFirst
    <3>3. k \notin HiddenSecrets
      BY KeyFacts
    <3>4. \A i \in DOMAIN Each({k}, v) : Harmless(i, Each({k}, v)[i], first, touched', confirmed)
      BY <1>1, <3>2, <3>3, OneBoxIsHarmless
    <3>5. AsLoaded(inputs, first, touched)
      BY <1>1 DEF SystemInv, FormInv
    <3>6. SystemJob(x, first, touched', confirmed)
      BY <1>1, <3>1, <3>4, <3>5, NewJob
    <3>7. QED
      BY <1>1, <1>2, <1>3, <2>2, <3>1, <3>6, JobAdded DEF SystemInv
  <2>3. QED  BY <2>1, <2>2
<1>7. QED
  BY <1>1, <1>4, <1>5, <1>6 DEF SystemInv

LEMMA ConfirmKeeps == ASSUME SystemInv, handlePasswordLoginConfirm PROVE SystemInv'
<1>1. /\ modal /\ UNCHANGED <<page, loaded, form, inputs, rev, origin, lists, modal, update, busy, get, release, store, first, touched>>
      /\ confirmed' = TRUE /\ Spend("saves")
  BY DEF handlePasswordLoginConfirm, page_vars
<1>2. loaded /\ "PasswordLoginEnabled" \in touched
  BY <1>1 DEF SystemInv, LoadInv
<1>3. Onward
  BY <1>1 DEF Onward
<1>4. StoreInv' /\ StartInv' /\ FormInv' /\ LoadInv'
  BY <1>1, <1>2, <1>3, StoreStays, StartStays, FormStays, LoadedStays DEF SystemInv
<1>5. JobsInv'
  <2>1. PICK x : x = updateOptions(Each({"PasswordLoginEnabled"}, "false"), TRUE)
    OBVIOUS
  <2>2. \A i \in DOMAIN Each({"PasswordLoginEnabled"}, "false") :
          Harmless(i, Each({"PasswordLoginEnabled"}, "false")[i], first, touched, TRUE)
    BY <1>2, KeyFacts, OneBoxIsHarmless
  <2>3. AsLoaded(inputs, first, touched)
    BY <1>2 DEF SystemInv, FormInv
  <2>4. SystemJob(x, first, touched, TRUE)
    BY <2>1, <2>2, <2>3, NewJob
  <2>5. jobs' = Append(jobs, x)
    BY <2>1 DEF handlePasswordLoginConfirm
  <2>6. QED
    BY <1>1, <1>3, <2>4, <2>5, JobAdded DEF SystemInv
<1>6. QED
  BY <1>1, <1>4, <1>5 DEF SystemInv

LEMMA CancelKeeps == ASSUME SystemInv, CancelConfirm PROVE SystemInv'
<1>1. /\ modal /\ ~modal' /\ UNCHANGED <<page, loaded, origin, lists, update, busy, jobs, get, release, store, first, touched, confirmed, left>>
      /\ form' = [form EXCEPT !["PasswordLoginEnabled"] = "true"] /\ inputs' = form'
  BY DEF CancelConfirm
<1>2. loaded /\ "PasswordLoginEnabled" \in touched
  BY <1>1 DEF SystemInv, LoadInv
<1>3. Onward
  BY <1>1 DEF Onward
<1>4. StoreInv' /\ StartInv' /\ LoadInv' /\ JobsInv'
  BY <1>1, <1>2, <1>3, StoreStays, StartStays, LoadedStays, JobsStay DEF SystemInv
<1>5. FormInv'
  BY <1>1, <1>2, <1>3, KeyFacts, SwitchKeeps
<1>6. QED
  BY <1>1, <1>4, <1>5 DEF SystemInv

\* A job that only moves on is still one that may be sent.
LEMMA Moved ==
    ASSUME NEW f, NEW t, NEW c, NEW y, SystemJob(y, f, t, c), NEW p, DOMAIN p = DOMAIN y.put,
           NEW s \in {"fetch", "boxes", "others", "done", "failed"}, s = "fetch" => y.st = "fetch",
           s = "boxes" => \A k \in DOMAIN p \ EndsWithEnabled : p[k] = "idle",
           NEW x, x = [opts |-> y.opts, closing |-> y.closing, held |-> y.held, rev |-> y.rev, st |-> s, put |-> p]
    PROVE  SystemJob(x, f, t, c)
<1>1. x.opts = y.opts /\ x.closing = y.closing /\ x.held = y.held /\ x.rev = y.rev /\ x.st = s /\ x.put = p
  OBVIOUS
<1>2. IsJob(x)
  BY <1>1 DEF IsJob
<1>3. QED
  BY <1>1, <1>2 DEF SystemJob

\* The server answers one request.
LEMMA AnswerKeeps == ASSUME SystemInv, NEW j \in DOMAIN jobs, NEW k \in DOMAIN jobs[j].put, UpdateOption(j, k) PROVE SystemInv'
<1>1. /\ UNCHANGED <<page, loaded, form, inputs, rev, origin, lists, modal, update, busy, get, release, first, touched, confirmed, left>>
      /\ Onward
  BY DEF UpdateOption, page_vars, Onward
<1>2. loaded
  BY DEF SystemInv, LoadInv
<1>3. StartInv' /\ FormInv' /\ LoadInv'
  BY <1>1, <1>2, StartStays, FormStays, LoadedStays DEF SystemInv
<1>4. PICK y : y = jobs[j]
  OBVIOUS
<1>5. SystemJob(y, first, touched, confirmed)
  BY <1>4 DEF SystemInv, JobsInv
<1>6. PICK v : v = Wire(y.opts[k])
  OBVIOUS
<1>7. PICK r : r = IF Refuses(k, v) THEN "refused" ELSE "applied"
  OBVIOUS
<1>8. /\ y.put[k] = "sent" /\ k \in DOMAIN y.put /\ jobs' = [jobs EXCEPT ![j].put[k] = r]
      /\ store' = IF Refuses(k, v) THEN store ELSE [i \in DOMAIN store \cup {k} |-> IF i = k THEN v ELSE store[i]]
  BY <1>4, <1>6, <1>7 DEF UpdateOption
<1>9. JobsInv'
  <2>1. PICK x : x = [y EXCEPT !.put[k] = r]
    OBVIOUS
  <2>2. jobs' = [jobs EXCEPT ![j] = x]
    BY <1>4, <1>8, <2>1
  <2>3. PICK p : p = [y.put EXCEPT ![k] = r]
    OBVIOUS
  <2>4. y = [opts |-> y.opts, closing |-> y.closing, held |-> y.held, rev |-> y.rev, st |-> y.st, put |-> y.put]
    BY <1>5 DEF SystemJob, IsJob
  <2>5. x = [opts |-> y.opts, closing |-> y.closing, held |-> y.held, rev |-> y.rev, st |-> y.st, put |-> p]
    BY <2>1, <2>3, <2>4
  <2>6. DOMAIN p = DOMAIN y.put /\ \A i \in DOMAIN p : i # k => p[i] = y.put[i]
    BY <2>3
  <2>7. y.st \in {"fetch", "boxes", "others", "done", "failed"}
        /\ (y.st = "boxes" => \A i \in DOMAIN p \ EndsWithEnabled : p[i] = "idle")
    BY <1>5, <1>8, <2>6 DEF SystemJob
  <2>8. SystemJob(x, first, touched, confirmed)
    BY <1>5, <2>5, <2>6, <2>7, Moved
  <2>9. QED
    BY <1>1, <2>2, <2>8, JobChanged DEF SystemInv
<1>10. StoreInv'
  <2>1. CASE store' = store
    BY <1>1, <2>1, StoreStays DEF SystemInv
  <2>2. CASE store' = [i \in DOMAIN store \cup {k} |-> IF i = k THEN v ELSE store[i]]
    <3>1. Harmless(k, y.opts[k], first, touched, confirmed)
      BY <1>5, <1>8 DEF SystemJob
    <3>2. DOMAIN store' = DOMAIN store \cup {k} /\ store'[k] = v /\ \A i \in DOMAIN store : i # k => store'[i] = store[i]
      BY <2>2
    <3>3. AsStored(first) /\ DOMAIN first \subseteq DOMAIN store /\ "PasswordLoginEnabled" \in DOMAIN first
      BY DEF SystemInv, StartInv, StoreInv
    <3>4. ASSUME NEW i \in Plain(first, touched)  PROVE store'[i] = first[i]
      <4>1. i \in DOMAIN first /\ first[i] # "undefined"
        BY <3>3 DEF Plain, AsStored
      <4>2. CASE i = k
        <5>1. y.opts[k] = first[k]
          BY <3>1, <4>2 DEF Harmless
        <5>2. v = first[k]
          BY <1>6, <4>1, <4>2, <5>1 DEF Wire
        <5>3. QED  BY <3>2, <4>2, <5>2
      <4>3. CASE i # k
        BY <3>2, <3>3, <4>1, <4>3 DEF SystemInv, StoreInv
      <4>4. QED  BY <4>2, <4>3
    <3>5. ASSUME NEW i \in HiddenSecrets \cap DOMAIN first, first[i] # ""  PROVE store'[i] \notin {"", "<nil>"}
      <4>1. CASE i = k
        <5>1. y.opts[k] \notin {"", "undefined", "<nil>"}
          BY <3>1, <4>1 DEF Harmless
        <5>2. v = y.opts[k]
          BY <1>6, <5>1 DEF Wire
        <5>3. QED  BY <3>2, <4>1, <5>1, <5>2
      <4>2. CASE i # k
        BY <3>2, <3>3, <3>5, <4>2 DEF SystemInv, StoreInv
      <4>3. QED  BY <4>1, <4>2
    <3>6. first["PasswordLoginEnabled"] = "true" /\ store'["PasswordLoginEnabled"] = "false" => confirmed
      <4>1. CASE k = "PasswordLoginEnabled"
        <5>1. y.opts[k] = "false" => confirmed
          BY <3>1, <4>1 DEF Harmless
        <5>2. v = "false" => y.opts[k] = "false"
          BY <1>6 DEF Wire
        <5>3. QED  BY <3>2, <4>1, <5>1, <5>2
      <4>2. CASE k # "PasswordLoginEnabled"
        BY <3>2, <3>3, <4>2 DEF SystemInv, StoreInv
      <4>3. QED  BY <4>1, <4>2
    <3>7. QED
      BY <1>1, <3>2, <3>3, <3>4, <3>5, <3>6 DEF StoreInv
  <2>3. QED
    BY <1>8, <2>1, <2>2
<1>11. QED
  BY <1>1, <1>3, <1>9, <1>10 DEF SystemInv

\* A job moves on and the form stays: the rest is sent, or a request fails.
LEMMA StepKeeps ==
    ASSUME SystemInv, NEW j \in DOMAIN jobs, NEW p, NEW s \in {"others", "done", "failed"},
           DOMAIN p = DOMAIN jobs[j].put,
           jobs' = [jobs EXCEPT ![j] = [jobs[j] EXCEPT !.st = s, !.put = p]],
           UNCHANGED <<page, loaded, form, inputs, origin, lists, update, busy, get, release, store, first, touched, confirmed>>,
           modal' => modal, left' = left \/ Spend("faults")
    PROVE  SystemInv'
<1>1. Onward /\ loaded
  BY DEF Onward, SystemInv, LoadInv
<1>2. StoreInv' /\ StartInv' /\ FormInv' /\ LoadInv'
  BY <1>1, StoreStays, StartStays, FormStays, LoadedStays DEF SystemInv
<1>3. PICK y : y = jobs[j]
  OBVIOUS
<1>4. SystemJob(y, first, touched, confirmed)
  BY <1>3 DEF SystemInv, JobsInv
<1>5. PICK x : x = [y EXCEPT !.st = s, !.put = p]
  OBVIOUS
<1>6. y = [opts |-> y.opts, closing |-> y.closing, held |-> y.held, rev |-> y.rev, st |-> y.st, put |-> y.put]
  BY <1>4 DEF SystemJob, IsJob
<1>7. x = [opts |-> y.opts, closing |-> y.closing, held |-> y.held, rev |-> y.rev, st |-> s, put |-> p]
  BY <1>5, <1>6
<1>8. SystemJob(x, first, touched, confirmed)
  BY <1>3, <1>4, <1>7, Moved
<1>9. JobsInv'
  BY <1>1, <1>3, <1>5, <1>8, JobChanged DEF SystemInv
<1>10. QED
  BY <1>2, <1>9 DEF SystemInv

LEMMA SendOthersKeeps == ASSUME SystemInv, NEW j \in DOMAIN jobs, SendOthers(j) PROVE SystemInv'
<1>1. PICK y : y = jobs[j]
  OBVIOUS
<1>2. PICK p : p = [k \in DOMAIN y.put |-> IF y.put[k] = "idle" THEN "sent" ELSE y.put[k]]
  OBVIOUS
<1>3. jobs' = [jobs EXCEPT ![j].st = "others",
                           ![j].put = [k \in DOMAIN @ |-> IF @[k] = "idle" THEN "sent" ELSE @[k]]]
  BY DEF SendOthers
<1>4. y = [opts |-> y.opts, closing |-> y.closing, held |-> y.held, rev |-> y.rev, st |-> y.st, put |-> y.put]
  BY <1>1 DEF SystemInv, JobsInv, SystemJob, IsJob
<1>5. jobs' = [jobs EXCEPT ![j] = [y EXCEPT !.st = "others", !.put = p]]
  BY <1>1, <1>2, <1>3, <1>4
<1>6. UNCHANGED <<page, loaded, form, inputs, origin, lists, update, busy, get, release, store, first, touched, confirmed, modal, left>>
  BY DEF SendOthers, page_vars
<1>7. DOMAIN p = DOMAIN y.put
  BY <1>2
<1>8. QED
  BY <1>1, <1>5, <1>6, <1>7, StepKeeps

LEMMA PutFailsKeeps == ASSUME SystemInv, NEW j \in DOMAIN jobs, NEW k \in DOMAIN jobs[j].put, PutFails(j, k) PROVE SystemInv'
<1>1. PICK y : y = jobs[j]
  OBVIOUS
<1>2. PICK p : p = [y.put EXCEPT ![k] = "lost"]
  OBVIOUS
<1>3. jobs' = [jobs EXCEPT ![j].put[k] = "lost", ![j].st = "failed"]
  BY DEF PutFails
<1>4. y = [opts |-> y.opts, closing |-> y.closing, held |-> y.held, rev |-> y.rev, st |-> y.st, put |-> y.put]
  BY <1>1 DEF SystemInv, JobsInv, SystemJob, IsJob
<1>5. jobs' = [jobs EXCEPT ![j] = [y EXCEPT !.st = "failed", !.put = p]]
  BY <1>1, <1>2, <1>3, <1>4
<1>6. UNCHANGED <<page, loaded, form, inputs, origin, lists, update, get, release, store, first, touched, confirmed>>
      /\ Spend("faults") /\ (modal' => modal)
  BY DEF PutFails, ModalAfterFailure
<1>7. busy' = busy
  BY DEF PutFails, BusyAfterFailure, SystemInv
<1>8. DOMAIN p = DOMAIN y.put
  BY <1>2
<1>9. QED
  BY <1>1, <1>5, <1>6, <1>7, <1>8, StepKeeps

LEMMA FetchFailsKeeps == ASSUME SystemInv, NEW j \in DOMAIN jobs, OIDCFetchFails(j) PROVE SystemInv'
<1>1. PICK y : y = jobs[j]
  OBVIOUS
<1>2. jobs' = [jobs EXCEPT ![j].st = "failed"]
  BY DEF OIDCFetchFails
<1>3. y = [opts |-> y.opts, closing |-> y.closing, held |-> y.held, rev |-> y.rev, st |-> y.st, put |-> y.put]
  BY <1>1 DEF SystemInv, JobsInv, SystemJob, IsJob
<1>4. PICK p : p = y.put
  OBVIOUS
<1>5. [y EXCEPT !.st = "failed"] = [y EXCEPT !.st = "failed", !.put = p]
  BY <1>3, <1>4
<1>6. jobs' = [jobs EXCEPT ![j] = [y EXCEPT !.st = "failed", !.put = p]]
  BY <1>1, <1>2, <1>5
<1>7. UNCHANGED <<page, loaded, form, inputs, origin, lists, update, busy, get, release, store, first, touched, confirmed, modal>>
      /\ Spend("faults")
  BY DEF OIDCFetchFails, page_vars
<1>8. QED
  BY <1>1, <1>4, <1>6, <1>7, StepKeeps

\* A save ends: the inputs are those it started from, with what it sent.
LEMMA EndKeeps == ASSUME SystemInv, NEW j \in DOMAIN jobs, UpdateEnds(j) PROVE SystemInv'
<1>1. /\ UNCHANGED <<page, loaded, form, origin, lists, update, busy, get, release, store, first, touched, confirmed, left>>
      /\ (modal' => modal)
  BY DEF UpdateEnds
<1>2. Onward /\ loaded
  BY <1>1 DEF Onward, SystemInv, LoadInv
<1>3. StoreInv' /\ StartInv' /\ LoadInv'
  BY <1>1, <1>2, StoreStays, StartStays, LoadedStays DEF SystemInv
<1>4. PICK y : y = jobs[j]
  OBVIOUS
<1>5. SystemJob(y, first, touched, confirmed)
  BY <1>4 DEF SystemInv, JobsInv
<1>6. JobsInv'
  <2>1. PICK s \in {"done", "failed"} : s = IF RefusedBox(j) THEN "failed" ELSE "done"
    OBVIOUS
  <2>2. jobs' = [jobs EXCEPT ![j].st = s]
    BY <2>1 DEF UpdateEnds
  <2>3. PICK x : x = [y EXCEPT !.st = s]
    OBVIOUS
  <2>4. y = [opts |-> y.opts, closing |-> y.closing, held |-> y.held, rev |-> y.rev, st |-> y.st, put |-> y.put]
    BY <1>5 DEF SystemJob, IsJob
  <2>5. x = [opts |-> y.opts, closing |-> y.closing, held |-> y.held, rev |-> y.rev, st |-> s, put |-> y.put]
    BY <2>3, <2>4
  <2>6. SystemJob(x, first, touched, confirmed)
    BY <1>5, <2>1, <2>5, Moved
  <2>7. jobs' = [jobs EXCEPT ![j] = x]
    BY <1>4, <2>2, <2>3
  <2>8. QED
    BY <1>1, <1>2, <2>6, <2>7, JobChanged DEF SystemInv
<1>7. FormInv'
  <2>1. CASE RefusedBox(j)
    <3>1. inputs' = inputs
      BY <2>1 DEF UpdateEnds
    <3>2. QED  BY <1>1, <1>2, <3>1, FormStays DEF SystemInv
  <2>2. CASE ~RefusedBox(j)
    <3>1. inputs' = [k \in DOMAIN inputs |-> IF k \in DOMAIN y.opts THEN y.opts[k] ELSE y.held[k]]
      BY <1>4, <2>2 DEF UpdateEnds
    <3>2. DOMAIN inputs = FormKeys /\ DOMAIN inputs' = FormKeys
      BY <3>1 DEF SystemInv, FormInv
    <3>3. AsLoaded(y.held, first, touched) /\ \A k \in DOMAIN y.opts : Harmless(k, y.opts[k], first, touched, confirmed)
      BY <1>5 DEF SystemJob
    <3>4. \A k \in FormKeys : inputs'[k] = IF k \in DOMAIN y.opts THEN y.opts[k] ELSE y.held[k]
      BY <3>1, <3>2
    <3>5. \A k \in FormKeys \cap Plain(first, touched) : inputs'[k] = FieldFrom(first, k)
      BY <3>3, <3>4 DEF AsLoaded, Harmless
    <3>6. \A k \in HiddenSecrets : inputs'[k] # "<nil>"
      BY <3>3, <3>4, KeyFacts DEF AsLoaded, Harmless
    <3>7. AsLoaded(inputs', first', touched') /\ AsLoaded(form', first', touched')
      BY <1>1, <1>2, <3>2, <3>5, <3>6 DEF AsLoaded, SystemInv, FormInv
    <3>8. QED
      BY <1>1, <1>2, <3>2, <3>7 DEF SystemInv, FormInv
  <2>3. QED  BY <2>1, <2>2
<1>8. QED
  BY <1>1, <1>3, <1>6, <1>7 DEF SystemInv

\* The well-known document fills three fields, which count as edited since the submit.
LEMMA FetchedIsLoaded ==
    ASSUME NEW g, NEW f, NEW t, AsLoaded(g, f, t), OIDCEndpoints \subseteq t
    PROVE  AsLoaded(Fetched(g), f, t) /\ \A k \in FormKeys \ OIDCEndpoints : Fetched(g)[k] = g[k]
<1>1. PICK h : h = [k \in DOMAIN g |-> IF k \in OIDCEndpoints THEN "b" ELSE g[k]]
  OBVIOUS
<1>2. DOMAIN g = FormKeys /\ DOMAIN h = FormKeys
  BY <1>1 DEF AsLoaded
<1>3. \A k \in FormKeys : h[k] = IF k \in OIDCEndpoints THEN "b" ELSE g[k]
  BY <1>1, <1>2
<1>4. \A k \in FormKeys \cap Plain(f, t) : h[k] = FieldFrom(f, k)
  BY <1>3 DEF AsLoaded, Plain
<1>5. \A k \in HiddenSecrets : h[k] # "<nil>"
  BY <1>3, KeyFacts DEF AsLoaded
<1>6. AsLoaded(h, f, t)
  BY <1>2, <1>4, <1>5 DEF AsLoaded
<1>7. QED
  BY <1>1, <1>3, <1>6 DEF Fetched

LEMMA FetchedKeeps == ASSUME SystemInv, NEW j \in DOMAIN jobs, OIDCFetched(j) PROVE SystemInv'
<1>1. /\ UNCHANGED <<page, loaded, form, lists, modal, update, busy, get, release, store, first, touched, confirmed, left>>
  BY DEF OIDCFetched
<1>2. Onward /\ loaded
  BY <1>1 DEF Onward, SystemInv, LoadInv
<1>3. StoreInv' /\ StartInv' /\ LoadInv'
  BY <1>1, <1>2, StoreStays, StartStays, LoadedStays DEF SystemInv
<1>4. PICK y : y = jobs[j]
  OBVIOUS
<1>5. SystemJob(y, first, touched, confirmed) /\ y.st = "fetch" /\ OIDCEndpoints \subseteq touched
  BY <1>4 DEF SystemInv, JobsInv, SystemJob, OIDCFetched
<1>6. PICK in : in = Fetched(y.held)
  OBVIOUS
<1>7. PICK from : from = IF y.rev = 0 THEN Fetched(origin) ELSE origin
  OBVIOUS
<1>8. PICK sent : sent = {k \in submitOIDCSettings.changed : from[k] # in[k]} \cup
                         {k \in submitOIDCSettings.secrets : from[k] # in[k] /\ in[k] # ""}
  OBVIOUS
<1>9. PICK opts : opts = [k \in sent |-> in[k]]
  OBVIOUS
<1>10. PICK s \in {"done", "others"} : s = IF opts = <<>> THEN "done" ELSE "others"
  OBVIOUS
<1>11. /\ jobs' = [jobs EXCEPT ![j] = [updateOptions(opts, FALSE) EXCEPT !.held = in, !.rev = y.rev, !.st = s]]
       /\ origin' = from
       /\ inputs' = IF y.rev = rev THEN in ELSE inputs
  BY <1>4, <1>6, <1>7, <1>8, <1>9, <1>10 DEF OIDCFetched
<1>12. /\ AsLoaded(in, first, touched) /\ AsLoaded(y.held, first, touched)
       /\ \A k \in FormKeys \ OIDCEndpoints : in[k] = y.held[k]
  BY <1>5, <1>6, FetchedIsLoaded DEF SystemJob
<1>13. DOMAIN from = FormKeys /\ \A k \in FormKeys : from[k] = origin[k] \/ k \in OIDCEndpoints
  BY <1>7 DEF Fetched, SystemInv, FormInv
<1>14. \A k \in FormKeys \cap Plain(first, touched) : k \notin OIDCEndpoints
  BY <1>5 DEF Plain
<1>15. FormInv'
  <2>1. \A k \in FormKeys \cap Plain(first, touched) : from[k] = FieldFrom(first, k)
    BY <1>2, <1>13, <1>14 DEF SystemInv, FormInv
  <2>2. \A k \in HiddenSecrets : from[k] = "undefined"
    BY <1>2, <1>13, KeyFacts DEF SystemInv, FormInv
  <2>3. AsLoaded(inputs', first, touched) /\ DOMAIN inputs' = FormKeys
    BY <1>2, <1>11, <1>12 DEF SystemInv, FormInv, AsLoaded
  <2>4. AsLoaded(form', first', touched') /\ AsLoaded(inputs', first', touched')
    BY <1>1, <1>2, <2>3 DEF SystemInv, FormInv
  <2>5. QED
    BY <1>1, <1>2, <1>11, <1>13, <2>1, <2>2, <2>3, <2>4 DEF SystemInv, FormInv
<1>16. \A k \in DOMAIN opts : Harmless(k, opts[k], first, touched, confirmed)
  <2>1. SUFFICES ASSUME NEW k \in sent  PROVE Harmless(k, in[k], first, touched, confirmed)
    BY <1>9
  <2>2. k \in submitOIDCSettings.changed \cup submitOIDCSettings.secrets /\ from[k] # in[k]
    BY <1>8
  <2>3. k \in FormKeys /\ k \notin Checkboxes
    BY <2>2, KeyFacts, KeysOfSection
  <2>4. k \notin Plain(first, touched)
    <3>1. SUFFICES ASSUME k \in Plain(first, touched)  PROVE FALSE
      OBVIOUS
    <3>2. from[k] = FieldFrom(first, k)
      BY <1>2, <1>13, <1>14, <2>3, <3>1 DEF SystemInv, FormInv
    <3>3. in[k] = FieldFrom(first, k)
      BY <1>12, <2>3, <3>1 DEF AsLoaded
    <3>4. QED  BY <2>2, <3>2, <3>3
  <2>5. k \notin HiddenSecrets
    BY <2>2, SecretNames DEF submitOIDCSettings, Section
  <2>6. QED
    BY <2>3, <2>4, <2>5, KeyFacts DEF Harmless
<1>17. JobsInv'
  <2>1. PICK u : u = updateOptions(opts, FALSE)
    OBVIOUS
  <2>2. SystemJob(u, first, touched, confirmed) /\ u.opts = opts
    <3>1. AsLoaded(inputs, first, touched)
      BY <1>2 DEF SystemInv, FormInv
    <3>2. SystemJob(u, first, touched, confirmed)
      BY <1>16, <2>1, <3>1, NewJob
    <3>3. u.opts = opts
      BY <2>1 DEF updateOptions
    <3>4. QED  BY <3>2, <3>3
  <2>3. PICK x : x = [u EXCEPT !.held = in, !.rev = y.rev, !.st = s]
    OBVIOUS
  <2>4. u = [opts |-> u.opts, closing |-> u.closing, held |-> u.held, rev |-> u.rev, st |-> u.st, put |-> u.put]
    BY <2>2 DEF SystemJob, IsJob
  <2>5. x = [opts |-> u.opts, closing |-> u.closing, held |-> in, rev |-> y.rev, st |-> s, put |-> u.put]
    BY <2>3, <2>4
  <2>6. x.opts = u.opts /\ x.closing = u.closing /\ x.held = in /\ x.rev = y.rev /\ x.st = s /\ x.put = u.put
    BY <2>5
  <2>7. SystemJob(x, first, touched, confirmed)
    BY <1>12, <2>2, <2>5, <2>6 DEF SystemJob, IsJob
  <2>8. QED
    BY <1>1, <1>2, <1>11, <2>1, <2>3, <2>7, JobChanged DEF SystemInv
<1>18. QED
  BY <1>1, <1>3, <1>15, <1>17 DEF SystemInv

\* Nothing else happens on this pane.
LEMMA SystemStep == ASSUME SystemInv, [Next]_vars PROVE SystemInv'
<1>1. CASE Network
  <2>1. ~release /\ page = "system"
    BY DEF SystemInv, LoadInv
  <2>2. CASE GetRead
    BY <2>2, GetKeeps
  <2>3. CASE getOptions
    BY <2>3, LoadKeeps
  <2>4. CASE getOtherOptions
    BY <2>1, <2>4 DEF getOtherOptions
  <2>5. CASE ReleaseAnswered
    BY <2>1, <2>5 DEF ReleaseAnswered
  <2>6. ASSUME NEW j \in DOMAIN jobs, updateOption(j)  PROVE FALSE
    BY <2>1, <2>6 DEF updateOption
  <2>7. QED
    BY <1>1, <2>2, <2>3, <2>4, <2>5, <2>6, FetchedKeeps, SendOthersKeeps, EndKeeps, AnswerKeeps DEF Network
<1>2. CASE Faults
  BY <1>2, GetKeeps, FetchFailsKeeps, PutFailsKeeps DEF Faults
<1>3. CASE User
  <2>1. page = "system" /\ ~update
    BY DEF SystemInv, LoadInv
  <2>2. CASE \E k \in left.edited \cap FormKeys : handleFormChange(k)
    BY <2>2, EditKeeps
  <2>3. CASE (\E k \in left.edited \cap ListKeys : EditList(k)) \/ ("EmailDomainWhitelist" \in left.edited /\ handleAddEmail)
    BY <2>3, EditKeeps
  <2>4. CASE \E k \in left.edited \cap Checkboxes : handleCheckboxChange(k)
    BY <2>4, CheckboxKeeps
  <2>5. CASE \E n \in left.sections : Submit(SectionNamed[n])
    <3>1. PICK n \in left.sections : Submit(SectionNamed[n])
      BY <2>5
    <3>2. n \in DOMAIN SectionNamed
      BY DEF SystemInv, StartInv, Bounds
    <3>3. SectionNamed[n] \in Sections
      BY <3>2 DEF Sections
    <3>4. QED  BY <3>1, <3>3, SubmitKeeps
  <2>6. CASE handlePasswordLoginConfirm \/ CancelConfirm
    BY <2>6, ConfirmKeeps, CancelKeeps
  <2>7. CASE (\E k \in left.edited \cap OtherKeys : handleInputChange(k) \/ submitOption(k)) \/ checkUpdate \/ CloseUpdate
    BY <2>1, <2>7 DEF handleInputChange, submitOption, checkUpdate, CloseUpdate
  <2>8. QED
    BY <1>3, <2>2, <2>3, <2>4, <2>5, <2>6, <2>7 DEF User
<1>4. CASE UNCHANGED vars
  <2>1. UNCHANGED <<page, loaded, form, inputs, origin, lists, modal, update, busy, jobs, get, release, store, first, touched, confirmed, left>>
    BY <1>4 DEF vars, page_vars
  <2>2. Onward
    BY <2>1 DEF Onward
  <2>3. JobsInv' /\ StoreInv' /\ StartInv' /\ FormInv'
    BY <2>1, <2>2, JobsStay, StoreStays, StartStays, FormStays DEF SystemInv
  <2>4. LoadInv'
    BY <2>1 DEF SystemInv, LoadInv
  <2>5. QED
    BY <2>1, <2>3, <2>4 DEF SystemInv
<1>5. QED
  BY <1>1, <1>2, <1>3, <1>4 DEF Next

LEMMA SystemStart == ASSUME Init, page = "system" PROVE SystemInv
<1>1. PICK start \in Starts : page = start.page /\ store = start.store /\ left = start.left
  BY DEF Init
<1>2. StartInv
  BY <1>1, StartsAssumption DEF StartInv, Bounds, Init
<1>3. /\ first = store /\ ~loaded /\ form = Each(FormKeys, "") /\ inputs = form /\ origin = Each(FormKeys, "undefined")
      /\ lists = FirstLists /\ ~modal /\ ~update /\ busy = {} /\ jobs = <<>> /\ get = [st |-> "sent", snap |-> <<>>]
      /\ ~release /\ touched = {} /\ ~confirmed
  BY DEF Init, KeysOf
<1>4. LoadInv
  <2>1. get.st = "sent" /\ get.snap = <<>>
    BY <1>3
  <2>2. QED  BY <1>3, <2>1 DEF LoadInv
<1>5. FormInv
  BY <1>3 DEF FormInv, Each, FirstLists
<1>6. JobsInv
  <2>1. jobs = <<>>
    BY <1>3
  <2>2. jobs \in Seq({}) /\ DOMAIN jobs = {}
    BY <2>1
  <2>3. QED  BY <2>2 DEF JobsInv, IsList
<1>7. StoreInv
  <2>1. \A k \in DOMAIN store : k \in HiddenSecrets => store[k] # "<nil>"
    BY <1>2, <1>3 DEF StartInv, AsStored
  <2>2. QED
    BY <1>2, <1>3, <2>1 DEF StoreInv, Plain, StartInv
<1>8. QED
  BY <1>2, <1>4, <1>5, <1>6, <1>7 DEF SystemInv

-----------------------------------------------------------------------------
(* The other pane. *)

\* A save of one text: while it is open its button is taken, and when it is done the server has it.
TextJob(x, b) ==
  /\ IsJob(x)
  /\ \E k \in OtherKeys :
       /\ DOMAIN x.opts = {k} /\ DOMAIN x.put = {k}
       /\ x.st \in {"others", "done", "failed"}
       /\ x.st = "others" => k \in b /\ x.put[k] \in {"sent", "applied"}
       /\ x.st = "done" => x.put[k] = "applied"
       /\ x.st = "failed" => x.put[k] = "lost"

\* Only the last save of a text may be open.
OneOpen(js) == \A i, j \in DOMAIN js : i < j /\ DOMAIN js[i].opts = DOMAIN js[j].opts => js[i].st # "others"

LastOf(js, j, k) == k \in DOMAIN js[j].opts /\ \A i \in DOMAIN js : k \in DOMAIN js[i].opts => i <= j
LastExists(js) == \A j \in DOMAIN js : \A k \in DOMAIN js[j].opts : \E i \in DOMAIN js : LastOf(js, i, k)

\* The last save of a text, once applied, is what the server has.
StoredIn(js, s) ==
  \A j \in DOMAIN js : \A k \in OtherKeys :
    LastOf(js, j, k) /\ js[j].put[k] = "applied" => k \in DOMAIN s /\ s[k] = Wire(js[j].opts[k])

TextsInv(js, b, s) ==
  IsList(js) /\ (\A j \in DOMAIN js : TextJob(js[j], b)) /\ OneOpen(js) /\ LastExists(js) /\ StoredIn(js, s)

OtherInv ==
  /\ page = "other" /\ left \in Bounds /\ AsStored(first)
  /\ DOMAIN form = OtherKeys /\ DOMAIN inputs = OtherKeys /\ DOMAIN origin = OtherKeys /\ DOMAIN lists = ListKeys
  /\ busy \subseteq OtherKeys \cup {"CheckUpdate"} /\ ~modal
  /\ \A k \in HiddenSecrets \cap DOMAIN first : k \in DOMAIN store /\ store[k] = first[k]
  /\ TextsInv(jobs, busy, store)

\* The texts are no secrets, no checkboxes and need nothing.
LEMMA TextFacts ==
  /\ OtherKeys \cap HiddenSecrets = {} /\ OtherKeys \cap EndsWithEnabled = {} /\ "CheckUpdate" \notin OtherKeys
  /\ \A k \in OtherKeys : Needs(k) = "nothing"
<1>1. OtherKeys \cap HiddenSecrets = {} /\ "CheckUpdate" \notin OtherKeys
  BY SecretNames DEF OtherKeys, submitGeneral, submitPersonalization
<1>2. OtherKeys \cap EndsWithEnabled = {}
  BY DEF OtherKeys, submitGeneral, submitPersonalization, EndsWithEnabled, Checkboxes, SSRFBoxes, LoginBoxes, PasskeyBoxes, EmailBoxes
<1>3. \A k \in OtherKeys : Needs(k) = "nothing"
  BY DEF OtherKeys, submitGeneral, submitPersonalization, Needs
<1>4. QED  BY <1>1, <1>2, <1>3

\* A button that is not taken starts one more save.
LEMMA TextAdded ==
    ASSUME NEW js, NEW b, NEW s, TextsInv(js, b, s), NEW k \in OtherKeys, k \notin b, NEW x,
           IsJob(x), DOMAIN x.opts = {k}, DOMAIN x.put = {k}, x.st = "others", x.put[k] = "sent"
    PROVE  TextsInv(Append(js, x), b \cup {k}, s)
<1>1. PICK m : m = Append(js, x)
  OBVIOUS
<1>2. PICK n \in Nat : n = Len(js) /\ DOMAIN js = 1..n /\ DOMAIN m = 1..(n + 1) /\ IsList(m) /\ m[n + 1] = x
                       /\ \A i \in DOMAIN js : m[i] = js[i]
  <2>1. Grown(js, x, m)
    BY <1>1, Appended DEF TextsInv
  <2>2. QED  BY <2>1 DEF Grown
<1>3. \A i \in DOMAIN m : i \in DOMAIN js \/ i = n + 1
  BY <1>2
<1>4. ASSUME NEW i \in DOMAIN m  PROVE TextJob(m[i], b \cup {k})
  <2>1. CASE i = n + 1
    BY <1>2, <2>1 DEF TextJob
  <2>2. CASE i \in DOMAIN js
    <3>1. TextJob(js[i], b) /\ m[i] = js[i]
      BY <1>2, <2>2 DEF TextsInv
    <3>2. QED  BY <3>1 DEF TextJob
  <2>3. QED  BY <1>3, <2>1, <2>2
<1>5. OneOpen(m)
  <2>1. SUFFICES ASSUME NEW i \in DOMAIN m, NEW j \in DOMAIN m, i < j, DOMAIN m[i].opts = DOMAIN m[j].opts
                 PROVE  m[i].st # "others"
    BY DEF OneOpen
  <2>2. i \in DOMAIN js
    BY <1>2, <1>3, <2>1
  <2>3. TextJob(js[i], b) /\ m[i] = js[i]
    BY <1>2, <2>2 DEF TextsInv
  <2>4. CASE j = n + 1
    BY <1>2, <2>1, <2>3, <2>4 DEF TextJob
  <2>5. CASE j \in DOMAIN js
    BY <1>2, <2>1, <2>2, <2>5 DEF TextsInv, OneOpen
  <2>6. QED  BY <1>3, <2>4, <2>5
<1>6. LastOf(m, n + 1, k)
  BY <1>2 DEF LastOf
<1>7. ASSUME NEW i \in DOMAIN js, NEW q, q # k, LastOf(js, i, q)  PROVE LastOf(m, i, q)
  <2>1. \A h \in DOMAIN m : q \in DOMAIN m[h].opts => h \in DOMAIN js /\ m[h] = js[h]
    BY <1>2, <1>3, <1>7
  <2>2. QED  BY <1>2, <1>7, <2>1 DEF LastOf
<1>8. LastExists(m)
  <2>1. SUFFICES ASSUME NEW i \in DOMAIN m, NEW q \in DOMAIN m[i].opts  PROVE \E h \in DOMAIN m : LastOf(m, h, q)
    BY DEF LastExists
  <2>2. CASE q = k
    BY <1>2, <1>6, <2>2
  <2>3. CASE q # k
    <3>1. i \in DOMAIN js /\ m[i] = js[i]
      BY <1>2, <1>3, <2>1, <2>3
    <3>2. PICK h \in DOMAIN js : LastOf(js, h, q)
      BY <2>1, <3>1 DEF TextsInv, LastExists
    <3>3. h \in DOMAIN m
      BY <1>2
    <3>4. QED  BY <1>7, <2>3, <3>2, <3>3
  <2>4. QED  BY <2>2, <2>3
<1>9. StoredIn(m, s)
  <2>1. SUFFICES ASSUME NEW i \in DOMAIN m, NEW q \in OtherKeys, LastOf(m, i, q), m[i].put[q] = "applied"
                 PROVE  q \in DOMAIN s /\ s[q] = Wire(m[i].opts[q])
    BY DEF StoredIn
  <2>2. CASE i = n + 1
    BY <1>2, <2>1, <2>2 DEF LastOf
  <2>3. CASE i \in DOMAIN js
    <3>1. m[i] = js[i] /\ LastOf(js, i, q)
      BY <1>2, <2>1, <2>3 DEF LastOf
    <3>2. QED  BY <2>1, <2>3, <3>1 DEF TextsInv, StoredIn
  <2>4. QED  BY <1>3, <2>2, <2>3
<1>10. QED
  BY <1>1, <1>2, <1>4, <1>5, <1>8, <1>9 DEF TextsInv

\* An open save moves on: the server answers, or it ends and its button is free.
MovesTo(j, k, x, js, b, s, m, c, r) ==
  /\ TextsInv(js, b, s) /\ j \in DOMAIN js /\ js[j].st = "others" /\ k \in OtherKeys
  /\ x.opts = js[j].opts /\ DOMAIN x.opts = {k} /\ TextJob(x, c)
  /\ m = [js EXCEPT ![j] = x] /\ b \ {k} \subseteq c
  /\ \A i \in DOMAIN s : i # k => i \in DOMAIN r /\ r[i] = s[i]
  /\ x.put[k] = "applied" => k \in DOMAIN r /\ r[k] = Wire(x.opts[k])

LEMMA TextMoved ==
    ASSUME NEW j, NEW k, NEW x, NEW js, NEW b, NEW s, NEW m, NEW c, NEW r, MovesTo(j, k, x, js, b, s, m, c, r)
    PROVE  TextsInv(m, c, r)
<1> SUFFICES ASSUME TextsInv(js, b, s), j \in DOMAIN js, js[j].st = "others", k \in OtherKeys, x.opts = js[j].opts,
                    DOMAIN x.opts = {k}, TextJob(x, c), m = [js EXCEPT ![j] = x], b \ {k} \subseteq c,
                    \A i \in DOMAIN s : i # k => i \in DOMAIN r /\ r[i] = s[i],
                    x.put[k] = "applied" => k \in DOMAIN r /\ r[k] = Wire(x.opts[k])
             PROVE  TextsInv(m, c, r)
  BY DEF MovesTo
<1>1. m = [js EXCEPT ![j] = x] /\ j \in DOMAIN js /\ IsList(js)
  BY DEF TextsInv
<1>2. IsList(m) /\ DOMAIN m = DOMAIN js /\ m[j] = x /\ \A i \in DOMAIN js : i # j => m[i] = js[i]
  BY ONLY <1>1, Replaced
<1>3. \A i \in DOMAIN js : m[i].opts = js[i].opts
  BY <1>2
<1>4. DOMAIN js \subseteq Nat
  <2>1. PICK S : js \in Seq(S)
    BY DEF TextsInv, IsList
  <2>2. QED  BY <2>1
<1>5. ASSUME NEW i \in DOMAIN js, i # j, DOMAIN js[i].opts = {k}  PROVE i < j /\ js[i].st # "others"
  <2>1. DOMAIN js[j].opts = {k} /\ OneOpen(js)
    BY DEF TextsInv
  <2>2. i \in Nat /\ j \in Nat
    BY <1>4
  <2>3. ~(j < i)
    BY <1>5, <2>1 DEF OneOpen
  <2>4. i < j
    BY <1>5, <2>2, <2>3
  <2>5. QED  BY <1>5, <2>1, <2>4 DEF OneOpen
<1>6. ASSUME NEW i \in DOMAIN js, i # j, k \in DOMAIN js[i].opts  PROVE i < j /\ js[i].st # "others"
  <2>1. TextJob(js[i], b)
    BY DEF TextsInv
  <2>2. DOMAIN js[i].opts = {k}
    BY <1>6, <2>1 DEF TextJob
  <2>3. QED  BY <1>5, <1>6, <2>2
<1>7. ASSUME NEW i \in DOMAIN m  PROVE TextJob(m[i], c)
  <2>1. CASE i = j
    BY <1>2, <2>1
  <2>2. CASE i # j
    <3>1. TextJob(js[i], b) /\ m[i] = js[i] /\ (k \in DOMAIN js[i].opts => js[i].st # "others")
      BY <1>2, <1>6, <2>2 DEF TextsInv
    <3>2. QED  BY <3>1 DEF TextJob
  <2>3. QED  BY <2>1, <2>2
<1>8. OneOpen(m)
  <2>1. SUFFICES ASSUME NEW i \in DOMAIN js, NEW h \in DOMAIN js, i < h, DOMAIN js[i].opts = DOMAIN js[h].opts
                 PROVE  m[i].st # "others"
    BY <1>2, <1>3 DEF OneOpen
  <2>2. js[i].st # "others"
    BY <2>1 DEF TextsInv, OneOpen
  <2>3. QED  BY <1>2, <2>2
<1>9. \A i, q : i \in DOMAIN js => (LastOf(m, i, q) <=> LastOf(js, i, q))
  BY <1>2, <1>3 DEF LastOf
<1>10. LastExists(m)
  BY <1>2, <1>3, <1>9 DEF TextsInv, LastExists
<1>11. StoredIn(m, r)
  <2>1. SUFFICES ASSUME NEW i \in DOMAIN js, NEW q \in OtherKeys, LastOf(js, i, q), m[i].put[q] = "applied"
                 PROVE  q \in DOMAIN r /\ r[q] = Wire(js[i].opts[q])
    <3>1. ASSUME NEW i \in DOMAIN m, NEW q \in OtherKeys, LastOf(m, i, q), m[i].put[q] = "applied"
          PROVE  q \in DOMAIN r /\ r[q] = Wire(m[i].opts[q])
      <4>1. i \in DOMAIN js /\ m[i].opts = js[i].opts
        BY ONLY <1>2, <1>3, <3>1
      <4>2. LastOf(js, i, q)
        BY ONLY <1>9, <3>1, <4>1
      <4>3. QED  BY ONLY <2>1, <3>1, <4>1, <4>2
    <3>2. QED  BY <3>1 DEF StoredIn
  <2>2. q \in DOMAIN js[i].opts /\ \A h \in DOMAIN js : q \in DOMAIN js[h].opts => h <= i
    BY <2>1 DEF LastOf
  <2>3. CASE i = j
    BY <1>2, <2>1, <2>2, <2>3
  <2>4. CASE i # j
    <3>1. q # k
      <4>1. SUFFICES ASSUME q = k  PROVE FALSE
        OBVIOUS
      <4>2. j <= i
        BY <2>2, <4>1
      <4>3. i < j
        BY <1>6, <2>2, <2>4, <4>1
      <4>4. QED  BY <1>4, <4>2, <4>3
    <3>2. m[i] = js[i]
      BY <1>2, <2>4
    <3>3. q \in DOMAIN s /\ s[q] = Wire(js[i].opts[q])
      BY <2>1, <3>2 DEF TextsInv, StoredIn
    <3>4. QED  BY <3>1, <3>3
  <2>5. QED  BY <2>3, <2>4
<1>12. QED
  BY <1>1, <1>2, <1>7, <1>8, <1>10, <1>11 DEF TextsInv

\* Buttons of texts stay taken, and the saves are as they were.
LEMMA TextsStay ==
    ASSUME NEW js, NEW b, NEW s, TextsInv(js, b, s), NEW c, b \cap OtherKeys \subseteq c
    PROVE  TextsInv(js, c, s)
<1>1. \A x : TextJob(x, b) => TextJob(x, c)
  BY DEF TextJob
<1>2. QED
  BY <1>1 DEF TextsInv

\* A text is submitted.
LEMMA SubmitTextKeeps == ASSUME OtherInv, NEW k \in OtherKeys, submitOption(k) PROVE OtherInv'
<1>1. /\ UNCHANGED <<page, form, inputs, origin, lists, modal, store, first>>
      /\ Spend("saves") /\ k \notin busy /\ busy' = busy \cup {k}
      /\ jobs' = Append(jobs, updateOptions(Each({k}, inputs[k]), FALSE))
  BY DEF submitOption, Ready
<1>2. PICK o : o = Each({k}, inputs[k])
  OBVIOUS
<1>3. DOMAIN o = {k}
  BY <1>2 DEF Each
<1>4. PICK p : p = [i \in DOMAIN o |-> IF i \in DOMAIN o THEN "sent" ELSE "idle"]
  OBVIOUS
<1>5. DOMAIN o \cap EndsWithEnabled = {}
  BY <1>3, TextFacts
<1>6. PICK x : x = [opts |-> o, closing |-> FALSE, held |-> inputs, rev |-> rev, st |-> "others", put |-> p]
  OBVIOUS
<1>7. updateOptions(o, FALSE) = x
  BY <1>4, <1>5, <1>6 DEF updateOptions
<1>8. IsJob(x) /\ DOMAIN x.opts = {k} /\ DOMAIN x.put = {k} /\ x.st = "others" /\ x.put[k] = "sent"
  <2>1. x.opts = o /\ x.closing = FALSE /\ x.held = inputs /\ x.rev = rev /\ x.st = "others" /\ x.put = p
    BY <1>6
  <2>2. IsJob(x)
    BY <1>6, <2>1 DEF IsJob
  <2>3. QED  BY <1>3, <1>4, <2>1, <2>2
<1>9. TextsInv(jobs', busy', store')
  BY <1>1, <1>2, <1>7, <1>8, TextAdded DEF OtherInv
<1>10. left' \in Bounds
  BY <1>1 DEF OtherInv, Bounds, Spend
<1>11. QED
  BY <1>1, <1>9, <1>10 DEF OtherInv

\* An open save of a text, and what it is made into.
LEMMA OneText ==
    ASSUME OtherInv, NEW j \in DOMAIN jobs
    PROVE  \E k \in OtherKeys :
             /\ DOMAIN jobs[j].opts = {k} /\ DOMAIN jobs[j].put = {k}
             /\ jobs[j].st \in {"others", "done", "failed"}
             /\ jobs[j].st = "others" => k \in busy /\ jobs[j].put[k] \in {"sent", "applied"}
             /\ jobs[j].st = "done" => jobs[j].put[k] = "applied"
             /\ jobs[j].st = "failed" => jobs[j].put[k] = "lost"
  BY DEF OtherInv, TextsInv, TextJob

StepsTo(j, k, st, p) ==
  /\ jobs[j].st = "others" /\ k \in OtherKeys /\ DOMAIN jobs[j].opts = {k} /\ DOMAIN p = {k}
  /\ \/ st = "others" /\ p[k] = "applied" /\ k \in busy'
     \/ st = "done" /\ p[k] = "applied"
     \/ st = "failed" /\ p[k] = "lost"
  /\ jobs' = [jobs EXCEPT ![j] = [jobs[j] EXCEPT !.st = st, !.put = p]]
  /\ busy \ {k} \subseteq busy'
  /\ \A i \in DOMAIN store : i # k => i \in DOMAIN store' /\ store'[i] = store[i]
  /\ p[k] = "applied" => k \in DOMAIN store' /\ store'[k] = Wire(jobs[j].opts[k])

LEMMA TextStep ==
    ASSUME OtherInv, NEW j \in DOMAIN jobs, NEW k, NEW st, NEW p, StepsTo(j, k, st, p)
    PROVE  TextsInv(jobs', busy', store')
<1> USE DEF StepsTo
<1>1. PICK y : y = jobs[j]
  OBVIOUS
<1>2. y = [opts |-> y.opts, closing |-> y.closing, held |-> y.held, rev |-> y.rev, st |-> y.st, put |-> y.put]
  BY <1>1 DEF OtherInv, TextsInv, TextJob, IsJob
<1>3. PICK x : x = [y EXCEPT !.st = st, !.put = p]
  OBVIOUS
<1>4. x = [opts |-> y.opts, closing |-> y.closing, held |-> y.held, rev |-> y.rev, st |-> st, put |-> p]
  BY <1>2, <1>3
<1>5. x.opts = y.opts /\ x.closing = y.closing /\ x.held = y.held /\ x.rev = y.rev /\ x.st = st /\ x.put = p
  BY <1>4
<1>6. IsJob(x)
  BY <1>4, <1>5 DEF IsJob
<1>7. TextJob(x, busy')
  BY <1>1, <1>5, <1>6 DEF TextJob
<1>8. PICK js, b, s, m, c, r : js = jobs /\ b = busy /\ s = store /\ m = jobs' /\ c = busy' /\ r = store'
  OBVIOUS
<1>9. MovesTo(j, k, x, js, b, s, m, c, r)
  BY <1>1, <1>3, <1>5, <1>7, <1>8 DEF OtherInv, MovesTo
<1>10. TextsInv(m, c, r)
  BY <1>9, TextMoved
<1>11. QED
  BY <1>8, <1>10

\* The server stores the text.
LEMMA TextAnswered == ASSUME OtherInv, NEW j \in DOMAIN jobs, NEW q \in DOMAIN jobs[j].put, UpdateOption(j, q) PROVE OtherInv'
<1>1. UNCHANGED <<page, form, inputs, origin, lists, modal, busy, first, left>>
  BY DEF UpdateOption, page_vars
<1>2. PICK k \in OtherKeys :
        /\ DOMAIN jobs[j].opts = {k} /\ DOMAIN jobs[j].put = {k}
        /\ jobs[j].st \in {"others", "done", "failed"}
        /\ jobs[j].st = "others" => k \in busy /\ jobs[j].put[k] \in {"sent", "applied"}
        /\ jobs[j].st = "done" => jobs[j].put[k] = "applied"
        /\ jobs[j].st = "failed" => jobs[j].put[k] = "lost"
  BY OneText
<1>3. q = k /\ jobs[j].put[k] = "sent" /\ jobs[j].st = "others" /\ k \in busy
  BY <1>2 DEF UpdateOption
<1>4. PICK v : v = Wire(jobs[j].opts[k])
  OBVIOUS
<1>5. ~Refuses(k, v)
  BY TextFacts DEF Refuses
<1>6. jobs' = [jobs EXCEPT ![j].put[k] = "applied"]
      /\ store' = [i \in DOMAIN store \cup {k} |-> IF i = k THEN v ELSE store[i]]
  BY <1>3, <1>4, <1>5 DEF UpdateOption
<1>7. PICK y : y = jobs[j]
  OBVIOUS
<1>8. PICK p : p = [y.put EXCEPT ![k] = "applied"]
  OBVIOUS
<1>9. DOMAIN p = {k} /\ p[k] = "applied"
  BY <1>2, <1>7, <1>8
<1>10. y = [opts |-> y.opts, closing |-> y.closing, held |-> y.held, rev |-> y.rev, st |-> y.st, put |-> y.put]
  BY <1>7 DEF OtherInv, TextsInv, TextJob, IsJob
<1>11. [y EXCEPT !.put[k] = "applied"] = [y EXCEPT !.st = "others", !.put = p]
  <2>1. y.st = "others"
    BY <1>3, <1>7
  <2>2. QED  BY <1>8, <1>10, <2>1
<1>12. jobs' = [jobs EXCEPT ![j] = [y EXCEPT !.st = "others", !.put = p]]
  BY <1>6, <1>7, <1>11
<1>13. DOMAIN store' = DOMAIN store \cup {k} /\ store'[k] = v /\ \A i \in DOMAIN store : i # k => store'[i] = store[i]
  BY <1>6
<1>14. TextsInv(jobs', busy', store')
  <2>1. busy \ {k} \subseteq busy' /\ k \in busy'
    BY <1>1, <1>3
  <2>2. jobs' = [jobs EXCEPT ![j] = [jobs[j] EXCEPT !.st = "others", !.put = p]]
    BY <1>7, <1>12
  <2>3. k \in DOMAIN store' /\ store'[k] = Wire(jobs[j].opts[k])
    BY <1>4, <1>13
  <2>4. QED
    BY <1>2, <1>3, <1>9, <1>13, <2>1, <2>2, <2>3, TextStep DEF StepsTo
<1>15. \A i \in HiddenSecrets \cap DOMAIN first : i \in DOMAIN store' /\ store'[i] = first[i]
  BY <1>13, TextFacts DEF OtherInv
<1>16. QED
  BY <1>1, <1>14, <1>15 DEF OtherInv

\* The save of a text ends.
LEMMA TextEnds == ASSUME OtherInv, NEW j \in DOMAIN jobs, updateOption(j) PROVE OtherInv'
<1>1. UNCHANGED <<page, origin, lists, modal, store, first, left>> /\ busy' = busy \ DOMAIN jobs[j].opts
      /\ DOMAIN inputs' = DOMAIN inputs /\ form' = form
  BY DEF updateOption
<1>2. PICK k \in OtherKeys :
        /\ DOMAIN jobs[j].opts = {k} /\ DOMAIN jobs[j].put = {k}
        /\ jobs[j].st \in {"others", "done", "failed"}
        /\ jobs[j].st = "others" => k \in busy /\ jobs[j].put[k] \in {"sent", "applied"}
        /\ jobs[j].st = "done" => jobs[j].put[k] = "applied"
        /\ jobs[j].st = "failed" => jobs[j].put[k] = "lost"
  BY OneText
<1>3. jobs[j].put[k] = "applied" /\ jobs[j].st = "others"
  BY <1>2 DEF updateOption, Answered, Open
<1>4. PICK y : y = jobs[j]
  OBVIOUS
<1>5. PICK p : p = y.put
  OBVIOUS
<1>6. y = [opts |-> y.opts, closing |-> y.closing, held |-> y.held, rev |-> y.rev, st |-> y.st, put |-> y.put]
  BY <1>4 DEF OtherInv, TextsInv, TextJob, IsJob
<1>7. [y EXCEPT !.st = "done"] = [y EXCEPT !.st = "done", !.put = p]
  BY <1>5, <1>6
<1>8. jobs' = [jobs EXCEPT ![j] = [y EXCEPT !.st = "done", !.put = p]]
  <2>1. jobs' = [jobs EXCEPT ![j].st = "done"]
    BY DEF updateOption
  <2>2. QED  BY <1>4, <1>7, <2>1
<1>9. LastOf(jobs, j, k)
  <2>1. ASSUME NEW i \in DOMAIN jobs, k \in DOMAIN jobs[i].opts  PROVE i <= j
    <3>1. DOMAIN jobs[i].opts = {k}
      BY <2>1, OneText
    <3>2. ~(j < i)
      BY <1>2, <1>3, <3>1 DEF OtherInv, TextsInv, OneOpen
    <3>3. i \in Nat /\ j \in Nat
      <4>1. PICK S : jobs \in Seq(S)
        BY DEF OtherInv, TextsInv, IsList
      <4>2. QED  BY <4>1
    <3>4. QED  BY <3>2, <3>3
  <2>2. QED  BY <1>2, <2>1 DEF LastOf
<1>10. k \in DOMAIN store /\ store[k] = Wire(jobs[j].opts[k])
  BY <1>3, <1>9 DEF OtherInv, TextsInv, StoredIn
<1>11. TextsInv(jobs', busy', store')
  <2>1. DOMAIN p = {k} /\ p[k] = "applied"
    BY <1>2, <1>3, <1>4, <1>5
  <2>2. busy \ {k} \subseteq busy'
    BY <1>1, <1>2
  <2>3. jobs' = [jobs EXCEPT ![j] = [jobs[j] EXCEPT !.st = "done", !.put = p]]
    BY <1>4, <1>8
  <2>4. k \in DOMAIN store' /\ store'[k] = Wire(jobs[j].opts[k]) /\ \A i \in DOMAIN store : i \in DOMAIN store' /\ store'[i] = store[i]
    BY <1>1, <1>10
  <2>5. StepsTo(j, k, "done", p)
    BY <1>2, <1>3, <2>1, <2>2, <2>3, <2>4 DEF StepsTo
  <2>6. QED
    BY <2>5, TextStep
<1>12. QED
  BY <1>1, <1>11 DEF OtherInv

\* The request of a text is lost.
LEMMA TextLost == ASSUME OtherInv, NEW j \in DOMAIN jobs, NEW q \in DOMAIN jobs[j].put, PutFails(j, q) PROVE OtherInv'
<1>1. UNCHANGED <<page, form, inputs, origin, lists, store, first>> /\ ~modal' /\ Spend("faults")
      /\ busy' = busy \ DOMAIN jobs[j].opts
  BY DEF PutFails, ModalAfterFailure, BusyAfterFailure, OtherInv
<1>2. PICK k \in OtherKeys :
        /\ DOMAIN jobs[j].opts = {k} /\ DOMAIN jobs[j].put = {k}
        /\ jobs[j].st \in {"others", "done", "failed"}
        /\ jobs[j].st = "others" => k \in busy /\ jobs[j].put[k] \in {"sent", "applied"}
        /\ jobs[j].st = "done" => jobs[j].put[k] = "applied"
        /\ jobs[j].st = "failed" => jobs[j].put[k] = "lost"
  BY OneText
<1>3. q = k /\ jobs[j].st = "others" /\ jobs' = [jobs EXCEPT ![j].put[k] = "lost", ![j].st = "failed"]
  BY <1>2 DEF PutFails, Open
<1>4. PICK y : y = jobs[j]
  OBVIOUS
<1>5. PICK p : p = [y.put EXCEPT ![k] = "lost"]
  OBVIOUS
<1>6. y = [opts |-> y.opts, closing |-> y.closing, held |-> y.held, rev |-> y.rev, st |-> y.st, put |-> y.put]
  BY <1>4 DEF OtherInv, TextsInv, TextJob, IsJob
<1>7. jobs' = [jobs EXCEPT ![j] = [y EXCEPT !.st = "failed", !.put = p]]
  BY <1>3, <1>4, <1>5, <1>6
<1>8. TextsInv(jobs', busy', store')
  <2>1. DOMAIN p = {k} /\ p[k] = "lost"
    BY <1>2, <1>4, <1>5
  <2>2. busy \ {k} \subseteq busy'
    BY <1>1, <1>2
  <2>3. jobs' = [jobs EXCEPT ![j] = [jobs[j] EXCEPT !.st = "failed", !.put = p]]
    BY <1>4, <1>7
  <2>4. \A i \in DOMAIN store : i # k => i \in DOMAIN store' /\ store'[i] = store[i]
    BY <1>1
  <2>5. StepsTo(j, k, "failed", p)
    BY <1>2, <1>3, <2>1, <2>2, <2>3, <2>4 DEF StepsTo
  <2>6. QED
    BY <2>5, TextStep
<1>9. left' \in Bounds
  BY <1>1 DEF OtherInv, Bounds, Spend
<1>10. QED
  BY <1>1, <1>8, <1>9 DEF OtherInv

\* The other steps leave the saves and the stored texts alone.
LEMMA OtherStays ==
    ASSUME OtherInv, UNCHANGED <<page, origin, lists, modal, jobs, store, first>>,
           DOMAIN form' = OtherKeys, DOMAIN inputs' = OtherKeys,
           left' = left \/ Spend("edits") \/ Spend("saves") \/ Spend("faults"),
           busy' \subseteq OtherKeys \cup {"CheckUpdate"}, busy \cap OtherKeys \subseteq busy'
    PROVE  OtherInv'
<1>1. left' \in Bounds
  BY DEF OtherInv, Bounds, Spend
<1>2. PICK c : c = busy'
  OBVIOUS
<1>3. TextsInv(jobs, c, store)
  BY <1>2, TextsStay DEF OtherInv
<1>4. TextsInv(jobs', busy', store')
  BY <1>2, <1>3
<1>5. QED
  BY <1>1, <1>4 DEF OtherInv

LEMMA OtherStep == ASSUME OtherInv, [Next]_vars PROVE OtherInv'
<1>1. page = "other" /\ ~modal /\ DOMAIN form = OtherKeys /\ DOMAIN inputs = OtherKeys /\ busy \subseteq OtherKeys \cup {"CheckUpdate"}
  BY DEF OtherInv
<1>2. \A j \in DOMAIN jobs : jobs[j].st \in {"others", "done", "failed"}
  BY OneText
<1>3. CASE Network
  <2>1. CASE GetRead \/ getOtherOptions \/ ReleaseAnswered
    <3>1. CASE GetRead
      BY <1>1, <3>1, OtherStays DEF GetRead, page_vars
    <3>2. CASE getOtherOptions
      <4>1. DOMAIN inputs' = OtherKeys /\ form' = inputs' /\ busy' = busy /\ left' = left
            /\ UNCHANGED <<page, origin, lists, modal, jobs, store, first>>
        BY <3>2 DEF getOtherOptions
      <4>2. QED  BY <1>1, <4>1, OtherStays
    <3>3. CASE ReleaseAnswered
      <4>1. busy' = busy \ {"CheckUpdate"} /\ UNCHANGED <<page, form, inputs, left, origin, lists, modal, jobs, store, first>>
        BY <3>3 DEF ReleaseAnswered
      <4>2. busy \cap OtherKeys \subseteq busy'
        BY <4>1, TextFacts
      <4>3. QED  BY <1>1, <4>1, <4>2, OtherStays
    <3>4. QED  BY <2>1, <3>1, <3>2, <3>3
  <2>2. ~getOptions
    BY <1>1 DEF getOptions
  <2>3. \A j \in DOMAIN jobs : ~OIDCFetched(j) /\ ~SendOthers(j) /\ ~UpdateEnds(j)
    BY <1>1, <1>2 DEF OIDCFetched, SendOthers, UpdateEnds
  <2>4. QED
    BY <1>3, <2>1, <2>2, <2>3, TextEnds, TextAnswered DEF Network
<1>4. CASE Faults
  <2>1. CASE GetFails
    BY <1>1, <2>1, OtherStays DEF GetFails, page_vars
  <2>2. \A j \in DOMAIN jobs : ~OIDCFetchFails(j)
    BY <1>2 DEF OIDCFetchFails
  <2>3. QED
    BY <1>4, <2>1, <2>2, TextLost DEF Faults
<1>5. CASE User
  <2>1. /\ \A k : ~handleFormChange(k) /\ ~EditList(k) /\ ~handleCheckboxChange(k)
        /\ \A s : ~Submit(s)
        /\ ~handleAddEmail /\ ~handlePasswordLoginConfirm /\ ~CancelConfirm
    BY <1>1 DEF handleFormChange, EditList, handleCheckboxChange, Submit, handleAddEmail, handlePasswordLoginConfirm,
                CancelConfirm, FormShown
  <2>2. ASSUME NEW k \in OtherKeys, handleInputChange(k)  PROVE OtherInv'
    <3>1. PICK v : form' = [form EXCEPT ![k] = v] /\ inputs' = [inputs EXCEPT ![k] = v]
      BY <2>2 DEF handleInputChange
    <3>2. DOMAIN inputs' = OtherKeys /\ DOMAIN form' = OtherKeys /\ busy' = busy /\ Spend("edits")
          /\ UNCHANGED <<page, origin, lists, modal, jobs, store, first>>
      BY <1>1, <2>2, <3>1 DEF handleInputChange
    <3>3. QED  BY <1>1, <3>2, OtherStays
  <2>3. CASE checkUpdate
    <3>1. busy' = busy \cup {"CheckUpdate"} /\ Spend("saves")
          /\ UNCHANGED <<page, form, inputs, origin, lists, modal, jobs, store, first>>
      BY <2>3 DEF checkUpdate
    <3>2. QED  BY <1>1, <3>1, OtherStays
  <2>4. CASE CloseUpdate
    BY <1>1, <2>4, OtherStays DEF CloseUpdate
  <2>5. QED
    BY <1>5, <2>1, <2>2, <2>3, <2>4, SubmitTextKeeps DEF User
<1>6. CASE UNCHANGED vars
  BY <1>1, <1>6, OtherStays DEF vars, page_vars
<1>7. QED
  BY <1>3, <1>4, <1>5, <1>6 DEF Next

LEMMA OtherStart == ASSUME Init, page = "other" PROVE OtherInv
<1>1. PICK start \in Starts : page = start.page /\ store = start.store /\ left = start.left
  BY DEF Init
<1>2. left \in Bounds /\ AsStored(store)
  BY <1>1, StartsAssumption DEF Bounds
<1>3. /\ first = store /\ form = Each(OtherKeys, "") /\ inputs = form /\ origin = Each(OtherKeys, "undefined")
      /\ lists = FirstLists /\ ~modal /\ busy = {} /\ jobs = <<>>
  BY DEF Init, KeysOf
<1>4. jobs \in Seq({}) /\ DOMAIN jobs = {}
  <2>1. jobs = <<>>
    BY <1>3
  <2>2. QED  BY <2>1
<1>5. TextsInv(jobs, busy, store)
  BY <1>4 DEF TextsInv, IsList, OneOpen, LastExists, StoredIn
<1>6. DOMAIN form = OtherKeys /\ DOMAIN inputs = OtherKeys /\ DOMAIN origin = OtherKeys /\ DOMAIN lists = ListKeys
  BY <1>3 DEF Each, FirstLists
<1>7. QED
  BY <1>2, <1>3, <1>5, <1>6 DEF OtherInv

-----------------------------------------------------------------------------
(* What the panes promise. *)

PanesInv == SystemInv \/ OtherInv

LEMMA PanesInvHolds == Spec => []PanesInv
<1>1. Init => PanesInv
  <2>1. Init => page \in {"system", "other"}
    BY StartsAssumption DEF Init
  <2>2. QED  BY <2>1, SystemStart, OtherStart DEF PanesInv
<1>2. PanesInv /\ [Next]_vars => PanesInv'
  BY SystemStep, OtherStep DEF PanesInv
<1>3. QED
  BY <1>1, <1>2, PTL DEF Spec

\* Whatever is edited and saved, in any order and with any requests lost: a save leaves every
\* option alone that the user did not edit (Submit, OIDCFetched, UpdateOption of the system pane),
\* and no hidden secret is replaced by nothing.
THEOREM SavesSpare == Spec => []SavesSpareTheRest
<1>1. SystemInv => SavesSpareTheRest
  <2>1. SUFFICES ASSUME SystemInv  PROVE SavesSpareTheRest
    OBVIOUS
  <2>2. TypeOK
    <3>1. \A j \in DOMAIN jobs :
            /\ jobs[j].st \in {"fetch", "boxes", "others", "done", "failed"}
            /\ jobs[j].st = "boxes" => \A k \in DOMAIN jobs[j].put \ EndsWithEnabled : jobs[j].put[k] = "idle"
      BY <2>1 DEF SystemInv, JobsInv, SystemJob
    <3>2. QED
      BY <2>1, <3>1 DEF TypeOK, SystemInv, FormInv, LoadInv, KeysOf
  <2>3. UntouchedKeepTheirValue
    BY <2>1 DEF UntouchedKeepTheirValue, SystemInv, StoreInv, Plain, Unseen
  <2>4. SecretsAreNotBlanked
    BY <2>1 DEF SecretsAreNotBlanked, SystemInv, StoreInv
  <2>5. QED
    BY <2>2, <2>3, <2>4 DEF SavesSpareTheRest
<1>2. OtherInv => SavesSpareTheRest
  <2>1. SUFFICES ASSUME OtherInv  PROVE SavesSpareTheRest
    OBVIOUS
  <2>2. TypeOK
    <3>1. \A j \in DOMAIN jobs : jobs[j].st \in {"others", "done", "failed"}
      BY <2>1, OneText
    <3>2. QED
      BY <2>1, <3>1 DEF TypeOK, OtherInv, KeysOf
  <2>3. SecretsAreNotBlanked
    BY <2>1 DEF SecretsAreNotBlanked, OtherInv, AsStored
  <2>4. UntouchedKeepTheirValue
    BY <2>1 DEF UntouchedKeepTheirValue, OtherInv
  <2>5. QED
    BY <2>2, <2>3, <2>4 DEF SavesSpareTheRest
<1>3. QED
  BY <1>1, <1>2, PanesInvHolds, PTL DEF PanesInv

\* Password login goes off only after the confirmation (handleCheckboxChange asks first), although
\* every other save of the pane sends the copy of its values.
THEOREM PasswordLoginConfirmed == Spec => []PasswordLoginOffIsConfirmed
<1>1. PanesInv => PasswordLoginOffIsConfirmed
  BY DEF PanesInv, PasswordLoginOffIsConfirmed, SystemInv, StoreInv, OtherInv
<1>2. QED
  BY <1>1, PanesInvHolds, PTL

\* The server has the text of the other pane that was submitted last, once its saves are done:
\* a button takes no clicks while its save is open, so the saves of one text do not overlap.
THEOREM LastTextStored == Spec => []LastTextIsStored
<1>1. OtherInv => LastTextIsStored
  <2>1. SUFFICES ASSUME OtherInv, NEW k \in OtherKeys, SavesOf(k) # {}, \A j \in SavesOf(k) : jobs[j].st = "done"
                 PROVE  store[k] = Wire(jobs[CHOOSE j \in SavesOf(k) : \A i \in SavesOf(k) : i <= j].opts[k])
    BY DEF LastTextIsStored
  <2>2. PICK j : j = CHOOSE h \in SavesOf(k) : \A i \in SavesOf(k) : i <= h
    OBVIOUS
  <2>3. PICK h \in DOMAIN jobs : LastOf(jobs, h, k)
    <3>1. PICK i \in DOMAIN jobs : k \in DOMAIN jobs[i].opts
      BY <2>1 DEF SavesOf
    <3>2. QED
      BY <2>1, <3>1 DEF OtherInv, TextsInv, LastExists
  <2>4. h \in SavesOf(k) /\ \A i \in SavesOf(k) : i <= h
    BY <2>3 DEF LastOf, SavesOf
  <2>5. j \in SavesOf(k) /\ \A i \in SavesOf(k) : i <= j
    BY <2>2, <2>4
  <2>6. LastOf(jobs, j, k) /\ j \in DOMAIN jobs
    BY <2>5 DEF LastOf, SavesOf
  <2>7. jobs[j].put[k] = "applied"
    BY <2>1, <2>5, <2>6, OneText DEF LastOf
  <2>8. store[k] = Wire(jobs[j].opts[k])
    BY <2>1, <2>6, <2>7 DEF OtherInv, TextsInv, StoredIn
  <2>9. QED  BY <2>2, <2>8
<1>2. PanesInv => LastTextIsStored
  BY <1>1 DEF PanesInv, SystemInv, LastTextIsStored
<1>3. QED
  BY <1>2, PanesInvHolds, PTL
=============================================================================
