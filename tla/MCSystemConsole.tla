--------------------------- MODULE MCSystemConsole ---------------------------
(***************************************************************************)
(* The system and the other pane on a configured server and on a new one.  *)
(***************************************************************************)
EXTENDS SystemConsole

\* Every option has a value; the login methods are off.
Configured == [k \in FormKeys \cup ListKeys |->
  CASE k = "PasswordLoginEnabled" -> "true"
    [] k \in Checkboxes \cup {"WorkerAllowHttpImageRequestEnabled"} -> "false"
    [] k = "fetch_setting.ip_filter_mode" -> "false"
    [] k = "fetch_setting.domain_filter_mode" -> "true"
    [] k = "EmailDomainWhitelist" -> "d"
    [] k \in ListKeys -> "[x]"
    [] OTHER -> "a"]

\* InitOptionMap: what a new server has of these options.
Fresh == Each((LoginBoxes \cup EmailBoxes) \ {"discord.enabled", "oidc.enabled"}, "false")
         @@ Each({"SMTPServer", "SMTPFrom", "SMTPAccount", "SMTPToken", "ServerAddress",
                  "GitHubClientId", "GitHubClientSecret", "TelegramBotToken", "TelegramBotName",
                  "WeChatServerAddress", "WeChatServerToken", "WeChatAccountQRCodeImageURL",
                  "TurnstileSiteKey", "TurnstileSecretKey"}, "")
         @@ "SMTPPort" :> "587" @@ "EmailDomainWhitelist" :> "d"
NewServer == [k \in DOMAIN Fresh |->
  IF k \in {"PasswordLoginEnabled", "PasswordRegisterEnabled", "RegisterEnabled"} THEN "true" ELSE Fresh[k]]

Bounds(edits, saves, faults, edited, sections) ==
  [edits |-> edits, saves |-> saves, faults |-> faults, edited |-> edited, sections |-> sections]

SystemPane(server, bounds) == [page |-> "system", store |-> server, left |-> bounds]
OtherPane(texts, bounds) == [page |-> "other", store |-> texts, left |-> bounds]

\* One save of every section; overlapping saves of some sections, of OIDC with
\* its fetch, of checkboxes and of the texts of the other pane.
MCStarts ==
  {SystemPane(Configured, Bounds(1, 1, 1, {"WorkerUrl", "passkey.rp_id", "fetch_setting.domain_list"}, DOMAIN SectionNamed)),
   SystemPane(NewServer, Bounds(2, 1, 0, {"EmailDomainWhitelist", "oidc.well_known", "GitHubOAuthEnabled"}, DOMAIN SectionNamed)),
   SystemPane(Configured, Bounds(2, 2, 1, {"SMTPToken", "GitHubClientId"}, {"GitHubOAuth", "SMTP"})),
   SystemPane(Configured, Bounds(1, 2, 1, {"oidc.client_id"}, {"OIDC"})),
   SystemPane(Configured, Bounds(1, 3, 1, {"PasswordLoginEnabled", "passkey.allow_insecure_origin", "ServerAddress"},
                             {"ServerAddress"})),
   OtherPane(Each(OtherKeys, "a"), Bounds(2, 2, 1, {"Notice", "Footer"}, {})),
   OtherPane(Each(submitPersonalization \cup {"Notice"}, ""),
         Bounds(1, 2, 1, {"legal.user_agreement"}, {}))}

=============================================================================
