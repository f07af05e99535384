---------------------------- MODULE MCOptionForms ----------------------------
(***************************************************************************)
(* The console on a server where every option has been set, and on a new   *)
(* one that knows only the options it is seeded with.                      *)
(***************************************************************************)
EXTENDS OptionForms

\* A text for an option as the server stores it: of the control's kind.
FirstText(c, f) ==
  LET kind == FieldsOf(c, CardNamed(c).inputs)[f]
  IN  CASE kind = "switch" -> "false"
        [] kind \in {"json", "json or empty", "text of json", "products"} -> "json"
        [] kind \in {"String", "parseInt", "number"} -> "1"
        [] kind = "display type" -> "CNY"
        [] kind = "time unit" -> "hour"
        [] OTHER -> "a"

Stored(c) == DOMAIN FieldsOf(c, CardNamed(c).inputs) \ {"historyTimestamp", "products"}

\* Every option of the tab's cards has been set.
FullStore(t) ==
  [k \in UNION {{OptionName(f) : f \in Stored(c)} : c \in CardsOf(t)} |->
     LET c == CHOOSE c \in CardsOf(t) : HeldAs(k) \in Stored(c) IN FirstText(c, HeldAs(k))]
  @@ CASE t = "operation" -> Each({"USDExchangeRate", "QuotaPerUnit"}, "1")
       [] t = "models" -> "ping_interval_seconds" :> "1"
       [] t = "payment" -> Each({"EpayId", "CustomCallbackAddress", "StripePriceId"}, "")
       [] OTHER -> <<>>

\* model/option.go InitOptionMap: what a new server has of these options, in
\* memory only.
FreshStore == Each({"QuotaForNewUser", "QuotaForInviter", "QuotaForInvitee"}, "1") @@ "ServerAddress" :> "a"

Start(t, s, edits, n, tabs) ==
  [tab |-> t, store |-> s, table |-> IF s = FreshStore THEN <<>> ELSE s,
   left |-> [edits |-> edits, saves |-> n, tabs |-> tabs, faults |-> 1, foreign |-> 1]]

\* Two edits and two overlapping saves where a tab has one or two cards; one of
\* them less where three or five cards or batches of many PUTs multiply the states.
MCStarts ==
  {Start(t, FullStore(t), 2, 2, 0) : t \in {"dashboard", "ratelimit", "ratio"}}
  \cup {Start("models", FullStore("models"), 2, 1, 0), Start("models", FullStore("models"), 1, 2, 0),
        Start("drawing", FullStore("drawing"), 2, 2, 1), Start("drawing", FreshStore, 1, 2, 1),
        Start("operation", FullStore("operation"), 2, 1, 0),
        Start("operation", FullStore("operation"), 1, 2, 0), Start("operation", FreshStore, 1, 1, 1),
        Start("payment", FullStore("payment"), 1, 1, 0)}

MCEdited == {<<"General", "quota_display_type">>, <<"General", "USDExchangeRate">>,
             <<"Monitoring", "auto_test_channel_minutes">>, <<"Log", "LogConsumeEnabled">>,
             <<"CreditLimit", "QuotaForNewUser">>, <<"SensitiveWords", "SensitiveWords">>,
             <<"Drawing", "MjNotifyEnabled">>, <<"DataDashboard", "DataExportDefaultTime">>,
             <<"RateLimit", "ModelRequestRateLimitGroup">>, <<"Global", "thinking_model_blacklist">>,
             <<"Claude", "default_max_tokens">>, <<"Gemini", "safety_settings">>,
             <<"ModelRatio", "ModelRatio">>, <<"GroupRatio", "AutoGroups">>,
             <<"GeneralPayment", "ServerAddress">>, <<"Gateway", "AmountOptions">>,
             <<"Gateway", "Price">>, <<"Stripe", "StripePromotionCodesEnabled">>, <<"Creem", "products">>}

MCForeign == {<<"USDExchangeRate", "5">>, <<"custom_currency_symbol", "a">>, <<"MjNotifyEnabled", "true">>,
              <<"Price", "5">>, <<"ModelRatio", "json2">>, <<"version_settings", "bad">>}

=============================================================================
