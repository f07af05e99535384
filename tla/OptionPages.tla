----------------------------- MODULE OptionPages -----------------------------
(***************************************************************************)
(* The cards of the administrator's settings console that edit options of  *)
(* the server (web/src/pages/Setting) and the containers that load the     *)
(* options for them (web/src/components/settings).                         *)
(*                                                                         *)
(* This module holds what differs from card to card: the initial value of  *)
(* its inputs, what its effect makes of newly loaded options, the PUT      *)
(* requests a submit sends, how it judges their answers, and its fields.   *)
(* OptionForms runs the cards.                                             *)
(*                                                                         *)
(* A JavaScript value is <<type, text>>.  An object is a function whose    *)
(* domain is the set of its keys: which keys an object has decides what a  *)
(* card can show and save.                                                 *)
(***************************************************************************)
EXTENDS Naturals, TLC

Str(x)  == <<"string", x>>
Bool(b) == <<"boolean", b>>
Num(x)  == <<"number", x>>

\* An object with the same value under every key of ks.
Each(ks, v) == [k \in ks |-> v]

\* helpers/boolean.js: only the strings the server writes occur here.
toBoolean(text) == Bool(IF text \in {"true", "1"} THEN "true" ELSE "false")

\* JSON.stringify(JSON.parse(x), null, 2): "json" and "json2" are the compact
\* and the indented text of one value, "bad" and "" do not parse.
Parses(x) == x \notin {"bad", ""}
Pretty(x) == IF x = "json" THEN "json2" ELSE x

\* What a value becomes on its way into the option table: NaN is null in JSON,
\* and the server formats null with %v.
Wire(v) == IF v = Num("NaN") THEN "<nil>" ELSE v[2]

\* helpers/utils.jsx: the keys present in both objects with different values.
compareObjects(oldObject, newObject) ==
  {k \in DOMAIN oldObject \cap DOMAIN newObject : oldObject[k] # newObject[k]}

\* GetOptions leaves out the options whose name ends in Token, Secret or Key.
HiddenKeys == {"EpayKey", "StripeApiSecret", "StripeWebhookSecret", "CreemApiKey", "CreemWebhookSecret"}

-----------------------------------------------------------------------------
(***************************************************************************)
(* The cards.  A card is its initial inputs, the effect that runs when the *)
(* container's options change, the queue of PUT requests a submit builds,  *)
(* whether the submit validates the form first, and whether it looks at    *)
(* data.success of the answers (res.includes(undefined) never holds: a     *)
(* failed request rejects).                                                *)
(***************************************************************************)
DiffCard(inputs) ==
  [inputs |-> inputs, effect |-> "tracked", queue |-> "diff", validated |-> FALSE, judged |-> FALSE]

SettingsGeneral ==
  [DiffCard(Each({"TopUpLink", "docs_link", "custom_currency_exchange_rate", "QuotaPerUnit",
                  "RetryTimes", "USDExchangeRate"}, Str(""))
            @@ "quota_display_type" :> Str("USD") @@ "custom_currency_symbol" :> Str("x")
            @@ Each({"DisplayTokenStatEnabled", "DefaultCollapseSidebar", "DemoSiteEnabled",
                     "SelfUseModeEnabled"}, Bool("false")))
   EXCEPT !.effect = "general"]

SettingsLog ==
  [DiffCard("LogConsumeEnabled" :> Bool("false") @@ "historyTimestamp" :> Str("month"))
   EXCEPT !.effect = "merged", !.queue = "no timestamp"]

SettingsMonitoring ==
  DiffCard(Each({"ChannelDisableThreshold", "QuotaRemindThreshold", "AutomaticDisableKeywords"}, Str(""))
           @@ Each({"AutomaticDisableChannelEnabled", "AutomaticEnableChannelEnabled",
                    "auto_test_channel_enabled"}, Bool("false"))
           @@ "auto_test_channel_minutes" :> Num("10"))

SettingsCreditLimit ==
  DiffCard(Each({"QuotaForNewUser", "PreConsumedQuota", "QuotaForInviter", "QuotaForInvitee"}, Str(""))
           @@ "enable_free_model_pre_consume" :> Bool("true"))

SettingsSensitiveWords ==
  DiffCard(Each({"CheckSensitiveEnabled", "CheckSensitiveOnPromptEnabled"}, Bool("false"))
           @@ "SensitiveWords" :> Str(""))

RequestRateLimit ==
  [DiffCard("ModelRequestRateLimitEnabled" :> Bool("false") @@ "ModelRequestRateLimitCount" :> Num("-1")
            @@ "ModelRequestRateLimitSuccessCount" :> Num("1000")
            @@ "ModelRequestRateLimitDurationMinutes" :> Num("1")
            @@ "ModelRequestRateLimitGroup" :> Str(""))
   EXCEPT !.judged = TRUE]

SettingsDrawing ==
  DiffCard(Each({"DrawingEnabled", "MjNotifyEnabled", "MjAccountFilterEnabled", "MjForwardUrlEnabled",
                 "MjModeClearEnabled", "MjActionCheckSuccessEnabled"}, Bool("false")))

DataDashboard ==
  DiffCard("DataExportEnabled" :> Bool("false")
           @@ Each({"DataExportInterval", "DataExportDefaultTime"}, Str("")))

SettingGlobalModel ==
  [DiffCard(Each({"pass_through_request_enabled", "ping_interval_enabled"}, Bool("false"))
            @@ "thinking_model_blacklist" :> Str("json2") @@ "ping_interval_seconds" :> Num("60"))
   EXCEPT !.effect = "global", !.queue = "normalized"]

SettingClaudeModel ==
  DiffCard(Each({"model_headers_settings", "default_max_tokens"}, Str(""))
           @@ "claude_thinking_adapter_enabled" :> Bool("true")
           @@ "claude_budget_tokens_percentage" :> Num("0.8"))

SettingGeminiModel ==
  [DiffCard(Each({"safety_settings", "version_settings", "supported_imagine_models"}, Str(""))
            @@ "gemini_thinking_adapter_enabled" :> Bool("false")
            @@ "gemini_budget_tokens_percentage" :> Num("0.6")
            @@ "function_call_thought_signature_enabled" :> Bool("true"))
   EXCEPT !.effect = "gemini", !.validated = TRUE]

ModelRatioSettings ==
  [DiffCard(Each({"ModelPrice", "ModelRatio", "CacheRatio", "CompletionRatio", "ImageRatio",
                  "AudioRatio", "AudioCompletionRatio"}, Str(""))
            @@ "ExposeRatioEnabled" :> Bool("false"))
   EXCEPT !.validated = TRUE, !.judged = TRUE]

GroupRatioSettings ==
  [DiffCard(Each({"GroupRatio", "UserUsableGroups", "GroupGroupRatio", "group_special_usable_group",
                  "AutoGroups"}, Str(""))
            @@ "DefaultUseAutoGroup" :> Bool("false"))
   EXCEPT !.validated = TRUE, !.judged = TRUE]

\* The payment cards send their fields whether or not they were changed.
PaymentCard(inputs, name) ==
  [inputs |-> inputs, effect |-> name, queue |-> name, validated |-> FALSE, judged |-> TRUE]

SettingsGeneralPayment == PaymentCard("ServerAddress" :> Str(""), "general payment")

SettingsPaymentGateway ==
  PaymentCard(Each({"PayAddress", "EpayId", "EpayKey", "TopupGroupRatio", "CustomCallbackAddress",
                    "PayMethods", "AmountOptions", "AmountDiscount"}, Str(""))
              @@ "Price" :> Num("7.3") @@ "MinTopUp" :> Num("1"), "gateway")

SettingsPaymentGatewayStripe ==
  PaymentCard(Each({"StripeApiSecret", "StripeWebhookSecret", "StripePriceId"}, Str(""))
              @@ "StripeUnitPrice" :> Num("8.0") @@ "StripeMinTopUp" :> Num("1")
              @@ "StripePromotionCodesEnabled" :> Bool("false"), "stripe")

SettingsPaymentGatewayCreem ==
  PaymentCard(Each({"CreemApiKey", "CreemWebhookSecret"}, Str("")) @@ "CreemTestMode" :> Bool("false")
              @@ "CreemProducts" :> Str("[]") @@ "products" :> Str("[]"), "creem")

-----------------------------------------------------------------------------
(***************************************************************************)
(* The containers: the options they start with, and what getOptions makes  *)
(* of the server's answer (texts by key), given the options held so far.   *)
(* TabOptions(t, options, data) is {} when getOptions throws.              *)
(***************************************************************************)
OperationInputs ==
  Each({"QuotaForNewUser", "PreConsumedQuota", "QuotaForInviter", "QuotaForInvitee", "QuotaPerUnit",
        "USDExchangeRate", "RetryTimes", "ChannelDisableThreshold", "QuotaRemindThreshold"}, Num("0"))
  @@ Each({"TopUpLink", "docs_link", "SensitiveWords", "AutomaticDisableKeywords"}, Str(""))
  @@ Each({"DisplayTokenStatEnabled", "DefaultCollapseSidebar", "DemoSiteEnabled", "SelfUseModeEnabled",
           "CheckSensitiveEnabled", "CheckSensitiveOnPromptEnabled", "LogConsumeEnabled",
           "AutomaticDisableChannelEnabled", "AutomaticEnableChannelEnabled",
           "auto_test_channel_enabled"}, Bool("false"))
  @@ "enable_free_model_pre_consume" :> Bool("true") @@ "quota_display_type" :> Str("USD")
  @@ "auto_test_channel_minutes" :> Num("10")

\* A key is a switch when the options held so far have a boolean under it.
OperationOptions(options, data) ==
  {[k \in DOMAIN data |-> IF k \in DOMAIN options /\ options[k][1] = "boolean"
                          THEN toBoolean(data[k]) ELSE Str(data[k])]}

EndsWithEnabled ==
  DOMAIN SettingsDrawing.inputs \cup
  {"DisplayTokenStatEnabled", "DemoSiteEnabled", "SelfUseModeEnabled", "LogConsumeEnabled",
   "AutomaticDisableChannelEnabled", "AutomaticEnableChannelEnabled", "CheckSensitiveEnabled",
   "CheckSensitiveOnPromptEnabled", "ModelRequestRateLimitEnabled", "DataExportEnabled",
   "ExposeRatioEnabled", "StripePromotionCodesEnabled"}

\* Mutant: the texts are taken as they are.
DrawingOptionsAsTexts(options, data) == {[k \in DOMAIN data |-> Str(data[k])]}

DrawingOptions(options, data) ==
  {[k \in DOMAIN data |-> IF k \in EndsWithEnabled THEN toBoolean(data[k]) ELSE Str(data[k])]}

\* JSON.parse of a text that is not JSON throws, and nothing is loaded.
RateLimitInputs == [RequestRateLimit.inputs EXCEPT !["ModelRequestRateLimitCount"] = Num("0")]

RateLimitOptions(options, data) ==
  LET group == "ModelRequestRateLimitGroup"
      Value(k) == CASE k = group -> Str(Pretty(data[k]))
                    [] k \in EndsWithEnabled -> toBoolean(data[k])
                    [] OTHER -> Str(data[k])
  IN  IF group \in DOMAIN data /\ ~Parses(data[group]) THEN {}
      ELSE {[k \in DOMAIN data |-> Value(k)]}

ModelJSONKeys ==
  {"safety_settings", "version_settings", "supported_imagine_models", "model_headers_settings",
   "default_max_tokens", "thinking_model_blacklist"}

ModelEndsWithenabled ==
  {"claude_thinking_adapter_enabled", "gemini_thinking_adapter_enabled", "pass_through_request_enabled",
   "ping_interval_enabled", "function_call_thought_signature_enabled"}

ModelInputs ==
  SettingGlobalModel.inputs @@ SettingClaudeModel.inputs
  @@ Each({"safety_settings", "version_settings", "supported_imagine_models"}, Str(""))
  @@ "gemini_thinking_adapter_enabled" :> Bool("false")
  @@ "gemini_budget_tokens_percentage" :> Num("0.6")

ModelOptions(options, data) ==
  LET Value(k) == CASE k \in ModelJSONKeys -> Str(Pretty(data[k]))
                    [] k \in EndsWithEnabled \cup ModelEndsWithenabled -> toBoolean(data[k])
                    [] OTHER -> Str(data[k])
  IN  IF \E k \in ModelJSONKeys \cap DOMAIN data : data[k] # "" /\ ~Parses(data[k]) THEN {}
      ELSE {[k \in DOMAIN data |-> Value(k)]}

DashboardInputs ==
  "DataExportEnabled" :> Bool("false") @@ "DataExportDefaultTime" :> Str("hour")
  @@ "DataExportInterval" :> Num("5")

\* Only the keys the options held so far have are taken over.
DashboardOptions(options, data) ==
  LET taken == {k \in DOMAIN data : k \in DOMAIN options \/ k = "DataExportEnabled"}
  IN  {[k \in taken |-> IF k = "DataExportEnabled" THEN toBoolean(data[k]) ELSE Str(data[k])]}

RatioInputs ==
  Each({"ModelPrice", "ModelRatio", "CacheRatio", "CompletionRatio", "GroupRatio", "GroupGroupRatio",
        "ImageRatio", "AudioRatio", "AudioCompletionRatio", "AutoGroups", "UserUsableGroups",
        "group_special_usable_group"}, Str(""))
  @@ Each({"DefaultUseAutoGroup", "ExposeRatioEnabled"}, Bool("false"))

RatioOptions(options, data) ==
  {[k \in DOMAIN data |-> IF k \in {"DefaultUseAutoGroup", "ExposeRatioEnabled"} THEN toBoolean(data[k])
                          ELSE Str(IF Parses(data[k]) THEN Pretty(data[k]) ELSE data[k])]}

PaymentInputs ==
  SettingsGeneralPayment.inputs @@ SettingsPaymentGateway.inputs @@ SettingsPaymentGatewayStripe.inputs

\* The names under which the payment container holds three of the options.
HeldAs(k) == CASE k = "amount_options" -> "AmountOptions"
               [] k = "amount_discount" -> "AmountDiscount"
               [] OTHER -> k
OptionName(f) == CASE f = "AmountOptions" -> "amount_options"
                   [] f = "AmountDiscount" -> "amount_discount"
                   [] OTHER -> f

parseFloat(x) == Num(IF x \in {"", "a", "<nil>"} THEN "NaN" ELSE x)

PaymentOptions(options, data) ==
  LET Value(k) == CASE k \in {"TopupGroupRatio", "amount_options", "amount_discount"} -> Str(Pretty(data[k]))
                    [] k \in {"Price", "MinTopUp", "StripeUnitPrice", "StripeMinTopUp"} -> parseFloat(data[k])
                    [] k \in EndsWithEnabled -> toBoolean(data[k])
                    [] OTHER -> Str(data[k])
  IN  {[h \in {HeldAs(k) : k \in DOMAIN data} |-> Value(OptionName(h))]}

-----------------------------------------------------------------------------
(***************************************************************************)
(* The effects: the inputs and inputsRow a card has after its container's  *)
(* options became `options', given the inputs it held.                     *)
(***************************************************************************)
Loaded(inputs, row) == [inputs |-> inputs, row |-> row]

Tracked(inputs, options) == [k \in DOMAIN options \cap DOMAIN inputs |-> options[k]]

\* Mutant: inputsRow is not replaced with the inputs.
TrackedEffectOldRow(inputs, options) ==
  Loaded(Tracked(inputs, options), [k \in DOMAIN Tracked(inputs, options) |-> inputs[k]])

TrackedEffect(inputs, options) == Loaded(Tracked(inputs, options), Tracked(inputs, options))

\* Mutant: without the backfill.
GeneralEffectTracked(inputs, options) == TrackedEffect(inputs, options)

\* The two custom currency keys are not among the container's first options,
\* so they would be dropped for good if they were only tracked.
GeneralEffect(inputs, options) ==
  LET tracked  == Tracked(inputs, options)
      custom   == {"custom_currency_symbol", "custom_currency_exchange_rate"} \cap DOMAIN options
      backfill == [k \in custom |-> options[k]]
      legacy   == IF "quota_display_type" \notin DOMAIN tracked
                     /\ "DisplayInCurrencyEnabled" \in DOMAIN options
                  THEN "quota_display_type" :>
                         Str(IF options["DisplayInCurrencyEnabled"] = Str("") THEN "TOKENS" ELSE "USD")
                  ELSE <<>>
      current  == backfill @@ legacy @@ tracked
  IN  Loaded(current, current)

MergedEffect(inputs, options) ==
  LET current == [Tracked(inputs, options) @@ inputs EXCEPT !["historyTimestamp"] = inputs["historyTimestamp"]]
      row     == [k \in DOMAIN Tracked(inputs, options) \cup {"historyTimestamp"} |-> current[k]]
  IN  Loaded(current, row)

GlobalEffect(options) ==
  LET defaults == SettingGlobalModel.inputs
      Value(k) == IF k \notin DOMAIN options THEN defaults[k]
                  ELSE IF k # "thinking_model_blacklist" THEN options[k]
                  ELSE IF Parses(options[k][2]) THEN Str(Pretty(options[k][2])) ELSE defaults[k]
      current  == [k \in DOMAIN defaults |-> Value(k)]
  IN  Loaded(current, current)

GeminiEffect(options) ==
  LET current == Tracked(SettingGeminiModel.inputs, options) @@ SettingGeminiModel.inputs
  IN  Loaded(current, current)

\* options[k] || d, and options[k] !== undefined ? options[k] : d
Or(options, k, d) == IF k \in DOMAIN options /\ options[k][2] # "" THEN options[k] ELSE d
Given(options, k, d) == IF k \in DOMAIN options THEN options[k] ELSE d

GeneralPaymentEffect(options) ==
  LET current == "ServerAddress" :> Or(options, "ServerAddress", Str(""))
  IN  Loaded(current, current)

GatewayEffect(options) ==
  LET json    == {"AmountOptions", "AmountDiscount"}
      numbers == {"Price", "MinTopUp"}
      first   == SettingsPaymentGateway.inputs
      current == [k \in DOMAIN first |->
                    CASE k \in numbers -> Given(options, k, first[k])
                      [] k \in json -> Str(Pretty(Or(options, k, Str(""))[2]))
                      [] OTHER -> Or(options, k, Str(""))]
  IN  Loaded(current, current)

StripeEffect(options) ==
  LET texts   == {"StripeApiSecret", "StripeWebhookSecret", "StripePriceId"}
      first   == SettingsPaymentGatewayStripe.inputs
      current == [k \in DOMAIN first |-> IF k \in texts THEN Or(options, k, Str(""))
                                         ELSE Given(options, k, first[k])]
  IN  Loaded(current, current)

\* Products that do not parse are replaced by none.
CreemEffect(options) ==
  LET text    == Or(options, "CreemProducts", Str("[]"))
      current == [k \in {"CreemApiKey", "CreemWebhookSecret"} |-> Or(options, k, Str(""))]
                 @@ "CreemProducts" :> text
                 @@ "CreemTestMode" :> Bool(IF Given(options, "CreemTestMode", Str("")) = Str("true")
                                            THEN "true" ELSE "false")
                 @@ "products" :> Str(IF text[2] = "bad" THEN "[]" ELSE text[2])
  IN  Loaded(current, current)

CardEffect(card, inputs, options) ==
  CASE card.effect = "tracked" -> TrackedEffect(inputs, options)
    [] card.effect = "general" -> GeneralEffect(inputs, options)
    [] card.effect = "merged"  -> MergedEffect(inputs, options)
    [] card.effect = "global"  -> GlobalEffect(options)
    [] card.effect = "gemini"  -> GeminiEffect(options)
    [] card.effect = "general payment" -> GeneralPaymentEffect(options)
    [] card.effect = "gateway" -> GatewayEffect(options)
    [] card.effect = "stripe"  -> StripeEffect(options)
    [] card.effect = "creem"   -> CreemEffect(options)

-----------------------------------------------------------------------------
(***************************************************************************)
(* The queues: the texts a submit PUTs by option key, {} when it sends     *)
(* nothing because nothing changed or an input is refused.                 *)
(***************************************************************************)
Texts(inputs, ks) == IF ks = {} THEN {} ELSE {[k \in ks |-> Wire(inputs[k])]}

DiffQueue(inputs, row) == Texts(inputs, compareObjects(inputs, row))

LogQueue(inputs, row) == Texts(inputs, compareObjects(inputs, row) \ {"historyTimestamp"})

\* An empty blacklist is saved as the empty list.
normalizeValueBeforeSave(k, text) ==
  IF k = "thinking_model_blacklist" /\ text = "" THEN "json" ELSE text

GlobalQueue(inputs, row) ==
  {[k \in DOMAIN q |-> normalizeValueBeforeSave(k, q[k])] : q \in DiffQueue(inputs, row)}

\* removeTrailingSlash
NoTrailingSlash(x) == IF x = "a/" THEN "a" ELSE x

GeneralPaymentQueue(inputs) == {"ServerAddress" :> NoTrailingSlash(inputs["ServerAddress"][2])}

GatewayQueue(inputs, row, options) ==
  LET Changed(k) == inputs[k] # row[k]
      json    == {"TopupGroupRatio", "PayMethods", "AmountOptions", "AmountDiscount"}
      Refused(k) == /\ Changed(k)
                    /\ ~Parses(inputs[k][2])
                    /\ k \in {"AmountOptions", "AmountDiscount"} => inputs[k][2] # ""
      given   == {k \in {"EpayId", "EpayKey", "Price", "MinTopUp", "CustomCallbackAddress"} :
                    inputs[k] # Str("")}
      sent    == {"PayAddress"} \cup given \cup {k \in json : Changed(k)}
  IN  IF Given(options, "ServerAddress", Str("a")) = Str("") \/ \E k \in json : Refused(k) THEN {}
      ELSE {[k \in {OptionName(f) : f \in sent} |-> NoTrailingSlash(inputs[HeldAs(k)][2])]}

StripeQueue(inputs, row, options) ==
  LET given == {k \in {"StripeApiSecret", "StripeWebhookSecret", "StripePriceId"} : inputs[k] # Str("")}
      promo == {k \in {"StripePromotionCodesEnabled"} : inputs[k] # row[k]}
  IN  IF Given(options, "ServerAddress", Str("a")) = Str("") THEN {}
      ELSE Texts(inputs, given \cup {"StripeUnitPrice", "StripeMinTopUp"} \cup promo)

CreemQueue(inputs) ==
  LET given == {k \in {"CreemApiKey", "CreemWebhookSecret"} : inputs[k] # Str("")}
  IN  {"CreemProducts" :> inputs["products"][2] @@ q : q \in Texts(inputs, given \cup {"CreemTestMode"})}

CardQueue(card, inputs, row, options) ==
  CASE card.queue = "diff" -> DiffQueue(inputs, row)
    [] card.queue = "no timestamp" -> LogQueue(inputs, row)
    [] card.queue = "normalized" -> GlobalQueue(inputs, row)
    [] card.queue = "general payment" -> GeneralPaymentQueue(inputs)
    [] card.queue = "gateway" -> GatewayQueue(inputs, row, options)
    [] card.queue = "stripe" -> StripeQueue(inputs, row, options)
    [] card.queue = "creem" -> CreemQueue(inputs)

=============================================================================
