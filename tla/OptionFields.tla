---------------------------- MODULE OptionFields ----------------------------
(***************************************************************************)
(* The fields the option cards render: for each card the keys the user can *)
(* edit, given its inputs, and the kind of control behind each key.  The   *)
(* kind says what the control's onChange can put into the inputs and which *)
(* rule validates it.                                                      *)
(***************************************************************************)
EXTENDS OptionPages

\* Values a control can produce: a sample of each class the code tells apart.
FieldValues(kind) ==
  CASE kind = "switch"   -> {Bool("true"), Bool("false")}
    [] kind = "text"     -> {Str("a"), Str("")}
    [] kind = "url"      -> {Str("a"), Str("a/")}
    [] kind = "String"   -> {Str("1"), Str("")}              \* String(value), "" when cleared
    [] kind = "parseInt" -> {Num("1"), Num("NaN")}           \* parseInt(value), NaN when cleared
    [] kind = "number"   -> {Num("5"), Str("")}              \* the value itself
    [] kind \in {"json", "json or empty", "text of json"} -> {Str("json2"), Str("bad"), Str("")}
    [] kind = "display type" -> {Str("USD"), Str("CNY"), Str("TOKENS"), Str("CUSTOM")}
    [] kind = "time unit" -> {Str("hour"), Str("day")}
    [] kind = "products" -> {Str("[]"), Str("json")}

\* Mutant: the rule accepts everything.
verifyJSONNever(text) == TRUE

\* helpers/utils.jsx verifyJSON, behind the rules of the cards that validate.
verifyJSON(text) == Parses(text)
Accepts(kind, v) ==
  CASE kind = "json" -> verifyJSON(v[2])
    [] kind = "json or empty" -> v[2] = "" \/ verifyJSON(v[2])
    [] OTHER -> TRUE

-----------------------------------------------------------------------------
\* The key the combined "1 USD = X" input edits; none in dollars.
CombinedRateKey(inputs) ==
  LET type == Given(inputs, "quota_display_type", Str(""))
  IN  CASE type = Str("CNY")    -> {"USDExchangeRate"}
        [] type = Str("TOKENS") -> {"QuotaPerUnit"}
        [] type = Str("CUSTOM") -> {"custom_currency_exchange_rate"}
        [] OTHER -> {}

GeneralFields(inputs) ==
  Each({"TopUpLink", "docs_link", "RetryTimes"} \cup CombinedRateKey(inputs), "text")
  @@ "quota_display_type" :> "display type"
  @@ Each({k \in {"custom_currency_symbol"} : Given(inputs, "quota_display_type", Str("")) = Str("CUSTOM")}, "text")
  @@ Each({"DisplayTokenStatEnabled", "DefaultCollapseSidebar", "DemoSiteEnabled",
           "SelfUseModeEnabled"}, "switch")

LogFields == "LogConsumeEnabled" :> "switch" @@ "historyTimestamp" :> "time unit"

MonitoringFields ==
  Each({"auto_test_channel_enabled", "AutomaticDisableChannelEnabled",
        "AutomaticEnableChannelEnabled"}, "switch")
  @@ "auto_test_channel_minutes" :> "parseInt" @@ "AutomaticDisableKeywords" :> "text"
  @@ Each({"ChannelDisableThreshold", "QuotaRemindThreshold"}, "String")

CreditLimitFields ==
  Each({"QuotaForNewUser", "PreConsumedQuota", "QuotaForInviter", "QuotaForInvitee"}, "String")
  @@ "enable_free_model_pre_consume" :> "switch"

SensitiveWordsFields ==
  Each({"CheckSensitiveEnabled", "CheckSensitiveOnPromptEnabled"}, "switch") @@ "SensitiveWords" :> "text"

\* The rule on the group table shows a message but does not stop onSubmit.
RequestRateLimitFields ==
  "ModelRequestRateLimitEnabled" :> "switch" @@ "ModelRequestRateLimitGroup" :> "json"
  @@ Each({"ModelRequestRateLimitDurationMinutes", "ModelRequestRateLimitCount",
           "ModelRequestRateLimitSuccessCount"}, "String")

DrawingFields ==
  Each({"DrawingEnabled", "MjNotifyEnabled", "MjAccountFilterEnabled", "MjForwardUrlEnabled",
        "MjModeClearEnabled", "MjActionCheckSuccessEnabled"}, "switch")

DataDashboardFields ==
  "DataExportEnabled" :> "switch" @@ "DataExportInterval" :> "String"
  @@ "DataExportDefaultTime" :> "time unit"

GlobalFields(inputs) ==
  Each({"pass_through_request_enabled", "ping_interval_enabled"}, "switch")
  @@ "thinking_model_blacklist" :> "json or empty"
  @@ Each({k \in {"ping_interval_seconds"} : inputs["ping_interval_enabled"] = Bool("true")}, "number")

ClaudeFields ==
  Each({"model_headers_settings", "default_max_tokens"}, "json")
  @@ "claude_thinking_adapter_enabled" :> "switch" @@ "claude_budget_tokens_percentage" :> "number"

GeminiFields ==
  Each({"safety_settings", "version_settings", "supported_imagine_models"}, "json")
  @@ Each({"function_call_thought_signature_enabled", "gemini_thinking_adapter_enabled"}, "switch")
  @@ "gemini_budget_tokens_percentage" :> "number"

ModelRatioFields ==
  Each({"ModelPrice", "ModelRatio", "CacheRatio", "CompletionRatio", "ImageRatio", "AudioRatio",
        "AudioCompletionRatio"}, "json")
  @@ "ExposeRatioEnabled" :> "switch"

GroupRatioFields ==
  Each({"GroupRatio", "UserUsableGroups", "GroupGroupRatio", "group_special_usable_group"}, "json")
  @@ "AutoGroups" :> "json or empty" @@ "DefaultUseAutoGroup" :> "switch"

GeneralPaymentFields == "ServerAddress" :> "url"

GatewayFields ==
  "PayAddress" :> "url" @@ Each({"EpayId", "EpayKey", "CustomCallbackAddress"}, "text")
  @@ Each({"Price", "MinTopUp"}, "number")
  @@ Each({"TopupGroupRatio", "PayMethods", "AmountOptions", "AmountDiscount"}, "text of json")

StripeFields ==
  Each({"StripeApiSecret", "StripeWebhookSecret", "StripePriceId"}, "text")
  @@ Each({"StripeUnitPrice", "StripeMinTopUp"}, "number") @@ "StripePromotionCodesEnabled" :> "switch"

CreemFields ==
  Each({"CreemApiKey", "CreemWebhookSecret"}, "text") @@ "CreemTestMode" :> "switch"
  @@ "products" :> "products"

-----------------------------------------------------------------------------
(***************************************************************************)
(* The cards by name, and the tabs of the console: the cards a container   *)
(* shows, its first options and its getOptions.                            *)
(***************************************************************************)
CardNamed(c) ==
  CASE c = "General" -> SettingsGeneral      [] c = "Log" -> SettingsLog
    [] c = "Monitoring" -> SettingsMonitoring [] c = "CreditLimit" -> SettingsCreditLimit
    [] c = "SensitiveWords" -> SettingsSensitiveWords [] c = "RateLimit" -> RequestRateLimit
    [] c = "Drawing" -> SettingsDrawing      [] c = "DataDashboard" -> DataDashboard
    [] c = "Global" -> SettingGlobalModel    [] c = "Claude" -> SettingClaudeModel
    [] c = "Gemini" -> SettingGeminiModel    [] c = "ModelRatio" -> ModelRatioSettings
    [] c = "GroupRatio" -> GroupRatioSettings [] c = "GeneralPayment" -> SettingsGeneralPayment
    [] c = "Gateway" -> SettingsPaymentGateway [] c = "Stripe" -> SettingsPaymentGatewayStripe
    [] c = "Creem" -> SettingsPaymentGatewayCreem

FieldsOf(c, inputs) ==
  CASE c = "General" -> GeneralFields(inputs) [] c = "Log" -> LogFields
    [] c = "Monitoring" -> MonitoringFields  [] c = "CreditLimit" -> CreditLimitFields
    [] c = "SensitiveWords" -> SensitiveWordsFields [] c = "RateLimit" -> RequestRateLimitFields
    [] c = "Drawing" -> DrawingFields        [] c = "DataDashboard" -> DataDashboardFields
    [] c = "Global" -> GlobalFields(inputs)  [] c = "Claude" -> ClaudeFields
    [] c = "Gemini" -> GeminiFields          [] c = "ModelRatio" -> ModelRatioFields
    [] c = "GroupRatio" -> GroupRatioFields  [] c = "GeneralPayment" -> GeneralPaymentFields
    [] c = "Gateway" -> GatewayFields        [] c = "Stripe" -> StripeFields
    [] c = "Creem" -> CreemFields

Tabs == {"operation", "dashboard", "drawing", "payment", "ratelimit", "models", "ratio"}

\* The last three containers are in the repository but no pane shows them.
CardsOf(t) ==
  CASE t = "operation" -> {"General", "SensitiveWords", "Log", "Monitoring", "CreditLimit"}
    [] t = "dashboard" -> {"DataDashboard"}
    [] t = "drawing"   -> {"Drawing"}
    [] t = "payment"   -> {"GeneralPayment", "Gateway", "Stripe", "Creem"}
    [] t = "ratelimit" -> {"RateLimit"}
    [] t = "models"    -> {"Global", "Claude", "Gemini"}
    [] t = "ratio"     -> {"ModelRatio", "GroupRatio"}

FirstOptions(t) ==
  CASE t = "operation" -> OperationInputs [] t = "dashboard" -> DashboardInputs
    [] t = "drawing" -> SettingsDrawing.inputs [] t = "payment" -> PaymentInputs
    [] t = "ratelimit" -> RateLimitInputs [] t = "models" -> ModelInputs [] t = "ratio" -> RatioInputs

getOptions(t, options, data) ==
  CASE t = "operation" -> OperationOptions(options, data) [] t = "dashboard" -> DashboardOptions(options, data)
    [] t = "drawing" -> DrawingOptions(options, data) [] t = "payment" -> PaymentOptions(options, data)
    [] t = "ratelimit" -> RateLimitOptions(options, data) [] t = "models" -> ModelOptions(options, data)
    [] t = "ratio" -> RatioOptions(options, data)

=============================================================================
