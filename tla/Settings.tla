------------------------------ MODULE Settings ------------------------------
(***************************************************************************)
(* The configuration (internal/config) and the settings of the language    *)
(* model that the dashboard can change (dashboard/llm_config.go).          *)
(*                                                                         *)
(* A configuration is put together once, from the built-in values, the     *)
(* environment and the files it names, and validated as a whole.  Only the *)
(* four settings of the language model change afterwards: a page writes    *)
(* them to llm.config, where the next start reads them again.              *)
(*                                                                         *)
(* Texts are what the code tells apart: a name, an address by its kind, a  *)
(* clock by its digits.  Durations are milliseconds, weights and the other *)
(* fractions thousandths, rates of fees hundred thousandths, days numbers  *)
(* from 1; a text that is no duration, integer or day has a value below    *)
(* every bound.  A section whose fractions are all finite says so.         *)
(***************************************************************************)
EXTENDS Integers, Sequences, FiniteSets

CONSTANTS
    SettingsField,          \* the settings of the language model: base_url, api_key, model, timeout
    SettingsText,           \* the texts a setting of the language model may have
    Acceptable,             \* LLM.Validate: the texts each setting may have while it is on
    DefaultSettings,        \* DefaultLLM
    SyncsDirectories,       \* the file system can sync a directory; it is no error if not
    MaxUnsure               \* bound: saves that failed after the file was replaced

\* What the environment or a file says: nothing of the fields it leaves out.
Saying == UNION {[S -> SettingsText] : S \in SUBSET SettingsField}

ASSUME SettingsAssumption ==
    /\ Acceptable \in [SettingsField -> SUBSET SettingsText]
    /\ DefaultSettings \in [SettingsField -> SettingsText]
    /\ \A f \in SettingsField : DefaultSettings[f] \in Acceptable[f]
    /\ SyncsDirectories \in BOOLEAN
    /\ MaxUnsure \in Nat

Within(x, least, most) == least <= x /\ x <= most
Second == 1000
Minute == 60 * Second
Hour == 60 * Minute

-----------------------------------------------------------------------------
(* Clocks.  time.Parse("15:04") reads an hour of one digit too; a text that *)
(* it does not read has the hour 24.                                        *)

Clock(hour, minute) == [hour |-> hour, minute |-> minute, short |-> FALSE]
ShortClock(hour, minute) == [hour |-> hour, minute |-> minute, short |-> TRUE]
ClockTexts == {c \in [hour : 0 .. 24, minute : 0 .. 59, short : BOOLEAN] : c.short => c.hour < 10}
ReadableClock(c) == c.hour < 24
CanonicalClock(c) == ReadableClock(c) /\ ~c.short
MinutesOf(c) == 60 * c.hour + c.minute

\* The order of the texts: a colon comes after every digit, and an end before it.
TextRank(c) ==
    IF c.short
    THEN 11 * (11 * (11 * (11 * c.hour + 10) + c.minute \div 10) + (c.minute % 10))
    ELSE 11 * (11 * (11 * (11 * (c.hour \div 10) + (c.hour % 10)) + 10) + c.minute \div 10) + (c.minute % 10)
TextWithin(c, least, most) == Within(TextRank(c), TextRank(least), TextRank(most))

-----------------------------------------------------------------------------
(* The sections, each with its own Validate.                                *)

WriteModes == {"off", "loopback", "all"}

\* Addresses by their kind: "https", "loopback" over plain HTTP, the one public "kline"
\* path that is read over plain HTTP, and "refused" for every other.
ValidEndpoint(a) == a \in {"https", "loopback"}
ValidKlineEndpoint(a) == ValidEndpoint(a) \/ a = "kline"

ValidAnalysis(a) ==
    /\ a.engine \in {"auto", "leader_daily_v1", "short_horizon_v1"}
    /\ Within(a.timeout, Second, 24 * Hour) /\ Within(a.sync_timeout, Second, 24 * Hour)

ValidIntraday(i) ==
    i.enabled =>
        /\ Within(i.poll_interval, 30 * Second, 5 * Minute)
        /\ Within(i.request_interval, 350, 10 * Second)
        /\ Within(i.workers, 1, 8)
        /\ CanonicalClock(i.calibration_at)
        /\ TextWithin(i.calibration_at, Clock(15, 5), Clock(23, 0))
        /\ ValidEndpoint(i.endpoint)

ValidDayRange(d) ==
    d.enabled =>
        /\ \A c \in {d.train_at, d.predict_at, d.reconcile_at} : ReadableClock(c)
        /\ TextWithin(d.train_at, Clock(15, 10), Clock(23, 0))
        /\ TextRank(d.predict_at) < TextRank(Clock(9, 30))
        /\ TextWithin(d.reconcile_at, Clock(15, 10), Clock(23, 59))
        /\ Within(d.history_days, 180, 7300)
        /\ Within(d.min_training_days, 60, d.history_days)
        /\ Within(d.calibration_days, 10, 250) /\ Within(d.validation_days, 10, 120)
        /\ Within(d.keep_models, 1, 100)
        /\ d.stock \/ d.market \/ d.sector

ValidPredictor(p) ==
    /\ p.push => p.enabled
    /\ p.enabled =>
        /\ CanonicalClock(p.train_at) /\ TextWithin(p.train_at, Clock(15, 10), Clock(23, 0))
        /\ p.write_mode \in WriteModes
        /\ Within(p.min_training_days, 1, 250)
        /\ Within(p.validation_days, 1, 60) /\ p.validation_days < p.min_training_days + 1
        /\ Within(p.keep_models, 1, 100)

ValidFirstStage(f) == (f.push => f.enabled) /\ (f.enabled => Within(f.budget, 1, 500))

\* The weight of the first stage with those of the first n models.
Blend(s) ==
    LET sum[n \in 0 .. Len(s.models)] ==
            IF n = 0 THEN s.weight ELSE sum[n - 1] + s.models[n].weight
    IN sum[Len(s.models)]

ValidSecondStage(s) ==
    /\ s.push => s.enabled
    /\ s.enabled =>
        /\ Within(s.top_n, 1, 100) /\ s.named /\ s.finite
        /\ Within(s.weight, 0, 1000) /\ Within(s.group_size, 1, 100)
        /\ s.calibration \in {"none", "local"}
        /\ Within(s.calibration_param, 0, 1000) /\ Within(s.risk_eta, 0, 1000)
        /\ ReadableClock(s.publish_by) /\ s.publish_by.hour >= 15
        /\ s.models # <<>>
        /\ \A m \in 1 .. Len(s.models) :
              /\ s.models[m].named /\ Within(s.models[m].weight, 1, 1000)
              /\ \A n \in 1 .. Len(s.models) : s.models[m].name = s.models[n].name => m = n
        /\ Blend(s) = 1000

Provider == {"tencent", "sina", "baostock", "tushare", "eastmoney"}

\* Tushare asks for nothing without its token.
ActiveProviders(m) == {p \in 1 .. Len(m.providers) : m.providers[p] # "tushare" \/ m.token}

ValidMarket(m) ==
    /\ ValidEndpoint(m.listing) /\ ValidEndpoint(m.sina_daily)
    /\ Within(Len(m.providers), 1, 5)
    /\ Within(m.request_interval, 350, Minute) /\ Within(m.attempt_timeout, 10 * Second, 5 * Minute)
    /\ Within(m.failure_cooldown, Minute, Hour) /\ Within(m.failure_threshold, 1, 20)
    /\ \A p \in 1 .. Len(m.providers) :
          /\ m.providers[p] \in Provider
          /\ \A q \in 1 .. Len(m.providers) : m.providers[p] = m.providers[q] => p = q
          /\ IF m.providers[p] = "baostock" THEN m.baostock ELSE ValidEndpoint(m.endpoint[m.providers[p]])
          /\ m.providers[p] = "tushare" => m.token_env
    /\ ActiveProviders(m) # {}

ValidContext(m) ==
    m.enabled =>
        /\ ValidEndpoint(m.list) /\ ValidKlineEndpoint(m.kline) /\ ValidEndpoint(m.tencent)
        /\ Within(m.request_interval, 350, Minute)
        /\ Within(m.workers, 1, 8) /\ Within(m.history_limit, 640, 10000)

ValidStrategy(s) ==
    /\ s.version \in {0, 1} /\ (s.enabled => s.version = 1)
    /\ s.finite
    /\ s.target_net \in {2500, 3000} /\ -20000 <= s.stop_net /\ s.stop_net < 0
    /\ Within(s.max_holding_days, 1, 10)
    /\ Within(s.trade_cash, 1000, 100000000) /\ Within(s.min_commission, 0, 100000)
    /\ Within(s.max_entry_gap, 0, 20000) /\ Within(s.min_rank_score, 0, 100000)
    /\ \A rate \in {s.commission, s.transfer, s.stamp, s.slippage} : Within(rate, 0, 1000)
    /\ Within(s.min_evidence, 10, 100000)
    /\ Within(s.min_training_days, 20, 250) /\ Within(s.holdout_days, 10, 120)

ValidSelection(s) ==
    /\ Within(s.min_score, 1, 100) /\ Within(s.top_n, 1, 20)
    /\ s.finite
    /\ Within(s.volume_ratio, 1000, 10000)
    /\ 0 <= s.rsi_min /\ s.rsi_min <= s.rsi_max /\ s.rsi_max <= 100000
    /\ s.day_change_min <= s.day_change_max

ValidSync(s) ==
    /\ s.finite /\ Within(s.coverage, 0, 100000) /\ Within(s.analyzable, 0, 100000)
    /\ Within(s.incremental_bars, 2, 30) /\ Within(s.status_refresh_days, 5, 250)

\* LLM.Validate.
AcceptableSettings(settings) == \A f \in SettingsField : settings[f] \in Acceptable[f]
ValidLLM(l) ==
    l.enabled => l.file # "" /\ AcceptableSettings(l.settings) /\ l.write_mode \in WriteModes

-----------------------------------------------------------------------------
(* Where a message goes.  A route is the set of its parts: the empty one    *)
(* takes every message.                                                     *)

NotifyRoutes == {"all", "selection", "first_stage", "second_stage", "premarket_execution",
                 "predictor_realtime", "predictor_dayrange", "wechat_premarket"}
DraftChannel == [name |-> "wechat-draft", type |-> "wechat", enabled |-> TRUE,
                 route |-> {"second_stage", "wechat_premarket"}, hook |-> FALSE, env |-> TRUE]
FeishuMain(hook) == [name |-> "feishu-main", type |-> "feishu", enabled |-> TRUE, route |-> {},
                     hook |-> hook, env |-> TRUE]

RouteMatches(configured, route) == "all" \in configured \/ route \in configured

NotificationChannels(c) ==
    (IF c.channels # <<>>
     THEN {c.channels[i] : i \in {j \in 1 .. Len(c.channels) : c.channels[j].enabled}}
     ELSE IF c.feishu.enabled THEN {FeishuMain(c.feishu.hook)} ELSE {})
    \cup (IF c.wechat.enabled THEN {DraftChannel} ELSE {})

ChannelNamesForRoute(c, route) ==
    {ch.name : ch \in {n \in NotificationChannels(c) :
        \/ c.channels = <<>> /\ ~c.wechat.enabled
        \/ n.route = {}
        \/ RouteMatches(n.route, route)}}

ValidChannels(c) ==
    /\ ~(c.channels # <<>> /\ c.feishu.enabled)
    /\ \A i \in 1 .. Len(c.channels) :
          /\ c.channels[i].name # "" /\ c.channels[i].type # "" /\ c.channels[i].env
          /\ c.channels[i].route \subseteq NotifyRoutes
          /\ \A j \in 1 .. Len(c.channels) : c.channels[i].name = c.channels[j].name => i = j
    /\ c.wechat.enabled =>
          /\ c.wechat.id # "" /\ c.wechat.secret # "" /\ c.wechat.author <= 16
          /\ (c.second.enabled /\ c.second.push) \/ (c.dayrange.enabled /\ c.dayrange.push)
          /\ \A i \in 1 .. Len(c.channels) : c.channels[i].name # DraftChannel.name
    /\ \A n \in NotificationChannels(c) :
          \/ n.type = "feishu" /\ n.hook
          \/ /\ n.type = "wechat" /\ c.wechat.enabled /\ n.name = DraftChannel.name
             /\ RouteMatches(n.route, "second_stage") /\ RouteMatches(n.route, "wechat_premarket")

-----------------------------------------------------------------------------
(* The configuration as a whole.                                            *)

ValidSections(c) ==
    /\ ValidAnalysis(c.analysis) /\ ValidIntraday(c.intraday) /\ ValidDayRange(c.dayrange)
    /\ ValidPredictor(c.predictor) /\ ValidFirstStage(c.first) /\ ValidSecondStage(c.second)
    /\ ValidMarket(c.market) /\ ValidContext(c.context) /\ ValidLLM(c.llm)
    /\ ValidStrategy(c.strategy) /\ ValidSelection(c.selection) /\ ValidSync(c.sync)

\* What one section asks of another.
SectionsAgree(c) ==
    /\ c.analysis.engine = "short_horizon_v1" => c.strategy.enabled
    /\ c.analysis.engine = "leader_daily_v1" => ~c.strategy.enabled
    /\ c.guard \in {"", "shadow", "enforce"}
    /\ c.strategy.enabled \/ c.first.enabled => c.adjust = "qfq"
    /\ c.second.enabled => c.first.enabled

ValidStocks(c) ==
    /\ Within(Len(c.stocks), 1, 500)
    /\ \A i \in 1 .. Len(c.stocks) :
          /\ c.stocks[i].valid
          /\ \A j \in 1 .. Len(c.stocks) : c.stocks[i].code = c.stocks[j].code => i = j

ValidWeb(w) == w.enabled => w.listen /\ Within(w.port, 1, 65535)

ValidCalendar(l) ==
    /\ 1 <= l.from /\ l.from <= l.through
    /\ \A i \in 1 .. Len(l.holidays) :
          /\ Within(l.holidays[i], l.from, l.through)
          /\ \A j \in 1 .. Len(l.holidays) : l.holidays[i] = l.holidays[j] => i = j

\* The fields that belong to no section.
ValidTop(c) ==
    /\ c.version = 1 /\ c.data_dir # ""
    /\ Within(c.poll_interval, Second, Hour) /\ Within(c.request_timeout, Second, Minute)
    /\ ReadableClock(c.run_at) /\ c.run_at.hour >= 15
    /\ Within(c.history_days, 90, 7300) /\ c.adjust \in {"none", "qfq", "hfq"}

ValidConfig(c) ==
    /\ ValidTop(c) /\ ValidSections(c) /\ SectionsAgree(c)
    /\ ValidWeb(c.web) /\ ValidStocks(c) /\ ValidChannels(c) /\ ValidCalendar(c.calendar)

-----------------------------------------------------------------------------
(* Where the values come from.  An environment gives some fields of some    *)
(* sections, "top" for those of none, each a value or nothing readable.     *)
(* The other texts of a deployment are in its files, "missing" or "refused" *)
(* unless they are "whole", and in the variables the configuration names.   *)

Section == {"analysis", "intraday", "dayrange", "predictor", "first", "second", "market", "context",
            "llm", "strategy", "selection", "sync", "feishu", "wechat", "web", "calendar"}

ReadableEnvironment(env) == \A v \in DOMAIN env : env[v].readable

Given(env, section, field, otherwise) ==
    IF <<section, field>> \in DOMAIN env THEN env[<<section, field>>].value ELSE otherwise

\* Every variable that is there counts, an empty text too.
ApplyEnvironment(c, env) ==
    [s \in DOMAIN c |->
        IF s \in Section THEN [f \in DOMAIN c[s] |-> Given(env, s, f, c[s][f])]
        ELSE Given(env, "top", s, c[s])]

\* The language model's settings: the environment, else the file, else the default.
LayeredSettings(env, file) ==
    [f \in SettingsField |->
        IF f \in DOMAIN env THEN env[f]
        ELSE IF f \in DOMAIN file THEN file[f] ELSE DefaultSettings[f]]

\* loadFeishuCredentials: a file that is not named, or of what is off, is not read.
NeedsFile(part) == part.enabled /\ part.file # ""
HookOf(part, file, variable) ==
    IF variable.given THEN variable.hook ELSE IF NeedsFile(part) THEN file.hook ELSE part.hook

\* WECHAT_*: an empty variable gives nothing.
WechatText(text, part, file, variable) ==
    IF variable # "" THEN variable ELSE IF NeedsFile(part) THEN file ELSE text

\* What a text has to say of itself before anything of it counts.
Readable(c, w) ==
    /\ ReadableEnvironment(w.env)
    /\ w.llm.state \in {"missing", "whole"}
    /\ c.pool_file # "" => c.stocks = <<>> /\ w.pool.state = "whole"
    /\ NeedsFile(c.feishu) => w.feishu.state = "whole"
    /\ NeedsFile(c.wechat) => w.wechat.state = "whole"
    /\ \A i \in 1 .. Len(c.channels) :
          NeedsFile(c.channels[i]) => w.channel[c.channels[i].name].state = "whole"

Assembled(c, w) ==
    [c EXCEPT
        !.llm.settings = LayeredSettings(w.llm.env, w.llm.set),
        !.stocks = IF c.pool_file # "" THEN w.pool.stocks ELSE @,
        !.feishu.hook = HookOf(c.feishu, w.feishu, w.feishu_env),
        !.wechat.id = WechatText(@, c.wechat, w.wechat.id, w.wechat_env.id),
        !.wechat.secret = WechatText(@, c.wechat, w.wechat.secret, w.wechat_env.secret),
        !.channels = [i \in 1 .. Len(@) |->
            [@[i] EXCEPT !.hook = HookOf(@[i], w.channel[@[i].name], w.channel_env[@[i].name])]]]

\* finalize: what was prepared before keeps every value but the token.
Prepared(c, w) ==
    [(IF c.prepared THEN c ELSE Assembled(ApplyEnvironment(c, w.env), w))
        EXCEPT !.market.token = w.token, !.prepared = TRUE]
Accepted(c, w) ==
    /\ ~c.prepared => Readable(ApplyEnvironment(c, w.env), w)
    /\ ValidConfig(Prepared(c, w))

\* The configuration of the program, which reads no other file of its own.
Builtin ==
    [analysis |-> [engine |-> "auto", timeout |-> 10 * Minute, sync_timeout |-> 90 * Minute],
     intraday |-> [enabled |-> TRUE, poll_interval |-> Minute, request_interval |-> 350, workers |-> 3,
                   calibration_at |-> Clock(15, 10), endpoint |-> "https"],
     dayrange |-> [enabled |-> FALSE, push |-> TRUE, train_at |-> Clock(15, 40),
                   predict_at |-> Clock(8, 45), reconcile_at |-> Clock(18, 35), history_days |-> 365,
                   min_training_days |-> 120, calibration_days |-> 60, validation_days |-> 20,
                   keep_models |-> 10, stock |-> TRUE, market |-> TRUE, sector |-> TRUE],
     predictor |-> [enabled |-> TRUE, push |-> TRUE, train_at |-> Clock(15, 30),
                    write_mode |-> "loopback", min_training_days |-> 5, validation_days |-> 3,
                    keep_models |-> 10],
     first |-> [enabled |-> TRUE, push |-> TRUE, budget |-> 95],
     second |-> [enabled |-> TRUE, push |-> TRUE, top_n |-> 10, named |-> TRUE, finite |-> TRUE,
                 weight |-> 200, group_size |-> 5, calibration |-> "local", calibration_param |-> 350,
                 risk_eta |-> 1000, publish_by |-> Clock(15, 28),
                 models |-> [m \in 1 .. 4 |-> [name |-> m, named |-> TRUE, weight |-> 200]]],
     market |-> [providers |-> <<"tencent", "sina", "baostock", "tushare", "eastmoney">>,
                 listing |-> "https", sina_daily |-> "https", baostock |-> TRUE, token_env |-> TRUE,
                 endpoint |-> [p \in Provider |-> "https"], token |-> FALSE,
                 request_interval |-> Second, attempt_timeout |-> 60 * Second,
                 failure_threshold |-> 3, failure_cooldown |-> 5 * Minute],
     context |-> [enabled |-> TRUE, list |-> "https", kline |-> "kline", tencent |-> "https",
                  request_interval |-> 350, workers |-> 3, history_limit |-> 10000],
     llm |-> [enabled |-> TRUE, file |-> "llm.config", settings |-> DefaultSettings,
              write_mode |-> "loopback"],
     strategy |-> [version |-> 1, enabled |-> TRUE, finite |-> TRUE, target_net |-> 3000,
                   stop_net |-> -3000, max_holding_days |-> 5, trade_cash |-> 20000,
                   min_commission |-> 5000, max_entry_gap |-> 3000, min_rank_score |-> 60000,
                   commission |-> 10, transfer |-> 1, stamp |-> 50, slippage |-> 50,
                   min_evidence |-> 60, min_training_days |-> 40, holdout_days |-> 40],
     selection |-> [enabled |-> TRUE, finite |-> TRUE, min_score |-> 70, top_n |-> 5,
                    volume_ratio |-> 1200, rsi_min |-> 50000, rsi_max |-> 80000,
                    day_change_min |-> -3000, day_change_max |-> 7000],
     sync |-> [finite |-> TRUE, coverage |-> 95000, analyzable |-> 90000, incremental_bars |-> 5,
               status_refresh_days |-> 30],
     feishu |-> [enabled |-> TRUE, file |-> "", hook |-> FALSE],
     wechat |-> [enabled |-> FALSE, file |-> "", id |-> "", secret |-> "", author |-> 0],
     web |-> [enabled |-> TRUE, listen |-> TRUE, port |-> 8080],
     calendar |-> [from |-> 1, through |-> 365, holidays |-> <<1, 2, 47, 48, 49, 50, 51, 54, 96, 121, 124,
                   125, 170, 268, 274, 275, 278, 279, 280>>],
     version |-> 1, data_dir |-> "data", guard |-> "shadow", poll_interval |-> 5 * Minute,
     request_timeout |-> 10 * Second, run_at |-> Clock(15, 0), history_days |-> 365, adjust |-> "qfq",
     pool_file |-> "leaders.yaml", stocks |-> <<>>, channels |-> <<>>, prepared |-> FALSE]

-----------------------------------------------------------------------------
(* The settings of the language model while the program runs and between    *)
(* its runs.                                                                *)

VARIABLES
    deployment,             \* [on, env, mode]: what the environment says of the language model
    llmFile,                \* llm.config: [state, set]
    durableFile,            \* what a power failure would leave of it
    llmRuntime,             \* LLMRuntime.cfg: the settings in use
    serving,                \* a program runs
    unsure                  \* settings of saves that were answered as failures after the file was replaced

settingsVars == <<deployment, llmFile, durableFile, llmRuntime, serving, unsure>>

NoSettings == [f \in {} |-> ""]
MissingFile == [state |-> "missing", set |-> NoSettings]
GarbledFile == [state |-> "garbled", set |-> NoSettings]
WholeFile(set) == [state |-> "whole", set |-> set]
SettingsFiles == {MissingFile, GarbledFile} \cup {WholeFile(set) : set \in Saying}
Deployments == [on : BOOLEAN, env : Saying, mode : WriteModes]

Locked == DOMAIN deployment.env
Serviceable(d, settings) == d.on => AcceptableSettings(settings)

\* A request as the handler sees it: where it comes from and what it says of itself.
Request == [loopback : BOOLEAN, action : BOOLEAN, json : BOOLEAN, sameSite : BOOLEAN, sameOrigin : BOOLEAN]
SourceAllowed(r) == deployment.mode = "all" \/ (deployment.mode = "loopback" /\ r.loopback)
RequestAllowed(r) == SourceAllowed(r) /\ r.action /\ r.json /\ r.sameSite /\ r.sameOrigin

\* LLMRuntime.Apply: what the update asks for, without the locked fields.
Updated(update) ==
    [f \in SettingsField |-> IF f \in DOMAIN update \ Locked THEN update[f] ELSE llmRuntime[f]]

\* writeLLMFile: every field that is not locked, whether or not it was ever changed.
Written(settings) == WholeFile([f \in SettingsField \ Locked |-> settings[f]])

SettingsInit ==
    /\ deployment \in Deployments
    /\ llmFile \in SettingsFiles /\ durableFile = llmFile
    /\ llmRuntime = DefaultSettings
    /\ serving = FALSE
    /\ unsure = {}

\* Load and NewLLMRuntime: a file that cannot be read is an error even while the language
\* model is off; settings are validated only while it is on.
StartServing ==
    /\ ~serving
    /\ llmFile.state # "garbled"
    /\ Serviceable(deployment, LayeredSettings(deployment.env, llmFile.set))
    /\ serving' = TRUE
    /\ llmRuntime' = LayeredSettings(deployment.env, llmFile.set)
    /\ unsure' = {}
    /\ UNCHANGED <<deployment, llmFile, durableFile>>

\* A save reaches the file and the runtime. Where a directory cannot be synced the file
\* may still be the old one after a power failure.
Save(update) ==
    /\ serving /\ \E r \in Request : RequestAllowed(r)
    /\ Serviceable(deployment, Updated(update))
    /\ llmFile' = Written(Updated(update))
    /\ durableFile' \in {llmFile'} \cup (IF SyncsDirectories THEN {} ELSE {durableFile})
    /\ llmRuntime' = Updated(update)
    /\ unsure' = {}
    /\ UNCHANGED <<deployment, serving>>

\* The file is replaced, but its directory cannot be opened or synced: the answer is an
\* error, and the runtime stays.
SaveUnsynced(update) ==
    /\ serving /\ \E r \in Request : RequestAllowed(r)
    /\ Serviceable(deployment, Updated(update))
    /\ Cardinality(unsure) < MaxUnsure
    /\ llmFile' = Written(Updated(update))
    /\ durableFile' \in {llmFile', durableFile}
    /\ unsure' = unsure \cup {Updated(update)}
    /\ UNCHANGED <<deployment, llmRuntime, serving>>

\* The program ends; after a power failure the file is what the disk kept.
StopServing ==
    /\ serving
    /\ serving' = FALSE
    /\ llmFile' \in {llmFile, durableFile}
    /\ durableFile' = llmFile'
    /\ llmRuntime' = DefaultSettings /\ unsure' = {}
    /\ UNCHANGED deployment

\* Between two runs the file and the environment are the operator's.
EditFile ==
    /\ ~serving
    /\ llmFile' \in SettingsFiles /\ durableFile' = llmFile'
    /\ UNCHANGED <<deployment, llmRuntime, serving, unsure>>
Deploy ==
    /\ ~serving
    /\ deployment' \in Deployments
    /\ UNCHANGED <<llmFile, durableFile, llmRuntime, serving, unsure>>

SettingsNext ==
    \/ StartServing \/ StopServing \/ EditFile \/ Deploy
    \/ \E update \in Saying : Save(update) \/ SaveUnsynced(update)

SettingsSpec == SettingsInit /\ [][SettingsNext]_settingsVars

-----------------------------------------------------------------------------
(* Properties.                                                              *)

\* What the environment says of the language model is what the program uses, whatever the
\* page or the file says (LLM.Locked).
EnvironmentRules == serving => \A f \in Locked : llmRuntime[f] = deployment.env[f]

\* A program that started can start again: the file it has, or that a power failure would
\* leave, is readable and has acceptable settings (LLMRuntime.Apply validates before it
\* writes, and writes to another file first).
CanRestart ==
    serving =>
        \A file \in {llmFile, durableFile} :
            /\ file.state # "garbled"
            /\ Serviceable(deployment, LayeredSettings(deployment.env, file.set))

\* The next start has the settings in use, or those of a save that was answered as a
\* failure; after a power failure too where directories can be synced.
NextStartAgrees ==
    serving =>
        \A file \in {llmFile} \cup (IF SyncsDirectories THEN {durableFile} ELSE {}) :
            LayeredSettings(deployment.env, file.set) \in {llmRuntime} \cup unsure
=============================================================================
