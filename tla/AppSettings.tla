----------------------------- MODULE AppSettings -----------------------------
(***************************************************************************)
(* The model settings: the global provider, model and key, the credentials *)
(* of each provider, and the pair an AI strategy is pinned to.             *)
(*                                                                         *)
(* The Setting table holds one row per key, and every row is committed by  *)
(* itself, so a request that saves several rows is seen half saved, or     *)
(* left so by a crash.  A tick reads the rows it needs one by one.  Rows    *)
(* are written beside it by one settings request at a time.                *)
(*                                                                         *)
(* The value of a model row is the provider the model belongs to, and that *)
(* of a key or base URL row the provider it is for; Blank is the empty      *)
(* string.                                                                 *)
(***************************************************************************)
EXTENDS Integers, Sequences

CONSTANTS
  Providers,       \* LLM_PROVIDERS
  DefaultProvider, \* the global provider when none is stored
  Blank,           \* the empty string, and a row that is not stored
  MaxSaves         \* bound: settings requests

ASSUME ProvidersAssumption ==
  DefaultProvider \in Providers /\ Blank \notin Providers /\ MaxSaves \in Nat

VARIABLES
  rows,      \* rows[k]: the value of Setting row k, Blank when it is missing
  puts,      \* the rows a request has still to save, in order
  saves,     \* requests so far
  resolvePc, \* what the tick reads next, "idle" or "built"
  cfg,       \* what it has read of the configuration
  steady     \* no pin row was saved since the tick began to read: history

settingsVars == <<rows, puts, saves, resolvePc, cfg, steady>>

Globals == {"ai_provider", "ai_model", "ai_base_url", "ai_api_key"}
Pins == {"pin_provider", "pin_model"}
KeyRow(p) == <<"llm", p>>
UrlRow(p) == <<"url", p>>
RowNames ==
  {<<k>> : k \in Globals \cup Pins} \cup {KeyRow(p) : p \in Providers}
    \cup {UrlRow(p) : p \in Providers}

NoCfg == [provider |-> DefaultProvider, model |-> Blank, key |-> Blank, url |-> Blank]

SettingsInit ==
  /\ rows = [k \in RowNames |-> Blank]
  /\ puts = <<>> /\ saves = 0
  /\ resolvePc = "idle" /\ cfg = NoCfg /\ steady = TRUE

----------------------------------------------------------------------------
\* Requests.

Put(k, v) == [row |-> k, value |-> v]

Save(request) ==
  /\ puts = <<>> /\ saves < MaxSaves
  /\ puts' = request /\ saves' = saves + 1
  /\ UNCHANGED <<rows, resolvePc, cfg, steady>>

PutUnlessBlank(k, v) == IF v = Blank THEN <<>> ELSE <<Put(k, v)>>

\* set_ai_settings: a model and a base URL of the provider or none; the key is kept
\* when it is left blank.
UpdateAiSettings(p, m, url, key) ==
  Save(<<Put(<<"ai_provider">>, p), Put(<<"ai_model">>, m), Put(<<"ai_base_url">>, url)>>
       \o PutUnlessBlank(<<"ai_api_key">>, key))

\* set_strategy_ai_config.
UpdateAiModel(p, m) == Save(<<Put(<<"pin_provider">>, p), Put(<<"pin_model">>, m)>>)

\* set_llm_credentials: each of the two is kept when it is left blank.
UpdateLlmCredentials(p, key, url) ==
  Save(PutUnlessBlank(KeyRow(p), key) \o PutUnlessBlank(UrlRow(p), url))

\* _put: the row is looked up, inserted or updated, and committed.
CommitRow ==
  /\ puts # <<>>
  /\ rows' = [rows EXCEPT ![Head(puts).row] = Head(puts).value]
  /\ puts' = Tail(puts)
  /\ steady' = (steady /\ Head(puts).row \notin {<<k>> : k \in Pins})
  /\ UNCHANGED <<saves, resolvePc, cfg>>

\* The request dies with its process or its connection.
SaveCutShort ==
  /\ puts # <<>>
  /\ puts' = <<>>
  /\ UNCHANGED <<rows, saves, resolvePc, cfg, steady>>

----------------------------------------------------------------------------
\* strategy_ai_settings, once per tick of an AI strategy.

Or(value, other) == IF value # Blank THEN value ELSE other

Read(pc, field, value, next) ==
  /\ resolvePc = pc
  /\ cfg' = [cfg EXCEPT ![field] = value]
  /\ resolvePc' = next
  /\ UNCHANGED <<rows, puts, saves>>

\* get_ai_settings: the global pair; the global base URL, read as well, goes nowhere.
ReadGlobalProvider ==
  Read("idle", "provider", Or(rows[<<"ai_provider">>], DefaultProvider), "model")
  /\ steady' = TRUE

ReadGlobalModel ==
  Read("model", "model", rows[<<"ai_model">>], "pin_provider") /\ UNCHANGED steady

\* get_strategy_ai_config: over it, the row of the pin that is not blank.
ReadPinProvider ==
  Read("pin_provider", "provider", Or(rows[<<"pin_provider">>], cfg.provider), "pin_model")
  /\ UNCHANGED steady

ReadPinModel ==
  Read("pin_model", "model", Or(rows[<<"pin_model">>], cfg.model), "key")
  /\ UNCHANGED steady

ReadGlobalKey ==
  Read("key", "key", rows[<<"ai_api_key">>], "url") /\ UNCHANGED steady

\* get_llm_credentials of the provider the tick has resolved.
ReadKey ==
  Read("key", "key", rows[KeyRow(cfg.provider)], "url") /\ UNCHANGED steady

ReadBaseUrl ==
  Read("url", "url", rows[UrlRow(cfg.provider)], "built") /\ UNCHANGED steady

\* The provider is built, and asked or not by the tick.
UseProvider ==
  /\ resolvePc = "built"
  /\ resolvePc' = "idle" /\ cfg' = NoCfg /\ steady' = TRUE
  /\ UNCHANGED <<rows, puts, saves>>

SettingsNext ==
  \/ \E p \in Providers : \E m, url, key \in {p, Blank} :
       \/ UpdateAiModel(p, m)
       \/ UpdateAiSettings(p, m, url, key)
       \/ UpdateLlmCredentials(p, key, url)
  \/ CommitRow \/ SaveCutShort
  \/ ReadGlobalProvider \/ ReadGlobalModel \/ ReadPinProvider \/ ReadPinModel
  \/ ReadKey \/ ReadBaseUrl \/ UseProvider

SettingsSpec == SettingsInit /\ [][SettingsNext]_settingsVars

----------------------------------------------------------------------------
Values == Providers \cup {Blank}

\* Every variable stays in its domain; the credentials rows of a provider
\* hold that provider's key and base URL.
SettingsTypeOK ==
  /\ rows \in [RowNames -> Values]
  /\ \A p \in Providers : {rows[KeyRow(p)], rows[UrlRow(p)]} \subseteq {p, Blank}
  /\ \A i \in DOMAIN puts : puts[i].row \in RowNames /\ puts[i].value \in Values
  /\ saves \in 0..MaxSaves /\ steady \in BOOLEAN
  /\ resolvePc \in {"idle", "model", "pin_provider", "pin_model", "key", "url", "built"}
  /\ cfg \in [provider : Providers, model : Values, key : Values, url : Values]

\* "Pin an AI strategy to a provider + model" (api/strategies.py), "each LLM
\* provider stores its own credentials" (store.py): whatever is saved while a tick
\* reads, and whatever a crash left half saved, the tick calls a provider with that
\* provider's key or none, at that provider's address or the default one; and with the pinned pair, once both its rows are there
\* and none of them is being saved.
RunsAsPinned ==
  resolvePc = "built" =>
    /\ {cfg.key, cfg.url} \subseteq {cfg.provider, Blank}
    /\ steady /\ (\A k \in Pins : rows[<<k>>] # Blank) =>
         cfg.provider = rows[<<"pin_provider">>] /\ cfg.model = rows[<<"pin_model">>]
=============================================================================
