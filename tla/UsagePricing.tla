---------------------------- MODULE UsagePricing -----------------------------
(***************************************************************************)
(* What a collected item of usage becomes: an event under an identity that *)
(* the normalizers derive (usage/normalizer.py), and a cost record at the  *)
(* price in force on its day (pricing/engine.py).  Prices are created by   *)
(* requests that look for overlapping versions first (api/v1/pricing.py).  *)
(*                                                                         *)
(* One organization, one provider, one model; several connections may read *)
(* the provider.  A provider reports, per bucket of time, figures that     *)
(* grow; a bucket is a day here.  Windows, pages and checkpoints are in    *)
(* UsageCollection; a run is one transaction.  Completion tokens behave as *)
(* the prompt's and are left out; an amount is left as the figures and the *)
(* price it is computed from.                                              *)
(***************************************************************************)
EXTENDS Naturals, FiniteSets

CONSTANTS
    Reporters,    \* providers, and what names their items (an id, only a time, or neither)
    Feeds,        \* provider connections of the organization
    Buckets,      \* days, naturals
    Collectors,   \* runs in progress at one time
    MaxTokens,    \* bound: fresh and cached tokens of a bucket
    MaxRuns,      \* bound: runs
    Editors,      \* requests to create a price, one at most each
    Drafts        \* the prices they ask for: [version, from, to, active]

Forever == 99     \* effective_to IS NULL
Reporting == {"openai", "anthropic", "openrouter"}
Forms == {"id", "time", "neither"}
ASSUME PricingAssumption ==
    /\ Reporters \subseteq Reporting \X Forms
    /\ Buckets \subseteq 1..(Forever - 1) /\ MaxTokens \in Nat /\ MaxRuns \in Nat
    /\ \A d \in Drafts : /\ d.from \in 1..Forever /\ d.to \in 0..Forever /\ d.active \in BOOLEAN
                         /\ d.version # "none"

VARIABLES
    reporter,   \* the provider, and what names its items
    used,       \* used[f][b]: the figures the provider has for a bucket
    usageEvents, \* usage events: identity -> figures
    costs,      \* cost records: identity -> figures and version of the price
    newest,     \* history: what the last run to fetch and commit said
    overtaken,  \* history: identities last written by a run that fetched earlier
    collector,  \* collector[c]: a run and its transaction
    runs_begun, \* how many runs were started
    prices,     \* model_pricing rows, each with what its request had seen
    editor      \* editor[e]: a request to create a price

pricingVars == <<reporter, used, usageEvents, costs, newest, overtaken, collector, runs_begun, prices, editor>>
collectVars == <<usageEvents, costs, newest, overtaken, collector, runs_begun>>
priceVars == <<prices, editor>>

NoUsage == [fresh |-> 0, cached |-> 0]
TokenCounts == [fresh : 0..MaxTokens, cached : 0..MaxTokens]
AllKeys == (Feeds \cup {"hash"}) \X (Buckets \cup {0}) \X (0..MaxRuns)

NoRun == [at |-> "idle", run |-> 0, feed |-> "none", page |-> <<>>, wrote |-> {}, since |-> {}]
NoEdit == [at |-> "idle", draft |-> [version |-> "none", from |-> 0, to |-> 0, active |-> FALSE], saw |-> {}]

PricingInit ==
    /\ reporter \in Reporters
    /\ used = [f \in Feeds |-> [b \in Buckets |-> NoUsage]]
    /\ usageEvents = <<>> /\ costs = <<>> /\ newest = <<>> /\ overtaken = {}
    /\ collector = [c \in Collectors |-> NoRun] /\ runs_begun = 0
    /\ prices = {} /\ editor = [e \in Editors |-> NoEdit]

-----------------------------------------------------------------------------
(* The provider                                                            *)

UsageGrows(f, b) ==
    /\ used' \in {[used EXCEPT ![f][b] = u] : u \in
                    {u \in TokenCounts : /\ u.fresh + u.cached = used[f][b].fresh + used[f][b].cached + 1
                                        /\ u.fresh >= used[f][b].fresh /\ u.cached >= used[f][b].cached}}
    /\ UNCHANGED <<reporter, priceVars, collectVars>>

(* What an item becomes: its identity and its figures.  _dedup_hash is of  *)
(* model and time, not of the connection.                                  *)
Named(f, b) == <<f, b, 0>>
Hashed(b, n) == <<"hash", b, n>>

(* OpenAI counts cached tokens among the prompt's; a missing time is zero. *)
OpenAIItem(f, b, run, u) ==
    [key |-> IF reporter[2] = "id" THEN Named(f, b) ELSE Hashed(IF reporter[2] = "time" THEN b ELSE 0, 0),
     prompt |-> u.fresh + u.cached, cached |-> u.cached]

(* Anthropic counts them beside the prompt's; an item without a time gets  *)
(* the time at which it is normalized.                                     *)
AnthropicItem(f, b, run, u) ==
    [key |-> IF reporter[2] = "id" THEN Named(f, b) ELSE Hashed(b, IF reporter[2] = "time" THEN 0 ELSE run),
     prompt |-> u.fresh, cached |-> u.cached]

(* OpenRouter reports no cached tokens.                                    *)
OpenRouterItem(f, b, run, u) ==
    [key |-> IF reporter[2] = "id" THEN Named(f, b) ELSE Hashed(b, IF reporter[2] = "time" THEN 0 ELSE run),
     prompt |-> u.fresh + u.cached, cached |-> 0]

Normalized(f, b, run, u) ==
    CASE reporter[1] = "openai"     -> OpenAIItem(f, b, run, u)
      [] reporter[1] = "anthropic"  -> AnthropicItem(f, b, run, u)
      [] reporter[1] = "openrouter" -> OpenRouterItem(f, b, run, u)

-----------------------------------------------------------------------------
(* A run                                                                   *)

Fetch(c, f) ==
    /\ collector[c] = NoRun /\ runs_begun < MaxRuns
    /\ runs_begun' = runs_begun + 1
    /\ collector' = [collector EXCEPT ![c] = [NoRun EXCEPT !.at = "fetched", !.feed = f, !.run = runs_begun + 1,
                                                          !.page = used[f]]]
    /\ UNCHANGED <<reporter, used, usageEvents, costs, newest, overtaken, priceVars>>

(* UsageEventValidator: an event that fails is skipped.                    *)
Countable(e) == e.prompt >= 0 /\ e.cached >= 0 /\ e.cached <= e.prompt

(* get_for_date: of the active prices that cover the day, one that starts  *)
(* last.                                                                   *)
Covers(p, day) == p.active /\ p.from <= day /\ (p.to = Forever \/ day <= p.to)
PricesFor(day) ==
    LET covering == {p \in prices : Covers(p, day)}
    IN {p \in covering : \A q \in covering : q.from <= p.from}

Touched(c) == {w.key : w \in collector[c].wrote}
Over(f, g) == [x \in DOMAIN f \cup DOMAIN g |-> IF x \in DOMAIN f THEN f[x] ELSE g[x]]

(* A bucket without usage is no item.                                      *)
Items(c) == {[item |-> Normalized(collector[c].feed, b, collector[c].run, collector[c].page[b]), day |-> b] :
               b \in {b \in Buckets : collector[c].page[b] # NoUsage}}

(* calculate_event_cost; a model without a price has no cost record.       *)
Priced(day) == IF PricesFor(day) = {} THEN {"none"} ELSE {p.version : p \in PricesFor(day)}

(* _process_page: the event's upsert waits for a transaction that wrote    *)
(* the same identity; the cost record follows in the same transaction.     *)
ProcessPage(c) ==
    LET countable == {i \in Items(c) : Countable(i.item)}
    IN /\ collector[c].at = "fetched"
       /\ \A d \in Collectors \ {c} : Touched(d) \cap {i.item.key : i \in countable} = {}
       /\ \E price \in [countable -> {p.version : p \in prices} \cup {"none"}] :
             /\ \A i \in countable : price[i] \in Priced(i.day)
             /\ collector' = [collector EXCEPT ![c].at = "stored", ![c].wrote =
                                 {[key |-> i.item.key, price |-> price[i], day |-> i.day, figures |->
                                    [prompt |-> i.item.prompt, cached |-> i.item.cached]] : i \in countable}]
       /\ UNCHANGED <<reporter, used, usageEvents, costs, newest, overtaken, runs_begun, priceVars>>

ByKey(rows) == [key \in {w.key : w \in rows} |-> CHOOSE w \in rows : w.key = key]
CostRecords(c) == ByKey({w \in collector[c].wrote : w.price # "none"})

(* Mutation: the cost record keeps the figures it was created with.        *)
KeepFirstCost(c) == Over(costs, CostRecords(c))

(* ON CONFLICT DO UPDATE: the row of an event, and its cost record.  One   *)
(* whose day has no price would keep its figures.                          *)
UpsertEvents(c) == Over(ByKey(collector[c].wrote), usageEvents)
UpsertCosts(c) == Over(CostRecords(c), costs)

CommitRun(c) ==
    LET keys == Touched(c)
        behind == keys \cap collector[c].since
    IN /\ collector[c].at = "stored"
       /\ usageEvents' = UpsertEvents(c) /\ costs' = UpsertCosts(c)
       /\ overtaken' = (overtaken \ keys) \cup behind
       /\ newest' = Over([key \in keys \ behind |-> ByKey(collector[c].wrote)[key].figures], newest)
       /\ collector' = [d \in Collectors |->
                             IF d = c THEN NoRun
                             ELSE IF collector[d].at # "idle" /\ collector[d].run < collector[c].run
                                  THEN [collector[d] EXCEPT !.since = @ \cup keys] ELSE collector[d]]
       /\ UNCHANGED <<reporter, used, runs_begun, priceVars>>

AbortRun(c) ==
    /\ collector[c] # NoRun
    /\ collector' = [collector EXCEPT ![c] = NoRun]
    /\ UNCHANGED <<reporter, used, usageEvents, costs, newest, overtaken, runs_begun, priceVars>>

-----------------------------------------------------------------------------
(* POST /pricing/models                                                    *)

(* validate_no_overlap: inactive versions count as well.                   *)
Overlap(p, q) == p.from <= q.to /\ q.from <= p.to

(* validate_new_pricing: an end, when given, lies after the start.         *)
WellFormed(d) == d.from < d.to

CheckPrice(e) ==
    /\ editor[e] = NoEdit
    /\ \E d \in Drafts :
          /\ WellFormed(d)
          /\ \A p \in prices : ~Overlap(p, d) /\ p.version # d.version
          /\ editor' = [editor EXCEPT ![e] = [at |-> "checked", draft |-> d, saw |-> {p.version : p \in prices}]]
    /\ UNCHANGED <<reporter, used, collectVars, prices>>

(* uq_model_pricing_provider_model_version is all the database enforces.   *)
CreatePrice(e) ==
    LET d == editor[e].draft IN
    /\ editor[e].at = "checked"
    /\ prices' = IF \E p \in prices : p.version = d.version THEN prices
                 ELSE prices \cup {[version |-> d.version, from |-> d.from, to |-> d.to, active |-> d.active,
                                    saw |-> editor[e].saw]}
    /\ editor' = [editor EXCEPT ![e].at = "done"]
    /\ UNCHANGED <<reporter, used, collectVars>>

PricingNext ==
    \/ \E f \in Feeds, b \in Buckets : UsageGrows(f, b)
    \/ \E c \in Collectors : \/ \E f \in Feeds : Fetch(c, f)
                             \/ ProcessPage(c) \/ CommitRun(c) \/ AbortRun(c)
    \/ \E e \in Editors : CheckPrice(e) \/ CreatePrice(e)

PricingSpec == PricingInit /\ [][PricingNext]_pricingVars

-----------------------------------------------------------------------------
PricingTypeOK ==
    /\ reporter \in Reporters /\ used \in [Feeds -> [Buckets -> TokenCounts]]
    /\ DOMAIN usageEvents \subseteq AllKeys /\ DOMAIN costs \subseteq DOMAIN usageEvents
    /\ DOMAIN newest = DOMAIN usageEvents
    /\ overtaken \subseteq DOMAIN usageEvents /\ runs_begun \in 0..MaxRuns
    /\ \A c \in Collectors : collector[c].at \in {"idle", "fetched", "stored"} /\ Touched(c) \subseteq AllKeys
    /\ \A e \in Editors : editor[e].at \in {"idle", "checked", "done"}

(* usage_event_repository.py: collecting the same usage again updates its  *)
(* row.  A row shows what the last run to fetch said, unless a run that    *)
(* fetched earlier committed later; never more than the provider reports   *)
(* of one connection, nor more cached than prompt tokens; its cost record, *)
(* if its day had a price, is of the same figures.  Where an item has a    *)
(* name a bucket has one row.  A price covers the day of every cost it     *)
(* explains, and prices are ambiguous only if their requests crossed.      *)
CostsFollowUsage ==
    /\ \A key \in DOMAIN usageEvents :
          LET e == usageEvents[key] IN
          /\ e.figures.cached <= e.figures.prompt
          /\ key \notin overtaken => e.figures = newest[key]
          /\ \E f \in Feeds, b \in Buckets :
                LET now == Normalized(f, b, key[3], used[f][b])
                IN now.key = key /\ e.figures.prompt <= now.prompt /\ e.figures.cached <= now.cached
          /\ reporter[2] # "neither" => key[3] = 0
    /\ \A key \in DOMAIN costs :
          /\ costs[key].figures = usageEvents[key].figures
          /\ \E p \in prices : p.version = costs[key].price /\ Covers(p, costs[key].day)
    /\ \A p, q \in prices : p # q /\ Overlap(p, q) => p.version \notin q.saw /\ q.version \notin p.saw
=============================================================================
