---------------------------- MODULE SignalGraph ----------------------------
(***************************************************************************)
(* The signal graph of one household (graph.py) with the judgement of      *)
(* evidence (quality.py) and the evaluation of one contract: observations  *)
(* come in late, early, retained, restored or not at all, time passes, and *)
(* an activation replaces the graph by one of another configuration.       *)
(*                                                                         *)
(* Only the age of a timestamp counts, so evidence carries its age: -1 for *)
(* a timestamp in the future, growing with time up to MaxAge, which        *)
(* exceeds every time to live.  Values are "true" and "false" (the source  *)
(* adapter has read "on", "open" and so on), "unknown", "unavailable", any *)
(* other text for a value that fails its schema, and "none" for None.      *)
(* The time of the last real change, messages and reasons are left out.    *)
(***************************************************************************)
EXTENDS Integers, Sequences, FiniteSets

CONSTANTS
  Bindings, Contract, (* binding ids; the contract that is evaluated       *)
  Configs,      (* registry payloads offered for activation, a set of      *)
                (* [schema, bindings : [Bindings -> binding], fusions]     *)
  Schemas,      (* [schema id -> [field -> field schema]]                  *)
  Observations, (* what a source may report: [value, kind, age]            *)
  MaxAge,       (* bound: ages are counted up to it                        *)
  NoSignal, NoPlan

Kinds == {"device", "ha_event", "ha_read", "retained", "restore"}
Texts == {"none", "unknown", "unavailable", "true", "false", "garbage",
          "count", "open", "tilted", "closed"}

FieldSchemas ==
  [type : {"boolean", "enum", "number"}, required : BOOLEAN, physical : BOOLEAN,
   safety : {"informational", "relevant", "critical"},
   fallback : {"none", "reject", "hold_last", "safe_default"}, safeDefault : Texts,
   ttl : Nat, requirement : {"any", "device"}]

(* A fusion never has the id of a binding: _evaluate_fusion marks it.      *)
ASSUME GraphConstants ==
  /\ MaxAge \in Nat /\ Configs # {}
  /\ \A s \in DOMAIN Schemas : \A n \in DOMAIN Schemas[s] : Schemas[s][n] \in FieldSchemas
  /\ \A c \in Configs :
       /\ c.schema \in DOMAIN Schemas
       /\ IsFiniteSet(DOMAIN c.fusions) /\ DOMAIN c.fusions \cap Bindings = {}
       /\ \A b \in Bindings : c.bindings[b].ttl \in Nat
  /\ Observations \subseteq [value : Texts, kind : Kinds, age : -1..MaxAge]

(* None is no evidence of a binding, nor of a fusion.                      *)
ASSUME NoSignalIsNone ==
  \A c \in Configs :
    NoSignal \notin [id : Bindings \cup DOMAIN c.fusions, value : Texts,
                    ev : [kind : Kinds, age : -1..MaxAge], ttl : Nat]

VARIABLES
  graph,   (* the running graph: configuration, signals, the values of its *)
           (* last PublishedContract and, as history, the last valid ones  *)
  plan     (* a prepared graph that waits for its revision to commit       *)

vars == <<graph, plan>>

Elems(s) == {s[i] : i \in 1..Len(s)}
Least(a, b) == IF a < b THEN a ELSE b
(* The members of S in a sequence, in their order.                         *)
Those(s, S) ==
  LET upto[i \in 0..Len(s)] ==
        IF i = 0 THEN <<>>
        ELSE IF s[i] \in S THEN Append(upto[i - 1], s[i]) ELSE upto[i - 1]
  IN  upto[Len(s)]


-----------------------------------------------------------------------------
(* Topology: what add_fusions and validate_registry_payload let through.   *)

(* Of any fusions, one reads none of the others nor itself.                *)
Acyclic(fusions) ==
  \A S \in SUBSET DOMAIN fusions :
    S # {} => {f \in S : Elems(fusions[f].children) \cap S = {}} # {}

IsOpening(fusion) ==
  fusion.strategy \in {"opening_contacts", "opening_is_open", "opening_available",
                       "opening_source_count"}

FusionsFit(c) ==
  /\ \A f, g \in DOMAIN c.fusions :
       f # g => <<c.fusions[f].contract, c.fusions[f].field>>
                # <<c.fusions[g].contract, c.fusions[g].field>>
  /\ \A f \in DOMAIN c.fusions :
       /\ c.fusions[f].inputs \in Seq(Bindings)
       /\ c.fusions[f].children \in Seq(DOMAIN c.fusions)
       /\ c.fusions[f].inputs \o c.fusions[f].children # <<>>
  /\ Acyclic(c.fusions)
  /\ \A f \in DOMAIN c.fusions :
       LET fusion == c.fusions[f]
           inputFields == {c.bindings[b].field : b \in Elems(fusion.inputs)}
       IN  IF IsOpening(fusion)
           THEN fusion.children = <<>> /\ inputFields \subseteq {"open_contact", "tilt_contact"}
           ELSE /\ inputFields \subseteq {fusion.field}
                /\ \A child \in Elems(fusion.children) : c.fusions[child].field = fusion.field

(* The fallback policies of the direct inputs replace that of the field;   *)
(* ContractFieldSchema refuses some for some fields.                       *)
Policies(c, fusion) ==
  {c.bindings[b].fallback : b \in Elems(fusion.inputs)} \ {"none"}

Overridden(c, fusion, field) ==
  IF IsOpening(fusion) \/ Policies(c, fusion) = {} THEN field
  ELSE [field EXCEPT !.fallback = CHOOSE p \in Policies(c, fusion) : TRUE]

FallbackAllowed(field) ==
  /\ field.physical => field.fallback = "reject"
  /\ field.fallback = "safe_default" => field.safeDefault # "none"

ASSUME SchemasAllowed ==
  \A s \in DOMAIN Schemas : \A n \in DOMAIN Schemas[s] : FallbackAllowed(Schemas[s][n])

Accepted(c) ==
  /\ FusionsFit(c)
  /\ \A f \in DOMAIN c.fusions : c.fusions[f].contract = Contract =>
       LET fusion == c.fusions[f]
           schema == Schemas[c.schema]
       IN  /\ fusion.field \in DOMAIN schema
           /\ fusion.strategy \in {"any_true", "all_true"} =>
                schema[fusion.field].type = "boolean"
           /\ IsOpening(fusion) \/ Cardinality(Policies(c, fusion)) <= 1
           /\ FallbackAllowed(Overridden(c, fusion, schema[fusion.field]))

-----------------------------------------------------------------------------
(* Evidence (TemporalEvidence.freshness) and values (classify).            *)

(* Faulty: an observation lives one unit longer than its time to live.     *)
Expired_Late(age, ttl) == age > ttl + 1

Expired(age, ttl) == age > ttl

(* "device": a timestamp of the device; "ha_event": a state change event;  *)
(* "ha_read": a state read without an event; "retained": a replay of the   *)
(* broker; "restore": from the store of the previous process.              *)
Freshness(ev, ttl, requirement) ==
  LET timed == ev.kind = "device" \/ (ev.kind = "ha_event" /\ requirement # "device")
  IN  CASE ev.kind = "restore"  -> "restored"
        [] ev.kind = "retained" -> "suspect"
        [] ev.kind \notin {"restore", "retained"} /\ ~timed -> "unknown"
        [] timed /\ ev.age < 0  -> "suspect"
        [] timed /\ ev.age >= 0 /\ Expired(ev.age, ttl) -> "stale"
        [] OTHER -> "fresh"

(* "count" stands for a number.                                            *)
TypeValues(type) ==
  CASE type = "boolean" -> {"true", "false"}
    [] type = "enum"    -> {"open", "tilted", "closed"}
    [] OTHER            -> {"count"}

Classify(value, field) ==
  CASE value \in {"none", "unavailable"} -> "unavailable"
    [] value = "unknown" -> "unknown"
    [] OTHER -> IF value \in TypeValues(field.type) THEN "valid" ELSE "invalid"

IsFresh(s, field) ==
  Freshness(s.ev, Least(field.ttl, s.ttl), field.requirement) = "fresh"

-----------------------------------------------------------------------------
(* Selection: which signals decide a field, by the strategy of its fusion. *)

Undecided(state) ==
  [value |-> "none", state |-> state, by |-> NoSignal, active |-> {},
   complete |-> FALSE, conflict |-> FALSE]
Decided(value, s, active, complete, conflict) ==
  [value |-> value, state |-> "valid", by |-> s, active |-> active,
   complete |-> complete, conflict |-> conflict]

WithoutFreshValue(candidates, field) ==
  LET states == {Classify(s.value, field) : s \in Elems(candidates)}
  IN  CASE "unknown" \in states -> "unknown"
        [] "invalid" \in states /\ {"unknown", "unavailable"} \cap states = {} -> "invalid"
        [] OTHER -> "unavailable"

SelectOne(strategy, candidates, freshValid, field) ==
  IF freshValid = <<>> THEN Undecided(WithoutFreshValue(candidates, field))
  ELSE LET all == Elems(freshValid)
           youngest == {s \in all : \A t \in all : s.ev.age <= t.ev.age}
           s == IF strategy = "latest" THEN Those(freshValid, youngest)[1] ELSE freshValid[1]
           agree == \A t \in all : t.value = s.value
       IN  Decided(s.value, s, {s.id}, agree, ~agree)

(* Faulty: an input without a fresh value counts as false.                 *)
Uncertain_Never(decided, inputs) == decided > inputs

Uncertain(decided, inputs) == decided < inputs

(* Three-valued: an input without a fresh Boolean is uncertainty.          *)
SelectBoolean(strategy, freshValid, inputs) ==
  LET says(v) == Those(freshValid, {s \in Elems(freshValid) : s.value = v})
      trues  == says("true")
      falses == says("false")
      uncertain == Uncertain(Len(trues) + Len(falses), inputs)
      ids(s) == {t.id : t \in Elems(s)}
      oldest(s) == Those(s, {t \in Elems(s) : \A u \in Elems(s) : u.ev.age <= t.ev.age})[1]
  IN  IF strategy = "all_true"
      THEN CASE falses # <<>> -> Decided("false", oldest(falses), ids(falses), ~uncertain, FALSE)
             [] falses = <<>> /\ trues # <<>> /\ ~uncertain ->
                  Decided("true", oldest(trues), ids(trues), TRUE, FALSE)
             [] OTHER -> Undecided("unknown")
      ELSE CASE trues # <<>> -> Decided("true", trues[1], ids(trues), ~uncertain, FALSE)
             [] trues = <<>> /\ falses # <<>> /\ ~uncertain ->
                  Decided("false", falses[1], ids(falses), TRUE, FALSE)
             [] OTHER -> Undecided(IF uncertain THEN "unknown" ELSE "unavailable")

(* Faulty: only a physical field asks for fresh contacts.                  *)
ContactsFresh_Physical(contacts, field) ==
  field.physical => \A s \in Elems(contacts) : IsFresh(s, field)

ContactsFresh(contacts, field) == \A s \in Elems(contacts) : IsFresh(s, field)

(* contacts: the signals of the inputs that have one, in their order; the  *)
(* first is the open contact, the second the tilt contact.                 *)
SelectOpening(fusion, contacts, field) ==
  LET values == [i \in 1..Len(contacts) |-> contacts[i].value]
      whole  == Len(contacts) = Len(fusion.inputs)
      valid  == whole /\ Elems(values) \subseteq {"true", "false"}
      fresh  == valid /\ ContactsFresh(contacts, field)
      both   == fresh /\ Elems(values) = {"true"}
      ids    == {s.id : s \in Elems(contacts)}
      claim(value, complete) ==
        Decided(value, contacts[1], IF complete THEN ids ELSE {}, complete, FALSE)
  IN  CASE fusion.strategy = "opening_source_count" ->
             IF whole THEN claim("count", TRUE) ELSE Undecided("unknown")
        [] fusion.strategy = "opening_available" ->
             CASE ~valid \/ contacts = <<>> -> Undecided("unavailable")
               [] contacts # <<>> /\ both -> [claim("false", FALSE) EXCEPT !.conflict = TRUE]
               [] OTHER -> claim(IF fresh THEN "true" ELSE "false", fresh)
        [] OTHER ->
             CASE ~fresh \/ Len(contacts) # 2 -> Undecided("unknown")
               [] Len(contacts) = 2 /\ both -> [Undecided("unknown") EXCEPT !.conflict = TRUE]
               [] OTHER -> claim(IF fusion.strategy = "opening_is_open" THEN values[1]
                                 ELSE IF values[1] = "true" THEN "open"
                                 ELSE IF values[2] = "true" THEN "tilted" ELSE "closed", TRUE)

Select(fusion, candidates, field) ==
  LET freshValid == Those(candidates, {s \in Elems(candidates) :
                                         Classify(s.value, field) = "valid" /\ IsFresh(s, field)})
  IN  IF IsOpening(fusion) THEN SelectOpening(fusion, candidates, field)
      ELSE IF fusion.strategy \in {"first_healthy", "latest"}
           THEN SelectOne(fusion.strategy, candidates, freshValid, field)
           ELSE SelectBoolean(fusion.strategy, freshValid,
                              Len(fusion.inputs) + Len(fusion.children))

(* The signals of the bindings in a sequence, with the binding's limits.   *)
SignalsOf(g, ids) ==
  LET present == Those(ids, {b \in Elems(ids) : g.signals[b] # NoSignal})
  IN  [i \in 1..Len(present) |->
        [id |-> present[i], value |-> g.signals[present[i]].value,
         ev |-> g.signals[present[i]].ev, ttl |-> g.config.bindings[present[i]].ttl]]

(* The inputs of a fusion and of the fusions below it (_candidate_signals). *)
Joined(fusion, below) ==
  LET upto[i \in 0..Len(fusion.children)] ==
        IF i = 0 THEN fusion.inputs ELSE upto[i - 1] \o below[fusion.children[i]]
  IN  upto[Len(fusion.children)]

Leaves(c, id) ==
  LET leaves[f \in DOMAIN c.fusions] ==
        Joined(c.fusions[f], [k \in Elems(c.fusions[f].children) |-> leaves[k]])
  IN  leaves[id]

(* A nested fusion stands in for its deciding signal, with its own value   *)
(* and without the limits of the binding; one that could not decide offers *)
(* nothing.                                                                *)
Offers(child) == child.by # NoSignal

AsCandidate(id, child, field) ==
  [id |-> id, value |-> child.value, ev |-> child.by.ev, ttl |-> field.ttl]

Nested(children, below, field) ==
  LET offered == Those(children, {k \in Elems(children) : Offers(below[k])})
  IN  [i \in 1..Len(offered) |-> AsCandidate(offered[i], below[offered[i]], field)]

(* One fusion, given what its children came to: only bindings appear as    *)
(* active, and an incomplete or contradictory child leaves its mark.       *)
Merged(sel, children, below) ==
  [value    |-> sel.value,
   state    |-> sel.state,
   by       |-> IF sel.by # NoSignal /\ sel.by.id \in children THEN below[sel.by.id].by
                ELSE sel.by,
   active   |-> UNION {IF k \in children THEN below[k].active ELSE {k} : k \in sel.active},
   complete |-> sel.complete /\ \A k \in children : below[k].complete,
   conflict |-> sel.conflict \/ \E k \in children : below[k].conflict]

Fused(g, fusion, field, below) ==
  Merged(Select(fusion, SignalsOf(g, fusion.inputs) \o Nested(fusion.children, below, field),
                field),
         Elems(fusion.children), below)

(* _evaluate_fusion: the children are evaluated by their own strategies.   *)
Selection(g, id, field) ==
  LET fusions == g.config.fusions
      eval[f \in DOMAIN fusions] ==
        Fused(g, fusions[f], field, [k \in Elems(fusions[f].children) |-> eval[k]])
  IN  eval[id]

-----------------------------------------------------------------------------
(* Quality of a field (assess_field_quality) and its fallback.             *)

Judged(health, freshness, safety, quality) ==
  [health |-> health, freshness |-> freshness, safety |-> safety, quality |-> quality]

Informational(field) == field.safety = "informational"

(* ev: the evidence judged, "none" without a signal.                       *)
Quality(field, freshness, hasValue, holding) ==
  LET held == IF field.physical THEN "unsafe" ELSE "conservative"
  IN  CASE hasValue /\ holding -> Judged("degraded", freshness, held, "degraded")
        [] ~hasValue /\ field.fallback = "safe_default" ->
             Judged("degraded", freshness, held, "degraded")
        [] ~hasValue /\ field.fallback # "safe_default" ->
             Judged(IF field.required THEN "blocked"
                    ELSE IF field.physical THEN "degraded" ELSE "unknown",
                    freshness,
                    IF ~field.physical /\ ~Informational(field) /\ field.required
                    THEN "blocked" ELSE "unknown",
                    IF field.required THEN "unavailable" ELSE "unknown")
        [] hasValue /\ ~holding /\ freshness # "fresh" ->
             Judged("degraded", freshness,
                    IF field.physical THEN "unsafe"
                    ELSE IF Informational(field) THEN "valid" ELSE "conservative",
                    IF freshness \in {"suspect", "stale"} THEN freshness ELSE "unknown")
        [] OTHER -> Judged("healthy", "fresh", "valid", "good")

(* A value of its sources, marked where they disagree or are incomplete.   *)
Claimed(sel, field) ==
  LET q == Quality(field, Freshness(sel.by.ev, Least(field.ttl, sel.by.ttl), field.requirement),
                   TRUE, FALSE)
  IN  [value |-> sel.value, state |-> "valid", active |-> sel.active, complete |-> sel.complete,
       judged |-> IF sel.conflict THEN [q EXCEPT !.health = "degraded", !.quality = "conflict"]
                  ELSE IF ~sel.complete THEN [q EXCEPT !.health = "degraded", !.quality = "degraded"]
                  ELSE q]

(* Faulty: the last value any source reported is held.                     *)
HeldValue_Reported(held, withValue) ==
  IF withValue = <<>> THEN held ELSE withValue[1].value

HeldValue(held, withValue) == held

(* Without a decided value: _apply_fallback.  held is the value of the     *)
(* last evaluation of this graph; last the first signal that has a value.  *)
FellBack(sel, field, held, candidates) ==
  LET withValue == Those(candidates, {s \in Elems(candidates) : s.value # "none"})
      freshness == IF withValue = <<>> THEN "unknown"
                   ELSE Freshness(withValue[1].ev, field.ttl, field.requirement)
      holding == field.fallback = "hold_last" /\ held # "none"
      q == Quality(field, freshness, holding, holding)
      given(value, state) ==
        [value |-> value, state |-> state, complete |-> sel.complete,
         active |-> IF field.physical THEN {} ELSE sel.active,
         judged |-> IF ~holding /\ field.physical /\ sel.conflict
                    THEN [q EXCEPT !.quality = "conflict"] ELSE q]
  IN  CASE holding -> given(HeldValue(held, withValue), "unknown")
        [] field.fallback = "safe_default" -> given(field.safeDefault, "unknown")
        [] field.physical -> given("unknown", "unknown")
        [] OTHER -> given("none", CASE sel.state = "unknown" -> "unknown"
                                    [] sel.state # "unknown" /\ field.required -> "blocked"
                                    [] sel.state = "invalid" /\ ~field.required -> "unknown"
                                    [] OTHER -> "unavailable")

Fields(g) == DOMAIN Schemas[g.config.schema]
FusionsFor(g, name) ==
  {f \in DOMAIN g.config.fusions : g.config.fusions[f].contract = Contract
                                   /\ g.config.fusions[f].field = name}

FieldSchema(g, name) ==
  LET field == Schemas[g.config.schema][name]
  IN  IF FusionsFor(g, name) = {} THEN field
      ELSE Overridden(g.config, g.config.fusions[CHOOSE f \in FusionsFor(g, name) : TRUE], field)

(* Faulty: a contradiction of a physical field is claimed like any other.  *)
Usable_Contradicted(sel, field) == sel.by # NoSignal /\ sel.state = "valid"

Usable(sel, field) ==
  sel.by # NoSignal /\ sel.state = "valid" /\ ~(sel.conflict /\ field.physical)

(* One field of the PublishedContract that evaluate_contract returns now.  *)
Evaluated(g, name) ==
  LET field == FieldSchema(g, name)
      f     == CHOOSE k \in FusionsFor(g, name) : TRUE
      some  == FusionsFor(g, name) # {}
      sel   == IF some THEN Selection(g, f, field) ELSE Undecided("unavailable")
  IN  IF Usable(sel, field) THEN Claimed(sel, field)
      ELSE FellBack(sel, field, g.held[name],
                    IF some THEN SignalsOf(g, Leaves(g.config, f)) ELSE <<>>)

(* aggregate_health over the fields of one evaluation.                     *)
Health(g) ==
  LET healths == {Evaluated(g, n).judged.health : n \in Fields(g)}
  IN  CASE "blocked" \in healths -> "blocked"
        [] healths \subseteq {"healthy"} -> "healthy"
        [] OTHER -> "degraded"

(* evaluate_contract keeps the contract in the graph; what a later         *)
(* evaluation reads of it are the values of the fields that hold them.     *)
Evaluate(g) ==
  LET holding == {n \in Fields(g) : FieldSchema(g, n).fallback = "hold_last"}
      now     == [n \in holding |-> Evaluated(g, n)]
  IN  [g EXCEPT !.held  = [n \in Fields(g) |-> IF n \in holding THEN now[n].value ELSE "none"],
                !.valid = [n \in Fields(g) |-> IF n \in holding /\ now[n].state = "valid"
                                               THEN now[n].value ELSE @[n]]]

-----------------------------------------------------------------------------
(* Graphs of other configurations.                                         *)

EmptyGraph(c) ==
  [config |-> c, signals |-> [b \in Bindings |-> NoSignal],
   held  |-> [n \in DOMAIN Schemas[c.schema] |-> "none"],
   valid |-> [n \in DOMAIN Schemas[c.schema] |-> "none"]]

SameSource(new, old) ==
  new.enabled /\ old.enabled /\ new.source = old.source /\ new.field = old.field

(* Faulty: carried evidence is stamped with the time it would expire.      *)
Carried_Expiry(signal) ==
  IF signal = NoSignal THEN signal ELSE [signal EXCEPT !.ev.age = @ - MaxAge]

(* Faulty: carried evidence counts as read now.                            *)
Carried_Refreshed(signal) ==
  IF signal = NoSignal THEN signal ELSE [signal EXCEPT !.ev.age = 0]

Carried(signal) == signal

(* seed_unchanged_sources: evidence moves to the new graph as it is.       *)
Seeded(new, old) ==
  [new EXCEPT !.signals = [b \in Bindings |->
     IF /\ SameSource(new.config.bindings[b], old.config.bindings[b])
        /\ old.signals[b] # NoSignal
     THEN Carried(old.signals[b]) ELSE @[b]]]

-----------------------------------------------------------------------------
Init ==
  /\ \E c \in Configs : Accepted(c) /\ graph = EmptyGraph(c)
  /\ plan = NoPlan

Aged(ev) == IF ev.kind \in {"device", "ha_event"} /\ ev.age < MaxAge
            THEN [ev EXCEPT !.age = @ + 1] ELSE ev

Later(signal) == IF signal = NoSignal THEN NoSignal ELSE [signal EXCEPT !.ev = Aged(@)]

Older(g) == [g EXCEPT !.signals = [b \in Bindings |-> Later(@[b])]]

Tick ==
  /\ graph' = Older(graph)
  /\ UNCHANGED plan

(* Graph.ingest, from an event, the read at a bind or the restored store:  *)
(* the last observation to arrive is the signal, however old it is.        *)
Ingest(b, o) ==
  /\ graph.config.bindings[b].enabled
  /\ graph' = [graph EXCEPT !.signals[b] =
                 [value |-> o.value, ev |-> [kind |-> o.kind, age |-> o.age]]]
  /\ UNCHANGED plan

EvaluateContract ==
  /\ graph' = Evaluate(graph)
  /\ UNCHANGED plan

(* RegistryRuntime.prepare: the new graph is seeded and evaluated once     *)
(* before the revision is committed ...                                    *)
Prepare(c) ==
  /\ plan = NoPlan
  /\ Accepted(c)
  /\ plan' = [Evaluate(Seeded(EmptyGraph(c), graph)) EXCEPT
                !.signals = [b \in Bindings |-> NoSignal]]
  /\ UNCHANGED graph

(* ... and RegistryRuntime.activate seeds it again, with what arrived      *)
(* meanwhile.  (Every signal seeded the first time is seeded again, so the *)
(* plan does not keep them.)                                               *)
Activate ==
  /\ plan # NoPlan
  /\ graph' = Seeded(plan, graph)
  /\ plan' = NoPlan

(* The commit failed.                                                      *)
Abandon ==
  /\ plan # NoPlan
  /\ plan' = NoPlan
  /\ UNCHANGED graph

(* Another process: the active revision is prepared without a predecessor. *)
Restart ==
  /\ graph' = Evaluate(EmptyGraph(graph.config))
  /\ plan' = NoPlan

Next ==
  \/ Tick
  \/ \E b \in Bindings, o \in Observations : Ingest(b, o)
  \/ EvaluateContract
  \/ \E c \in Configs : Prepare(c)
  \/ Activate
  \/ Abandon
  \/ Restart

Spec == Init /\ [][Next]_vars

-----------------------------------------------------------------------------
(* TypeOK: the running and the prepared graph hold values and evidence of  *)
(* their kinds, for the fields of their schema.                            *)
TypeOK ==
  \A g \in {graph} \cup ({plan} \ {NoPlan}) :
    /\ g.config \in Configs
    /\ \A b \in Bindings : g.signals[b] # NoSignal =>
         /\ g.signals[b].value \in Texts
         /\ g.signals[b].ev \in [kind : Kinds, age : -1..MaxAge]
    /\ g.held \in [Fields(g) -> Texts] /\ g.valid \in [Fields(g) -> Texts]

(* What a reader means by current evidence: a measurement of the device or *)
(* an event, not from the future, within the limits of field and binding.  *)
Proven(b, field) ==
  LET s == graph.signals[b]
  IN  /\ s # NoSignal
      /\ s.ev.kind = "device" \/ (s.ev.kind = "ha_event" /\ field.requirement # "device")
      /\ s.ev.age \in 0..field.ttl
      /\ s.ev.age <= graph.config.bindings[b].ttl

StrategyOf(name) == graph.config.fusions[CHOOSE f \in FusionsFor(graph, name) : TRUE].strategy
LeavesOf(name) == Elems(Leaves(graph.config, CHOOSE f \in FusionsFor(graph, name) : TRUE))

(* ClaimsAreProven: a healthy field rests on at least one binding, and on  *)
(* none whose evidence is old, early, replayed, restored or only read; a   *)
(* healthy contract has a valid, complete value in every field.  (The      *)
(* count of opening sources counts them whatever their age.)               *)
ClaimsAreProven ==
  /\ \A n \in Fields(graph) :
       LET e == Evaluated(graph, n)
       IN  e.judged.health = "healthy" =>
             /\ e.state = "valid" /\ e.complete /\ e.active # {}
             /\ StrategyOf(n) # "opening_source_count" =>
                  \A b \in e.active : Proven(b, FieldSchema(graph, n))
  /\ Health(graph) = "healthy" =>
       \A n \in Fields(graph) : Evaluated(graph, n).judged.health = "healthy"

(* PhysicalNeverGuessed: the physical state of an opening rests on current *)
(* evidence whose contacts do not contradict each other, never on a held   *)
(* value or a default; one that two contacts decide needs both of them.    *)
PhysicalNeverGuessed ==
  \A n \in Fields(graph) :
    LET e == Evaluated(graph, n)
        proven == {b \in LeavesOf(n) : Proven(b, FieldSchema(graph, n))}
        says(v) == {b \in proven : graph.signals[b].value = v}
    IN  Schemas[graph.config.schema][n].physical /\ e.value # "unknown" =>
          /\ e.state = "valid" /\ e.active # {} /\ e.active \subseteq proven
          /\ IF IsOpening([strategy |-> StrategyOf(n)])
             THEN e.active = LeavesOf(n) /\ says("false") # {}
             ELSE says("true") = {} \/ says("false") = {}

(* The value of a tree of all_true and any_true over a full assignment.    *)
TruthOf(fusion, assignment, below) ==
  LET inputs == {assignment[b] : b \in Elems(fusion.inputs)}
                \cup {below[k] : k \in Elems(fusion.children)}
  IN  IF fusion.strategy = "all_true" THEN FALSE \notin inputs ELSE TRUE \in inputs

Truth(id, assignment) ==
  LET fusions == graph.config.fusions
      truth[f \in DOMAIN fusions] ==
        TruthOf(fusions[f], assignment, [k \in Elems(fusions[f].children) |-> truth[k]])
  IN  truth[id]

(* DecisionsAreForced: a Boolean fusion decides only what its current      *)
(* inputs force: no value of the absent or outdated inputs, at any depth   *)
(* of nesting, could turn the decision round.                              *)
DecisionsAreForced ==
  \A n \in Fields(graph) :
    \A f \in FusionsFor(graph, n) :
      LET e == Evaluated(graph, n)
          field == FieldSchema(graph, n)
          known(b) == Proven(b, field) /\ graph.signals[b].value \in {"true", "false"}
      IN  (/\ e.state = "valid"
           /\ \A k \in DOMAIN graph.config.fusions :
                graph.config.fusions[k].strategy \in {"all_true", "any_true"}) =>
            \A assignment \in [LeavesOf(n) -> BOOLEAN] :
              (\A b \in LeavesOf(n) : known(b) => assignment[b] = (graph.signals[b].value = "true"))
                => Truth(f, assignment) = (e.value = "true")

(* OpeningFieldsAgree: the fields of one opening contract, each evaluated  *)
(* by its own strategy, tell one story: it is available exactly when its   *)
(* state is known, and open exactly when the state says so.                *)
OpeningFieldsAgree ==
  {"opening_state", "available", "is_open"} \subseteq {n \in Fields(graph) : FusionsFor(graph, n) # {}} =>
    LET state == Evaluated(graph, "opening_state")
        open  == Evaluated(graph, "is_open")
    IN  /\ (Evaluated(graph, "available").value = "true") = (state.state = "valid")
        /\ (open.state = "valid") = (state.state = "valid")
        /\ open.state = "valid" => (open.value = "true") = (state.value = "open")

(* HeldWasValid: a held value is the last one that was valid in this graph *)
(* and never a default, a guess or a value of the graph it replaced.       *)
HeldWasValid ==
  \A n \in Fields(graph) :
    LET e == Evaluated(graph, n)
    IN  (/\ FieldSchema(graph, n).fallback = "hold_last"
         /\ e.state # "valid" /\ e.value # "none") =>
           e.value = graph.valid[n] /\ e.judged.health = "degraded"

(* ActivationKeepsAge: a new graph starts with evidence of unchanged       *)
(* sources only, as old as it is and no younger.                           *)
ActivationKeepsAge ==
  [][(plan # NoPlan /\ plan' = NoPlan /\ graph' # graph) =>
       \A b \in Bindings : graph'.signals[b] # NoSignal =>
         /\ graph'.signals[b] = graph.signals[b]
         /\ graph'.config.bindings[b].source = graph.config.bindings[b].source
         /\ graph'.config.bindings[b].enabled]_vars

-----------------------------------------------------------------------------
(* Conditions on the configurations, which the registry does not impose,   *)
(* under which theorems hold (EvidenceGates_proofs).                       *)

(* A count of opening sources is a field of its own: no fusion reads one.  *)
CountsStandAlone ==
  \A c \in Configs : \A f \in DOMAIN c.fusions : \A k \in Elems(c.fusions[f].children) :
    c.fusions[k].strategy # "opening_source_count"

(* The fusions of the opening contract as build_pilot_fusions makes them,  *)
(* over the opening schema: the same two contacts, one time to live and    *)
(* requirement, and no held or positive availability.                      *)
OpeningsAsBuilt ==
  \A c \in Configs : \A s, a, o \in DOMAIN c.fusions :
    (/\ {c.fusions[s].contract, c.fusions[a].contract, c.fusions[o].contract} = {Contract}
     /\ c.fusions[s].field = "opening_state" /\ c.fusions[a].field = "available"
     /\ c.fusions[o].field = "is_open") =>
      /\ c.fusions[s].strategy = "opening_contacts"
      /\ c.fusions[a].strategy = "opening_available"
      /\ c.fusions[o].strategy = "opening_is_open"
      /\ c.fusions[a].inputs = c.fusions[s].inputs /\ c.fusions[o].inputs = c.fusions[s].inputs
      /\ Len(c.fusions[s].inputs) = 2
      /\ LET schema == Schemas[c.schema]
         IN  /\ \A n \in {"available", "is_open"} :
                  /\ schema[n].ttl = schema["opening_state"].ttl
                  /\ schema[n].requirement = schema["opening_state"].requirement
             /\ schema["available"].fallback # "hold_last"
             /\ schema["available"].safeDefault # "true"

(* A physical state is decided by its two contacts or, if it is a Boolean, *)
(* by one of several sources that show it.                                 *)
PhysicalAsBuilt ==
  \A c \in Configs : \A n \in DOMAIN Schemas[c.schema] : Schemas[c.schema][n].physical =>
    \/ \A f \in DOMAIN c.fusions : c.fusions[f].field = n =>
         c.fusions[f].strategy \in {"opening_contacts", "opening_is_open"}
    \/ /\ Schemas[c.schema][n].type = "boolean"
       /\ \A f \in DOMAIN c.fusions : c.fusions[f].field = n =>
            c.fusions[f].strategy \in {"first_healthy", "latest"}
=============================================================================
