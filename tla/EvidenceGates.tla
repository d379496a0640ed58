--------------------------- MODULE EvidenceGates ---------------------------
(***************************************************************************)
(* Four read-only judges over one signal graph: the evidence gate of a     *)
(* published contract (evidence_gate.py), the required-field gate of the   *)
(* owner over the evidence matrix (owner_required_gate.py), the live       *)
(* evidence a probe acquires for a record of the matrix (live_evidence.py) *)
(* and the shadow verification of the contract that was evaluated last     *)
(* against what the sources show now (shadow_verification.py, shadow.py).  *)
(*                                                                         *)
(* The graph moves as in SignalGraph; contract is the PublishedContract it *)
(* keeps, which an observation does not refresh.  Every source has one     *)
(* binding, the evidence matrix one record for it, under the same name.    *)
(***************************************************************************)
EXTENDS SignalGraph

CONSTANT
  Records   (* the required raw records of the matrix, [Bindings -> [field, *)
            (* disposition, origins, deviceTimestamp, haUsable]]            *)

ASSUME MatrixCoversBindings == DOMAIN Records = Bindings

(* The availability modelled is that of an opening, derived from its state. *)
ASSUME AvailabilityIsDerived ==
  \A s \in DOMAIN Schemas :
    "available" \in DOMAIN Schemas[s] => "opening_state" \in DOMAIN Schemas[s]

VARIABLES
  contract, (* the stored contract: for each field its evaluation           *)
  prepared  (* the contract of the prepared graph                           *)

gateVars == <<graph, plan, contract, prepared>>

(* The contract evaluate_contract stores, with its candidate bindings.      *)
Published(g) ==
  [n \in Fields(g) |->
     LET e == Evaluated(g, n)
         leaves == UNION {Elems(Leaves(g.config, f)) : f \in FusionsFor(g, n)}
     IN  [value |-> e.value, state |-> e.state, active |-> e.active, complete |-> e.complete,
          judged |-> e.judged, candidates |-> {b \in leaves : g.signals[b] # NoSignal}]]

-----------------------------------------------------------------------------
(* The evidence gate (evaluate_contract_evidence).                          *)

NotReady(field) == IF field.required THEN "blocked" ELSE "degraded"

FieldGate(field, e) ==
  IF /\ e.state = "valid"
     /\ e.judged = Judged("healthy", "fresh", "valid", "good")
     /\ e.complete
  THEN "pass" ELSE NotReady(field)

Overall(statuses) ==
  CASE "blocked" \in statuses  -> "blocked"
    [] statuses \subseteq {"pass"} -> "pass"
    [] OTHER -> "degraded"

SchemaField(g, n) == Schemas[g.config.schema][n]
GateOf(g, c) == Overall({FieldGate(SchemaField(g, n), c[n]) : n \in DOMAIN c})

-----------------------------------------------------------------------------
(* The matrix (assess_source_binding_evidence) and the owner's gate.        *)

(* Is this origin evidenced for the source at all?                          *)
Admitted(r, kind) ==
  IF kind = "device" THEN "device" \in r.origins /\ r.deviceTimestamp
  ELSE kind = "ha_event" /\ "ha" \in r.origins /\ r.haUsable

AssessedFreshness(g, b, ttl) ==
  LET s == g.signals[b]
      r == Records[b]
  IN  CASE s = NoSignal -> "unknown"
        [] s # NoSignal /\ s.ev.kind \in {"retained", "restore"} -> Freshness(s.ev, ttl, "any")
        [] s # NoSignal /\ s.ev.kind \notin {"retained", "restore"} /\ ~Admitted(r, s.ev.kind) ->
             "unknown"
        [] OTHER -> Freshness(s.ev, ttl, IF r.origins = {"device"} THEN "device" ELSE "any")

RecordsOf(n) == {b \in Bindings : Records[b].field = n}

(* Faulty: a source that is not fresh is left aside.                        *)
OwnerRaw_SkipsOld(g, n, value) ==
  LET field == SchemaField(g, n)
      fresh == {b \in RecordsOf(n) : AssessedFreshness(g, b, field.ttl) = "fresh"}
      with(disposition) == {b \in fresh : Records[b].disposition = disposition}
  IN  IF with("conflict") # {} \/ with("candidate") = {} \/ Classify(value, field) # "valid"
      THEN "blocked" ELSE "pass"

(* Faulty: the value is not looked at.                                      *)
OwnerRaw_AnyValue(g, n, value) ==
  LET field == SchemaField(g, n)
      fresh == {b \in RecordsOf(n) : AssessedFreshness(g, b, field.ttl) = "fresh"}
  IN  IF fresh = RecordsOf(n) /\ \A b \in fresh : Records[b].disposition = "candidate"
      THEN "pass" ELSE "blocked"

(* _evaluate_spec of a field with sources; an opening needs all of them.    *)
OwnerRaw(g, n, value) ==
  LET field == SchemaField(g, n)
      fresh == {b \in RecordsOf(n) : AssessedFreshness(g, b, field.ttl) = "fresh"}
      with(disposition) == {b \in fresh : Records[b].disposition = disposition}
      enough == IF n = "opening_state" THEN with("candidate") = RecordsOf(n)
                ELSE with("candidate") # {}
  IN  CASE with("conflict") # {} \/ ~enough -> "blocked"
        [] with("conflict") = {} /\ enough /\ fresh # RecordsOf(n) ->
             IF field.physical THEN "blocked" ELSE "degraded"
        [] OTHER -> IF Classify(value, field) = "valid" THEN "pass" ELSE "blocked"

(* ... and of one derived from the decision on another field.               *)
OwnerDerived(g, n, value, dependency) ==
  IF Classify(value, SchemaField(g, n)) # "valid" \/ (n = "available" /\ value = "false")
  THEN "blocked" ELSE dependency

(* The required fields the matrix knows; availability is derived.           *)
OwnerFields(g) ==
  {n \in Fields(g) : SchemaField(g, n).required /\ (RecordsOf(n) # {} \/ n = "available")}

(* The gate evaluates values: [field -> value]; the caller passes the       *)
(* decisions on the raw fields to the derived ones.                         *)
OwnerStatus(g, n, values) ==
  IF n = "available"
  THEN OwnerDerived(g, n, values[n], OwnerRaw(g, "opening_state", values["opening_state"]))
  ELSE OwnerRaw(g, n, values[n])

-----------------------------------------------------------------------------
(* Live evidence (assess_live_source): a probe reads the source of a        *)
(* record; it may call what it read stale, know the owner of the source or  *)
(* not, and see other sources compete with it.                              *)

Probes == [stale : BOOLEAN, owned : BOOLEAN, rivals : BOOLEAN]

(* _status_for_failure; the records are those of required fields.           *)
LiveFailure(field, open) == IF open /\ ~field.physical THEN "open" ELSE "blocked"

LiveFreshness(g, b, ttl, probe) ==
  IF probe.stale THEN "stale" ELSE AssessedFreshness(g, b, ttl)

LiveStatus(g, n, b, ttl, probe) ==
  LET field     == SchemaField(g, n)
      freshness == LiveFreshness(g, b, ttl, probe)
      contested == probe.rivals \/ Records[b].disposition = "conflict"
      shown     == g.signals[b] # NoSignal
      readable  == shown /\ g.signals[b].value \notin {"none", "unknown", "unavailable"}
      firm      == shown /\ ~contested /\ readable
  IN  CASE ~shown -> LiveFailure(field, TRUE)
        [] shown /\ (contested \/ ~readable) -> "blocked"
        [] firm /\ ~probe.owned -> LiveFailure(field, TRUE)
        [] firm /\ probe.owned /\ freshness # "fresh" ->
             LiveFailure(field, freshness = "unknown")
        [] OTHER -> IF Records[b].disposition = "candidate" THEN "pass" ELSE "blocked"

(* Every record of the field passes, read with the field's time to live.    *)
LiveProven(g, n) ==
  /\ RecordsOf(n) # {}
  /\ \A b \in RecordsOf(n) : \E probe \in Probes :
       LiveStatus(g, n, b, SchemaField(g, n).ttl, probe) = "pass"

-----------------------------------------------------------------------------
(* The shadow verification (verify_benni_shadow_contract).                  *)

(* The bindings of a field: those of its evaluation, else by name.  Of the  *)
(* condition on the latter, which reads the capability as well, the name is *)
(* enough: with an evaluation that has no candidates nothing is active, and *)
(* only active bindings confirm (Verified).                                 *)
VerifiedBindings(g, n) ==
  LET evaluated == (contract[n].candidates \cup contract[n].active) \cap Bindings
  IN  IF evaluated # {} THEN evaluated
      ELSE {b \in Bindings : g.config.bindings[b].field = n}

(* Faulty: a source counts whatever its age.                                *)
Confirms_AnyAge(g, b, field) ==
  LET s == g.signals[b]
  IN  s # NoSignal /\ Classify(s.value, field) = "valid"

(* Read with the limits of the field, not with those of the binding.        *)
Confirms(g, b, field) ==
  LET s == g.signals[b]
  IN  /\ s # NoSignal
      /\ Classify(s.value, field) = "valid"
      /\ Freshness(s.ev, field.ttl, field.requirement) = "fresh"

(* _verification_status: any one active source that shows a valid and fresh *)
(* value confirms the stored one, whatever it shows.                        *)
Verified(g, n) ==
  LET field == SchemaField(g, n)
      e     == contract[n]
      gate  == FieldGate(field, e)
      confirmed == \E b \in VerifiedBindings(g, n) \cap e.active : Confirms(g, b, field)
  IN  CASE ~confirmed -> [status |-> NotReady(field), value |-> "unknown"]
        [] confirmed /\ n = "available" /\ e.value = "false" ->
             [status |-> NotReady(field), value |-> "false"]
        [] OTHER ->
             [status |-> gate,
              value |-> IF gate # "pass" /\ field.physical THEN "unknown" ELSE e.value]

(* physical_claim_allowed of a physical field.                              *)
Claims(g, n) ==
  SchemaField(g, n).physical /\ Verified(g, n).status = "pass" /\ Verified(g, n).value # "unknown"

ShadowStatus(g) == Overall({Verified(g, n).status : n \in Fields(g)})

-----------------------------------------------------------------------------
GatesInit ==
  /\ Init
  /\ contract = Published(graph)
  /\ prepared = NoPlan

(* The graph's steps, with what becomes of the contracts it keeps.          *)
Observe ==
  /\ Tick \/ \E b \in Bindings, o \in Observations : Ingest(b, o)
  /\ UNCHANGED <<contract, prepared>>

Publish ==
  /\ EvaluateContract
  /\ contract' = Published(graph)
  /\ UNCHANGED prepared

PrepareContract(c) ==
  /\ Prepare(c)
  /\ prepared' = Published(Seeded(EmptyGraph(c), graph))
  /\ UNCHANGED contract

(* The new graph keeps the contract of its preparation, older than the      *)
(* evidence it is seeded with now.                                          *)
ActivateContract ==
  /\ Activate
  /\ contract' = prepared
  /\ prepared' = NoPlan

AbandonContract ==
  /\ Abandon
  /\ prepared' = NoPlan
  /\ UNCHANGED contract

RestartContract ==
  /\ Restart
  /\ contract' = Published(EmptyGraph(graph.config))
  /\ prepared' = NoPlan

GatesNext ==
  \/ Observe
  \/ Publish
  \/ \E c \in Configs : PrepareContract(c)
  \/ ActivateContract
  \/ AbandonContract
  \/ RestartContract

GatesSpec == GatesInit /\ [][GatesNext]_gateVars

-----------------------------------------------------------------------------
StoredValues == [n \in DOMAIN contract |-> contract[n].value]

(* ThreeValued: fields whose fusion treats a missing input as uncertainty.  *)
ThreeValued ==
  {n \in Fields(graph) : FusionsFor(graph, n) # {} /\
     \/ IsOpening([strategy |-> StrategyOf(n)])
     \/ StrategyOf(n) \in {"all_true", "any_true"}}

NoneEarly ==
  \A b \in Bindings : graph.signals[b] # NoSignal => graph.signals[b].ev.age >= 0

(* A judge that does not select: what it passes later, it passes now.       *)
NoJudgeGains(later) ==
  /\ \A n \in OwnerFields(graph) :
       OwnerStatus(later, n, StoredValues) = "pass"
         => OwnerStatus(graph, n, StoredValues) = "pass"
  /\ \A n \in OwnerFields(graph) : \A b \in RecordsOf(n), probe \in Probes :
       LET status(g) == LiveStatus(g, n, b, SchemaField(g, n).ttl, probe)
       IN  status(later) = "pass" => status(graph) = "pass"
  /\ \A n \in Fields(graph) :
       Verified(later, n).status = "pass" => Verified(graph, n).status = "pass"

(* TimeAloneProvesNothing: when evidence only gets older no judge becomes   *)
(* content: the owner's gate on given values, the live evidence of a        *)
(* record, the shadow verification, and the evidence gate on a fresh        *)
(* evaluation wherever missing inputs count as uncertainty.  (Between two   *)
(* sources of equal rank a contradiction does end when the older one        *)
(* expires, and a timestamp of the future matures.)                         *)
TimeAloneProvesNothing ==
  LET later == Older(graph)
      gate(g, n) == FieldGate(SchemaField(g, n), Evaluated(g, n))
  IN  NoneEarly =>
        /\ NoJudgeGains(later)
        /\ \A n \in ThreeValued : gate(later, n) = "pass" => gate(graph, n) = "pass"

(* OwnerNeverOutruns: the owner's gate, which weighs records and not how    *)
(* their values go together, passes a field of the current evaluation only  *)
(* if the evidence gate passes it too; and live evidence for every record   *)
(* of a field does not pass where the owner's gate stops a valid value.     *)
OwnerNeverOutruns ==
  LET now      == [n \in Fields(graph) |-> Evaluated(graph, n)]
      owner(n) == OwnerStatus(graph, n, [m \in Fields(graph) |-> now[m].value])
  IN  \A n \in OwnerFields(graph) :
        /\ owner(n) = "pass" => FieldGate(SchemaField(graph, n), now[n]) = "pass"
        /\ LiveProven(graph, n) /\ now[n].state = "valid" => owner(n) = "pass"

(* ShadowClaimsHaveSources: a physical claim repeats a value the contract   *)
(* held as proven, while a source that decided it still shows a valid value *)
(* in time; and the report is never better than the evidence gate.          *)
ShadowClaimsHaveSources ==
  /\ \A n \in Fields(graph) : Claims(graph, n) =>
       /\ Verified(graph, n).value = contract[n].value
       /\ contract[n].judged.health = "healthy" /\ contract[n].complete
       /\ \E b \in contract[n].active :
            /\ graph.signals[b] # NoSignal
            /\ graph.signals[b].ev.kind \in {"device", "ha_event"}
            /\ graph.signals[b].ev.age \in 0..SchemaField(graph, n).ttl
            /\ graph.signals[b].value \notin {"none", "unknown", "unavailable", "garbage"}
  /\ ShadowStatus(graph) = "pass" => GateOf(graph, contract) = "pass"

(* ShadowClaimsAreCurrent: a physical value the verification claims is the  *)
(* one the current evidence shows; the documents promise "unknown" for      *)
(* missing, stale or contradictory evidence.                                *)
ShadowClaimsAreCurrent ==
  \A n \in Fields(graph) :
    Claims(graph, n) => Verified(graph, n).value = Evaluated(graph, n).value

-----------------------------------------------------------------------------
(* Conditions under which theorems about the judges hold.                  *)

(* The matrix and the fusions of the pilot: each required field that has   *)
(* records has one in conflict or is the state of an opening, which        *)
(* contacts decide; availability has none and follows from two contacts.   *)
MatrixAsBuilt ==
  \A c \in Configs : \A n \in DOMAIN Schemas[c.schema] :
    LET field == Schemas[c.schema][n]
        serving == {f \in DOMAIN c.fusions : c.fusions[f].contract = Contract
                                             /\ c.fusions[f].field = n}
    IN  field.required =>
          IF n = "available"
          THEN /\ RecordsOf(n) = {}
               /\ field.type = "boolean"
               /\ field.fallback = "safe_default" /\ field.safeDefault # "true"
               /\ \A f \in serving : c.fusions[f].strategy = "opening_available"
                                     /\ Len(c.fusions[f].inputs) = 2
          ELSE RecordsOf(n) # {} =>
                 \/ \E b \in RecordsOf(n) : Records[b].disposition = "conflict"
                 \/ /\ field.physical /\ field.type = "enum"
                    /\ \A f \in serving : c.fusions[f].strategy = "opening_contacts"

IsBoolean(fusion) == fusion.strategy \in {"all_true", "any_true"}

(* A Boolean fusion reads no other fusions than such.                      *)
BooleansReadBooleans ==
  \A c \in Configs : \A f \in DOMAIN c.fusions :
    IsBoolean(c.fusions[f]) =>
      \A k \in Elems(c.fusions[f].children) : IsBoolean(c.fusions[k])
=============================================================================
