-------------------------- MODULE MCEvidenceGates --------------------------
(* A small household and its evidence matrix for EvidenceGates.             *)
EXTENDS EvidenceGates

Field(type, required, physical, safety, fallback, default, ttl) ==
  [type |-> type, required |-> required, physical |-> physical, safety |-> safety,
   fallback |-> fallback, safeDefault |-> default, ttl |-> ttl, requirement |-> "any"]

(* contracts.py: opening.v1 and the required field of room_climate.v1.      *)
MCSchemas ==
  [opening |->
     [opening_state |-> Field("enum", TRUE, TRUE, "critical", "reject", "none", 1),
      available |-> Field("boolean", TRUE, FALSE, "critical", "safe_default", "false", 1),
      is_open |-> Field("boolean", FALSE, TRUE, "relevant", "reject", "none", 1)],
   climate |-> [temperature |-> Field("number", TRUE, FALSE, "relevant", "reject", "none", 1)]]

Binding(source, field, ttl, enabled) ==
  [source |-> source, field |-> field, ttl |-> ttl, fallback |-> "none", enabled |-> enabled]
Fusion(field, strategy, inputs) ==
  [contract |-> "c", field |-> field, strategy |-> strategy, inputs |-> inputs, children |-> <<>>]
House(schema, f1, f2, ttl2, on, fusions) ==
  [schema |-> schema, fusions |-> fusions, bindings |->
     [b1 |-> Binding("s1", f1, 1, "b1" \in on), b2 |-> Binding("s2", f2, ttl2, "b2" \in on),
      b3 |-> Binding("s3", "temperature", 1, "b3" \in on),
      b4 |-> Binding("s4", "temperature", 0, "b4" \in on)]]

Both == <<"b1", "b2">>
Pilot ==
  House("opening", "open_contact", "tilt_contact", 0, {"b1", "b2"},
        [state |-> Fusion("opening_state", "opening_contacts", Both),
         avail |-> Fusion("available", "opening_available", Both),
         open  |-> Fusion("is_open", "opening_is_open", Both)])
(* A main and a spare contact.                                              *)
Spare ==
  House("opening", "is_open", "is_open", 1, {"b1", "b2"},
        [open |-> Fusion("is_open", "first_healthy", Both)])
Climate ==
  House("climate", "temperature", "temperature", 1, {"b3", "b4"},
        [temp |-> Fusion("temperature", "first_healthy", <<"b3", "b4">>)])

MCConfigs == {Pilot, Spare, Climate}

Record(field, disposition, deviceTimestamp) ==
  [field |-> field, disposition |-> disposition, origins |-> {"device", "ha"},
   deviceTimestamp |-> deviceTimestamp, haUsable |-> TRUE]
MCRecords ==
  [b1 |-> Record("opening_state", "candidate", TRUE),
   b2 |-> Record("opening_state", "candidate", FALSE),
   b3 |-> Record("temperature", "candidate", FALSE),
   b4 |-> Record("temperature", "conflict", TRUE)]

Seen(value, kind, age) == [value |-> value, kind |-> kind, age |-> age]
(* An early timestamp matures, so a current one needs no observation.      *)
MCObservations ==
  {Seen("true", "device", -1), Seen("false", "ha_event", 0), Seen("count", "ha_event", 0)}

(* What the theorems about graph and judges suppose holds of these.        *)
ASSUME JudgeTheoremsApply ==
  /\ CountsStandAlone /\ OpeningsAsBuilt /\ PhysicalAsBuilt
  /\ MatrixAsBuilt /\ BooleansReadBooleans
=============================================================================
