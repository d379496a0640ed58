--------------------------- MODULE MCSignalGraph ---------------------------
(* Schemas and configurations of a small household for SignalGraph.        *)
EXTENDS SignalGraph

Field(type, required, physical, safety, fallback, default, ttl, requirement) ==
  [type |-> type, required |-> required, physical |-> physical, safety |-> safety,
   fallback |-> fallback, safeDefault |-> default, ttl |-> ttl, requirement |-> requirement]

(* contracts.py: the opening and the presence schema; one requires device  *)
(* timestamps.                                                             *)
MCSchemas ==
  [opening |->
     [opening_state |-> Field("enum", TRUE, TRUE, "critical", "reject", "none", 2, "any"),
      available |-> Field("boolean", TRUE, FALSE, "critical", "safe_default", "false", 2, "any"),
      is_open |-> Field("boolean", FALSE, TRUE, "relevant", "reject", "none", 2, "any"),
      source_count |-> Field("number", FALSE, FALSE, "informational", "reject", "none", 2, "any")],
   presence |-> [present |-> Field("boolean", TRUE, FALSE, "informational", "reject", "none", 1, "any")],
   device |-> [is_powered |-> Field("boolean", FALSE, FALSE, "informational", "reject", "none", 1, "device")]]

Binding(source, field, ttl, fallback) ==
  [source |-> source, field |-> field, ttl |-> ttl, fallback |-> fallback, enabled |-> TRUE]
Fusion(contract, field, strategy, inputs, children) ==
  [contract |-> contract, field |-> field, strategy |-> strategy,
   inputs |-> inputs, children |-> children]

Contacts ==
  [b1 |-> Binding("s1", "open_contact", 2, "none"), b2 |-> Binding("s2", "tilt_contact", 1, "none"),
   b3 |-> [Binding("s3", "open_contact", 1, "none") EXCEPT !.enabled = FALSE]]
Both == <<"b1", "b2">>

Pilot ==
  [schema |-> "opening", bindings |-> Contacts, fusions |->
     [state |-> Fusion("c", "opening_state", "opening_contacts", Both, <<>>),
      avail |-> Fusion("c", "available", "opening_available", Both, <<>>),
      open  |-> Fusion("c", "is_open", "opening_is_open", Both, <<>>),
      count |-> Fusion("c", "source_count", "opening_source_count", Both, <<>>)]]

Rooms(f1, f2, f3) ==
  [b1 |-> Binding("s1", "present", 1, f1), b2 |-> Binding("s2", "present", 1, f2),
   b3 |-> Binding("s3", "present", 1, f3)]
House(top, nested) ==
  [schema |-> "presence", bindings |-> Rooms("none", "none", "none"), fusions |->
     [home  |-> Fusion("c", "present", top, <<"b1">>, <<"rooms">>),
      rooms |-> Fusion("d", "present", nested, <<"b2", "b3">>, <<>>)]]
Single(strategy, f1, f2) ==
  [schema |-> "presence", bindings |-> [Rooms(f1, f2, "none") EXCEPT !.b3.enabled = FALSE],
   fusions |-> [home |-> Fusion("c", "present", strategy, Both, <<>>)]]
Plug ==
  [schema |-> "device",
   bindings |-> [b \in {"b1", "b2", "b3"} |->
                   [Binding("s1", "is_powered", 2, "none") EXCEPT !.enabled = (b = "b1")]],
   fusions |-> [power |-> Fusion("c", "is_powered", "first_healthy", <<"b1">>, <<>>)]]
(* A physical field read from two equal contacts.                          *)
Doubled ==
  [schema |-> "opening",
   bindings |-> [Rooms("none", "none", "none") EXCEPT
                   !.b1.field = "is_open", !.b2.field = "is_open", !.b3.enabled = FALSE],
   fusions |-> [open |-> Fusion("c", "is_open", "latest", Both, <<>>)]]

(* Refused: a cycle over two fusions, fallbacks that disagree, a held      *)
(* physical state.                                                         *)
Refused ==
  {[House("any_true", "any_true") EXCEPT !.fusions.rooms.children = <<"home">>],
   Single("first_healthy", "hold_last", "reject"),
   [Doubled EXCEPT !.bindings.b1.fallback = "hold_last"]}

MCConfigs ==
  {Pilot, Plug, Doubled, House("all_true", "any_true"), House("any_true", "all_true"),
   House("first_healthy", "all_true"),
   Single("latest", "hold_last", "none"), Single("first_healthy", "hold_last", "none")} \cup Refused

Seen(value, kind, age) == [value |-> value, kind |-> kind, age |-> age]
MCObservations ==
  {Seen("true", "device", 0), Seen("true", "device", -1), Seen("false", "ha_event", 0),
   Seen("unknown", "ha_read", 0),
   Seen("true", "retained", 0), Seen("false", "restore", 0)}

(* What the theorems about the graph suppose holds of these.               *)
ASSUME GraphTheoremsApply == CountsStandAlone /\ OpeningsAsBuilt /\ PhysicalAsBuilt
=============================================================================
