--------------------------- MODULE MCConsumerApi ---------------------------
(* Two contracts, two revisions of their registry and three subscribers.   *)
EXTENDS ConsumerApi

Def(version, fields, roles) == [version |-> version, fields |-> fields, roles |-> roles]

(* The second revision exchanges a binding and the schema version of k1,   *)
(* brings k2 and moves the role to it.                                     *)
MCConfigs ==
  {[k1 |-> Def(2, {"f", "g"}, {"r"}), k2 |-> NoDef],
   [k1 |-> Def(1, {"f"}, {}), k2 |-> Def(1, {"f"}, {"r"})]}
MCValues == [k1 |-> {"good", "bad"}, k2 |-> {"good"}]

Sub(contract, role, fields, declared) ==
  [contract |-> contract, role |-> role, fields |-> fields, kinds |-> AllKinds,
   declared |-> declared]
MCFilter ==
  [narrow |-> Sub("k1", NoRole, {"f"}, {}),
   role   |-> Sub(NoKey, "r", {}, {}),
   every  |-> Sub(NoKey, NoRole, {}, {"k1", "k2"})]
MCAgeing == {<<"k1", "f">>}
MCKeySeq == <<"k1", "k2">>
=============================================================================
