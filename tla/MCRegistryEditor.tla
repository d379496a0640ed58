-------------------------- MODULE MCRegistryEditor --------------------------
(* A binding, a contract and a fusion of both for RegistryEditor.          *)
EXTENDS RegistryEditor

CONSTANTS anna, ben

MCUsers == {anna, ben}

MCSymmetry == Permutations(MCUsers)

MCKindOf == [b |-> "binding", c |-> "instance", f |-> "fusion"]

MCContents == [b |-> {"on", "off"}, c |-> {"opening", "presence"}, f |-> {"first"}]

MCInputs == [f |-> {"b"}]

MCContractOf == [f |-> "c"]

MCMisfits == {<<"f", "presence">>}

MCDocuments ==
  {[profile |-> "benni", payload |-> [b |-> "on", c |-> "opening", f |-> "first"]]}

MCExisting == [benni |-> <<[b |-> "on"]>>, eltern |-> <<>>]

MCMaxRev == [benni |-> 2, eltern |-> 0]
=============================================================================
