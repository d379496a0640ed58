SPECIFICATION Spec
CONSTANTS
  Profiles = {"benni", "eltern"}
  Default = "benni"
  anna = anna
  ben = ben
  Users <- MCUsers
  Admins <- MCUsers
  Items = {"b", "c", "f"}
  KindOf <- MCKindOf
  Contents <- MCContents
  Inputs <- MCInputs
  ContractOf <- MCContractOf
  Misfits <- MCMisfits
  Documents <- MCDocuments
  Existing <- MCExisting
  None = None
  MaxRev <- MCMaxRev
  MaxFaults = 1
INVARIANT TypeOK
INVARIANT SessionIsOwn
INVARIANT DraftsHangTogether
PROPERTY NoSilentRebase
PROPERTY WorkEndsOnPurpose
PROPERTY SavedIsPresented
SYMMETRY MCSymmetry
