SPECIFICATION Spec
CONSTANTS
  Error = error
  Databases <- MCDatabases
  Identities <- MCIdentities
  Names <- MCNames
  Environments <- MCEnvironments
  UpdateLists <- MCUpdateLists
  AddressLists <- MCAddressLists
  Images <- MCImages
  MaxAddress = 2
  MaxDrift = 1
INVARIANTS TypeOK WritesAuthorised ReadsAuthorised EvidenceRestores FailuresTold NeverDowngraded
PROPERTY FilesKept
CHECK_DEADLOCK FALSE
