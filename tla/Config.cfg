SPECIFICATION Spec
INVARIANTS
  TypeOK
  NodesDoNotCollide
  DestinationIsRight
  ContainerRunsWhatWasChecked
  NothingIgnored
  HarmlessIsAccepted
