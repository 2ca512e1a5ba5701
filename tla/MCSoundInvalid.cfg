SPECIFICATION Spec
CONSTANTS
  Impls = {i1}
  Sounds = {s1}
  NoImpl = NoImpl
  NoSound = NoSound
  Kinds = {"file"}
  FileOutcomes = {"READY", "INVALID"}
INVARIANTS
  InterfaceSafe
