SPECIFICATION Audible
CONSTANTS
  Impls = {i1, i2}
  Sounds = {s1}
  NoImpl = NoImpl
  NoSound = NoSound
  Kinds = {"file", "dsp"}
  FileOutcomes = {"READY", "INVALID"}
INVARIANTS
  DeleteMeansUnlinked
  SetupAlone
  PointersAgree
  SafeUnlessInvalid
PROPERTIES
  MarkedIsFreed
  OrphanIsFreed
