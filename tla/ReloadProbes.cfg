\* The health probes take their breakers from the first Dispatch of the primary.
SPECIFICATION FairSpec
CONSTANTS
  Workers = 1
  Requests = {r1}
  MaxVersion = 2
  MaxHups = 1
  MaxEdits = 1
  CertSpecs <- MCCertSpecs
  Names <- MCNames
INVARIANT ProbesReachHotPath
