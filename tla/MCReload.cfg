\* Edits and SIGHUPs in the middle of a reload of a primary and two workers.
SPECIFICATION FairSpec
CONSTANTS
  Workers = 2
  Requests = {r1}
  MaxVersion = 2
  MaxHups = 2
  MaxEdits = 2
  CertSpecs <- MCCertSpecs
  Names <- MCNames
INVARIANTS TypeOK UniformBetweenReloads RejectedNeverServed HandshakeGetsItsCert
PROPERTY HupConverges
