\* Three runs on one another, reconciliations, builds and single revocations,
\* from four foundings; in the first run any single operation may fail.
SPECIFICATION LifecycleSpec
CONSTANTS
  d1 = d1
  d2 = d2
  c1 = c1
  c2 = c2
  e1 = e1
  e2 = e2
  s1 = s1
  s2 = s2
  k1 = k1
  k2 = k2
  a1 = a1
  a2 = a2
  bundle = bundle
  Id <- MCId
  TypeOf <- MCTypeOf
  ParentOf <- MCParentOf
  StatementOf <- MCStatementOf
  ClaimOf <- MCClaimOf
  EntityOf <- MCEntityOf
  Bundle = bundle
  SummaryOf <- MCSummaryOf
  SourceSet <- MCSourceSet
  Workspace <- MCWorkspace
  Founding <- MCFounding
  CatalogOf <- MCCatalogOf
  MaxVersion = 3
  MaxFailing = 1
  MaxSelection = 1
INVARIANTS
  PlansReplay
  FailureWithheld
  ReconciliationExact
  RevocationExact
  AlwaysPlannable
  SourceGrounded
  GraphDerivable
