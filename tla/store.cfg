SPECIFICATION FairSpec
CONSTANTS
  First = "first"
  Timer = "timer"
  Users = {"user"}
  Criticals = {"docker socket", "privileged"}
  Reports <- MCReports
INVARIANTS
  TypeOK HeldIsOnScreen NoNagging CriticalsAreTold
PROPERTIES
  FailureIsRetried RefreshEnds
