SPECIFICATION Spec
CONSTANTS
  Tools = {"arch", "msr", "sync", "lib"}
  NetTexts <- SomeNets
  ArchTexts <- SomeArchives
  ParTexts <- SomeParameters
  DtTexts <- SomeClocks
  IntTexts <- SomeIntervals
  CheckTexts <- SomeChecks
  Passwords <- SomePasswords
  Timeouts = {0, 60000}
  News <- SomeMoments
  Probes <- SomeProbes
  Numbers = {0, 15}
  TableMax = 2
  Deltas = {1, 58, 128, 189}
  Lossy = {"msr", "sync", "lib"}
  NoGateway = TRUE
INVARIANTS TypeOK AskedAsWritten SetAsWritten ValuesAreTrue ConfirmedIsTrue GoodAnswerIsTaken AskedInsideRing AcceptedCanAsk ChecksAreNamed
