SPECIFICATION FairCodesSpec
CONSTANTS
  Owner = p1
  Phones = {p1, p2}
  OtpInterval = 2
  OtpWindow = 5
  OtpWindowLimit = 2
  LoginLock = 2
  LoginFailureLimit = 3
  MaximumEntries = 1
  ResendTime = 2
  Lifetime = 4
  MaxGuesses = 3
INVARIANTS
  CodesAreLimited
  GuessesAreLimited
PROPERTIES
  LimitsPass
