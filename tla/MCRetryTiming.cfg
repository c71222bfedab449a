SPECIFICATION TimingSpec
CONSTANTS
  MaxAttempts = 4
  BaseDelay = 4
  Multiplier = 2
  MaxDelay = 12
  Jitter = 25
INVARIANTS
  RetryBudget
  OutcomeFaithful
  SleepsBetweenAttempts
  BackoffGrows
  SleepsBounded
