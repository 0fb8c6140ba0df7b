SPECIFICATION FairSpec
CONSTANTS
  Clients = {self}
  Self = self
  MaxUint64 = 4
  Servers = {1, 2}
  None = none
  Inputs <- MCInputs
  MaxChanges = 1
  MaxHeld = 1
INVARIANTS TypeOK InOrderOnce ResultsTrue
PROPERTIES ImplementsRunningSum Answered
CHECK_DEADLOCK FALSE
