CONSTANTS
  Clients = {a, b}
  Signals = {15}
SPECIFICATION FairSpec
INVARIANT AnswersAreFresh
PROPERTIES DropEnds ClientsAreServed
