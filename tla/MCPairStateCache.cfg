SPECIFICATION FairSpec
CONSTANTS
  Requests = {h1, h2}
  Getters = {ema, rates}
  SimTtl = 2
  PairTtl = 1
  MaxWait = 1
INVARIANT OneSimulationPerGetter
INVARIANT AnswersAreRecent
PROPERTY RequestsAreAnswered
