\* Two tickers, two calls in a response, every exposure of the two tools.
CONSTANTS
  Ticker = {a, b}
  NoTicker = NoTicker
  Limit <- MCLimit
  MaxBatch = 2
  Asked <- MCAsked
  CandidateRefs <- MCCandidateRefs
SPECIFICATION FairSpec
INVARIANTS
  QuotaHolds
  FinalHeadroom
  ObservedQuotesBringContext
  AnswerIsObserved
PROPERTIES
  
  RunEnds
