CONSTANTS
  h1 = h1
  Handler = {h1}
  Poster = Poster
  Ticker = Ticker
  SubCap = 2
  ClientCap = 1
SPECIFICATION FairSpec
CHECK_DEADLOCK FALSE
INVARIANTS RevokeUnderWay
PROPERTIES RevokeIsSeen BusyViewLearns PublishReturns SubscriberLeaves
