CONSTANTS
  c1 = c1
  c2 = c2
  r1 = r1
  Requests <- MCRequests
  Connections <- MCConnections
  Own <- MCOwn
  Admin = FALSE
  Priorities = {1, 2}
  Plans <- TwoRoutes
  Limit = 1
  RetryDelays = {1, 2}
  Replies = {200, 401, 500}
SPECIFICATION FairSpec
INVARIANTS SendsAreCharged FallbackOnlyPastFailure AnswerExplained LoggedAsAnswered UsageCountsReplies
PROPERTIES EndsOrWaits CancelledEnds
