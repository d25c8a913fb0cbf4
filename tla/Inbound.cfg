CONSTANTS
  Kind = "transaction"
  Starts = {"PENDING"}
  Unnamed = {}
  Reported = {"PROCESSING", "SETTLED"}
  MaxMoves = 2
  Jobs = {1, 2}
  MaxFaults = 1
  RedisAnswers = FALSE
SPECIFICATION FairInboundSpec
INVARIANT Converges
PROPERTY ReceivedIsTaken
CHECK_DEADLOCK FALSE
