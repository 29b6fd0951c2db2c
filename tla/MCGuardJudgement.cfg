CONSTANTS
  LeftTokens <- AllBefore
  RightTokens <- AllAfter
  MaxLeft = 4
  MaxRight = 2
  CoreTokens = {"guard", "lit", "bind", "[", ",", "nl"}
  MaxCore = 6
SPECIFICATION JudgementSpec
INVARIANTS
  WalkFindsKeyed
  CallArgumentsStayLive
CHECK_DEADLOCK FALSE
