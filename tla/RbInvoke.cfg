CONSTANTS
  Bits <- MCBits
  Values <- MCValues
  InData <- MCInData
  OutTypes <- MCOutTypes
  ReturnTypes <- MCReturnTypes
  Leftover = {"ERR", "NOT_SUPPORTED"}
  MaxIns = 1
  MaxOuts = 1
SPECIFICATION Spec
CHECK_DEADLOCK FALSE
INVARIANTS TypeOK ReplyExact TypesKept InputExact EchoExact WholeReply MissingHarmless
