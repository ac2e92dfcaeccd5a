CONSTANTS
  g = g  a1 = a1  a2 = a2  a3 = a3  a4 = a4  b2 = b2  b4 = b4  b5 = b5  b6 = b6 
  c2 = c2  c3 = c3  mA = mA  mB = mB  mX = mX  w1 = w1  w2 = w2  w3 = w3  s1 = s1
  NoTs = NoTs
  Tipsets <- MCTipsets
  Genesis = g
  Parent <- MCParent
  Height <- MCHeight
  Messages <- MCMessages
  Nonce <- MCNonce
  Stored = {mA, mB}
  Msgs <- MCMsgs
  Requests <- MCRequests
  SearchFrom = {b6, c3}
  Waits = {w1, w2, w3}
  Msg <- MCMsg
  Confidence <- MCConfidence
  Lookback <- MCLookback
  p1 = p1  p2 = p2  p3 = p3
  Calls = {p1, p2, p3}
  Amount <- MCAmount
  MaxRestarts = 2
SPECIFICATION PaychSpec
INVARIANTS PaychTypeOK OneCallback MakerIsSound
PROPERTIES ReportedOnChain DeepIsReported CallersAreTold
CHECK_DEADLOCK FALSE
