CONSTANTS
  LaneIds = {0, 1, 2}
  SettleDelay = 2
  Sources <- MCSources
  AnyVouchers <- MCAnyVouchers
  MadeLanes = {0, 1}
  Amounts = {1, 2, 3}
  MinDeltas = {1, 2}
  MaxVouchers = 3
  RtAsks <- MCAsks
  RtBlocks <- MCBlocks
  RtPieceSize = 10
  RtUnsealFails = TRUE
  RtStoreFails = FALSE
  RtMaxFaults = 2
  RtMaxAsks = 2
SPECIFICATION PaymentsSpec
INVARIANTS PaymentsTypeOK VouchersAreSound 
CHECK_DEADLOCK FALSE
