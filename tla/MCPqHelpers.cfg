CONSTANTS
  LC_HQC_PARAM_M = 8
  LC_HQC_PARAM_GF_POLY = 285
  LC_HQC_PARAM_GF_POLY_WT = 5
  LC_HQC_PARAM_GF_POLY_M2 = 4
  OPT_BLOCKER = 0
  LC_SPX_WOTS_LOGW = 4
  LC_SPX_WOTS_LEN1 = 2
  LC_SPX_WOTS_LEN2 = 3
  Garbage = Garbage
  GfOperandsA = {0, 1, 2, 3, 7, 29, 83, 128, 142, 200, 254, 255}
  GfOperandsB <- MCGfOperandsB
  CmovBytes <- MCCmovBytes
  CmovInt16s <- MCCmovInt16s
  CmovUint32s <- MCCmovUint32s
  TreeHeights = {0, 1, 2, 3}
  OffsetTrees = {0, 1}
  WotsSigned <- MCWotsSigned
  WotsClaimed <- MCWotsClaimed
  NoFailure = 1000
  SpxNs = {16, 24, 32}
  SpxAddrs <- MCSpxAddrs
SPECIFICATION Spec
INVARIANT TypeOK
INVARIANT GfMulCorrect
INVARIANT GfInverseCorrect
INVARIANT CmovSelects
INVARIANT TreehashMatchesMerkle
INVARIANT WotsVerifiesExactly
INVARIANT PrfAddrx2MatchesPrfAddr
INVARIANT HqcSelftestVerdict
\* a behaviour is one helper call
CHECK_DEADLOCK FALSE
