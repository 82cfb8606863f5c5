CONSTANTS
  RegThreads = {t1, t2}
  RegNobody = nobody
  BankClients = {c1, c2}
  BankBunches = 3
  GainOffset = 1
  FirOffset = 1
  Axes = {0, 1}
  Gain = {0, 1}
  EnableInput <- MCEnableInput
  GainInput <- MCGainInput
  FirInput <- MCFirInput
  OutInput <- MCOutInput
  BunchInput <- MCBunchInput
  BankMaxOps = 2
  TextBunches = 3
  TextValues = {0, 1, 2}
  MaxTokens = 6
  None = None
  MmsBunches = 2
  MaxTurns = 5
  TurnWrap = 2
  Sample <- MCSample
  MaxSelections = 3
  PhaseOffset = 10
  MaxFirWrites = 3
SPECIFICATION MCSpec
INVARIANTS
  TypesOK
  RegistersCorrect
  BanksCorrect
  TextExact
  ConverterCorrect
  FirFollows
PROPERTIES
  StatisticsCorrect
CHECK_DEADLOCK FALSE
