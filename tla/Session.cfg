SPECIFICATION FairSpec
CONSTANTS
  Supported <- Versions
  RequestsAfterPacks = FALSE
  MaxExtra = 2
INVARIANTS TypeOK ServerUnderstands ClientUnderstands NoMissingID AnswersMatch JoinAgreement
CHECK_DEADLOCK FALSE
PROPERTIES FollowsPhases Returns
