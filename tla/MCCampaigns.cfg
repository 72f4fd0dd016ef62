SPECIFICATION FairSpec
CONSTANTS
  RetryLimit = 2
  MaxFaults = 2
INVARIANTS
  MailCarriesRight
  ReportsAgree
PROPERTIES
  EveryRecipientSettles
CHECK_DEADLOCK FALSE
