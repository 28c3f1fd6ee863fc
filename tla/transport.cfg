SPECIFICATION FairTransport
CONSTANTS
  Tasks = {t1, t2}
  Attempts = 2
  MaxTokens = 3
INVARIANT TransportTypeOK LoginIsShared TokenIsNewest RefusedWithTwoTokens
PROPERTY CallsEnd
