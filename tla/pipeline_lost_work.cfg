SPECIFICATION FairSpec
CONSTANTS
  q1 = q1  q2 = q2  r1 = r1  e1 = e1
  NumChunks = 2
  Entities = {e1}
  MentionedIn <- MCMentionedIn
  Payloads <- MCPayloads
  Requests = {q1, q2}
  Runs = {r1}
  MaxRetries = 2
  Faults = {"worker"}
  MaxFaults = 1
  MaxIngests = 2
  Chars <- MCChars
  Header <- MCHeader
  Texts <- MCTexts
  MaxTokens = 1
  Budgets = {1, 2, 9}
PROPERTY CrashesLoseNoAdmitted
CHECK_DEADLOCK FALSE
