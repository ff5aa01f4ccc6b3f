SPECIFICATION Spec
CONSTANTS
  r1 = r1  r2 = r2  r3 = r3
  TAS = TAS  DOH = DOH  IST = IST  MAD = MAD
  None = None
  Requests = {r1, r2, r3}
  Directory <- Dataset
  Words <- Strings
  Exact <- Code
  Prefix <- StartsAs
  Matches <- Contains
  MaxLimit = 2
  Traffic <- AnyCase
INVARIANTS
  AnswersAreComplete
  ExactCodeFirst
