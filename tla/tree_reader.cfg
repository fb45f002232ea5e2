SPECIFICATION ReadFairSpec
CONSTANTS
  Readers = {r1, r2}
  Trees = {t1, t2}
  Others = {b1}
  Local = {t1, b1}
  None = None
  Error = Error
  MaxReads = 5
  MaxKills = 2
INVARIANTS
  AnswersAsked
  SessionInStep
PROPERTY ReadersAnswered
