SPECIFICATION FairSpec
CONSTANTS
  Requests = {r1, r2}
  OtherCallers = {loop}
  Keys = {k1}
  MaxReads = 2
INVARIANTS TypeOK OneReader
PROPERTIES AnswersForward 
