SPECIFICATION LiveSpec
CONSTANTS
  w1 = w1  w2 = w2  p1 = p1
  Waiters <- TwoWaiters
  Posters <- OnePoster
  MaxJobs = 1
PROPERTIES SubmitWaitReturns
CHECK_DEADLOCK FALSE
