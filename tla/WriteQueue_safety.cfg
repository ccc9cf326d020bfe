SPECIFICATION LiveSpec
CONSTANTS
  w1 = w1  w2 = w2  p1 = p1
  Waiters <- TwoWaiters
  Posters <- OnePoster
  MaxJobs = 4
INVARIANTS TypeOK RunsInOrder PromiseAlive NothingStranded
PROPERTIES InitializedWaitReturns DestructorReturns
CHECK_DEADLOCK FALSE
