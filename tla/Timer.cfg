SPECIFICATION FairSpec
CONSTANT MaxTime = 2
INVARIANT SleepsOnDeadline
PROPERTIES ExpiredTimerFires
