CONSTANTS
  old = old
  None = None
  Legacy <- LegacyRequests
  MaxGeneration = 3
  MaxEpoch = 2
  MaxPage = 2
  MaxCalls = 2
  MaxRunning = 1
SPECIFICATION Spec
CONSTRAINT NotAllAtOnce
INVARIANTS TypeOK OneLiveResolve StoppedStaysStopped WorkIsWanted
PROPERTIES NewestIsServed PlaysWhatIsWanted
