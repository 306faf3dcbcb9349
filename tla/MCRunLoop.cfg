SPECIFICATION FairSpec
CONSTANTS
  C2BMult = 1
  Half = 2
  MsrValues <- MCMsr
  Hid0Values <- MCHid0
  TimeValues <- MCTimes
  Setters = TRUE
INVARIANTS SleepsOnRequest ContextKept DecrementerExact ClockExact
PROPERTIES WakesAsDocumented DecrementerPrompt DozeEnds LineWakes
