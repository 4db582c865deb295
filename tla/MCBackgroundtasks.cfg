\* Roll-over after 8 ticks, frames of one or two ticks.
CONSTANTS
  Callbacks = {"poll", "watch"}
  Period <- MCPeriod
  Startups = {"synchronization"}
  Enqueues <- MCEnqueues
  Startthread = "thread"
  Main = "main"
  Others = {"plugin"}
  Background = "background"
  Nobody = "nobody"
  Modulus = 8
  FrameMS = 1
  MaxFrame = 2
  MaxCalls = 1
SPECIFICATION FairSpec
INVARIANTS TypeOK Punctual
PROPERTIES NoChangeWhileIterating NeverEarly TerminationHappens CallsReturn
CHECK_DEADLOCK FALSE
