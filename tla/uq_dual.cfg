\* A tape port with two units, polled by the other core; its SCC command schedules
\* attention messages, which share the response ring with the answers.
SPECIFICATION Spec
CONSTANTS
  Tape = TRUE
  DualCore = TRUE
  QuietReset = TRUE
  PollBudget = 2
  CmdSlots = 2
  RspSlots = 2
  Units = {0, 1}
  Attached = {0, 1}
  Ops = {"scc", "nxm", "void"}
  SaWords <- MCSaStart
  MaxCmds = 3
  MaxResets = 1
INVARIANTS AnswerAnnounced
PROPERTIES PortWritesOwnSlots ImplementsCommandPort
CHECK_DEADLOCK FALSE
