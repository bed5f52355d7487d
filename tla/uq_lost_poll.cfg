\* The poll runs on the other core, outside the I/O lock.
SPECIFICATION Spec
CONSTANTS
  Tape = FALSE
  DualCore = TRUE
  QuietReset = TRUE
  PollBudget = 2
  CmdSlots = 2
  RspSlots = 2
  Units = {0}
  Attached = {0}
  Ops = {"onl"}
  SaWords <- MCSaStart
  MaxCmds = 2
  MaxResets = 1
INVARIANTS NoForgottenCommand
CHECK_DEADLOCK FALSE
