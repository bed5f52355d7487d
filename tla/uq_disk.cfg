\* A disk port polled between two instructions of the guest, started with any words.
SPECIFICATION FairSpec
CONSTANTS
  Tape = FALSE
  DualCore = FALSE
  QuietReset = TRUE
  PollBudget = 1
  CmdSlots = 2
  RspSlots = 2
  Units = {0}
  Attached = {0}
  Ops = {"onl", "avl", "rd", "void"}
  SaWords <- MCSaAll
  MaxCmds = 3
  MaxResets = 1
INVARIANTS CreditsConserved AnswersWaiting NoForgottenCommand
PROPERTIES CommandAnswered
CHECK_DEADLOCK FALSE
