SPECIFICATION FairSpec
CONSTANTS
  EnterMode = TRUE
  MailboxSize = 1
  MaxEvents = 3
  MaxChanges = 2
  MaxEnters = 1
  MaxTimers = 2
  Watched = {FALSE}
  Scopes = {"state", "beat"}
INVARIANTS EnterComesFirst TimersInHand
PROPERTIES ImplementsQueue SettledMachineDrains
