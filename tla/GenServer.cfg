SPECIFICATION Spec
CONSTANTS
  r1 = r1
  r2 = r2
  NoRef = NoRef
  Refs = {r1, r2}
  MailboxSize = 2
  MaxMessages = 4
  Others = {"cast", "stop"}
INVARIANTS AnswersTheirOwnCall NoResultLeak InOrder
PROPERTIES KeepsContract
