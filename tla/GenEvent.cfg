SPECIFICATION Spec
CONSTANTS
  h1 = h1
  h2 = h2
  h3 = h3
  None = None
  Handlers = {h1, h2, h3}
  MaxRequests = 5
  Reused = FALSE
INVARIANTS EveryEventOnce OneLifeAtATime
SYMMETRY Alike
