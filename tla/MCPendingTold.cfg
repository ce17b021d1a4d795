CONSTANTS
  MaxActions = 1
  p1 = p1
  p2 = p2
  card = card
  tab = tab
  Payloads <- MCPayloads
  Channels = {"dashboard", "meeting"}
  Chats = {"dashboard"}
  Buttons = {card}
  None = None
  MaxCrashes = 1
SPECIFICATION Spec
SYMMETRY PayloadSymmetry
INVARIANTS ToldDone
CHECK_DEADLOCK FALSE
