CONSTANTS
  MaxActions = 2
  p1 = p1
  p2 = p2
  card = card
  tab = tab
  Payloads <- MCPayloads
  Channels = {"dashboard", "meeting"}
  Chats = {"dashboard"}
  Buttons = {card, tab}
  None = None
  MaxCrashes = 2
  room = room
  hall = hall
  MaxJobs = 2
  Link <- MCLink
  Slots = {s1, s2}
  NoSlot = NoSlot
  MaxRequests = 1
  MaxRaces = 1
  MaxDeaths = 1
SPECIFICATION MCSpec
SYMMETRY Symmetry
INVARIANTS MeetTypeOK OneEffect AsOnRecord RefusedUntouched ApprovedOwned SlotsKept OneTask LiveRows QueueRows
PROPERTIES OutcomeFinal StaysSettled
CHECK_DEADLOCK FALSE
