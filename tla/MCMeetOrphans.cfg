CONSTANTS
  MaxJobs = 2
  room = room
  hall = hall
  Link <- MCLink
  Slots = {s1, s2}
  NoSlot = NoSlot
  MaxRequests = 1
  MaxRaces = 1
  MaxDeaths = 1
SPECIFICATION MeetSpec
CHECK_DEADLOCK FALSE
SYMMETRY Symmetry
INVARIANT OrphansInterrupted
