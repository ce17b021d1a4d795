CONSTANTS
  Tickets = {ticket}
  Threads = {thread}
  Items = {page}
  MaxGos = 1
  MaxRevs = 2
  Loop = loop
  Shells = {shell}
  None = none
  MaxFaults = 1
SPECIFICATION MCSpec
INVARIANTS TypeOK OneSession EventsAccounted
PROPERTIES EventGetsTurn
CHECK_DEADLOCK FALSE
