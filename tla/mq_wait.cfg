CONSTANTS
  NoValue = NoValue
  Nobody = Nobody
  p1 = p1  p2 = p2  p3 = p3  p4 = p4
  v1 = v1  v2 = v2
  Capacity = 2
  MaxTicket = 4
  Procs = {p1, p2, p3}
  Uses <- AllUses
  Values = {v1}
SPECIFICATION FairSpec
PROPERTIES TicketsMeet Progress
CHECK_DEADLOCK FALSE
