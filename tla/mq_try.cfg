CONSTANTS
  NoValue = NoValue
  Nobody = Nobody
  p1 = p1  p2 = p2  p3 = p3  p4 = p4
  v1 = v1  v2 = v2
  Capacity = 2
  MaxTicket = 3
  Procs = {p1, p2, p3, p4}
  Uses <- TryUses
  Values = {v1, v2}
SYMMETRY Sym
SPECIFICATION Spec
INVARIANTS TypeOK NoTwoInSlot Delivery
PROPERTIES ImplementsMailbox
