CONSTANTS
  K = 4
  Owner = owner
  NoWork = NoWork
  Nobody = Nobody
  owner = owner
  w1 = w1  w2 = w2  w3 = w3  w4 = w4  w5 = w5
  t1 = t1  
  M = 2
  MaxCount = 2
  Thieves = {t1}
  Uses <- AllUses
  Works = {w1, w2, w3, w4, w5}
SYMMETRY Sym
SPECIFICATION Spec
INVARIANTS SlotExclusion Contiguous LooksLarger
PROPERTIES RefusesWhenFull
