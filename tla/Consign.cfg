\* Two accounts, lots of two with half of them as tax, and any three orders put or writes failed: partial trades, rests, offline sides.
SPECIFICATION Spec
CONSTANTS
  None = None
  Account = {a1, a2}
  Lot = 2
  TaxUnit = 2
  Num = {2, 4, 6, 7}
  Price = {1, 3}
  Amount = {1}
  Gold = 3
  Money = 10
  Moved = {"gold"}
  MaxPack = 1
  MaxOrder = 3
SYMMETRY Sym
INVARIANTS
  TypeOK
  

  
CHECK_DEADLOCK FALSE
