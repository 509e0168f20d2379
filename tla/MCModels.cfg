CONSTANTS
  c1 = c1
  c2 = c2
  box = box
  Clients <- TwoClients
  Boxes <- OneBox
  Original = Original
  MaxTime = 2
  MaxEdits = 2
  MaxCalls = 3
SYMMETRY ClientsAlike
SPECIFICATION Spec
INVARIANTS
  TypeOK
  Fresh
PROPERTIES
  Reused
CHECK_DEADLOCK FALSE
