SPECIFICATION Spec
CONSTANTS
  c1 = c1
  c2 = c2
  Client = {c1, c2}
  PhysPages = 6
  ReservedPages = 2
  MaxPages = 3
INVARIANTS KernelMemorySafe BitmapExact
PROPERTIES ImplementsOwnership
