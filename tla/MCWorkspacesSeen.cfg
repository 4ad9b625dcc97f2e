SPECIFICATION Spec
CONSTANTS
  Monitors = {A, B}
  Fallback = Fallback
  Windows = {x}
  Specials = {special}
  MaxAsked = 2
  MaxUnplugs = 2
  MaxOrders = 2
  Ids = {1, 2, 3, 4, 5, 6, 7, 8}
  None = None

PROPERTY SeenIsShown
