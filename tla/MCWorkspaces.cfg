SPECIFICATION Spec
CONSTANTS
  Monitors = {A, B}
  Fallback = Fallback
  Windows = {x, y}
  Specials = {special}
  MaxAsked = 2
  MaxUnplugs = 2
  MaxOrders = 2
  Ids = {1, 2, 3, 4, 5, 6, 7, 8}
  None = None
SYMMETRY Symmetry
INVARIANTS TypeOK ShowsItsOwn VisibleShown NothingLost FullscreenAgrees
PROPERTY ComesBack
