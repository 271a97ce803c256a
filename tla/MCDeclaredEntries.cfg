CONSTANTS
  a = a  h = h  f = f  x = x  auto = auto  unset = unset
  Kinds = {"mount", "forward"}
  Identities = {a, h, f}
  Values = {x, auto, unset}
  Lists <- MCLists
  Base <- MCBase
  Drifts <- MCDrifts
  Unset = unset
  Chosen = auto
  Unmanaged = Unmanaged
SPECIFICATION Spec
INVARIANTS PinnedStays NoNeedlessEdit
PROPERTIES OthersKept EntriesAsDeclared DeclaredInEffect
