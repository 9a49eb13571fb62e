CONSTANTS
  v1 = v1  v2 = v2  v3 = v3
  Zero = Zero  Unset = Unset  NULL = NULL  Thrown = Thrown  Failed = Failed
  NativeSize = NativeSize  NativeKeys = NativeKeys
  Names = {"this", "e", "o", "y", "f", "g", "s", "size", "keys", "print"}
  MAP_BAG_SIZE = 10
  Hash <- MCHash
  Values <- MCValues
  Class = "K"
  Params <- MCParams
  Variables <- MCVariables
  Nested <- MCNested
  Private = {"o"}
  Natives = {"print"}
  ShadowedThis = FALSE
  Assignable = {"e", "o", "y", "f", "g", "s"}
  OutsideWrites = {"e", "s"}
  MaxContexts = 4
  PropertyNames = {"e", "o", "y", "size", "keys"}
  Scalars = {v1, v2}
  MaxSets = 3
SPECIFICATION MCSpec
INVARIANTS ThisIsTheObject
CHECK_DEADLOCK FALSE
