SPECIFICATION Spec
CONSTANTS
  served = served
  unserved = unserved
  unknown = unknown
  unaddressable = unaddressable
  on = on
  off = off
  wide = wide
  None = None
  Endpoint = {e1}
  Element <- Elements
  Addressable = {served, unserved, unknown}
  Known = {served, unserved}
  Served = {served}
  Fits <- Encodes
  Call = {k1}
  Client = {c1}
  Value = {on, off, wide}
  Wide = {wide}
INVARIANT CopyFollowsDevice
