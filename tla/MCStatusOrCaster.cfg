SPECIFICATION Spec
CONSTANTS
  Vars = {v1, v2}
  Statics = {v1}
  None = None
  AnInt = AnInt
  Payloads = {p1}
  Slots = {w1, w2}
  NoObject = NoObject
  MaxHeld = 2
INVARIANTS TypeOK PayloadRefsExact StatusObjectsSound
PROPERTIES Transparent
