SPECIFICATION Spec
CONSTANTS
  Admins = {a1}
  Drivers <- TwoDrivers
  Slots <- TwoSlots
  Static <- FirstStatic
  MayFail <- EachCallFails
INVARIANTS LInv ReadyOwnsSlot PluggedIsReady
PROPERTIES ReadyUntilRemoved NoOtherLeak
CHECK_DEADLOCK FALSE
