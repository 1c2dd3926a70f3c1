CONSTANTS
  Mac = {"m1", "m2"}
  Rack = {"r1", "r2"}
  Messages <- MCMessages
  MaxWaiting = 2
  MaxFaults = 2
SPECIFICATION Spec
INVARIANTS TypeOK OneRack
PROPERTIES StoredExactly KeepsServing
