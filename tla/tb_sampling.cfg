CONSTANTS
  Sensor = {1, 2}
  Slots = 2
  Conversion = 2
  Needs = 2
  Sample = 4
  MaxBlock = 2
  MaxGap = 1
  MaxPlugs = 2
SPECIFICATION Spec
INVARIANTS TypeOK FreshReadings SensorsReported
