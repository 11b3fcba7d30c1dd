SPECIFICATION HttpFairSpec
CONSTANTS
  Uris <- MCUris
  HeaderLines <- MCHeaderLines
  Body <- MCBody
  Default <- MCDefault
  HeaderCalls <- MCHeaderCalls
  MaxHeaders = 4
  MaxWrites = 2
  Modes = {"direct", "blocking"}
INVARIANTS HttpTypeOK BodyIntact ResponseAsWritten DeliveredBeforeClose
PROPERTY ResponseEnds
