SPECIFICATION FairSpec
CONSTANTS
  Byte = 4
  Characters = {"=", "&", "a", "b", "c", "d", "1", "2"}
  Symbols = {"nl", "--", "b", "boundary", "H", "K", "p", "x", "y", "a", "c", "d", "e", "f", "g", "h", "i"}
  BufferSize = 4
  BoundaryHeader = "boundary"
  Transports = {"FCGI", "SCGI", "HTTP", "CGI"}
  Headers <- MCHeaders
  Begins <- MCBegins
  Forms <- MCForms
  Documents <- MCDocuments
  Groups <- MCGroups
  Paddings = {0, 3}
  WriteSizes = {0, 15, 16, 31}
  ReadSizes = {3, 6}
CHECK_DEADLOCK FALSE
INVARIANTS FormTypeOK RecordsAsSent FieldsAsSent PartsAsSent
PROPERTY FormEnds
