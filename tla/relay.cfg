\* HTTP: up to two units per direction, one of the client's read with the request.
CONSTANTS
  MaxSent = 2
  MaxRead = 2
  Early = 1
  BufConn = TRUE
SPECIFICATION Spec
INVARIANTS TypeOK StreamsIntact CountsFinal
PROPERTIES OneEndsBoth EitherEndEnds
