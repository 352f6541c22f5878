\* Every input once.
CONSTANTS
  MaxInt = 8800
  Literals <- MCLiterals
  Texts <- MCTexts
  Hellos <- MCHellos
  Datagrams <- MCDatagrams
SPECIFICATION Spec
INVARIANTS PortsAsMeant SniffSound ReadersAgree ForwardedAsSent
\* An input is parsed once.
CHECK_DEADLOCK FALSE
