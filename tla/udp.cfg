\* Two endpoints, two peers, two datagrams, answers up to twice.
CONSTANTS
  Sources = {s1, s2}
  Peers = {p4, p6}
  V4 = {p4}
  MaxSent = 2
  MaxCopies = 2
SPECIFICATION Spec
INVARIANTS TypeOK OwnAnswer NoMoreThanAsked ReportFinal
PROPERTY Ends
