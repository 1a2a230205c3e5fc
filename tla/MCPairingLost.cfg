SPECIFICATION Spec
CONSTANTS
  a = a
  b = b
  c = c
  Agents = {a, b, c}
  Dials <- TwoClients
  TlsOn = {}
  Asks = {}
  Paired <- Nobody
  MaxFaults = 0
PROPERTIES
  NeverForgotten
