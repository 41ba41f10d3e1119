SPECIFICATION Spec
CONSTANTS
  Nets = {n1, n2}
  Ports = {p1, p2}
  NoPort = NoPort
  Nobody = Nobody
  Outsider = Outsider
INVARIANT UniquePorts
