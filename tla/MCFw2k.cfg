CONSTANTS
  Tcp = {t1, t2}
  Udp = {u1}
  Block = {t1, u1}
  MaxPorts = 2
  Addrs = {1, 2, 3}
  MaxIf = 2
  TickEvery = 2
  Ifaces = {i1, i2}
  MaxOps = 2
  MaxMoves = 2
  MaxFaults = 1
SPECIFICATION Spec
INVARIANT FiltersAsListed OneChoiceBehind OnIsInForce
PROPERTY NewAddressIsBound
