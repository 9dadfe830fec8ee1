SPECIFICATION DhcpSpec
CONSTANTS
  Mac = {"m1", "m2"}
  Address = {1, 2}
  Reservations <- NoReservation
  LeaseTime = 2
  MaxStarts = 1
  MaxRevocations = 0
INVARIANT AddressesDistinct
