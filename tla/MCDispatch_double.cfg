SPECIFICATION Spec
CONSTANTS
  Drivers = {d1, d2}
  Deliveries = {x1}
  Requests = {r1, r2}
  NoDriver = NoDriver
  NoDelivery = NoDelivery
  MaxOffers = 2
  MaxManual = 0
PROPERTIES NoDoubleAssignment
