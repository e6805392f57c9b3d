SPECIFICATION Spec
CONSTANTS
  Drivers = {d1, d2}
  Deliveries = {x1}
  Requests = {r1}
  NoDriver = NoDriver
  NoDelivery = NoDelivery
  MaxOffers = 2
  MaxManual = 1
SYMMETRY Symmetry
INVARIANTS LosersStayLosers
PROPERTIES DeadOffersStayDead
