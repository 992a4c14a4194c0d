CONSTANTS
  e1 = e1  e2 = e2  m1 = m1  m2 = m2  r1 = r1  op = op
  Events <- MCEvents
  Emitters <- MCEmitters
  Relays <- MCRelays
  Operators <- MCOperators
  Offers <- MCOffers
  MaxFaults = 2
  ea = ea  eb = eb  ec = ec  shared = shared  own = own  alice = alice  bob = bob
  s1 = s1  s2 = s2  c1 = c1  c2 = c2  c3 = c3
  None = None
  RunEvents <- MCRunEvents
  Runs <- MCRuns
  Authors <- MCAuthors
  RunOf <- MCRunOf
  AuthorOf <- MCAuthorOf
  Calls <- MCCalls
  Stores <- MCStores
  Deliveries <- AllDeliveries
  BatchLimit = 2
  MaxTries = 2
  MaxLosses = 1
SPECIFICATION MCSpec
INVARIANTS
  NoEventVanishes
  RowsFollowEdges
  AnswersAreTheirOwn
PROPERTIES
  EventsSettle
  DeliveriesAreAnswered
