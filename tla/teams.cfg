SPECIFICATION Spec
CONSTANTS
  a1 = a1
  w1 = w1
  w2 = w2
  t1 = t1
  t2 = t2
  Api = {a1}
  Worker = {w1, w2}
  Team = {t1, t2}
  None = None
  Gone = Gone
  Foundings = {"some"}
  Votes = {"reject"}
  BrokerFails = FALSE
  MaxRequests = 2
  MaxEvents = 1
INVARIANTS TypeOK RosterAgrees PolicyIsAgenda
PROPERTIES MinersFollow
CHECK_DEADLOCK FALSE
