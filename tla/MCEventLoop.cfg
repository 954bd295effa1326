\* Two threads that take events, three events, two handlers.
CONSTANTS
  c1 = c1
  c2 = c2
  h1 = h1
  h2 = h2
  NoHandler = NoHandler
  Nobody = Nobody
  Consumers <- MCConsumers
  MaxEvents = 3
  MaxHandlers = 2
  Handlers <- MCHandlers
  Matches <- MCMatches
  Kind <- MCKind
SPECIFICATION FairLoopSpec
INVARIANTS NobodySleepsOverAnEvent DeliveredOnceInOrder CalledAsRegistered
PROPERTIES WaitReturns TakenIsDispatched
