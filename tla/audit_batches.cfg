\* Batches of two events, two deliveries each; a publisher with two exchanges
SPECIFICATION TrailSpec
CONSTANTS
    Events = {e1, e2}
    BatchSize = 2
    Prefetch = 2
    DeliveryLimit = 1
    ExchangeNames <- MCExchanges
INVARIANTS TrailTypeOK AckedIsLogged OneRowPerDelivery SetupComplete
PROPERTIES AuditPromise BatchesSettle PublishingReturns
