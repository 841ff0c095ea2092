SPECIFICATION FairSpec
CONSTANTS
    Threads = {t1, t2}
    Handlers = {h0, h1, h2}
    DefaultHandler = h0
    Limits = {1, 2}
    MaxEntries = 3
    MaxHandlers = 3
    Nobody = Nobody
INVARIANTS
    IInv
PROPERTIES
    EveryHandlerGetsIt
    TakenIsDelivered
