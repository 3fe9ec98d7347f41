CONSTANTS
    p1 = p1
    p2 = p2
    r1 = r1
    r2 = r2
    k = k
    m_producer_cv = m_producer_cv
    m_consumer_cv = m_consumer_cv
    nullopt = nullopt
    refused = refused
    empty_slot = empty_slot
    NoOwner = NoOwner
    Producer <- MCProducer
    Consumer <- MCConsumer
    Closer <- MCCloser
    Coro <- MCCoro
    Cv <- MCCv
    Loads <- CloseLoads
    SizeMax = 4
    Patient = TRUE
SPECIFICATION Spec
INVARIANTS
    ConsumersEnd
