SPECIFICATION Spec
CONSTANTS
    Endpoint = {1, 2, 3, 4, 5}
    Conn = {1, 2, 3, 4, 5, 6}
    Owner <- MCOwner
    Servers = {5}
    Pinging = {1, 2, 3, 4, 5}
    NoConn = 0
    Clients = {1, 2, 3}
    NoClient = 0
    Callers = {"c1", "c2"}
    MaxCalls = 2
    Messenger = 4
    Senders = {"s1", "s2"}
    Ids = {101, 102}
    MaxSends = 2
INVARIANTS TypeOK OnePing NoClientLeaks SilentAfterStop
           PromiseOwned DiesOnlyOfDuplicates
PROPERTIES ConnectionsEnd FallbackFollows
           EveryRequestReturns ReplyFresh
CHECK_DEADLOCK FALSE
