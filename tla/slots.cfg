\* Two slots, a queue of four, seven requests of three clients; one is asked again and again.
SPECIFICATION FairSpec
CONSTANTS
    alice = alice
    bob = bob
    carol = carol
    a1 = a1
    a2 = a2
    a3 = a3
    b1 = b1
    b2 = b2
    c1 = c1
    c2 = c2
    Clients = {alice, bob, carol}
    Requests = {a1, a2, a3, b1, b2, c1, c2}
    ClientOf <- SevenOf
    Slots = 2
    QueueDepthMultiplier = 2
    Reissued = {a1}
INVARIANTS TypeOK SlotsAccounted NoIdleSlot RotationConsistent
PROPERTIES QueuedIsServed EndedStaysEnded ImplementsPool
CHECK_DEADLOCK FALSE
