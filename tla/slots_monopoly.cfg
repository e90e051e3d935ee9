\* One slot, two clients with two overlapping requests each, asked again and again.
SPECIFICATION FairSpec
CONSTANTS
    alice = alice
    bob = bob
    carol = carol
    a1 = a1
    a2 = a2
    a3 = a3
    b1 = b1
    b2 = b2
    c1 = c1
    c2 = c2
    Clients = {alice, bob}
    Requests = {a1, a2, b1, b2}
    ClientOf <- PairsOf
    Slots = 1
    QueueDepthMultiplier = 4
    Reissued = {a1, a2, b1, b2}
PROPERTIES QueuedIsServed
CHECK_DEADLOCK FALSE
