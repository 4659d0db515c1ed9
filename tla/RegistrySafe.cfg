\* Four transports, one with bad settings, and two routines that may close them.
CONSTANTS
    t1 = t1
    t2 = t2
    t3 = t3
    t4 = t4
    n1 = n1
    n2 = n2
    Transport = {t1, t2, t3, t4}
    Name = {n1, n2}
    NameOf <- MCNameOf
    None = None
    Bad = {t4}
    Closer = {r1, r2}
SPECIFICATION FairSpec
INVARIANTS RegistryInv UnlistedWhenClosed
PROPERTIES ImplementsAtomic NameFreed
CHECK_DEADLOCK FALSE
