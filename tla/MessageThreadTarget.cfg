\* The creator of a thread, or one who has stopped it, sends to it.
SPECIFICATION Spec
CONSTANTS
    t1 = t1
    t2 = t2
    c = c
    a = a
    b = b
    d = d
    self = self
    own = own
    p = p
    Threads = {t1, t2}
    Clients = {c}
    Msgs = {a, b, d, self, own, p}
    Target <- MCTarget
    Calls <- MCCalls
    Creator <- MCCreator
    Posted = {p}
    MayStop <- MCMayStop
    Clearable = {b}
    Nobody = Nobody
    AutoThread = AutoThread
INVARIANTS
    OnTarget
