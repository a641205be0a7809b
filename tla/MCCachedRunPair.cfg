CONSTANTS
    Procs = {p1, p2}
    Backends = {"gix"}
    Modes = {"use"}
    Boundaries = {complete, cut}
    Complete = complete
    b1 = b1
    b2 = b2
    m1 = m1
    m2 = m2
    Branches = {b1}
    Mains = {m1}
    Upstreams = {u1}
    Queries = {mergeBase}
    Persisted = {mergeBase}
    slot = slot
    gixFacts = gixFacts
    shellFacts = shellFacts
    Names = {slot, gixFacts}
    NameOf <- MCNameOf
    Miss = Miss
    MayReturn = {}
    MaxChanges = 2
SPECIFICATION Spec
CONSTRAINT Ungrafted
SYMMETRY Exchangeable
INVARIANTS StoreSound ReusedWasLive
