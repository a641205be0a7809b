CONSTANTS
    Procs = {p1}
    Backends = {"gix", "shell"}
    Modes = {"use", "refresh", "clear"}
    Boundaries = {complete, cut}
    Complete = complete
    b1 = b1
    b2 = b2
    m1 = m1
    m2 = m2
    Branches = {b1, b2}
    Mains = {m1, m2}
    Upstreams = {u1}
    Queries = {mergeBase, walk}
    Persisted = {mergeBase}
    slot = slot
    gixFacts = gixFacts
    shellFacts = shellFacts
    Names = {slot, gixFacts, shellFacts}
    NameOf <- MCNameOf
    Miss = Miss
    MayReturn = {}
    MaxChanges = 3
SPECIFICATION Spec
SYMMETRY Symmetry
INVARIANTS TypeOK StoreSound PublicationConfirmed
