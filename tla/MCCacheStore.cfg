\* Without symmetry, which TLC cannot use for the liveness property.
CONSTANTS
    Procs = {p1, p2}
    k1 = k1
    k2 = k2
    factsKey = factsKey
    StateKey = recordKey
    ReportKey = recordKey
    Keys = {k1, k2, factsKey, recordKey}
    slot = slot
    recordFile = recordFile
    Names = {slot, recordFile}
    Slots = {slot}
    Values = {v, big}
    Large = {big}
    NameOf <- MCNameOf
    Temp = temp
    Miss = Miss
    Nobody = Nobody
SPECIFICATION FairSpec
INVARIANTS TypeOK TempIsOwn NeverTorn ClearedStaysClear
PROPERTIES IsAtomic LockIsReleased
