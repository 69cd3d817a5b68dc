SPECIFICATION FairSpec
CONSTANTS
    Records = {r1, r2}
    Bodies = {b1}
    NoBody = NoBody
    NoRev = NoRev
    Readers = {d1}
    Writers = {d2}
    Nobody = Nobody
    PageLimit = 1
    MaxBatch = 2
    MaxSeq = 2
PROPERTIES
    CallsEnd
    PushIsAtomic
