SPECIFICATION Spec
CONSTANTS
    Records = {r1, r2}
    Bodies = {b1}
    NoBody = NoBody
    NoRev = NoRev
    Readers = {d1}
    Writers = {d2, d3}
    Nobody = Nobody
    PageLimit = 1
    MaxBatch = 1
    MaxSeq = 2
INVARIANTS
    TypeOK
    SeqsStampWrites
    
    AnswersAreCommitted
PROPERTIES
    RecordsMoveForward
SYMMETRY Symmetry
