SPECIFICATION Spec
CONSTANTS
    Titles = {t1, t2}
    Names = {n1, n2}
    None = None
    Broken = Broken
    MaxTrouble = 1
SYMMETRY Symmetry
CONSTRAINT Unspoiled
CHECK_DEADLOCK FALSE
INVARIANTS StemsApart 
PROPERTIES SourceKeptUntilDecrypted TrackedIsKept ReorganizeLosesNothing
