SPECIFICATION Spec
CONSTANTS
    a1 = a1
    a2 = a2
    a3 = a3
    b1 = b1
    c1 = c1
    e1 = e1
    e2 = e2
    e3 = e3
    e4 = e4
    r1 = r1
    r2 = r2
    None = None
    Identifiers = {a1, a2, a3, b1, c1}
    Types = {"idref", "orcid", "id_hal_i"}
    Type <- TypeOf
    AlphabeticRank <- ByName
    Entities = {e1, e2, e3, e4}
    Known = {e1, e2}
    Registrations = {r1, r2}
    RowIds = {1, 2, 3, 4, 5, 6, 7, 8, 9, 10}
    MaxKnown = 4
    MaxSubmitted = 2
SYMMETRY Alike
INVARIANTS
    TypeOK
PROPERTIES
    OnePerTypeAlone
    FailsOnlyOverlapped
    AlignsAlone
CHECK_DEADLOCK FALSE
