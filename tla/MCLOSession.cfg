SPECIFICATION Spec
CONSTANTS
    Objects = {o1, o2, o3}
    Oids = {i1, i2}
    Careful = TRUE
    NoOid = none
    Nobody = nobody
    Application = application
SYMMETRY Symmetry
INVARIANTS
    TypeOK
    DescriptorsOwned
    CommitsItsOwn
PROPERTY
    ApplicationEndsItsOwn
