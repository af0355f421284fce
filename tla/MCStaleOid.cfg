SPECIFICATION Spec
CONSTANTS
    Objects = {o1, o2}
    Oids = {i1, i2}
    Careful = TRUE
    NoOid = none
    Nobody = nobody
    Application = application
SYMMETRY Symmetry
PROPERTY
    AnswersAreTrue
