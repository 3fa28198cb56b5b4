SPECIFICATION Spec
CONSTANTS
    Dirs = {d1, d2}
    Silos = {s1}
    Ids = {i1, i2}
    Texts = {t1, t2}
    Models = {m1}
    Ops = {o1, o2}
    Limits = {1, 2}
    NoDir = NoDir
    Plain = Plain
INVARIANTS RecallExact EmbeddingsOwned RememberedKept
PROPERTY KeyedByDataDir
SYMMETRY Symmetry
