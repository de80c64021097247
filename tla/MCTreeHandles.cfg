\* Two Tree handles of one name, two values, deletion and re-creation.
CONSTANTS
    Handles = {h1, h2}
    Vals = {v1, v2}
    NoValue = NoValue
    MaxStates = 3
    MaxFiles = 3
    MaxDeletes = 2
SPECIFICATION Spec
INVARIANT MapStateMatchesFile
SYMMETRY HandleSymmetry
