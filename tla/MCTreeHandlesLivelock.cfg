\* A get through a Tree kept across delete_tree and re-creation.
CONSTANTS
    Handles = {h1, h2}
    Vals = {v1, v2}
    NoValue = NoValue
    MaxStates = 2
    MaxFiles = 2
    MaxDeletes = 1
SPECIFICATION Spec
PROPERTY GetTerminates
