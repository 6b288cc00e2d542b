SPECIFICATION Spec
CONSTANTS
    MaxInputs = 2
    MaxOutputs = 2
    Records = {r1, r2}
    Greens = {g1, g2}
    Lengths = {1, 2, 5}
    Chunk = 2
    None = None
INVARIANTS
    HiddenIsChange
    Agreed
    Whole
