SPECIFICATION Spec
CONSTANTS
    MaxInputs = 2
    Values = {1, 2}
    Outs = {0, 1, 3}
    Changes = {2}
    Word = 4
    None = None
INVARIANTS
    FeeIsTrue
    SummaryTrue
    AntiExfil
    AnswersMatch
