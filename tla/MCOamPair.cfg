\* Two ends, fibres of two frames, two restarts: enough for an end to restart
\* while its claim of stability is still on the line, and again afterwards.
SPECIFICATION Spec
CONSTANTS
    EvaluatingPdus = 2
    End = {olt, onu}
    Depth = 2
    MaxRestarts = 2
INVARIANTS
    WordsAreBacked
    ConvergedOnLastWord
PROPERTIES
    BothConverge
