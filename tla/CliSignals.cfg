\* A signal while a --rm session is attached.
SPECIFICATION CliSpec
CONSTANTS
    x = x
    CtrlB = CtrlB
    D = D
    Other = {x}
    MaxRead = 1
    MaxTyped = 1
\* The process ends: nothing is left to do.
CHECK_DEADLOCK FALSE
INVARIANTS
    RmSurvivesSignals
