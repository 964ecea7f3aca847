CONSTANTS
    w1 = w1
    r1 = r1
    r2 = r2
    s1 = s1
    c1 = c1
    Workflows = {w1}
    Runs = {r1, r2}
    Starters = {s1}
    AppLoop = AppLoop
    Cancellers = {c1}
    MaxNodes = 1
    MaxCrashes = 1
    NoWorkflow = NoWorkflow
    NoRun = NoRun
SPECIFICATION Spec
INVARIANTS SingleActiveRun
CHECK_DEADLOCK FALSE
