\* Two tasks where calls overlap, one where they do not.
SPECIFICATION Spec
CONSTANTS
    t1 = t1
    t2 = t2
    Task = {t1, t2}
    NoTask = NoTask
    Scenarios <- TwoScenarios
    EnabledAtOnce = 1
INVARIANTS TasksMatchStates 
 
