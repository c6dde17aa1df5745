\* One job or automatic save at a time, two power cuts, every fault.
SPECIFICATION Spec
CONSTANTS
    None = None
    kAttempts = 2
    Faults = {"task", "open", "header", "write", "silent", "remove", "rename", "hash"}
    SavesOverlap = FALSE
    MaxStarts = 2
    MaxResets = 2
 
PROPERTIES   JobEnds
