\* Two values per section; three hours and two volumes; three generations; one
\* client at two doors; a web tree of two files, one of them in the folder;
\* one query and one reset of the statistics.
SPECIFICATION Spec
CONSTANTS
    Value = {0, 1}
    Default = 0
    Touched <- SomeTouched
    MaxHour = 2
    MaxRun = 3
    Client = {"phone"}
    Door = {"http", "https"}
    Limits <- SomeLimits
    Entrance = {"http", "https"}
    Path = {"index", "dropped"}
    Folder = {"index"}
    MaxCount = 1
    MaxResets = 1
INVARIANTS SettingsKept AnswerIsOwn GuessesBounded UpdatesSafe 
PROPERTIES EveryoneIsAnswered
CHECK_DEADLOCK FALSE
