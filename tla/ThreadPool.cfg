\* A pool whose queue has room for every task.
CONSTANTS
    Workers = {w1, w2}
    Tasks = {a, b}
    MaxQueueSize = 2
    None = None
SPECIFICATION Spec
PROPERTY TasksAreRun
CHECK_DEADLOCK FALSE
