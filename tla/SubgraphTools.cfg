SPECIFICATION Spec
CONSTANTS
    Nodes = {1, 2, 3}
    Callers = {1, 2, 3}
    max_entries = 1
    Shapes <- SomeShapes
    max_tool_iterations = 1
    allow_auto_exec = TRUE
    Tools = {"search", "shell"}
    Registered = {"search", "shell"}
    Permitted = {"search"}
    Quota = 4
    Estimate = 1
CHECK_DEADLOCK FALSE
INVARIANTS
    ToolsPermittedEverywhere
