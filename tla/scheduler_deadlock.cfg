\* As many concurrent storage tool calls as the tool channel, the tool worker and the
\* dispatcher together can hold.
CONSTANTS
    a1 = a1
    a2 = a2
    c1 = c1
    c2 = c2
    c3 = c3
    ToolThread = toolThread
    Agents <- MCAgents
    Clients <- MCClients
    Owner <- MCOwner
    Kinds = {"storage_write"}
    Priorities = {1}
    MainCap = 2
    LlmCap = 1
    ToolCap = 1
    MemCap = 1
    MaxCalls = 1
SPECIFICATION Spec
INVARIANT NoCircularWait
