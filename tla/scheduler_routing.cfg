\* Routing of every kind of syscall through channels at their limits, and the queues
\* and the order of the LLM calls: two callers of one agent, one of another, two priorities.
CONSTANTS
    a1 = a1
    a2 = a2
    c1 = c1
    c2 = c2
    c3 = c3
    ToolThread = toolThread
    Agents <- MCAgents
    Clients <- MCClients
    Owner <- MCOwner
    Kinds = {"llm_defs", "storage_read", "get_defs", "memory"}
    Priorities = {1, 2}
    MainCap = 2
    LlmCap = 1
    ToolCap = 2
    MemCap = 1
    MaxCalls = 1
SPECIFICATION FairSpec
INVARIANTS TypeOK OrderMatchesQueues ExactlyOnePlace NoCircularWait
PROPERTIES OvertakenOnlyByHigher AgentsKeepTheirTurn EveryCallAnswered
