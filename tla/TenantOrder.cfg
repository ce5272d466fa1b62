SPECIFICATION TenantSpec
CONSTANTS
    Agent = Agent
    Gateway = Gateway
    UseCaseIds = {Agent, Gateway}
    AgentKey = AgentKey
    GatewayKey = GatewayKey
    NoKey = NoKey
    Events = {e1}
    Requests = {AgentKey, GatewayKey, r1, r2}
    MaxAttempts = 1
    GetAnswers = FALSE
    Faults <- None
    Mishaps <- None
SYMMETRY Symmetry
\* The system rests when every event has been handled.
CHECK_DEADLOCK FALSE
INVARIANT GatewayGoneFirst
