\* The agent and a refresh request pull at the same time.
SPECIFICATION FairSpec
CONSTANTS
    agent_loop = agent_loop
    r1 = r1
    Agent <- agent_loop
    Refresh <- OneRefresh
    MaxVersion = 2
    MaxRestarts = 1
    MaxEdits = 1
    MaxErrors = 1
INVARIANTS
    TypeOK
    RunsOneVersion
    CacheFollows
PROPERTIES
    OnlyForward
    Converges
