CONSTANTS
    Workers = {w1, w2, w3}
    NumTasks = 3
    Jobs = {"Annika", "Buru", "Chuck"}
    PoolTasks = 4
    Nobody = Nobody
SPECIFICATION QueuesSpec
INVARIANTS NoTaskLost NoLostWakeups
PROPERTIES PoolIsFifo TasksRun
