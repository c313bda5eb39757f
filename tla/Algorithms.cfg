CONSTANTS
    Graphs <- FourNodes
    EdgeLists <- FourNodesEdges
    Histories <- AllHistories
    Budgets <- SomeBudgets
    Lengths <- SomeLengths
    Keeps <- SomeKeeps
    Scripts <- AllScripts
SPECIFICATION Spec
INVARIANTS
    ShapesRight
    HistoriesKept
    UsageAdds
CHECK_DEADLOCK FALSE
