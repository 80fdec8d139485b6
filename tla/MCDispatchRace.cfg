CONSTANTS
    i1 = i1
    r1 = r1
    r2 = r2
    None = None
    Items <- MCItems
    Resources <- MCResources
    Bookings = {b1}
    Agents <- MCAgents
    PatchStatuses <- MCPatchStatuses
    WorkTypes <- MCTypes
    Lives <- MCLives
    Capacity <- MCCapacity
    Eligible <- MCEligible
    DependsOn <- MCDependsOn
    MaxTokens = 0
    Charges <- MCCharges
    Named <- MCNone
    Opening <- MCOpening
    Deltas <- MCNone
SPECIFICATION ClientSpec
PROPERTY DispatchLeavesAssignedAlone
