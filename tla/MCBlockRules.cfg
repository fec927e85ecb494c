CONSTANTS
    COIN = 4
    PEAK = 4
    RAMP = 3
    QUARTER = 4
    nPastBlocksMin = 2
    nPastBlocksMax = 3
    WORK_TARGET_SPACING = 10
    STAKE_TARGET_SPACING = 4
    nTargetSpacingWorkMax = 15
    nPoWSwitchHeight = 1
    SwitchSpan = 1
    OldProofOfWorkLimit = 2500
    NewProofOfWorkLimit = 4000
    InitialPoSTarget = 1100
    CompactBase = 16
    nMedianTimeSpan = 3
    nMaxClockDrift = 5
    nPoSMinHeight = 2
    Gap <- GapValues
    Fee = {0, 3}
    Unclaimed = {0, 2}
    StakeReward <- StakeValues
    Scheduled <- Sums
    MaxBlocks = 7
SPECIFICATION Spec
INVARIANTS LedgerBalances SupplyBounded TargetFollowsTime
PROPERTY MedianAdvances
CHECK_DEADLOCK FALSE
