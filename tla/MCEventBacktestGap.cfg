SPECIFICATION Spec
CONSTANTS
    Bars <- MCBars
    MaxBars = 3
    MaxPositions = 1
    RuleLists <- MCRuleLists
    Amount <- MCAmount
    Slip = 1
    Fee = 1
    Capital = 1000
INVARIANT GapsFillAtOpen
CHECK_DEADLOCK FALSE
