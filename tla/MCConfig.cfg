\* Every description of up to four constructors and every deployment, every
\* description of five constructors and a few.
SPECIFICATION Spec
CONSTANTS
    Names <- MCNames
    Deployments <- MCDeployments
    Good <- MCGood
    Refused <- MCRefused
    MaxCombinators = 5
CHECK_DEADLOCK FALSE
INVARIANTS StandInForAbsenceOnly OneRound DocumentExact MountedAnywhere
