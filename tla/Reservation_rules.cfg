SPECIFICATION Spec
CONSTANTS
    Tuners <- TwoTuners
    TypeOf <- MCTypeOf
    Programs = {1, 2}
    ServiceOf <- OwnServices
    PhysicalOf <- MCPhysicalOf
    EpgSlots <- RulesSlots
    Rules = {1, 2, 3}
    InitialRules = {1, 3}
    TimeRules = {3}
    RulePrograms <- RulesPrograms
    RuleTimes <- RulesTimes
    NameMatches <- NoPrograms
    AvoidDuplicate = {2}
    TimeSlots <- RulesSlotsAsked
    RelayCalls = {c1}
    RelayTargets = {2}
    Refreshers = {u1}
    Limits <- RulesLimits
INVARIANTS
    NoOrphanRows
    SkipIsPerProgram
    OneRulePlansProgram
PROPERTIES
    DecisionsKept
    ManualRowsKept
CHECK_DEADLOCK FALSE
