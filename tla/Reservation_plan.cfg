SPECIFICATION Spec
CONSTANTS
    Tuners <- TwoTuners
    TypeOf <- SharedTypeOf
    Programs = {1, 2, 3, 4}
    ServiceOf <- OwnServices
    PhysicalOf <- SharedPhysicalOf
    EpgSlots <- SharedSlots
    Rules = {1, 2}
    InitialRules = {1, 2}
    TimeRules = {}
    RulePrograms <- SharedRulePrograms
    RuleTimes <- NoPrograms
    NameMatches <- NoPrograms
    AvoidDuplicate = {}
    TimeSlots <- NoSlots
    RelayCalls = {c1}
    RelayTargets = {4}
    Refreshers = {u1}
    Limits <- SharedLimits
INVARIANTS
    PlanFits
CHECK_DEADLOCK FALSE
