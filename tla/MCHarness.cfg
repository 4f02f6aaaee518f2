\* run_single's scenarios on four sectors per slot (a first, two middle and a
\* last sector of the swap), five random fails.
CONSTANTS
    N = 4
    RandomFails = 5
    Scenarios <- MCScenarios
SPECIFICATION Spec
INVARIANTS
    TypeOK
    ScenarioPasses
PROPERTIES
    ScenarioCompletes
\* run_single returns once its scenario is over (or the process panicked).
CHECK_DEADLOCK FALSE
