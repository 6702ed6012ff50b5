CONSTANTS
    Categories <- MCCategories
    Actions <- MCActions
    NameHits <- MCNameHits
    CategoryHits <- MCCategoryHits
    ActionHits <- MCActionHits
    NoSearch = "none"
    Numbers = {5}
    Texts = {"zero"}
    IntRange = 4
    Memories = {0, 2}
    Pids = {1, 2}
    MaxJobs = 2
    MaxRuns = 3
SPECIFICATION Spec
INVARIANTS StateRight
PROPERTIES OpensWhatIsLit WithinMemory Collected
CHECK_DEADLOCK FALSE
