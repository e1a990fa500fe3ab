SPECIFICATION Spec
CONSTANTS
    Links = {"link1", "link2"}
    Polls = {"tab1", "tab2", "tab3"}
    People = {"ann", "bob"}
    Adds = {"add1", "add2", "add3"}
    Deletes = {"del1", "del2"}
    Defaults = {"choose1", "choose2"}
    MaxRecipients = 2
    Groups = {"g", "h"}
    Products = {"p", "q"}
    Deletions = {"d1", "d2"}
    Saves = {"s1", "s2"}
    AwardSaves = {"both", "cid", "one"}
    NamesOf <- MCNamesOf
    QuantityOf <- MCQuantityOf
    ModeOf <- MCModeOf
    AwardOf <- MCAwardOf
    JarLinks = {"l1", "l2"}
    Touches <- MCTouches
    Sets <- MCSets
    Edits = {"less", "more"}
    ShariDeletes = {"cancel"}
    Quantity = 2
    Commands = {"salute", "toCeremony", "showAward", "showAgain"}
    OneOff = {"salute"}
    MaxPolls = 2
    MaxReloads = 1
    Updates = {"a", "b", "c", "d"}
    Types = {"c", "d"}
    FailuresBeforeAlert = 2
    BackoffSteps = 1
    MaxRestarts = 1
    Broadcasts = {"first", "second", "third"}
    Recipients = {"r1"}
    MaxAttempts = 2
    Forms = {"site", "order"}
    OnSite = {"site"}
    Grace = 2
    PendingLife = 1
    MaxTime = 4
    None = None
    Keep = Keep
INVARIANTS OneSession OneDefault CuratorsOnly OneOffsFireOnce SyncedShowsItsJar OneAtATime UsedFilesStay
PROPERTIES CertificatesStand LateAnswersIgnored
CHECK_DEADLOCK FALSE
