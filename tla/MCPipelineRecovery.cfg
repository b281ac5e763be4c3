SPECIFICATION Spec
CONSTANTS
    main = main
    ann = ann
    bob = bob
    Nobody = Nobody
    Branches = {main}
    Users = {ann, bob}
    Last = 5
    Branch <- MCBranch
    Status <- MCStatus
    Author <- MCAuthor
INVARIANTS
    TypeOK
    NoSpuriousRecovery
    OneRecoveryPerFailure
    NoRecoveryMissed
