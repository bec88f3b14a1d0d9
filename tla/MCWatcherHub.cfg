SPECIFICATION FairSpec
CONSTANTS
    None = None
    Failure = Failure
    Hang = Hang
    v_monitor = v_monitor
    v_flag = v_flag
    v_enforce = v_enforce
    v_bare = v_bare
    v_broken = v_broken
    v_hang = v_hang
    r_flag = r_flag
    r_enforce = r_enforce
    r_broken = r_broken
    r_hang = r_hang
    c_flag = c_flag
    c_enforce = c_enforce
    c_bare = c_bare
    sam = sam
    eve = eve
    bot = bot
    Version <- MCVersion
    Bundle <- MCBundle
    compile_rules <- MCcompile_rules
    GuardIdentity <- MCGuardIdentity
    Command = {"fetch", "prune"}
    MaxCommands = 1
    MaxRestarts = 1
INVARIANTS
    TypeOK
    AppliedInOrder
PROPERTIES
    NeverReverts
    EnforceWithItsRules
    ImplementsLastKnownGood
    Converges
    IdentityConverges
CHECK_DEADLOCK FALSE
