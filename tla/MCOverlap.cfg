SPECIFICATION ProxySpec
CONSTANTS
    None = None
    Failure = Failure
    Hang = Hang
    v_off = v_off
    v_open = v_open
    v_flag = v_flag
    v_enforce = v_enforce
    t_flag = t_flag
    t_enforce = t_enforce
    sam = sam
    eve = eve
    bot = bot
    guard = guard
    dev = dev
    ops = ops
    tok = tok
    jwt = jwt
    k1 = k1
    k2 = k2
    a1 = a1
    c1 = c1
    f1 = f1
    f2 = f2
    Conn = {c1}
    Flow = {f1, f2}
    Version <- MCOverlapVersion
    Bundle <- MCBundle
    compile_rules <- MCcompile_rules
    GuardIdentity <- MCGuardIdentity
    Call <- MCOverlapCall
    Cred <- MCCred
    Verdict <- MCVerdict
    Command = {}
    MaxCommands = 0
    MaxRestarts = 0
INVARIANTS
    RecordedAsJudged
PROPERTIES
    PinStays
SYMMETRY MCFlows
CHECK_DEADLOCK FALSE
