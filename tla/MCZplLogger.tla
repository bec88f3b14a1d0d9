---------------------------- MODULE MCZplLogger ----------------------------
(***************************************************************************)
(* ZplLogger beside a hub that publishes three bundles: a passive one with *)
(* no credentials, one that flags and one that enforces, each of the two   *)
(* with its own credentials, roles and rules.                              *)
(***************************************************************************)
EXTENDS ZplLogger, TLC

CONSTANTS v_off, v_open, v_flag, v_enforce, t_flag, t_enforce,
          sam, eve, bot, guard, dev, ops, tok, jwt, k1, k2, a1, c1, f1, f2

MCVersion == {v_off, v_flag, v_enforce}

\* A rule set is the set of <<subject or role, kind>> it allows.
MCcompile_rules == (t_flag :> {<<ops, "http">>, <<eve, "tool">>}) @@
                   (t_enforce :> {<<dev, "http">>, <<ops, "http">>, <<sam, "http">>,
                                  <<sam, "handshake">>})

\* A tools/call whose arguments are no object raises inside the check.
MCVerdict(rules, who, kind, call) ==
    IF kind = "tool" THEN "raise"
    ELSE IF <<who.subject, kind>> \in rules \/ <<who.roles, kind>> \in rules
    THEN "allow" ELSE "deny"

Fields(m, z, s, p, j, a) == [mode |-> m, zpl |-> z, subjects |-> s,
                             proxy_auth |-> p, jwks |-> j, audience |-> a]

MCBundle ==
    (v_off     :> Fields("monitor", None, None, None, None, None)) @@
    (v_open    :> Fields("flag", t_flag, None, None, k1 :> "key", a1)) @@
    (v_flag    :> Fields("flag", t_flag, sam :> ops,
                         tok :> [agent |-> bot, subject |-> sam, roles |-> None],
                         k1 :> "key", a1)) @@
    (v_enforce :> Fields("enforce", t_enforce, eve :> dev,
                         bot :> [agent |-> None, subject |-> eve, roles |-> ops],
                         k2 :> "key", None))

MCGuardIdentity == {[subject |-> sam, agent |-> guard]}

MCCall == {[sse |-> FALSE, frame |-> "none", oversize |-> FALSE],
           [sse |-> TRUE, frame |-> "tools/call", oversize |-> FALSE],
           [sse |-> TRUE, frame |-> "tools/call", oversize |-> TRUE]}

MCCred == {[kind |-> "static", token |-> tok, user |-> bot],
           [kind |-> "jwt", token |-> jwt, key |-> k1, aud |-> a1,
            user |-> bot, agent |-> None, subject |-> eve, roles |-> None]}

(* For the run with two requests under way at once: one bundle with        *)
(* credentials and one that asks for none, but has a key for a token; one  *)
(* kind of request.  Nothing in the system or the properties tells the two *)
(* flow ids apart.                                                         *)

MCOverlapVersion == {v_open, v_flag}
MCOverlapCall == {call \in MCCall : ~call.sse}
MCFlows == Permutations(Flow)
=============================================================================
