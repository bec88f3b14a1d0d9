---------------------------- MODULE MCWatcherHub ----------------------------
(***************************************************************************)
(* WatcherHub on a small hub: a passive bundle, a flagging one, two that   *)
(* enforce (one without credentials), one whose rules do not compile and   *)
(* one whose compilation never ends.                                       *)
(***************************************************************************)
EXTENDS WatcherHub

CONSTANTS v_monitor, v_flag, v_enforce, v_bare, v_broken,
          v_hang, r_flag, r_enforce, r_broken, r_hang, c_flag, c_enforce, c_bare,
          sam, eve, bot

MCVersion == {v_monitor, v_flag, v_enforce, v_bare, v_broken, v_hang}

MCcompile_rules == (r_flag :> c_flag) @@ (r_enforce :> c_enforce)
                   @@ (r_broken :> Failure) @@ (r_hang :> Hang)

Fields(m, z, s, p, j, a) == [mode |-> m, zpl |-> z, subjects |-> s,
                             proxy_auth |-> p, jwks |-> j, audience |-> a]

\* v_monitor still carries rules, which a passive mode ignores; v_bare
\* enforces nothing and leaves every optional field out.
MCBundle ==
    (v_monitor :> Fields(None, r_broken, None, sam :> bot, None, None)) @@
    (v_flag    :> Fields("flag", r_flag, sam :> "dev", sam :> bot, sam :> "k1", sam)) @@
    (v_enforce :> Fields("enforce", r_enforce, sam :> "ops", eve :> bot, sam :> "k2", eve)) @@
    (v_bare    :> Fields("enforce", None, None, None, None, None)) @@
    (v_broken  :> Fields("enforce", r_broken, None, None, None, None)) @@
    (v_hang    :> Fields("flag", r_hang, None, None, None, None))

MCGuardIdentity == {[subject |-> sam, agent |-> bot],
                    [subject |-> eve, agent |-> bot],
                    [subject |-> None, agent |-> None]}
=============================================================================
