--------------------------- MODULE LastKnownGood ---------------------------
(***************************************************************************)
(* What the watcher's policy client promises the data plane: the policy in *)
(* force is, at every moment, one whole version that the hub answered with *)
(* and that loads; it is replaced in one step; nothing but another whole   *)
(* version, or a restart of the process, ever takes it away.               *)
(*                                                                         *)
(* WatcherHub implements this with seven separate attribute writes.  The   *)
(* promise is the docstring of _poll_bundle ("keeps last-known-good on any *)
(* network/compile error").                                                *)
(***************************************************************************)
CONSTANTS
    None,        \* no version yet, or no answer in hand
    Version,     \* the versions the hub can publish
    Policy,      \* Policy[v]: the policy version v stands for; Policy[None]
                 \* is the policy of a watcher that has none
    Good         \* the versions whose rules compile

VARIABLES
    published,   \* the version the hub answers with now
    answered,    \* a version the watcher is about to install, or None
    installed,   \* the version in force
    policy       \* the policy in force

vars == <<published, answered, installed, policy>>

Init == /\ published \in Version
        /\ answered = None
        /\ installed = None
        /\ policy = Policy[None]

Publish == /\ published' \in Version
           /\ UNCHANGED <<answered, installed, policy>>

\* A version that does not load is never taken up.
Answer == /\ answered = None
          /\ published \in Good \ {installed}
          /\ answered' = published
          /\ UNCHANGED <<published, installed, policy>>

Install == /\ answered # None
           /\ policy' = Policy[answered]
           /\ installed' = answered
           /\ answered' = None
           /\ UNCHANGED published

Restart == /\ answered' = None
           /\ installed' = None
           /\ policy' = Policy[None]
           /\ UNCHANGED published

Next == Publish \/ Answer \/ Install \/ Restart

Spec == Init /\ [][Next]_vars
=============================================================================
