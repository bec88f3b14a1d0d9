----------------------------- MODULE WatcherHub -----------------------------
(***************************************************************************)
(* The watcher's reverse channel to the hub (zpl_proxy/hub.py): one daemon *)
(* thread that registers, polls for commands, polls for the policy bundle  *)
(* and sends a heartbeat, forever.  Nothing it writes is under a lock: the *)
(* proxy's event loop reads the same attributes while the thread is        *)
(* between two assignments, so every assignment to a shared attribute is a *)
(* step of its own.                                                        *)
(*                                                                         *)
(* The hub is external: it holds the published bundle and the guard's      *)
(* identity, both of which an administrator edits at any time, and it may  *)
(* answer any call, refuse it (a status other than 200) or fail it (the    *)
(* call or the parsing of its body raises).  An answer is fixed when the   *)
(* hub gives it.                                                           *)
(*                                                                         *)
(* A version stands for its content (the hub derives one from the other),  *)
(* and a version may be published again later, so no counter is kept.      *)
(***************************************************************************)
EXTENDS Naturals, Sequences, SequencesExt

CONSTANTS
    None,             \* Python's None; in a bundle, a field missing or falsy
    Failure,          \* compile_rules raised
    Hang,             \* compile_rules never returns (a set with a mark in it)
    Version,          \* versions the hub can publish
    Bundle,           \* Bundle[v]: the fields of the reply with version v
    compile_rules,    \* rule text -> compiled rule set, Failure or Hang
    GuardIdentity,    \* what the portal may hold: records of subject, agent
    Command,          \* kinds of queued commands the hub may hand out
    MaxCommands,      \* bound: commands handed out by one poll
    MaxRestarts       \* bound: crashes of the watcher process

Mode == {"monitor", "flag", "enforce"}
Guarding == {"flag", "enforce"}          \* the modes that evaluate requests
Networked == {"fetch", "tail"}           \* commands that upload, and may raise
EmptyMap == [x \in {} |-> x]             \* the falsy dict
Field == {"crs", "mode", "subjects", "proxy_auth", "jwks", "audience"}

ASSUME VersionAssumption == None \notin Version /\ Version # {}

ASSUME BundleAssumption ==
    \A v \in Version : /\ Bundle[v].mode \in Mode \cup {None}
                       /\ Bundle[v].zpl \in DOMAIN compile_rules \cup {None}

ASSUME CompileAssumption ==
    /\ Failure # None /\ Hang # None
    /\ None \notin DOMAIN compile_rules
    /\ \A t \in DOMAIN compile_rules : compile_rules[t] # None

ASSUME IdentityAssumption == None \notin GuardIdentity

ASSUME BoundAssumption == MaxCommands \in Nat /\ MaxRestarts \in Nat

-----------------------------------------------------------------------------
(* A bundle, as _poll_bundle reads it.                                      *)

Or(value, default) == IF value = None THEN default ELSE value

ModeOf(v) == Or(Bundle[v].mode, "monitor")

\* None: nothing to enforce.  A passive bundle's rules are not compiled at
\* all, so they cannot fail to.
RulesOf(v) == IF ModeOf(v) \in Guarding /\ Bundle[v].zpl # None
              THEN compile_rules[Bundle[v].zpl]
              ELSE None

Loadable(v) == RulesOf(v) \notin {Failure, Hang}

Unconfigured ==
    [f \in Field |-> CASE f \in {"crs", "audience"} -> None
                       [] f = "mode" -> "monitor"
                       [] OTHER -> EmptyMap]

\* The values _poll_bundle assigns for version v; None: those of __init__.
PolicyOf(v) ==
    IF v = None THEN Unconfigured
    ELSE [f \in Field |-> CASE f = "crs" -> RulesOf(v)
                            [] f = "mode" -> ModeOf(v)
                            [] f = "audience" -> Bundle[v].audience
                            [] OTHER -> Or(Bundle[v][f], EmptyMap)]

-----------------------------------------------------------------------------
VARIABLES
    published,        \* the hub: the version it answers with
    portal,           \* the hub: the guard's identity
    stop,             \* self._stop
    restarts,         \* crashes of the process so far
    pc,               \* where the thread is
    registered,       \* self._registered
    payload,          \* identity in the reply being read, or None
    todo,             \* commands of that reply still to be fulfilled
    reply,            \* version of the bundle in hand, or None
    subject, agent,   \* self.subject, self.agent
    policy,           \* self.crs, mode, subjects, proxy_auth, jwks, audience
    bundle_version    \* self._bundle_version

world == <<published, portal, stop, restarts>>
thread == <<pc, registered, payload, todo, reply>>
shared == <<subject, agent, policy, bundle_version>>
vars == <<world, thread, shared>>

\* The points at which a bundle is partly written: each names the attribute
\* assigned next.
Applying == Field \cup {"version"}

Label == {"top", "register", "regSubject", "regAgent", "poll", "pollSubject",
          "pollAgent", "command", "bundle", "hung", "heartbeat", "wait", "exit"}
         \cup Applying

Init == /\ published \in Version /\ portal \in GuardIdentity
        /\ stop = FALSE /\ restarts = 0
        /\ pc = "top" /\ registered = FALSE
        /\ payload = None /\ todo = <<>> /\ reply = None
        /\ subject = None /\ agent = None
        /\ policy = Unconfigured /\ bundle_version = None

Goto(from, to) == pc = from /\ pc' = to

\* A step of the thread that changes nothing but where it is.
Move(from, to) == /\ Goto(from, to)
                  /\ UNCHANGED <<world, registered, payload, todo, reply, shared>>

-----------------------------------------------------------------------------
(* The loop.  An exception anywhere inside a tick ends the tick.            *)

Tick == /\ pc = "top"
        /\ Move("top", IF stop THEN "exit"
                       ELSE IF registered THEN "poll" ELSE "register")

Wait == Move("wait", "top")

-----------------------------------------------------------------------------
(* Registration.  The flag is set before the body is parsed: a 200 with an  *)
(* unreadable body leaves the watcher registered and without an identity.   *)

RegisterOk == /\ Goto("register", "regSubject")
              /\ registered' = TRUE
              /\ payload' = portal
              /\ UNCHANGED <<world, todo, reply, shared>>

RegisterUnreadable == /\ Goto("register", "wait")
                      /\ registered' = TRUE
                      /\ UNCHANGED <<world, payload, todo, reply, shared>>

\* The call raises, or the hub refuses it.
RegisterFails == Move("register", "wait")

(* _set_identity, called on the reply to a registration and to every poll.  *)
(* A falsy field of the reply keeps the old value.                          *)

SetSubject(from, to) ==
    /\ Goto(from, to)
    /\ subject' = Or(payload.subject, subject)
    /\ UNCHANGED <<world, registered, payload, todo, reply, agent, policy,
                   bundle_version>>

SetAgent(from, to) ==
    /\ Goto(from, to)
    /\ agent' = Or(payload.agent, agent)
    /\ payload' = None
    /\ UNCHANGED <<world, registered, todo, reply, subject, policy,
                   bundle_version>>

SetIdentity == \/ SetSubject("regSubject", "regAgent")
               \/ SetAgent("regAgent", "poll")
               \/ SetSubject("pollSubject", "pollAgent")
               \/ SetAgent("pollAgent", "command")

-----------------------------------------------------------------------------
(* _poll_once.                                                              *)

\* Mutant: the identity is read at registration only.
PollKeepsIdentity(commands) ==
    /\ Goto("poll", "command")
    /\ todo' = commands
    /\ UNCHANGED <<world, registered, payload, reply, shared>>

PollOk(commands) == /\ Goto("poll", "pollSubject")
                    /\ payload' = portal
                    /\ todo' = commands
                    /\ UNCHANGED <<world, registered, reply, shared>>

PollRejected == Move("poll", "bundle")

\* The bundle is not polled in a tick whose command poll raised.
PollRaises == Move("poll", "wait")

\* The next command is fulfilled, its upload refused, or it is of a kind
\* this watcher does not know.  What prune does to the local stores is
\* outside this module; it catches its own exceptions.
CommandDone == /\ pc = "command" /\ todo # <<>>
               /\ todo' = Tail(todo)
               /\ UNCHANGED <<world, pc, registered, payload, reply, shared>>

\* An upload raises: the commands behind it and the bundle poll are lost to
\* this tick.
CommandRaises == /\ Goto("command", "wait")
                 /\ todo # <<>> /\ Head(todo) \in Networked
                 /\ todo' = <<>>
                 /\ UNCHANGED <<world, registered, payload, reply, shared>>

CommandsDone == todo = <<>> /\ Move("command", "bundle")

-----------------------------------------------------------------------------
(* _poll_bundle.  The version test and the compilation touch only what the  *)
(* thread alone writes, so they are one step with the answer.               *)

\* Mutant: the exception escapes the loop.
BundleKillsThread == Move("bundle", "exit")

BundleRaises == Move("bundle", "wait")

\* Mutant: a refused poll clears the policy.
BundleRejectedClears == /\ Goto("bundle", "heartbeat")
                        /\ policy' = Unconfigured
                        /\ UNCHANGED <<world, registered, payload, todo, reply,
                                       subject, agent, bundle_version>>

BundleRejected == Move("bundle", "heartbeat")

BundleUnchanged == published = bundle_version /\ Move("bundle", "heartbeat")

\* Mutant: crs is reset before the compilation is known to succeed.
CompileFailureClears ==
    /\ published # bundle_version
    /\ RulesOf(published) = Failure
    /\ Goto("bundle", "heartbeat")
    /\ policy' = [policy EXCEPT !["crs"] = None]
    /\ UNCHANGED <<world, registered, payload, todo, reply, subject, agent,
                   bundle_version>>

CompileFails == /\ published # bundle_version
                /\ RulesOf(published) = Failure
                /\ Move("bundle", "heartbeat")

\* The parser loops: the thread has no further step until the process is
\* started again.
CompileHangs == /\ published # bundle_version
                /\ RulesOf(published) = Hang
                /\ Move("bundle", "hung")

\* Mutant: the compilation failure is not noticed.
BundleTaken == /\ Goto("bundle", "crs")
               /\ published # bundle_version
               /\ reply' = published
               /\ UNCHANGED <<world, registered, payload, todo, shared>>

BundleLoads == /\ Goto("bundle", "crs")
               /\ published # bundle_version
               /\ Loadable(published)
               /\ reply' = published
               /\ UNCHANGED <<world, registered, payload, todo, shared>>

Write(f, to) == /\ Goto(f, to)
                /\ policy' = [policy EXCEPT ![f] = PolicyOf(reply)[f]]
                /\ UNCHANGED <<world, registered, payload, todo, reply, subject,
                               agent, bundle_version>>

WriteVersion == /\ Goto("version", "heartbeat")
                /\ bundle_version' = reply
                /\ reply' = None
                /\ UNCHANGED <<world, registered, payload, todo, subject, agent,
                               policy>>

\* Mutant: the mode is set before the rules.
ModeFirst(f) == CASE f = "crs" -> "mode" [] f = "mode" -> "crs" [] OTHER -> f
ApplyModeFirst == \/ /\ pc \in Field
                     /\ policy' = [policy EXCEPT ![ModeFirst(pc)] =
                                       PolicyOf(reply)[ModeFirst(pc)]]
                     /\ pc' = CASE pc = "crs" -> "mode"
                                [] pc = "mode" -> "subjects"
                                [] pc = "subjects" -> "proxy_auth"
                                [] pc = "proxy_auth" -> "jwks"
                                [] pc = "jwks" -> "audience"
                                [] pc = "audience" -> "version"
                     /\ UNCHANGED <<world, registered, payload, todo, reply,
                                    subject, agent, bundle_version>>
                  \/ WriteVersion

Apply == \/ Write("crs", "mode")
         \/ Write("mode", "subjects")
         \/ Write("subjects", "proxy_auth")
         \/ Write("proxy_auth", "jwks")
         \/ Write("jwks", "audience")
         \/ Write("audience", "version")
         \/ WriteVersion

\* Accepted, refused or raising, the heartbeat is the last call of a tick.
Heartbeat == Move("heartbeat", "wait")

-----------------------------------------------------------------------------
(* The rest of the world.                                                   *)

Publish == /\ published' \in Version \ {published}
           /\ UNCHANGED <<portal, stop, restarts, thread, shared>>

EditIdentity == /\ portal' \in GuardIdentity \ {portal}
                /\ UNCHANGED <<published, stop, restarts, thread, shared>>

\* ZplLogger.done, at shutdown: the thread ends at its next tick.
StopHub == /\ ~stop /\ stop' = TRUE
           /\ UNCHANGED <<published, portal, restarts, thread, shared>>

\* The process dies at any point and is started again: the thread is a
\* daemon, and nothing of the policy is on disk.
Restart == /\ restarts < MaxRestarts
           /\ restarts' = restarts + 1
           /\ stop' = FALSE /\ pc' = "top" /\ registered' = FALSE
           /\ payload' = None /\ todo' = <<>> /\ reply' = None
           /\ subject' = None /\ agent' = None
           /\ policy' = Unconfigured /\ bundle_version' = None
           /\ UNCHANGED <<published, portal>>

-----------------------------------------------------------------------------
Register == RegisterOk \/ RegisterUnreadable \/ RegisterFails

PollCommands ==
    \/ \E commands \in BoundedSeq(Command, MaxCommands) : PollOk(commands)
    \/ PollRejected \/ PollRaises
    \/ CommandDone \/ CommandRaises \/ CommandsDone

PollBundle == \/ BundleRaises \/ BundleRejected \/ BundleUnchanged
              \/ CompileFails \/ CompileHangs \/ BundleLoads \/ Apply

Thread == \/ Tick \/ Wait \/ Register \/ SetIdentity
          \/ PollCommands \/ PollBundle \/ Heartbeat

Next == Thread \/ Publish \/ EditIdentity \/ StopHub \/ Restart

Spec == Init /\ [][Next]_vars

\* The thread is scheduled; a call that is made over and over is answered
\* now and then; and a poll now and then finds no command waiting.  The last
\* is needed: a command whose upload raises every time would keep the thread
\* from the bundle for ever.  Nothing is asked of a thread that hangs in
\* compile_rules: it is scheduled, and never comes to its next step.
Fairness == /\ WF_vars(Thread)
            /\ SF_vars(RegisterOk)
            /\ SF_vars(PollOk(<<>>))
            /\ SF_vars(BundleLoads)

FairSpec == Spec /\ Fairness

-----------------------------------------------------------------------------
(* Properties.                                                              *)

\* The values a policy field can ever take.
Values(f) == {PolicyOf(v)[f] : v \in {w \in Version : Loadable(w)} \cup {None}}

ThreadOK ==
    /\ published \in Version /\ portal \in GuardIdentity
    /\ stop \in BOOLEAN /\ restarts \in 0..MaxRestarts
    /\ pc \in Label /\ registered \in BOOLEAN
    /\ payload \in GuardIdentity \cup {None}
    /\ todo \in Seq(Command)
    /\ reply \in Version \cup {None}
    /\ bundle_version \in Version \cup {None}
    /\ (reply # None) <=> (pc \in Applying)
    /\ (payload # None) <=> (pc \in {"regSubject", "regAgent", "pollSubject",
                                     "pollAgent"})

\* Every variable is of its type, and the two replies are in hand exactly
\* where the thread reads them; no field ever comes from a bundle whose rules
\* do not compile.
TypeOK == /\ ThreadOK
          /\ DOMAIN policy = Field
          /\ \A f \in Field : policy[f] \in Values(f)

\* Outside the seven assignments of _poll_bundle the whole policy is that of
\* the version it is recorded under: no failed call, refused call, failed
\* compilation or ended tick leaves a field of another version behind.
WholeBundle == pc \notin Applying => policy = PolicyOf(bundle_version)

\* The fields the bundle in hand has already overwritten.
Written == CASE pc = "mode"       -> {"crs"}
             [] pc = "subjects"   -> {"crs", "mode"}
             [] pc = "proxy_auth" -> {"crs", "mode", "subjects"}
             [] pc = "jwks"       -> {"crs", "mode", "subjects", "proxy_auth"}
             [] pc = "audience"   -> Field \ {"audience"}
             [] pc = "version"    -> Field
             [] OTHER             -> {}

\* What the event loop can see in the middle of an update: each field is the
\* bundle in hand's or the old version's, in the order they are assigned, and
\* the bundle in hand is new and loads.  This is the inductive invariant
\* behind WholeBundle.
AppliedInOrder ==
    /\ policy = [f \in Field |-> PolicyOf(IF f \in Written THEN reply
                                          ELSE bundle_version)[f]]
    /\ reply # None => Loadable(reply) /\ reply # bundle_version
    /\ bundle_version # None => Loadable(bundle_version)

\* A policy under which requests are evaluated, or clients must authenticate.
Evaluates(p) == p["crs"] # None /\ p["mode"] \in Guarding
Admits(p) == p["proxy_auth"] = EmptyMap

\* "Never reverts to an unguarded state because of a transient failure"
\* (_poll_bundle): evaluation, and admission control, are given up only by a
\* restart or because a bundle that loads says so -- not even for the instant
\* between two assignments.
NeverReverts ==
    [][restarts' = restarts =>
         /\ Evaluates(policy) /\ ~Evaluates(policy')
               => reply # None /\ ~Evaluates(PolicyOf(reply))
         /\ ~Admits(policy) /\ Admits(policy')
               => reply # None /\ Admits(PolicyOf(reply))]_vars

\* Blocking starts with the rules of the bundle that asks for it: the mode
\* never turns to enforce over rules that were only meant to be flagged.
EnforceWithItsRules ==
    [][policy'["mode"] = "enforce" /\ policy["mode"] # "enforce"
         => reply # None /\ policy'["crs"] = PolicyOf(reply)["crs"]]_vars

\* The policy as it looks to anyone who does not look during the assignments.
inForce == IF pc \in Applying THEN PolicyOf(bundle_version) ELSE policy

\* The policy swap is seen as one step by anything that does not look during
\* the assignments: the thread implements LastKnownGood.
LKG == INSTANCE LastKnownGood WITH
          Policy <- [v \in Version \cup {None} |-> PolicyOf(v)],
          Good <- {v \in Version : Loadable(v)},
          answered <- reply,
          installed <- bundle_version,
          policy <- inForce

ImplementsLastKnownGood == LKG!Spec

\* The thread came across a bundle whose compilation never ends.
Hangs == <>[](pc = "hung")

\* Once the hub stops changing its mind, every later state has its bundle,
\* whole, if the bundle loads, and if the proxy keeps running -- whatever
\* calls failed before and whatever version was in force.  The one exception
\* is a thread that hangs: it takes no later bundle.
Converges ==
    \A v \in Version :
        Loadable(v) /\ <>[](published = v /\ ~stop)
            => Hangs \/ <>[](bundle_version = v /\ policy = PolicyOf(v))

\* So does each field of the identity that the portal has filled in
\* ("refresh identity each poll (picks up portal edits)"), with the same
\* exception.
IdentityConverges ==
    \A g \in GuardIdentity :
        <>[](portal = g /\ ~stop)
            => \/ Hangs
               \/ /\ g.subject # None => <>[](subject = g.subject)
                  /\ g.agent # None => <>[](agent = g.agent)
=============================================================================
