------------------------- MODULE WatcherHub_proofs -------------------------
(***************************************************************************)
(* Proofs about WatcherHub, for every set of versions, every content of    *)
(* them and every number of commands and restarts.  The argument rests on  *)
(* IInv: where a bundle is partly written, the fields already assigned are *)
(* the new version's and the others the old one's.                         *)
(***************************************************************************)
EXTENDS WatcherHub, TLAPS

IInv == ThreadOK /\ AppliedInOrder

-----------------------------------------------------------------------------
(* Facts about the operators.                                               *)

\* A policy, of a version or of a new process, has exactly the six fields.
LEMMA PolicyShape ==
    ASSUME NEW v \in Version \cup {None}
    PROVE  /\ PolicyOf(v) = [f \in Field |-> PolicyOf(v)[f]]
           /\ DOMAIN PolicyOf(v) = Field
  BY DEF PolicyOf, Unconfigured

\* The commands of a poll form a sequence.
LEMMA CommandsType ==
    ASSUME NEW commands \in BoundedSeq(Command, MaxCommands)
    PROVE  commands \in Seq(Command)
  BY BoundAssumption DEF BoundedSeq, SeqOf

\* IInv gives the rest of the type invariant.
LEMMA IInvTypeOK == IInv => TypeOK
<1> SUFFICES ASSUME IInv PROVE TypeOK
  OBVIOUS
<1>1. DOMAIN policy = Field
  BY DEF IInv, AppliedInOrder
<1>2. ASSUME NEW f \in Field PROVE policy[f] \in Values(f)
  BY DEF IInv, AppliedInOrder, ThreadOK, Values
<1> QED
  BY <1>1, <1>2 DEF IInv, TypeOK

\* Nothing is written outside the assignments.
LEMMA NothingWritten == pc \notin Applying => Written = {}
  BY DEF Written, Applying, Field

-----------------------------------------------------------------------------
(* The invariant.                                                           *)

\* The thread starts in the invariant.
LEMMA InitIInv == Init => IInv
<1> SUFFICES ASSUME Init PROVE IInv
  OBVIOUS
<1>1. pc \notin Applying
  BY DEF Init, Applying, Field
<1>2. ThreadOK
  <2>1. todo \in Seq(Command)
    BY DEF Init
  <2>2. restarts \in 0..MaxRestarts
    BY BoundAssumption DEF Init
  <2> QED
    BY <1>1, <2>1, <2>2 DEF Init, ThreadOK, Label
<1>3. policy = [f \in Field |-> PolicyOf(None)[f]]
  BY PolicyShape DEF Init, PolicyOf
<1>4. AppliedInOrder
  BY <1>1, <1>3, NothingWritten DEF Init, AppliedInOrder
<1> QED
  BY <1>2, <1>4 DEF IInv

\* Steps that leave the bundle, the policy and the thread's place alone.
LEMMA ElsewhereKeepsOrder ==
    AppliedInOrder /\ UNCHANGED <<pc, reply, policy, bundle_version>>
        => AppliedInOrder'
  BY DEF AppliedInOrder, Written

\* Steps of the thread outside the assignments.
LEMMA OutsideKeepsOrder ==
    ASSUME ThreadOK, ThreadOK', AppliedInOrder,
           pc \notin Applying, pc' \notin Applying,
           UNCHANGED <<policy, bundle_version>>
    PROVE  AppliedInOrder'
<1>1. Written = {} /\ Written' = {}
  BY DEF Written, Applying, Field
<1>2. reply' = None
  BY DEF ThreadOK
<1> QED
  BY <1>1, <1>2 DEF AppliedInOrder

\* The type of the thread's own state is kept by every step.
LEMMA NextThreadOK == ThreadOK /\ [Next]_vars => ThreadOK'
<1> SUFFICES ASSUME ThreadOK, [Next]_vars PROVE ThreadOK'
  OBVIOUS
<1> USE DEF Goto, Move, world, thread, shared
<1>1. CASE Tick
  BY <1>1 DEF Tick, ThreadOK, Label, Applying, Field
<1>2. CASE Wait
  BY <1>2 DEF Wait, ThreadOK, Label, Applying, Field
<1>3. CASE Register
  BY <1>3, IdentityAssumption DEF Register, RegisterOk, RegisterUnreadable,
     RegisterFails, ThreadOK, Label, Applying, Field
<1>4. CASE SetIdentity
  BY <1>4 DEF SetIdentity, SetSubject, SetAgent, ThreadOK, Label, Applying, Field
<1>5. CASE PollCommands
  <2>1. ASSUME NEW commands \in BoundedSeq(Command, MaxCommands),
               PollOk(commands)
        PROVE  ThreadOK'
    BY <2>1, CommandsType, IdentityAssumption
       DEF PollOk, ThreadOK, Label, Applying, Field
  <2>2. CASE PollRejected \/ PollRaises
    BY <2>2 DEF PollRejected, PollRaises, ThreadOK, Label, Applying, Field
  <2>3. CASE CommandDone
    <3>1. todo' \in Seq(Command)
      BY <2>3 DEF CommandDone, ThreadOK
    <3> QED
      BY <2>3, <3>1 DEF CommandDone, ThreadOK
  <2>4. CASE CommandRaises \/ CommandsDone
    <3>1. todo' = <<>> \/ todo' = todo
      BY <2>4 DEF CommandRaises, CommandsDone
    <3>2. <<>> \in Seq(Command)
      OBVIOUS
    <3>3. todo \in Seq(Command)
      BY DEF ThreadOK
    <3>4. todo' \in Seq(Command)
      BY <3>1, <3>2, <3>3
    <3> QED
      BY <2>4, <3>4 DEF CommandRaises, CommandsDone, ThreadOK, Label, Applying,
         Field
  <2> QED
    BY <1>5, <2>1, <2>2, <2>3, <2>4 DEF PollCommands
<1>6. CASE \/ BundleRaises \/ BundleRejected \/ BundleUnchanged
             \/ CompileFails \/ CompileHangs
  BY <1>6 DEF BundleRaises, BundleRejected, BundleUnchanged,
     CompileFails, CompileHangs,
     ThreadOK, Label, Applying, Field
<1>7. CASE BundleLoads
  BY <1>7, VersionAssumption DEF BundleLoads, ThreadOK, Label, Applying, Field
<1>8. CASE Apply
  BY <1>8 DEF Apply, Write, WriteVersion, ThreadOK, Label, Applying, Field
<1>9. CASE Heartbeat
  BY <1>9 DEF Heartbeat, ThreadOK, Label, Applying, Field
<1>10. CASE Publish \/ EditIdentity \/ StopHub
  BY <1>10 DEF Publish, EditIdentity, StopHub, ThreadOK
<1>11. CASE Restart
  <2>1. todo' \in Seq(Command)
    BY <1>11 DEF Restart
  <2>2. restarts' \in 0..MaxRestarts
    BY <1>11, BoundAssumption DEF Restart, ThreadOK
  <2> QED
    BY <1>11, <2>1, <2>2 DEF Restart, ThreadOK, Label, Applying, Field
<1>12. CASE UNCHANGED vars
  BY <1>12 DEF vars, ThreadOK
<1> QED
  BY <1>1, <1>2, <1>3, <1>4, <1>5, <1>6, <1>7, <1>8, <1>9, <1>10, <1>11, <1>12
     DEF Next, Thread, PollBundle

\* So is the order of the assignments.
LEMMA NextAppliedInOrder ==
    ThreadOK /\ ThreadOK' /\ AppliedInOrder /\ [Next]_vars => AppliedInOrder'
<1> SUFFICES ASSUME ThreadOK, ThreadOK', AppliedInOrder, [Next]_vars
             PROVE  AppliedInOrder'
  OBVIOUS
<1> DEFINE Elsewhere == UNCHANGED <<pc, reply, policy, bundle_version>>
           Outside == /\ pc \notin Applying /\ pc' \notin Applying
                      /\ UNCHANGED <<policy, bundle_version>>
<1>1. CASE Elsewhere
  BY <1>1, ElsewhereKeepsOrder
<1>2. CASE Outside
  BY <1>2, OutsideKeepsOrder
<1>3. ASSUME Tick \/ Wait \/ Register \/ SetIdentity \/ PollCommands
               \/ BundleRaises \/ BundleRejected \/ BundleUnchanged
               \/ CompileFails \/ CompileHangs \/ Heartbeat
      PROVE  Outside
  <2> USE DEF Goto, Move, world, thread, shared, Applying, Field
  <2>1. CASE Tick \/ Wait \/ Heartbeat
    BY <2>1 DEF Tick, Wait, Heartbeat
  <2>2. CASE Register
    BY <2>2 DEF Register, RegisterOk, RegisterUnreadable, RegisterFails
  <2>3. CASE SetIdentity
    BY <2>3 DEF SetIdentity, SetSubject, SetAgent
  <2>4. CASE PollCommands
    BY <2>4 DEF PollCommands, PollOk, PollRejected, PollRaises, CommandDone,
       CommandRaises, CommandsDone
  <2>5. CASE \/ BundleRaises \/ BundleRejected \/ BundleUnchanged
               \/ CompileFails \/ CompileHangs
    BY <2>5 DEF BundleRaises, BundleRejected, BundleUnchanged, CompileFails,
         CompileHangs
  <2> QED
    BY <1>3, <2>1, <2>2, <2>3, <2>4, <2>5
<1>4. CASE BundleLoads
  <2>1. /\ pc' = "crs" /\ pc = "bundle" /\ reply' = published
        /\ UNCHANGED <<policy, bundle_version>>
        /\ Loadable(published) /\ published # bundle_version
    BY <1>4 DEF BundleLoads, Goto, shared
  <2>2. Written = {} /\ Written' = {}
    BY <2>1 DEF Written
  <2>3. Loadable(reply)' /\ reply' # bundle_version'
    BY <2>1 DEF Loadable, RulesOf, ModeOf, Or
  <2> QED
    BY <2>1, <2>2, <2>3 DEF AppliedInOrder
<1>5. ASSUME NEW f \in Field, NEW to, Write(f, to), Written' = Written \cup {f}
      PROVE  AppliedInOrder'
  <2>1. /\ policy' = [policy EXCEPT ![f] = PolicyOf(reply)[f]]
        /\ UNCHANGED <<reply, bundle_version>>
    BY <1>5 DEF Write
  <2> DEFINE At(w, g) == PolicyOf(IF g \in w THEN reply ELSE bundle_version)[g]
  <2>2. policy = [g \in Field |-> At(Written, g)]
    BY DEF AppliedInOrder
  <2>3. policy' = [g \in Field |-> At(Written \cup {f}, g)]
    BY <2>1, <2>2
  <2>4. policy' = [g \in Field |-> PolicyOf(IF g \in Written' THEN reply'
                                           ELSE bundle_version')[g]]
    BY <1>5, <2>1, <2>3
  <2> QED
    BY <2>1, <2>4 DEF AppliedInOrder
<1>6. CASE WriteVersion
  <2>1. /\ Written = Field /\ Written' = {}
        /\ bundle_version' = reply /\ reply' = None /\ policy' = policy
    BY <1>6 DEF WriteVersion, Goto, Written
  <2>2. reply # None
    BY <1>6 DEF WriteVersion, Goto, ThreadOK, Applying
  <2> QED
    BY <2>1, <2>2 DEF AppliedInOrder
<1>7. CASE Restart
  <2>1. /\ pc' = "top" /\ reply' = None /\ bundle_version' = None
        /\ policy' = PolicyOf(None)
    BY <1>7 DEF Restart, PolicyOf
  <2>2. Written' = {}
    BY <2>1 DEF Written
  <2>3. PolicyOf(None) = [f \in Field |-> PolicyOf(None)[f]]
    BY PolicyShape
  <2> QED
    BY <2>1, <2>2, <2>3 DEF AppliedInOrder
<1>8. CASE Publish \/ EditIdentity \/ StopHub \/ UNCHANGED vars
  BY <1>8, <1>1 DEF Publish, EditIdentity, StopHub, vars, thread, shared
<1>9. CASE Apply
  <2> USE DEF Field
  <2>1. CASE Write("crs", "mode")
    BY <2>1, <1>5 DEF Write, Goto, Written
  <2>2. CASE Write("mode", "subjects")
    BY <2>2, <1>5 DEF Write, Goto, Written
  <2>3. CASE Write("subjects", "proxy_auth")
    BY <2>3, <1>5 DEF Write, Goto, Written
  <2>4. CASE Write("proxy_auth", "jwks")
    BY <2>4, <1>5 DEF Write, Goto, Written
  <2>5. CASE Write("jwks", "audience")
    BY <2>5, <1>5 DEF Write, Goto, Written
  <2>6. CASE Write("audience", "version")
    BY <2>6, <1>5 DEF Write, Goto, Written
  <2> QED
    BY <1>6, <1>9, <2>1, <2>2, <2>3, <2>4, <2>5, <2>6 DEF Apply
<1> QED
  BY <1>2, <1>3, <1>4, <1>7, <1>8, <1>9 DEF Next, Thread, PollBundle

-----------------------------------------------------------------------------
(* Theorems.                                                                *)

\* IInv is an invariant: see AppliedInOrder for what it says of _poll_bundle.
THEOREM Invariance == Spec => []IInv
<1>1. Init => IInv
  BY InitIInv
<1>2. IInv /\ [Next]_vars => IInv'
  BY NextThreadOK, NextAppliedInOrder DEF IInv
<1> QED
  BY <1>1, <1>2, PTL DEF Spec

\* Every variable of the hub client keeps its type, and no field of the policy
\* ever comes from a bundle that does not compile.
THEOREM TypeCorrect == Spec => []TypeOK
  BY Invariance, IInvTypeOK, PTL

\* Between two assignments of _poll_bundle the fields already written are the
\* new version's, and the others still the old one's.
THEOREM AppliedInOrderHolds == Spec => []AppliedInOrder
<1>1. IInv => AppliedInOrder
  BY DEF IInv
<1> QED
  BY <1>1, Invariance, PTL

\* Outside the assignments of _poll_bundle the policy is one version, whole.
THEOREM WholeBundleHolds == Spec => []WholeBundle
<1>1. IInv => WholeBundle
  <2> SUFFICES ASSUME IInv, pc \notin Applying
               PROVE  policy = PolicyOf(bundle_version)
    BY DEF WholeBundle
  <2>1. policy = [f \in Field |-> PolicyOf(bundle_version)[f]]
    BY NothingWritten DEF IInv, AppliedInOrder
  <2>2. bundle_version \in Version \cup {None}
    BY DEF IInv, ThreadOK
  <2> QED
    BY <2>1, <2>2, PolicyShape
<1> QED
  BY <1>1, Invariance, PTL

-----------------------------------------------------------------------------
(* What a single step may not do.                                           *)

\* The steps that change the policy: one assignment, or a new process.
LEMMA PolicySteps ==
    ASSUME ThreadOK, [Next]_vars, policy' # policy
    PROVE  \/ restarts' # restarts /\ policy' = Unconfigured
           \/ \E f \in Field : \E to : Write(f, to)
<1>1. CASE Restart
  BY <1>1, BoundAssumption DEF Restart, ThreadOK
<1>2. CASE Apply
  BY <1>2 DEF Apply, WriteVersion, Field
<1>3. ASSUME Tick \/ Wait \/ Register \/ SetIdentity \/ PollCommands
               \/ BundleRaises \/ BundleRejected \/ BundleUnchanged
               \/ CompileFails \/ CompileHangs \/ BundleLoads \/ Heartbeat
      PROVE  UNCHANGED policy
  <2> USE DEF Move, shared
  <2>1. CASE Tick \/ Wait \/ Heartbeat
    BY <2>1 DEF Tick, Wait, Heartbeat
  <2>2. CASE Register
    BY <2>2 DEF Register, RegisterOk, RegisterUnreadable, RegisterFails
  <2>3. CASE SetIdentity
    BY <2>3 DEF SetIdentity, SetSubject, SetAgent
  <2>4. CASE PollCommands
    BY <2>4 DEF PollCommands, PollOk, PollRejected, PollRaises, CommandDone,
       CommandRaises, CommandsDone
  <2>5. CASE \/ BundleRaises \/ BundleRejected \/ BundleUnchanged
               \/ CompileFails \/ CompileHangs
               \/ BundleLoads
    BY <2>5 DEF BundleRaises, BundleRejected, BundleUnchanged,
     CompileFails, CompileHangs,
       BundleLoads
  <2> QED
    BY <1>3, <2>1, <2>2, <2>3, <2>4, <2>5
<1>4. CASE Publish \/ EditIdentity \/ StopHub \/ UNCHANGED vars
  BY <1>4 DEF Publish, EditIdentity, StopHub, vars, shared
<1> QED
  BY <1>1, <1>2, <1>3, <1>4 DEF Next, Thread, PollBundle

\* An assignment puts in one field of the bundle in hand, behind the fields it
\* is behind in _poll_bundle.
LEMMA WriteEffect ==
    ASSUME IInv, NEW f \in Field, \E to : Write(f, to)
    PROVE  /\ reply # None
           /\ policy'[f] = PolicyOf(reply)[f]
           /\ \A g \in Field \ {f} : policy'[g] = policy[g]
           /\ f = "mode" => policy["crs"] = PolicyOf(reply)["crs"]
<1>1. /\ pc = f /\ policy' = [policy EXCEPT ![f] = PolicyOf(reply)[f]]
  BY DEF Write, Goto
<1>2. DOMAIN policy = Field
  BY DEF IInv, AppliedInOrder
<1>3. reply # None
  BY <1>1 DEF IInv, ThreadOK, Applying
<1>4. f = "mode" => policy["crs"] = PolicyOf(reply)["crs"]
  BY <1>1 DEF IInv, AppliedInOrder, Written, Field
<1> QED
  BY <1>1, <1>2, <1>3, <1>4

\* Evaluation and admission control are given up only by a restart or by a
\* bundle that says so: no failed call or compilation reverts the watcher to
\* an unguarded state, not even between two assignments.
THEOREM NeverRevertsHolds == Spec => NeverReverts
<1> DEFINE A == restarts' = restarts =>
                  /\ Evaluates(policy) /\ ~Evaluates(policy')
                        => reply # None /\ ~Evaluates(PolicyOf(reply))
                  /\ ~Admits(policy) /\ Admits(policy')
                        => reply # None /\ Admits(PolicyOf(reply))
<1>1. IInv /\ [Next]_vars => A
  <2> SUFFICES ASSUME IInv, [Next]_vars, restarts' = restarts,
                      policy' # policy
               PROVE  A
    BY DEF Evaluates, Admits
  <2>1. PICK f \in Field : \E to : Write(f, to)
    BY PolicySteps DEF IInv
  <2>2. /\ reply # None
        /\ policy'[f] = PolicyOf(reply)[f]
        /\ \A g \in Field \ {f} : policy'[g] = policy[g]
        /\ f = "mode" => policy["crs"] = PolicyOf(reply)["crs"]
    BY <2>1, WriteEffect
  <2>3. Evaluates(policy) /\ ~Evaluates(policy') => ~Evaluates(PolicyOf(reply))
    BY <2>2 DEF Evaluates, Field
  <2>4. ~Admits(policy) /\ Admits(policy') => Admits(PolicyOf(reply))
    BY <2>2 DEF Admits, Field
  <2> QED
    BY <2>2, <2>3, <2>4
<1> QED
  BY <1>1, Invariance, PTL DEF Spec, NeverReverts

\* The mode turns to enforce only over the rules of the bundle that asks for
\* it.
THEOREM EnforceWithItsRulesHolds == Spec => EnforceWithItsRules
<1> DEFINE A == policy'["mode"] = "enforce" /\ policy["mode"] # "enforce"
                  => reply # None /\ policy'["crs"] = PolicyOf(reply)["crs"]
<1>1. IInv /\ [Next]_vars => A
  <2> SUFFICES ASSUME IInv, [Next]_vars, policy'["mode"] = "enforce",
                      policy["mode"] # "enforce"
               PROVE  reply # None /\ policy'["crs"] = PolicyOf(reply)["crs"]
    OBVIOUS
  <2>1. policy' # Unconfigured
    BY DEF Unconfigured, Field
  <2>2. PICK f \in Field : \E to : Write(f, to)
    BY <2>1, PolicySteps DEF IInv
  <2> QED
    BY <2>2, WriteEffect DEF Field
<1> QED
  BY <1>1, Invariance, PTL DEF Spec, EnforceWithItsRules

-----------------------------------------------------------------------------
(* The refinement.                                                          *)

\* Seen from outside the assignments, the policy is the recorded version's.
LEMMA InForce == IInv => inForce = PolicyOf(bundle_version)
<1> SUFFICES ASSUME IInv, pc \notin Applying PROVE policy = PolicyOf(bundle_version)
  BY DEF inForce
<1>1. policy = [f \in Field |-> PolicyOf(bundle_version)[f]]
  BY NothingWritten DEF IInv, AppliedInOrder
<1> QED
  BY <1>1, PolicyShape DEF IInv, ThreadOK

\* The seven assignments of _poll_bundle, and every failure around them,
\* implement the atomic swap of LastKnownGood.
THEOREM Refinement == Spec => ImplementsLastKnownGood
<1>1. Init => LKG!Init
  <2> SUFFICES ASSUME Init PROVE LKG!Init
    OBVIOUS
  <2>1. inForce = PolicyOf(None)
    BY InitIInv, InForce DEF Init
  <2> QED
    BY <2>1 DEF Init, LKG!Init
<1>2. IInv /\ IInv' /\ [Next]_vars => [LKG!Next]_LKG!vars
  <2> SUFFICES ASSUME IInv, IInv', [Next]_vars
               PROVE  LKG!Next \/ UNCHANGED LKG!vars
    OBVIOUS
  <2>1. /\ inForce = PolicyOf(bundle_version)
        /\ inForce' = PolicyOf(bundle_version')
    <3>1. (inForce = PolicyOf(bundle_version))'
      BY InForce, PTL
    <3> QED
      BY <3>1, InForce
  <2>2. CASE UNCHANGED <<published, reply, bundle_version>>
    BY <2>1, <2>2 DEF LKG!vars
  <2>3. CASE Publish
    BY <2>1, <2>3 DEF Publish, thread, shared, LKG!Next, LKG!Publish
  <2>4. CASE BundleLoads
    <3>1. reply = None
      BY <2>4 DEF BundleLoads, Goto, IInv, ThreadOK, Applying, Field
    <3> QED
      BY <2>1, <2>4, <3>1 DEF BundleLoads, shared, world, LKG!Next, LKG!Answer,
         IInv, ThreadOK
  <2>5. CASE WriteVersion
    <3>1. reply # None /\ reply \in Version
      BY <2>5 DEF WriteVersion, Goto, IInv, ThreadOK, Applying
    <3> QED
      BY <2>1, <2>5, <3>1 DEF WriteVersion, world, LKG!Next, LKG!Install
  <2>6. CASE Restart
    BY <2>1, <2>6 DEF Restart, LKG!Next, LKG!Restart
  <2>7. ASSUME ~Publish, ~BundleLoads, ~WriteVersion, ~Restart
        PROVE  UNCHANGED <<published, reply, bundle_version>>
    <3> USE DEF Move, world, thread, shared
    <3>1. CASE Tick \/ Wait \/ Heartbeat
      BY <3>1 DEF Tick, Wait, Heartbeat
    <3>2. CASE Register
      BY <3>2 DEF Register, RegisterOk, RegisterUnreadable, RegisterFails
    <3>3. CASE SetIdentity
      BY <3>3 DEF SetIdentity, SetSubject, SetAgent
    <3>4. CASE PollCommands
      BY <3>4 DEF PollCommands, PollOk, PollRejected, PollRaises, CommandDone,
         CommandRaises, CommandsDone
    <3>5. CASE \/ BundleRaises \/ BundleRejected \/ BundleUnchanged
                 \/ CompileFails \/ CompileHangs
      BY <3>5 DEF BundleRaises, BundleRejected, BundleUnchanged, CompileFails,
         CompileHangs
    <3>6. CASE Apply
      BY <2>7, <3>6 DEF Apply, Write
    <3>7. CASE EditIdentity \/ StopHub \/ UNCHANGED vars
      BY <3>7 DEF EditIdentity, StopHub, vars
    <3> QED
      BY <2>7, <3>1, <3>2, <3>3, <3>4, <3>5, <3>6, <3>7
         DEF Next, Thread, PollBundle
  <2> QED
    BY <2>2, <2>3, <2>4, <2>5, <2>6, <2>7
<1> QED
  BY <1>1, <1>2, Invariance, PTL DEF Spec, ImplementsLastKnownGood, LKG!Spec
=============================================================================
