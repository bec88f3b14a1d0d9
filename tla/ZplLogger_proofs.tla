-------------------------- MODULE ZplLogger_proofs --------------------------
(***************************************************************************)
(* Proofs about ZplLogger, for every number of connections, flows, calls   *)
(* and credentials, every set of bundles, every verdict, and whatever the  *)
(* hub thread writes between two reads of a hook.                          *)
(*                                                                         *)
(* Three invariants, each on top of the one before: DataOK is about the    *)
(* hooks' own state, HeldOK about what has been true of the policy         *)
(* throughout a hook, and QuietOK about a hook during which nothing is     *)
(* written: how far each register has come towards the outcome.            *)
(***************************************************************************)
EXTENDS ZplLogger, TLAPS

Identifying == {"lookup", "jwks", "audience", "admit"}
Enforcing == {"crs", "mode", "subject", "agent", "roles", "evaluate", "decide",
              "denied", "flagged"}

HookShape ==
    /\ hook = [at |-> hook.at, conn |-> hook.conn, flow |-> hook.flow,
               call |-> hook.call, cred |-> hook.cred, had |-> hook.had,
               key |-> hook.key, who |-> hook.who]
    /\ hook.who = [subject |-> hook.who.subject, agent |-> hook.who.agent,
                   roles |-> hook.who.roles]
    /\ hook.at \in Identifying \cup Enforcing
    /\ hook.conn \in Conn /\ hook.cred \in Cred \cup {None}

ConnsOK ==
    /\ DOMAIN conns = Conn /\ DOMAIN offered = Conn /\ DOMAIN conn_agent = Conn
    /\ \A c \in Conn :
         /\ conns[c] \in {"closed", "open", "tunnel"}
         /\ offered[c] \in Cred \cup {None}
         /\ conns[c] = "closed" => conn_agent[c] = None

\* A request that was judged is recorded so, or comes to an identity in a
\* tunnel that had none.
AsJudged(f) ==
    \/ conn_agent[flows[f].conn] = flows[f].ident
    \/ flows[f].ident = None /\ conns[flows[f].conn] = "tunnel"

FlowsOK ==
    /\ DOMAIN flows = Flow
    /\ \A f \in Flow : flows[f] # NoFlow =>
         /\ f \in start_times
         /\ flows[f].conn \in Conn /\ conns[flows[f].conn] # "closed"
         /\ flows[f].status \in {None, 403, 407}
         /\ flows[f].decision \in {None, "allowed", "flagged", "denied"}
         /\ flows[f].state = "hook" <=> hook # Idle /\ hook.flow = f
         /\ flows[f].state = "hook" => flows[f].decision = None
         /\ flows[f].decision # None => AsJudged(f)

\* A CONNECT is alone on its connection; so is, outside a tunnel, a request
\* whose header is read.
HookOK ==
    hook # Idle =>
        /\ HookShape
        /\ conns[hook.conn] # "closed"
        /\ hook.flow = None => /\ hook.at \in Identifying
                               /\ conns[hook.conn] = "open"
                               /\ \A f \in Flow : flows[f] # NoFlow => flows[f].conn # hook.conn
        /\ hook.flow # None =>
              /\ hook.flow \in Flow
              /\ flows[hook.flow] # NoFlow
              /\ flows[hook.flow].conn = hook.conn
              /\ flows[hook.flow].decision = None /\ flows[hook.flow].status = None
              /\ hook.flow \in start_times
              /\ hook.at \in Identifying => conn_agent[hook.conn] = None
              /\ hook.at \in Identifying /\ conns[hook.conn] # "tunnel" =>
                    \A f \in Flow : flows[f] # NoFlow /\ flows[f].conn = hook.conn => f = hook.flow

DataOK == ConnsOK /\ FlowsOK /\ HookOK

\* What a hook may rely on whatever the thread writes.
HeldOK ==
    /\ "evaluates" \in held => Evaluates(policy)
    /\ "gated" \in held => ~Admits(policy)
    /\ hook # Idle /\ hook.at \in Enforcing /\ "gated" \in held
          => conn_agent[hook.conn] # None

-----------------------------------------------------------------------------
(* The hooks' state.                                                        *)

LEMMA InitDataOK == ProxyInit => DataOK
<1> SUFFICES ASSUME ProxyInit PROVE DataOK
  OBVIOUS
<1>1. ConnsOK
  BY DEF ProxyInit, ConnsOK
<1>2. FlowsOK
  BY DEF ProxyInit, FlowsOK
<1>3. HookOK
  BY DEF ProxyInit, HookOK
<1> QED
  BY <1>1, <1>2, <1>3 DEF DataOK

\* Idle has no place a hook can be at.
LEMMA IdleAt == \A at \in Identifying \cup Enforcing : at # Idle.at
  BY DEF Identifying, Enforcing, Idle

LEMMA LookUpPlaces == \A cred : cred \in Cred \cup {None} => LookUp(cred) \in Identifying
  BY CredAssumption DEF LookUp, Identifying

\* The first registers of a hook.
LEMMA BeginShape ==
    ASSUME NEW c \in Conn, NEW f, NEW call, NEW cred \in Cred \cup {None},
           NEW at \in Identifying \cup Enforcing,
           Begin(c, f, call, cred, at)
    PROVE  /\ hook = Idle /\ hook' # Idle /\ HookShape'
           /\ hook'.at = at /\ hook'.conn = c /\ hook'.flow = f /\ hook'.cred = cred
           /\ hook'.call = call
           /\ hook'.had = IF f = None THEN None ELSE conn_agent[c]
  BY IdleAt DEF Begin, HookShape

\* A step that only moves the hook on, or reads into a register.
LEMMA StepKeepsData ==
    ASSUME DataOK, hook # Idle, UNCHANGED data, HookShape',
           hook'.conn = hook.conn, hook'.flow = hook.flow,
           hook.at \in Enforcing => hook'.at \in Enforcing,
           hook.at \in Identifying => hook'.at \in Identifying,
           hook.at = "admit" => hook'.at = "admit"
    PROVE  DataOK' /\ hook' # Idle
<1>1. hook' # Idle
  BY IdleAt DEF HookShape
<1>2. ConnsOK'
  BY DEF DataOK, ConnsOK, data
<1>3. FlowsOK'
  BY <1>1 DEF DataOK, FlowsOK, AsJudged, data
<1>4. HookOK'
  BY <1>1, IdleAt DEF DataOK, HookOK, HookShape, data, Identifying, Enforcing
<1> QED
  BY <1>1, <1>2, <1>3, <1>4 DEF DataOK

\* The request leaves its hook.
LEMMA LeaveKeepsData ==
    ASSUME DataOK, hook # Idle, hook.flow # None,
           NEW decision \in {None, "allowed", "flagged", "denied"},
           NEW status \in {None, 403, 407}, Leave(decision, status)
    PROVE  /\ DataOK'
           /\ flows'[hook.flow].decision = decision
           /\ flows'[hook.flow].status = status
<1> DEFINE f == hook.flow
<1>1. /\ hook' = Idle /\ UNCHANGED <<conns, offered, conn_agent, start_times>>
      /\ f \in Flow /\ flows[f] # NoFlow /\ DOMAIN flows = Flow
  BY DEF DataOK, FlowsOK, HookOK, Leave, Finish
<1>2. /\ DOMAIN flows' = Flow
      /\ \A g \in Flow \ {f} : flows'[g] = flows[g]
      /\ flows'[f].conn = hook.conn
      /\ flows'[f].decision = decision /\ flows'[f].status = status
      /\ flows'[f].ident = conn_agent[hook.conn]
      /\ flows'[f].state \in {"forwarded", "answered"}
  BY <1>1 DEF Leave
<1>3. ConnsOK'
  BY <1>1 DEF DataOK, ConnsOK
<1>4. FlowsOK'
  BY <1>1, <1>2 DEF DataOK, FlowsOK, AsJudged, HookOK, HookShape
<1>5. HookOK'
  BY <1>1 DEF HookOK
<1> QED
  BY <1>2, <1>3, <1>4, <1>5 DEF DataOK

LEMMA OpenKeepsData ==
    ASSUME DataOK, NEW c \in Conn, Open(c) PROVE DataOK'
  BY DEF DataOK, ConnsOK, FlowsOK, AsJudged, HookOK, HookShape, Open

LEMMA ConnectKeepsData ==
    ASSUME DataOK, NEW c \in Conn, NEW cred \in Cred \cup {None}, http_connect(c, cred)
    PROVE  DataOK'
<1>1. LookUp(cred) \in Identifying \cup Enforcing /\ Begin(c, None, None, cred, LookUp(cred))
  BY LookUpPlaces DEF http_connect
<1>2. /\ hook = Idle /\ hook' # Idle /\ HookShape' /\ hook'.conn = c
      /\ hook'.flow = None /\ hook'.at \in Identifying
  BY <1>1, BeginShape, LookUpPlaces
<1>3. ConnsOK'
  BY DEF DataOK, ConnsOK, http_connect, data
<1>4. FlowsOK'
  BY <1>2, NoneAssumption DEF DataOK, FlowsOK, AsJudged, http_connect, data
<1>5. HookOK'
  BY <1>2 DEF DataOK, HookOK, http_connect, data, Live
<1> QED
  BY <1>3, <1>4, <1>5 DEF DataOK

LEMMA RequestKeepsData ==
    ASSUME DataOK, NEW c \in Conn, NEW f \in Flow, NEW call,
           NEW cred \in Cred \cup {None}, request(c, f, call, cred)
    PROVE  DataOK'
<1>1. /\ hook = Idle /\ hook' # Idle /\ HookShape' /\ hook'.conn = c /\ hook'.flow = f
      /\ IF conn_agent[c] # None THEN hook'.at = "crs" ELSE hook'.at \in Identifying
  <2>1. CASE conn_agent[c] # None
    <3>1. Begin(c, f, call, None, "crs")
      BY <2>1 DEF request
    <3> QED
      BY <2>1, <3>1, BeginShape DEF Enforcing
  <2>2. CASE conn_agent[c] = None
    <3>1. Begin(c, f, call, cred, LookUp(cred))
      BY <2>2 DEF request
    <3> QED
      BY <2>2, <3>1, BeginShape, LookUpPlaces
  <2> QED
    BY <2>1, <2>2
<1>2. /\ f # None /\ flows[f] = NoFlow
      /\ UNCHANGED <<conns, offered, conn_agent>>
      /\ conns[c] # "closed"
      /\ start_times' = start_times \cup {f}
      /\ DOMAIN flows' = Flow
      /\ \A g \in Flow \ {f} : flows'[g] = flows[g]
      /\ flows'[f] = [conn |-> c, state |-> "hook", ident |-> None,
                      decision |-> None, status |-> None]
  BY NoneAssumption DEF request, DataOK, FlowsOK
<1>3. conns[c] = "open" => \A g \in Flow : flows[g] # NoFlow => flows[g].conn # c
  BY DEF request, Live
<1>4. ConnsOK'
  BY <1>2 DEF DataOK, ConnsOK
<1>5. FlowsOK'
  BY <1>1, <1>2, NoneAssumption DEF DataOK, FlowsOK, AsJudged
<1>6. (conn_agent[c] = None /\ hook'.at \in Identifying) \/ hook'.at = "crs"
  BY <1>1
<1>7. conns[c] \in {"open", "tunnel"}
  BY DEF request
<1>8. HookOK'
  <2>1. hook'.flow \in Flow /\ hook'.flow # None /\ conns'[hook'.conn] # "closed"
    BY <1>1, <1>2
  <2>2. /\ flows'[hook'.flow] # NoFlow /\ flows'[hook'.flow].conn = hook'.conn
        /\ flows'[hook'.flow].decision = None /\ flows'[hook'.flow].status = None
        /\ hook'.flow \in start_times'
    BY <1>1, <1>2 DEF NoFlow
  <2>3. hook'.at \in Identifying => conn_agent'[hook'.conn] = None
    BY <1>1, <1>2, <1>6 DEF Identifying
  <2>4. hook'.at \in Identifying /\ conns'[hook'.conn] # "tunnel" =>
          \A g \in Flow : flows'[g] # NoFlow /\ flows'[g].conn = hook'.conn => g = hook'.flow
    BY <1>1, <1>2, <1>3, <1>7
  <2> QED
    BY <1>1, <2>1, <2>2, <2>3, <2>4 DEF HookOK
<1> QED
  BY <1>4, <1>5, <1>8 DEF DataOK

LEMMA DisconnectKeepsData ==
    ASSUME DataOK, NEW c \in Conn, client_disconnected(c) PROVE DataOK'
  BY DEF DataOK, ConnsOK, FlowsOK, AsJudged, HookOK, client_disconnected, Live

\* The end of a request takes its flow away.
LEMMA EndKeepsData ==
    ASSUME DataOK, NEW f \in Flow, response(f) \/ UpstreamError(f) PROVE DataOK'
  BY DEF DataOK, ConnsOK, FlowsOK, AsJudged, HookOK, response, UpstreamError

\* The hook goes on to at, with those registers, and nothing else moves.
Moved(at, who) ==
    /\ hook' = [at |-> at, conn |-> hook.conn, flow |-> hook.flow,
                call |-> hook.call, cred |-> hook.cred, had |-> hook.had,
                key |-> hook.key, who |-> who]
    /\ who = [subject |-> who.subject, agent |-> who.agent, roles |-> who.roles]
    /\ UNCHANGED <<vars, data, held>>

\* The steps that read into a register, or only go on.
LEMMA StepMoves == ASSUME HookShape, NEW at, Step(at) PROVE Moved(at, hook.who)
  BY DEF HookShape, Step, Moved

\* GuardMode for a pinned connection.
ReadsPin ==
    LET ident == conn_agent[hook.conn] IN
    /\ policy["mode"] \in Guarding /\ ident # None
    /\ hook' = [hook EXCEPT
         !.at = IF ident.roles = None THEN "roles" ELSE "evaluate",
         !.who = [subject |-> Or(ident.subject, "unknown"),
                  agent |-> Or(ident.agent, "unknown"),
                  roles |-> ident.roles]]
    /\ UNCHANGED <<vars, data, held>>

LEMMA ReadsPinMoves ==
    ASSUME HookShape, ReadsPin
    PROVE  LET ident == conn_agent[hook.conn] IN
           Moved(IF ident.roles = None THEN "roles" ELSE "evaluate",
                 [subject |-> Or(ident.subject, "unknown"),
                  agent |-> Or(ident.agent, "unknown"), roles |-> ident.roles])
  BY DEF HookShape, ReadsPin, Moved

LEMMA SubjectMoves ==
    ASSUME HookShape, ReadSubject
    PROVE  Moved("agent", [subject |-> Or(subject, "unknown"), agent |-> hook.who.agent,
                           roles |-> hook.who.roles])
  BY DEF HookShape, ReadSubject, Moved

LEMMA AgentMoves ==
    ASSUME HookShape, ReadAgent
    PROVE  Moved("roles", [subject |-> hook.who.subject, agent |-> Or(agent, "unknown"),
                           roles |-> hook.who.roles])
  BY DEF HookShape, ReadAgent, Moved

LEMMA RolesMove ==
    ASSUME HookShape, ReadRoles
    PROVE  Moved("evaluate", [subject |-> hook.who.subject, agent |-> hook.who.agent,
                     roles |-> RolesOf(policy["subjects"], hook.who.subject)])
  BY DEF HookShape, ReadRoles, Moved

LEMMA DecideMoves ==
    ASSUME HookShape, Decide
    PROVE  Moved(IF policy["mode"] = "enforce" THEN "denied" ELSE "flagged", hook.who)
  BY DEF HookShape, Decide, Moved

\* A step of the hook changes only the registers it names.
LEMMA MoveOn ==
    ASSUME HookShape, NEW at \in Identifying \cup Enforcing,
           hook' = [hook EXCEPT !.at = at]
    PROVE  /\ HookShape' /\ hook' # Idle /\ hook'.at = at
           /\ hook'.conn = hook.conn /\ hook'.flow = hook.flow
           /\ hook'.call = hook.call /\ hook'.cred = hook.cred
           /\ hook'.had = hook.had /\ hook'.key = hook.key /\ hook'.who = hook.who
<1>1. hook' = [at |-> at, conn |-> hook.conn, flow |-> hook.flow, call |-> hook.call,
               cred |-> hook.cred, had |-> hook.had, key |-> hook.key, who |-> hook.who]
  BY DEF HookShape
<1> QED
  BY <1>1, IdleAt DEF HookShape

\* A CONNECT becomes a tunnel, a request goes on to enforcement; an identity
\* may have come to the connection.
LEMMA AdmittedKeepsData ==
    ASSUME DataOK, hook # Idle, hook.at \in Identifying, Admitted,
           UNCHANGED <<flows, start_times>>, DOMAIN conn_agent' = Conn,
           \A c \in Conn \ {hook.conn} : conn_agent'[c] = conn_agent[c],
           hook.at = "admit" => UNCHANGED conn_agent
    PROVE  DataOK'
<1>1. HookShape /\ hook.conn \in Conn /\ conns[hook.conn] # "closed"
  BY DEF DataOK, HookOK, HookShape
<1>2. \A f \in Flow : flows[f] # NoFlow /\ flows[f].decision # None => AsJudged(f)'
  <2> SUFFICES ASSUME NEW f \in Flow, flows[f] # NoFlow, flows[f].decision # None
      PROVE AsJudged(f)'
    OBVIOUS
  <2>1. flows[f].conn \in Conn /\ AsJudged(f) /\ DOMAIN conns = Conn
    BY DEF DataOK, FlowsOK, ConnsOK
  <2>2. \A c \in Conn : conns[c] = "tunnel" => conns'[c] = "tunnel"
    BY <2>1 DEF Admitted
  <2>3. CASE flows[f].conn # hook.conn
    BY <2>1, <2>2, <2>3 DEF AsJudged
  <2>4. CASE hook.at = "admit"
    BY <2>1, <2>2, <2>4 DEF AsJudged
  <2>5. CASE flows[f].conn = hook.conn
    <3>1. hook.flow # None /\ f # hook.flow /\ conn_agent[hook.conn] = None
      BY <2>5 DEF DataOK, HookOK
    <3>2. conns[hook.conn] = "tunnel"
      BY <2>5, <3>1 DEF DataOK, HookOK
    <3>3. flows[f].ident = None
      BY <2>1, <2>5, <3>1 DEF AsJudged
    <3> QED
      BY <1>1, <2>2, <2>5, <3>2, <3>3 DEF AsJudged
  <2> QED
    BY <2>3, <2>4, <2>5
<1>3. CASE hook.flow = None
  <2>1. /\ conns' = [conns EXCEPT ![hook.conn] = "tunnel"] /\ hook' = Idle
        /\ offered' = [offered EXCEPT ![hook.conn] =
                         IF hook.at = "admit" THEN hook.cred ELSE None]
    BY <1>3 DEF Admitted, Finish
  <2>2. ConnsOK'
    BY <1>1, <2>1 DEF DataOK, ConnsOK, HookShape
  <2>3. FlowsOK'
    BY <1>1, <1>2, <1>3, <2>1, NoneAssumption DEF DataOK, ConnsOK, FlowsOK
  <2> QED
    BY <2>1, <2>2, <2>3 DEF DataOK, HookOK
<1>4. CASE hook.flow # None
  <2>1. hook' = [hook EXCEPT !.at = "crs"] /\ UNCHANGED <<conns, offered>>
    BY <1>4 DEF Admitted
  <2>2. HookShape' /\ hook' # Idle /\ hook'.conn = hook.conn /\ hook'.flow = hook.flow
        /\ hook'.at = "crs"
    BY <1>1, <2>1, MoveOn DEF Enforcing
  <2>3. ConnsOK'
    BY <1>1, <2>1 DEF DataOK, ConnsOK
  <2>4. FlowsOK'
    BY <1>2, <2>1, <2>2 DEF DataOK, FlowsOK
  <2>5. "crs" \notin Identifying
    BY DEF Identifying
  <2>6. HookOK'
    BY <1>1, <1>4, <2>1, <2>2, <2>5 DEF DataOK, HookOK
  <2> QED
    BY <2>3, <2>4, <2>6 DEF DataOK
<1> QED
  BY <1>3, <1>4

\* An identity, or None, is what the credential comes to.
LEMMA IdentifiedKeepsData ==
    ASSUME DataOK, hook # Idle, hook.at \in {"lookup", "audience"}, NEW ident,
           Identified(ident)
    PROVE  DataOK'
<1>1. CASE ident = None
  <2>1. hook' = [hook EXCEPT !.at = "admit"] /\ UNCHANGED data
    BY <1>1 DEF Identified, Step
  <2>2. HookShape' /\ hook'.conn = hook.conn /\ hook'.flow = hook.flow /\ hook'.at = "admit"
    BY <2>1, MoveOn DEF DataOK, HookOK, Identifying
  <2> QED
    BY <2>1, <2>2, StepKeepsData DEF Identifying, Enforcing
<1>2. CASE ident # None
  <2>1. /\ conn_agent' = [conn_agent EXCEPT ![hook.conn] = ident] /\ Admitted
        /\ UNCHANGED <<flows, start_times>>
    BY <1>2 DEF Identified
  <2> QED
    BY <2>1, AdmittedKeepsData DEF DataOK, ConnsOK, Identifying
<1> QED
  BY <1>1, <1>2

LEMMA AdmissionKeepsData ==
    ASSUME DataOK, hook # Idle, Admission PROVE DataOK'
<1>1. CASE Admits(policy) /\ Admitted /\ UNCHANGED <<conn_agent, flows, start_times>>
  BY <1>1, AdmittedKeepsData DEF Admission, DataOK, ConnsOK, Identifying
<1>2. CASE hook.flow # None /\ Leave(None, 407)
  BY <1>2, LeaveKeepsData
<1>3. CASE hook.flow = None /\ Finish /\ UNCHANGED data
  <2>1. hook' = Idle /\ hook.flow = None /\ UNCHANGED data
    BY <1>3 DEF Finish
  <2> QED
    BY <2>1, NoneAssumption DEF data, DataOK, ConnsOK, FlowsOK, AsJudged, HookOK
<1> QED
  BY <1>1, <1>2, <1>3 DEF Admission

\* Reading into the registers.
LEMMA EnforceKeepsData ==
    ASSUME DataOK, hook # Idle, Enforce PROVE DataOK'
<1>1. HookShape
  BY DEF DataOK, HookOK
<1>2. hook.at \in Enforcing /\ hook.flow # None
  BY <1>1 DEF Enforce, GuardCrs, GuardMode, ReadSubject, ReadAgent, ReadRoles,
              Evaluate, Decide, Block, Enforcing, Identifying, DataOK, HookOK
<1>3. ASSUME NEW d \in {None, "allowed", "flagged", "denied"},
             NEW s \in {None, 403, 407}, Leave(d, s)
      PROVE  DataOK'
  BY <1>2, <1>3, LeaveKeepsData
<1>4. ASSUME NEW at \in Enforcing, NEW who, Moved(at, who) PROVE DataOK'
  <2>1. /\ hook' = [at |-> at, conn |-> hook.conn, flow |-> hook.flow,
                    call |-> hook.call, cred |-> hook.cred, had |-> hook.had,
                    key |-> hook.key, who |-> who]
        /\ UNCHANGED data
    BY <1>4 DEF Moved
  <2>2. HookShape' /\ hook'.conn = hook.conn /\ hook'.flow = hook.flow /\ hook'.at = at
    BY <1>1, <1>4, <2>1 DEF HookShape, Moved
  <2> QED
    BY <1>2, <2>1, <2>2, StepKeepsData DEF Enforcing, Identifying
<1>5. CASE GuardCrs
  BY <1>1, <1>3, <1>4, <1>5, StepMoves DEF GuardCrs, Enforcing
<1>6. CASE GuardMode
  <2>1. CASE Leave(None, None)
    BY <1>3, <2>1
  <2>2. CASE Step("subject")
    BY <1>1, <1>4, <2>2, StepMoves DEF Enforcing
  <2>3. CASE ReadsPin
    BY <1>1, <1>4, <2>3, ReadsPinMoves DEF Enforcing
  <2> QED
    BY <1>6, <2>1, <2>2, <2>3 DEF GuardMode, ReadsPin
<1>7. CASE ReadSubject
  BY <1>1, <1>4, <1>7, SubjectMoves DEF Enforcing
<1>8. CASE ReadAgent
  BY <1>1, <1>4, <1>8, AgentMoves DEF Enforcing
<1>9. CASE ReadRoles
  BY <1>1, <1>4, <1>9, RolesMove DEF Enforcing
<1>10. CASE Evaluate
  BY <1>1, <1>3, <1>4, <1>10, StepMoves DEF Evaluate, Enforcing
<1>11. CASE Decide
  BY <1>1, <1>4, <1>11, DecideMoves DEF Enforcing
<1>12. CASE Block
  BY <1>2, <1>3, <1>12 DEF Block
<1> QED
  BY <1>5, <1>6, <1>7, <1>8, <1>9, <1>10, <1>11, <1>12 DEF Enforce

\* The thread leaves the hooks' state alone.
LEMMA HubKeepsData == ASSUME DataOK, Hub PROVE DataOK'
  BY DEF DataOK, ConnsOK, FlowsOK, AsJudged, HookOK, HookShape, Hub, data

LEMMA ExpireKeepsData == ASSUME DataOK, NEW cred, Expire(cred) PROVE DataOK'
  BY DEF DataOK, ConnsOK, FlowsOK, AsJudged, HookOK, HookShape, Expire

LEMMA ReadJwksKeepsData == ASSUME DataOK, hook # Idle, ReadJwks PROVE DataOK'
<1>1. HookShape
  BY DEF DataOK, HookOK
<1> DEFINE key == hook.cred.key \in DOMAIN policy["jwks"]
<1>2. hook' = [at |-> "audience", conn |-> hook.conn, flow |-> hook.flow,
               call |-> hook.call, cred |-> hook.cred, had |-> hook.had,
               key |-> key, who |-> hook.who]
  BY <1>1 DEF HookShape, ReadJwks
<1>3. HookShape' /\ hook'.conn = hook.conn /\ hook'.flow = hook.flow
      /\ hook'.at = "audience" /\ hook.at = "jwks" /\ UNCHANGED data
  BY <1>1, <1>2 DEF HookShape, ReadJwks, Identifying
<1> QED
  BY <1>3, StepKeepsData DEF Identifying, Enforcing

\* No hook is run while there is none.
LEMMA NotIdle == ASSUME Identify \/ Enforce PROVE hook # Idle
  BY DEF Idle, Identify, Enforce, ReadProxyAuth, ReadJwks, ReadAudience, Admission,
         GuardCrs, GuardMode, ReadSubject, ReadAgent, ReadRoles, Evaluate, Decide, Block

LEMMA NextDataOK == ASSUME DataOK, [ProxyNext]_allVars PROVE DataOK'
<1>1. CASE Client
  BY <1>1, OpenKeepsData, DisconnectKeepsData, ConnectKeepsData, RequestKeepsData,
     ExpireKeepsData DEF Client
<1>2. CASE Identify
  BY <1>2, NotIdle, IdentifiedKeepsData, ReadJwksKeepsData, AdmissionKeepsData
     DEF Identify, ReadProxyAuth, ReadAudience
<1>3. CASE Enforce
  BY <1>3, NotIdle, EnforceKeepsData
<1>4. CASE Finished
  BY <1>4, EndKeepsData DEF Finished
<1>5. CASE Hub
  BY <1>5, HubKeepsData
<1>6. CASE UNCHANGED allVars
  BY <1>6 DEF DataOK, ConnsOK, FlowsOK, AsJudged, HookOK, HookShape, allVars, data
<1> QED
  BY <1>1, <1>2, <1>3, <1>4, <1>5, <1>6 DEF ProxyNext

LEMMA AlwaysDataOK == ProxySpec => []DataOK
  BY InitDataOK, NextDataOK, PTL DEF ProxySpec

\* A hook has its flow, a pin has its connection, and only judged requests
\* carry a decision, whatever the thread writes.
THEOREM ProxyTypeCorrect == ProxySpec => []ProxyTypeOK
<1>1. DataOK => ProxyTypeOK
  BY DEF DataOK, ConnsOK, FlowsOK, ProxyTypeOK, Live
<1> QED
  BY <1>1, AlwaysDataOK, PTL

\* _record reads the identity a request was judged under, whatever the hooks of
\* overlapping requests and the thread do meanwhile; only in a tunnel without
\* an identity may one have come since.
THEOREM RecordedAsJudgedHolds == ProxySpec => []RecordedAsJudged
<1>1. DataOK => RecordedAsJudged
  BY DEF DataOK, FlowsOK, AsJudged, RecordedAsJudged
<1> QED
  BY <1>1, AlwaysDataOK, PTL

\* No later request's header and no bundle changes the identity pinned to a
\* connection.
THEOREM PinStaysHolds == ProxySpec => PinStays
<1> DEFINE Stays == \A c \in Conn :
                conn_agent[c] # None /\ conn_agent'[c] # conn_agent[c]
                => \/ conns'[c] = "closed"
                   \/ hook # Idle /\ hook.conn = c /\ hook.flow = None
<1>1. ASSUME DataOK, [ProxyNext]_allVars PROVE [Stays]_allVars
  <2>1. CASE UNCHANGED conn_agent
    BY <2>1
  <2>2. ASSUME NEW c \in Conn, client_disconnected(c) PROVE Stays
    BY <1>1, <2>2 DEF client_disconnected, DataOK, ConnsOK
  <2>3. ASSUME NEW ident, Identified(ident), hook # Idle, hook.at \in Identifying
        PROVE  Stays
    <3>1. CASE ident = None
      BY <2>3, <3>1 DEF Identified, Step, data
    <3>2. CASE ident # None
      BY <1>1, <2>3, <3>2 DEF Identified, DataOK, ConnsOK, HookOK
    <3> QED
      BY <3>1, <3>2
  <2>4. CASE Client
    BY <2>1, <2>2, <2>4 DEF Client, Open, http_connect, request, Expire, data
  <2>5. CASE Identify
    <3>1. CASE ReadProxyAuth \/ ReadAudience
      BY <2>3, <2>5, <3>1, NotIdle DEF ReadProxyAuth, ReadAudience, Identifying
    <3>2. CASE ReadJwks \/ Admission
      BY <2>1, <3>2 DEF ReadJwks, Admission, Leave, data
    <3> QED
      BY <2>5, <3>1, <3>2 DEF Identify
  <2>6. CASE Enforce
    BY <2>1, <2>6 DEF Enforce, GuardCrs, GuardMode, ReadSubject, ReadAgent, ReadRoles,
                      Evaluate, Decide, Block, Leave, Step, data
  <2>7. CASE Finished \/ Hub \/ UNCHANGED allVars
    BY <2>1, <2>7 DEF Finished, response, UpstreamError, Hub, allVars, data
  <2> QED
    BY <1>1, <2>4, <2>5, <2>6, <2>7 DEF ProxyNext
<1> QED
  BY <1>1, AlwaysDataOK, PTL DEF ProxySpec, PinStays

-----------------------------------------------------------------------------
(* What has held throughout a hook.                                         *)

LEMMA InitHeldOK == ProxyInit => HeldOK
  BY DEF ProxyInit, HeldOK

LEMMA NextHeldOK == ASSUME DataOK, HeldOK, [ProxyNext]_allVars PROVE HeldOK'
<1>1. ASSUME NEW c, NEW f, NEW call, NEW cred, NEW at, Begin(c, f, call, cred, at),
             UNCHANGED <<policy, conn_agent>>, at \in Enforcing => conn_agent[c] # None
      PROVE  HeldOK'
  <2>1. held' = Holding \cup {"quiet"} /\ hook'.at = at /\ hook'.conn = c
    BY <1>1 DEF Begin
  <2> QED
    BY <1>1, <2>1 DEF HeldOK, Holding, Evaluates, Admits
<1>2. ASSUME NEW at \in Identifying, hook # Idle, hook' = [hook EXCEPT !.at = at],
             UNCHANGED <<vars, data, held>>
      PROVE  HeldOK'
  <2>1. hook'.at = at
    BY <1>2, MoveOn DEF DataOK, HookOK
  <2>2. UNCHANGED policy
    BY <1>2 DEF vars, shared
  <2> QED
    BY <1>2, <2>1, <2>2 DEF HeldOK, Identifying, Enforcing, Evaluates, Admits, data
<1>3. ASSUME hook # Idle, hook.at \in Identifying, Admitted,
             UNCHANGED policy, hook.conn \in Conn,
             "gated" \in held => conn_agent'[hook.conn] # None
      PROVE  HeldOK'
  <2>1. CASE hook.flow = None
    BY <1>3, <2>1 DEF Admitted, Finish, HeldOK
  <2>2. CASE hook.flow # None
    <3>1. hook' = [hook EXCEPT !.at = "crs"] /\ UNCHANGED held
      BY <1>3, <2>2 DEF Admitted
    <3>2. hook'.at = "crs" /\ hook'.conn = hook.conn
      BY <1>3, <3>1, MoveOn DEF DataOK, HookOK, Enforcing
    <3> QED
      BY <1>3, <3>1, <3>2 DEF HeldOK, Evaluates, Admits
  <2> QED
    BY <2>1, <2>2
<1>4. ASSUME NEW at, NEW who, hook # Idle, hook.at \in Enforcing, Moved(at, who)
      PROVE  HeldOK'
  <2>1. hook'.conn = hook.conn /\ UNCHANGED <<policy, conn_agent, held>>
    BY <1>4 DEF Moved, vars, shared, data
  <2> QED
    BY <1>4, <2>1 DEF HeldOK, Evaluates, Admits
<1>5. ASSUME Finish PROVE HeldOK'
  BY <1>5 DEF Finish, HeldOK
<1>6. CASE hook = Idle /\ hook' = Idle /\ UNCHANGED <<policy, held>>
  BY <1>6 DEF HeldOK, Evaluates, Admits
<1>7. CASE Client
  <2>1. ASSUME NEW c \in Conn, Open(c) PROVE HeldOK'
    BY <2>1 DEF Open, HeldOK, Evaluates, Admits, vars, shared
  <2>2. ASSUME NEW c \in Conn, client_disconnected(c) PROVE HeldOK'
    BY <1>6, <2>2 DEF client_disconnected, vars, shared
  <2>3. ASSUME NEW c \in Conn, NEW cred \in Cred \cup {None}, http_connect(c, cred)
        PROVE  HeldOK'
    <3>1. LookUp(cred) \notin Enforcing
      BY LookUpPlaces DEF Identifying, Enforcing
    <3> QED
      BY <1>1, <2>3, <3>1 DEF http_connect, vars, shared, data
  <2>4. ASSUME NEW c \in Conn, NEW f \in Flow, NEW call, NEW cred \in Cred \cup {None},
               request(c, f, call, cred)
        PROVE  HeldOK'
    <3>1. LookUp(cred) \notin Enforcing
      BY LookUpPlaces DEF Identifying, Enforcing
    <3>2. UNCHANGED <<policy, conn_agent>>
      BY <2>4 DEF request, vars, shared
    <3>3. CASE conn_agent[c] # None
      BY <1>1, <2>4, <3>2, <3>3 DEF request
    <3>4. CASE conn_agent[c] = None
      BY <1>1, <2>4, <3>1, <3>2, <3>4 DEF request
    <3> QED
      BY <3>3, <3>4
  <2>5. ASSUME NEW cred, Expire(cred) PROVE HeldOK'
    BY <2>5 DEF Expire, HeldOK, Evaluates, Admits, vars, shared
  <2> QED
    BY <1>7, <2>1, <2>2, <2>3, <2>4, <2>5 DEF Client
<1>8. CASE Identify
  <2>1. hook # Idle /\ hook.conn \in Conn
    BY <1>8, NotIdle DEF DataOK, HookOK, HookShape
  <2>2. ASSUME NEW ident, Identified(ident), hook.at \in {"lookup", "audience"}
        PROVE  HeldOK'
    <3>1. CASE ident = None
      BY <1>2, <2>1, <2>2, <3>1 DEF Identified, Step, Identifying
    <3>2. CASE ident # None
      <4>1. /\ conn_agent' = [conn_agent EXCEPT ![hook.conn] = ident] /\ Admitted
            /\ UNCHANGED vars
        BY <2>2, <3>2 DEF Identified
      <4>2. conn_agent'[hook.conn] # None /\ UNCHANGED policy
        BY <2>1, <3>2, <4>1 DEF DataOK, ConnsOK, vars, shared
      <4> QED
        BY <1>3, <2>1, <2>2, <4>1, <4>2 DEF Identifying
    <3> QED
      BY <3>1, <3>2
  <2>3. CASE ReadProxyAuth
    BY <2>2, <2>3 DEF ReadProxyAuth
  <2>4. CASE ReadAudience
    BY <2>2, <2>4 DEF ReadAudience
  <2>5. CASE ReadJwks
    <3>1. UNCHANGED <<policy, conn_agent, held>> /\ hook'.at = "audience"
      BY <2>1, <2>5 DEF ReadJwks, vars, shared, data, DataOK, HookOK, HookShape
    <3> QED
      BY <3>1 DEF HeldOK, Evaluates, Admits, Enforcing
  <2>6. CASE Admission
    <3>1. CASE Admits(policy) /\ Admitted /\ UNCHANGED vars
      <4>1. "gated" \notin held
        BY <3>1 DEF HeldOK
      <4> QED
        BY <1>3, <2>1, <2>6, <3>1, <4>1 DEF Admission, Identifying, vars, shared
    <3>2. CASE Finish
      BY <1>5, <3>2
    <3> QED
      BY <2>6, <3>1, <3>2 DEF Admission, Leave
  <2> QED
    BY <1>8, <2>3, <2>4, <2>5, <2>6 DEF Identify
<1>9. CASE Enforce
  <2>1. hook # Idle /\ HookShape
    BY <1>9, NotIdle DEF DataOK, HookOK
  <2>2. hook.at \in Enforcing
    BY <1>9 DEF Enforce, GuardCrs, GuardMode, ReadSubject, ReadAgent, ReadRoles,
                Evaluate, Decide, Block, Enforcing
  <2>3. ASSUME NEW d, NEW st, Leave(d, st) PROVE HeldOK'
    BY <1>5, <2>3 DEF Leave
  <2>4. ASSUME NEW at, Step(at) PROVE HeldOK'
    BY <1>4, <2>1, <2>2, <2>4, StepMoves
  <2>5. CASE GuardCrs \/ Evaluate \/ Block
    BY <2>3, <2>4, <2>5 DEF GuardCrs, Evaluate, Block
  <2>6. CASE GuardMode
    <3>1. CASE ReadsPin
      BY <1>4, <2>1, <2>2, <3>1, ReadsPinMoves
    <3> QED
      BY <2>3, <2>4, <2>6, <3>1 DEF GuardMode, ReadsPin
  <2>7. CASE ReadSubject
    BY <1>4, <2>1, <2>2, <2>7, SubjectMoves
  <2>8. CASE ReadAgent
    BY <1>4, <2>1, <2>2, <2>8, AgentMoves
  <2>9. CASE ReadRoles
    BY <1>4, <2>1, <2>2, <2>9, RolesMove
  <2>10. CASE Decide
    BY <1>4, <2>1, <2>2, <2>10, DecideMoves
  <2> QED
    BY <1>9, <2>5, <2>6, <2>7, <2>8, <2>9, <2>10 DEF Enforce
<1>10. CASE Finished
  BY <1>6, <1>10 DEF Finished, response, UpstreamError, vars, shared
<1>11. CASE Hub
  <2>1. UNCHANGED <<hook, conn_agent>>
    BY <1>11 DEF Hub, data
  <2>2. held' \subseteq held /\ ("evaluates" \in held' => Evaluates(policy'))
        /\ ("gated" \in held' => ~Admits(policy'))
    BY <1>11 DEF Hub
  <2> QED
    BY <2>1, <2>2 DEF HeldOK, Evaluates, Admits
<1>12. CASE UNCHANGED allVars
  BY <1>12 DEF allVars, vars, shared, data, HeldOK, Evaluates, Admits
<1> QED
  BY <1>7, <1>8, <1>9, <1>10, <1>11, <1>12 DEF ProxyNext

LEMMA AlwaysHeldOK == ProxySpec => [](DataOK /\ HeldOK)
  BY InitDataOK, NextDataOK, InitHeldOK, NextHeldOK, PTL DEF ProxySpec

-----------------------------------------------------------------------------
(* How a hook ends.                                                         *)

Found == IF hook.at = "lookup" THEN StaticIdentity(policy["proxy_auth"], hook.cred)
         ELSE IF Verifies(hook.cred, hook.key, policy["audience"])
              THEN ClaimedIdentity(hook.cred) ELSE None

Left(decision, status) == /\ flows'[hook.flow].decision = decision
                          /\ flows'[hook.flow].status = status

\* A CONNECT.
EndsTunnel ==
    /\ hook.flow = None
    /\ \/ /\ hook.at \in {"lookup", "audience"} /\ Found # None
          /\ conns'[hook.conn] = "tunnel" /\ conn_agent'[hook.conn] = Found
       \/ /\ hook.at = "admit" /\ Admits(policy)
          /\ conns'[hook.conn] = "tunnel" /\ UNCHANGED conn_agent
       \/ /\ hook.at = "admit" /\ ~Admits(policy)
          /\ conns'[hook.conn] = "open" /\ UNCHANGED conn_agent

\* A request.
EndsRequest ==
    /\ hook.flow # None /\ UNCHANGED conn_agent
    /\ \/ hook.at = "admit" /\ ~Admits(policy) /\ Left(None, 407)
       \/ hook.at = "crs" /\ policy["crs"] = None /\ Left(None, None)
       \/ hook.at = "mode" /\ policy["mode"] \notin Guarding /\ Left(None, None)
       \/ hook.at = "evaluate" /\ Judged(hook.who, hook.call) = "raise" /\ Left(None, None)
       \/ hook.at = "evaluate" /\ Judged(hook.who, hook.call) = "allow"
          /\ Left("allowed", None)
       \/ hook.at \in {"denied", "flagged"}
          /\ Left(hook.at, IF policy["mode"] = "enforce" THEN 403 ELSE None)

LEMMA Endings ==
    ASSUME DataOK, [ProxyNext]_allVars, Ending PROVE EndsTunnel \/ EndsRequest
<1>1. hook # Idle /\ hook' = Idle /\ HookShape /\ hook.conn \in Conn
  BY DEF Ending, DataOK, HookOK, HookShape
<1>2. ASSUME NEW at, NEW who, Moved(at, who), at # "idle" PROVE FALSE
  BY <1>1, <1>2 DEF Moved, Idle
<1>3. ASSUME NEW at, Step(at), at # "idle" PROVE FALSE
  BY <1>1, <1>2, <1>3, StepMoves
<1>4. ASSUME NEW d \in {None, "allowed", "flagged", "denied"},
             NEW st \in {None, 403, 407}, Leave(d, st), hook.flow # None
      PROVE  Left(d, st) /\ UNCHANGED conn_agent
  <2>1. Left(d, st)
    BY <1>1, <1>4, LeaveKeepsData DEF Left
  <2>2. UNCHANGED conn_agent
    BY <1>4 DEF Leave
  <2> QED
    BY <2>1, <2>2
<1>5. CASE Identify
  <2>1. ASSUME Identified(Found), hook.at \in {"lookup", "audience"} PROVE EndsTunnel
    <3>1. Found # None
      BY <1>3, <2>1 DEF Identified
    <3>2. conn_agent' = [conn_agent EXCEPT ![hook.conn] = Found] /\ Admitted
      BY <2>1, <3>1 DEF Identified
    <3>3. hook.flow = None
      <4> SUFFICES ASSUME hook.flow # None PROVE FALSE
        OBVIOUS
      <4>1. hook' = [hook EXCEPT !.at = "crs"]
        BY <3>2 DEF Admitted
      <4> QED
        BY <1>1, <4>1, MoveOn DEF Enforcing
    <3>4. conns' = [conns EXCEPT ![hook.conn] = "tunnel"]
      BY <3>2, <3>3 DEF Admitted
    <3> QED
      BY <1>1, <2>1, <3>1, <3>2, <3>3, <3>4 DEF EndsTunnel, DataOK, ConnsOK
  <2>2. CASE ReadProxyAuth
    BY <2>1, <2>2 DEF ReadProxyAuth, Found
  <2>3. CASE ReadAudience
    BY <2>1, <2>3 DEF ReadAudience, Found
  <2>4. CASE ReadJwks
    <3>1. hook'.at = "audience"
      BY <1>1, <2>4 DEF ReadJwks, HookShape
    <3> QED
      BY <1>1, <3>1 DEF Idle
  <2>5. CASE Admission
    <3>1. CASE Admits(policy) /\ Admitted /\ UNCHANGED conn_agent
      <4>1. hook.at = "admit" /\ hook.flow = None
        <5>1. hook.at = "admit"
          BY <2>5 DEF Admission
        <5> SUFFICES ASSUME hook.flow # None PROVE FALSE
          BY <5>1
        <5>2. hook' = [hook EXCEPT !.at = "crs"]
          BY <3>1 DEF Admitted
        <5> QED
          BY <1>1, <5>2, MoveOn DEF Enforcing
      <4>2. conns' = [conns EXCEPT ![hook.conn] = "tunnel"]
        BY <3>1, <4>1 DEF Admitted
      <4> QED
        BY <1>1, <3>1, <4>1, <4>2 DEF EndsTunnel, DataOK, ConnsOK
    <3>2. CASE ~Admits(policy) /\ hook.flow # None /\ Leave(None, 407)
      BY <1>4, <2>5, <3>2 DEF Admission, EndsRequest
    <3>3. CASE ~Admits(policy) /\ hook.flow = None /\ UNCHANGED data
      BY <1>1, <2>5, <3>3 DEF Admission, EndsTunnel, data, DataOK, HookOK
    <3> QED
      BY <2>5, <3>1, <3>2, <3>3 DEF Admission
  <2> QED
    BY <1>5, <2>2, <2>3, <2>4, <2>5 DEF Identify
<1>6. CASE Enforce
  <2>1. hook.flow # None
    BY <1>1, <1>6 DEF Enforce, GuardCrs, GuardMode, ReadSubject, ReadAgent, ReadRoles,
                      Evaluate, Decide, Block, Identifying, DataOK, HookOK
  <2>2. CASE GuardCrs
    BY <1>3, <1>4, <2>1, <2>2 DEF GuardCrs, EndsRequest
  <2>3. CASE GuardMode
    <3>1. ~ReadsPin
      BY <1>1, <1>2, ReadsPinMoves DEF ReadsPin
    <3>2. policy["mode"] \notin Guarding /\ Leave(None, None)
      BY <1>3, <2>3, <3>1 DEF GuardMode, ReadsPin
    <3> QED
      BY <1>4, <2>1, <2>3, <3>2 DEF GuardMode, EndsRequest
  <2>4. CASE ReadSubject \/ ReadAgent \/ ReadRoles \/ Decide
    BY <1>1, <1>2, <2>4, SubjectMoves, AgentMoves, RolesMove, DecideMoves
  <2>5. CASE Evaluate
    BY <1>3, <1>4, <2>1, <2>5 DEF Evaluate, EndsRequest
  <2>6. CASE Block
    BY <1>4, <2>1, <2>6 DEF Block, EndsRequest
  <2> QED
    BY <1>6, <2>2, <2>3, <2>4, <2>5, <2>6 DEF Enforce
<1>7. CASE Client \/ Finished \/ Hub \/ UNCHANGED allVars
  BY <1>1, <1>7 DEF Client, Open, client_disconnected, http_connect, request, Expire, Begin,
                    Finished, response, UpstreamError, Hub, allVars
<1> QED
  BY <1>5, <1>6, <1>7 DEF ProxyNext

\* While the policy asks for evaluation throughout, no request slips past it.
THEOREM NoneSlipsPastHolds == ProxySpec => NoneSlipsPast
<1> DEFINE Caught == Ending /\ "evaluates" \in held /\ hook.flow # None
                     => \/ flows'[hook.flow].status = 407
                        \/ flows'[hook.flow].decision # None
                        \/ hook.at = "evaluate"
                           /\ Judged(hook.who, hook.call) = "raise"
                           /\ policy["crs"] # None
<1>1. ASSUME DataOK, HeldOK, [ProxyNext]_allVars PROVE Caught
  <2> SUFFICES ASSUME Ending, "evaluates" \in held, hook.flow # None PROVE Caught
    OBVIOUS
  <2>1. EndsRequest /\ Evaluates(policy)
    BY <1>1, Endings DEF EndsTunnel, HeldOK
  <2> QED
    BY <2>1, NoneAssumption DEF EndsRequest, Evaluates, Left
<1> QED
  BY <1>1, AlwaysHeldOK, PTL DEF ProxySpec, NoneSlipsPast

\* While credentials are required throughout, a hook that comes to no identity
\* ends in a 407: no identity, no service.
THEOREM NoIdentityNoServiceHolds == ProxySpec => NoIdentityNoService
<1> DEFINE Refused == Ending /\ "gated" \in held /\ conn_agent'[hook.conn] = None
                      => IF hook.flow = None THEN conns'[hook.conn] # "tunnel"
                         ELSE flows'[hook.flow].status = 407
<1>1. ASSUME DataOK, HeldOK, [ProxyNext]_allVars PROVE Refused
  <2> SUFFICES ASSUME Ending, "gated" \in held, conn_agent'[hook.conn] = None
      PROVE  Refused
    OBVIOUS
  <2>1. hook # Idle /\ ~Admits(policy)
    BY <1>1 DEF Ending, HeldOK
  <2>2. CASE EndsTunnel
    BY <2>1, <2>2 DEF EndsTunnel
  <2>3. CASE EndsRequest
    BY <1>1, <2>1, <2>3 DEF EndsRequest, Left, HeldOK, Enforcing
  <2> QED
    BY <1>1, <2>2, <2>3, Endings
<1> QED
  BY <1>1, AlwaysHeldOK, PTL DEF ProxySpec, NoIdentityNoService

-----------------------------------------------------------------------------
(* A hook during which the thread writes nothing.                           *)

\* On the way to an identity.
Identification ==
    /\ hook.at \in Identifying /\ hook.flow # None => hook.had = None
    /\ hook.at \in Identifying \ {"admit"} => hook.cred # None
    /\ hook.at = "lookup" => hook.cred.kind = "static"
    /\ hook.at \in {"jwks", "audience"} => hook.cred.kind = "jwt"
    /\ hook.at = "audience" => hook.key = (hook.cred.key \in DOMAIN policy["jwks"])
    /\ hook.at = "admit" => Expected = None

\* On the way to a decision.
Enforcement ==
    /\ hook.at \in Enforcing => /\ conn_agent[hook.conn] = Expected
                                /\ Expected = None => Admits(policy)
    /\ hook.at \in Enforcing \ {"crs"} => policy["crs"] # None
    /\ hook.at \in Enforcing \ {"crs", "mode"} => policy["mode"] \in Guarding
    /\ hook.at \in {"subject", "agent"} => Expected = None
    /\ hook.at \in {"agent", "roles"} => hook.who.subject = WhoIs(Expected).subject
    /\ hook.at = "roles" => /\ hook.who.agent = WhoIs(Expected).agent
                            /\ Expected = None \/ Expected.roles = None
    /\ hook.at \in {"evaluate", "decide", "denied", "flagged"} => hook.who = WhoIs(Expected)
    /\ hook.at \in {"decide", "denied", "flagged"} => Judged(hook.who, hook.call) = "deny"
    /\ hook.at = "denied" => policy["mode"] = "enforce"
    /\ hook.at = "flagged" => policy["mode"] # "enforce"

QuietOK == hook # Idle /\ "quiet" \in held => Identification /\ Enforcement

\* What a hook should come to depends on what nobody writes.
LEMMA SameExpected ==
    ASSUME UNCHANGED <<subject, agent, policy, expired>>,
           hook'.flow = hook.flow, hook'.had = hook.had, hook'.cred = hook.cred
    PROVE  /\ Expected' = Expected /\ WhoIs(Expected)' = WhoIs(Expected)
           /\ \A who, call : Judged(who, call)' = Judged(who, call)
<1>1. Resolve(hook.cred)' = Resolve(hook.cred)
  BY DEF Resolve, StaticIdentity, Static, Verifies, ClaimedIdentity
<1>2. Expected' = Expected
  BY <1>1 DEF Expected
<1>3. WhoIs(Expected)' = WhoIs(Expected)
  BY <1>2 DEF WhoIs, RolesOf
<1> QED
  BY <1>2, <1>3 DEF Judged

\* A step of enforcement.
LEMMA MovedSame ==
    ASSUME NEW at, NEW who, Moved(at, who)
    PROVE  /\ hook'.at = at /\ hook'.who = who /\ hook'.conn = hook.conn
           /\ hook'.flow = hook.flow /\ hook'.call = hook.call
           /\ UNCHANGED <<policy, subject, agent, conn_agent, held>>
           /\ Expected' = Expected /\ WhoIs(Expected)' = WhoIs(Expected)
           /\ \A w, call : Judged(w, call)' = Judged(w, call)
<1>1. /\ hook'.at = at /\ hook'.who = who /\ hook'.conn = hook.conn
      /\ hook'.flow = hook.flow /\ hook'.call = hook.call /\ hook'.had = hook.had
      /\ hook'.cred = hook.cred
      /\ UNCHANGED <<policy, subject, agent, conn_agent, held, expired>>
  BY DEF Moved, vars, shared, data
<1> QED
  BY <1>1, SameExpected

\* A step of identification; key is the register's new value.
Advanced(at, key) ==
    /\ hook' = [at |-> at, conn |-> hook.conn, flow |-> hook.flow,
                call |-> hook.call, cred |-> hook.cred, had |-> hook.had,
                key |-> key, who |-> hook.who]
    /\ UNCHANGED <<vars, expired, held>>

LEMMA AdvancedSame ==
    ASSUME NEW at, NEW key, Advanced(at, key)
    PROVE  /\ hook'.at = at /\ hook'.key = key /\ hook'.conn = hook.conn
           /\ hook'.flow = hook.flow /\ hook'.call = hook.call /\ hook'.had = hook.had
           /\ hook'.cred = hook.cred
           /\ UNCHANGED <<policy, held>>
           /\ Expected' = Expected
<1>1. /\ hook'.at = at /\ hook'.key = key /\ hook'.conn = hook.conn
      /\ hook'.flow = hook.flow /\ hook'.call = hook.call /\ hook'.had = hook.had
      /\ hook'.cred = hook.cred
      /\ UNCHANGED <<policy, subject, agent, held, expired>>
  BY DEF Advanced, vars, shared
<1> QED
  BY <1>1, SameExpected

\* What identification finds is what it should find.
LEMMA FoundExpected ==
    ASSUME DataOK, QuietOK, hook # Idle, "quiet" \in held,
           hook.at \in {"lookup", "audience"}
    PROVE  Found = Expected
<1>1. Expected = Resolve(hook.cred) /\ hook.cred # None
  BY DEF QuietOK, Identification, Identifying, Expected
<1>2. CASE hook.at = "lookup"
  BY <1>1, <1>2 DEF QuietOK, Identification, Resolve, Found
<1>3. CASE hook.at = "audience"
  BY <1>1, <1>3 DEF QuietOK, Identification, Resolve, Found
<1> QED
  BY <1>2, <1>3

LEMMA BeginQuiet ==
    ASSUME NEW c \in Conn, NEW f, NEW call, NEW cred \in Cred \cup {None},
           UNCHANGED <<policy, conn_agent>>,
           \/ Begin(c, f, call, cred, LookUp(cred)) /\ (f # None => conn_agent[c] = None)
           \/ Begin(c, f, call, None, "crs") /\ f # None /\ conn_agent[c] # None
    PROVE  QuietOK'
<1>1. CASE Begin(c, f, call, cred, LookUp(cred)) /\ (f # None => conn_agent[c] = None)
  <2>1. /\ hook'.at = LookUp(cred) /\ hook'.cred = cred /\ hook'.flow = f
        /\ hook'.had = None
    BY <1>1, BeginShape, LookUpPlaces
  <2>2. hook'.at \notin Enforcing /\ hook'.at # "audience" /\ hook'.at \in Identifying
    BY <2>1, CredAssumption DEF LookUp, Identifying, Enforcing
  <2>3. Enforcement'
    BY <2>2 DEF Enforcement, Enforcing
  <2>4. Identification'
    BY <2>1, <2>2, CredAssumption DEF Identification, LookUp, Identifying, Expected, Resolve
  <2> QED
    BY <2>3, <2>4 DEF QuietOK
<1>2. CASE Begin(c, f, call, None, "crs") /\ f # None /\ conn_agent[c] # None
  <2>1. /\ hook'.at = "crs" /\ hook'.flow = f /\ hook'.conn = c
        /\ hook'.had = conn_agent[c]
    BY <1>2, BeginShape DEF Enforcing
  <2>2. Expected' = conn_agent[c]
    BY <1>2, <2>1 DEF Expected
  <2>3. Enforcement'
    BY <1>2, <2>1, <2>2 DEF Enforcement
  <2>4. Identification'
    BY <2>1 DEF Identification, Identifying
  <2> QED
    BY <2>3, <2>4 DEF QuietOK
<1> QED
  BY <1>1, <1>2

\* An admitted request goes on to be enforced.
LEMMA AdmittedQuiet ==
    ASSUME HookShape, hook # Idle, Admitted, UNCHANGED <<vars, expired>>,
           hook.at \in Identifying,
           "quiet" \in held => /\ conn_agent'[hook.conn] = Expected
                               /\ Expected = None => Admits(policy)
    PROVE  QuietOK'
<1>1. CASE hook.flow = None
  BY <1>1 DEF Admitted, Finish, QuietOK
<1>2. CASE hook.flow # None
  <2>1. hook' = [hook EXCEPT !.at = "crs"] /\ UNCHANGED held
    BY <1>2 DEF Admitted
  <2>2. Advanced("crs", hook.key) /\ hook'.at = "crs"
    BY <2>1 DEF Advanced, HookShape
  <2> QED
    BY <2>1, <2>2, AdvancedSame
       DEF QuietOK, Identification, Identifying, Enforcement, Admits
<1> QED
  BY <1>1, <1>2

LEMMA IdentifyQuiet ==
    ASSUME DataOK, QuietOK, Identify PROVE QuietOK'
<1>1. hook # Idle /\ HookShape /\ hook.conn \in Conn
  BY NotIdle DEF DataOK, HookOK, HookShape
<1>2. ASSUME Identified(Found), hook.at \in {"lookup", "audience"} PROVE QuietOK'
  <2>1. CASE Found = None
    <3>1. Advanced("admit", hook.key)
      BY <1>1, <1>2, <2>1 DEF Identified, Step, Advanced, HookShape, data
    <3> QED
      BY <1>1, <1>2, <2>1, <3>1, AdvancedSame, FoundExpected
         DEF QuietOK, Identification, Identifying, Enforcement, Enforcing
  <2>2. CASE Found # None
    <3>1. /\ conn_agent' = [conn_agent EXCEPT ![hook.conn] = Found] /\ Admitted
          /\ UNCHANGED <<vars, expired>>
      BY <1>2, <2>2 DEF Identified
    <3>2. conn_agent'[hook.conn] = Found
      BY <1>1, <3>1 DEF DataOK, ConnsOK
    <3> QED
      BY <1>1, <1>2, <2>2, <3>1, <3>2, AdmittedQuiet, FoundExpected DEF Identifying
  <2> QED
    BY <2>1, <2>2
<1>3. CASE ReadProxyAuth
  BY <1>2, <1>3 DEF ReadProxyAuth, Found
<1>4. CASE ReadAudience
  BY <1>2, <1>4 DEF ReadAudience, Found
<1>5. CASE ReadJwks
  <2>1. Advanced("audience", hook.cred.key \in DOMAIN policy["jwks"]) /\ hook.at = "jwks"
    BY <1>1, <1>5 DEF ReadJwks, Advanced, HookShape, data
  <2> QED
    BY <1>1, <2>1, AdvancedSame
       DEF QuietOK, Identification, Identifying, Enforcement, Enforcing
<1>6. CASE Admission
  <2>1. CASE Admits(policy) /\ Admitted /\ UNCHANGED <<vars, conn_agent, expired>>
    <3>1. hook.at = "admit"
      BY <1>6 DEF Admission
    <3>2. "quiet" \in held => conn_agent[hook.conn] = Expected \/ hook.flow = None
      BY <1>1, <3>1 DEF QuietOK, Identification, DataOK, HookOK, Identifying
    <3>3. CASE hook.flow = None
      BY <2>1, <3>3 DEF Admitted, Finish, QuietOK
    <3>4. CASE hook.flow # None
      BY <1>1, <2>1, <3>1, <3>2, <3>4, AdmittedQuiet DEF Identifying
    <3> QED
      BY <3>3, <3>4
  <2>2. CASE Finish
    BY <2>2 DEF Finish, QuietOK
  <2> QED
    BY <1>6, <2>1, <2>2 DEF Admission, Leave
<1> QED
  BY <1>3, <1>4, <1>5, <1>6 DEF Identify

LEMMA EnforceQuiet ==
    ASSUME DataOK, QuietOK, Enforce PROVE QuietOK'
<1>1. hook # Idle /\ HookShape
  BY NotIdle DEF DataOK, HookOK
<1>2. ASSUME NEW d, NEW st, Leave(d, st) PROVE QuietOK'
  BY <1>2 DEF Leave, Finish, QuietOK
<1>3. ASSUME NEW at, at \in Enforcing, NEW who, Moved(at, who)
      PROVE  (QuietOK => Enforcement') => QuietOK'
  <2>1. Identification'
    BY <1>3, MovedSame DEF Identification, Enforcing, Identifying
  <2> QED
    BY <2>1 DEF QuietOK
<1>4. CASE "quiet" \notin held
  <2>1. ASSUME NEW at, NEW who, Moved(at, who) PROVE QuietOK'
    BY <1>4, <2>1, MovedSame DEF QuietOK
  <2>2. ASSUME NEW at, Step(at) PROVE QuietOK'
    BY <1>1, <2>1, <2>2, StepMoves
  <2>3. CASE ReadSubject \/ ReadAgent \/ ReadRoles \/ Decide
    BY <1>1, <2>1, <2>3, SubjectMoves, AgentMoves, RolesMove, DecideMoves
  <2>4. CASE GuardCrs \/ Evaluate \/ Block
    BY <1>2, <2>2, <2>4 DEF GuardCrs, Evaluate, Block
  <2>5. CASE GuardMode
    BY <1>1, <1>2, <2>1, <2>2, <2>5, ReadsPinMoves DEF GuardMode, ReadsPin
  <2> QED
    BY <2>3, <2>4, <2>5 DEF Enforce
<1>5. CASE "quiet" \in held
  <2> USE DEF Enforcing
  <2>1. Enforcement
    BY <1>1, <1>5 DEF QuietOK
  <2>2. CASE GuardCrs
    <3>1. CASE policy["crs"] # None /\ Step("mode")
      <4>1. Moved("mode", hook.who) /\ hook.at = "crs"
        BY <1>1, <2>2, <3>1, StepMoves DEF GuardCrs
      <4> QED
        BY <1>3, <2>1, <3>1, <4>1, MovedSame DEF Enforcement, Admits
    <3> QED
      BY <1>2, <2>2, <3>1 DEF GuardCrs
  <2>3. CASE GuardMode
    <3>1. hook.at = "mode"
      BY <2>3 DEF GuardMode
    <3>2. CASE ReadsPin
      <4> DEFINE ident == conn_agent[hook.conn]
                 at == IF ident.roles = None THEN "roles" ELSE "evaluate"
                 who == [subject |-> Or(ident.subject, "unknown"),
                         agent |-> Or(ident.agent, "unknown"), roles |-> ident.roles]
      <4>1. Moved(at, who) /\ at \in {"roles", "evaluate"}
        BY <1>1, <3>2, ReadsPinMoves
      <4>2. ident = Expected /\ ident # None /\ policy["mode"] \in Guarding
        BY <2>1, <3>1, <3>2 DEF Enforcement, ReadsPin
      <4>3. /\ who.subject = WhoIs(Expected).subject /\ who.agent = WhoIs(Expected).agent
            /\ ident.roles # None => who = WhoIs(Expected)
        BY <4>2 DEF WhoIs, Or
      <4>4. Enforcement'
        BY <2>1, <3>1, <4>1, <4>2, <4>3, MovedSame DEF Enforcement, Admits
      <4> QED
        BY <1>3, <4>1, <4>4
    <3>3. CASE policy["mode"] \in Guarding /\ conn_agent[hook.conn] = None /\ Step("subject")
      <4>1. Moved("subject", hook.who)
        BY <1>1, <3>3, StepMoves
      <4> QED
        BY <1>3, <2>1, <3>1, <3>3, <4>1, MovedSame DEF Enforcement, Admits
    <3> QED
      BY <1>2, <2>3, <3>2, <3>3 DEF GuardMode, ReadsPin
  <2>4. CASE ReadSubject
    <3> DEFINE who == [subject |-> Or(subject, "unknown"), agent |-> hook.who.agent,
                       roles |-> hook.who.roles]
    <3>1. Moved("agent", who) /\ hook.at = "subject"
      BY <1>1, <2>4, SubjectMoves DEF ReadSubject
    <3>2. who.subject = WhoIs(Expected).subject
      BY <2>1, <3>1 DEF Enforcement, WhoIs
    <3> QED
      BY <1>3, <2>1, <3>1, <3>2, MovedSame DEF Enforcement, Admits
  <2>5. CASE ReadAgent
    <3> DEFINE who == [subject |-> hook.who.subject, agent |-> Or(agent, "unknown"),
                       roles |-> hook.who.roles]
    <3>1. Moved("roles", who) /\ hook.at = "agent"
      BY <1>1, <2>5, AgentMoves DEF ReadAgent
    <3>2. who.subject = WhoIs(Expected).subject /\ who.agent = WhoIs(Expected).agent
      BY <2>1, <3>1 DEF Enforcement, WhoIs
    <3> QED
      BY <1>3, <2>1, <3>1, <3>2, MovedSame DEF Enforcement, Admits
  <2>6. CASE ReadRoles
    <3> DEFINE who == [subject |-> hook.who.subject, agent |-> hook.who.agent,
                       roles |-> RolesOf(policy["subjects"], hook.who.subject)]
    <3>1. Moved("evaluate", who) /\ hook.at = "roles"
      BY <1>1, <2>6, RolesMove DEF ReadRoles
    <3>2. who = WhoIs(Expected)
      BY <2>1, <3>1 DEF Enforcement, WhoIs, Or
    <3> QED
      BY <1>3, <2>1, <3>1, <3>2, MovedSame DEF Enforcement, Admits
  <2>7. CASE Evaluate
    <3>1. CASE Judged(hook.who, hook.call) = "deny" /\ Step("decide")
      <4>1. Moved("decide", hook.who) /\ hook.at = "evaluate"
        BY <1>1, <2>7, <3>1, StepMoves DEF Evaluate
      <4> QED
        BY <1>3, <2>1, <3>1, <4>1, MovedSame DEF Enforcement, Admits
    <3> QED
      BY <1>2, <2>7, <3>1 DEF Evaluate
  <2>8. CASE Decide
    <3> DEFINE at == IF policy["mode"] = "enforce" THEN "denied" ELSE "flagged"
    <3>1. Moved(at, hook.who) /\ hook.at = "decide" /\ at \in {"denied", "flagged"}
      BY <1>1, <2>8, DecideMoves DEF Decide
    <3> QED
      BY <1>3, <2>1, <3>1, MovedSame DEF Enforcement, Admits
  <2>9. CASE Block
    BY <1>2, <2>9 DEF Block
  <2> QED
    BY <2>2, <2>3, <2>4, <2>5, <2>6, <2>7, <2>8, <2>9 DEF Enforce
<1> QED
  BY <1>4, <1>5

LEMMA NextQuietOK ==
    ASSUME DataOK, QuietOK, [ProxyNext]_allVars PROVE QuietOK'
<1>1. ASSUME UNCHANGED <<subject, agent, policy, expired, hook, conn_agent>>,
             held' \subseteq held
      PROVE  QuietOK'
  <2>1. /\ Expected' = Expected /\ WhoIs(Expected)' = WhoIs(Expected)
        /\ \A who, call : Judged(who, call)' = Judged(who, call)
    BY <1>1, SameExpected
  <2> QED
    BY <1>1, <2>1 DEF QuietOK, Identification, Enforcement, Admits
<1>2. CASE Client
  <2>1. ASSUME NEW c \in Conn, Open(c) PROVE QuietOK'
    BY <1>1, <2>1 DEF Open, vars, shared
  <2>2. ASSUME NEW c \in Conn, client_disconnected(c) PROVE QuietOK'
    BY <2>2 DEF client_disconnected, QuietOK
  <2>3. ASSUME NEW c \in Conn, NEW cred \in Cred \cup {None}, http_connect(c, cred)
        PROVE  QuietOK'
    <3>1. UNCHANGED <<policy, conn_agent>> /\ Begin(c, None, None, cred, LookUp(cred))
      BY <2>3 DEF http_connect, vars, shared, data
    <3> QED
      BY <3>1, BeginQuiet
  <2>4. ASSUME NEW c \in Conn, NEW f \in Flow, NEW call, NEW cred \in Cred \cup {None},
               request(c, f, call, cred)
        PROVE  QuietOK'
    <3>1. /\ UNCHANGED <<policy, conn_agent>> /\ f # None
          /\ IF conn_agent[c] # None THEN Begin(c, f, call, None, "crs")
                                     ELSE Begin(c, f, call, cred, LookUp(cred))
      BY <2>4, NoneAssumption DEF request, vars, shared
    <3> QED
      BY <3>1, BeginQuiet
  <2>5. ASSUME NEW cred, Expire(cred) PROVE QuietOK'
    BY <2>5 DEF Expire, QuietOK
  <2> QED
    BY <1>2, <2>1, <2>2, <2>3, <2>4, <2>5 DEF Client
<1>3. CASE Finished
  BY <1>1, <1>3 DEF Finished, response, UpstreamError, vars, shared
<1>4. CASE Hub
  <2>1. CASE UNCHANGED shared
    BY <1>1, <1>4, <2>1 DEF Hub, shared, data
  <2>2. CASE ~UNCHANGED shared
    BY <1>4, <2>2 DEF Hub, QuietOK
  <2> QED
    BY <2>1, <2>2
<1>5. CASE UNCHANGED allVars
  BY <1>1, <1>5 DEF allVars, vars, shared, data
<1> QED
  BY <1>2, <1>3, <1>4, <1>5, IdentifyQuiet, EnforceQuiet DEF ProxyNext

\* A hook during which the thread writes nothing comes to the identity, the
\* admission and the decision that its one policy calls for.
THEOREM QuietOutcomeHolds == ProxySpec => QuietOutcome
<1> DEFINE Right ==
      Ending /\ "quiet" \in held =>
         /\ Expected # None => conn_agent'[hook.conn] = Expected
         /\ IF hook.flow = None
            THEN conns'[hook.conn] = IF Expected # None \/ Admits(policy)
                                     THEN "tunnel" ELSE "open"
            ELSE /\ flows'[hook.flow].decision =
                      Outcome(Expected, hook.call).decision
                 /\ flows'[hook.flow].status =
                      Outcome(Expected, hook.call).status
<1>1. ASSUME DataOK, QuietOK, [ProxyNext]_allVars PROVE Right
  <2> SUFFICES ASSUME Ending, "quiet" \in held PROVE Right
    OBVIOUS
  <2>1. hook # Idle /\ Identification /\ Enforcement
    BY <1>1 DEF Ending, QuietOK
  <2>2. CASE EndsTunnel
    BY <1>1, <2>1, <2>2, FoundExpected DEF EndsTunnel, Identification
  <2>3. CASE EndsRequest
    <3>1. Expected # None => conn_agent'[hook.conn] = Expected
      BY <2>1, <2>3 DEF EndsRequest, Identification, Enforcement, Enforcing
    <3>2. /\ flows'[hook.flow].decision = Outcome(Expected, hook.call).decision
          /\ flows'[hook.flow].status = Outcome(Expected, hook.call).status
      BY <2>1, <2>3 DEF EndsRequest, Identification, Enforcement, Enforcing, Left,
                        Outcome, Evaluates
    <3> QED
      BY <2>3, <3>1, <3>2 DEF EndsRequest
  <2> QED
    BY <1>1, <2>2, <2>3, Endings
<1>2. ProxyInit => QuietOK
  BY DEF ProxyInit, QuietOK
<1> QED
  BY <1>1, <1>2, InitDataOK, NextDataOK, NextQuietOK, PTL DEF ProxySpec, QuietOutcome
=============================================================================
