----------------------------- MODULE ZplLogger -----------------------------
(***************************************************************************)
(* The data plane of the watcher (zpl_proxy/addon.py): the mitmproxy hooks *)
(* that authenticate a client, evaluate its request against the policy and *)
(* record its response, beside the WatcherHub thread that rewrites that    *)
(* policy.                                                                 *)
(*                                                                         *)
(* Hooks are plain functions run one at a time by the event loop; the      *)
(* thread runs between any two of their reads.  So a hook is a sequence of *)
(* steps, one for each read of a hub attribute, and `hook' says how far it *)
(* has come.  A restart ends every connection and flow and leads to an     *)
(* initial state; WatcherHub has it, this module leaves it out.            *)
(*                                                                         *)
(* mitmproxy is external.  A connection that has made no CONNECT carries   *)
(* one request at a time; one that has is a tunnel, whose requests may     *)
(* overlap.  Any request may have a Proxy-Authorization header, inside a   *)
(* tunnel too.  Each ends in a response hook or, when the upstream or the  *)
(* client goes away, in an error, for which the addon has no hook.         *)
(***************************************************************************)
EXTENDS WatcherHub

CONSTANTS
    Conn,                \* client connections
    Flow,                \* flow ids
    Call,                \* requests: records with fields sse, frame, oversize
    Cred,                \* Proxy-Authorization headers: records, see Resolve
    Verdict(_, _, _, _)  \* checker: rule set, who, kind, call -> allow, deny
                         \* or raise

ASSUME CredAssumption ==
    /\ None \notin Cred
    /\ \A c \in Cred : c.kind \in {"malformed", "static", "jwt"}

\* None is no flow, and no decision or status either.
ASSUME NoneAssumption ==
    /\ None \notin Flow
    /\ None \notin {"allowed", "flagged", "denied"}
    /\ None \notin {403, 407}

VARIABLES
    conns,         \* state of each connection: closed, open or tunnel
    offered,       \* the credential a tunnel was opened with, if none came of it
    conn_agent,    \* self._conn_agent: the identity pinned to it, or None
    flows,         \* the request each flow id stands for, or NoFlow
    start_times,   \* keys of self._start_times
    expired,       \* JWTs whose exp has passed
    hook,          \* the hook being run
    held           \* what has held at every moment of this hook (for the
                   \* properties only)

data == <<conns, offered, conn_agent, flows, start_times, expired>>
allVars == <<vars, data, hook, held>>

\* No hook, and a flow id no request stands for.
Idle == [at |-> "idle"]
NoFlow == [state |-> "free"]

-----------------------------------------------------------------------------
(* Reading a credential: _resolve_proxy_auth.                               *)

\* The bundle's map is searched for the password first, then for the user.
Static(map, cred) ==
    IF cred.token \in DOMAIN map THEN map[cred.token]
    ELSE IF cred.user \in DOMAIN map THEN map[cred.user]
    ELSE None

StaticIdentity(map, cred) ==
    LET entry == Static(map, cred) IN
    IF entry = None THEN None
    ELSE [agent |-> Or(entry.agent, cred.user), subject |-> entry.subject,
          roles |-> entry.roles]

\* verify_delegated, with the key looked up in one bundle's key set and the
\* audience of another, perhaps.  No audience: it is not verified.
Verifies(cred, keyFound, aud) ==
    keyFound /\ aud \in {None, cred.aud} /\ cred \notin expired

\* identity_from_claims: a token without an agent takes the user name.
ClaimedIdentity(cred) ==
    [agent |-> Or(cred.agent, cred.user), subject |-> cred.subject,
     roles |-> cred.roles]

\* All of it at one moment.  A failed JWT does not fall back to the map
\* (addon.py 200; the header of jwt_verify.py says that it does).
Resolve(cred) ==
    IF cred = None \/ cred.kind = "malformed" THEN None
    ELSE IF cred.kind = "static" THEN StaticIdentity(policy["proxy_auth"], cred)
    ELSE IF Verifies(cred, cred.key \in DOMAIN policy["jwks"], policy["audience"])
    THEN ClaimedIdentity(cred) ELSE None

-----------------------------------------------------------------------------
(* Reading a request: which of the three checks _enforce makes.             *)

Kind(call) == IF ~call.sse THEN "http"
              ELSE IF call.frame = "tools/call" /\ ~call.oversize THEN "tool"
              ELSE "handshake"

RolesOf(map, s) == IF s \in DOMAIN map THEN map[s] ELSE None

-----------------------------------------------------------------------------
ProxyInit == /\ Init
             /\ conns = [c \in Conn |-> "closed"]
             /\ offered = [c \in Conn |-> None]
             /\ conn_agent = [c \in Conn |-> None]
             /\ flows = [f \in Flow |-> NoFlow]
             /\ start_times = {}
             /\ expired = {}
             /\ hook = Idle
             /\ held = {}

Holding == {h \in {"evaluates", "gated"} :
               \/ h = "evaluates" /\ Evaluates(policy)
               \/ h = "gated" /\ ~Admits(policy)}

\* Where a hook goes once its Proxy-Authorization header is parsed.
LookUp(cred) == IF cred = None \/ cred.kind = "malformed" THEN "admit"
                ELSE IF cred.kind = "static" THEN "lookup" ELSE "jwks"

Begin(c, f, call, cred, at) ==
    /\ hook = Idle
    /\ hook' = [at |-> at, conn |-> c, flow |-> f, call |-> call, cred |-> cred,
                had |-> IF f = None THEN None ELSE conn_agent[c], key |-> FALSE,
                who |-> [subject |-> None, agent |-> None, roles |-> None]]
    /\ held' = Holding \cup {"quiet"}

Live(c) == {f \in Flow : flows[f] # NoFlow /\ flows[f].conn = c}

\* Nothing but the hook's registers moves.
Step(at) == /\ hook' = [hook EXCEPT !.at = at]
            /\ UNCHANGED <<vars, data, held>>

Finish == hook' = Idle /\ held' = {}

\* The request leaves the hook for its server, or with the proxy's answer.
Leave(decision, status) ==
    /\ flows' = [flows EXCEPT ![hook.flow] =
                   [conn |-> hook.conn,
                    state |-> IF status = None THEN "forwarded" ELSE "answered",
                    ident |-> conn_agent[hook.conn],
                    decision |-> decision, status |-> status]]
    /\ Finish
    /\ UNCHANGED <<vars, conns, offered, conn_agent, start_times, expired>>

-----------------------------------------------------------------------------
(* Clients.                                                                 *)

Open(c) == /\ conns[c] = "closed"
           /\ conns' = [conns EXCEPT ![c] = "open"]
           /\ UNCHANGED <<vars, offered, conn_agent, flows, start_times,
                          expired, hook, held>>

\* http_connect: its header is looked up even if the connection is pinned.
http_connect(c, cred) ==
    /\ conns[c] = "open" /\ Live(c) = {}
    /\ Begin(c, None, None, cred, LookUp(cred))
    /\ UNCHANGED <<vars, data>>

\* Mutant: every request's header is looked up.
RequestRepins(c, f, call, cred) ==
    /\ \/ conns[c] = "open" /\ Live(c) = {}
       \/ conns[c] = "tunnel"
    /\ flows[f] = NoFlow /\ f \notin start_times
    /\ flows' = [flows EXCEPT ![f] =
                   [conn |-> c, state |-> "hook", ident |-> None,
                    decision |-> None, status |-> None]]
    /\ start_times' = start_times \cup {f}
    /\ Begin(c, f, call, cred, LookUp(cred))
    /\ UNCHANGED <<vars, conns, offered, conn_agent, expired>>

\* request: a pinned connection's header is dropped unread, and the request
\* goes straight to enforcement.
request(c, f, call, cred) ==
    /\ \/ conns[c] = "open" /\ Live(c) = {}
       \/ conns[c] = "tunnel"
    /\ flows[f] = NoFlow /\ f \notin start_times
    /\ flows' = [flows EXCEPT ![f] =
                   [conn |-> c, state |-> "hook", ident |-> None,
                    decision |-> None, status |-> None]]
    /\ start_times' = start_times \cup {f}
    /\ IF conn_agent[c] # None THEN Begin(c, f, call, None, "crs")
                               ELSE Begin(c, f, call, cred, LookUp(cred))
    /\ UNCHANGED <<vars, conns, offered, conn_agent, expired>>

\* Mutant: the pin outlives the connection.
DisconnectKeepsPin(c) ==
    /\ hook = Idle /\ conns[c] # "closed"
    /\ conns' = [conns EXCEPT ![c] = "closed"]
    /\ offered' = [offered EXCEPT ![c] = None]
    /\ flows' = [f \in Flow |-> IF f \in Live(c) THEN NoFlow ELSE flows[f]]
    /\ UNCHANGED <<vars, conn_agent, start_times, expired, hook, held>>

\* client_disconnected.  Requests under way end in errors: they are dropped
\* unrecorded and their start times stay behind.
client_disconnected(c) ==
    /\ hook = Idle /\ conns[c] # "closed"
    /\ conns' = [conns EXCEPT ![c] = "closed"]
    /\ offered' = [offered EXCEPT ![c] = None]
    /\ conn_agent' = [conn_agent EXCEPT ![c] = None]
    /\ flows' = [f \in Flow |-> IF f \in Live(c) THEN NoFlow ELSE flows[f]]
    /\ UNCHANGED <<vars, start_times, expired, hook, held>>

Expire(cred) == /\ cred.kind = "jwt" /\ cred \notin expired
                /\ expired' = expired \cup {cred}
                /\ held' = held \ {"quiet"}
                /\ UNCHANGED <<vars, conns, offered, conn_agent, flows,
                               start_times, hook>>

-----------------------------------------------------------------------------
(* Identification and admission, of a CONNECT (flow None) or a request.     *)

\* A CONNECT that is let through becomes a tunnel; a request is enforced.
Admitted ==
    IF hook.flow = None
    THEN /\ conns' = [conns EXCEPT ![hook.conn] = "tunnel"]
         /\ offered' = [offered EXCEPT ![hook.conn] =
                          IF hook.at = "admit" THEN hook.cred ELSE None]
         /\ Finish
    ELSE /\ hook' = [hook EXCEPT !.at = "crs"]
         /\ UNCHANGED <<conns, offered, held>>

Identified(ident) ==
    IF ident = None
    THEN Step("admit")
    ELSE /\ conn_agent' = [conn_agent EXCEPT ![hook.conn] = ident]
         /\ Admitted
         /\ UNCHANGED <<vars, flows, start_times, expired>>

ReadProxyAuth == /\ hook.at = "lookup"
                 /\ Identified(StaticIdentity(policy["proxy_auth"], hook.cred))

ReadJwks == /\ hook.at = "jwks"
            /\ hook' = [hook EXCEPT !.at = "audience",
                           !.key = hook.cred.key \in DOMAIN policy["jwks"]]
            /\ UNCHANGED <<vars, data, held>>

ReadAudience ==
    /\ hook.at = "audience"
    /\ Identified(IF Verifies(hook.cred, hook.key, policy["audience"])
                  THEN ClaimedIdentity(hook.cred) ELSE None)

\* Mutant: only requests are refused, never a CONNECT.
AdmitsTunnels ==
    /\ hook.at = "admit"
    /\ \/ /\ Admits(policy) \/ hook.flow = None
          /\ Admitted
          /\ UNCHANGED <<vars, conn_agent, flows, start_times, expired>>
       \/ /\ ~Admits(policy) /\ hook.flow # None
          /\ Leave(None, 407)

\* _admission_enforced and _reject_407.  A refused CONNECT may be tried again.
Admission ==
    /\ hook.at = "admit"
    /\ \/ /\ Admits(policy) /\ Admitted
          /\ UNCHANGED <<vars, conn_agent, flows, start_times, expired>>
       \/ /\ ~Admits(policy) /\ hook.flow # None
          /\ Leave(None, 407)
       \/ /\ ~Admits(policy) /\ hook.flow = None
          /\ Finish
          /\ UNCHANGED <<vars, data>>

-----------------------------------------------------------------------------
(* _enforce.                                                                *)

GuardCrs == /\ hook.at = "crs"
            /\ IF policy["crs"] = None THEN Leave(None, None) ELSE Step("mode")

\* Mutant: the roles are always those of the bundle's subjects.
GuardModeDropsRoles ==
    /\ hook.at = "mode"
    /\ IF policy["mode"] \notin Guarding THEN Leave(None, None)
       ELSE LET ident == conn_agent[hook.conn] IN
            IF ident = None THEN Step("subject")
            ELSE /\ hook' = [hook EXCEPT
                       !.at = "roles",
                       !.who = [subject |-> Or(ident.subject, "unknown"),
                                agent |-> Or(ident.agent, "unknown"),
                                roles |-> None]]
                 /\ UNCHANGED <<vars, data, held>>

\* Mutant: only enforce is a mode that evaluates.
GuardModeEnforceOnly ==
    /\ hook.at = "mode"
    /\ IF policy["mode"] # "enforce" THEN Leave(None, None) ELSE Step("subject")

\* A pinned connection brings its own identity and, maybe, roles.
GuardMode ==
    /\ hook.at = "mode"
    /\ IF policy["mode"] \notin Guarding THEN Leave(None, None)
       ELSE LET ident == conn_agent[hook.conn] IN
            IF ident = None THEN Step("subject")
            ELSE /\ hook' = [hook EXCEPT
                       !.at = IF ident.roles = None THEN "roles" ELSE "evaluate",
                       !.who = [subject |-> Or(ident.subject, "unknown"),
                                agent |-> Or(ident.agent, "unknown"),
                                roles |-> ident.roles]]
                 /\ UNCHANGED <<vars, data, held>>

ReadSubject ==
    /\ hook.at = "subject"
    /\ hook' = [hook EXCEPT !.at = "agent", !.who.subject = Or(subject, "unknown")]
    /\ UNCHANGED <<vars, data, held>>

ReadAgent ==
    /\ hook.at = "agent"
    /\ hook' = [hook EXCEPT !.at = "roles", !.who.agent = Or(agent, "unknown")]
    /\ UNCHANGED <<vars, data, held>>

ReadRoles ==
    /\ hook.at = "roles"
    /\ hook' = [hook EXCEPT !.at = "evaluate",
                   !.who.roles = RolesOf(policy["subjects"], hook.who.subject)]
    /\ UNCHANGED <<vars, data, held>>

\* The attribute is read again; None, or a check that raises, fails open.
Judged(who, call) == IF policy["crs"] = None THEN "raise"
                     ELSE Verdict(policy["crs"], who, Kind(call), call)

Evaluate ==
    /\ hook.at = "evaluate"
    /\ \/ Judged(hook.who, hook.call) = "raise" /\ Leave(None, None)
       \/ Judged(hook.who, hook.call) = "allow" /\ Leave("allowed", None)
       \/ Judged(hook.who, hook.call) = "deny" /\ Step("decide")

\* The mode is read once for what is reported ...
Decide ==
    /\ hook.at = "decide"
    /\ hook' = [hook EXCEPT !.at = IF policy["mode"] = "enforce"
                                   THEN "denied" ELSE "flagged"]
    /\ UNCHANGED <<vars, data, held>>

\* ... and once more for what is done.
Block == /\ hook.at \in {"denied", "flagged"}
         /\ Leave(hook.at, IF policy["mode"] = "enforce" THEN 403 ELSE None)

-----------------------------------------------------------------------------
(* The end of a request.                                                    *)

\* response: the server has answered (status None here) or the proxy has.
\* What _record does with it is outside this module.
response(f) ==
    /\ hook = Idle
    /\ flows[f] # NoFlow /\ flows[f].state \in {"forwarded", "answered"}
    /\ start_times' = start_times \ {f}
    /\ flows' = [flows EXCEPT ![f] = NoFlow]
    /\ UNCHANGED <<vars, conns, offered, conn_agent, expired, hook, held>>

\* The server goes away: no response hook, and no hook of the addon's.
UpstreamError(f) ==
    /\ hook = Idle
    /\ flows[f] # NoFlow /\ flows[f].state = "forwarded"
    /\ flows' = [flows EXCEPT ![f] = NoFlow]
    /\ UNCHANGED <<vars, conns, offered, conn_agent, start_times, expired,
                   hook, held>>

-----------------------------------------------------------------------------
Client == \/ \E c \in Conn : Open(c) \/ client_disconnected(c)
          \/ \E c \in Conn, cred \in Cred \cup {None} : http_connect(c, cred)
          \/ \E c \in Conn, f \in Flow, call \in Call, cred \in Cred \cup {None} :
                request(c, f, call, cred)
          \/ \E cred \in Cred : Expire(cred)

Identify == ReadProxyAuth \/ ReadJwks \/ ReadAudience \/ Admission

Enforce == \/ GuardCrs \/ GuardMode \/ ReadSubject \/ ReadAgent \/ ReadRoles
           \/ Evaluate \/ Decide \/ Block

Finished == \E f \in Flow : response(f) \/ UpstreamError(f)

\* Mutant: a change of the policy drops the pins.
HubDropsPins ==
    /\ Thread \/ Publish \/ EditIdentity
    /\ conn_agent' = IF policy' = policy THEN conn_agent
                     ELSE [c \in Conn |-> None]
    /\ held' = {}
    /\ UNCHANGED <<conns, offered, flows, start_times, expired, hook>>

\* The hub thread, between two steps of the event loop.
Hub == /\ Thread \/ Publish \/ EditIdentity
       /\ held' = IF hook = Idle THEN {}
                  ELSE {h \in held : \/ h = "quiet" /\ UNCHANGED shared
                                     \/ h = "evaluates" /\ Evaluates(policy')
                                     \/ h = "gated" /\ ~Admits(policy')}
       /\ UNCHANGED <<data, hook>>

ProxyNext == Client \/ Identify \/ Enforce \/ Finished \/ Hub

ProxySpec == ProxyInit /\ [][ProxyNext]_allVars

-----------------------------------------------------------------------------
(* Properties.                                                              *)

\* A hook has a live flow, unless it is a CONNECT; what is pinned is pinned to
\* an open connection; a request that has a start time is under way or was
\* lost; only evaluated requests carry a decision.
ProxyTypeOK ==
    /\ \A c \in Conn :
         /\ conns[c] \in {"closed", "open", "tunnel"}
         /\ offered[c] \in Cred \cup {None}
         /\ conns[c] = "closed" => conn_agent[c] = None /\ Live(c) = {}
    /\ \A f \in Flow : flows[f] # NoFlow =>
         /\ f \in start_times
         /\ flows[f].conn \in Conn
         /\ flows[f].status \in {None, 403, 407}
         /\ flows[f].decision \in {None, "allowed", "flagged", "denied"}
         /\ flows[f].state = "hook" <=> hook # Idle /\ hook.flow = f

Ending == hook # Idle /\ hook' = Idle

\* The identity a hook should come to, at this moment.
Expected == IF hook.flow # None /\ hook.had # None THEN hook.had
            ELSE Resolve(hook.cred)

WhoIs(ident) ==
    LET s == Or(IF ident = None THEN subject ELSE ident.subject, "unknown")
        own == IF ident = None THEN None ELSE ident.roles
    IN [subject |-> s,
        agent |-> Or(IF ident = None THEN agent ELSE ident.agent, "unknown"),
        roles |-> Or(own, RolesOf(policy["subjects"], s))]

\* What _enforce's docstring promises for one policy: enforce -> 403 on deny,
\* flag -> let through, otherwise, or when the check raises, no opinion.
Outcome(ident, call) ==
    IF ident = None /\ ~Admits(policy)
    THEN [decision |-> None, status |-> 407]
    ELSE IF ~Evaluates(policy) THEN [decision |-> None, status |-> None]
    ELSE LET v == Judged(WhoIs(ident), call) IN
         IF v = "raise" THEN [decision |-> None, status |-> None]
         ELSE IF v = "allow" THEN [decision |-> "allowed", status |-> None]
         ELSE IF policy["mode"] = "enforce"
         THEN [decision |-> "denied", status |-> 403]
         ELSE [decision |-> "flagged", status |-> None]

\* A hook during which the thread writes nothing comes to the identity, the
\* admission and the decision that its one policy calls for.
QuietOutcome ==
    [][Ending /\ "quiet" \in held =>
         /\ Expected # None => conn_agent'[hook.conn] = Expected
         /\ IF hook.flow = None
            THEN conns'[hook.conn] = IF Expected # None \/ Admits(policy)
                                     THEN "tunnel" ELSE "open"
            ELSE /\ flows'[hook.flow].decision =
                      Outcome(Expected, hook.call).decision
                 /\ flows'[hook.flow].status =
                      Outcome(Expected, hook.call).status]_allVars

\* While the policy asks for evaluation throughout, no request slips past it,
\* whatever the thread writes meanwhile: it is rejected for want of an
\* identity, or judged, or its check raised.
NoneSlipsPast ==
    [][Ending /\ "evaluates" \in held /\ hook.flow # None
         => \/ flows'[hook.flow].status = 407
            \/ flows'[hook.flow].decision # None
            \/ hook.at = "evaluate"
               /\ Judged(hook.who, hook.call) = "raise"
               /\ policy["crs"] # None]_allVars

\* While credentials are required throughout, a hook that comes to no identity
\* ends in a 407, whatever the thread writes meanwhile ("no identity, no
\* service").
NoIdentityNoService ==
    [][Ending /\ "gated" \in held /\ conn_agent'[hook.conn] = None
         => IF hook.flow = None THEN conns'[hook.conn] # "tunnel"
            ELSE flows'[hook.flow].status = 407]_allVars

\* An identity stays with its connection until the connection is closed or
\* makes a CONNECT: no later request's header, and no bundle, changes it.
PinStays ==
    [][\A c \in Conn : conn_agent[c] # None /\ conn_agent'[c] # conn_agent[c]
         => \/ conns'[c] = "closed"
            \/ hook # Idle /\ hook.conn = c /\ hook.flow = None]_allVars

\* _record attributes a request to the identity it was judged under, the pin
\* being read again at the response, with one exception: in a tunnel that has
\* no identity an overlapping request may bring one, and what was judged as
\* the guard's own is then recorded as that agent's.
RecordedAsJudged ==
    \A f \in Flow : flows[f] # NoFlow /\ flows[f].decision # None
        => \/ conn_agent[flows[f].conn] = flows[f].ident
           \/ flows[f].ident = None /\ conns[flows[f].conn] = "tunnel"

(* Two that the code does not have.                                         *)

\* A blocked request is one that some bundle in mode enforce denies ("enforce
\* -> 403 on deny; flag -> log the would-be-deny, don't block").
BlockJustified ==
    [][Ending /\ hook.at \in {"denied", "flagged"}
              /\ flows'[hook.flow].status = 403
         => \E v \in Version :
               /\ PolicyOf(v)["mode"] = "enforce"
               /\ PolicyOf(v)["crs"] \notin {None, Failure, Hang}
               /\ Verdict(PolicyOf(v)["crs"], hook.who,
                          Kind(hook.call), hook.call)
                    = "deny"]_allVars

\* A tunnel that was opened with a credential which the policy in force knows
\* is not refused for want of one, the client sending it with the CONNECT only
\* ("... so the agent isn't bricked at startup").
TunnelNotBricked ==
    [][Ending /\ "quiet" \in held
              /\ hook.at = "admit" /\ conns[hook.conn] = "tunnel"
              /\ hook.cred = None
              /\ flows'[hook.flow].status = 407
         => Resolve(offered[hook.conn]) = None]_allVars
=============================================================================
