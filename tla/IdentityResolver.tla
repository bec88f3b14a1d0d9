-------------------------- MODULE IdentityResolver --------------------------
(***************************************************************************)
(* Whose traffic it is when no credential says so (zpl_proxy/identity.py,  *)
(* class IdentityResolver): a static table, the container that Docker has  *)
(* at the peer's address, a header of the request, or nobody.  The answer  *)
(* is cached by the peer's address.                                        *)
(*                                                                         *)
(* Only the event loop uses it, one request at a time.  Docker is          *)
(* external: containers come and go, and an address that Docker names no   *)
(* container for is one it has none at or cannot be asked about.           *)
(***************************************************************************)
EXTENDS Integers

CONSTANTS
    None,
    Peer,          \* addresses of clients
    Name,          \* names of agents
    Container,     \* those that name a container
    static,        \* the configured identities: peer -> name, or None
    Ttl,           \* docker_cache_ttl
    UnknownTtl     \* how long `unknown' is cached

ASSUME ResolverAssumption ==
    /\ None \notin Name /\ Container \subseteq Name
    /\ static \in [Peer -> Name \cup {None}]
    /\ {Ttl, UnknownTtl} \subseteq Nat

VARIABLES
    now,           \* the time
    docker,        \* the container at each address, or None
    cache,         \* self._cache: who and until when, or None
    settled        \* how long docker[p] has been what it is, Longest or more
                   \* being Longest (for the properties only)

Nobody == [agent |-> "unknown", source |-> "unknown"]
From(source, name) == [agent |-> name, source |-> source]

\* How long an answer is cached; either may be the longer.
TtlOf(who) == IF who = Nobody THEN UnknownTtl ELSE Ttl
Longest == IF Ttl < UnknownTtl THEN UnknownTtl ELSE Ttl

\* What a lookup gives now.
Lookup(req) ==
    IF static[req.peer] # None THEN From("static", static[req.peer])
    ELSE IF docker[req.peer] # None THEN From("docker", docker[req.peer])
    ELSE IF req.header # None THEN From("header", req.header)
    ELSE Nobody

Cached(req) == cache[req.peer] # None /\ now < cache[req.peer].expires

Resolved(req) == IF Cached(req) THEN cache[req.peer].who ELSE Lookup(req)

Remember(p, who) ==
    cache' = [cache EXCEPT ![p] = [who |-> who, expires |-> now + TtlOf(who)]]

\* Mutant: a hit prolongs the entry.
ResolveSliding(req) == Remember(req.peer, Resolved(req))

\* resolve_sync: the answer, and the cache behind it.
Resolve(req) ==
    IF Cached(req) THEN UNCHANGED cache ELSE Remember(req.peer, Lookup(req))

\* Docker starts, stops or replaces a container, or goes away or comes back.
DockerMoves(p, name) ==
    /\ docker[p] # name
    /\ docker' = [docker EXCEPT ![p] = name]
    /\ settled' = [settled EXCEPT ![p] = 0]
    /\ UNCHANGED <<now, cache>>

TimePasses ==
    /\ now' = now + 1
    /\ settled' = [p \in Peer |-> IF settled[p] < Longest THEN settled[p] + 1 ELSE Longest]
    /\ UNCHANGED <<docker, cache>>

ResolverInit == /\ now = 0
                /\ docker \in [Peer -> Container \cup {None}]
                /\ cache = [p \in Peer |-> None]
                /\ settled = [p \in Peer |-> Longest]

ResolverTypeOK ==
    /\ now \in Nat
    /\ docker \in [Peer -> Container \cup {None}]
    /\ settled \in [Peer -> 0..Longest]
    /\ \A p \in Peer : cache[p] # None =>
          /\ cache[p].expires \in Nat
          /\ cache[p].who = Nobody \/ cache[p].who.agent \in Name
=============================================================================
