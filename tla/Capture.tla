------------------------------ MODULE Capture ------------------------------
(***************************************************************************)
(* What becomes of a request once it is answered (zpl_proxy/addon.py, from *)
(* the second half of response on): it is attributed, written to the       *)
(* forensic log, folded into the egress aggregate and shown in the tail;   *)
(* in between, at most once an hour, the stores are pruned and the free    *)
(* space of the disk is looked at.  Meanwhile the hub's thread prunes the  *)
(* aggregate on an administrator's command.                                *)
(*                                                                         *)
(* The event loop takes one request through all steps before the next; the *)
(* hub's thread runs between any two of them.  Time passes while the loop  *)
(* is idle, and once while it waits for the log's lock: an hour may end    *)
(* there.  When the disk is full, a step that writes may raise.  The log   *)
(* itself is the module ForensicLog; here it is open, or closed for good   *)
(* by a rotation that failed half-way.                                     *)
(***************************************************************************)
EXTENDS IdentityResolver, EgressAggregate, Sequences

CONSTANTS
    Request,       \* answered requests: what attribution and storing look at
    Uptime,        \* how long the host has been up when the proxy starts
    Retention,     \* retention_days
    PruneAge,      \* the ages an administrator may prune by
    TailMax,       \* the tail's maxlen
    MaxTime, MaxRequests, MaxFaults      \* bounds

ASSUME CaptureAssumption ==
    /\ \A r \in Request : /\ r.peer \in Peer /\ r.header \in Name \cup {None}
                          /\ r.pinned = None \/ DOMAIN r.pinned = {"agent", "subject"}
                          /\ r.endpoint \in DOMAIN normal
    /\ Uptime \in Nat /\ Retention \in Nat \ {0} /\ TailMax \in Nat \ {0}
    /\ PruneAge \subseteq Nat
    /\ {MaxTime, MaxRequests, MaxFaults} \subseteq Nat

VARIABLES
    booted,        \* when the host was booted: the zero of time.monotonic
    disk,          \* "ample", "low" (less than 200 MB) or "full"
    up,            \* the proxy runs
    log_open,      \* self._jsonl can be written
    rec,           \* the request in hand, and the step it is at
    capture_paused, last_maintain, tail

\* For the properties and the bounds.
VARIABLES
    n,             \* requests so far: their ids are 1..n
    folded,        \* the ids in the aggregate, now or once
    excused,       \* the ids that a fault kept out of it
    low,           \* while space is low: for how long, at most an hour, the
                   \* proxy has run with it, the lines written after that
                   \* hour, and whether an upkeep has raised
    clean,         \* the last prune by the upkeep succeeded
    faults         \* what the host, Docker and the administrator did so far

resolver == <<now, docker, cache, settled>>
store == <<rows, kept>>
host == <<booted, disk, up>>
proxy == <<log_open, capture_paused, last_maintain, tail>>
history == <<n, folded, excused, low, clean>>
vars == <<resolver, store, host, proxy, rec, history, faults>>

Idle == [at |-> "idle", event |-> None]
LowNow == [age |-> 0, lines |-> 0, raised |-> FALSE]
At(step) == rec.at = step
Goto(step) == rec' = [rec EXCEPT !.at = step]

Init == /\ ResolverInit /\ AggregateInit
        /\ booted = -Uptime /\ disk = "ample" /\ up = TRUE /\ log_open = TRUE
        /\ rec = Idle /\ capture_paused = FALSE /\ last_maintain = 0
        /\ tail = <<>>
        /\ n = 0 /\ folded = {} /\ excused = {}
        /\ low = None /\ clean = TRUE
        /\ faults = 0

-----------------------------------------------------------------------------
(* The event loop.                                                          *)

\* Who it is counted for: unknown is nobody, and the hub puts the guard's name.
Attribution(req) ==
    IF req.pinned # None THEN req.pinned
    ELSE IF Resolved(req) = Nobody THEN [agent |-> "", subject |-> ""]
    ELSE [agent |-> Resolved(req).agent, subject |-> ""]

\* response: attribute, and make the record.
Respond(req) ==
    /\ up /\ At("idle") /\ n < MaxRequests
    /\ IF req.pinned = None THEN Resolve(req) ELSE UNCHANGED cache
    /\ n' = n + 1
    /\ rec' = [at |-> "write",
               event |-> [id |-> n + 1, endpoint |-> req.endpoint, ts |-> now,
                          status |-> req.status, keys |-> req.keys,
                          agent |-> Attribution(req).agent,
                          subject |-> Attribution(req).subject]]
    /\ UNCHANGED <<now, docker, settled, store, host, proxy,
                   folded, excused, low, clean, faults>>

TooLate == low # None /\ low.age = PerHour

WriteLine ==
    /\ At("write") /\ ~capture_paused /\ log_open
    /\ low' = IF TooLate THEN [low EXCEPT !.lines = @ + 1] ELSE low
    /\ Goto("upkeep")
    /\ UNCHANGED <<resolver, store, host, proxy, n, folded, excused, clean, faults>>

\* Mutant: a paused capture ends the whole recording.
SkipAll ==
    /\ At("write") /\ capture_paused
    /\ rec' = Idle
    /\ UNCHANGED <<resolver, store, host, proxy, history, faults>>

\* Mutant: a paused capture skips the upkeep too.
SkipUpkeep ==
    /\ At("write") /\ capture_paused
    /\ Goto("fold")
    /\ UNCHANGED <<resolver, store, host, proxy, history, faults>>

SkipLine ==
    /\ At("write") /\ capture_paused
    /\ Goto("upkeep")
    /\ UNCHANGED <<resolver, store, host, proxy, history, faults>>

\* The hook ends here: no upkeep, no folding, no entry in the tail.
WriteRaises ==
    /\ At("write") /\ ~capture_paused
    /\ \/ ~log_open /\ UNCHANGED <<log_open, faults>>
       \/ disk = "full" /\ UNCHANGED <<log_open, faults>>
       \/ /\ log_open /\ faults < MaxFaults          \* a rotation that fails
          /\ log_open' = FALSE /\ faults' = faults + 1
    /\ excused' = excused \cup {n}
    /\ rec' = Idle
    /\ UNCHANGED <<resolver, store, host, capture_paused, last_maintain, tail,
                   n, folded, low, clean>>

\* Mutant: capture is paused when there is no space left at all.
PausedLate == disk = "full"

Due == (now - booted) - last_maintain >= PerHour

\* Pause capture when less than 200 MB are free.
Paused == disk # "ample"

UpkeepNotDue ==
    /\ At("upkeep") /\ ~Due
    /\ Goto("fold")
    /\ UNCHANGED <<resolver, store, host, proxy, history, faults>>

\* The time is noted first, then the rows are pruned and the disk looked at.
Upkeep ==
    /\ At("upkeep") /\ Due
    /\ last_maintain' = now - booted
    /\ Prune(now - Retention)
    /\ capture_paused' = Paused
    /\ clean' = TRUE
    /\ Goto("fold")
    /\ UNCHANGED <<resolver, host, log_open, tail, n, folded, excused, low, faults>>

\* The prune raises: the disk is not looked at for another hour.
UpkeepRaises ==
    /\ At("upkeep") /\ Due /\ disk = "full"
    /\ last_maintain' = now - booted
    /\ clean' = FALSE
    /\ low' = [low EXCEPT !.raised = TRUE]
    /\ Goto("fold")
    /\ UNCHANGED <<resolver, store, host, log_open, capture_paused, tail,
                   n, folded, excused, faults>>

ShowInTail ==
    tail' = IF Len(tail) < TailMax THEN Append(tail, n) ELSE Append(Tail(tail), n)

Fold ==
    /\ At("fold")
    /\ Record(rec.event)
    /\ ShowInTail
    /\ folded' = folded \cup {n}
    /\ rec' = Idle
    /\ UNCHANGED <<resolver, host, log_open, capture_paused, last_maintain,
                   n, excused, low, clean, faults>>

\* Caught: the request is still shown in the tail.
FoldRaises ==
    /\ At("fold") /\ disk = "full"
    /\ ShowInTail
    /\ excused' = excused \cup {n}
    /\ rec' = Idle
    /\ UNCHANGED <<resolver, store, host, log_open, capture_paused, last_maintain,
                   n, folded, low, clean, faults>>

-----------------------------------------------------------------------------
(* The hub's thread: prune_local, of whose steps only the first matters     *)
(* here.  Its cutoff is the year 9999, or so many days ago.                 *)

AdminPrunes(cutoff) ==
    /\ up /\ faults < MaxFaults
    /\ Prune(cutoff)
    /\ faults' = faults + 1
    /\ UNCHANGED <<resolver, host, proxy, rec, history>>

AdminPrune == \/ AdminPrunes(now + PerHour)
              \/ \E age \in PruneAge : AdminPrunes(now - age)

-----------------------------------------------------------------------------
(* The host.                                                                *)

Tick == /\ \/ At("idle")
           \/ At("write") /\ rec.event.ts = now
        /\ now < MaxTime
        /\ TimePasses
        /\ low' = IF low = None \/ low.age = PerHour THEN low ELSE [low EXCEPT !.age = @ + 1]
        /\ UNCHANGED <<store, host, proxy, rec, n, folded, excused, clean, faults>>

DiskChanges(space) ==
    /\ disk # space /\ faults < MaxFaults
    /\ disk' = space /\ faults' = faults + 1
    /\ low' = IF space = "ample" THEN None
              ELSE IF disk = "ample" THEN LowNow
              ELSE low
    /\ UNCHANGED <<resolver, store, booted, up, proxy, rec, n, folded, excused, clean>>

Moves(p, name) ==
    /\ faults < MaxFaults
    /\ DockerMoves(p, name)
    /\ faults' = faults + 1
    /\ UNCHANGED <<store, host, proxy, rec, history>>

\* done, or a crash: the hub's thread is not waited for, and only the database
\* and the log survive.
Stop ==
    /\ up /\ faults < MaxFaults
    /\ up' = FALSE /\ faults' = faults + 1
    /\ excused' = excused \cup (1..n \ folded)
    /\ rec' = Idle
    /\ log_open' = TRUE /\ capture_paused' = FALSE /\ last_maintain' = 0
    /\ tail' = <<>>
    /\ cache' = [p \in Peer |-> None]
    /\ UNCHANGED <<now, docker, settled, store, booted, disk, n, folded, low, clean>>

\* _ensure_init, after a reboot of the host or without one.
Start(reboot) ==
    /\ ~up
    /\ up' = TRUE
    /\ booted' = IF reboot THEN now ELSE booted
    /\ low' = IF disk = "ample" THEN low ELSE LowNow
    /\ UNCHANGED <<resolver, store, disk, proxy, rec, n, folded, excused, clean, faults>>

Loop == \/ \E req \in Request : Respond(req)
        \/ WriteLine \/ SkipLine \/ WriteRaises
        \/ UpkeepNotDue \/ Upkeep \/ UpkeepRaises
        \/ Fold \/ FoldRaises

Host == \/ Tick
        \/ \E space \in {"ample", "low", "full"} : DiskChanges(space)
        \/ \E p \in Peer, name \in Container \cup {None} : Moves(p, name)
        \/ Stop
        \/ \E reboot \in BOOLEAN : Start(reboot)

Next == Loop \/ AdminPrune \/ Host

Spec == Init /\ [][Next]_vars

-----------------------------------------------------------------------------
(* Properties.                                                              *)

\* The variables have their types (addon.py and aggregate.py's fields).
CaptureTypeOK ==
    /\ ResolverTypeOK
    /\ booted \in Int /\ disk \in {"ample", "low", "full"}
    /\ {up, log_open, capture_paused, clean} \subseteq BOOLEAN
    /\ rec.at \in {"idle", "write", "upkeep", "fold"}
    /\ At("idle") => rec.event = None
    /\ last_maintain \in Nat
    /\ tail \in Seq(1..n)
    /\ folded \subseteq 1..n /\ excused \subseteq 1..n

\* What the hub pulls for a window is what was recorded in the hours it
\* touches, each request once and under its agent and endpoint, with the first
\* and last time, the last status and all names of parameters: whatever was
\* pruned, or was lost on the way, in between (record, query, prune).
SlicesExact ==
    \A from \in 0..now : \A to \in from..now :
        Query(from, to) = Grouped({e \in kept : Hour(from) <= Hour(e.ts)
                                                 /\ Hour(e.ts) <= Hour(to)})

\* Retention takes nothing that is younger than it says, however the hours
\* fall, and a prune by days no event of those days (the cutoffs of
\* _maybe_maintain and prune_local).
PruneSpares ==
    [][\A e \in kept \ kept' :
          \/ now - e.ts > Retention
          \/ \E age \in PruneAge : AdminPrunes(now - age) /\ now - e.ts > age
          \/ AdminPrunes(now + PerHour)]_vars

\* Once a request has passed the upkeep, the aggregate holds nothing that is
\* two hours past its retention: the hour between two upkeeps, and the hour a
\* row covers.  Not so in the first hour after the host was booted, nor after
\* an upkeep that raised (_maybe_maintain).
RetentionBound ==
    At("fold") /\ clean /\ now - booted >= PerHour =>
        \A e \in kept : now - e.ts < Retention + 2 * PerHour

\* When space stays low for an hour, at most one more line is written before
\* capture is paused: the one of the request that finds out (the order of
\* write and _maybe_maintain).  Unless an upkeep raised in that time, in the
\* prune, before it looked at the disk: then capture goes on for another hour,
\* and with each that raises for one more, but the first that does not raise
\* pauses it.
LowDiskPauses ==
    low # None => /\ low.lines <= 1 \/ low.raised
                  /\ At("fold") /\ TooLate /\ clean => capture_paused

\* An answer of the cache outlives no change by more than the time that answer
\* is cached for: when a container has been at an address that long, its
\* traffic is counted for it, whatever a header says, and when it has been gone
\* that long, nothing is (resolve_sync).
AttributionCatchesUp ==
    \A req \in Request :
        LET who == Resolved(req)
        IN static[req.peer] = None /\ settled[req.peer] >= TtlOf(who) =>
               IF docker[req.peer] = None
               THEN who.source # "docker"
               ELSE who = From("docker", docker[req.peer])

\* Every request that was answered is in the aggregate, or was, and is in the
\* tail until TailMax later ones are: a paused capture, an upkeep that raises
\* or a prune by the hub lose none.  Those lost are of a log or an aggregate
\* that raised, or of a proxy that was stopped (addon.py 393-427).
EveryRequestRecorded ==
    /\ 1..n \ (folded \cup excused) \subseteq (IF At("idle") THEN {} ELSE {n})
    /\ Len(tail) <= TailMax
    /\ At("idle") /\ tail # <<>> =>
          /\ \A i \in 1..Len(tail) - 1 : tail[i] < tail[i + 1]
          /\ \A id \in folded : id > tail[1] => \E i \in 1..Len(tail) : tail[i] = id
=============================================================================
