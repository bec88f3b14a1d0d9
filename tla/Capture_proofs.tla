--------------------------- MODULE Capture_proofs ---------------------------
(***************************************************************************)
(* Proofs about Capture, for every number of addresses, agents, endpoints  *)
(* and requests, every retention, cache time and length of an hour, and    *)
(* whatever the host, Docker and the administrator do.                     *)
(*                                                                         *)
(* RecOK is about the steps of the recording and the clocks.  Each theorem *)
(* adds one invariant of its own to it.                                    *)
(***************************************************************************)
EXTENDS Capture, FiniteSetTheorems, WellFoundedInduction, TLAPS

-----------------------------------------------------------------------------
(* Hours.                                                                   *)

LEMMA Product ==
    ASSUME NEW a \in Int, NEW b \in Int, NEW d \in Nat \ {0}, a < b
    PROVE  d * a + d <= d * b
  OBVIOUS

LEMMA HourBounds ==
    ASSUME NEW t \in Int
    PROVE  /\ Hour(t) \in Int
           /\ PerHour * Hour(t) <= t /\ t < PerHour * Hour(t) + PerHour
  BY AggregateAssumption DEF Hour

\* An earlier time is in no later hour.
LEMMA HourMonotone ==
    ASSUME NEW s \in Int, NEW t \in Int, s <= t PROVE Hour(s) <= Hour(t)
<1> SUFFICES ASSUME Hour(t) < Hour(s) PROVE FALSE
  BY HourBounds
<1>1. PerHour * Hour(t) + PerHour <= PerHour * Hour(s)
  BY HourBounds, Product, AggregateAssumption
<1>2. t < PerHour * Hour(t) + PerHour /\ PerHour * Hour(s) <= s
  BY HourBounds
<1>3. PerHour * Hour(t) \in Int /\ PerHour * Hour(s) \in Int
  BY HourBounds, AggregateAssumption
<1> QED
  BY <1>1, <1>2, <1>3, AggregateAssumption

\* A time in no earlier hour is less than an hour earlier.
LEMMA HourApart ==
    ASSUME NEW s \in Int, NEW t \in Int, Hour(t) <= Hour(s) PROVE t - s < PerHour
<1>1. PerHour * Hour(t) <= PerHour * Hour(s)
  BY HourBounds, Product, AggregateAssumption
<1> QED
  BY <1>1, HourBounds, AggregateAssumption

-----------------------------------------------------------------------------
(* The steps of the recording.                                              *)

Busy == {"write", "upkeep", "fold"}

RecOK ==
    /\ now \in Nat /\ booted \in Int /\ booted <= now
    /\ up \in BOOLEAN /\ n \in Nat /\ last_maintain \in Nat
    /\ up => last_maintain <= now - booted
    /\ ~up => rec = Idle /\ last_maintain = 0 /\ capture_paused = FALSE
    /\ rec # Idle => /\ rec = [at |-> rec.at, event |-> rec.event]
                     /\ rec.at \in Busy /\ n >= 1
                     /\ rec.event.ts \in Nat
                     /\ now - 1 <= rec.event.ts /\ rec.event.ts <= now

LEMMA AtIdle == RecOK => (At("idle") <=> rec = Idle)
  BY DEF RecOK, At, Idle, Busy

\* A step that goes on to the next, at one moment.
LEMMA GoesOn ==
    ASSUME RecOK, rec # Idle, NEW step \in Busy, Goto(step)
    PROVE  rec' = [at |-> step, event |-> rec.event] /\ rec' # Idle
<1>1. rec' = [at |-> step, event |-> rec.event]
  BY DEF RecOK, Goto
<1> QED
  BY <1>1 DEF Idle, Busy

LEMMA GotoKeepsRec ==
    ASSUME RecOK, rec # Idle, NEW step \in Busy, Goto(step),
           UNCHANGED <<now, booted, up, n>>,
           \/ UNCHANGED last_maintain
           \/ last_maintain' = now - booted
    PROVE  RecOK'
<1>1. up /\ up'
  BY DEF RecOK
<1>2. rec' = [at |-> step, event |-> rec.event] /\ rec' # Idle
  BY GoesOn
<1> QED
  BY <1>1, <1>2 DEF RecOK

LEMMA IdleKeepsRec ==
    ASSUME RecOK, rec' = Idle, UNCHANGED <<now, booted, n>>,
           \/ UNCHANGED <<up, last_maintain, capture_paused>>
           \/ up' = FALSE /\ last_maintain' = 0 /\ capture_paused' = FALSE
    PROVE  RecOK'
<1>1. CASE UNCHANGED <<up, last_maintain, capture_paused>>
  BY <1>1 DEF RecOK
<1>2. CASE up' = FALSE /\ last_maintain' = 0 /\ capture_paused' = FALSE
  BY <1>2 DEF RecOK
<1> QED
  BY <1>1, <1>2

LEMMA NextRecOK == ASSUME RecOK, [Next]_vars PROVE RecOK'
<1>1. CASE UNCHANGED <<now, host, last_maintain, capture_paused, rec, n>>
  BY <1>1 DEF RecOK, host
<1>2. ASSUME NEW req \in Request, Respond(req) PROVE RecOK'
  <2>1. /\ n' = n + 1 /\ up
        /\ UNCHANGED <<now, booted, up, last_maintain, capture_paused>>
        /\ rec'.at = "write" /\ rec'.event.ts = now
        /\ rec' = [at |-> rec'.at, event |-> rec'.event]
    BY <1>2 DEF Respond, host, proxy
  <2> QED
    BY <2>1 DEF RecOK, Busy
<1>3. CASE WriteLine \/ SkipLine \/ UpkeepNotDue
  <2>1. rec # Idle /\ UNCHANGED <<now, booted, up, n, last_maintain>>
    BY <1>3 DEF WriteLine, SkipLine, UpkeepNotDue, At, Idle, resolver, host, proxy, history
  <2> QED
    BY <1>3, <2>1, GotoKeepsRec DEF WriteLine, SkipLine, UpkeepNotDue, Busy
<1>4. CASE Upkeep \/ UpkeepRaises
  <2>1. rec # Idle /\ UNCHANGED <<now, booted, up, n>> /\ last_maintain' = now - booted
    BY <1>4 DEF Upkeep, UpkeepRaises, At, Idle, resolver, host
  <2> QED
    BY <1>4, <2>1, GotoKeepsRec DEF Upkeep, UpkeepRaises, Busy
<1>5. CASE WriteRaises \/ Fold \/ FoldRaises
  BY <1>5, IdleKeepsRec DEF WriteRaises, Fold, FoldRaises, resolver, host
<1>6. CASE AdminPrune
  BY <1>1, <1>6 DEF AdminPrune, AdminPrunes, resolver, proxy, history
<1>7. CASE Tick
  BY <1>7 DEF RecOK, Tick, TimePasses, At, Busy, Idle, host, proxy
<1>8. ASSUME NEW space, DiskChanges(space) PROVE RecOK'
  BY <1>8 DEF RecOK, DiskChanges, resolver, proxy
<1>9. ASSUME NEW p, NEW name, Moves(p, name) PROVE RecOK'
  BY <1>1, <1>9 DEF Moves, DockerMoves, host, proxy, history
<1>10. CASE Stop
  BY <1>10, IdleKeepsRec DEF Stop
<1>11. ASSUME NEW reboot \in BOOLEAN, Start(reboot) PROVE RecOK'
  BY <1>11 DEF RecOK, Start, resolver, proxy
<1>12. CASE UNCHANGED vars
  BY <1>1, <1>12 DEF vars, resolver, proxy, history
<1> QED
  BY <1>2, <1>3, <1>4, <1>5, <1>6, <1>7, <1>8, <1>9, <1>10, <1>11, <1>12
     DEF Next, Loop, Host

LEMMA InitRecOK == Init => RecOK
  BY CaptureAssumption DEF Init, ResolverInit, RecOK

LEMMA AlwaysRecOK == Spec => []RecOK
  BY InitRecOK, NextRecOK, PTL DEF Spec

-----------------------------------------------------------------------------
(* Recording.                                                               *)

\* The ids are taken in order: the one in hand is new to the aggregate and to
\* the tail.
FoldedOK ==
    /\ folded \subseteq 1..n /\ excused \subseteq 1..n
    /\ rec # Idle => n \notin folded \cup excused
    /\ 1..n \ (folded \cup excused) \subseteq (IF rec = Idle THEN {} ELSE {n})

TailOK ==
    /\ tail \in Seq(1..n) /\ Len(tail) <= TailMax
    /\ rec # Idle => \A i \in 1..Len(tail) : tail[i] < n
    /\ \A i \in 1..Len(tail) - 1 : tail[i] < tail[i + 1]
    /\ tail # <<>> => \A id \in folded : id > tail[1] => \E i \in 1..Len(tail) : tail[i] = id

LEMMA NextFoldedOK == ASSUME RecOK, FoldedOK, [Next]_vars PROVE FoldedOK'
<1>1. CASE /\ UNCHANGED <<n, folded, excused>> /\ rec # Idle /\ rec' # Idle
  BY <1>1 DEF FoldedOK
<1>2. CASE UNCHANGED <<n, folded, excused, rec>>
  BY <1>2 DEF FoldedOK
<1>3. ASSUME NEW req \in Request, Respond(req) PROVE FoldedOK'
  <2>1. rec = Idle /\ n' = n + 1 /\ UNCHANGED <<folded, excused>> /\ rec'.at = "write"
    BY <1>3, AtIdle DEF Respond
  <2> QED
    BY <2>1 DEF FoldedOK, RecOK, Idle
<1>4. CASE WriteLine \/ SkipLine \/ UpkeepNotDue \/ Upkeep \/ UpkeepRaises
  <2>1. rec # Idle /\ UNCHANGED <<n, folded, excused>>
    BY <1>4 DEF WriteLine, SkipLine, UpkeepNotDue, Upkeep, UpkeepRaises, At, Idle, history
  <2>2. rec' # Idle
    BY <1>4, <2>1, GoesOn DEF WriteLine, SkipLine, UpkeepNotDue, Upkeep, UpkeepRaises, Busy
  <2> QED
    BY <1>1, <2>1, <2>2
<1>5. CASE WriteRaises \/ Fold \/ FoldRaises
  <2>1. rec # Idle /\ rec' = Idle /\ n' = n
    BY <1>5 DEF WriteRaises, Fold, FoldRaises, At, Idle
  <2>2. \/ folded' = folded \cup {n} /\ excused' = excused
        \/ folded' = folded /\ excused' = excused \cup {n}
    BY <1>5 DEF WriteRaises, Fold, FoldRaises
  <2> QED
    BY <2>1, <2>2 DEF FoldedOK, RecOK
<1>6. CASE AdminPrune
  BY <1>2, <1>6 DEF AdminPrune, AdminPrunes, history
<1>7. CASE Tick
  <2>1. UNCHANGED <<n, folded, excused, rec>>
    BY <1>7 DEF Tick
  <2> QED
    BY <1>2, <2>1
<1>8. ASSUME NEW space, DiskChanges(space) PROVE FoldedOK'
  BY <1>2, <1>8 DEF DiskChanges
<1>9. ASSUME NEW p, NEW name, Moves(p, name) PROVE FoldedOK'
  BY <1>2, <1>9 DEF Moves, history
<1>10. CASE Stop
  <2>1. rec' = Idle /\ UNCHANGED <<n, folded>> /\ excused' = excused \cup (1..n \ folded)
    BY <1>10 DEF Stop
  <2> QED
    BY <2>1 DEF FoldedOK
<1>11. ASSUME NEW reboot \in BOOLEAN, Start(reboot) PROVE FoldedOK'
  BY <1>2, <1>11 DEF Start
<1>12. CASE UNCHANGED vars
  BY <1>2, <1>12 DEF vars, history
<1> QED
  BY <1>3, <1>4, <1>5, <1>6, <1>7, <1>8, <1>9, <1>10, <1>11, <1>12 DEF Next, Loop, Host

LEMMA Elements ==
    ASSUME NEW S, NEW s \in Seq(S) PROVE \A i \in 1..Len(s) : s[i] \in S
  OBVIOUS

\* One more id at the end of the tail, and the oldest gone if it is full.
LEMMA TailAppended ==
    ASSUME RecOK, FoldedOK, TailOK, rec # Idle, rec' = Idle, n' = n, ShowInTail,
           folded' \subseteq folded \cup {n}
    PROVE  TailOK'
<1>1. n \in 1..n /\ n \in Nat /\ TailMax \in Nat \ {0}
  BY CaptureAssumption DEF RecOK
<1>2. ASSUME NEW old \in Seq(1..n), tail' = Append(old, n), Len(old) < TailMax,
             \A i \in 1..Len(old) : old[i] < n,
             \A i \in 1..Len(old) - 1 : old[i] < old[i + 1],
             old # <<>> => \A id \in folded : id > old[1] =>
                              \E i \in 1..Len(old) : old[i] = id
      PROVE  TailOK'
  <2>1. /\ tail' \in Seq(1..n) /\ Len(tail') = Len(old) + 1 /\ Len(old) \in Nat
        /\ \A i \in 1..Len(old) : tail'[i] = old[i]
        /\ tail'[Len(old) + 1] = n
    BY <1>1, <1>2
  <2>2. \A i \in 1..Len(tail') - 1 : tail'[i] < tail'[i + 1]
    BY <1>2, <2>1
  <2>3. ASSUME NEW id \in folded', id > tail'[1]
        PROVE  \E i \in 1..Len(tail') : tail'[i] = id
    <3>1. CASE id = n
      BY <2>1, <3>1
    <3>2. CASE id # n
      <4>1. id \in folded /\ id \in 1..n /\ old # <<>>
        BY <1>2, <2>1, <2>3, <3>2 DEF FoldedOK
      <4>2. tail'[1] = old[1]
        BY <2>1, <4>1
      <4> QED
        BY <1>2, <2>1, <2>3, <4>1, <4>2
    <3> QED
      BY <3>1, <3>2
  <2>4. (tail \in Seq(1..n))' /\ Len(tail') <= TailMax
    BY <1>1, <1>2, <2>1
  <2> QED
    BY <2>2, <2>3, <2>4 DEF TailOK
<1>3. CASE Len(tail) < TailMax /\ tail' = Append(tail, n)
  <2>1. /\ tail \in Seq(1..n) /\ \A i \in 1..Len(tail) : tail[i] < n
        /\ \A i \in 1..Len(tail) - 1 : tail[i] < tail[i + 1]
        /\ tail # <<>> => \A id \in folded : id > tail[1] =>
                            \E i \in 1..Len(tail) : tail[i] = id
    BY DEF TailOK
  <2> QED
    BY <1>2, <1>3, <2>1
<1>4. CASE Len(tail) >= TailMax /\ tail' = Append(Tail(tail), n)
  <2>1. tail # <<>> /\ tail \in Seq(1..n) /\ Len(tail) = TailMax /\ Len(tail) \in Nat
    BY <1>1, <1>4 DEF TailOK
  <2>2. /\ Tail(tail) \in Seq(1..n) /\ Len(Tail(tail)) = Len(tail) - 1
        /\ \A i \in 1..Len(tail) - 1 : Tail(tail)[i] = tail[i + 1]
    BY <2>1
  <2>3. \A i \in 1..Len(Tail(tail)) : Tail(tail)[i] < n
    BY <2>1, <2>2 DEF TailOK
  <2>4. \A i \in 1..Len(Tail(tail)) - 1 : Tail(tail)[i] < Tail(tail)[i + 1]
    BY <2>1, <2>2 DEF TailOK
  <2>5. ASSUME Tail(tail) # <<>>, NEW id \in folded, id > Tail(tail)[1]
        PROVE  \E i \in 1..Len(Tail(tail)) : Tail(tail)[i] = id
    <3>1. Len(Tail(tail)) >= 1 /\ Tail(tail)[1] = tail[2] /\ tail[1] < tail[2]
      BY <2>1, <2>2, <2>5 DEF TailOK
    <3>2. id \in 1..n /\ tail[1] \in 1..n /\ tail[2] \in 1..n
      <4>1. id \in 1..n
        BY DEF FoldedOK
      <4>2. 1 \in 1..Len(tail) /\ 2 \in 1..Len(tail)
        BY <2>1, <2>2, <3>1
      <4>3. \A i \in 1..Len(tail) : tail[i] \in 1..n
        BY <2>1, Elements
      <4> QED
        BY <4>1, <4>2, <4>3
    <3>3. PICK i \in 1..Len(tail) : tail[i] = id
      BY <2>1, <2>5, <3>1, <3>2 DEF TailOK
    <3>4. i # 1 /\ i - 1 \in 1..Len(Tail(tail)) /\ Tail(tail)[i - 1] = tail[i]
      BY <2>1, <2>2, <2>5, <3>1, <3>2, <3>3
    <3> QED
      BY <3>3, <3>4
  <2>6. Len(Tail(tail)) < TailMax
    BY <1>1, <2>1, <2>2
  <2> QED
    BY <1>2, <1>4, <2>2, <2>3, <2>4, <2>5, <2>6
<1>5. TailMax \in Nat /\ Len(tail) \in Nat
  BY <1>1 DEF TailOK
<1> QED
  BY <1>3, <1>4, <1>5 DEF ShowInTail

LEMMA NextTailOK == ASSUME RecOK, FoldedOK, TailOK, [Next]_vars PROVE TailOK'
<1>1. CASE UNCHANGED <<tail, folded, n>> /\ rec # Idle
  BY <1>1 DEF TailOK
<1>2. CASE UNCHANGED <<tail, folded, n, rec>>
  BY <1>2 DEF TailOK
<1>3. ASSUME NEW req \in Request, Respond(req) PROVE TailOK'
  <2>1. n' = n + 1 /\ UNCHANGED <<folded, tail>> /\ n \in Nat
    BY <1>3 DEF Respond, proxy, RecOK
  <2>2. tail \in Seq(1..n) /\ tail \in Seq(1..n')
    BY <2>1 DEF TailOK
  <2>3. \A i \in 1..Len(tail) : tail[i] < n'
    BY <2>1, <2>2, Elements
  <2> QED
    BY <2>1, <2>2, <2>3 DEF TailOK
<1>4. CASE WriteLine \/ SkipLine \/ UpkeepNotDue \/ Upkeep \/ UpkeepRaises \/ WriteRaises
  <2>1. rec # Idle /\ UNCHANGED <<n, folded, tail>>
    BY <1>4 DEF WriteLine, SkipLine, UpkeepNotDue, Upkeep, UpkeepRaises, WriteRaises,
                At, Idle, history, proxy
  <2> QED
    BY <1>1, <2>1
<1>5. CASE Fold \/ FoldRaises
  BY <1>5, TailAppended DEF Fold, FoldRaises, At, Idle
<1>6. CASE AdminPrune
  BY <1>2, <1>6 DEF AdminPrune, AdminPrunes, history, proxy
<1>7. CASE Tick
  <2>1. UNCHANGED <<n, folded, rec, tail>>
    BY <1>7 DEF Tick, proxy
  <2> QED
    BY <1>2, <2>1
<1>8. ASSUME NEW space, DiskChanges(space) PROVE TailOK'
  BY <1>2, <1>8 DEF DiskChanges, proxy
<1>9. ASSUME NEW p, NEW name, Moves(p, name) PROVE TailOK'
  BY <1>2, <1>9 DEF Moves, history, proxy
<1>10. CASE Stop
  <2>1. rec' = Idle /\ tail' = <<>> /\ n' = n
    BY <1>10 DEF Stop
  <2> QED
    BY <2>1, CaptureAssumption DEF TailOK
<1>11. ASSUME NEW reboot \in BOOLEAN, Start(reboot) PROVE TailOK'
  BY <1>2, <1>11 DEF Start, proxy
<1>12. CASE UNCHANGED vars
  BY <1>2, <1>12 DEF vars, history, proxy
<1> QED
  BY <1>3, <1>4, <1>5, <1>6, <1>7, <1>8, <1>9, <1>10, <1>11, <1>12 DEF Next, Loop, Host

LEMMA InitRecorded == Init => FoldedOK /\ TailOK
<1> SUFFICES ASSUME Init PROVE FoldedOK /\ TailOK
  OBVIOUS
<1>1. n = 0 /\ folded = {} /\ excused = {} /\ rec = Idle /\ tail = <<>>
  BY DEF Init
<1> QED
  BY <1>1, CaptureAssumption DEF FoldedOK, TailOK

\* Every request that was answered is in the aggregate, or was, and is in the
\* tail until TailMax later ones are; those lost were lost to a fault.
THEOREM EveryRequestRecordedHolds == Spec => []EveryRequestRecorded
<1>1. RecOK /\ FoldedOK /\ TailOK => EveryRequestRecorded
  BY AtIdle DEF FoldedOK, TailOK, EveryRequestRecorded
<1> QED
  BY <1>1, InitRecorded, InitRecOK, NextRecOK, NextFoldedOK, NextTailOK, PTL DEF Spec

-----------------------------------------------------------------------------
(* Space.                                                                   *)

\* While space is low, a capture that is not paused has its upkeep as many
\* seconds behind it as space has been low, or more, unless an upkeep raised;
\* then the last upkeep raised too.
SpaceOK ==
    IF disk = "ample" THEN low = None
    ELSE /\ low = [age |-> low.age, lines |-> low.lines, raised |-> low.raised]
         /\ low.age \in 0..PerHour /\ low.lines \in Nat /\ low.raised \in BOOLEAN
         /\ low.lines <= 1 \/ low.raised
         /\ up /\ ~capture_paused
               => now - booted - last_maintain >= low.age \/ (low.raised /\ ~clean)
         /\ up /\ low.lines >= 1 /\ ~low.raised
               => capture_paused \/ (At("upkeep") /\ low.age = PerHour)

LEMMA NextSpaceOK == ASSUME RecOK, SpaceOK, [Next]_vars PROVE SpaceOK'
<1>1. CASE UNCHANGED <<disk, low, up, capture_paused, last_maintain, now, booted, clean>>
           /\ ~At("upkeep")
  BY <1>1 DEF SpaceOK
<1>2. CASE UNCHANGED <<disk, low, up, capture_paused, last_maintain, now, booted, clean, rec>>
  BY <1>2 DEF SpaceOK, At
<1>3. ASSUME low' = LowNow, disk' # "ample",
             up' => last_maintain' <= now' - booted',
             last_maintain' \in Nat, booted' \in Int, now' \in Nat
      PROVE  SpaceOK'
  BY <1>3, AggregateAssumption DEF SpaceOK, LowNow
<1>4. RecOK'
  BY NextRecOK
<1>5. ASSUME NEW req, Respond(req) PROVE SpaceOK'
  BY <1>1, <1>5 DEF Respond, At, host, proxy
<1>6. CASE WriteLine
  <2>1. /\ UNCHANGED <<disk, up, capture_paused, last_maintain, now, booted, clean>>
        /\ rec # Idle /\ ~capture_paused /\ up /\ At("write")
        /\ low' = IF TooLate THEN [low EXCEPT !.lines = @ + 1] ELSE low
    BY <1>6 DEF WriteLine, resolver, host, proxy, At, Idle, RecOK
  <2>2. rec'.at = "upkeep"
    BY <1>6, <2>1, GoesOn DEF WriteLine, Busy
  <2>3. CASE TooLate
    <3>1. /\ low # None /\ low.age = PerHour /\ disk # "ample"
          /\ low.lines = 0 \/ low.raised
          /\ now - booted - last_maintain >= PerHour \/ (low.raised /\ ~clean)
      BY <2>1, <2>3 DEF SpaceOK, TooLate, At
    <3>2. low' = [age |-> PerHour, lines |-> low.lines + 1, raised |-> low.raised]
      BY <2>1, <2>3, <3>1 DEF SpaceOK
    <3> QED
      BY <2>1, <2>2, <3>1, <3>2, AggregateAssumption DEF SpaceOK, At
  <2>4. CASE ~TooLate
    BY <2>1, <2>4 DEF SpaceOK, At
  <2> QED
    BY <2>3, <2>4
<1>7. CASE SkipLine \/ WriteRaises \/ Fold \/ FoldRaises
  BY <1>1, <1>7 DEF SkipLine, WriteRaises, Fold, FoldRaises, At, resolver, host, proxy, history
<1>8. CASE UpkeepNotDue
  <2>1. UNCHANGED <<disk, low, up, capture_paused, last_maintain, now, booted, clean>> /\ ~Due
    BY <1>8 DEF UpkeepNotDue, resolver, host, proxy, history
  <2> QED
    BY <2>1, AggregateAssumption DEF SpaceOK, RecOK, Due
<1>9. CASE Upkeep
  <2>1. UNCHANGED <<disk, low, up>> /\ capture_paused' = (disk # "ample")
    BY <1>9 DEF Upkeep, Paused, host
  <2> QED
    BY <2>1 DEF SpaceOK
<1>10. CASE UpkeepRaises
  <2>1. /\ low' = [low EXCEPT !.raised = TRUE] /\ disk = "full" /\ ~clean'
        /\ UNCHANGED <<disk, up>>
    BY <1>10 DEF UpkeepRaises, host
  <2>2. low' = [age |-> low.age, lines |-> low.lines, raised |-> TRUE]
    BY <2>1 DEF SpaceOK
  <2> QED
    BY <2>1, <2>2 DEF SpaceOK
<1>11. CASE AdminPrune
  BY <1>2, <1>11 DEF AdminPrune, AdminPrunes, resolver, host, proxy, history
<1>12. CASE Tick
  <2>1. /\ UNCHANGED <<disk, up, capture_paused, last_maintain, booted, clean, rec>>
        /\ now' = now + 1 /\ ~At("upkeep")
        /\ low' = IF low = None \/ low.age = PerHour THEN low ELSE [low EXCEPT !.age = @ + 1]
    BY <1>12 DEF Tick, TimePasses, host, proxy, At
  <2>2. CASE low = None \/ low.age = PerHour
    BY <2>1, <2>2 DEF SpaceOK, At, RecOK
  <2>3. CASE low # None /\ low.age # PerHour
    <3>1. low' = [age |-> low.age + 1, lines |-> low.lines, raised |-> low.raised]
      BY <2>1, <2>3 DEF SpaceOK
    <3> QED
      BY <2>1, <2>3, <3>1, AggregateAssumption DEF SpaceOK, At, RecOK
  <2> QED
    BY <2>2, <2>3
<1>13. ASSUME NEW space, DiskChanges(space) PROVE SpaceOK'
  <2>1. /\ UNCHANGED <<up, capture_paused, last_maintain, now, booted, clean, rec>>
        /\ disk' = space
        /\ low' = IF space = "ample" THEN None
                  ELSE IF disk = "ample" THEN LowNow ELSE low
    BY <1>13 DEF DiskChanges, resolver, proxy
  <2>2. CASE space = "ample"
    BY <2>1, <2>2 DEF SpaceOK
  <2>3. CASE space # "ample" /\ disk = "ample"
    BY <1>3, <1>4, <2>1, <2>3 DEF RecOK
  <2>4. CASE space # "ample" /\ disk # "ample"
    BY <2>1, <2>4 DEF SpaceOK, At
  <2> QED
    BY <2>2, <2>3, <2>4
<1>14. ASSUME NEW p, NEW name, Moves(p, name) PROVE SpaceOK'
  BY <1>2, <1>14 DEF Moves, DockerMoves, host, proxy, history
<1>15. CASE Stop
  <2>1. UNCHANGED <<disk, low>> /\ ~up'
    BY <1>15 DEF Stop
  <2> QED
    BY <2>1 DEF SpaceOK
<1>16. ASSUME NEW reboot \in BOOLEAN, Start(reboot) PROVE SpaceOK'
  <2>1. disk' = disk /\ low' = IF disk = "ample" THEN low ELSE LowNow
    BY <1>16 DEF Start
  <2>2. CASE disk = "ample"
    BY <2>1, <2>2 DEF SpaceOK
  <2>3. CASE disk # "ample"
    BY <1>3, <1>4, <2>1, <2>3 DEF RecOK
  <2> QED
    BY <2>2, <2>3
<1>17. CASE UNCHANGED vars
  BY <1>2, <1>17 DEF vars, resolver, host, proxy, history
<1> QED
  BY <1>5, <1>6, <1>7, <1>8, <1>9, <1>10, <1>11, <1>12, <1>13, <1>14, <1>15, <1>16, <1>17
     DEF Next, Loop, Host

-----------------------------------------------------------------------------
(* Pruning.                                                                 *)

\* The rows that a prune leaves hold the events of the hours it spares.
LEMMA PruneKept ==
    ASSUME \A e \in kept : Key(e) \in DOMAIN rows, NEW cutoff, Prune(cutoff)
    PROVE  /\ kept' \subseteq kept
           /\ \A e \in kept' : Key(e) \in DOMAIN rows'
           /\ \A e \in kept : e \in kept' <=> ~(Hour(e.ts) < Hour(cutoff))
<1>1. DOMAIN rows' = {k \in DOMAIN rows : ~(k.bucket < Hour(cutoff))}
  BY DEF Prune, Expired, Restrict
<1>2. kept' = {e \in kept : Key(e) \in DOMAIN rows'}
  BY DEF Prune
<1>3. \A e : Key(e).bucket = Hour(e.ts)
  BY DEF Key
<1> QED
  BY <1>1, <1>2, <1>3

LEMMA RecordKept ==
    ASSUME NEW e, Record(e)
    PROVE  kept' = kept \cup {e} /\ DOMAIN rows' = DOMAIN rows \cup {Key(e)}
  BY DEF Record

\* Every event kept has its row.
KeptOK == \A e \in kept : e.ts \in Nat /\ e.ts <= now /\ Key(e) \in DOMAIN rows

LEMMA NextKeptOK == ASSUME RecOK, KeptOK, [Next]_vars PROVE KeptOK'
<1>1. CASE UNCHANGED <<now, rows, kept>>
  BY <1>1 DEF KeptOK
<1>2. ASSUME NEW cutoff, Prune(cutoff), UNCHANGED now PROVE KeptOK'
  BY <1>2, PruneKept DEF KeptOK
<1>3. CASE Fold
  <2>1. /\ kept' = kept \cup {rec.event} /\ DOMAIN rows' = DOMAIN rows \cup {Key(rec.event)}
        /\ UNCHANGED now /\ rec # Idle
    <3>1. Record(rec.event) /\ UNCHANGED now /\ rec # Idle
      BY <1>3 DEF Fold, resolver, At, Idle
    <3> QED
      BY <3>1, RecordKept
  <2> QED
    BY <2>1 DEF KeptOK, RecOK
<1>4. CASE Upkeep \/ AdminPrune
  BY <1>2, <1>4 DEF Upkeep, AdminPrune, AdminPrunes, resolver
<1>5. CASE Tick
  BY <1>5 DEF Tick, TimePasses, store, KeptOK, RecOK
<1>6. CASE Loop /\ ~Fold /\ ~Upkeep
  <2>1. ASSUME NEW req, Respond(req) PROVE KeptOK'
    BY <1>1, <2>1 DEF Respond, store
  <2> QED
    BY <1>1, <1>6, <2>1 DEF Loop, WriteLine, SkipLine, WriteRaises, UpkeepNotDue, UpkeepRaises,
                            FoldRaises, resolver, store
<1>7. CASE Host /\ ~Tick
  <2>1. ASSUME NEW space, DiskChanges(space) PROVE KeptOK'
    BY <1>1, <2>1 DEF DiskChanges, resolver, store
  <2>2. ASSUME NEW p, NEW name, Moves(p, name) PROVE KeptOK'
    BY <1>1, <2>2 DEF Moves, DockerMoves, store
  <2>3. CASE Stop
    BY <1>1, <2>3 DEF Stop, store
  <2>4. ASSUME NEW reboot, Start(reboot) PROVE KeptOK'
    BY <1>1, <2>4 DEF Start, resolver, store
  <2> QED
    BY <1>7, <2>1, <2>2, <2>3, <2>4 DEF Host
<1>8. CASE UNCHANGED vars
  BY <1>1, <1>8 DEF vars, resolver, store
<1> QED
  BY <1>3, <1>4, <1>5, <1>6, <1>7, <1>8 DEF Next

LEMMA AlwaysKeptOK == Spec => [](RecOK /\ KeptOK)
<1>1. Init => KeptOK
  BY DEF Init, AggregateInit, KeptOK
<1> QED
  BY <1>1, InitRecOK, NextRecOK, NextKeptOK, PTL DEF Spec

\* Retention takes nothing that is younger than it says, and a prune by days
\* no event of those days, however the hours fall.
THEOREM PruneSparesHolds == Spec => PruneSpares
<1> DEFINE Spared == \A e \in kept \ kept' :
                       \/ now - e.ts > Retention
                       \/ \E age \in PruneAge : AdminPrunes(now - age) /\ now - e.ts > age
                       \/ AdminPrunes(now + PerHour)
<1>1. ASSUME NEW age \in Nat, RecOK, KeptOK, Prune(now - age), NEW e \in kept \ kept'
      PROVE  now - e.ts > age
  <2>1. now - age \in Int /\ e.ts \in Int /\ now \in Int
    BY <1>1 DEF RecOK, KeptOK
  <2>2. Hour(e.ts) < Hour(now - age)
    BY <1>1, PruneKept DEF KeptOK
  <2>3. ~(now - age <= e.ts)
    <3> SUFFICES ASSUME now - age <= e.ts PROVE FALSE
      OBVIOUS
    <3>1. Hour(now - age) <= Hour(e.ts)
      BY <2>1, HourMonotone
    <3> QED
      BY <2>1, <2>2, <3>1, HourBounds
  <2> QED
    BY <2>1, <2>3
<1>2. ASSUME RecOK, KeptOK, [Next]_vars PROVE [Spared]_vars
  <2>1. CASE kept \subseteq kept'
    BY <2>1
  <2>2. CASE Upkeep
    BY <1>1, <1>2, <2>2, CaptureAssumption DEF Upkeep
  <2>3. CASE AdminPrune
    <3>1. CASE AdminPrunes(now + PerHour)
      BY <3>1
    <3>2. ASSUME NEW age \in PruneAge, AdminPrunes(now - age) PROVE Spared
      <4>1. age \in Nat /\ Prune(now - age)
        BY <3>2, CaptureAssumption DEF AdminPrunes
      <4> QED
        BY <1>1, <1>2, <3>2, <4>1
    <3> QED
      BY <2>3, <3>1, <3>2 DEF AdminPrune
  <2>4. CASE Fold
    BY <2>1, <2>4, RecordKept DEF Fold
  <2>5. CASE Loop /\ ~Fold /\ ~Upkeep
    <3>1. ASSUME NEW req, Respond(req) PROVE kept \subseteq kept'
      BY <3>1 DEF Respond, store
    <3> QED
      BY <2>1, <2>5, <3>1 DEF Loop, WriteLine, SkipLine, WriteRaises, UpkeepNotDue,
                              UpkeepRaises, FoldRaises, store
  <2>6. CASE Host
    BY <2>1, <2>6 DEF Host, Tick, DiskChanges, Moves, Stop, Start, store
  <2>7. CASE UNCHANGED vars
    BY <2>1, <2>7 DEF vars, store
  <2> QED
    BY <1>2, <2>2, <2>3, <2>4, <2>5, <2>6, <2>7 DEF Next
<1> QED
  BY <1>2, AlwaysKeptOK, PTL DEF Spec, PruneSpares

\* What an upkeep that succeeded has left is young enough for its own moment,
\* and what came since is younger.
RetainedOK ==
    /\ up /\ clean /\ last_maintain > 0 =>
          \A e \in kept : Hour(booted + last_maintain - Retention) <= Hour(e.ts)
    /\ At("fold") => now - booted - last_maintain < PerHour

LEMMA NextRetainedOK ==
    ASSUME RecOK, KeptOK, RetainedOK, [Next]_vars PROVE RetainedOK'
<1>1. CASE UNCHANGED <<up, clean, last_maintain, kept, booted>> /\ rec'.at # "fold"
  BY <1>1 DEF RetainedOK, At
<1>2. CASE /\ UNCHANGED <<up, clean, last_maintain, booted, rec, now>>
           /\ kept' \subseteq kept
  BY <1>2 DEF RetainedOK, At
<1>3. CASE rec' = Idle /\ UNCHANGED <<up, clean, last_maintain, kept, booted>>
  BY <1>1, <1>3 DEF Idle
<1>4. ASSUME NEW req, Respond(req) PROVE RetainedOK'
  BY <1>1, <1>4 DEF Respond, store, host, proxy
<1>5. CASE WriteLine \/ SkipLine
  <2>1. UNCHANGED <<up, clean, last_maintain, kept, booted>> /\ rec # Idle
    BY <1>5 DEF WriteLine, SkipLine, store, host, proxy, history, At, Idle
  <2>2. rec'.at = "upkeep"
    BY <1>5, <2>1, GoesOn DEF WriteLine, SkipLine, Busy
  <2> QED
    BY <1>1, <2>1, <2>2
<1>6. CASE WriteRaises \/ FoldRaises
  BY <1>3, <1>6 DEF WriteRaises, FoldRaises, store, host
<1>7. CASE UpkeepNotDue
  <2>1. UNCHANGED <<up, clean, last_maintain, kept, booted, now>> /\ ~Due
    BY <1>7 DEF UpkeepNotDue, store, host, proxy, history, resolver
  <2> QED
    BY <2>1, AggregateAssumption DEF RetainedOK, RecOK, Due
<1>8. CASE Upkeep
  <2>1. /\ UNCHANGED <<up, booted, now>> /\ last_maintain' = now - booted
        /\ Prune(now - Retention)
    BY <1>8 DEF Upkeep, host, resolver
  <2>2. now - Retention \in Int /\ booted + last_maintain' = now
    BY <2>1, CaptureAssumption DEF RecOK
  <2>3. \A e \in kept' : e.ts \in Int /\ ~(Hour(e.ts) < Hour(now - Retention))
    BY <2>1, PruneKept DEF KeptOK
  <2>4. \A e \in kept' : Hour(now - Retention) <= Hour(e.ts)
    BY <2>2, <2>3, HourBounds
  <2>5. now - booted - last_maintain' < PerHour
    BY <2>1, AggregateAssumption DEF RecOK
  <2>6. booted' + last_maintain' - Retention = now - Retention
    BY <2>1, CaptureAssumption DEF RecOK
  <2> QED
    BY <2>1, <2>4, <2>5, <2>6 DEF RetainedOK
<1>9. CASE UpkeepRaises
  <2>1. UNCHANGED <<booted, now>> /\ last_maintain' = now - booted /\ clean' = FALSE
    BY <1>9 DEF UpkeepRaises, host, resolver
  <2> QED
    BY <2>1, AggregateAssumption DEF RetainedOK, RecOK
<1>10. CASE Fold
  <2>1. /\ UNCHANGED <<up, clean, last_maintain, booted, now>>
        /\ rec' = Idle /\ rec # Idle /\ Record(rec.event)
    BY <1>10 DEF Fold, host, resolver, At, Idle
  <2>2. kept' = kept \cup {rec.event}
    BY <2>1, RecordKept
  <2>3. up => Hour(booted + last_maintain - Retention) <= Hour(rec.event.ts)
    <3> SUFFICES ASSUME up
        PROVE Hour(booted + last_maintain - Retention) <= Hour(rec.event.ts)
      OBVIOUS
    <3>1. /\ booted + last_maintain - Retention \in Int /\ rec.event.ts \in Int
          /\ booted + last_maintain - Retention <= rec.event.ts
      BY <2>1, CaptureAssumption DEF RecOK
    <3> QED
      BY <3>1, HourMonotone
  <2> QED
    BY <2>1, <2>2, <2>3 DEF RetainedOK, At, Idle
<1>11. CASE AdminPrune
  <2>1. UNCHANGED <<up, clean, last_maintain, booted, rec, now>>
    BY <1>11 DEF AdminPrune, AdminPrunes, resolver, host, proxy, history
  <2>2. kept' \subseteq kept
    BY <1>11 DEF AdminPrune, AdminPrunes, Prune
  <2> QED
    BY <1>2, <2>1, <2>2
<1>12. CASE Tick
  <2>1. UNCHANGED <<up, clean, last_maintain, booted, kept, rec>> /\ rec.at # "fold"
    BY <1>12 DEF Tick, store, host, proxy, At
  <2> QED
    BY <1>1, <2>1
<1>13. ASSUME NEW space, DiskChanges(space) PROVE RetainedOK'
  BY <1>2, <1>13 DEF DiskChanges, resolver, store, proxy
<1>14. ASSUME NEW p, NEW name, Moves(p, name) PROVE RetainedOK'
  BY <1>2, <1>14 DEF Moves, DockerMoves, store, host, proxy, history
<1>15. CASE Stop
  <2>1. ~up' /\ rec' = Idle
    BY <1>15 DEF Stop
  <2> QED
    BY <2>1 DEF RetainedOK, At, Idle
<1>16. ASSUME NEW reboot, Start(reboot) PROVE RetainedOK'
  <2>1. ~up /\ UNCHANGED <<last_maintain, rec>>
    BY <1>16 DEF Start, proxy
  <2>2. last_maintain' = 0 /\ rec' = Idle
    BY <2>1 DEF RecOK
  <2> QED
    BY <2>2 DEF RetainedOK, At, Idle
<1>17. CASE UNCHANGED vars
  BY <1>2, <1>17 DEF vars, resolver, store, host, proxy, history
<1> QED
  BY <1>4, <1>5, <1>6, <1>7, <1>8, <1>9, <1>10, <1>11, <1>12, <1>13, <1>14, <1>15, <1>16, <1>17
     DEF Next, Loop, Host

\* Once a request has passed the upkeep, the aggregate holds nothing that is
\* two hours past its retention.
THEOREM RetentionBoundHolds == Spec => []RetentionBound
<1>1. Init => RetainedOK
  BY DEF Init, RetainedOK, At, Idle
<1>2. RecOK /\ KeptOK /\ RetainedOK => RetentionBound
  <2> SUFFICES ASSUME RecOK, KeptOK, RetainedOK, At("fold"), clean,
                      now - booted >= PerHour, NEW e \in kept
      PROVE  now - e.ts < Retention + 2 * PerHour
    BY DEF RetentionBound
  <2> DEFINE cutoff == booted + last_maintain - Retention
  <2>1. up /\ now \in Int /\ booted \in Int /\ last_maintain \in Int /\ e.ts \in Int
        /\ Retention \in Int /\ PerHour \in Int
    BY CaptureAssumption, AggregateAssumption DEF RecOK, KeptOK, At, Idle
  <2>2. now - booted - last_maintain < PerHour
    BY DEF RetainedOK
  <2>3. last_maintain > 0
    BY <2>1, <2>2
  <2>4. Hour(cutoff) <= Hour(e.ts)
    BY <2>1, <2>3 DEF RetainedOK
  <2>5. cutoff - e.ts < PerHour
    BY <2>1, <2>4, HourApart
  <2> QED
    BY <2>1, <2>2, <2>5
<1> QED
  BY <1>1, <1>2, AlwaysKeptOK, InitRecOK, NextRecOK, NextKeptOK, NextRetainedOK, PTL DEF Spec

\* When space stays low for an hour, at most one more line is written before
\* capture is paused, unless an upkeep raised in that time; the first that does
\* not raise pauses it.
THEOREM LowDiskPausesHolds == Spec => []LowDiskPauses
<1>1. Init => SpaceOK /\ RetainedOK
  BY DEF Init, SpaceOK, RetainedOK, At, Idle
<1>2. RecOK /\ SpaceOK /\ RetainedOK => LowDiskPauses
  <2>1. ASSUME RecOK, SpaceOK, RetainedOK, At("fold"), TooLate, clean PROVE capture_paused
    <3>1. up /\ now - booted - last_maintain < PerHour
      BY <2>1 DEF RecOK, RetainedOK, At, Idle
    <3> QED
      BY <2>1, <3>1, AggregateAssumption DEF SpaceOK, TooLate, RecOK
  <2> QED
    BY <2>1 DEF SpaceOK, LowDiskPauses
<1> QED
  BY <1>1, <1>2, AlwaysKeptOK, InitRecOK, NextRecOK, NextKeptOK, NextRetainedOK, NextSpaceOK,
     PTL DEF Spec

-----------------------------------------------------------------------------
(* Attribution.                                                             *)

\* A live answer of the cache is what Docker says, or was made before Docker
\* last changed.
CacheOK ==
    /\ ResolverTypeOK /\ DOMAIN cache = Peer
    /\ \A p \in Peer : cache[p] # None =>
         /\ cache[p].expires <= now + TtlOf(cache[p].who)
         /\ static[p] = None =>
              \/ cache[p].expires + settled[p] <= now + TtlOf(cache[p].who)
              \/ IF docker[p] = None
                 THEN cache[p].who.source # "docker"
                 ELSE cache[p].who = From("docker", docker[p])

LEMMA Ttls == Longest \in Nat /\ \A who : TtlOf(who) \in Nat /\ TtlOf(who) <= Longest
  BY ResolverAssumption DEF Longest, TtlOf

LEMMA NextCacheOK == ASSUME CacheOK, [Next]_vars PROVE CacheOK'
<1> USE ResolverAssumption, Ttls DEF ResolverTypeOK
<1>1. CASE UNCHANGED resolver
  BY <1>1 DEF CacheOK, resolver
<1>2. ASSUME NEW req \in Request, Resolve(req), UNCHANGED <<now, docker, settled>>
      PROVE  CacheOK'
  <2>1. CASE UNCHANGED cache
    BY <1>1, <1>2, <2>1 DEF resolver
  <2>2. CASE ~Cached(req)
    <3> DEFINE p0 == req.peer
               who == Lookup(req)
               ttl == TtlOf(who)
    <3>1. p0 \in Peer /\ cache' = [cache EXCEPT ![p0] = [who |-> who, expires |-> now + ttl]]
      BY <1>2, <2>2, CaptureAssumption DEF Resolve, Remember
    <3>2. now + ttl \in Nat
      BY DEF CacheOK
    <3>3. who = Nobody \/ who.agent \in Name
      <4>1. req.header \in Name \cup {None} /\ static[p0] \in Name \cup {None}
            /\ docker[p0] \in Name \cup {None}
        BY <3>1, CaptureAssumption DEF CacheOK
      <4> QED
        BY <4>1 DEF Lookup, From
    <3>4. static[p0] = None => IF docker[p0] = None THEN who.source # "docker"
                               ELSE who = From("docker", docker[p0])
      BY DEF Lookup, Nobody, From
    <3>5. /\ DOMAIN cache' = Peer /\ \A p \in Peer \ {p0} : cache'[p] = cache[p]
          /\ cache'[p0].who = who /\ cache'[p0].expires = now + ttl
      BY <3>1 DEF CacheOK
    <3> QED
      BY <1>2, <3>2, <3>3, <3>4, <3>5 DEF CacheOK
  <2> QED
    BY <1>2, <2>1, <2>2 DEF Resolve
<1>3. ASSUME NEW req \in Request, Respond(req) PROVE CacheOK'
  <2>1. UNCHANGED <<now, docker, settled>> /\ (Resolve(req) \/ UNCHANGED cache)
    BY <1>3 DEF Respond
  <2> QED
    BY <1>1, <1>2, <2>1 DEF resolver
<1>4. CASE Loop /\ ~\E req \in Request : Respond(req)
  BY <1>1, <1>4 DEF Loop, WriteLine, SkipLine, WriteRaises, UpkeepNotDue, Upkeep, UpkeepRaises,
                    Fold, FoldRaises
<1>5. CASE AdminPrune
  BY <1>1, <1>5 DEF AdminPrune, AdminPrunes
<1>6. CASE Tick
  <2>1. /\ now' = now + 1 /\ UNCHANGED <<docker, cache>>
        /\ settled' = [p \in Peer |-> IF settled[p] < Longest THEN settled[p] + 1 ELSE Longest]
    BY <1>6 DEF Tick, TimePasses
  <2> QED
    BY <2>1 DEF CacheOK
<1>7. ASSUME NEW p \in Peer, NEW name \in Container \cup {None}, Moves(p, name)
      PROVE  CacheOK'
  <2>1. /\ UNCHANGED <<now, cache>> /\ docker' = [docker EXCEPT ![p] = name]
        /\ settled' = [settled EXCEPT ![p] = 0]
    BY <1>7 DEF Moves, DockerMoves
  <2> QED
    BY <2>1 DEF CacheOK
<1>8. CASE Stop
  <2>1. cache' = [p \in Peer |-> None] /\ UNCHANGED <<now, docker, settled>>
    BY <1>8 DEF Stop
  <2> QED
    BY <2>1 DEF CacheOK
<1>9. CASE \E space : DiskChanges(space)
  BY <1>1, <1>9 DEF DiskChanges
<1>10. CASE \E reboot : Start(reboot)
  BY <1>1, <1>10 DEF Start
<1> QED
  BY <1>1, <1>3, <1>4, <1>5, <1>6, <1>7, <1>8, <1>9, <1>10 DEF Next, Host, vars

LEMMA InitCacheOK == Init => CacheOK
  BY ResolverAssumption, Ttls DEF Init, ResolverInit, ResolverTypeOK, CacheOK

\* An answer of the cache outlives no change of Docker's by more than the time
\* that answer is cached for.
THEOREM AttributionCatchesUpHolds == Spec => []AttributionCatchesUp
<1>1. CacheOK => AttributionCatchesUp
  <2> DEFINE Who(req) == Resolved(req)
  <2> SUFFICES ASSUME CacheOK, NEW req \in Request, static[req.peer] = None,
                      settled[req.peer] >= TtlOf(Who(req))
      PROVE  IF docker[req.peer] = None THEN Who(req).source # "docker"
             ELSE Who(req) = From("docker", docker[req.peer])
    BY DEF AttributionCatchesUp
  <2>1. req.peer \in Peer
    BY CaptureAssumption
  <2>2. CASE Cached(req)
    <3>1. Who(req) = cache[req.peer].who
      BY <2>2 DEF Resolved
    <3>2. cache[req.peer] # None /\ now < cache[req.peer].expires
      BY <2>2 DEF Cached
    <3> HIDE DEF Who
    <3> QED
      BY <2>1, <3>1, <3>2, Ttls DEF CacheOK, ResolverTypeOK
  <2>3. CASE ~Cached(req)
    BY <2>1, <2>3 DEF Resolved, Lookup, From, Nobody
  <2> QED
    BY <2>2, <2>3
<1> QED
  BY <1>1, InitCacheOK, NextCacheOK, PTL DEF Spec

-----------------------------------------------------------------------------
(* Types.                                                                   *)

FlagsOK == /\ disk \in {"ample", "low", "full"}
           /\ log_open \in BOOLEAN /\ capture_paused \in BOOLEAN /\ clean \in BOOLEAN

LEMMA NextFlagsOK == ASSUME FlagsOK, [Next]_vars PROVE FlagsOK'
<1> USE DEF FlagsOK
<1>1. CASE UNCHANGED <<disk, log_open, capture_paused, clean>>
  BY <1>1
<1>2. ASSUME NEW req, Respond(req) PROVE FlagsOK'
  BY <1>1, <1>2 DEF Respond, host, proxy
<1>3. CASE \/ WriteLine \/ SkipLine \/ UpkeepNotDue \/ Fold \/ FoldRaises
           \/ AdminPrune \/ Tick \/ UNCHANGED vars
  BY <1>1, <1>3 DEF WriteLine, SkipLine, UpkeepNotDue, Fold, FoldRaises, AdminPrune,
                    AdminPrunes, Tick, vars, host, proxy, history
<1>4. CASE WriteRaises
  BY <1>4 DEF WriteRaises, host
<1>5. CASE Upkeep
  BY <1>5 DEF Upkeep, Paused, host
<1>6. CASE UpkeepRaises
  BY <1>6 DEF UpkeepRaises, host
<1>7. CASE \E space \in {"ample", "low", "full"} : DiskChanges(space)
  BY <1>7 DEF DiskChanges, proxy
<1>8. CASE \E p \in Peer, name \in Container \cup {None} : Moves(p, name)
  BY <1>1, <1>8 DEF Moves, host, proxy, history
<1>9. CASE Stop
  BY <1>9 DEF Stop
<1>10. CASE \E reboot : Start(reboot)
  BY <1>1, <1>10 DEF Start, proxy
<1> QED
  BY <1>2, <1>3, <1>4, <1>5, <1>6, <1>7, <1>8, <1>9, <1>10 DEF Next, Loop, Host

\* Every variable keeps its type, through faults and restarts.
THEOREM CaptureTypeCorrect == Spec => []CaptureTypeOK
<1>1. Init => FlagsOK
  BY DEF Init, FlagsOK
<1>2. RecOK /\ FlagsOK /\ FoldedOK /\ TailOK /\ CacheOK => CaptureTypeOK
  BY DEF RecOK, FlagsOK, FoldedOK, TailOK, CacheOK, CaptureTypeOK, At, Idle, Busy
<1> QED
  BY <1>1, <1>2, InitRecOK, InitRecorded, InitCacheOK, NextRecOK, NextFlagsOK, NextFoldedOK, NextTailOK, NextCacheOK, PTL
     DEF Spec

-----------------------------------------------------------------------------
(* The rows are the sums of the events.                                     *)

LEMMA Least ==
    ASSUME NEW S \in SUBSET Nat, S # {} PROVE \E x \in S : \A y \in S : x <= y
\* The intervals from 0 to them have a least one.
<1> DEFINE T == {0..m : m \in S}
<1>1. T \subseteq FiniteSubsetsOf(Nat) /\ T # {}
  <2>1. ASSUME NEW m \in S PROVE (0..m) \in FiniteSubsetsOf(Nat)
    BY FS_Interval DEF FiniteSubsetsOf
  <2> QED
    BY <2>1
<1>2. \E m \in T : \A t \in T : ~ (<<t, m>> \in StrictSubsetOrdering(Nat))
  BY <1>1, WFMin, FS_StrictSubsetOrderingWellFounded
<1> PICK x \in S : \A y \in S : ~ (<<0..y, 0..x>> \in StrictSubsetOrdering(Nat))
  BY <1>2
<1>3. ASSUME NEW y \in S PROVE x <= y
  <2> SUFFICES ASSUME y < x PROVE FALSE
    OBVIOUS
  <2>1. (0..y) \subseteq 0..x /\ x \in 0..x /\ x \notin 0..y
    OBVIOUS
  <2>2. (0..y) \in SUBSET Nat /\ (0..x) \in SUBSET Nat /\ (0..y) # 0..x
    BY <2>1
  <2> QED
    BY <2>1, <2>2 DEF StrictSubsetOrdering
<1> QED
  BY <1>3

Latest(of) == CHOOSE e \in of : \A f \in of : f.id <= e.id
Earliest(of) == CHOOSE e \in of : \A f \in of : e.id <= f.id

\* The row of the events of one key.
RowOf(of) == [count |-> Cardinality(of), first |-> Earliest(of).ts, last |-> Latest(of).ts,
              status |-> Latest(of).status, subject |-> Latest(of).subject,
              keys |-> UNION {e.keys : e \in of}]

Keys(events) == {Key(e) : e \in events}
OfKey(events, k) == {e \in events : Key(e) = k}

LEMMA GroupedIs ==
    ASSUME NEW events
    PROVE  Grouped(events) = [k \in Keys(events) |-> RowOf(OfKey(events, k))]
  BY DEF Grouped, Keys, OfKey, RowOf, Latest, Earliest

\* The rows of some keys are those of the events of these keys.
LEMMA RowsOfKeys ==
    ASSUME NEW events, NEW K, NEW some, some = {e \in events : Key(e) \in K}
    PROVE  Restrict(Grouped(events), {k \in Keys(events) : k \in K}) = Grouped(some)
<1>1. Keys(some) = {k \in Keys(events) : k \in K}
  BY DEF Keys
<1>2. \A k \in Keys(some) : OfKey(some, k) = OfKey(events, k)
  BY <1>1 DEF OfKey
<1>3. \A k \in Keys(some) : Grouped(events)[k] = RowOf(OfKey(some, k))
  BY <1>1, <1>2, GroupedIs
<1>4. Grouped(some) = [k \in Keys(some) |-> Grouped(events)[k]]
  BY <1>3, GroupedIs
<1> QED
  BY <1>1, <1>4 DEF Restrict

\* Events as the aggregate gets them: each id once.
Distinct(events) ==
    /\ IsFiniteSet(events)
    /\ \A e \in events : e.id \in Nat
    /\ \A e, f \in events : e.id = f.id => e = f

\* What an EXCEPT of three fields makes of a row.
LEMMA InTurn ==
    ASSUME NEW r, NEW d, NEW g, NEW m
    PROVE  [r EXCEPT !.count = d, !.first = g, !.keys = m]
           = [[[r EXCEPT !.count = d] EXCEPT !.first = g] EXCEPT !.keys = m]
  OBVIOUS

LEMMA RowOfParts ==
    ASSUME NEW c, NEW d, NEW f, NEW g, NEW l, NEW s, NEW u, NEW k, NEW m
    PROVE  [[count |-> c, first |-> f, last |-> l, status |-> s, subject |-> u, keys |-> k]
              EXCEPT !.count = d, !.first = g, !.keys = m]
           = [count |-> d, first |-> g, last |-> l, status |-> s, subject |-> u, keys |-> m]
<1> DEFINE row(a, b, z) ==
              [count |-> a, first |-> b, last |-> l, status |-> s, subject |-> u, keys |-> z]
<1>1. [row(c, f, k) EXCEPT !.count = d] = row(d, f, k)
  OBVIOUS
<1>2. [row(d, f, k) EXCEPT !.first = g] = row(d, g, k)
  OBVIOUS
<1>3. [row(d, g, k) EXCEPT !.keys = m] = row(d, g, m)
  OBVIOUS
<1> HIDE DEF row
<1>4. [row(c, f, k) EXCEPT !.count = d, !.first = g, !.keys = m] = row(d, g, m)
  BY <1>1, <1>2, <1>3, InTurn
<1> QED
  BY <1>4 DEF row

\* The first event of a row stays the first, and the new one is the last.
LEMMA RowGrows ==
    ASSUME NEW of, Distinct(of), of # {}, NEW e, e.id \in Nat, \A f \in of : f.id < e.id
    PROVE  RowOf(of \cup {e}) = RowWith(RowOf(of), e)
<1> DEFINE all == of \cup {e}
<1>1. Latest(all) = e
  BY DEF Latest, Distinct
<1>2. PICK first \in of : \A f \in of : first.id <= f.id
  <2> DEFINE ids == {f.id : f \in of}
  <2>1. ids \in SUBSET Nat /\ ids # {}
    BY DEF Distinct
  <2>2. PICK m \in ids : \A i \in ids : m <= i
    BY <2>1, Least
  <2> QED
    BY <2>2
<1>3. Earliest(of) = first
  BY <1>2 DEF Earliest, Distinct
<1>4. Earliest(all) = first
  <2>1. first \in all /\ \A f \in all : first.id <= f.id
    BY <1>2 DEF Distinct
  <2>2. ASSUME NEW g \in all, \A f \in all : g.id <= f.id PROVE g = first
    BY <1>2, <2>2 DEF Distinct
  <2> QED
    BY <2>1, <2>2 DEF Earliest
<1>5. Cardinality(all) = Cardinality(of) + 1
  <2>1. e \notin of /\ IsFiniteSet(of)
    BY DEF Distinct
  <2> QED
    BY <2>1, FS_AddElement
<1>6. UNION {f.keys : f \in all} = (UNION {f.keys : f \in of}) \cup e.keys
  OBVIOUS
<1> HIDE DEF all
<1>7. RowOf(all) = [count |-> Cardinality(of) + 1, first |-> first.ts, last |-> e.ts,
                    status |-> e.status, subject |-> e.subject,
                    keys |-> (UNION {f.keys : f \in of}) \cup e.keys]
  BY <1>1, <1>4, <1>5, <1>6 DEF RowOf, all
<1>8. RowWith(RowOf(of), e)
         = [count |-> Cardinality(of) + 1, first |-> first.ts, last |-> e.ts,
            status |-> e.status, subject |-> e.subject,
            keys |-> (UNION {f.keys : f \in of}) \cup e.keys]
  <2> DEFINE row == RowOf(of)
  <2>1. /\ row.count = Cardinality(of) /\ row.first = first.ts
        /\ row.keys = UNION {f.keys : f \in of}
    BY <1>3 DEF RowOf
  <2> HIDE DEF row
  <2>2. RowWith(row, e) = [count |-> row.count + 1, first |-> row.first, last |-> e.ts,
                           status |-> e.status, subject |-> e.subject,
                           keys |-> row.keys \cup e.keys]
    <3> DEFINE c == row.count + 1
               ts == e.ts
               status == e.status
               subject == e.subject
               k == e.keys
               m == row.keys \cup e.keys
    <3>1. RowWith(row, e)
             = [[count |-> 1, first |-> ts, last |-> ts, status |-> status,
                 subject |-> subject, keys |-> k]
                   EXCEPT !.count = c, !.first = row.first, !.keys = m]
      BY Zenon DEF RowWith, NewRow
    <3> HIDE DEF c, ts, status, subject, k, m
    <3>2. RowWith(row, e) = [count |-> c, first |-> row.first, last |-> ts,
                             status |-> status, subject |-> subject, keys |-> m]
      BY <3>1, RowOfParts, Zenon
    <3> QED
      BY <3>2 DEF c, ts, status, subject, k, m
  <2> QED
    BY <2>1, <2>2 DEF row
<1> QED
  BY <1>7, <1>8 DEF all

LEMMA RowBegins ==
    ASSUME NEW e, e.id \in Nat PROVE RowOf({e}) = NewRow(e)
<1>1. Latest({e}) = e /\ Earliest({e}) = e
  BY DEF Latest, Earliest
<1>2. Cardinality({e}) = 1 /\ UNION {f.keys : f \in {e}} = e.keys
  BY FS_Singleton
<1> QED
  BY <1>1, <1>2 DEF RowOf, NewRow

\* A new id keeps them apart.
LEMMA RecordDistinct ==
    ASSUME Distinct(kept), NEW e, e.id \in Nat, \A f \in kept : f.id < e.id, Record(e)
    PROVE  Distinct(kept')
<1>1. kept' = kept \cup {e} /\ IsFiniteSet(kept \cup {e})
  BY FS_AddElement DEF Record, Distinct
<1> QED
  BY <1>1 DEF Distinct

\* record adds an event to the rows.
LEMMA RecordGroups ==
    ASSUME rows = Grouped(kept), Distinct(kept), NEW e, e.id \in Nat,
           \A f \in kept : f.id < e.id, Record(e)
    PROVE  rows' = Grouped(kept') /\ Distinct(kept')
<1> DEFINE all == kept \cup {e}
<1>1. kept' = all
  BY DEF Record
<1>2. Keys(all) = Keys(kept) \cup {Key(e)} /\ DOMAIN rows = Keys(kept)
  BY GroupedIs DEF Keys
<1>3. ASSUME NEW k \in Keys(all), k # Key(e) PROVE rows[k] = RowOf(OfKey(all, k))
  <2>1. OfKey(all, k) = OfKey(kept, k) /\ k \in Keys(kept)
    BY <1>2, <1>3 DEF OfKey
  <2> QED
    BY <2>1, GroupedIs
<1>4. CASE Key(e) \in DOMAIN rows
  <2> DEFINE of == OfKey(kept, Key(e))
  <2>1. OfKey(all, Key(e)) = of \cup {e} /\ rows[Key(e)] = RowOf(of)
    BY <1>2, <1>4, GroupedIs DEF OfKey
  <2>2. of # {} /\ Distinct(of) /\ \A f \in of : f.id < e.id
    <3>1. of \subseteq kept /\ IsFiniteSet(kept)
      BY DEF OfKey, Distinct
    <3>2. IsFiniteSet(of)
      BY <3>1, FS_Subset
    <3> QED
      BY <1>2, <1>4, <3>1, <3>2 DEF OfKey, Keys, Distinct
  <2>3. RowWith(rows[Key(e)], e) = RowOf(OfKey(all, Key(e)))
    <3> HIDE DEF of
    <3> QED
      BY <2>1, <2>2, RowGrows
  <2> HIDE DEF all
  <2>4. rows' = [k \in Keys(all) |-> IF k # Key(e) THEN rows[k] ELSE RowWith(rows[k], e)]
    BY <1>2, <1>4 DEF Record
  <2>5. rows' = [k \in Keys(all) |-> RowOf(OfKey(all, k))]
    BY <1>3, <2>3, <2>4
  <2> QED
    BY <1>1, <2>5, GroupedIs, RecordDistinct
<1>5. CASE Key(e) \notin DOMAIN rows
  <2>1. OfKey(all, Key(e)) = {e}
    BY <1>2, <1>5 DEF OfKey, Keys
  <2>2. RowOf(OfKey(all, Key(e))) = NewRow(e)
    BY <2>1, RowBegins
  <2> HIDE DEF all
  <2>3. rows' = [k \in Keys(all) |-> IF k # Key(e) THEN rows[k] ELSE NewRow(e)]
    BY <1>2, <1>5 DEF Record
  <2>4. rows' = [k \in Keys(all) |-> RowOf(OfKey(all, k))]
    BY <1>3, <2>2, <2>3
  <2> QED
    BY <1>1, <2>4, GroupedIs, RecordDistinct
<1> QED
  BY <1>4, <1>5

\* prune takes the rows of some keys, and with them their events.
LEMMA PruneGroups ==
    ASSUME rows = Grouped(kept), Distinct(kept), NEW cutoff, Prune(cutoff)
    PROVE  rows' = Grouped(kept') /\ Distinct(kept') /\ kept' \subseteq kept
<1> DEFINE K == {k \in Keys(kept) : ~Expired(k.bucket, cutoff)}
<1>1. DOMAIN rows = Keys(kept)
  BY GroupedIs
<1>2. rows' = Restrict(rows, K) /\ DOMAIN rows' = K
  BY <1>1 DEF Prune, Restrict
<1>3. kept' = {e \in kept : Key(e) \in K}
  BY <1>2 DEF Prune
<1>4. K = {k \in Keys(kept) : k \in K}
  OBVIOUS
<1>5. rows' = Grouped(kept')
  <2> HIDE DEF K
  <2>1. Restrict(Grouped(kept), {k \in Keys(kept) : k \in K}) = Grouped(kept')
    BY <1>3, RowsOfKeys
  <2> QED
    BY <1>2, <1>4, <2>1
<1>6. IsFiniteSet(kept') /\ kept' \subseteq kept
  BY <1>3, FS_Subset DEF Distinct
<1> QED
  BY <1>5, <1>6 DEF Distinct

\* What a window shows is grouped from the events of its hours.
LEMMA QueryGroups ==
    ASSUME rows = Grouped(kept), NEW from, NEW to
    PROVE  Query(from, to) = Grouped({e \in kept : Hour(from) <= Hour(e.ts)
                                                    /\ Hour(e.ts) <= Hour(to)})
<1> DEFINE K == {k \in Keys(kept) : Within(k.bucket, from, to)}
           some == {e \in kept : Hour(from) <= Hour(e.ts) /\ Hour(e.ts) <= Hour(to)}
<1>1. DOMAIN rows = Keys(kept)
  BY GroupedIs
<1>2. Query(from, to) = Restrict(rows, K)
  BY <1>1 DEF Query
<1>3. \A e : Key(e).bucket = Hour(e.ts)
  BY DEF Key
<1>4. some = {e \in kept : Key(e) \in K}
  BY <1>3 DEF Keys, Within
<1>5. K = {k \in Keys(kept) : k \in K}
  OBVIOUS
<1> HIDE DEF K, some
<1>6. Restrict(Grouped(kept), {k \in Keys(kept) : k \in K}) = Grouped(some)
  BY <1>4, RowsOfKeys
<1> QED
  BY <1>2, <1>5, <1>6 DEF some

\* The rows are those of the events kept, whose ids are taken; the id of the
\* one in hand is the last.
RowsOK ==
    /\ rows = Grouped(kept) /\ Distinct(kept)
    /\ \A e \in kept : e.id <= n /\ (rec # Idle => e.id < n)
    /\ rec # Idle => rec.event.id = n

LEMMA InitRowsOK == Init => RowsOK
<1>1. Grouped({}) = <<>>
  <2>1. Keys({}) = {}
    BY DEF Keys
  <2>2. Grouped({}) = [k \in {} |-> RowOf(OfKey({}, k))]
    BY <2>1, GroupedIs
  <2> QED
    BY <2>2
<1>2. IsFiniteSet({})
  BY FS_EmptySet
<1> QED
  BY <1>1, <1>2 DEF Init, AggregateInit, RowsOK, Distinct

LEMMA NextRowsOK == ASSUME RecOK, RowsOK, [Next]_vars PROVE RowsOK'
<1>1. CASE UNCHANGED <<rows, kept, n, rec>>
  BY <1>1 DEF RowsOK
<1>2. ASSUME NEW cutoff, Prune(cutoff), UNCHANGED n,
             UNCHANGED rec \/ (rec # Idle /\ rec'.event = rec.event)
      PROVE  RowsOK'
  <2>1. rows' = Grouped(kept') /\ Distinct(kept') /\ kept' \subseteq kept
    BY <1>2, PruneGroups DEF RowsOK
  <2> QED
    BY <1>2, <2>1 DEF RowsOK
<1>3. CASE UNCHANGED <<rows, kept, n>> /\ (rec' = Idle \/ (rec # Idle /\ rec'.event = rec.event))
  BY <1>3 DEF RowsOK
<1>4. ASSUME NEW req \in Request, Respond(req) PROVE RowsOK'
  <2>1. /\ UNCHANGED <<rows, kept>> /\ rec = Idle /\ n' = n + 1 /\ n \in Nat
        /\ rec'.event.id = n + 1
    BY <1>4, AtIdle DEF Respond, store, RecOK
  <2> QED
    BY <2>1 DEF RowsOK, Distinct
<1>5. CASE Fold
  <2>1. rec # Idle /\ rec' = Idle /\ n' = n /\ n \in Nat /\ Record(rec.event)
    BY <1>5 DEF Fold, At, Idle, RecOK
  <2>2. rec.event.id = n /\ \A f \in kept : f.id < rec.event.id
    BY <2>1 DEF RowsOK
  <2>3. rows' = Grouped(kept') /\ Distinct(kept') /\ kept' = kept \cup {rec.event}
    BY <2>1, <2>2, RecordGroups, RecordKept DEF RowsOK
  <2> QED
    BY <2>1, <2>2, <2>3 DEF RowsOK
<1>6. CASE WriteLine \/ SkipLine \/ UpkeepNotDue \/ UpkeepRaises
  <2>1. rec # Idle /\ UNCHANGED <<rows, kept, n>>
    BY <1>6 DEF WriteLine, SkipLine, UpkeepNotDue, UpkeepRaises, At, Idle, store, history
  <2>2. rec'.event = rec.event
    BY <1>6, <2>1, GoesOn DEF WriteLine, SkipLine, UpkeepNotDue, UpkeepRaises, Busy
  <2> QED
    BY <1>3, <2>1, <2>2
<1>7. CASE Upkeep
  <2>1. rec # Idle /\ n' = n /\ Prune(now - Retention)
    BY <1>7 DEF Upkeep, At, Idle
  <2>2. rec'.event = rec.event
    BY <1>7, <2>1, GoesOn DEF Upkeep, Busy
  <2> QED
    BY <1>2, <2>1, <2>2
<1>8. CASE WriteRaises \/ FoldRaises \/ Stop
  <2>1. UNCHANGED <<rows, kept, n>> /\ rec' = Idle
    BY <1>8 DEF WriteRaises, FoldRaises, Stop, store
  <2> QED
    BY <2>1 DEF RowsOK
<1>9. CASE AdminPrune
  BY <1>2, <1>9 DEF AdminPrune, AdminPrunes, history
<1>10. CASE Tick
  BY <1>1, <1>10 DEF Tick, store
<1>11. ASSUME NEW space, DiskChanges(space) PROVE RowsOK'
  BY <1>1, <1>11 DEF DiskChanges, store
<1>12. ASSUME NEW p, NEW name, Moves(p, name) PROVE RowsOK'
  BY <1>1, <1>12 DEF Moves, store, history
<1>13. ASSUME NEW reboot, Start(reboot) PROVE RowsOK'
  BY <1>1, <1>13 DEF Start, store
<1>14. CASE UNCHANGED vars
  BY <1>1, <1>14 DEF vars, store, history
<1> QED
  BY <1>4, <1>5, <1>6, <1>7, <1>8, <1>9, <1>10, <1>11, <1>12, <1>13, <1>14
     DEF Next, Loop, Host

\* What the hub pulls for a window is what was recorded in its hours, each
\* request once, whatever was pruned or lost in between (record, query, prune
\* of aggregate.py).
THEOREM SlicesExactHolds == Spec => []SlicesExact
<1>1. RowsOK => SlicesExact
  BY QueryGroups DEF RowsOK, SlicesExact
<1> QED
  BY <1>1, InitRecOK, InitRowsOK, NextRecOK, NextRowsOK, PTL DEF Spec

=============================================================================
