--------------------------- MODULE EgressAggregate ---------------------------
(***************************************************************************)
(* The store of what the proxy has seen (storage/aggregate.py): one row    *)
(* for each agent, endpoint and hour, with a count, in a database that     *)
(* outlives the process.  Both threads use it; each operation holds the    *)
(* lock from its first statement to its commit, so it is one step, and one *)
(* that raises leaves nothing behind.                                      *)
(*                                                                         *)
(* An event is one request as it is handed to record.  An endpoint is its  *)
(* host, method and path; what lower, upper and normalize_path make of     *)
(* them is the constant `normal', which sends ids and tokens of a path to  *)
(* one stored path.  A time is a number, with PerHour of them in an hour.  *)
(*                                                                         *)
(* A database of an older version is dropped and made anew before anything *)
(* is recorded: the initial state.                                         *)
(***************************************************************************)
EXTENDS Integers, FiniteSets, Functions

CONSTANTS
    normal,        \* endpoint -> the endpoint it is stored under
    PerHour        \* the times in an hour

ASSUME AggregateAssumption == PerHour \in Nat \ {0}

VARIABLES
    rows,          \* the table: a function from keys to rows
    kept           \* the events that the rows stand for (for the properties)

Hour(t) == t \div PerHour

Key(e) == [agent |-> e.agent, endpoint |-> normal[e.endpoint], bucket |-> Hour(e.ts)]

NewRow(e) == [count |-> 1, first |-> e.ts, last |-> e.ts, status |-> e.status,
              subject |-> e.subject, keys |-> e.keys]

\* Mutant: the names of query parameters are those of the last request.
RowReplaced(row, e) == [NewRow(e) EXCEPT !.count = row.count + 1, !.first = row.first]

\* The row of a key seen before: status and subject are those of the last
\* request, names of query parameters add up.
RowWith(row, e) == [NewRow(e) EXCEPT !.count = row.count + 1, !.first = row.first,
                                     !.keys = row.keys \cup e.keys]

\* record: UPDATE, or INSERT.
Record(e) ==
    /\ rows' = [k \in DOMAIN rows \cup {Key(e)} |->
                  IF k # Key(e) THEN rows[k]
                  ELSE IF k \in DOMAIN rows THEN RowWith(rows[k], e) ELSE NewRow(e)]
    /\ kept' = kept \cup {e}

\* Mutant: the hour of the cutoff goes too.
ExpiredInclusive(bucket, cutoff) == bucket <= Hour(cutoff)

Expired(bucket, cutoff) == bucket < Hour(cutoff)

\* prune: DELETE.  Events are kept as long as their row is.
Prune(cutoff) ==
    /\ rows' = Restrict(rows, {k \in DOMAIN rows : ~Expired(k.bucket, cutoff)})
    /\ kept' = {e \in kept : Key(e) \in DOMAIN rows'}

Within(bucket, from, to) == Hour(from) <= bucket /\ bucket <= Hour(to)

\* query: the rows of the hours that a window touches.
Query(from, to) == Restrict(rows, {k \in DOMAIN rows : Within(k.bucket, from, to)})

AggregateInit == rows = <<>> /\ kept = {}

-----------------------------------------------------------------------------
(* What the rows of a set of events must be.                                *)

Grouped(events) ==
    [k \in {Key(e) : e \in events} |->
        LET of == {e \in events : Key(e) = k}
            latest == CHOOSE e \in of : \A f \in of : f.id <= e.id
            earliest == CHOOSE e \in of : \A f \in of : e.id <= f.id
        IN [count |-> Cardinality(of), first |-> earliest.ts, last |-> latest.ts,
            status |-> latest.status, subject |-> latest.subject,
            keys |-> UNION {e.keys : e \in of}]]
=============================================================================
