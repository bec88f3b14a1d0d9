# Verification of zpl-edge

zpl-edge is a forward proxy (a *watcher*) for the egress traffic of AI agents.
A mitmproxy addon authenticates each client, evaluates each request against a
rule set written in ZPL, lets it through, flags it or blocks it, and keeps a
local record of it. A background thread talks to a central *hub*: it fetches the
rule set, the mode and the credentials, and it answers the hub's requests for
slices of the record. This directory holds TLA+ models of those parts, the TLC
configurations that check them on small instances, and proofs, checked by TLAPS,
of what matters most for every instance.

## 1. The system

| part | source | state | operations |
|---|---|---|---|
| hub client | `hub.py` | registered flag, the guard's identity, the policy in six attributes, its version | register, poll for commands, poll for the bundle, heartbeat, stop |
| data plane | `addon.py` 130-321 | identity pinned to each connection, start time of each flow | `http_connect`, `request` (identify, admit, enforce), `response`, `client_disconnected` |
| recording pipeline | `addon.py` 322-524 | capture-paused flag, tail of events, cached statistics | `_record`, `_maybe_maintain`, `prune_local`, `stats`, `done` |
| forensic log | `storage/jsonl.py` | the open file and its backups | `write` (with rotation), `truncate`, `close` |
| egress aggregate | `storage/aggregate.py` | one row per agent, host, method, path and hour | `record`, `query`, `prune`, `summary` |
| agent identity | `identity.py` | cache from peer address to identity | `resolve_sync`, `parse_basic_proxy_auth` |
| JWT verification, MCP framing | `jwt_verify.py`, `mcp.py` | none | pure functions |
| rule engine | `zpl-engine`: `checker.py`, `zpl/zpl_engine.py`, `zpl/class_schema.py` | a compiled rule set, immutable | `compile_rules`, `lint_rules`, `check`, `service_reachable` |
| parser | `zpl-engine`: `zpl/zpl_parser.py` | a cursor | `parse` |
| not part of the running proxy | `storage/db.py`, `zpl-proxy-rules.py`, shell and build files | | |

Two threads share everything in one process. mitmproxy's event loop runs the
hooks, one at a time and each to its end; the hub thread runs a tick every five
seconds. They share, *without a lock*, the attributes of `WatcherHub` (written
by the hub thread, read by the hooks); under locks, the log and the aggregate
(written by the hooks, pruned and queried by the hub thread). The hub is never
called from a hook.

What is hard here, and what no unit test of the repository reaches: a policy
swapped in seven assignments under the eyes of a running hook; calls that fail
half way through a tick and must not take the policy with them; tunnels and
keep-alive connections that outlive the credential they were opened with; a
rotation and a prune moving and removing the same files; crashes between two
renames; rules that are evaluated for something other than their author meant.
`PROJECT.json` lists these hazards at their lines, with the properties that
cover each.

### What makes each part correct

- **hub client**: outside the seven assignments of `_poll_bundle` the policy is
  one whole bundle; inside them it is the old one with the fields so far replaced
  in order. A refused call, a failed one, an unreadable body or rules that do not
  compile give nothing of the policy up. When the hub stays put and answers often
  enough, its bundle and the guard's identity arrive, unless the thread was given
  rules whose compilation never ends.
- **data plane**: a hook during which the hub thread writes nothing does what its
  policy calls for; one during which it does write still never lets a request
  past an evaluating policy unjudged, nor past required credentials unidentified.
  The pinned identity of a connection does not change, and what is recorded is
  what was judged, but for a request judged before its tunnel had an identity.
- **forensic log**: at every step of a rotation, a prune or a crash the files
  hold lines once and in order, without a gap among the latest; a finished prune
  has removed what was there when it began.
- **rule engine**: what compiles has a sound class hierarchy; a Never
  rule wins wherever it stands; a rule written behind complete statements moves the
  verdicts one way; position and case mean nothing where the text does not make them; an unknown identity gets
  nothing from a rule that constrains its subject, and roles change nothing that
  no rule says of roles; the handshake gate never contradicts the per-call check.
- **recording pipeline, aggregate**: what the hub pulls for a window is what was
  recorded in it, each request once; only a fault keeps a request out; a prune
  takes nothing too young and leaves nothing too old; space that runs low pauses
  the forensic log, and nothing else, at the first hourly upkeep that does not raise.
- **agent identity**: an answer of the cache outlives a change by no more than the
  time it is cached for.
- **parser**: it moves on, and goes round without taking a token nowhere, but in a
  set with a mark in it; no statement reaches past a period; a rule never loses its
  only condition.
- **warnings**: each line that begins a statement which was lost is counted; what a
  warning says never matches never does, and what it says everything matches takes
  every call that nothing deeper takes.

## 2. The modules

| module | models | code |
|---|---|---|
| `WatcherHub` | the hub client's thread, and the hub as its environment | `hub.py` |
| `LastKnownGood` | what the hub client promises: an atomic policy cell | `hub.py` 136-165 |
| `WatcherHub_proofs` | theorems about `WatcherHub` | |
| `ZplLogger` | the hooks of the data plane; EXTENDS `WatcherHub` and interleaves with it | `addon.py` 130-321, `jwt_verify.py`, part of `identity.py` and `mcp.py` |
| `ForensicLog` | the rotating log | `storage/jsonl.py` |
| `IdentityResolver` | the identity cache, and Docker as its environment | `identity.py` |
| `EgressAggregate` | the aggregate's rows and their operations | `storage/aggregate.py` |
| `Capture` | what becomes of an answered request; EXTENDS the two above, with the hub thread's prunes, the disk, time and restarts | `addon.py` 323-524 |
| `ZplParser` | the parser's cursor over every text | `zpl_parser.py` |
| `ZplEngine` | the decisions a compiled rule set makes: operators, no state | `checker.py`, `zpl_engine.py`, `class_schema.py` queries |
| `ZplCompile` | from statements to a compiled rule set, and the edits of a text | `zpl_parser.py`, `class_schema.py`, `compile_rules` |
| `ZplLint` | the warnings about a compiled rule set; EXTENDS `ZplCompile` | `checker.py` 253-387 |
| `ZplLogger_proofs`, `ForensicLog_proofs`, `Capture_proofs`, `ZplParser_proofs` | theorems about the module of that name; those of `Capture` are about the cache and the aggregate too | |
| `ZplCompile_proofs` | theorems about `ZplCompile` and `ZplEngine` | |
| `ZplHierarchy_proofs` | theorems about the hierarchy of classes and what is inferred from it | |
| `ZplLint_proofs` | theorems about `ZplLint` | |
| `MC...` | instances for TLC | |

`ZplLogger` takes the verdict on a request as the parameter `Verdict`;
`ZplEngine` is what the code puts there. The two are kept apart because the hooks
depend on a verdict only as allow, deny or an exception, and the engine on
nothing that the hooks interleave: a compiled rule set is never written again.

### WatcherHub

`pc` is the point `_run` has reached in its tick. The steps are the calls to the
hub, each with the outcomes it can have (an answer, another status, an
exception), and each single assignment to an attribute the event loop reads:
`SetSubject`, `SetAgent`, and `Write(f)` for the six fields of a bundle, then
`WriteVersion`. `policy` holds the six attributes, `bundle_version` the seventh.
`payload` is the answer in hand, fixed when the hub gave it, so that the hub may
publish something else before it is used. Its rules compile, or raise, or hold
the thread for ever (`CompileHangs`: the parser's set with a mark in it, section 4);
a thread at `hung` has no further step. `published` and `portal` are the hub's
own state, edited at any time. Commands are only what they do to the thread: a
`fetch` or `tail` may raise out of the tick. `Restart` is a crash and a new
process. A version stands for its content, and may be published again.

`LastKnownGood` is what the thread is for: a cell that holds one loadable version
or none and moves, in one step, to a version the hub publishes. `WatcherHub`
implements it under the mapping `inForce`: while a bundle is being written the
cell still holds the last whole one.

### ZplLogger

`hook` is the hook being run: which, for which connection and flow, and what it
has read into its local variables. A hook is a sequence of steps, one per read of
a hub attribute, since the hub thread runs between any two bytecodes; the event
loop runs one hook at a time. `conn_agent`, `start_times` and `flows` are the
addon's dictionaries and mitmproxy's flows; `Open`, `UpstreamError` and `Expire`
belong to mitmproxy and PyJWT. Any request may carry a `Proxy-Authorization`, one
inside a tunnel too, and requests of a tunnel overlap. `held` is a history variable: what has been true
of the policy at every moment of the current hook.

### ForensicLog

`file[0]` is the log and `file[i]` its i-th backup. `write` takes the lock; a
rotation is one `exists` test and one `replace` per backup, then the reopening;
`WriteLine` releases the lock. `truncate` empties the current file under the
lock and then, without it, tests for and unlinks the backups one after the other.
`Restart` is a death of the process between any two of these. `written`,
`doomed`, `erased` and `settled` are history.

### Capture, EgressAggregate and IdentityResolver

`rec` is the request the event loop has in hand and the step of `_record` it is
at: write, upkeep, fold. One step each, since the log and the aggregate hold
their locks from end to end and the hub's thread runs only in between.
`capture_paused`, `last_maintain` and `tail` are the addon's attributes, `rows`
the table of the aggregate, `cache` the resolver's dictionary. `disk`, `booted`
and `now` are the host: free space, the zero of `time.monotonic` and the wall
clock, one clock with an offset. `log_open` is all that is left of the log here:
a rotation may fail and leave it closed for good, as `ForensicLog` shows. A time
is a number and an hour `PerHour` of them, so that events and cutoffs fall inside
hours. `Stop` is a shutdown or a crash; the database survives it, everything else
starts afresh; `Start` may come after a reboot. `kept` (the events that the rows
stand for), `folded`, `excused`, `low` (for how long space has been low, the lines
written since an hour of it, and whether an upkeep raised), `clean` and `settled` are
history. An upkeep that raises does so in its prune, before it looks at the disk.

### ZplParser

`at` is the place in the grammar and `ahead` the tokens that have been looked at
and not taken. A text is not given beforehand: `Look` chooses the next token when
the parser needs it, so that the finitely many states of the cursor cover every
text. Straight stretches of the grammar are two tables, `Expected` and
`Optional`, which `Expect` and `Eat` walk; a step with a decision of its own is
an action. Of the result only what a property needs is kept: the slot that is
read, whether its tags are a list, and the places where the rule has a `when`.
`raised` is an AttributeError that `_parse_impl` does not catch. A loop that takes
nothing is a step that changes only `turn`: the loop of a set before a mark
(`Set`) goes on for ever without being a state in which nothing happens. Marks, keywords,
words and strings are apart from each other (`WordAssumption`), as the tokenizer
keeps them by the type of a token.

### ZplEngine, ZplCompile and ZplLint

A rule set is the record described at the head of `ZplEngine`. Words are atoms:
what `str.lower`, `zpl_token` and the splitting of a path at its slashes do to
them are constants, so that a spelling, its folded form and its token are related
as the code relates them without any string being taken apart. A condition is the
set of contexts in which its value is true to Python. The parser gives every rule
the same priority and no rule a named spec, so neither is modelled; `from_yaml`
and `load_rules`, which could, are not called.

In `ZplCompile` a text is a sequence of statements. A statement ends in a period,
or with a word, behind which the next one begins, or it is *open*: its last class or
parent is missing, and it takes the first word of the next statement for it
(`Filled`), which leaves of a Never an Allow (`Headless`) and of any other an error.
`Read` is what is made of a statement in its place; `Lost` says which raise or are
swallowed by error recovery; `Kept` what is left of each kind; `Merged` how a second
Define adds to the first; `Valid` what `ClassSchema` refuses; `Line`, `Fixed` and
`Aka` what it computes; `Entities` and `FoldRules` the rest of `compile_rules`.
`Write(s)` appends a statement and binds the new text, as an administrator at the
hub does. The tokens inside a statement are `ZplParser`'s; a statement that raises
is one of kind `broken`, with the word it begins with. A statement knows how many
lines begin with one of its four words (`lines`): two for a `Never` on a line of its
own above its `allow`, none for a misspelt word or a statement behind another.
`ZplLint` reads the same rule set as the warnings do: `Vanished` counts lines as
`lint_rules` does, and `Unpinned`,
`UndefinedSlots`, `UnknownVerb`, `Strangers` and `UnmetFilters` are its claims.

## 3. The runs

| run | module | asks | states |
|---|---|---|---|
| `hub` | `MCWatcherHub` | is the policy always one bundle, kept through failures, and the published one in the end? | all |
| `watcher` | `MCZplLogger` | does each hook do what its policy calls for, and what survives a swap in the middle? | all |
| `overlap` | `MCZplLogger` | with two requests of one connection under way, is the pin kept and the record that of the judgement? | all |
| `log` | `MCForensicLog` | are lines kept in order, once, without gaps, through rotation, prune and crash? | all |
| `policy` | `MCZplCompile` | are decisions independent of order, case and unnamed roles, monotone, and consistent with the gate, and the warnings true? | all |
| `capture` | `MCCapture` | is every request recorded once, under the right agent, kept as long as it should be and no longer, and the log paused in time? | all |
| `parser` | `MCZplParser` | does the parser move on, in a circle only before a mark in a set, resume at a period and keep conditions, on every text? | all |
| `block_justified`, `tunnel_not_bricked` | `MCZplLogger` | two comments of `addon.py` that the code does not keep | counterexample |
| `starts_fresh` | `MCForensicLog` | the promise of `jsonl.py`'s header | counterexample |
| `broken_text`, `path_covered` | `MCZplCompile` | two comments of the engine that the code does not keep | counterexample |

The passing runs are exhaustive within their bounds. Deadlock is not checked: the
watcher stops when it is told to, a log has written its `MaxWrites` lines, a text
has reached its length; these are ends of the model or of the program.

**Bounds, and why they are enough.**

- `hub`: six bundles: passive with rules it must ignore, flagging and enforcing
  with every field different, enforcing with every optional field absent, one
  that does not compile and one whose compilation never ends. Two bundles with all fields apart are what a mixture
  needs to show; the others are the branches of `_poll_bundle`. One command per
  poll reaches every branch of the command loop and its way back; one crash
  reaches every point of a tick; three guard identities, one empty. Edits and
  republications are not bounded.
- `watcher`: one connection with one flow at a time is the smallest instance in
  which a hook and the thread interleave; hooks do not overlap, and the state they
  share is per connection. Three bundles (passive without credentials, flagging,
  enforcing), each with its own credentials, roles and rules. Calls of each kind,
  one oversize; a static and a JWT credential. Commands and crashes, which do not
  touch the policy, are left to `hub`.
- `overlap`: one connection with two flows, whose names nothing tells apart
  (symmetry); two bundles, one that asks for credentials and one that has only a key
  for tokens, since whether a credential resolves and whether one is needed is all
  that the two properties look at; calls of the kinds that are no stream.
- `log`: the two backups the code keeps, files of two short lines, seven writes
  (enough to fill and rotate out every file twice over), two prunes, one crash at
  any point; one line larger than a whole file.
- `policy`: 36 statements and nine texts of five, continued by two. The
  statements include a class in two spellings, a second Define of one class, a
  cycle, an unknown parent, an attribute without a value and a set without a member
  that hide an inherited one, a shallow class with more attributes beside a deep one
  with fewer, classes of services, users and endpoints that pin nothing, two
  Declares of one name, a class that fixes a role, an alias, a Never with a condition,
  a condition that is no CEL, an unknown verb, an Allow without its object, a rule
  behind another on its line, and broken statements with and without their period,
  on two lines and with a misspelt first word. Each property has a mutant of the code
  that violates it within these bounds.
- `capture`: one address, since the cache's entries do not touch each other; one
  container and one header name, which is what it takes to be wrong about who is
  there; two endpoints stored under one path and three kinds of requests, so that
  rows are shared across status, parameters and subject. An hour is two times
  long, the least that puts a cutoff inside one; retention is one, the cache's
  times two and one, the tail's length one. Five times reach three hours, hence two
  upkeeps and a row that expires between them; two requests make a row that is
  shared or two that are not; two faults of any kind (disk, failed rotation,
  moving container, administrator's prune, stop) let one follow another.
- `parser`: no bound on the text. One word that is no keyword and one string: the
  parser tells words and strings apart only as keywords. Keywords that are treated
  alike are one token each. Written conditions are counted to two.

**Fairness** (runs `hub` and `parser`). `WF(Thread)`: the loop in
`_run` catches every exception and goes on, so the thread takes a step while it can.
It cannot once a compilation holds it: `CompileHangs` leads to a place without a
step, and `Converges` and `IdentityConverges` except the behaviours in which the thread
is there for good (`Hangs`). `SF(RegisterOk)`,
`SF(PollOk(<<>>))` and `SF(BundleLoads)`: a hub that is asked again and again, and
could answer, sometimes does: it accepts a registration, answers a poll with no
command queued, and has a bundle that loads. The empty poll is needed: a command
whose upload raises ends the tick before the bundle, and a hub that hands one out
with every poll keeps the watcher from its bundle for ever; without this
assumption `Converges` fails. The properties assume what they must of the
administrator: that editing stops at a bundle that loads. No fairness is assumed
of crashes, edits or `stop`. In `parser`, `WF(Next)`: `parse` is a sequential
function and goes on as long as it has a step to take. The other runs check
safety only: in `capture` nothing is promised that would need a further request
or a tick of the clock to happen.

**Mutants.** Each property of a passing run has a mutant in `PROJECT.json`: a
definition that models code, replaced by a plausible bug kept beside it (comments
beginning `Mutant:`). The property is violated under each.

## 4. What the code does and its comments do not say

Five are runs with `expect: violation`; `PROJECT.json` has the lines.

- `BlockJustified`: a request that only a flagging bundle denies is answered with
  a 403, since the mode is read again after the decision.
- `TunnelNotBricked`: a tunnel opened with a good credential before the first
  bundle is refused for ever once the bundle has come.
- `StartsFresh`: a prune that unlinks a backup between a rotation's test and its
  move leaves the log closed for good.
- `BrokenTextRefused`: a rule set with a statement that does not parse compiles
  without it, and without the next one if the period is missing.
- `PathCovered`: a rule for a path does not cover that path with a query.

Others were met while modelling. They have no run of their own; where a property
would have to say otherwise it names the exception.

- Any mark but a comma or the closing brace inside a value set, a period above all,
  keeps the parser in its loop for ever (`zpl_parser.py` 653-664), though the docstring
  of `parse` (183) says that parsing goes on with the next statement. On the hub's
  thread it is for as long as the process lives: no later bundle arrives, no heartbeat
  is sent (`Stuck` in `NoIdleCircle` and `MovesOn`; `CompileHangs` and `Hangs` in
  `Converges` and `IdentityConverges`).
- Behind an Allow that has no object, `Never allow b ...` is read as the class `Never`
  and the rule `allow b ...`, without an error (`zpl_parser.py` 562-585): writing a
  Never gives access. `RulesMonotone` is about texts whose last statement is not open.
- A statement that was lost is not reported if no line begins with its word: it is
  misspelt, or stands behind another on its line (`checker.py` 269-273, against
  268: "Statements that vanished"). `LostIsReported` allows as many to be
  missing from the count as have no such line.
- A token that fails its check is not looked up in the credential map. The header of
  `jwt_verify.py` (6-7) says that "the caller falls back to the static proxy_auth
  credential map", the comment at `addon.py` 200 that it should not; the code does
  what the comment says, and so does the model (`Resolve`). A client whose token has
  expired is refused although the map may know its credential: `NoIdentityNoService`
  and `QuietOutcome` hold with that reading.
- An upkeep whose prune raises, on a full disk above all, does not get as far as the
  free space (`addon.py` 502-516), so capture goes on for another hour, and with each
  such upkeep for one more (`low.raised` in `LowDiskPauses`), though the docstring
  (495-496) promises the pause without a condition.
- On a full disk, or with the log closed, `write` raises before the upkeep, the
  aggregate and the tail (`addon.py` 394): such requests are only in the error
  log (`excused` in `EveryRequestRecorded`).
- `_last_maintain` starts at zero and is compared with the host's uptime: there is
  no upkeep in the first hour after a boot; and it is set before the upkeep is
  tried, so that one that raises is not tried again for an hour (the conditions of
  `RetentionBound`).
- `prune_local` with `days` zero or absent prunes everything, and a failure in the
  middle leaves the statistics cached.
- `normalize_path` is not idempotent, though its docstring says so; a window
  given by two times is answered in whole hours; a tail command with limit zero
  uploads the whole tail (`events[-0:]`).
- A bare tag behind `tags:x` raises an AttributeError that no statement's handler
  catches (`raised`).
- The docstring of `http_connect` calls a CONNECT the only place where a tunnel's
  credential is seen; `request` reads the header inside a tunnel too (150-154). So a
  tunnel without an identity may get one in the middle, and a request that was judged
  as the guard's own before is recorded as that agent's (`RecordedAsJudged`).
- A Never rule on a service class does not apply to a call that a deeper class takes,
  as `checker.py` 14-17 says (`MostSpecific`). A set without a member in a Define is a
  fixed value that nothing has: its class matches nothing (`Fixed`).
- Of two conditions in one rule all but one are dropped
  (`ConditionKept`); `When:` with a capital in a with-clause is an attribute.
- A caller whose roles are a list is a member of no class defined `with role:x`, in
  whatever list x is; one whose token has the single word x for its claim
  (`jwt_verify.py` 60 hands on any value) is one. `RolesOnlyFilter` says the first
  and excepts the second.
- `lint_rules` says more than is so of a verb that HTTP calls do use, of a class
  that a Declare names too, of a filter by role, and of a class that pins nothing when
  another is deeper (the exceptions in `WarningsTrue`); merged Defines, and a rule
  whose `Never` stands on a line above its `allow`, are counted as lost although they
  are not.

## 5. What is proved

All by TLAPS, for every value of the constants that satisfies the named
assumptions.

*`WatcherHub_proofs`*, from `VersionAssumption`, `BundleAssumption`,
`CompileAssumption`, `IdentityAssumption` and `BoundAssumption` (a bundle's mode
is one of three or absent, its rules are a text `compile_rules` has an answer for,
`None` is no version, identity or compiled rule set). The inductive invariant is

    IInv == ThreadOK /\ AppliedInOrder

`TypeOK` and `WholeBundle` are not inductive. That the policy is whole after
`WriteVersion` follows only from what it is before it, so `AppliedInOrder` says
for each of the seven points which fields are the new bundle's (`Written`) and
that the others are still the old one's. `ThreadOK` gives the ranges of the
thread's own variables and that the bundle in hand loads. The run checks
`AppliedInOrder` alone; `WholeBundle` is its case in which nothing is written. Then
`TypeCorrect`, `WholeBundleHolds`, `NeverRevertsHolds` and
`EnforceWithItsRulesHolds` follow, the last two from what a single `Write` can
change (`WriteEffect`); and `Refinement`: `BundleLoads` maps to `Answer`,
`WriteVersion` to `Install`, the hub's edits and a crash to those of the cell,
every other step to a stutter.

*`ZplLogger_proofs`*, from the same and `CredAssumption` and `NoneAssumption` (a
credential is malformed, static or a JWT; `None` is no credential, flow, decision
or status). The thread may write any field between any two steps of a hook, so
no invariant can say that what a hook has read still holds. Three invariants
stand on top of each other:

- `DataOK`, about the hooks' own state: a hook has its flow and its connection,
  a request still unpinned is alone on its connection or in a tunnel, a closed
  connection has no pin, and what was decided was decided for the pinned identity, or
  for none in a tunnel. It gives
  `ProxyTypeCorrect`, `RecordedAsJudgedHolds` and `PinStaysHolds`.
- `HeldOK`, about `held`: what is recorded as true throughout the hook is true
  now, and a hook that enforces under a gate has an identity. It gives
  `NoneSlipsPastHolds` and `NoIdentityNoServiceHolds`, whatever is written.
- `QuietOK`, about a hook during which nothing is written: how far each of its
  registers has come towards `Expected` and `Judged`. It gives `QuietOutcomeHolds`.

*`ForensicLog_proofs`*, from `LogAssumption` and `AbsentAssumption` (the bounds are
numbers, a line is not empty, no sequence of lines is `Absent`). The invariant is

    IInv == LogOK /\ LinesOK /\ InOrder /\ DoomedOK /\ PruneErases /\ NoGaps

Every step leaves the files as they are (`Same`), moves one to the place behind it
(`Moved`), removes one (`Emptied`) or adds a line to the current one (`Appended`),
and each conjunct is shown for these four. `LogOK` makes a move safe: the place it
goes to is empty, or is the last, whose lines are the oldest there are. `DoomedOK`
is what `PruneErases` lacks: while a prune is on its way the lines it must
remove are at its index or behind, and a rotation underneath it only moves them
further back. Hence `LogTypeCorrect`, `InOrderHolds`, `NoGapsHolds`,
`PruneErasesHolds`.

`BoundedHolds` has an invariant of its own, `BoundedOK`: each file fits, and where
the writer is about to append there is room for its line, or the log is empty.
`Size` is a recursive function; what it computes is found without induction: the
sums of the first lines exist (`SumsExist`) and are alike for sequences that begin
alike (`SumsAgree`), each by a least counterexample, hence `SizeOfAppend`. The
theorem assumes `Backups # 0`. Without a backup `_rotate` has nowhere to move the log
and reopens it as it is, so the limit holds nothing; the addon never asks for that,
since it leaves `backups` at its default of two.

*`Capture_proofs`*, from `CaptureAssumption`, `AggregateAssumption` and
`ResolverAssumption` (the types of the constants, and an hour longer than
nothing). `RecOK` is about the step of the recording and the clocks; each theorem
adds one invariant: `FoldedOK` and `TailOK`, that the request in hand is new to
the aggregate and the tail and all before it are settled
(`EveryRequestRecordedHolds`); `SpaceOK`, that while space is low and capture goes
on, the last upkeep is at least as long ago as space has been low, or an upkeep
raised in that time and the last one did too (`LowDiskPausesHolds`); `KeptOK`, that each event kept has its row
(`PruneSparesHolds`, from `HourApart`); `RetainedOK`, that what an upkeep left was
young enough at its moment (`RetentionBoundHolds`); `CacheOK`, that a live answer
is Docker's, or was made before Docker's last change, and lives for the time of its
own kind (`TtlOf`; which of the two times is longer is open, as it is in the code)
(`AttributionCatchesUpHolds`). `CaptureTypeCorrect` collects the types.
`RowsOK` is what `SlicesExact` needs: the rows are what folding the kept events anew
would give. A row is determined by the events of its key, its last one by the
earliest place and its counts by their number (`GroupedIs`, `RowsOfKeys`), so that a
recorded event begins a row or grows one (`RowBegins`, `RowGrows`, from
`RecordDistinct`: it is not among the events yet), and an upkeep that drops whole
hours drops whole rows (`PruneGroups`). `QueryGroups` carries that over to the slice of
a window: `SlicesExactHolds`.

*`ZplCompile_proofs`*, from `TextAssumption` (the first texts are sequences of
statements, no longer than the bound). `Verdict` says what `evaluate` comes to: allowed iff some Allow rule
matches and no Never rule does. From it:

- `AllowedReachableHolds`: the slots that `service_reachable` looks at are among
  those a matching rule has matched, for the same resolved principal.
- `ConditionOnlyNarrowsHolds`: no Never rule that compiles has a condition
  (`CompiledForm`), and taking one away changes no slot (`BareMatches`).
- `RulesMonotoneHolds`: what is appended to a text whose last statement is not open
  (`Ended`) loses nothing of it and is not read as something else (`LostAppend`, by
  what error recovery swallows and an open statement takes), so a rule appended changes
  no definition and no other rule (`KeptAppend`), and one more rule of a result changes
  only what the rules of that result do (`MoreRules`). Behind an open statement the
  theorem would be false (section 4). The invariant used
  is `CompiledText`: the rule set in force is the one the text compiles to.
- `ConditionBlamedHolds`: the rule named is one of those blamed (`MinIsIn`); no
  rule fired, so no Never rule matches, with or without the condition taken away.

Two theorems compare the rule sets of two texts. Both rest on `SameSchema` and
`SameDefinitions`: what is compiled depends on the names of the classes, on
the parent and the own attributes of each and on the aliases, and not on the
statements these come from.

- `CaseInsensitiveHolds`, from `FoldingAssumption` too (statements and calls have the
  fields of their kind; a word in lower case stays as it is; for the names in a
  call, `zpl_token` and folding commute, which they do for names in ASCII: the Kelvin
  sign, whose lower case is an ASCII letter, is the exception that makes
  this an assumption). The text in lower case compiles to the *same* rule set
  (`FoldedCompiles`): what is read of a statement in its place is folded with it
  (`ReadingIs`, from `HeadlessFolded` and `FilledFolded` for those behind or before an
  open one), recovery swallows the same statements (`KeptFolded`), each class is
  made at the same place and by the same statements (`FoldedPlace`, `FoldedAdding`),
  and merging lists and then folding them is folding them and then merging
  (`FoldedMerged`). A call and the call in lower case are one request (`FoldedCall`).
- `OrderIrrelevantHolds`: where no name is given twice each class has one statement
  (`OnlyDefine`), each alias one class (`OnlyAka`) and each entity one Declare, so the
  definitions are determined by the set of statements (`AlikeSchema`, `AlikeAka`,
  `AlikeEntities`), and by `Verdict` the verdict by the set of rules (`AlikeRules`).
  A text turned round has the same set (`TurnedAlike`) and is unambiguous if the text was.
  `AlikeCompiled` says it for any two texts with the same statements.

*`ZplHierarchy_proofs`*, from the same and `StatementAssumption` (`None` is
neither a class nor a folded name or spec, the names of classes have a place in
the order of strings, a statement has finitely many attributes). `Line`, the
ancestors of a class, follows the parents for as many steps as there are classes.
Induction is out of the prover's reach; a least counterexample (`Least`) takes its
place. `ChainExists` and `ChainsAgree` say what the recursive function computes.
`LineIsClosed` is the heart of it: a set of classes that grew at each of so many
steps would be larger than there are classes, so the last step adds nothing and
`Line` is closed under parents, and the least such set. Hence it is transitive
(`LineIsTransitive`) and, in a schema that was accepted, goes one way only
(`LineIsOneWay`) and ends at one root (`LineHasOneRoot`, by the smallest line).
From these:

- `CompiledCorrect`: `CompiledOK`, with what `Definitions` makes of aliases.
- `UnknownIdentityDeniedHolds`: a principal no statement speaks of is inferred to
  be a bare user (`UnknownIsUser`), and a bare user satisfies a spec only if it
  names the root (`RootMatches`).
- `RolesOnlyFilterHolds`: a list never has a fixed value, and a class that fixes a
  role has no member without one either; so, for a caller whose roles are a
  list (`hub.subjects` and the pool give lists), the inference finds the same class with roles and without (`SameClass`), whatever other
  attributes agree (`SameSubject`), and a rule that names no role cannot tell
  the two calls apart (`SameMatch`). From `RolesAssumption` (roles are a value
  of an attribute), and the theorem assumes `NoneIsNoEntity`: the value that
  stands for a missing entity of a request is no entity itself, which is Python's
  `None`.
- `MostSpecificHolds`: among finitely many candidates one outranks the others
  (`Topmost`), so something is inferred (`InferredIs`), and a proper subclass is
  deeper than its ancestor (`LineShrinks`).

*`ZplLint_proofs`*, from the same and `LinesAssumption` (no statement has more than
two lines that begin with one of the four words). `LostIsReportedHolds`: the rules, the
classes and the entities of a rule set are the images of three sets of statements with
nothing in common and without the lost ones (`NamesOfStatements`, `Apart`), so
together they are no more than the statements kept (`ParsedAtMost`); and the lines
counted are no fewer than the statements that have one (`LinesEnough`).
`WarningsTrueHolds`: the class of a principal is one of the schema or the one it was
declared with, and its attributes are the call's, those of a Declare and its name
(`ResolvedIs`); so what has neither is not matched (`UndefinedIsUnmatched`,
`UnmetIsUnmatched`). A class that pins nothing is among the candidates of every call,
so what is inferred is at least as deep, and if no class outside it is
(`Unrivalled`), it lies within (`UnrivalledTaken`).

*`ZplParser_proofs`*, from `WordAssumption`: `ParserTypeCorrect`,
`PeriodResyncsHolds`, `ConditionKeptHolds` and `NoIdleCircleHolds`. `AheadOK` bounds
what is looked at; `PlaceOK` says which of its accounts the parser needs at which place, above all
where a value is given back to; `CountOK` relates the conditions written to those
kept, and makes room for the one whose value is just being read. The tables are
gone through row by row (`ExpectKeeps`, `NameKeeps`, `EatKeeps`); every step that
takes a period takes it alone and goes to `top`.
`NoIdleCircle` is as much of `MovesOn` as is a safety property. `Rank` gives every place
of the grammar a number from 0 to 10; a step that takes no token goes to a place of a
lower one, error recovery included (`ErringDescends`: an error is met at rank 3 or
higher, recovery is 2, and it takes a token unless the text has ended), and
`PlaceOK` says that a value goes back to a lower place. With the three tokens
that `AheadOK` allows in front, at most thirteen steps lie between two tokens taken.
The loop of a set before a mark (`Stuck`) is the one circle there is: its
steps leave the place and the tokens as they are, so none leads out of it.

## 6. What is only model-checked

- Liveness (`Converges`, `IdentityConverges`, `MovesOn`): fairness and ENABLED are
  outside the prover. Of `MovesOn`, that the parser goes in no circle is proved
  (`NoIdleCircle`); that some step is always enabled is not.
- Everything else a passing run checks is a theorem. (`WholeBundle` and
  `ConditionOnlyNarrows` are theorems that no run checks by themselves: the first
  follows from `AppliedInOrder`, and the run `policy` looks at conditions by
  `ConditionBlamed`.) The five counterexamples of
  section 4 are TLC's.

## 7. What is not modelled

- `stats` and `summary`: cached readings for the heartbeat; nothing depends on
  them.
- The tokenizer's characters, `normalize_path` and `_redact`: string handling, by
  what it does.
- Of `lint_rules` the hints about an upstream's tools, unguarded arguments and
  server slots.
- The legacy database (nothing calls it), configuration (read once), the
  re-exporting shims, the offline rule writer, shell and build files.
- JSON, HTTP, TLS, signatures, CEL and character-level string handling: libraries,
  modelled by their outcomes.

## 8. The plan

The modules were written in this order: `WatcherHub` with `LastKnownGood`,
`ZplLogger` composed with it, `ForensicLog`, `ZplEngine` and `ZplCompile`;
`IdentityResolver` and `EgressAggregate` with `Capture`, which composes them;
`ZplLint`; `ZplParser`; and for each of those with state of its own the proofs.
What would come next:

1. `ForensicLog` in the place of `log_open` in `Capture`: the event loop then has
   one writer for both, at the price of smaller bounds for each.
2. Properties for the hazards that have none, where the code turns out to promise
   something.
