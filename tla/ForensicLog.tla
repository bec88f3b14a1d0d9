---------------------------- MODULE ForensicLog ----------------------------
(***************************************************************************)
(* The rotating forensic log of the watcher (storage/jsonl.py, class       *)
(* JsonlWriter), one step per operation on the file system.                *)
(*                                                                         *)
(* Two threads use it: the event loop writes a line per response, and the  *)
(* hub thread empties the log when the hub sends a prune command.  The     *)
(* lock covers a whole write, rotation included, but of a truncation only  *)
(* the emptying of the current file: the backups are removed after it is   *)
(* released.  The process may die between any two steps; each line is      *)
(* flushed as it is written, so what is in a file stays there.             *)
(*                                                                         *)
(* A line is the number of the write that made it and its size.  What is   *)
(* in the line, and a disk that refuses writes, are outside this module.   *)
(***************************************************************************)
EXTENDS Integers, Sequences

CONSTANTS
    Backups,      \* self._backups: generations kept beside the current file
    MaxBytes,     \* self._max_bytes; 0 means no rotation
    Sizes,        \* sizes a line can have
    Absent,       \* a file that does not exist
    MaxWrites,    \* bound: lines written in a behaviour
    MaxPrunes,    \* bound: prune commands in a behaviour
    MaxCrashes    \* bound: deaths of the process

ASSUME LogAssumption == /\ Backups \in Nat /\ MaxBytes \in Nat
                        /\ Sizes \subseteq Nat \ {0}
                        /\ MaxWrites \in Nat /\ MaxPrunes \in Nat
                        /\ MaxCrashes \in Nat

\* No sequence of lines is Absent.
ASSUME AbsentAssumption == Absent \notin Seq([id : Nat, size : Nat])

VARIABLES
    file,       \* file[0] is the log, file[i] its i-th backup: lines, or Absent
    open,       \* self._f is open
    up,         \* the process is running and close() has not been called
    writer,     \* the event loop in write: its step, its loop index, its line
    pruner,     \* the hub thread in truncate: its step and loop index
    attempts, prunes, crashes,   \* counters for the bounds
    \* The history, for the properties only:
    written,    \* number of the last line written
    doomed,     \* lines up to this number were written before the current
                \* prune emptied the log
    erased,     \* ... before the last prune that ran to its end
    settled     \* lines up to this number were written before a prune that
                \* has ended since, well or badly

counters == <<attempts, prunes, crashes>>
history == <<written, doomed, erased, settled>>
vars == <<file, open, up, writer, pruner, counters, history>>

Index == 0..Backups

\* self._f.tell(): what the lines take together.
Size(lines) ==
    LET upto[k \in 0..Len(lines)] == IF k = 0 THEN 0 ELSE upto[k - 1] + lines[k].size
    IN upto[Len(lines)]

AtRest == [at |-> "rest"]

\* __init__ of the first process, which creates the file.
Init == /\ file = [i \in Index |-> IF i = 0 THEN <<>> ELSE Absent]
        /\ open = TRUE /\ up = TRUE
        /\ writer = AtRest /\ pruner = AtRest
        /\ attempts = 0 /\ prunes = 0 /\ crashes = 0
        /\ written = 0 /\ doomed = 0 /\ erased = 0 /\ settled = 0

-----------------------------------------------------------------------------
(* write, and _rotate_locked inside it.  The lock is the writer's from its  *)
(* first step to its last.                                                  *)

Locked == writer # AtRest

\* self._f.tell() raises when the log is closed: the line is lost.
WriteRaises == /\ up /\ ~open /\ ~Locked /\ attempts < MaxWrites
               /\ attempts' = attempts + 1
               /\ UNCHANGED <<file, open, up, writer, pruner, prunes, crashes,
                              history>>

\* The size test, and the close that begins a rotation.
write(size) ==
    /\ up /\ open /\ ~Locked /\ attempts < MaxWrites
    /\ attempts' = attempts + 1
    /\ IF MaxBytes # 0 /\ Size(file[0]) + size > MaxBytes
       THEN writer' = [at |-> "exists", i |-> Backups, size |-> size] /\ open' = FALSE
       ELSE writer' = [at |-> "append", i |-> 0, size |-> size] /\ UNCHANGED open
    /\ UNCHANGED <<file, up, pruner, prunes, crashes, history>>

\* Mutant: a missing backup ends the rotation.
RotateGivesUp ==
    /\ writer.at = "exists"
    /\ writer' = IF writer.i # 0 /\ file[writer.i - 1] # Absent
                 THEN [writer EXCEPT !.at = "replace"]
                 ELSE [writer EXCEPT !.at = "reopen"]
    /\ UNCHANGED <<file, open, up, pruner, counters, history>>

\* Is there a file to move to .i?  The log itself is moved to .1, last.
RotateExists ==
    /\ writer.at = "exists"
    /\ writer' = IF writer.i = 0 THEN [writer EXCEPT !.at = "reopen"]
                 ELSE IF file[writer.i - 1] # Absent
                 THEN [writer EXCEPT !.at = "replace"]
                 ELSE [writer EXCEPT !.i = @ - 1]
    /\ UNCHANGED <<file, open, up, pruner, counters, history>>

\* Mutant: the file is copied instead of moved.
RotateCopies ==
    /\ writer.at = "replace" /\ file[writer.i - 1] # Absent
    /\ file' = [file EXCEPT ![writer.i] = file[writer.i - 1]]
    /\ writer' = [writer EXCEPT !.at = "exists", !.i = @ - 1]
    /\ UNCHANGED <<open, up, pruner, counters, history>>

RotateReplace ==
    /\ writer.at = "replace" /\ file[writer.i - 1] # Absent
    /\ file' = [file EXCEPT ![writer.i] = file[writer.i - 1],
                            ![writer.i - 1] = Absent]
    /\ writer' = [writer EXCEPT !.at = "exists", !.i = @ - 1]
    /\ UNCHANGED <<open, up, pruner, counters, history>>

\* The file was unlinked since: os.replace raises, and the exception leaves
\* the method with the log closed.
RotateRaises ==
    /\ writer.at = "replace" /\ file[writer.i - 1] = Absent
    /\ writer' = AtRest
    /\ UNCHANGED <<file, open, up, pruner, counters, history>>

Existing(lines) == IF lines = Absent THEN <<>> ELSE lines

RotateReopen ==
    /\ writer.at = "reopen"
    /\ file' = [file EXCEPT ![0] = Existing(@)]
    /\ open' = TRUE
    /\ writer' = [writer EXCEPT !.at = "append"]
    /\ UNCHANGED <<up, pruner, counters, history>>

WriteLine ==
    /\ writer.at = "append"
    /\ written' = written + 1
    /\ file' = [file EXCEPT ![0] = Append(@, [id |-> written + 1,
                                              size |-> writer.size])]
    /\ writer' = AtRest
    /\ UNCHANGED <<open, up, pruner, counters, doomed, erased, settled>>

-----------------------------------------------------------------------------
(* truncate, on the hub thread.                                             *)

\* Mutant: the backups are removed oldest first.
OldestFirst(i) == IF i = 0 THEN [at |-> "exists", i |-> Backups]
                  ELSE IF i > 1 THEN [at |-> "exists", i |-> i - 1] ELSE AtRest

NextBackup(i) == IF i < Backups THEN [at |-> "exists", i |-> i + 1] ELSE AtRest

\* Under the lock: the open file is emptied in place.
truncate ==
    /\ pruner = AtRest /\ ~Locked /\ up /\ open /\ prunes < MaxPrunes
    /\ prunes' = prunes + 1
    /\ file' = [file EXCEPT ![0] = <<>>]
    /\ doomed' = written
    /\ pruner' = NextBackup(0)
    /\ UNCHANGED <<open, up, writer, attempts, crashes, written, erased, settled>>

\* seek() on a closed log raises: the backups are not looked at.
TruncateRaises ==
    /\ pruner = AtRest /\ ~Locked /\ up /\ ~open /\ prunes < MaxPrunes
    /\ prunes' = prunes + 1
    /\ UNCHANGED <<file, open, up, writer, pruner, attempts, crashes, history>>

\* From here on without the lock.  Finishing is noted in the history.
Onward(i) ==
    /\ pruner' = NextBackup(i)
    /\ IF NextBackup(i) # AtRest THEN UNCHANGED <<erased, settled>>
       ELSE erased' = doomed /\ settled' = written
    /\ UNCHANGED <<open, up, writer, counters, written, doomed>>

PruneExists ==
    /\ pruner.at = "exists"
    /\ \/ /\ file[pruner.i] # Absent
          /\ pruner' = [pruner EXCEPT !.at = "unlink"]
          /\ UNCHANGED <<file, open, up, writer, counters, history>>
       \/ /\ file[pruner.i] = Absent
          /\ Onward(pruner.i)
          /\ UNCHANGED file

\* A file that has been moved away meanwhile is an OSError, and ignored.
PruneUnlink ==
    /\ pruner.at = "unlink"
    /\ file' = [file EXCEPT ![pruner.i] = Absent]
    /\ Onward(pruner.i)

-----------------------------------------------------------------------------
\* close, at shutdown: it takes the lock, and leaves a prune to go on.
close == /\ up /\ ~Locked
         /\ up' = FALSE /\ open' = FALSE
         /\ UNCHANGED <<file, writer, pruner, counters, history>>

\* Mutant: the next process creates its log with the first line.
RestartLazily == /\ crashes < MaxCrashes
                 /\ crashes' = crashes + 1
                 /\ open' = TRUE /\ up' = TRUE
                 /\ writer' = AtRest /\ pruner' = AtRest
                 /\ settled' = IF pruner = AtRest THEN settled ELSE written
                 /\ UNCHANGED <<file, attempts, prunes, written, doomed, erased>>

\* Mutant: the next process starts a new log over the old one.
RestartOverwrites == /\ crashes < MaxCrashes
                     /\ crashes' = crashes + 1
                     /\ file' = [file EXCEPT ![0] = <<>>]
                     /\ open' = TRUE /\ up' = TRUE
                     /\ writer' = AtRest /\ pruner' = AtRest
                     /\ settled' = IF pruner = AtRest THEN settled ELSE written
                     /\ UNCHANGED <<attempts, prunes, written, doomed, erased>>

\* The process ends, well or badly, and the next one opens the log.
Restart == /\ crashes < MaxCrashes
           /\ crashes' = crashes + 1
           /\ file' = [file EXCEPT ![0] = Existing(@)]
           /\ open' = TRUE /\ up' = TRUE
           /\ writer' = AtRest /\ pruner' = AtRest
           /\ settled' = IF pruner = AtRest THEN settled ELSE written
           /\ UNCHANGED <<attempts, prunes, written, doomed, erased>>

EventLoop == \/ WriteRaises \/ \E size \in Sizes : write(size)
             \/ RotateExists \/ RotateReplace \/ RotateRaises \/ RotateReopen
             \/ WriteLine \/ close

HubThread == truncate \/ TruncateRaises \/ PruneExists \/ PruneUnlink

Next == EventLoop \/ HubThread \/ Restart

Spec == Init /\ [][Next]_vars

-----------------------------------------------------------------------------
(* Properties.                                                              *)

LogTypeOK ==
    /\ \A i \in Index : file[i] # Absent => \A k \in DOMAIN file[i] :
          file[i][k].id \in 1..written /\ file[i][k].size \in Sizes
    /\ writer # AtRest => writer.i \in Index
    /\ pruner # AtRest => pruner.i \in 1..Backups
    /\ erased <= doomed /\ doomed <= written /\ settled <= written
    /\ file[0] = Absent => writer # AtRest /\ ~open

\* What is in a file.  A reader of the log takes the oldest backup first.
Lines(i) == Existing(file[i])

\* At every moment, halfway through a rotation or a prune included, and after
\* a crash there, the files hold lines in the order they were written, each
\* once.
InOrder ==
    \A i, j \in Index : \A k \in DOMAIN Lines(i), l \in DOMAIN Lines(j) :
        i > j \/ (i = j /\ k < l) => Lines(i)[k].id < Lines(j)[l].id

\* Rotation drops oldest lines first.  Of the lines written since the last
\* prune ended, the files hold the latest ones without a gap; a crash in the
\* middle of a rotation opens none.
NoGaps ==
    pruner = AtRest =>
        \A i \in Index : \A k \in DOMAIN Lines(i) :
            Lines(i)[k].id > settled =>
                \A m \in Lines(i)[k].id..written :
                    \E j \in Index : \E l \in DOMAIN Lines(j) : Lines(j)[l].id = m

\* A prune that runs to its end leaves nothing of what was in the log when it
\* began, though rotations move the files about underneath it.
PruneErases == \A i \in Index : \A k \in DOMAIN Lines(i) : Lines(i)[k].id > erased

\* "So the local forensic capture stays bounded": no file outgrows the limit,
\* unless a single line does.
Bounded == MaxBytes # 0 => \A i \in Index :
              file[i] = Absent \/ Size(file[i]) <= MaxBytes \/ Len(file[i]) = 1

\* Between two writes the log is open ("when the file exceeds max_bytes it
\* rotates to <path>.1 and starts fresh").  The code does not have this.
StartsFresh == up /\ ~Locked => open
=============================================================================
