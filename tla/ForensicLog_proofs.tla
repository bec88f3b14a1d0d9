------------------------- MODULE ForensicLog_proofs -------------------------
(***************************************************************************)
(* Proofs about ForensicLog, for every number of backups, every limit,     *)
(* every size of a line, and every order of the two threads, crashes       *)
(* included.                                                               *)
(*                                                                         *)
(* LogOK is about one moment of a rotation: the file that is moved next    *)
(* goes where there is none, but for the last one, whose lines are the     *)
(* oldest.  DoomedOK is about a prune on its way: what it must remove is   *)
(* still ahead of it, though the writer moves files under it.              *)
(***************************************************************************)
EXTENDS ForensicLog, FiniteSetTheorems, WellFoundedInduction, TLAPS

Line == [id : Nat, size : Nat]

WriterOK ==
    \/ writer = AtRest
    \/ /\ writer = [at |-> writer.at, i |-> writer.i, size |-> writer.size]
       /\ writer.at \in {"exists", "replace", "reopen", "append"}
       /\ writer.i \in Index /\ writer.size \in Sizes
       /\ writer.at = "replace" => writer.i # 0
       /\ writer.at = "append" <=> open = TRUE
       /\ writer.at \in {"exists", "replace"} /\ writer.i < Backups
             => file[writer.i] = Absent

PrunerOK ==
    \/ pruner = AtRest
    \/ /\ pruner = [at |-> pruner.at, i |-> pruner.i]
       /\ pruner.at \in {"exists", "unlink"} /\ pruner.i \in 1..Backups

LogOK ==
    /\ file \in [Index -> Seq(Line) \cup {Absent}]
    /\ open \in BOOLEAN
    /\ {written, doomed, erased, settled} \subseteq Nat
    /\ erased <= doomed /\ doomed <= written /\ settled <= written
    /\ WriterOK /\ PrunerOK
    /\ file[0] = Absent => /\ writer # AtRest /\ open = FALSE
                           /\ writer.at = "exists" => writer.i = 0
                           /\ writer.at # "replace"

LinesOK ==
    \A i \in Index : \A k \in DOMAIN Lines(i) :
        Lines(i)[k].id \in 1..written /\ Lines(i)[k].size \in Sizes

DoomedOK ==
    pruner # AtRest =>
        \A i \in Index : \A k \in DOMAIN Lines(i) :
            Lines(i)[k].id <= doomed => pruner.i <= i

-----------------------------------------------------------------------------
LEMMA Elements ==
    ASSUME NEW S, NEW s \in Seq(S)
    PROVE  DOMAIN s = 1..Len(s) /\ \A k \in DOMAIN s : s[k] \in S
  OBVIOUS

LEMMA NotAbsent == ASSUME NEW s \in Seq(Line) PROVE s # Absent
  BY AbsentAssumption DEF Line

LEMMA InitLogOK == Init => LogOK /\ LinesOK /\ DoomedOK /\ InOrder /\ NoGaps /\ PruneErases
<1> SUFFICES ASSUME Init
    PROVE LogOK /\ LinesOK /\ DoomedOK /\ InOrder /\ NoGaps /\ PruneErases
  OBVIOUS
<1>1. /\ file = [i \in Index |-> IF i = 0 THEN <<>> ELSE Absent] /\ 0 \in Index
      /\ <<>> \in Seq(Line) /\ <<>> # Absent
  BY NotAbsent, LogAssumption DEF Init, Index
<1>2. LogOK
  BY <1>1 DEF Init, LogOK, WriterOK, PrunerOK
<1>3. \A i \in Index : Lines(i) = <<>>
  BY <1>1 DEF Lines, Existing
<1> QED
  BY <1>2, <1>3 DEF Init, LinesOK, DoomedOK, InOrder, NoGaps, PruneErases

-----------------------------------------------------------------------------
(* What a step does to the files.                                           *)

Same == \A i \in Index : Lines(i)' = Lines(i)

Moved(w) == /\ w \in Index \ {0} /\ (w < Backups => Lines(w) = <<>>)
            /\ Lines(w)' = Lines(w - 1) /\ Lines(w - 1)' = <<>>
            /\ \A i \in Index \ {w, w - 1} : Lines(i)' = Lines(i)

Emptied(e) == /\ e \in Index /\ Lines(e)' = <<>>
              /\ \A i \in Index \ {e} : Lines(i)' = Lines(i)

Appended == /\ \E size \in Sizes :
                 Lines(0)' = Append(Lines(0), [id |-> written + 1, size |-> size])
            /\ written' = written + 1
            /\ \A i \in Index \ {0} : Lines(i)' = Lines(i)

LEMMA LinesInSeq == ASSUME LogOK PROVE \A i \in Index : Lines(i) \in Seq(Line)
  BY DEF LogOK, Lines, Existing

LEMMA SameFile == ASSUME UNCHANGED file PROVE Same
  BY DEF Same, Lines, Existing

LEMMA WriterMoves ==
    ASSUME LogOK, writer # AtRest
    PROVE  /\ writer = [at |-> writer.at, i |-> writer.i, size |-> writer.size]
           /\ writer.at \in {"exists", "replace", "reopen", "append"}
           /\ writer.i \in Index /\ writer.size \in Sizes
           /\ writer.at = "replace" => writer.i # 0
           /\ writer.at = "append" <=> open = TRUE
           /\ writer.at \in {"exists", "replace"} /\ writer.i < Backups
                 => file[writer.i] = Absent
  BY DEF LogOK, WriterOK

\* A step that leaves files, writer and log as they are.
LEMMA QuietKeepsLog ==
    ASSUME LogOK, UNCHANGED <<file, open, writer, written>>, PrunerOK',
           {doomed, erased, settled}' \subseteq Nat,
           erased' <= doomed' /\ doomed' <= written' /\ settled' <= written'
    PROVE  LogOK'
  BY DEF LogOK, WriterOK

LEMMA writeKeepsLog ==
    ASSUME LogOK, NEW size \in Sizes, write(size) PROVE LogOK' /\ Same
<1>1. /\ UNCHANGED <<file, pruner, history>> /\ open = TRUE /\ writer = AtRest
      /\ \/ writer' = [at |-> "exists", i |-> Backups, size |-> size] /\ open' = FALSE
         \/ writer' = [at |-> "append", i |-> 0, size |-> size] /\ open' = TRUE
  BY DEF write, Locked, LogOK
<1>2. WriterOK'
  BY <1>1, LogAssumption DEF WriterOK, Index
<1>3. file[0] # Absent
  BY <1>1 DEF LogOK
<1> QED
  BY <1>1, <1>2, <1>3, SameFile DEF LogOK, PrunerOK, history

LEMMA ExistsKeepsLog == ASSUME LogOK, RotateExists PROVE LogOK' /\ Same
<1>1. writer # AtRest /\ writer.at = "exists" /\ UNCHANGED <<file, open, pruner, history>>
  BY DEF RotateExists, AtRest
<1> DEFINE w == writer.i
<1>2. \/ w = 0 /\ writer' = [at |-> "reopen", i |-> w, size |-> writer.size]
      \/ w # 0 /\ file[w - 1] # Absent
         /\ writer' = [at |-> "replace", i |-> w, size |-> writer.size]
      \/ w # 0 /\ file[w - 1] = Absent
         /\ writer' = [at |-> "exists", i |-> w - 1, size |-> writer.size]
  BY <1>1, WriterMoves DEF RotateExists
<1>3. WriterOK' /\ writer' # AtRest
  <2>1. /\ w \in 0..Backups /\ Backups \in Nat /\ writer.size \in Sizes /\ open = FALSE
        /\ w < Backups => file[w] = Absent
    BY <1>1, WriterMoves, LogAssumption DEF Index, LogOK
  <2> QED
    BY <1>1, <1>2, <2>1 DEF WriterOK, Index, AtRest
<1>4. file[0] = Absent => w = 0
  BY <1>1 DEF LogOK
<1> QED
  BY <1>1, <1>2, <1>3, <1>4, SameFile DEF LogOK, PrunerOK, history

LEMMA ReplaceKeepsLog ==
    ASSUME LogOK, RotateReplace PROVE LogOK' /\ \E w \in Index : Moved(w)
<1>1. /\ writer # AtRest /\ writer.at = "replace" /\ file[writer.i - 1] # Absent
      /\ UNCHANGED <<open, pruner, history>>
  BY DEF RotateReplace, AtRest
<1> PICK w \in Index : w = writer.i
  BY <1>1, WriterMoves
<1>2. /\ w \in 1..Backups /\ w - 1 \in Index /\ Backups \in Nat
      /\ file[w - 1] # Absent /\ (w < Backups => file[w] = Absent)
      /\ open = FALSE
  <2>1. w # 0 /\ (w < Backups => file[w] = Absent) /\ writer.at # "append"
    BY <1>1, WriterMoves
  <2>2. open = FALSE
    BY <1>1, <2>1, WriterMoves DEF LogOK
  <2> QED
    BY <1>1, <2>1, <2>2, LogAssumption DEF Index
<1>3. /\ file' = [file EXCEPT ![w] = file[w - 1], ![w - 1] = Absent]
      /\ writer' = [at |-> "exists", i |-> w - 1, size |-> writer.size]
  BY <1>1, WriterMoves DEF RotateReplace
<1>4. /\ file' \in [Index -> Seq(Line) \cup {Absent}]
      /\ file'[w] = file[w - 1] /\ file'[w - 1] = Absent
      /\ \A i \in Index \ {w, w - 1} : file'[i] = file[i]
  BY <1>2, <1>3 DEF LogOK
<1>5. WriterOK' /\ writer' # AtRest
  BY <1>1, <1>2, <1>3, <1>4, WriterMoves DEF WriterOK, AtRest
<1>6. file'[0] = Absent => w - 1 = 0
  <2>1. file[0] # Absent /\ 0 \in Index
    BY <1>1, LogAssumption DEF LogOK, Index
  <2> QED
    BY <1>2, <1>4, <2>1
<1>7. Moved(w)
  <2>1. /\ Lines(w)' = Lines(w - 1) /\ Lines(w - 1)' = <<>>
        /\ w < Backups => Lines(w) = <<>>
    BY <1>2, <1>4 DEF Lines, Existing
  <2>2. \A i \in Index \ {w, w - 1} : Lines(i)' = Lines(i)
    BY <1>4 DEF Lines, Existing
  <2> QED
    BY <1>2, <2>1, <2>2 DEF Moved
<1> QED
  BY <1>1, <1>2, <1>3, <1>4, <1>5, <1>6, <1>7 DEF LogOK, PrunerOK, history

\* The three other steps of the writer end or come after its moves.
LEMMA RaisesKeepsLog == ASSUME LogOK, RotateRaises PROVE LogOK' /\ Same
<1>1. /\ writer # AtRest /\ writer.at = "replace" /\ writer' = AtRest
      /\ UNCHANGED <<file, open, pruner, history>>
  BY DEF RotateRaises, AtRest
<1>2. file[0] # Absent
  BY <1>1 DEF LogOK
<1> QED
  BY <1>1, <1>2, SameFile DEF LogOK, WriterOK, PrunerOK, history

\* Opening the log makes it exist.
LEMMA Opened ==
    ASSUME LogOK, file' = [file EXCEPT ![0] = Existing(@)]
    PROVE  /\ file' \in [Index -> Seq(Line) \cup {Absent}] /\ file'[0] # Absent
           /\ Same
<1>1. 0 \in Index /\ <<>> \in Seq(Line)
  BY LogAssumption DEF Index
<1>2. Existing(file[0]) \in Seq(Line)
  BY <1>1 DEF LogOK, Existing
<1>3. file'[0] = Existing(file[0]) /\ \A i \in Index \ {0} : file'[i] = file[i]
  BY <1>1 DEF LogOK
<1>4. file'[0] # Absent
  BY <1>2, <1>3, NotAbsent
<1>5. Same
  BY <1>3, <1>4 DEF Same, Lines, Existing
<1> QED
  BY <1>2, <1>4, <1>5 DEF LogOK

LEMMA ReopenKeepsLog == ASSUME LogOK, RotateReopen PROVE LogOK' /\ Same
<1>1. /\ writer # AtRest /\ writer.at = "reopen" /\ open' = TRUE
      /\ file' = [file EXCEPT ![0] = Existing(@)]
      /\ UNCHANGED <<pruner, history>>
  BY DEF RotateReopen, AtRest
<1>2. writer' = [at |-> "append", i |-> writer.i, size |-> writer.size]
  BY <1>1, WriterMoves DEF RotateReopen
<1>3. WriterOK'
  BY <1>1, <1>2, WriterMoves DEF WriterOK
<1> QED
  BY <1>1, <1>3, Opened DEF LogOK, PrunerOK, history

LEMMA LineKeepsLog == ASSUME LogOK, WriteLine PROVE LogOK' /\ Appended
<1> DEFINE line == [id |-> written + 1, size |-> writer.size]
<1>1. /\ writer # AtRest /\ writer.at = "append" /\ writer' = AtRest
      /\ written' = written + 1
      /\ file' = [file EXCEPT ![0] = Append(@, line)]
      /\ UNCHANGED <<open, pruner, doomed, erased, settled>>
  BY DEF WriteLine, AtRest
<1>2. open = TRUE /\ writer.size \in Sizes
  BY <1>1, WriterMoves
<1>3. 0 \in Index /\ file[0] # Absent /\ file[0] \in Seq(Line) /\ line \in Line
  <2>1. 0 \in Index
    BY LogAssumption DEF Index
  <2>2. file[0] # Absent
    BY <1>1, <1>2 DEF LogOK
  <2>3. file[0] \in Seq(Line)
    BY <2>1, <2>2 DEF LogOK
  <2>4. written + 1 \in Nat
    BY DEF LogOK
  <2>5. writer.size \in Nat
    BY <1>2, LogAssumption
  <2> QED
    BY <2>1, <2>2, <2>3, <2>4, <2>5 DEF Line
<1>4. file'[0] = Append(file[0], line) /\ \A i \in Index \ {0} : file'[i] = file[i]
  BY <1>1, <1>3 DEF LogOK
<1>5. file'[0] \in Seq(Line) /\ file'[0] # Absent
  <2> HIDE DEF line
  <2>1. Append(file[0], line) \in Seq(Line)
    BY <1>3
  <2> QED
    BY <1>4, <2>1, NotAbsent
<1>6. file' \in [Index -> Seq(Line) \cup {Absent}]
  BY <1>1, <1>4, <1>5 DEF LogOK
<1>7. Appended
  BY <1>1, <1>2, <1>3, <1>4, <1>5 DEF Appended, Lines, Existing
<1>8. LogOK'
  BY <1>1, <1>5, <1>6 DEF LogOK, WriterOK, PrunerOK
<1> QED
  BY <1>7, <1>8

LEMMA closeKeepsLog == ASSUME LogOK, close PROVE LogOK' /\ Same
<1>1. writer = AtRest /\ open' = FALSE /\ UNCHANGED <<file, writer, pruner, history>>
  BY DEF close, Locked
<1>2. file[0] # Absent
  BY <1>1 DEF LogOK
<1> QED
  BY <1>1, <1>2, SameFile DEF LogOK, WriterOK, PrunerOK, history

LEMMA RestartKeepsLog == ASSUME LogOK, Restart PROVE LogOK' /\ Same
<1>1. /\ file' = [file EXCEPT ![0] = Existing(@)] /\ open' = TRUE
      /\ writer' = AtRest /\ pruner' = AtRest
      /\ settled' = IF pruner = AtRest THEN settled ELSE written
      /\ UNCHANGED <<written, doomed, erased>>
  BY DEF Restart
<1>2. file' \in [Index -> Seq(Line) \cup {Absent}] /\ file'[0] # Absent /\ Same
  BY <1>1, Opened
<1>3. WriterOK' /\ PrunerOK'
  BY <1>1 DEF WriterOK, PrunerOK
<1>4. settled' \in Nat /\ settled' <= written'
  BY <1>1 DEF LogOK
<1> QED
  BY <1>1, <1>2, <1>3, <1>4 DEF LogOK

\* The pruner's next step.
LEMMA Next1 ==
    ASSUME NEW i \in 0..Backups
    PROVE  /\ i < Backups => /\ NextBackup(i) = [at |-> "exists", i |-> i + 1]
                             /\ NextBackup(i) # AtRest /\ i + 1 \in 1..Backups
           /\ i = Backups => NextBackup(i) = AtRest
  BY LogAssumption DEF NextBackup, AtRest

LEMMA EmptiedFile ==
    ASSUME LogOK, NEW e \in Index, NEW new \in {<<>>, Absent},
           file' = [file EXCEPT ![e] = new], new = Absent => e # 0
    PROVE  /\ file' \in [Index -> Seq(Line) \cup {Absent}] /\ Emptied(e)
           /\ new = Absent => \A i \in Index : file[i] = Absent => file'[i] = Absent
           /\ file'[0] = Absent => file[0] = Absent
<1>1. <<>> \in Seq(Line)
  OBVIOUS
<1>2. <<>> # Absent
  BY <1>1, NotAbsent
<1>3. file'[e] = new /\ \A i \in Index \ {e} : file'[i] = file[i]
  BY DEF LogOK
<1>4. file' \in [Index -> Seq(Line) \cup {Absent}]
  BY <1>1 DEF LogOK
<1>5. Emptied(e)
  <2>1. Lines(e)' = <<>>
    BY <1>3 DEF Lines, Existing
  <2>2. \A i \in Index \ {e} : Lines(i)' = Lines(i)
    BY <1>3 DEF Lines, Existing
  <2> QED
    BY <2>1, <2>2 DEF Emptied
<1>6. 0 \in Index
  BY LogAssumption DEF Index
<1> QED
  BY <1>2, <1>3, <1>4, <1>5, <1>6

LEMMA truncateKeepsLog == ASSUME LogOK, truncate PROVE LogOK' /\ Emptied(0)
<1>1. /\ writer = AtRest /\ open = TRUE /\ UNCHANGED <<open, writer, written, erased, settled>>
      /\ file' = [file EXCEPT ![0] = <<>>] /\ doomed' = written
      /\ pruner' = NextBackup(0)
  BY DEF truncate, Locked, LogOK
<1>2. 0 \in Index /\ 0 \in 0..Backups /\ Backups \in Nat
  BY LogAssumption DEF Index
<1>3. PrunerOK'
  BY <1>1, <1>2, Next1 DEF PrunerOK
<1>4. <<>> \in {<<>>, Absent} /\ 0 \in Index /\ <<>> # Absent
  <2>1. <<>> \in Seq(Line)
    OBVIOUS
  <2> QED
    BY <1>2, <2>1, NotAbsent
<1>5. /\ file' \in [Index -> Seq(Line) \cup {Absent}] /\ Emptied(0)
      /\ file'[0] = Absent => file[0] = Absent
  BY <1>1, <1>4, EmptiedFile
<1> QED
  BY <1>1, <1>3, <1>5 DEF LogOK, WriterOK

LEMMA PrunerMoves ==
    ASSUME LogOK, pruner # AtRest
    PROVE  /\ pruner = [at |-> pruner.at, i |-> pruner.i]
           /\ pruner.at \in {"exists", "unlink"} /\ pruner.i \in 1..Backups
           /\ pruner.i \in Index
  BY LogAssumption DEF LogOK, PrunerOK, Index

\* A pruner that goes on, over a file that is gone.
LEMMA OnwardKeeps ==
    ASSUME LogOK, pruner # AtRest, Onward(pruner.i)
    PROVE  /\ PrunerOK'
           /\ {doomed, erased, settled}' \subseteq Nat
           /\ erased' <= doomed' /\ doomed' <= written' /\ settled' <= written'
<1> PICK i \in 0..Backups : i = pruner.i
  BY PrunerMoves
<1>1. pruner' = NextBackup(i) /\ UNCHANGED <<written, doomed>>
  BY DEF Onward
<1>2. PrunerOK'
  <2>1. CASE i = Backups
    BY <1>1, <2>1, Next1 DEF PrunerOK
  <2>2. CASE i < Backups
    BY <1>1, <2>2, Next1 DEF PrunerOK
  <2> QED
    BY <2>1, <2>2, LogAssumption
<1>3. \/ erased' = erased /\ settled' = settled
      \/ erased' = doomed /\ settled' = written
  BY DEF Onward
<1>4. /\ written \in Nat /\ doomed \in Nat /\ erased \in Nat /\ settled \in Nat
      /\ erased <= doomed /\ doomed <= written /\ settled <= written
  BY DEF LogOK
<1> QED
  BY <1>1, <1>2, <1>3, <1>4

LEMMA PruneExistsKeepsLog == ASSUME LogOK, PruneExists PROVE LogOK' /\ Same
<1>1. pruner # AtRest /\ UNCHANGED <<file, open, writer, written>>
  BY DEF PruneExists, Onward, AtRest, history
<1>2. CASE file[pruner.i] # Absent
  <2>1. pruner' = [at |-> "unlink", i |-> pruner.i] /\ UNCHANGED history
    BY <1>1, <1>2, PrunerMoves DEF PruneExists
  <2>2. PrunerOK'
    BY <1>1, <2>1, PrunerMoves DEF PrunerOK
  <2> QED
    BY <1>1, <2>1, <2>2, SameFile, QuietKeepsLog DEF history, LogOK
<1>3. CASE file[pruner.i] = Absent
  BY <1>1, <1>3, OnwardKeeps, QuietKeepsLog, SameFile DEF PruneExists
<1> QED
  BY <1>2, <1>3

LEMMA PruneUnlinkKeepsLog ==
    ASSUME LogOK, PruneUnlink PROVE LogOK' /\ \E e \in Index : e = pruner.i /\ Emptied(e)
<1>1. /\ pruner # AtRest /\ UNCHANGED <<open, writer, written>>
      /\ file' = [file EXCEPT ![pruner.i] = Absent] /\ Onward(pruner.i)
  BY DEF PruneUnlink, Onward, AtRest
<1> PICK e \in Index : e = pruner.i /\ e # 0
  BY <1>1, PrunerMoves
<1>2. /\ file' \in [Index -> Seq(Line) \cup {Absent}] /\ Emptied(e)
      /\ \A i \in Index : file[i] = Absent => file'[i] = Absent
      /\ file'[0] = Absent => file[0] = Absent
  <2>1. Absent \in {<<>>, Absent} /\ file' = [file EXCEPT ![e] = Absent]
    BY <1>1
  <2> QED
    BY <2>1, EmptiedFile
<1>3. WriterOK'
  <2>1. CASE writer = AtRest
    BY <1>1, <2>1 DEF WriterOK
  <2>2. CASE writer # AtRest
    BY <1>1, <1>2, <2>2, WriterMoves DEF WriterOK
  <2> QED
    BY <2>1, <2>2
<1> QED
  BY <1>1, <1>2, <1>3, OnwardKeeps DEF LogOK

-----------------------------------------------------------------------------
(* What each of the four effects does to the order of the lines.  Lines(i)' *)
(* is the content of file i after the step.                                 *)

LEMMA LineIds ==
    ASSUME LogOK, LinesOK, NEW i \in Index, NEW k \in DOMAIN Lines(i)
    PROVE  /\ Lines(i) \in Seq(Line) /\ k \in 1..Len(Lines(i))
           /\ Lines(i)[k].id \in Nat /\ Lines(i)[k].id <= written
<1>1. Lines(i) \in Seq(Line)
  BY LinesInSeq
<1>2. k \in 1..Len(Lines(i))
  BY <1>1, Elements
<1>3. Lines(i)[k].id \in 1..written
  BY DEF LinesOK
<1>4. written \in Nat
  BY DEF LogOK
<1> QED
  BY <1>1, <1>2, <1>3, <1>4

LEMMA SameKeepsOrder ==
    ASSUME LinesOK, InOrder, Same, written' = written
    PROVE  LinesOK' /\ InOrder'
  BY DEF LinesOK, InOrder, Same

LEMMA MovedKeepsOrder ==
    ASSUME LinesOK, InOrder, NEW w \in Index, Moved(w), written' = written
    PROVE  LinesOK' /\ InOrder'
<1>1. /\ w \in 1..Backups /\ w - 1 \in Index /\ Backups \in Nat
      /\ Lines(w)' = Lines(w - 1) /\ Lines(w - 1)' = <<>>
      /\ \A i \in Index \ {w, w - 1} : Lines(i)' = Lines(i)
  BY LogAssumption DEF Moved, Index
<1>2. \A i \in Index : (\E k : k \in DOMAIN Lines(i)') =>
        /\ i # w - 1
        /\ i = w => Lines(i)' = Lines(w - 1)
        /\ i # w => Lines(i)' = Lines(i)
  BY <1>1
<1>3. LinesOK'
  BY <1>1, <1>2 DEF LinesOK
<1>4. InOrder'
  <2> SUFFICES ASSUME NEW i \in Index, NEW j \in Index,
                      NEW k \in DOMAIN Lines(i)', NEW l \in DOMAIN Lines(j)',
                      i > j \/ (i = j /\ k < l)
               PROVE  Lines(i)'[k].id < Lines(j)'[l].id
    BY DEF InOrder
  <2> DEFINE Src(n) == IF n = w THEN w - 1 ELSE n
  <2>1. /\ Src(i) \in Index /\ Lines(i)' = Lines(Src(i))
        /\ Src(j) \in Index /\ Lines(j)' = Lines(Src(j))
        /\ i # w - 1 /\ j # w - 1
    BY <1>1, <1>2
  <2>2. Src(i) > Src(j) \/ (Src(i) = Src(j) /\ k < l)
    BY <1>1, <2>1 DEF Index
  <2> HIDE DEF Src
  <2> QED
    BY <2>1, <2>2 DEF InOrder
<1> QED
  BY <1>3, <1>4

LEMMA EmptiedKeepsOrder ==
    ASSUME LinesOK, InOrder, NEW e \in Index, Emptied(e), written' = written
    PROVE  LinesOK' /\ InOrder'
<1>1. \A i \in Index : (\E k : k \in DOMAIN Lines(i)') => i # e /\ Lines(i)' = Lines(i)
  BY DEF Emptied
<1> QED
  BY <1>1 DEF LinesOK, InOrder

\* After an append, a line is the new one or was there before.
LEMMA AppendedLines ==
    ASSUME LogOK, Appended, NEW i \in Index, NEW k \in DOMAIN Lines(i)'
    PROVE  \/ /\ k \in DOMAIN Lines(i) /\ Lines(i)'[k] = Lines(i)[k]
           \/ /\ i = 0 /\ k = Len(Lines(0)) + 1 /\ Lines(i)'[k].id = written + 1
              /\ Lines(i)'[k].size \in Sizes
<1> PICK size \in Sizes : Lines(0)' = Append(Lines(0), [id |-> written + 1, size |-> size])
  BY DEF Appended
<1>1. 0 \in Index /\ Lines(0) \in Seq(Line)
  BY LinesInSeq, LogAssumption DEF Index
<1>2. CASE i # 0
  BY <1>2 DEF Appended
<1>3. CASE i = 0
  BY <1>1, <1>3
<1> QED
  BY <1>2, <1>3

LEMMA AppendedKeepsOrder ==
    ASSUME LogOK, LinesOK, InOrder, Appended PROVE LinesOK' /\ InOrder'
<1>1. written' = written + 1 /\ written \in Nat
  BY DEF Appended, LogOK
<1>2. LinesOK'
  BY <1>1, AppendedLines DEF LinesOK
<1>3. InOrder'
  <2> SUFFICES ASSUME NEW i \in Index, NEW j \in Index,
                      NEW k \in DOMAIN Lines(i)', NEW l \in DOMAIN Lines(j)',
                      i > j \/ (i = j /\ k < l)
               PROVE  Lines(i)'[k].id < Lines(j)'[l].id
    BY DEF InOrder
  <2>1. i \in Nat /\ j \in Nat
    BY LogAssumption DEF Index
  <2>2. CASE k \in DOMAIN Lines(i) /\ Lines(i)'[k] = Lines(i)[k]
    <3>1. CASE l \in DOMAIN Lines(j) /\ Lines(j)'[l] = Lines(j)[l]
      BY <2>2, <3>1 DEF InOrder
    <3>2. CASE Lines(j)'[l].id = written + 1
      BY <1>1, <2>2, <3>2, LineIds
    <3> QED
      BY <3>1, <3>2, AppendedLines
  <2>3. CASE i = 0 /\ k = Len(Lines(0)) + 1
    <3>1. j = 0 /\ k < l
      BY <2>1, <2>3
    <3>2. 0 \in Index /\ Lines(0) \in Seq(Line)
      BY LinesInSeq, LogAssumption DEF Index
    <3>3. l \in 1..Len(Lines(0)) \/ l = Len(Lines(0)) + 1
      BY <3>1, <3>2, AppendedLines, Elements
    <3> QED
      BY <2>3, <3>1, <3>2, <3>3
  <2> QED
    BY <2>2, <2>3, AppendedLines
<1> QED
  BY <1>2, <1>3

-----------------------------------------------------------------------------
(* The steps, sorted by what they do to the files and to the history.       *)

IInv == LogOK /\ LinesOK /\ InOrder /\ DoomedOK /\ PruneErases /\ NoGaps

\* Steps of the writer that leave the lines where they are, and the pruner's
\* first look at a file.
Idle == /\ Same /\ UNCHANGED history
        /\ \/ UNCHANGED pruner
           \/ pruner # AtRest /\ pruner' # AtRest /\ pruner'.i = pruner.i

WriterMoved == UNCHANGED <<pruner, history>> /\ \E w \in Index : Moved(w)

WriterAppended == UNCHANGED <<pruner, doomed, erased, settled>> /\ Appended

PruneBegun == /\ pruner = AtRest /\ pruner' = NextBackup(0) /\ Emptied(0)
              /\ doomed' = written /\ UNCHANGED <<written, erased, settled>>

\* The pruner leaves a file behind it, empty.
PruneOnward ==
    /\ pruner # AtRest /\ UNCHANGED <<written, doomed>>
    /\ \E e \in Index : e = pruner.i /\ Emptied(e) /\ pruner' = NextBackup(e)
    /\ IF pruner' # AtRest THEN UNCHANGED <<erased, settled>>
       ELSE erased' = doomed /\ settled' = written

Restarted == /\ Same /\ pruner' = AtRest /\ UNCHANGED <<written, doomed, erased>>
             /\ settled' = IF pruner = AtRest THEN settled ELSE written

LEMMA StepEffect ==
    ASSUME LogOK, [Next]_vars
    PROVE  /\ LogOK'
           /\ \/ Idle \/ WriterMoved \/ WriterAppended \/ PruneBegun
              \/ PruneOnward \/ Restarted
<1>1. CASE WriteRaises \/ TruncateRaises
  <2>1. UNCHANGED <<file, open, writer, pruner, history>>
    BY <1>1 DEF WriteRaises, TruncateRaises
  <2> QED
    BY <2>1, SameFile DEF LogOK, WriterOK, PrunerOK, Idle, history
<1>2. ASSUME NEW size \in Sizes, write(size) PROVE LogOK' /\ Idle
  BY <1>2, writeKeepsLog DEF write, Idle
<1>3. CASE RotateExists
  BY <1>3, ExistsKeepsLog DEF RotateExists, Idle
<1>4. CASE RotateReplace
  BY <1>4, ReplaceKeepsLog DEF RotateReplace, WriterMoved
<1>5. CASE RotateRaises
  BY <1>5, RaisesKeepsLog DEF RotateRaises, Idle
<1>6. CASE RotateReopen
  BY <1>6, ReopenKeepsLog DEF RotateReopen, Idle
<1>7. CASE WriteLine
  BY <1>7, LineKeepsLog DEF WriteLine, WriterAppended
<1>8. CASE close
  BY <1>8, closeKeepsLog DEF close, Idle
<1>9. CASE truncate
  BY <1>9, truncateKeepsLog DEF truncate, PruneBegun
<1>10. CASE PruneExists
  <2>1. pruner # AtRest
    BY <1>10 DEF PruneExists, AtRest
  <2>2. CASE file[pruner.i] # Absent
    <3>1. pruner' = [at |-> "unlink", i |-> pruner.i] /\ UNCHANGED history
      BY <1>10, <2>1, <2>2, PrunerMoves DEF PruneExists
    <3> QED
      BY <1>10, <2>1, <3>1, PruneExistsKeepsLog DEF Idle, AtRest
  <2>3. CASE file[pruner.i] = Absent
    <3> PICK e \in Index : e = pruner.i
      BY <2>1, PrunerMoves
    <3>1. Onward(e)
      BY <1>10, <2>3 DEF PruneExists
    <3>2. LogOK' /\ Same
      BY <1>10, PruneExistsKeepsLog
    <3>3. Lines(e) = <<>>
      BY <2>3 DEF Lines, Existing
    <3>4. Emptied(e)
      BY <3>2, <3>3 DEF Same, Emptied
    <3> QED
      BY <2>1, <3>1, <3>2, <3>4 DEF Onward, PruneOnward
  <2> QED
    BY <2>2, <2>3
<1>11. CASE PruneUnlink
  <2>1. pruner # AtRest
    BY <1>11 DEF PruneUnlink, AtRest
  <2>2. LogOK' /\ \E e \in Index : e = pruner.i /\ Emptied(e)
    BY <1>11, PruneUnlinkKeepsLog
  <2> PICK e \in Index : e = pruner.i /\ Emptied(e)
    BY <2>2
  <2>3. Onward(e)
    BY <1>11 DEF PruneUnlink
  <2> QED
    BY <2>1, <2>2, <2>3 DEF Onward, PruneOnward
<1>12. CASE Restart
  BY <1>12, RestartKeepsLog DEF Restart, Restarted
<1>13. CASE UNCHANGED vars
  BY <1>13, SameFile DEF vars, LogOK, WriterOK, PrunerOK, Idle, history
<1> QED
  BY <1>1, <1>2, <1>3, <1>4, <1>5, <1>6, <1>7, <1>8, <1>9, <1>10, <1>11, <1>12, <1>13
  DEF Next, EventLoop, HubThread

-----------------------------------------------------------------------------
LEMMA StepOrder == ASSUME IInv, [Next]_vars PROVE LinesOK' /\ InOrder'
<1> USE DEF IInv
<1>1. CASE Idle \/ Restarted
  BY <1>1, SameKeepsOrder DEF Idle, Restarted, history
<1>2. CASE WriterMoved
  BY <1>2, MovedKeepsOrder DEF WriterMoved, history
<1>3. CASE WriterAppended
  BY <1>3, AppendedKeepsOrder DEF WriterAppended
<1>4. CASE PruneBegun
  <2>1. 0 \in Index
    BY LogAssumption DEF Index
  <2> QED
    BY <1>4, <2>1, EmptiedKeepsOrder DEF PruneBegun
<1>5. CASE PruneOnward
  BY <1>5, EmptiedKeepsOrder DEF PruneOnward
<1> QED
  BY <1>1, <1>2, <1>3, <1>4, <1>5, StepEffect

\* The lines a prune must remove stay ahead of it, and at its end there are
\* none.
LEMMA StepErases == ASSUME IInv, [Next]_vars PROVE DoomedOK' /\ PruneErases'
<1> SUFFICES ASSUME NEW i \in Index, NEW k \in DOMAIN Lines(i)'
             PROVE  /\ Lines(i)'[k].id > erased'
                    /\ pruner' # AtRest /\ Lines(i)'[k].id <= doomed' => pruner'.i <= i
  BY DEF DoomedOK, PruneErases
<1>0. /\ Backups \in Nat /\ i \in 0..Backups /\ 0 \in Index
      /\ {written, doomed, erased, settled} \subseteq Nat
      /\ erased <= doomed /\ doomed <= written
  BY LogAssumption DEF Index, IInv, LogOK
<1>1. CASE Idle \/ Restarted
  <2>1. k \in DOMAIN Lines(i) /\ Lines(i)' = Lines(i)
    BY <1>1 DEF Idle, Restarted, Same
  <2> QED
    BY <1>1, <2>1 DEF Idle, Restarted, IInv, DoomedOK, PruneErases, history
<1>2. CASE WriterMoved
  <2> PICK w \in Index : Moved(w)
    BY <1>2 DEF WriterMoved
  <2>1. \/ i = w /\ w - 1 \in Index /\ Lines(i)' = Lines(w - 1)
        \/ Lines(i)' = Lines(i)
    BY <1>0 DEF Moved, Index
  <2> PICK j \in Index : j <= i /\ Lines(i)' = Lines(j)
    BY <1>0, <2>1 DEF Index
  <2>2. k \in DOMAIN Lines(j) /\ j \in Nat
    BY <1>0 DEF Index
  <2>3. UNCHANGED <<pruner, doomed, erased>>
    BY <1>2 DEF WriterMoved, history
  <2>4. Lines(j)[k].id > erased
    BY <2>2 DEF IInv, PruneErases
  <2>5. pruner # AtRest /\ Lines(j)[k].id <= doomed => pruner.i <= j /\ pruner.i \in Nat
    BY <2>2, PrunerMoves, <1>0 DEF IInv, DoomedOK, Index
  <2> QED
    BY <1>0, <2>2, <2>3, <2>4, <2>5
<1>3. CASE WriterAppended
  <2>1. UNCHANGED <<pruner, doomed, erased>>
    BY <1>3 DEF WriterAppended
  <2>2. CASE k \in DOMAIN Lines(i) /\ Lines(i)'[k] = Lines(i)[k]
    BY <2>1, <2>2 DEF IInv, DoomedOK, PruneErases
  <2>3. CASE Lines(i)'[k].id = written + 1
    BY <1>0, <2>1, <2>3
  <2> QED
    BY <1>3, <2>2, <2>3, AppendedLines DEF WriterAppended, IInv
<1>4. CASE PruneBegun
  <2>1. i # 0 /\ Lines(i)' = Lines(i) /\ k \in DOMAIN Lines(i) /\ erased' = erased
    BY <1>0, <1>4 DEF PruneBegun, Emptied
  <2>2. pruner' # AtRest => pruner'.i = 1
    <3>1. 0 \in 0..Backups
      BY <1>0
    <3> QED
      BY <1>0, <1>4, <3>1, Next1 DEF PruneBegun
  <2> QED
    BY <1>0, <2>1, <2>2 DEF IInv, PruneErases
<1>5. CASE PruneOnward
  <2> PICK e \in Index : e = pruner.i /\ Emptied(e) /\ pruner' = NextBackup(e)
    BY <1>5 DEF PruneOnward
  <2>1. i # e /\ Lines(i)' = Lines(i) /\ k \in DOMAIN Lines(i) /\ doomed' = doomed
    BY <1>5 DEF Emptied, PruneOnward
  <2>2. e \in 0..Backups /\ pruner # AtRest
    BY <1>5 DEF Index, PruneOnward
  <2>3. Lines(i)[k].id > erased /\ Lines(i)[k].id \in Nat
    BY <2>1, LineIds DEF IInv, PruneErases
  <2>4. Lines(i)[k].id <= doomed => e < i
    BY <1>0, <2>1, <2>2 DEF IInv, DoomedOK
  <2>5. CASE e < Backups
    <3>1. pruner' = [at |-> "exists", i |-> e + 1] /\ pruner' # AtRest
      BY <2>2, <2>5, Next1
    <3>2. erased' = erased
      BY <1>5, <3>1 DEF PruneOnward
    <3> QED
      BY <1>0, <2>1, <2>2, <2>3, <2>4, <3>1, <3>2
  <2>6. CASE e = Backups
    <3>1. pruner' = AtRest
      BY <2>2, <2>6, Next1
    <3>2. erased' = doomed
      BY <1>5, <3>1 DEF PruneOnward
    <3> QED
      BY <1>0, <2>1, <2>3, <2>4, <2>6, <3>1, <3>2
  <2> QED
    BY <1>0, <2>2, <2>5, <2>6
<1> QED
  BY <1>1, <1>2, <1>3, <1>4, <1>5, StepEffect DEF IInv

\* A line of the window has all later ones beside it.
LEMMA StepGaps == ASSUME IInv, [Next]_vars PROVE NoGaps'
<1> USE DEF IInv
<1> SUFFICES ASSUME pruner' = AtRest,
                    NEW i \in Index, NEW k \in DOMAIN Lines(i)',
                    Lines(i)'[k].id > settled',
                    NEW m \in Lines(i)'[k].id..written'
             PROVE  \E j \in Index : \E l \in DOMAIN Lines(j)' : Lines(j)'[l].id = m
  BY DEF NoGaps
<1>0. /\ Backups \in Nat /\ i \in 0..Backups /\ 0 \in Index
      /\ {written, doomed, erased, settled} \subseteq Nat /\ settled <= written
  BY LogAssumption DEF Index, LogOK
\* What NoGaps says of a line that was there before the step.
<1>1. ASSUME pruner = AtRest, NEW a \in Index, NEW b \in DOMAIN Lines(a),
             Lines(a)[b].id > settled, m \in Lines(a)[b].id..written
      PROVE  \E j \in Index : \E l \in DOMAIN Lines(j) : Lines(j)[l].id = m
  BY <1>1 DEF NoGaps
<1>2. CASE Idle \/ (Restarted /\ pruner = AtRest)
  <2>1. pruner = AtRest /\ UNCHANGED <<written, settled>> /\ Same
    BY <1>2 DEF Idle, Restarted, history
  <2>2. Lines(i)' = Lines(i)
    BY <2>1 DEF Same
  <2>3. \E j \in Index : \E l \in DOMAIN Lines(j) : Lines(j)[l].id = m
    BY <1>1, <2>1, <2>2
  <2> QED
    BY <2>1, <2>3 DEF Same
<1>3. CASE Restarted /\ pruner # AtRest
  <2>1. settled' = written /\ Lines(i)' = Lines(i)
    BY <1>3 DEF Restarted, Same
  <2> QED
    BY <1>0, <2>1, LineIds
<1>4. CASE WriterMoved
  <2>1. pruner = AtRest /\ UNCHANGED <<written, settled>>
    BY <1>4 DEF WriterMoved, history
  <2> PICK w \in Index : Moved(w)
    BY <1>4 DEF WriterMoved
  <2>2. /\ w \in 1..Backups /\ w - 1 \in Index
        /\ Lines(w)' = Lines(w - 1) /\ Lines(w - 1)' = <<>>
        /\ w < Backups => Lines(w) = <<>>
        /\ \A n \in Index \ {w, w - 1} : Lines(n)' = Lines(n)
    BY <1>0 DEF Moved, Index
  \* Where the line was: never in the file that was overwritten.
  <2>3. \E n \in Index : n # w /\ Lines(i)' = Lines(n)
    <3>1. CASE i = w
      <4>1. w - 1 # w
        BY <2>2
      <4> QED
        BY <2>2, <3>1, <4>1
    <3>2. CASE i # w
      BY <2>2, <3>2
    <3> QED
      BY <3>1, <3>2
  <2> PICK a \in Index : a # w /\ Lines(i)' = Lines(a)
    BY <2>3
  <2>4. k \in DOMAIN Lines(a) /\ Lines(i)'[k] = Lines(a)[k]
    OBVIOUS
  <2>5. \E j \in Index : \E l \in DOMAIN Lines(j) : Lines(j)[l].id = m
    BY <1>1, <2>1, <2>4
  <2> PICK j \in Index : \E l \in DOMAIN Lines(j) : Lines(j)[l].id = m
    BY <2>5
  <2> PICK l \in DOMAIN Lines(j) : Lines(j)[l].id = m
    OBVIOUS
  \* The lines of the overwritten file are older than any that stays.
  <2>6. j # w
    <3> SUFFICES ASSUME j = w PROVE FALSE
      OBVIOUS
    <3>1. w = Backups /\ w > a
      BY <1>0, <2>2 DEF Index
    <3>2. Lines(w)[l].id < Lines(a)[k].id
      BY <2>4, <3>1 DEF InOrder
    <3>3. Lines(a)[k].id \in Nat /\ m >= Lines(a)[k].id
      BY <1>0, <2>4, LineIds
    <3>4. Lines(w)[l].id = m
      OBVIOUS
    <3> QED
      BY <1>0, <3>2, <3>3, <3>4
  <2>7. CASE j = w - 1
    BY <2>2, <2>7
  <2>8. CASE j # w - 1
    BY <2>2, <2>6, <2>8
  <2> QED
    BY <2>7, <2>8
<1>5. CASE WriterAppended
  <2>1. pruner = AtRest /\ settled' = settled /\ written' = written + 1
    BY <1>5 DEF WriterAppended, Appended
  <2>2. PICK size \in Sizes :
           Lines(0)' = Append(Lines(0), [id |-> written + 1, size |-> size])
    BY <1>5 DEF WriterAppended, Appended
  <2>3. Lines(0) \in Seq(Line)
    BY <1>0, LinesInSeq
  \* The lines there were are there still.
  <2>4. ASSUME NEW j \in Index, NEW l \in DOMAIN Lines(j)
        PROVE  l \in DOMAIN Lines(j)' /\ Lines(j)'[l] = Lines(j)[l]
    <3>1. CASE j = 0
      BY <2>2, <2>3, <3>1
    <3>2. CASE j # 0
      BY <1>5, <3>2 DEF WriterAppended, Appended
    <3> QED
      BY <3>1, <3>2
  <2>5. CASE m = written + 1
    <3>1. Len(Lines(0)) + 1 \in DOMAIN Lines(0)' /\ Lines(0)'[Len(Lines(0)) + 1].id = m
      BY <2>2, <2>3, <2>5
    <3> QED
      BY <1>0, <3>1
  <2>6. CASE m # written + 1
    <3>1. \/ k \in DOMAIN Lines(i) /\ Lines(i)'[k] = Lines(i)[k]
          \/ Lines(i)'[k].id = written + 1
      BY <1>5, AppendedLines DEF WriterAppended
    <3>2. k \in DOMAIN Lines(i) /\ Lines(i)'[k] = Lines(i)[k]
      BY <1>0, <2>1, <2>6, <3>1
    <3>3. Lines(i)[k].id \in Nat
      BY <3>2, LineIds
    <3>4. m \in Lines(i)[k].id..written
      BY <1>0, <2>1, <2>6, <3>2, <3>3
    <3>5. \E j \in Index : \E l \in DOMAIN Lines(j) : Lines(j)[l].id = m
      BY <1>1, <2>1, <3>2, <3>4
    <3> QED
      BY <2>4, <3>5
  <2> QED
    BY <2>5, <2>6
<1>6. CASE PruneBegun
  <2>1. Backups = 0
    <3>1. 0 \in 0..Backups
      BY <1>0
    <3> QED
      BY <1>0, <1>6, <3>1, Next1 DEF PruneBegun
  <2>2. Lines(i)' = <<>>
    BY <1>0, <1>6, <2>1 DEF PruneBegun, Emptied
  <2> QED
    BY <2>2
<1>7. CASE PruneOnward
  <2> PICK e \in Index : Emptied(e)
    BY <1>7 DEF PruneOnward
  <2>1. settled' = written
    BY <1>7 DEF PruneOnward
  <2>2. k \in DOMAIN Lines(i) /\ Lines(i)' = Lines(i)
    BY DEF Emptied
  <2> QED
    BY <1>0, <2>1, <2>2, LineIds
<1> QED
  BY <1>2, <1>3, <1>4, <1>5, <1>6, <1>7, StepEffect

-----------------------------------------------------------------------------
\* The invariant of the log: LogOK is what a half-done rotation looks like,
\* DoomedOK where a half-done prune stands.
THEOREM Inductive == Spec => []IInv
<1>1. Init => IInv
  BY InitLogOK DEF IInv
<1>2. IInv /\ [Next]_vars => IInv'
  <2> SUFFICES ASSUME IInv, [Next]_vars PROVE IInv'
    OBVIOUS
  <2>1. LogOK'
    BY StepEffect DEF IInv
  <2> QED
    BY <2>1, StepOrder, StepErases, StepGaps DEF IInv
<1> QED
  BY <1>1, <1>2, PTL DEF Spec

\* The variables keep their types, and a log that does not exist is one being
\* rotated: halfway between the move and the reopening of the file.
THEOREM LogTypeCorrect == Spec => []LogTypeOK
<1>1. IInv => LogTypeOK
  <2> SUFFICES ASSUME IInv PROVE LogTypeOK
    OBVIOUS
  <2>1. ASSUME NEW i \in Index, file[i] # Absent, NEW k \in DOMAIN file[i]
        PROVE  file[i][k].id \in 1..written /\ file[i][k].size \in Sizes
    BY <2>1 DEF IInv, LinesOK, Lines, Existing
  <2>2. writer # AtRest => writer.i \in Index
    BY WriterMoves DEF IInv
  <2>3. pruner # AtRest => pruner.i \in 1..Backups
    BY PrunerMoves DEF IInv
  <2> QED
    BY <2>1, <2>2, <2>3 DEF LogTypeOK, IInv, LogOK
<1> QED
  BY <1>1, Inductive, PTL

\* Read from the oldest backup to the log, the lines are in the order they
\* were written, each once, in the middle of a rotation or a prune as well,
\* and after a crash there.
THEOREM InOrderHolds == Spec => []InOrder
<1>1. IInv => InOrder
  BY DEF IInv
<1> QED
  BY <1>1, Inductive, PTL

\* Rotation gives up the oldest lines first: since the last prune, no line
\* is missing between one that is kept and the last one written.
THEOREM NoGapsHolds == Spec => []NoGaps
<1>1. IInv => NoGaps
  BY DEF IInv
<1> QED
  BY <1>1, Inductive, PTL

\* A prune that ran to its end left no line of before its beginning, for all
\* that rotations moved the files underneath it.
THEOREM PruneErasesHolds == Spec => []PruneErases
<1>1. IInv => PruneErases
  BY DEF IInv
<1> QED
  BY <1>1, Inductive, PTL

-----------------------------------------------------------------------------
(* The size of a file.                                                      *)

LEMMA Least ==
    ASSUME NEW S \in SUBSET Nat, S # {} PROVE \E x \in S : \A y \in S : x <= y
\* The intervals from 0 to them have a least one.
<1> DEFINE T == {0..n : n \in S}
<1>1. T \subseteq FiniteSubsetsOf(Nat) /\ T # {}
  <2>1. ASSUME NEW n \in S PROVE (0..n) \in FiniteSubsetsOf(Nat)
    BY FS_Interval DEF FiniteSubsetsOf
  <2> QED
    BY <2>1
<1>2. \E m \in T : \A t \in T : ~ (<<t, m>> \in StrictSubsetOrdering(Nat))
  BY <1>1, WFMin, FS_StrictSubsetOrderingWellFounded
<1> PICK x \in S : \A y \in S : ~ (<<0..y, 0..x>> \in StrictSubsetOrdering(Nat))
  BY <1>2
<1>3. ASSUME NEW y \in S PROVE x <= y
  <2> SUFFICES ASSUME y < x PROVE FALSE
    OBVIOUS
  <2>1. (0..y) \subseteq 0..x /\ x \in 0..x /\ x \notin 0..y
    OBVIOUS
  <2>2. (0..y) \in SUBSET Nat /\ (0..x) \in SUBSET Nat /\ (0..y) # 0..x
    BY <2>1
  <2> QED
    BY <2>1, <2>2 DEF StrictSubsetOrdering
<1> QED
  BY <1>3

\* g[k] is the size of the first k lines.
Sums(lines, n, g) ==
    /\ g \in [0..n -> Nat] /\ g[0] = 0
    /\ \A k \in 1..n : g[k] = g[k - 1] + lines[k].size

LEMMA SumsExist ==
    ASSUME NEW lines \in Seq(Line) PROVE \E g : Sums(lines, Len(lines), g)
<1> DEFINE bad == {n \in Nat : n <= Len(lines) /\ ~ \E g : Sums(lines, n, g)}
<1>0. Len(lines) \in Nat
  OBVIOUS
<1> SUFFICES ASSUME bad # {} PROVE FALSE
  BY <1>0
<1>1. PICK n \in bad : \A k \in bad : n <= k
  BY Least
<1>2. n # 0
  <2> DEFINE g == [k \in 0..0 |-> 0]
  <2>1. Sums(lines, 0, g)
    BY DEF Sums
  <2> QED
    BY <1>1, <2>1
<1>3. n - 1 \in Nat /\ n - 1 \notin bad /\ n \in 1..Len(lines)
  BY <1>0, <1>1, <1>2
<1>4. PICK g : Sums(lines, n - 1, g)
  BY <1>0, <1>3
<1>5. lines[n].size \in Nat
  <2>1. n \in DOMAIN lines
    BY <1>3
  <2>2. lines[n] \in Line
    BY <2>1, Elements
  <2> QED
    BY <2>2 DEF Line
<1> DEFINE h == [k \in 0..n |-> IF k = n THEN g[n - 1] + lines[n].size ELSE g[k]]
<1>6. h \in [0..n -> Nat] /\ h[0] = 0
  BY <1>2, <1>3, <1>4, <1>5 DEF Sums
<1>7. ASSUME NEW k \in 1..n PROVE h[k] = h[k - 1] + lines[k].size
  <2>1. k - 1 \in 0..n /\ k \in 0..n /\ k - 1 # n /\ h[k - 1] = g[k - 1]
    BY <1>3
  <2>2. CASE k = n
    BY <2>1, <2>2
  <2>3. CASE k # n
    <3>1. k \in 1..(n - 1) /\ h[k] = g[k]
      BY <1>3, <2>1, <2>3
    <3> QED
      BY <1>4, <2>1, <3>1 DEF Sums
  <2> QED
    BY <2>2, <2>3
<1> QED
  BY <1>1, <1>6, <1>7 DEF Sums

LEMMA SumsAgree ==
    ASSUME NEW s, NEW t, NEW n \in Nat, NEW m \in Nat, n <= m, \A k \in 1..n : s[k] = t[k],
           NEW g, NEW h, Sums(s, n, g), Sums(t, m, h)
    PROVE  g[n] = h[n]
<1> DEFINE bad == {k \in Nat : k <= n /\ g[k] # h[k]}
<1> SUFFICES ASSUME bad # {} PROVE FALSE
  OBVIOUS
<1>1. PICK k \in bad : \A j \in bad : k <= j
  BY Least
<1>2. k # 0
  BY <1>1 DEF Sums
<1>3. k - 1 \in Nat /\ k - 1 \notin bad /\ k \in 1..n /\ k \in 1..m
  BY <1>1, <1>2
<1>4. g[k] = g[k - 1] + s[k].size /\ h[k] = h[k - 1] + t[k].size
  BY <1>3 DEF Sums
<1>5. g[k - 1] = h[k - 1] /\ s[k] = t[k]
  BY <1>3
<1>6. g[k] # h[k]
  BY <1>1
<1> QED
  BY <1>4, <1>5, <1>6

LEMMA SizeIs ==
    ASSUME NEW lines \in Seq(Line), NEW g, Sums(lines, Len(lines), g)
    PROVE  Size(lines) = g[Len(lines)] /\ Size(lines) \in Nat
<1> DEFINE n == Len(lines)
<1>1. n \in Nat
  OBVIOUS
<1> DEFINE upto[k \in 0..Len(lines)] == IF k = 0 THEN 0 ELSE upto[k - 1] + lines[k].size
<1>2. Size(lines) = upto[n]
  BY DEF Size
<1>3. g = [k \in 0..n |-> IF k = 0 THEN 0 ELSE g[k - 1] + lines[k].size]
  <2>1. \A k \in 0..n : g[k] = IF k = 0 THEN 0 ELSE g[k - 1] + lines[k].size
    BY <1>1 DEF Sums
  <2>2. g = [k \in 0..n |-> g[k]]
    BY DEF Sums
  <2> QED
    BY <2>1, <2>2
<1>4. upto = [k \in 0..n |-> IF k = 0 THEN 0 ELSE upto[k - 1] + lines[k].size]
  BY <1>3, Zenon
<1> HIDE DEF upto
<1>5. ASSUME NEW k \in 0..n PROVE upto[k] = g[k]
  <2> DEFINE bad == {j \in Nat : j <= n /\ upto[j] # g[j]}
  <2> SUFFICES ASSUME bad # {} PROVE FALSE
    BY <1>1
  <2>1. PICK j \in bad : \A i \in bad : j <= i
    BY Least
  <2>2. j # 0
    BY <1>1, <1>4, <2>1 DEF Sums
  <2>3. j - 1 \in Nat /\ j - 1 \notin bad /\ j \in 1..n /\ j \in 0..n
    BY <1>1, <2>1, <2>2
  <2>4. upto[j] = upto[j - 1] + lines[j].size
    BY <1>4, <2>2, <2>3
  <2> QED
    BY <2>1, <2>3, <2>4, <1>1 DEF Sums
<1> QED
  BY <1>1, <1>2, <1>5 DEF Sums

LEMMA SizeOfNone == Size(<<>>) = 0
<1>1. <<>> \in Seq(Line) /\ Len(<<>>) = 0
  OBVIOUS
<1>2. PICK g : Sums(<<>>, 0, g)
  BY <1>1, SumsExist
<1> QED
  BY <1>1, <1>2, SizeIs DEF Sums

LEMMA SizeOfMore ==
    ASSUME NEW lines \in Seq(Line), NEW more \in Seq(Line), NEW n \in Nat, NEW m \in Nat,
           Len(lines) = n, m = n + 1, Len(more) = m, \A k \in 1..n : lines[k] = more[k]
    PROVE  Size(more) = Size(lines) + more[m].size
<1>1. PICK g : Sums(lines, n, g)
  BY SumsExist
<1>2. PICK h : Sums(more, m, h)
  BY SumsExist
<1>3. n <= m
  OBVIOUS
<1>4. g[n] = h[n]
  BY ONLY n \in Nat, m \in Nat, <1>1, <1>2, <1>3, \A k \in 1..n : lines[k] = more[k], SumsAgree
<1>5. h[m] = h[n] + more[m].size
  <2>1. m \in 1..m /\ m - 1 = n
    OBVIOUS
  <2> QED
    BY <1>2, <2>1 DEF Sums
<1>6. Size(more) = h[m] /\ Size(lines) = g[n]
  BY <1>1, <1>2, SizeIs
<1> QED
  BY <1>4, <1>5, <1>6

LEMMA SizeOfAppend ==
    ASSUME NEW lines \in Seq(Line), NEW line \in Line
    PROVE  Size(Append(lines, line)) = Size(lines) + line.size
<1> DEFINE more == Append(lines, line)
<1>1. /\ more \in Seq(Line) /\ Len(more) = Len(lines) + 1 /\ more[Len(lines) + 1] = line
      /\ \A k \in 1..Len(lines) : lines[k] = more[k]
  OBVIOUS
<1> HIDE DEF more
<1>2. Size(more) = Size(lines) + more[Len(lines) + 1].size
  BY <1>1, SizeOfMore
<1> QED
  BY <1>1, <1>2 DEF more

-----------------------------------------------------------------------------
(* No file outgrows the limit.                                              *)

Fits(lines) == MaxBytes # 0 => Size(lines) <= MaxBytes \/ Len(lines) = 1

\* A line is appended where there is room for it; a log that has been rotated
\* is empty.
BoundedOK ==
    /\ \A i \in Index : Fits(Lines(i))
    /\ writer # AtRest => CASE writer.at = "append" ->
                                 \/ MaxBytes # 0 => Size(Lines(0)) + writer.size <= MaxBytes
                                 \/ Lines(0) = <<>>
                            [] writer.at = "reopen" -> Lines(0) = <<>>
                            [] OTHER -> TRUE

LEMMA EmptyFits == Fits(<<>>)
  BY SizeOfNone, LogAssumption DEF Fits

\* Steps that add no line.
LEMMA NoLineFits ==
    ASSUME BoundedOK, \A i \in Index : Lines(i)' = <<>> \/ \E j \in Index : Lines(i)' = Lines(j)
    PROVE  \A i \in Index : Fits(Lines(i)')
  BY EmptyFits DEF BoundedOK

\* A step on which the writer is in no place where that matters, or stays there.
LEMMA QuietFits ==
    ASSUME BoundedOK, \A i \in Index : Fits(Lines(i)'),
           \/ writer' = AtRest
           \/ writer'.at \notin {"append", "reopen"}
           \/ writer' = writer /\ Lines(0)' = Lines(0)
    PROVE  BoundedOK'
<1>1. (\A i \in Index : Fits(Lines(i)))'
  BY DEF Fits
<1>2. CASE writer' = AtRest
  BY <1>1, <1>2 DEF BoundedOK
<1>3. CASE writer'.at \notin {"append", "reopen"}
  BY <1>1, <1>3 DEF BoundedOK
<1>4. CASE writer' = writer /\ Lines(0)' = Lines(0)
  <2>1. CASE writer = AtRest
    BY <1>1, <1>4, <2>1 DEF BoundedOK
  <2>2. CASE writer # AtRest
    BY <1>1, <1>4, <2>2 DEF BoundedOK
  <2> QED
    BY <2>1, <2>2
<1> QED
  BY <1>2, <1>3, <1>4

LEMMA NextBoundedOK ==
    ASSUME Backups # 0, LogOK, BoundedOK, [Next]_vars PROVE BoundedOK'
<1>1. 0 \in Index /\ \A i \in Index : Lines(i) \in Seq(Line)
  BY LogAssumption, LinesInSeq DEF Index
<1>2. ASSUME Same, UNCHANGED writer \/ writer' = AtRest PROVE BoundedOK'
  <2>1. \A i \in Index : Fits(Lines(i)')
    BY <1>2, NoLineFits DEF Same
  <2> QED
    BY <1>1, <1>2, <2>1, QuietFits DEF Same
<1>3. ASSUME NEW size \in Sizes, write(size) PROVE BoundedOK'
  <2>1. /\ UNCHANGED file /\ writer = AtRest /\ Same
        /\ \/ writer' = [at |-> "exists", i |-> Backups, size |-> size]
           \/ /\ MaxBytes # 0 => ~(Size(file[0]) + size > MaxBytes)
              /\ writer' = [at |-> "append", i |-> 0, size |-> size]
    BY <1>3, SameFile DEF write, Locked
  <2>2. file[0] = Lines(0)
    BY <2>1 DEF LogOK, Lines, Existing
  <2>3. \A i \in Index : Fits(Lines(i)')
    BY <2>1, NoLineFits DEF Same
  <2>4. CASE writer' = [at |-> "exists", i |-> Backups, size |-> size]
    BY <2>3, <2>4, QuietFits
  <2>5. CASE /\ MaxBytes # 0 => ~(Size(file[0]) + size > MaxBytes)
             /\ writer' = [at |-> "append", i |-> 0, size |-> size]
    <3>1. Size(Lines(0)) \in Nat /\ size \in Nat /\ MaxBytes \in Nat
      BY <1>1, SumsExist, SizeIs, LogAssumption
    <3>2. Lines(0)' = Lines(0)
      BY <1>1, <2>1 DEF Same
    <3>3. (MaxBytes # 0 => Size(Lines(0)) + writer.size <= MaxBytes)'
      BY <2>2, <2>5, <3>1, <3>2
    <3>4. (\A i \in Index : Fits(Lines(i)))'
      BY <2>3 DEF Fits
    <3>5. writer'.at = "append"
      BY <2>5
    <3> QED
      BY <3>3, <3>4, <3>5 DEF BoundedOK
  <2> QED
    BY <2>1, <2>4, <2>5
<1>4. CASE RotateExists
  <2>1. /\ Same /\ writer # AtRest /\ writer.at = "exists" /\ UNCHANGED file
        /\ writer = [at |-> writer.at, i |-> writer.i, size |-> writer.size]
        /\ writer.i < Backups => file[writer.i] = Absent
        /\ writer.i \in Index
    <3>1. writer # AtRest /\ writer.at = "exists" /\ UNCHANGED file
      BY <1>4 DEF RotateExists, AtRest
    <3>2. Same
      BY <1>4, ExistsKeepsLog
    <3> QED
      BY <3>1, <3>2, WriterMoves
  <2>2. \A i \in Index : Fits(Lines(i)')
    BY <2>1, NoLineFits DEF Same
  <2>3. CASE writer.i = 0
    <3>1. writer' = [at |-> "reopen", i |-> 0, size |-> writer.size]
      BY <1>4, <2>1, <2>3 DEF RotateExists
    <3>2. Lines(0) = <<>> /\ Lines(0)' = <<>>
      BY <1>1, <2>1, <2>3, LogAssumption DEF Lines, Existing, Same
    <3>3. (\A i \in Index : Fits(Lines(i)))'
      BY <2>2 DEF Fits
    <3>4. (Lines(0) = <<>>)' /\ (writer.at = "reopen")'
      BY <3>1, <3>2
    <3> QED
      BY <3>3, <3>4 DEF BoundedOK
  <2>4. CASE writer.i # 0
    <3>1. writer'.at \in {"replace", "exists"}
      BY <1>4, <2>1, <2>4 DEF RotateExists
    <3> QED
      BY <2>2, <3>1, QuietFits
  <2> QED
    BY <2>3, <2>4
<1>5. CASE RotateReplace
  <2>1. LogOK' /\ \E w \in Index : Moved(w)
    BY <1>5, ReplaceKeepsLog
  <2>2. \A i \in Index : Lines(i)' = <<>> \/ \E j \in Index : Lines(i)' = Lines(j)
    <3> PICK w \in Index : Moved(w)
      BY <2>1
    <3>1. w - 1 \in Index
      BY LogAssumption DEF Moved, Index
    <3> QED
      BY <3>1 DEF Moved
  <2>3. writer # AtRest
    BY <1>5 DEF RotateReplace, AtRest
  <2>4. writer'.at = "exists"
    BY <1>5, <2>3, WriterMoves DEF RotateReplace
  <2> QED
    BY <2>2, <2>4, NoLineFits, QuietFits
<1>6. CASE RotateReopen
  <2>1. Same /\ writer # AtRest /\ writer.at = "reopen"
    BY <1>6, ReopenKeepsLog DEF RotateReopen, AtRest
  <2>2. Lines(0) = <<>>
    BY <2>1 DEF BoundedOK
  <2>3. (Lines(0) = <<>>)' /\ (writer.at = "append")'
    BY <1>1, <1>6, <2>1, <2>2, WriterMoves DEF Same, RotateReopen
  <2>4. (\A i \in Index : Fits(Lines(i)))'
    BY <2>1, NoLineFits DEF Same, Fits
  <2> QED
    BY <2>3, <2>4 DEF BoundedOK
<1>7. CASE WriteLine
  <2> DEFINE line == [id |-> written + 1, size |-> writer.size]
  <2>1. /\ writer # AtRest /\ writer.at = "append" /\ writer' = AtRest
        /\ file' = [file EXCEPT ![0] = Append(@, line)]
    BY <1>7 DEF WriteLine, AtRest
  <2>2. writer.size \in Nat /\ written \in Nat /\ open = TRUE
    BY <2>1, WriterMoves, LogAssumption DEF LogOK
  <2>3. file[0] = Lines(0) /\ file[0] # Absent
    BY <2>1, <2>2 DEF LogOK, Lines, Existing
  <2>4. LogOK' /\ Appended
    BY <1>7, LineKeepsLog
  <2>5. \A i \in Index \ {0} : Fits(Lines(i)')
    BY <2>4 DEF Appended, BoundedOK
  <2>6. Lines(0)' = Append(Lines(0), line)
    <3>1. file'[0] = Append(file[0], line)
      BY <1>1, <2>1 DEF LogOK
    <3>2. file'[0] # Absent
      BY <2>1, <2>2, <2>4 DEF LogOK, WriterOK
    <3> HIDE DEF line
    <3> QED
      BY <2>3, <3>1, <3>2 DEF Lines, Existing
  <2>7. Fits(Append(Lines(0), line))
    <3>1. line \in Line /\ line.size = writer.size
      BY <2>2 DEF Line
    <3> HIDE DEF line
    <3>2. Size(Append(Lines(0), line)) = Size(Lines(0)) + writer.size
      BY <1>1, <3>1, SizeOfAppend
    <3>3. CASE MaxBytes # 0 => Size(Lines(0)) + writer.size <= MaxBytes
      BY <3>2, <3>3 DEF Fits
    <3>4. CASE Lines(0) = <<>>
      BY <3>1, <3>4 DEF Fits
    <3> QED
      BY <2>1, <3>3, <3>4 DEF BoundedOK
  <2>8. \A i \in Index : Fits(Lines(i)')
    BY <2>5, <2>6, <2>7
  <2> QED
    BY <2>1, <2>8, QuietFits
<1>8. CASE WriteRaises \/ TruncateRaises \/ RotateRaises \/ close \/ Restart
  <2>1. UNCHANGED writer \/ writer' = AtRest
    BY <1>8 DEF WriteRaises, TruncateRaises, RotateRaises, close, Restart
  <2>2. Same
    BY <1>8, SameFile, RestartKeepsLog
       DEF WriteRaises, TruncateRaises, RotateRaises, close
  <2> QED
    BY <1>2, <2>1, <2>2
<1>9. CASE truncate
  <2>1. Emptied(0) /\ writer = AtRest /\ writer' = AtRest
    BY <1>9, truncateKeepsLog DEF truncate, Locked
  <2> QED
    BY <2>1, NoLineFits, QuietFits DEF Emptied
<1>10. CASE PruneExists
  BY <1>2, <1>10, PruneExistsKeepsLog DEF PruneExists, Onward
<1>11. CASE PruneUnlink
  <2>1. pruner # AtRest /\ UNCHANGED writer
    BY <1>11 DEF PruneUnlink, AtRest, Onward
  <2>2. PICK e \in Index : e = pruner.i /\ Emptied(e)
    BY <1>11, PruneUnlinkKeepsLog
  <2>3. Lines(0)' = Lines(0)
    BY <1>1, <2>1, <2>2, PrunerMoves DEF Emptied
  <2>4. \A i \in Index : Fits(Lines(i)')
    BY <2>2, NoLineFits DEF Emptied
  <2> QED
    BY <2>1, <2>3, <2>4, QuietFits
<1>12. CASE UNCHANGED vars
  BY <1>2, <1>12, SameFile DEF vars
<1> QED
  BY <1>3, <1>4, <1>5, <1>6, <1>7, <1>8, <1>9, <1>10, <1>11, <1>12
  DEF Next, EventLoop, HubThread

\* "So the local forensic capture stays bounded" (jsonl.py 13), for any number
\* of backups but none: the code moves the log away only to a backup, so
\* without one max_bytes would bound nothing.
THEOREM BoundedHolds ==
    ASSUME Backups # 0 PROVE Spec => []Bounded
<1>1. Init => BoundedOK
  <2> SUFFICES ASSUME Init PROVE BoundedOK
    OBVIOUS
  <2>1. \A i \in Index : Lines(i) = <<>>
    BY DEF Init, Lines, Existing
  <2> QED
    BY <2>1, EmptyFits DEF Init, BoundedOK
<1>2. BoundedOK => Bounded
  <2> SUFFICES ASSUME BoundedOK, MaxBytes # 0, NEW i \in Index, file[i] # Absent
               PROVE  Size(file[i]) <= MaxBytes \/ Len(file[i]) = 1
    BY DEF Bounded
  <2> QED
    BY DEF BoundedOK, Fits, Lines, Existing
<1>3. LogOK /\ BoundedOK /\ [Next]_vars => BoundedOK'
  BY NextBoundedOK
<1>4. Spec => []LogOK
  BY Inductive, PTL DEF IInv
<1> QED
  BY <1>1, <1>2, <1>3, <1>4, PTL DEF Spec

=============================================================================
