----------------------------- MODULE PartsProofs -----------------------------
(***************************************************************************)
(* Proofs about the parts that share no state with any other: the logging  *)
(* library's outputs (the log files, the log service, the connection to a  *)
(* collector, the writer for the Windows console), for every set of        *)
(* goroutines, of logs, of topics and of parameters, every size and every  *)
(* number of messages; and the packets of the raw socket, for every size of *)
(* a byte, every set of addresses and of payloads.                         *)
(***************************************************************************)
EXTENDS FileLog, AliLog, ConnWriter, RawUDP, AnsiColor, FiniteSetTheorems, SequenceTheorems,
        WellFoundedInduction, TLAPS
-----------------------------------------------------------------------------
(* The log files (FileLog).                                                *)


Lines == AllLogs \X (1..MaxMsgs) \X Days
WriteCall == [pc : {"idle", "check", "rotate", "write"}, msg : 0..MaxMsgs, when : Days,
              todo : Seq(AllLogs)]
Todos == {<<l>> : l \in Logs} \cup {<<full, l>> : l \in config.Separate}

F_Types ==
    /\ today \in Days /\ config \in Configs
    /\ dir \in [Names -> [lines : SUBSET Lines, mtime : -1..LastDay]]
    /\ \A n \in Names : dir[n].mtime <= today /\ \A a \in dir[n].lines : a[3] <= today
    /\ \A n \in Names : IsFiniteSet(dir[n].lines)
    /\ fileWriter \in [AllLogs -> {"open", "closed", "unlinked"}]
    /\ maxLinesCurLines \in [AllLogs -> Nat] /\ dailyOpenDate \in [AllLogs -> Days \cup {Never}]
    /\ timers \in [AllLogs -> [Midnights -> Nat]]
    /\ W \in [Writers \cup {Queue} -> WriteCall]
    /\ msgs \in 0..MaxMsgs /\ troubles \in 0..MaxTroubles
    /\ written \subseteq Lines
    /\ up \subseteq Logs /\ destroyed \in BOOLEAN
    /\ exhausted \subseteq failed /\ failed \subseteq Logs

\* Calls in progress.
Writing ==
    \A w \in Writers \cup {Queue} :
        W[w].pc # "idle" =>
            /\ up = Logs /\ W[w].msg \in 1..msgs /\ W[w].when <= today /\ W[w].todo \in Todos
\* A file that is open is there; it is not after it was deleted.
OpenFiles ==
    \A l \in AllLogs :
        /\ fileWriter[l] = "open" => l \in Logs /\ IsFile(Filename(l))
        /\ fileWriter[l] = "unlinked" => l \in orphaned

Passed(l) == {w \in Callers : W[w].pc = "write" /\ Head(W[w].todo) = l}
Most == MaxLines + Cardinality(Callers) - 1
LimitHeld ==
    MaxLines > 0 =>
        \A l \in Logs \ failed :
            /\ maxLinesCurLines[l] + Cardinality(Passed(l)) <= Most
            /\ fileWriter[l] = "open" => Cardinality(dir[Filename(l)].lines) <= maxLinesCurLines[l]
DaysHeld ==
    MaxLines = 0 /\ Daily =>
        \A l \in Logs \ exhausted : dailyOpenDate[l] \in Days =>
            /\ \A a \in dir[Filename(l)].lines : a[3] <= dailyOpenDate[l]
            /\ fileWriter[l] = "open" =>
                  \A w \in Passed(l) : W[w].when <= dailyOpenDate[l]


-----------------------------------------------------------------------------
(* Names.                                                                    *)

\* A log's current file and its rotated ones.
LEMMA NameFacts ==
  /\ \A l \in AllLogs : Filename(l) \in Names /\ Filename(l)[1] = l /\ Filename(l)[2] = NoDate
  /\ \A n \in Names : /\ n[1] \in AllLogs /\ n[2] \in Days \cup {Never, NoDate}
                       /\ n[2] = NoDate => n = Filename(n[1])
  /\ \A l \in AllLogs, d \in Days \cup {Never}, k \in 0..MaxNum :
        <<l, d, k>> \in Names /\ <<l, d, k>>[1] = l /\ <<l, d, k>>[2] = d
  /\ NoDate \notin Days /\ Never \notin Days /\ NoDate # Never
<1>1. NoDate \notin Days /\ Never \notin Days /\ NoDate # Never
  BY DEF NoDate, Never, Days
<1>2. \A l \in AllLogs : Filename(l) \in Names /\ Filename(l)[1] = l /\ Filename(l)[2] = NoDate
  BY DEF Filename, Names
<1>3. \A l \in AllLogs, d \in Days \cup {Never}, k \in 0..MaxNum :
        <<l, d, k>> \in Names /\ <<l, d, k>>[1] = l /\ <<l, d, k>>[2] = d
  BY DEF Rotated, Names
<1>4. ASSUME NEW n \in Names
      PROVE  /\ n[1] \in AllLogs /\ n[2] \in Days \cup {Never, NoDate}
             /\ n[2] = NoDate => n = Filename(n[1])
  <2>1. PICK l \in AllLogs : n \in Rotated(l) \/ n = Filename(l)
    BY DEF Names
  <2>2. CASE n = Filename(l)
    BY <2>2 DEF Filename
  <2>3. CASE n \in Rotated(l)
    <3>1. PICK d \in Days \cup {Never}, k \in 0..MaxNum : n = <<l, d, k>>
      BY <2>3 DEF Rotated
    <3> QED
      BY <1>1, <3>1
  <2> QED
    BY <2>1, <2>2, <2>3
<1> QED
  BY <1>1, <1>2, <1>3, <1>4

\* A name that is not of a rotated file.
LEMMA CurrentName ==
  ASSUME NEW n \in Names, n[2] = NoDate
  PROVE  n[1] \in AllLogs /\ n = Filename(n[1])
<1>1. PICK l \in AllLogs : n \in Rotated(l) \/ n = Filename(l)
  BY DEF Names
<1>2. n \notin Rotated(l)
  BY DEF Rotated, NoDate, Never, Days
<1> QED
  BY <1>1, <1>2 DEF Filename

\* The name that is chosen is free, if one is.
LEMMA FreeNameIsFree ==
  ASSUME FileLogConstants, NEW l \in AllLogs, NEW logTime \in Days,
         dailyOpenDate \in [AllLogs -> Days \cup {Never}],
         ~ \A f \in Candidates(l, logTime) : IsFile(f)
  PROVE  /\ FreeName(l, logTime) \in Names /\ ~IsFile(FreeName(l, logTime))
         /\ FreeName(l, logTime)[1] = l
         /\ FreeName(l, logTime)[2] = IF MaxLines > 0 THEN logTime ELSE dailyOpenDate[l]
<1> DEFINE C == Candidates(l, logTime)
           day == IF MaxLines > 0 THEN logTime ELSE dailyOpenDate[l]
           Good(f) == ~IsFile(f) /\ \A g \in C : ~IsFile(g) => f[3] <= g[3]
           Numbers == {k \in Nat : \E f \in C : f[3] = k /\ ~IsFile(f)}
<1>1. \A f \in C : /\ f \in Names /\ f[1] = l /\ f[2] = day /\ f[3] \in Nat
  BY NameFacts DEF Candidates, FileLogConstants
<1>2. \E f \in C : Good(f)
  <2>1. Numbers # {}
    BY <1>1
  <2>2. PICK k \in Numbers : \A j \in Numbers : k <= j
    <3>1. \A T : T # {} /\ T \subseteq Nat => \E x \in T : \A y \in T : ~ (<<y, x>> \in OpToRel(<, Nat))
      BY NatLessThanWellFounded, WFMin
    <3>2. PICK x \in Numbers : \A y \in Numbers : ~ (<<y, x>> \in OpToRel(<, Nat))
      BY <2>1, <3>1
    <3>3. \A y \in Numbers : x \in Nat /\ y \in Nat /\ ~ (y < x)
      BY <3>2 DEF OpToRel
    <3>4. \A y \in Numbers : x <= y
      <4> HIDE DEF Numbers
      <4> QED
        BY <3>3
    <3> QED
      BY <3>4
  <2>3. PICK f \in C : f[3] = k /\ ~IsFile(f)
    BY <2>2
  <2>4. \A g \in C : ~IsFile(g) => f[3] <= g[3]
    BY <1>1, <2>2, <2>3
  <2> QED
    BY <2>3, <2>4
<1>3. FreeName(l, logTime) = CHOOSE f \in C : Good(f)
  BY DEF FreeName
<1>4. FreeName(l, logTime) \in C /\ Good(FreeName(l, logTime))
  <2> HIDE DEF C, Good
  <2> QED
    BY <1>2, <1>3
<1> QED
  BY <1>1, <1>4
-----------------------------------------------------------------------------
(* Rotations.                                                                *)

Moved(l, f) == [dir EXCEPT ![f] = dir[Filename(l)], ![Filename(l)] = NoFile]
DayOf(l, logTime) == IF MaxLines > 0 THEN logTime ELSE dailyOpenDate[l]

\* What a rotation leaves in the directory, before the file is opened again.
Leaves(l, logTime, dir1) ==
    \/ dir1 = dir
    \/ /\ IsFile(Filename(l))
       /\ \E f \in Names : /\ ~IsFile(f) /\ f[1] = l /\ f[2] = DayOf(l, logTime)
                           /\ dir1 = Moved(l, f)

\* The file is open again, new unless the rotation failed, or it failed.
Reopened(l, dir1, tm) ==
    /\ startLogger(l, dir1, tm)
    /\ UNCHANGED exhausted
    /\ \/ failed' = failed \cup {l}
       \/ failed' = failed /\ dir1[Filename(l)] = NoFile
NotReopened(l, dir1, tm) ==
    /\ dir' = dir1 /\ timers' = tm
    /\ failed' = failed \cup {l}
    /\ UNCHANGED <<maxLinesCurLines, dailyOpenDate>>
    /\ \/ exhausted' = exhausted \cup {l} /\ UNCHANGED fileWriter /\ dir1 = dir
       \/ exhausted' = exhausted /\ fileWriter' = [fileWriter EXCEPT ![l] = "closed"]
       \/ exhausted' = exhausted /\ UNCHANGED fileWriter /\ dir1 = dir /\ ~IsFile(Filename(l))

\* A rotation moves the file away and opens a new one, or fails to.
LEMMA RotateCases ==
  ASSUME FileLogConstants, F_Types, NEW l \in Logs, NEW logTime \in Days, NEW tm,
         doRotate(l, logTime, tm)
  PROVE  \E dir1 : /\ Leaves(l, logTime, dir1)
                   /\ Reopened(l, dir1, tm) \/ NotReopened(l, dir1, tm)
<1>1. l \in AllLogs /\ Filename(l) \in Names
  BY NameFacts DEF Logs, AllLogs, F_Types, FileLogConstants
<1>2. dir \in [Names -> [lines : SUBSET Lines, mtime : -1..LastDay]]
  BY DEF F_Types
<1>3. Leaves(l, logTime, dir)
  BY DEF Leaves
<1>4. CASE ~IsFile(Filename(l))
  <2>1. Restarts(l, dir, FALSE, FALSE, tm) /\ UNCHANGED exhausted
    BY <1>4 DEF doRotate
  <2>2. CASE startLogger(l, dir, tm) /\ failed' = failed
    BY <1>3, <1>4, <2>1, <2>2 DEF Reopened, IsFile
  <2>3. CASE startLoggerFails(l, dir, FALSE, tm) /\ failed' = failed \cup {l}
    BY <1>3, <1>4, <2>1, <2>3 DEF NotReopened, startLoggerFails
  <2> QED
    BY <2>1, <2>2, <2>3 DEF Restarts
<1>5. CASE IsFile(Filename(l)) /\ \A f \in Candidates(l, logTime) : IsFile(f)
  <2>1. NotReopened(l, dir, tm)
    BY <1>5 DEF doRotate, NotReopened, current
  <2> QED
    BY <1>3, <2>1
<1>6. CASE IsFile(Filename(l)) /\ ~ \A f \in Candidates(l, logTime) : IsFile(f)
  <2> DEFINE free == FreeName(l, logTime)
  <2>1. /\ \/ Restarts(l, Moved(l, free), TRUE, FALSE, tm)
           \/ Restarts(l, dir, TRUE, TRUE, tm)
        /\ UNCHANGED exhausted
    BY <1>6 DEF doRotate, Moved
  <2>2. free \in Names /\ ~IsFile(free) /\ free[1] = l /\ free[2] = DayOf(l, logTime)
    BY <1>1, <1>6, FreeNameIsFree DEF F_Types, DayOf
  <2>3. Leaves(l, logTime, Moved(l, free))
    BY <1>6, <2>2 DEF Leaves
  <2>4. Moved(l, free)[Filename(l)] = NoFile
    BY <1>1, <1>2, <1>6, <2>2 DEF Moved
  <2> HIDE DEF free
  <2>5. CASE Restarts(l, Moved(l, free), TRUE, FALSE, tm)
    <3>1. CASE startLogger(l, Moved(l, free), tm) /\ failed' = failed
      BY <2>1, <2>3, <2>4, <3>1 DEF Reopened
    <3>2. CASE startLoggerFails(l, Moved(l, free), TRUE, tm) /\ failed' = failed \cup {l}
      BY <2>1, <2>3, <3>2 DEF NotReopened, startLoggerFails
    <3> QED
      BY <2>5, <3>1, <3>2 DEF Restarts
  <2>6. CASE Restarts(l, dir, TRUE, TRUE, tm)
    <3>1. CASE startLogger(l, dir, tm) /\ failed' = failed \cup {l}
      BY <1>3, <2>1, <3>1 DEF Reopened
    <3>2. CASE startLoggerFails(l, dir, TRUE, tm) /\ failed' = failed \cup {l}
      BY <1>3, <2>1, <3>2 DEF NotReopened, startLoggerFails
    <3> QED
      BY <2>6, <3>1, <3>2 DEF Restarts
  <2> QED
    BY <2>1, <2>5, <2>6
<1> QED
  BY <1>4, <1>5, <1>6

\* A timer is for a midnight that is counted; the next one is among them, and the
\* only one on a day of 24 hours before another.
LEMMA MidnightFacts ==
  ASSUME FileLogConstants, today \in Days
  PROVE  /\ NextMidnights \subseteq Midnights /\ today + 1 \in Midnights
         /\ today \notin config.Back /\ today + 1 \notin config.Forward =>
               NextMidnights = {today + 1}
<1>1. today \in 0..LastDay /\ LastDay \in Nat
  BY DEF Days, FileLogConstants
<1>2. today \in Midnights /\ today + 1 \in Midnights /\ today + 2 \in Midnights
  BY ONLY <1>1 DEF Midnights
<1> QED
  BY <1>2 DEF NextMidnights

\* Another timer.
LEMMA TimerAdded ==
  ASSUME NEW l \in AllLogs, NEW tm \in [AllLogs -> [Midnights -> Nat]],
         NEW midnight \in Midnights, NEW added, added = [tm EXCEPT ![l][midnight] = @ + 1]
  PROVE  /\ added \in [AllLogs -> [Midnights -> Nat]]
         /\ added[l][midnight] > 0
         /\ \A k \in AllLogs : k # l => added[k] = tm[k]
<1>1. tm[l] \in [Midnights -> Nat] /\ tm[l][midnight] \in Nat
  OBVIOUS
<1>2. [tm[l] EXCEPT ![midnight] = @ + 1] \in [Midnights -> Nat]
  BY <1>1
<1>3. added = [tm EXCEPT ![l] = [tm[l] EXCEPT ![midnight] = @ + 1]]
  OBVIOUS
<1> QED
  BY <1>1, <1>2, <1>3

\* Only this log's files change, by one of them taking a free name; no line goes.
LEMMA LeavesFacts ==
  ASSUME FileLogConstants, F_Types, NEW l \in Logs, NEW logTime \in 0..today, NEW dir1,
         Leaves(l, logTime, dir1)
  PROVE  /\ dir1 \in [Names -> [lines : SUBSET Lines, mtime : -1..LastDay]]
         /\ \A n \in Names : dir1[n].mtime <= today /\ \A a \in dir1[n].lines : a[3] <= today
         /\ \A n \in Names : n[1] # l => dir1[n] = dir[n]
         /\ \A n \in Names : n[2] # NoDate =>
               /\ IsFile(n) => dir1[n] = dir[n]
               /\ \/ dir1[n] = dir[n]
                  \/ n[1] = l /\ n[2] = DayOf(l, logTime) /\ dir1[n] = dir[Filename(l)]
         /\ dir1[Filename(l)] \in {dir[Filename(l)], NoFile}
         /\ \E m \in Names : m[1] = l /\ dir[Filename(l)].lines \subseteq dir1[m].lines
<1> DEFINE cur == Filename(l)
<1>1. l \in AllLogs /\ cur \in Names /\ cur[1] = l /\ cur[2] = NoDate
  BY NameFacts DEF Logs, AllLogs, F_Types, FileLogConstants
<1>2. /\ dir \in [Names -> [lines : SUBSET Lines, mtime : -1..LastDay]]
      /\ \A n \in Names : dir[n].mtime <= today /\ \A a \in dir[n].lines : a[3] <= today
  BY DEF F_Types
<1>3. /\ NoFile \in [lines : SUBSET Lines, mtime : -1..LastDay]
      /\ NoFile.mtime <= today /\ NoFile.lines = {}
  BY DEF NoFile, FileLogConstants, F_Types, Days
<1> HIDE DEF cur
<1>4. CASE dir1 = dir
  BY <1>1, <1>2, <1>4 DEF cur
<1>5. ASSUME IsFile(cur), NEW f \in Names, ~IsFile(f), f[1] = l, f[2] = DayOf(l, logTime),
             dir1 = Moved(l, f)
      PROVE  /\ dir1 \in [Names -> [lines : SUBSET Lines, mtime : -1..LastDay]]
             /\ \A n \in Names : dir1[n] = IF n = cur THEN NoFile ELSE IF n = f THEN dir[cur] ELSE dir[n]
  <2>1. dir1 = [[dir EXCEPT ![f] = dir[cur]] EXCEPT ![cur] = NoFile]
    BY <1>5 DEF Moved, cur
  <2>2. [dir EXCEPT ![f] = dir[cur]] \in [Names -> [lines : SUBSET Lines, mtime : -1..LastDay]]
    BY <1>1, <1>2
  <2>3. \A n \in Names : [dir EXCEPT ![f] = dir[cur]][n] = IF n = f THEN dir[cur] ELSE dir[n]
    BY <1>2
  <2> QED
    BY ONLY <1>1, <1>3, <2>1, <2>2, <2>3
<1>6. ASSUME IsFile(cur), NEW f \in Names, ~IsFile(f), f[1] = l, f[2] = DayOf(l, logTime),
             dir1 = Moved(l, f)
      PROVE  /\ dir1 \in [Names -> [lines : SUBSET Lines, mtime : -1..LastDay]]
             /\ \A n \in Names : dir1[n].mtime <= today /\ \A a \in dir1[n].lines : a[3] <= today
             /\ \A n \in Names : n[1] # l => dir1[n] = dir[n]
             /\ \A n \in Names : n[2] # NoDate =>
                   /\ IsFile(n) => dir1[n] = dir[n]
                   /\ \/ dir1[n] = dir[n]
                      \/ n[1] = l /\ n[2] = DayOf(l, logTime) /\ dir1[n] = dir[cur]
             /\ dir1[cur] \in {dir[cur], NoFile}
             /\ \E m \in Names : m[1] = l /\ dir[cur].lines \subseteq dir1[m].lines
  <2>1. f # cur
    BY <1>6
  <2> QED
    BY <1>1, <1>2, <1>3, <1>5, <1>6, <2>1
<1> QED
  BY <1>4, <1>6 DEF Leaves, cur

\* What a rotation does, seen from outside: the files, the log's own state, and
\* which of failed and exhausted tell of it.
Planned(l, tm) ==
    \E midnight \in NextMidnights :
        timers' = IF Daily THEN [tm EXCEPT ![l][midnight] = @ + 1] ELSE tm
RotationOf(l, logTime, tm) ==
    /\ dir' \in [Names -> [lines : SUBSET Lines, mtime : -1..LastDay]]
    /\ \A n \in Names : dir'[n].mtime <= today /\ \A a \in dir'[n].lines : a[3] <= today
    /\ \A n \in Names : n[1] # l => dir'[n] = dir[n]
    /\ \A n \in Names : n[2] # NoDate =>
          /\ IsFile(n) => dir'[n] = dir[n]
          /\ \/ dir'[n] = dir[n]
             \/ n[1] = l /\ n[2] = DayOf(l, logTime) /\ dir'[n] = dir[Filename(l)]
    /\ dir'[Filename(l)].lines \in {dir[Filename(l)].lines, {}}
    /\ \E m \in Names : m[1] = l /\ dir[Filename(l)].lines \subseteq dir'[m].lines
    /\ failed' \in {failed, failed \cup {l}}
    /\ exhausted' \in {exhausted, exhausted \cup {l}} /\ exhausted' \subseteq failed'
    /\ \/ /\ fileWriter' = [fileWriter EXCEPT ![l] = "open"]
          /\ maxLinesCurLines' =
                [maxLinesCurLines EXCEPT ![l] = Cardinality(dir'[Filename(l)].lines)]
          /\ dailyOpenDate' = [dailyOpenDate EXCEPT ![l] = today]
          /\ Planned(l, tm)
          /\ IsFile(Filename(l))'
          /\ l \notin failed' => dir'[Filename(l)].lines = {}
       \/ /\ l \in failed'
          /\ timers' = tm /\ UNCHANGED <<maxLinesCurLines, dailyOpenDate>>
          /\ \/ UNCHANGED <<fileWriter, dir>> /\ (l \in exhausted' \/ ~IsFile(Filename(l)))
             \/ fileWriter' = [fileWriter EXCEPT ![l] = "closed"]

\* What a rotation changes, whether it succeeds or not.
LEMMA RotationFacts ==
  ASSUME FileLogConstants, F_Types, NEW l \in Logs, NEW logTime \in 0..today, NEW tm,
         doRotate(l, logTime, tm)
  PROVE  RotationOf(l, logTime, tm)
<1> DEFINE cur == Filename(l)
           new == [lines |-> {}, mtime |-> today]
<1>0. logTime \in Days /\ today \in 0..LastDay /\ LastDay \in Nat
  BY DEF F_Types, Days, FileLogConstants
<1>1. PICK dir1 : /\ Leaves(l, logTime, dir1)
                  /\ Reopened(l, dir1, tm) \/ NotReopened(l, dir1, tm)
  BY <1>0, RotateCases
<1>2. l \in AllLogs /\ cur \in Names /\ cur[1] = l /\ cur[2] = NoDate
  BY NameFacts DEF Logs, AllLogs, F_Types, FileLogConstants
<1> HIDE DEF cur
<1>3. /\ dir1 \in [Names -> [lines : SUBSET Lines, mtime : -1..LastDay]]
      /\ \A n \in Names : dir1[n].mtime <= today /\ \A a \in dir1[n].lines : a[3] <= today
      /\ \A n \in Names : n[1] # l => dir1[n] = dir[n]
      /\ \A n \in Names : n[2] # NoDate =>
            /\ IsFile(n) => dir1[n] = dir[n]
            /\ \/ dir1[n] = dir[n]
               \/ n[1] = l /\ n[2] = DayOf(l, logTime) /\ dir1[n] = dir[cur]
      /\ dir1[cur] \in {dir[cur], NoFile}
      /\ \E m \in Names : m[1] = l /\ dir[cur].lines \subseteq dir1[m].lines
  BY <1>1, LeavesFacts DEF cur
<1>4. NoFile.lines = {} /\ new \in [lines : SUBSET Lines, mtime : -1..LastDay]
      /\ new # NoFile /\ new.lines = {} /\ new.mtime <= today
  BY <1>0 DEF NoFile
<1>5. exhausted \subseteq failed
  BY DEF F_Types
<1>6. CASE Reopened(l, dir1, tm)
  <2>1. /\ dir' = IF dir1[cur] # NoFile THEN dir1 ELSE [dir1 EXCEPT ![cur] = new]
        /\ fileWriter' = [fileWriter EXCEPT ![l] = "open"]
        /\ maxLinesCurLines' = [maxLinesCurLines EXCEPT ![l] = Cardinality(dir'[cur].lines)]
        /\ dailyOpenDate' = [dailyOpenDate EXCEPT ![l] = today]
        /\ Planned(l, tm)
        /\ UNCHANGED exhausted
        /\ \/ failed' = failed \cup {l}
           \/ failed' = failed /\ dir1[cur] = NoFile
    BY <1>6 DEF Reopened, startLogger, createLogFile, initFd, Planned, cur
  <2>2. /\ dir' \in [Names -> [lines : SUBSET Lines, mtime : -1..LastDay]]
        /\ \A n \in Names \ {cur} : dir'[n] = dir1[n]
        /\ dir'[cur] # NoFile /\ dir'[cur].lines = dir1[cur].lines
        /\ dir'[cur] \in {dir1[cur], new}
    BY ONLY <1>2, <1>3, <1>4, <2>1
  <2>3. /\ \A n \in Names : dir'[n].mtime <= today /\ \A a \in dir'[n].lines : a[3] <= today
        /\ \A n \in Names : dir'[n].lines = dir1[n].lines
        /\ \A n \in Names : n[2] # NoDate \/ n[1] # l => dir'[n] = dir1[n]
    BY ONLY <1>2, <1>3, <1>4, <2>2
  <2>4. dir'[cur].lines \in {dir[cur].lines, {}} /\ (l \notin failed' => dir'[cur].lines = {})
    BY ONLY <1>2, <1>3, <1>4, <2>1, <2>2
  <2>5. IsFile(Filename(l))'
    BY <2>2 DEF IsFile, cur
  <2>6. exhausted' \subseteq failed'
    BY <1>5, <2>1
  <2> QED
    BY <1>2, <1>3, <2>1, <2>2, <2>3, <2>4, <2>5, <2>6 DEF RotationOf, cur
<1>7. CASE NotReopened(l, dir1, tm)
  <2>1. /\ dir' = dir1 /\ timers' = tm
        /\ failed' = failed \cup {l}
        /\ UNCHANGED <<maxLinesCurLines, dailyOpenDate>>
        /\ exhausted' \in {exhausted, exhausted \cup {l}} /\ exhausted' \subseteq failed'
        /\ \/ UNCHANGED <<fileWriter, dir>> /\ (l \in exhausted' \/ ~IsFile(cur))
           \/ fileWriter' = [fileWriter EXCEPT ![l] = "closed"]
    BY <1>5, <1>7 DEF NotReopened, cur
  <2>2. dir'[cur].lines \in {dir[cur].lines, {}}
    BY <1>3, <1>4, <2>1
  <2> QED
    BY <1>3, <2>1, <2>2 DEF RotationOf, cur
<1> QED
  BY <1>1, <1>6, <1>7

\* A rotation as a step: the calls that wait for it go on to write.
Calls == Writers \cup {Queue}
RotationStep(l, logTime, tm) ==
    /\ RotationOf(l, logTime, tm) /\ (MaxLines > 0 \/ Daily)
    /\ UNCHANGED <<config, today, up, destroyed, msgs, written, expired, orphaned>>
    /\ troubles' \in 0..MaxTroubles
    /\ W' \in [Calls -> WriteCall]
    /\ \A v \in Calls :
          \/ W'[v] = W[v]
          \/ /\ W[v].pc = "rotate" /\ Head(W[v].todo) = l
             /\ W'[v] = [W[v] EXCEPT !.pc = "write"]

\* What a configuration says: its logs and its goroutines.
LEMMA ConfigFacts ==
  ASSUME FileLogConstants, F_Types
  PROVE  /\ MaxLines \in Nat /\ config.Separate \subseteq LevelLogs
         /\ Logs \subseteq AllLogs /\ full \in Logs /\ full \notin config.Separate
         /\ Callers \subseteq Calls
         /\ IsFiniteSet(Writers) => IsFiniteSet(Callers) /\ Cardinality(Callers) \in Nat
<1>1. /\ config \in [MaxLines : Nat, Separate : SUBSET LevelLogs, Async : BOOLEAN,
                        Back : SUBSET Nat, Forward : SUBSET Nat]
      /\ full \notin LevelLogs
  BY DEF FileLogConstants, F_Types
<1>2. ASSUME IsFiniteSet(Writers)
      PROVE  IsFiniteSet(Callers) /\ Cardinality(Callers) \in Nat
  <2>1. IsFiniteSet({Queue})
    BY FS_Singleton
  <2> QED
    BY <1>2, <2>1, FS_CardinalityType DEF Callers
<1> QED
  BY <1>1, <1>2 DEF MaxLines, Logs, AllLogs, Callers, Calls

\* A rotation keeps the types, the calls in progress and the open files.
LEMMA RotationTypes ==
  ASSUME FileLogConstants, F_Types, Writing, OpenFiles, NEW l \in Logs, NEW logTime,
         NEW tm \in [AllLogs -> [Midnights -> Nat]], RotationStep(l, logTime, tm)
  PROVE  F_Types' /\ Writing' /\ OpenFiles'
<1>1. l \in AllLogs /\ l \in Logs /\ Filename(l) \in Names
  BY ConfigFacts, NameFacts
<1>2. F_Types'
  <2>0. ASSUME NEW n \in Names PROVE IsFiniteSet(dir'[n].lines)
    <3>1. dir'[n] = dir[n] \/ n = Filename(l) \/ dir'[n] = dir[Filename(l)]
      <4>1. CASE n[1] # l \/ n[2] # NoDate
        BY <4>1 DEF RotationStep, RotationOf
      <4>2. CASE n[1] = l /\ n[2] = NoDate
        <5>1. n = Filename(n[1])
          BY <4>2, CurrentName
        <5> QED
          BY <4>2, <5>1
      <4> QED
        BY <4>1, <4>2
    <3>2. dir'[Filename(l)].lines = dir[Filename(l)].lines \/ dir'[Filename(l)].lines = {}
      BY DEF RotationStep, RotationOf
    <3>3. IsFiniteSet(dir[n].lines) /\ IsFiniteSet(dir[Filename(l)].lines)
      BY <1>1 DEF F_Types
    <3> QED
      BY <3>1, <3>2, <3>3, FS_EmptySet
  <2>1. timers' \in [AllLogs -> [Midnights -> Nat]]
    <3>1. CASE timers' = tm
      BY <3>1
    <3>2. ASSUME NEW midnight \in NextMidnights, timers' = [tm EXCEPT ![l][midnight] = @ + 1]
          PROVE  timers' \in [AllLogs -> [Midnights -> Nat]]
      <4>1. midnight \in Midnights
        BY MidnightFacts DEF F_Types
      <4> QED
        BY <1>1, <3>2, <4>1, TimerAdded
    <3> QED
      BY <3>1, <3>2 DEF RotationStep, RotationOf, Planned
  <2>2. maxLinesCurLines' \in [AllLogs -> Nat]
    <3>1. Cardinality(dir'[Filename(l)].lines) \in Nat
      BY <1>1, <2>0, FS_CardinalityType
    <3> QED
      BY <3>1 DEF RotationStep, RotationOf, F_Types
  <2>3. failed' \subseteq Logs' /\ exhausted' \subseteq failed'
    BY DEF RotationStep, RotationOf, F_Types, Logs
  <2>4. fileWriter' \in [AllLogs -> {"open", "closed", "unlinked"}]
        /\ dailyOpenDate' \in [AllLogs -> Days \cup {Never}]
    <3>1. fileWriter \in [AllLogs -> {"open", "closed", "unlinked"}]
          /\ dailyOpenDate \in [AllLogs -> Days \cup {Never}] /\ today \in Days
      BY DEF F_Types
    <3>2. /\ \/ fileWriter' = fileWriter \/ fileWriter' = [fileWriter EXCEPT ![l] = "open"]
             \/ fileWriter' = [fileWriter EXCEPT ![l] = "closed"]
          /\ dailyOpenDate' = dailyOpenDate \/ dailyOpenDate' = [dailyOpenDate EXCEPT ![l] = today]
      BY DEF RotationStep, RotationOf
    <3> QED
      BY ONLY <1>1, <3>1, <3>2
  <2>5. up' \subseteq Logs'
    BY DEF RotationStep, F_Types, Logs
  <2>6. /\ dir' \in [Names -> [lines : SUBSET Lines, mtime : -1..LastDay]]
        /\ \A n \in Names : dir'[n].mtime <= today' /\ \A a \in dir'[n].lines : a[3] <= today'
    BY DEF RotationStep, RotationOf
  <2>7. /\ today' \in Days /\ config' \in Configs /\ W' \in [Writers \cup {Queue} -> WriteCall]
        /\ msgs' \in 0..MaxMsgs /\ troubles' \in 0..MaxTroubles
        /\ written' \subseteq Lines /\ destroyed' \in BOOLEAN
    <3>1. /\ today \in Days /\ config \in Configs /\ msgs \in 0..MaxMsgs
          /\ written \subseteq Lines /\ destroyed \in BOOLEAN
      BY DEF F_Types
    <3>2. /\ UNCHANGED <<today, config, msgs, written, destroyed>>
          /\ W' \in [Writers \cup {Queue} -> WriteCall] /\ troubles' \in 0..MaxTroubles
      BY DEF RotationStep, Calls
    <3> QED
      BY ONLY <3>1, <3>2
  <2> QED
    BY ONLY <2>0, <2>1, <2>2, <2>3, <2>4, <2>5, <2>6, <2>7 DEF F_Types
<1>3. Writing'
  <2>1. /\ Logs' = Logs /\ Todos' = Todos /\ UNCHANGED <<up, msgs, today>>
    BY DEF RotationStep, Todos, Logs
  <2>2. ASSUME NEW v \in Calls, W'[v].pc # "idle"
        PROVE  /\ W[v].pc # "idle" /\ W'[v].msg = W[v].msg /\ W'[v].when = W[v].when
               /\ W'[v].todo = W[v].todo
    <3>1. W[v] \in WriteCall
      BY DEF F_Types, Calls
    <3> QED
      BY <2>2, <3>1 DEF RotationStep, WriteCall
  <2> QED
    BY <2>1, <2>2 DEF Writing, Calls
<1>4. OpenFiles'
  <2> SUFFICES ASSUME NEW k \in AllLogs
               PROVE  /\ fileWriter'[k] = "open" => k \in Logs' /\ IsFile(Filename(k))'
                      /\ fileWriter'[k] = "unlinked" => k \in orphaned'
    BY DEF OpenFiles
  <2>1. Logs' = Logs /\ orphaned' = orphaned
    BY DEF RotationStep, Logs
  <2>2. CASE k # l
    <3>1. fileWriter'[k] = fileWriter[k]
      BY <2>2 DEF RotationStep, RotationOf, F_Types
    <3>2. dir'[Filename(k)] = dir[Filename(k)]
      BY <2>2, NameFacts DEF RotationStep, RotationOf
    <3> QED
      BY <2>1, <3>1, <3>2 DEF OpenFiles, IsFile, Filename, NoFile
  <2>3. CASE k = l
    BY <1>1, <2>1, <2>3 DEF RotationStep, RotationOf, OpenFiles, F_Types, IsFile, Filename, NoFile
  <2> QED
    BY <2>2, <2>3
<1> QED
  BY <1>2, <1>3, <1>4

\* No line is lost by renaming.
LEMMA RotationKept ==
  ASSUME FileLogConstants, F_Types, LinesKept, NEW l \in Logs, NEW logTime, NEW tm,
         RotationStep(l, logTime, tm)
  PROVE  LinesKept'
<1> SUFFICES ASSUME NEW a \in written', a[1] \notin orphaned'
             PROVE  Kept(a)'
  BY DEF LinesKept
<1>1. written' = written /\ orphaned' = orphaned /\ expired' = expired
  BY DEF RotationStep
<1>2. a \in expired \/ \E n \in Names : n[1] = a[1] /\ a \in dir[n].lines
  BY <1>1 DEF LinesKept, Kept
<1>3. ASSUME NEW n \in Names, n[1] = a[1], a \in dir[n].lines
      PROVE  \E m \in Names : m[1] = a[1] /\ a \in dir'[m].lines
  <2>1. CASE n[1] # l
    BY <1>3, <2>1 DEF RotationStep, RotationOf
  <2>2. CASE n[1] = l /\ n[2] # NoDate
    <3>1. IsFile(n)
      BY <1>3 DEF IsFile, NoFile
    <3> QED
      BY <1>3, <2>2, <3>1 DEF RotationStep, RotationOf
  <2>3. CASE n[1] = l /\ n[2] = NoDate
    <3>1. n = Filename(l)
      BY <2>3, CurrentName
    <3>2. PICK m \in Names : m[1] = l /\ dir[Filename(l)].lines \subseteq dir'[m].lines
      BY DEF RotationStep, RotationOf
    <3> QED
      BY <1>3, <2>3, <3>1, <3>2
  <2> QED
    BY <2>1, <2>2, <2>3
<1> QED
  BY <1>1, <1>2, <1>3 DEF Kept

\* A new file is empty, whoever has passed the check.
LEMMA RotationLimit ==
  ASSUME FileLogConstants, IsFiniteSet(Writers), F_Types, LimitKept, LimitHeld,
         NEW l \in Logs, NEW logTime, NEW tm, RotationStep(l, logTime, tm)
  PROVE  LimitKept' /\ LimitHeld'
<1>1. /\ UNCHANGED <<MaxLines, Callers, Logs, Most>> /\ MaxLines \in Nat
      /\ IsFiniteSet(Callers) /\ Cardinality(Callers) \in Nat
      /\ l \in AllLogs /\ Filename(l) \in Names /\ Filename(l)[1] = l
      /\ failed \subseteq failed'
  <2>1. UNCHANGED <<MaxLines, Callers, Logs, Most>>
    BY DEF RotationStep, MaxLines, Callers, Logs, Most
  <2>2. l \in AllLogs
    BY ConfigFacts
  <2>3. failed \subseteq failed'
    BY DEF RotationStep, RotationOf
  <2> QED
    BY <2>1, <2>2, <2>3, ConfigFacts, NameFacts
<1> SUFFICES ASSUME MaxLines > 0
             PROVE  /\ \A n \in Names : n[1] \notin failed' => Cardinality(dir'[n].lines) <= Most
                    /\ \A k \in Logs \ failed' :
                         /\ maxLinesCurLines'[k] + Cardinality(Passed(k)') <= Most
                         /\ fileWriter'[k] = "open" =>
                               Cardinality(dir'[Filename(k)].lines) <= maxLinesCurLines'[k]
  BY <1>1 DEF LimitKept, LimitHeld, Most, Filename
<1>2. 0 <= Most
  BY <1>1 DEF Most
<1>3. l \notin failed' => /\ dir'[Filename(l)].lines = {}
                          /\ maxLinesCurLines'[l] = Cardinality(dir'[Filename(l)].lines)
  <2> SUFFICES ASSUME l \notin failed'
               PROVE  /\ dir'[Filename(l)].lines = {}
                      /\ maxLinesCurLines'[l] = Cardinality(dir'[Filename(l)].lines)
    OBVIOUS
  <2>1. /\ dir'[Filename(l)].lines = {}
        /\ maxLinesCurLines' = [maxLinesCurLines EXCEPT ![l] = Cardinality(dir'[Filename(l)].lines)]
    BY DEF RotationStep, RotationOf
  <2>2. maxLinesCurLines \in [AllLogs -> Nat]
    BY DEF F_Types
  <2> QED
    BY <1>1, <2>1, <2>2
<1>4. Cardinality({}) = 0
  BY FS_EmptySet
<1>5. ASSUME NEW n \in Names, n[1] \notin failed'
      PROVE  Cardinality(dir'[n].lines) <= Most
  <2>1. Cardinality(dir[n].lines) <= Most
    BY <1>1, <1>5 DEF LimitKept, Most
  <2>2. CASE n[1] # l
    BY <2>1, <2>2 DEF RotationStep, RotationOf
  <2>3. CASE n[1] = l /\ n[2] # NoDate
    <3>1. dir'[n] = dir[n] \/ dir'[n] = dir[Filename(l)]
      BY <2>3 DEF RotationStep, RotationOf
    <3>2. Cardinality(dir[Filename(l)].lines) <= Most
      BY <1>1, <1>5, <2>3 DEF LimitKept, Most
    <3> QED
      BY <2>1, <3>1, <3>2
  <2>4. CASE n[1] = l /\ n[2] = NoDate
    <3>1. n = Filename(l)
      BY <2>4, CurrentName
    <3> QED
      BY <1>2, <1>3, <1>4, <1>5, <2>4, <3>1
  <2> QED
    BY <2>2, <2>3, <2>4
<1>6. ASSUME NEW k \in Logs \ failed'
      PROVE  /\ maxLinesCurLines'[k] + Cardinality(Passed(k)') <= Most
             /\ fileWriter'[k] = "open" =>
                   Cardinality(dir'[Filename(k)].lines) <= maxLinesCurLines'[k]
  <2>1. CASE k = l
    <3>1. Passed(l)' \subseteq Callers
      BY <1>1 DEF Passed
    <3>2. Cardinality(Passed(l)') <= Cardinality(Callers) /\ Cardinality(Passed(l)') \in Nat
      BY <1>1, <3>1, FS_Subset, FS_CardinalityType
    <3>3. maxLinesCurLines'[l] = 0
      BY <1>3, <1>4, <2>1
    <3> QED
      BY <1>1, <1>3, <2>1, <3>2, <3>3 DEF Most
  <2>2. CASE k # l
    <3>1. k \in AllLogs /\ Filename(k) \in Names /\ Filename(k)[1] = k
      BY ConfigFacts, NameFacts
    <3>2. maxLinesCurLines'[k] = maxLinesCurLines[k] /\ fileWriter'[k] = fileWriter[k]
      BY <2>2, <3>1 DEF RotationStep, RotationOf, F_Types
    <3>3. dir'[Filename(k)] = dir[Filename(k)]
      BY <2>2, <3>1 DEF RotationStep, RotationOf
    <3>4. Passed(k)' = Passed(k)
      <4>1. ASSUME NEW w \in Callers
            PROVE  (W'[w].pc = "write" /\ Head(W'[w].todo) = k)
                     <=> (W[w].pc = "write" /\ Head(W[w].todo) = k)
        <5>1. w \in Calls /\ W[w] \in WriteCall
          BY ConfigFacts DEF F_Types, Calls
        <5>2. CASE W'[w] = W[w]
          BY <5>2
        <5>3. CASE W[w].pc = "rotate" /\ Head(W[w].todo) = l /\ W'[w] = [W[w] EXCEPT !.pc = "write"]
          BY <2>2, <5>1, <5>3 DEF WriteCall
        <5> QED
          BY <5>1, <5>2, <5>3 DEF RotationStep
      <4> QED
        BY <1>1, <4>1 DEF Passed
    <3>5. k \in Logs \ failed
      BY <1>1
    <3> QED
      BY <3>2, <3>3, <3>4, <3>5 DEF LimitHeld
  <2> QED
    BY <2>1, <2>2
<1> QED
  BY <1>5, <1>6

\* The name has the day the file was opened, and no line is of a later one.
LEMMA RotationDays ==
  ASSUME FileLogConstants, F_Types, Writing, OpenFiles, NamedByDay, DaysHeld, F_Types',
         NEW l \in Logs, NEW logTime, NEW tm, RotationStep(l, logTime, tm)
  PROVE  NamedByDay' /\ DaysHeld'
<1>1. /\ UNCHANGED <<MaxLines, Callers, Logs>>
      /\ l \in AllLogs /\ Filename(l) \in Names
      /\ exhausted \subseteq exhausted'
  <2>1. UNCHANGED <<MaxLines, Callers, Logs>>
    BY DEF RotationStep, MaxLines, Callers, Logs
  <2>2. l \in AllLogs
    BY ConfigFacts
  <2>3. exhausted \subseteq exhausted'
    BY DEF RotationStep, RotationOf
  <2> QED
    BY <2>1, <2>2, <2>3, NameFacts
<1>2. NamedByDay'
  <2> SUFFICES ASSUME NEW n \in Names, n[2] \in Days, MaxLines = 0, n[1] \notin exhausted'
               PROVE  \A a \in dir'[n].lines : a[3] <= n[2]
    BY <1>1 DEF NamedByDay
  <2>0. n[2] # NoDate
    BY NameFacts
  <2>1. CASE dir'[n] = dir[n]
    BY <1>1, <2>1 DEF NamedByDay
  <2>2. CASE n[1] = l /\ n[2] = DayOf(l, logTime) /\ dir'[n] = dir[Filename(l)]
    <3>1. Daily /\ n[2] = dailyOpenDate[l] /\ dailyOpenDate[l] \in Days
      BY <2>2 DEF RotationStep, DayOf
    <3>2. l \in Logs \ exhausted
      BY <1>1, <2>2
    <3> QED
      BY <2>2, <3>1, <3>2 DEF DaysHeld
  <2> QED
    BY <2>0, <2>1, <2>2 DEF RotationStep, RotationOf
<1>3. DaysHeld'
  <2> SUFFICES ASSUME MaxLines = 0, Daily, NEW k \in Logs \ exhausted',
                      dailyOpenDate'[k] \in Days
               PROVE  /\ \A a \in dir'[Filename(k)].lines : a[3] <= dailyOpenDate'[k]
                      /\ fileWriter'[k] = "open" =>
                            \A w \in Passed(k)' : W'[w].when <= dailyOpenDate'[k]
    BY <1>1 DEF DaysHeld, Filename
  <2>1. k \in AllLogs /\ Filename(k) \in Names /\ Filename(k)[1] = k /\ k \in Logs \ exhausted
    BY <1>1, ConfigFacts, NameFacts
  <2>2. dailyOpenDate[k] \in Days =>
          /\ \A a \in dir[Filename(k)].lines : a[3] <= dailyOpenDate[k]
          /\ fileWriter[k] = "open" => \A w \in Passed(k) : W[w].when <= dailyOpenDate[k]
    BY <2>1 DEF DaysHeld
  <2>3. ASSUME NEW w \in Callers
        PROVE  /\ W'[w].when = W[w].when /\ W'[w].todo = W[w].todo
               /\ \/ W'[w].pc = W[w].pc
                  \/ W[w].pc = "rotate" /\ Head(W[w].todo) = l
    <3>1. w \in Calls /\ W[w] \in WriteCall
      BY ConfigFacts DEF F_Types, Calls
    <3>2. \/ W'[w] = W[w]
          \/ /\ W[w].pc = "rotate" /\ Head(W[w].todo) = l
             /\ W'[w] = [W[w] EXCEPT !.pc = "write"]
      BY <3>1 DEF RotationStep
    <3>3. [W[w] EXCEPT !.pc = "write"].when = W[w].when
          /\ [W[w] EXCEPT !.pc = "write"].todo = W[w].todo
      BY <3>1 DEF WriteCall
    <3> QED
      BY ONLY <3>2, <3>3
  <2>4. CASE k # l
    <3>1. dailyOpenDate'[k] = dailyOpenDate[k] /\ fileWriter'[k] = fileWriter[k]
      BY <2>1, <2>4 DEF RotationStep, RotationOf, F_Types
    <3>2. dir'[Filename(k)] = dir[Filename(k)]
      BY <2>1, <2>4 DEF RotationStep, RotationOf
    <3>3. Passed(k)' \subseteq Passed(k)
      BY <1>1, <2>3, <2>4 DEF Passed
    <3>4. \A w \in Passed(k) : W'[w].when = W[w].when
      BY <2>3 DEF Passed
    <3> QED
      BY <2>2, <3>1, <3>2, <3>3, <3>4
  <2>5. CASE k = l /\ dailyOpenDate' = [dailyOpenDate EXCEPT ![l] = today]
    <3>1. dailyOpenDate'[k] = today
      BY <1>1, <2>5 DEF F_Types
    <3>2. \A a \in dir'[Filename(k)].lines : a[3] <= today
      BY <2>1 DEF RotationStep, RotationOf
    <3>3. \A w \in Passed(k)' : W'[w].when <= today
      <4> TAKE w \in Passed(k)'
      <4>1. w \in Callers /\ w \in Calls /\ W'[w].pc = "write"
        BY <1>1, ConfigFacts DEF Passed
      <4>2. W[w].pc # "idle" /\ W'[w].when = W[w].when
        BY <2>3, <4>1
      <4> QED
        BY <4>1, <4>2 DEF Writing, Calls
    <3> QED
      BY <3>1, <3>2, <3>3
  <2>6. CASE k = l /\ dailyOpenDate' = dailyOpenDate /\ fileWriter' = [fileWriter EXCEPT ![l] = "closed"]
    <3>1. fileWriter'[k] = "closed"
      BY <1>1, <2>6 DEF F_Types
    <3>2. dir'[Filename(k)].lines \subseteq dir[Filename(k)].lines
      BY <2>6 DEF RotationStep, RotationOf
    <3> QED
      BY <2>2, <2>6, <3>1, <3>2
  <2>7. CASE /\ k = l /\ dailyOpenDate' = dailyOpenDate /\ UNCHANGED <<fileWriter, dir>>
             /\ ~IsFile(Filename(l))
    <3>1. fileWriter[l] # "open"
      BY <1>1, <2>7 DEF OpenFiles
    <3> QED
      BY <2>2, <2>7, <3>1
  <2> QED
    BY <2>4, <2>5, <2>6, <2>7 DEF RotationStep, RotationOf
<1> QED
  BY <1>2, <1>3

\* The timer of the new file.
LEMMA RotationPlanned ==
  ASSUME FileLogConstants, F_Types, NextRotationPlanned, NEW l \in Logs, NEW logTime,
         NEW tm \in [AllLogs -> [Midnights -> Nat]], RotationStep(l, logTime, tm),
         \A k \in AllLogs : k # l => tm[k] = timers[k]
  PROVE  NextRotationPlanned'
<1>0. config' = config
  BY DEF RotationStep
<1> SUFFICES ASSUME NEW k \in up', Daily, k \notin failed',
                    dailyOpenDate'[k] \notin config.Back, dailyOpenDate'[k] + 1 \notin config.Forward
             PROVE  timers'[k][dailyOpenDate'[k] + 1] > 0
  BY <1>0 DEF NextRotationPlanned
<1>1. l \in AllLogs /\ up' = up /\ k \in AllLogs
  BY ConfigFacts DEF RotationStep, F_Types
<1>2. dailyOpenDate \in [AllLogs -> Days \cup {Never}]
  BY DEF F_Types
<1>3. CASE k = l
  <2>1. dailyOpenDate' = [dailyOpenDate EXCEPT ![l] = today] /\ Planned(l, tm)
    BY <1>3 DEF RotationStep, RotationOf
  <2>2. dailyOpenDate'[l] = today
    BY <1>1, <1>2, <2>1
  <2>3. today + 1 \in Midnights /\ NextMidnights = {today + 1}
    BY <1>3, <2>2, MidnightFacts DEF F_Types
  <2>4. timers' = [tm EXCEPT ![l][today + 1] = @ + 1]
    BY <2>1, <2>3 DEF Planned
  <2>5. timers'[l][today + 1] > 0
    BY <1>1, <2>3, <2>4, TimerAdded
  <2> QED
    BY <1>3, <2>2, <2>5
<1>4. CASE k # l
  <2>1. timers'[k] = tm[k] /\ dailyOpenDate'[k] = dailyOpenDate[k]
    <3>1. dailyOpenDate'[k] = dailyOpenDate[k]
      <4>1. dailyOpenDate' = dailyOpenDate \/ dailyOpenDate' = [dailyOpenDate EXCEPT ![l] = today]
        BY DEF RotationStep, RotationOf
      <4> QED
        BY <1>1, <1>2, <1>4, <4>1
    <3>2. CASE timers' = tm
      BY <3>1, <3>2
    <3>3. ASSUME NEW midnight \in NextMidnights, timers' = [tm EXCEPT ![l][midnight] = @ + 1]
          PROVE  timers'[k] = tm[k]
      <4>1. midnight \in Midnights
        BY MidnightFacts DEF F_Types
      <4> QED
        BY <1>1, <1>4, <3>3, <4>1, TimerAdded
    <3> QED
      BY <3>1, <3>2, <3>3 DEF RotationStep, RotationOf, Planned
  <2>2. k \in up /\ k \notin failed
    BY <1>1 DEF RotationStep, RotationOf
  <2> QED
    BY <1>1, <1>4, <2>1, <2>2 DEF NextRotationPlanned
<1> QED
  BY <1>3, <1>4
-----------------------------------------------------------------------------
(* The other steps.                                                          *)

FI_Inv ==
    /\ F_Types /\ Writing /\ OpenFiles /\ LinesKept /\ LimitKept /\ LimitHeld
    /\ NamedByDay /\ DaysHeld /\ NextRotationPlanned

\* The goroutines past the check of a log are finitely many.
LEMMA PassedFinite ==
  ASSUME FileLogConstants, IsFiniteSet(Writers), F_Types, NEW l, NEW S \in SUBSET Passed(l)
  PROVE  /\ IsFiniteSet(S) /\ Cardinality(S) \in Nat /\ Cardinality(Passed(l)) \in Nat
         /\ Cardinality(S) <= Cardinality(Passed(l))
<1>1. IsFiniteSet(Passed(l))
  <2>1. IsFiniteSet(Callers) /\ Passed(l) \subseteq Callers
    BY ConfigFacts DEF Passed
  <2> QED
    BY <2>1, FS_Subset
<1> QED
  BY <1>1, FS_Subset, FS_CardinalityType

\* A step that leaves the files as they are, opens none and lets no call pass.
LEMMA QuietFiles ==
  ASSUME FileLogConstants, IsFiniteSet(Writers), FI_Inv,
         UNCHANGED <<config, dir, maxLinesCurLines, dailyOpenDate, written, expired, orphaned,
                     failed, exhausted>>,
         F_Types', Writing',
         \A l \in AllLogs : fileWriter'[l] # "closed" => fileWriter'[l] = fileWriter[l],
         \A l \in Logs : /\ Passed(l)' \subseteq Passed(l)
                         /\ \A w \in Passed(l)' : W'[w].when = W[w].when,
         NextRotationPlanned'
  PROVE  FI_Inv'
<1>1. UNCHANGED <<MaxLines, Callers, Logs, Most>> /\ Logs \subseteq AllLogs
  BY ConfigFacts DEF FI_Inv, MaxLines, Callers, Logs, Most
<1>2. OpenFiles'
  BY <1>1 DEF FI_Inv, OpenFiles, IsFile, Filename, NoFile
<1>3. LinesKept'
  BY DEF FI_Inv, LinesKept, Kept
<1>4. LimitKept' /\ NamedByDay'
  BY <1>1 DEF FI_Inv, LimitKept, NamedByDay
<1>5. LimitHeld'
  <2> SUFFICES ASSUME MaxLines > 0, NEW l \in Logs \ failed
               PROVE  /\ maxLinesCurLines[l] + Cardinality(Passed(l)') <= Most
                      /\ fileWriter'[l] = "open" =>
                            Cardinality(dir[Filename(l)].lines) <= maxLinesCurLines[l]
    BY <1>1 DEF LimitHeld, Filename
  <2>1. /\ maxLinesCurLines[l] + Cardinality(Passed(l)) <= Most
        /\ fileWriter[l] = "open" => Cardinality(dir[Filename(l)].lines) <= maxLinesCurLines[l]
    BY DEF FI_Inv, LimitHeld
  <2>2. /\ Cardinality(Passed(l)') \in Nat /\ Cardinality(Passed(l)) \in Nat
        /\ Cardinality(Passed(l)') <= Cardinality(Passed(l))
    BY PassedFinite DEF FI_Inv
  <2>3. maxLinesCurLines[l] \in Nat /\ Most \in Int
    BY <1>1, ConfigFacts DEF FI_Inv, F_Types, Most
  <2>4. fileWriter'[l] = "open" => fileWriter[l] = "open"
    BY <1>1
  <2> QED
    BY <2>1, <2>2, <2>3, <2>4
<1>6. DaysHeld'
  <2> SUFFICES ASSUME MaxLines = 0, Daily, NEW l \in Logs \ exhausted,
                      dailyOpenDate'[l] \in Days
               PROVE  /\ \A a \in dir[Filename(l)].lines : a[3] <= dailyOpenDate[l]
                      /\ fileWriter'[l] = "open" =>
                            \A w \in Passed(l)' : W'[w].when <= dailyOpenDate[l]
    BY <1>1 DEF DaysHeld, Filename
  <2>1. /\ \A a \in dir[Filename(l)].lines : a[3] <= dailyOpenDate[l]
        /\ fileWriter[l] = "open" => \A w \in Passed(l) : W[w].when <= dailyOpenDate[l]
    BY DEF FI_Inv, DaysHeld
  <2>2. fileWriter'[l] = "open" => fileWriter[l] = "open"
    BY <1>1
  <2> QED
    BY <2>1, <2>2
<1> QED
  BY <1>2, <1>3, <1>4, <1>5, <1>6 DEF FI_Inv

\* A step that leaves everything the invariant speaks of as it is.
LEMMA SameFiles ==
  ASSUME FileLogConstants, IsFiniteSet(Writers), FI_Inv,
         UNCHANGED <<config, today, dir, fileWriter, maxLinesCurLines, dailyOpenDate, timers,
                     up, destroyed, W, msgs, troubles, written, expired, orphaned, failed,
                     exhausted>>
  PROVE  FI_Inv'
<1>1. UNCHANGED <<MaxLines, Callers, Logs, Most, Todos>>
  BY DEF MaxLines, Callers, Logs, Most, Todos
<1>2. F_Types' /\ Writing'
  BY <1>1 DEF FI_Inv, F_Types, Writing
<1>3. \A l \in Logs : /\ Passed(l)' \subseteq Passed(l)
                      /\ \A v \in Passed(l)' : W'[v].when = W[v].when
  BY <1>1 DEF Passed
<1>4. NextRotationPlanned'
  BY DEF FI_Inv, NextRotationPlanned
<1> QED
  BY <1>2, <1>3, <1>4, QuietFiles

\* Types that most steps leave alone.
LEMMA KeepsTypes ==
  ASSUME FileLogConstants, F_Types,
         UNCHANGED <<config, today, dir, fileWriter, maxLinesCurLines, dailyOpenDate, timers,
                     up, destroyed, troubles, written, failed, exhausted>>,
         W' \in [Calls -> WriteCall], msgs' \in 0..MaxMsgs
  PROVE  F_Types'
<1>1. Logs' = Logs
  BY DEF Logs
<1> QED
  BY <1>1 DEF F_Types, Calls

\* One call changes.
LEMMA OneCall ==
  ASSUME FileLogConstants, F_Types, NEW w \in Callers, NEW r \in WriteCall,
         W' = [W EXCEPT ![w] = r]
  PROVE  /\ w \in Calls /\ W[w] \in WriteCall /\ W' \in [Calls -> WriteCall]
         /\ W'[w] = r /\ \A v \in Calls \ {w} : W'[v] = W[v]
<1>1. w \in Calls /\ W \in [Calls -> WriteCall]
  BY ConfigFacts DEF F_Types, Calls
<1> QED
  BY <1>1

\* A message is logged: its call begins.
LEMMA WriteMsgInv ==
  ASSUME FileLogConstants, IsFiniteSet(Writers), FI_Inv, NEW w \in Callers, WriteMsg(w)
  PROVE  FI_Inv'
<1>1. PICK todo \in {<<full>>} \cup {<<full, l>> : l \in config.Separate},
           when \in {today} \cup {d \in Days : config.Async /\ d = today - 1} :
        W' = [W EXCEPT ![w] = [pc |-> "check", msg |-> msgs + 1, when |-> when, todo |-> todo]]
  BY DEF WriteMsg
<1> DEFINE r == [pc |-> "check", msg |-> msgs + 1, when |-> when, todo |-> todo]
<1>2. /\ msgs < MaxMsgs /\ up = Logs /\ msgs' = msgs + 1
      /\ UNCHANGED <<config, today, dir, fileWriter, maxLinesCurLines, dailyOpenDate, timers,
                     up, destroyed, troubles, written, failed, exhausted, expired, orphaned>>
  BY DEF WriteMsg, current, goroutines, ledger
<1>3. msgs' \in 1..MaxMsgs /\ msgs \in Nat /\ today \in Days
  BY <1>2 DEF FI_Inv, F_Types, FileLogConstants
<1>4. todo \in Todos /\ todo \in Seq(AllLogs) /\ when \in Days /\ when <= today
  <2>1. todo \in Todos /\ todo \in Seq(AllLogs)
    <3>1. full \in Logs /\ full \in AllLogs /\ config.Separate \subseteq AllLogs
      BY ConfigFacts DEF FI_Inv, AllLogs
    <3>2. CASE todo = <<full>>
      BY <3>1, <3>2 DEF Todos
    <3>3. ASSUME NEW l \in config.Separate, todo = <<full, l>> PROVE todo \in Todos /\ todo \in Seq(AllLogs)
      BY <3>1, <3>3 DEF Todos
    <3> QED
      BY <3>2, <3>3
  <2>2. when \in Days /\ when <= today
    BY <1>3 DEF Days
  <2> QED
    BY <2>1, <2>2
<1>5. r \in WriteCall /\ r.pc = "check" /\ r.msg = msgs' /\ r.when = when /\ r.todo = todo
  BY <1>2, <1>3, <1>4 DEF WriteCall
<1> HIDE DEF r
<1>6. /\ w \in Calls /\ W' \in [Calls -> WriteCall]
      /\ W'[w] = r /\ \A v \in Calls \ {w} : W'[v] = W[v]
  BY <1>1, <1>5, OneCall DEF r, FI_Inv
<1>7. F_Types'
  BY <1>2, <1>3, <1>6, KeepsTypes DEF FI_Inv
<1>8. Writing'
  <2>1. /\ Logs' = Logs /\ Todos' = Todos
    BY <1>2 DEF Todos, Logs
  <2>2. ASSUME NEW v \in Calls, W'[v].pc # "idle"
        PROVE  /\ up' = Logs /\ W'[v].msg \in 1..msgs' /\ W'[v].when <= today' /\ W'[v].todo \in Todos
    <3>1. CASE v = w
      BY <1>2, <1>3, <1>4, <1>5, <1>6, <3>1
    <3>2. CASE v # w
      BY <1>2, <1>3, <1>6, <2>2, <3>2 DEF FI_Inv, Writing, Calls
    <3> QED
      BY <3>1, <3>2
  <2> QED
    BY <2>1, <2>2 DEF Writing, Calls
<1>9. \A l \in Logs : /\ Passed(l)' \subseteq Passed(l)
                      /\ \A v \in Passed(l)' : W'[v].when = W[v].when
  <2> TAKE l \in Logs
  <2>1. Callers' = Callers /\ Callers \subseteq Calls
    BY <1>2, ConfigFacts DEF Callers, FI_Inv
  <2>2. \A v \in Passed(l)' : v # w
    BY <1>5, <1>6 DEF Passed
  <2> QED
    BY <1>6, <2>1, <2>2 DEF Passed
<1>10. NextRotationPlanned'
  BY <1>2 DEF FI_Inv, NextRotationPlanned
<1> QED
  BY <1>2, <1>7, <1>8, <1>9, <1>10, QuietFiles

\* What a call that is not idle is about.
LEMMA CallFacts ==
  ASSUME FileLogConstants, F_Types, Writing, NEW w \in Calls, W[w].pc # "idle"
  PROVE  /\ up = Logs /\ W[w] \in WriteCall /\ W[w].msg \in 1..MaxMsgs /\ W[w].when \in 0..today
         /\ Head(W[w].todo) \in Logs
<1>1. W[w] \in WriteCall /\ msgs \in 0..MaxMsgs /\ today \in Days
  BY DEF F_Types, Calls
<1>2. up = Logs /\ W[w].msg \in 1..msgs /\ W[w].when <= today /\ W[w].todo \in Todos
  BY DEF Writing, Calls
<1>3. W[w].when \in 0..today
  BY <1>1, <1>2 DEF WriteCall, Days
<1>4. Head(W[w].todo) \in Logs
  <2>1. PICK l \in Logs : W[w].todo = <<l>> \/ W[w].todo = <<full, l>>
    BY <1>2 DEF Todos, Logs
  <2>2. full \in Logs
    BY ConfigFacts
  <2>3. Head(<<l>>) = l /\ Head(<<full, l>>) = full
    OBVIOUS
  <2> QED
    BY <2>1, <2>2, <2>3
<1> QED
  BY <1>1, <1>2, <1>3, <1>4

\* A call that waits: only its place changes.
LEMMA MovesOn ==
  ASSUME FileLogConstants, F_Types, Writing, NEW w \in Callers, NEW pc \in {"rotate", "write"},
         W[w].pc # "idle", W' = [W EXCEPT ![w].pc = pc],
         UNCHANGED <<config, today, up, msgs>>
  PROVE  /\ w \in Calls /\ W' \in [Calls -> WriteCall]
         /\ W'[w] = [W[w] EXCEPT !.pc = pc]
         /\ W'[w].pc = pc /\ W'[w].when = W[w].when /\ W'[w].todo = W[w].todo
         /\ \A v \in Calls \ {w} : W'[v] = W[v]
         /\ Writing'
<1> DEFINE r == [W[w] EXCEPT !.pc = pc]
<1>1. w \in Calls /\ W[w] \in WriteCall
  BY ConfigFacts DEF F_Types, Calls
<1>2. r \in WriteCall /\ r.pc = pc /\ r.when = W[w].when /\ r.todo = W[w].todo /\ r.msg = W[w].msg
  BY <1>1 DEF WriteCall
<1>3. W' = [W EXCEPT ![w] = r]
  OBVIOUS
<1> HIDE DEF r
<1>4. /\ W' \in [Calls -> WriteCall]
      /\ W'[w] = r /\ \A v \in Calls \ {w} : W'[v] = W[v]
  BY <1>2, <1>3, OneCall
<1>5. Writing'
  <2>1. /\ Logs' = Logs /\ Todos' = Todos
    BY DEF Todos, Logs
  <2>2. ASSUME NEW v \in Calls, W'[v].pc # "idle"
        PROVE  /\ W[v].pc # "idle" /\ W'[v].msg = W[v].msg /\ W'[v].when = W[v].when
               /\ W'[v].todo = W[v].todo
    BY <1>2, <1>4, <2>2
  <2> QED
    BY <2>1, <2>2 DEF Writing, Calls
<1> QED
  BY <1>1, <1>2, <1>4, <1>5 DEF r

\* A call that finds no rotation due, or none left to do, goes on to write.
LEMMA PassInv ==
  ASSUME FileLogConstants, IsFiniteSet(Writers), FI_Inv, NEW w \in Callers,
         W[w].pc \in {"check", "rotate"}, ~needRotate(Head(W[w].todo), W[w].when),
         W' = [W EXCEPT ![w].pc = "write"],
         UNCHANGED <<config, today, dir, current, timers, up, destroyed, bounds, ledger>>
  PROVE  FI_Inv'
<1>1. UNCHANGED <<config, today, dir, fileWriter, maxLinesCurLines, dailyOpenDate, timers,
                  up, destroyed, msgs, troubles, written, failed, exhausted, expired, orphaned>>
  BY DEF current, bounds, ledger
<1>2. w \in Calls /\ Head(W[w].todo) \in Logs
  BY CallFacts, ConfigFacts DEF FI_Inv
<1> PICK l \in Logs : Head(W[w].todo) = l
  BY <1>2
<1>0. Head(W[w].todo) = l /\ l \in Logs
  OBVIOUS
<1>3. /\ W' \in [Calls -> WriteCall]
      /\ W'[w].pc = "write" /\ W'[w].when = W[w].when /\ W'[w].todo = W[w].todo
      /\ \A v \in Calls \ {w} : W'[v] = W[v]
      /\ Writing'
  BY <1>1, MovesOn DEF FI_Inv
<1>4. /\ UNCHANGED <<MaxLines, Callers, Logs, Most>> /\ Callers \subseteq Calls
      /\ MaxLines \in Nat /\ IsFiniteSet(Callers) /\ Cardinality(Callers) \in Nat
  BY <1>1, ConfigFacts DEF FI_Inv, MaxLines, Callers, Logs, Most
<1>5. F_Types'
  BY <1>1, <1>3, KeepsTypes DEF FI_Inv, F_Types
<1>6. /\ OpenFiles' /\ LinesKept' /\ LimitKept' /\ NamedByDay' /\ NextRotationPlanned'
  <2>1. OpenFiles' /\ LinesKept'
    BY <1>1, <1>4 DEF FI_Inv, OpenFiles, LinesKept, Kept, IsFile, Filename, NoFile
  <2>2. LimitKept' /\ NamedByDay' /\ NextRotationPlanned'
    BY <1>1, <1>4 DEF FI_Inv, LimitKept, NamedByDay, NextRotationPlanned
  <2> QED
    BY <2>1, <2>2
<1>7. \A k \in Logs : k # l => Passed(k)' = Passed(k)
  <2> TAKE k \in Logs
  <2>1. ASSUME k # l, NEW v \in Callers
        PROVE  (W'[v].pc = "write" /\ Head(W'[v].todo) = k)
                 <=> (W[v].pc = "write" /\ Head(W[v].todo) = k)
    <3>1. CASE v = w
      BY <1>0, <1>3, <2>1, <3>1
    <3>2. CASE v # w
      BY <1>3, <1>4, <3>2
    <3> QED
      BY <3>1, <3>2
  <2> QED
    BY <1>4, <2>1 DEF Passed
<1>8. LimitHeld'
  <2> SUFFICES ASSUME MaxLines > 0, NEW k \in Logs \ failed
               PROVE  /\ maxLinesCurLines[k] + Cardinality(Passed(k)') <= Most
                      /\ fileWriter[k] = "open" =>
                            Cardinality(dir[Filename(k)].lines) <= maxLinesCurLines[k]
    BY <1>1, <1>4 DEF LimitHeld, Filename
  <2>1. /\ maxLinesCurLines[k] + Cardinality(Passed(k)) <= Most
        /\ fileWriter[k] = "open" => Cardinality(dir[Filename(k)].lines) <= maxLinesCurLines[k]
    BY DEF FI_Inv, LimitHeld
  <2>2. CASE k # l
    BY <1>7, <2>1, <2>2
  <2>3. CASE k = l
    <3>1. maxLinesCurLines[l] < MaxLines
      <4>1. ~ (MaxLines > 0 /\ maxLinesCurLines[l] >= MaxLines)
        BY <1>0 DEF needRotate
      <4>2. maxLinesCurLines[l] \in Nat
        BY <1>0, ConfigFacts DEF FI_Inv, F_Types
      <4> QED
        BY <1>4, <4>1, <4>2
    <3>2. Passed(l)' \subseteq Callers
      BY <1>4 DEF Passed
    <3>3. Cardinality(Passed(l)') <= Cardinality(Callers) /\ Cardinality(Passed(l)') \in Nat
      BY <1>4, <3>2, FS_Subset, FS_CardinalityType
    <3>4. maxLinesCurLines[l] \in Nat
      BY <1>0, ConfigFacts DEF FI_Inv, F_Types
    <3>5. maxLinesCurLines[l] + Cardinality(Passed(l)') <= Most
      <4> DEFINE lines == maxLinesCurLines[l]
                 passed == Cardinality(Passed(l)')
                 all == Cardinality(Callers)
      <4>1. /\ lines \in Nat /\ passed \in Nat /\ all \in Nat /\ MaxLines \in Nat
            /\ lines < MaxLines /\ passed <= all
        BY <1>4, <3>1, <3>3, <3>4
      <4> HIDE DEF lines, passed, all
      <4>2. lines + passed <= MaxLines + all - 1
        BY <4>1
      <4> QED
        BY <4>2 DEF Most, lines, passed, all
    <3> QED
      BY <2>1, <2>3, <3>5
  <2> QED
    BY <2>2, <2>3
<1>9. DaysHeld'
  <2> SUFFICES ASSUME MaxLines = 0, Daily, NEW k \in Logs \ exhausted,
                      dailyOpenDate[k] \in Days
               PROVE  /\ \A a \in dir[Filename(k)].lines : a[3] <= dailyOpenDate[k]
                      /\ fileWriter[k] = "open" =>
                            \A v \in Passed(k)' : W'[v].when <= dailyOpenDate[k]
    BY <1>1, <1>4 DEF DaysHeld, Filename
  <2>1. /\ \A a \in dir[Filename(k)].lines : a[3] <= dailyOpenDate[k]
        /\ fileWriter[k] = "open" => \A v \in Passed(k) : W[v].when <= dailyOpenDate[k]
    BY DEF FI_Inv, DaysHeld
  <2>2. ASSUME fileWriter[k] = "open", NEW v \in Passed(k)'
        PROVE  W'[v].when <= dailyOpenDate[k]
    <3>1. v \in Callers /\ v \in Calls /\ W'[v].pc = "write" /\ Head(W'[v].todo) = k
      BY <1>4 DEF Passed
    <3>2. CASE v = w
      <4>1. k = l
        BY <1>0, <1>3, <3>1, <3>2
      <4>2. W[w].when = dailyOpenDate[l]
        BY <1>0 DEF needRotate
      <4>3. dailyOpenDate[l] \in Nat
        BY <4>1 DEF Days
      <4> QED
        BY <1>3, <3>2, <4>1, <4>2, <4>3
    <3>3. CASE v # w
      <4>1. W'[v] = W[v]
        BY <1>3, <3>1, <3>3
      <4>2. v \in Passed(k)
        BY <3>1, <4>1 DEF Passed
      <4> QED
        BY <2>1, <2>2, <4>1, <4>2
    <3> QED
      BY <3>2, <3>3
  <2> QED
    BY <2>1, <2>2
<1> QED
  BY <1>3, <1>5, <1>6, <1>8, <1>9 DEF FI_Inv

\* A call finds out whether to rotate (file.go:123-132).
LEMMA CheckInv ==
  ASSUME FileLogConstants, IsFiniteSet(Writers), FI_Inv, NEW w \in Callers, Check(w)
  PROVE  FI_Inv'
<1>1. /\ W[w].pc = "check"
      /\ UNCHANGED <<config, today, dir, current, timers, up, destroyed, bounds, ledger>>
  BY DEF Check, goroutines
<1>2. CASE needRotate(Head(W[w].todo), W[w].when)
  <2>1. W' = [W EXCEPT ![w].pc = "rotate"]
    BY <1>2 DEF Check
  <2>2. UNCHANGED <<config, today, dir, fileWriter, maxLinesCurLines, dailyOpenDate, timers,
                    up, destroyed, msgs, troubles, written, failed, exhausted, expired, orphaned>>
    BY <1>1 DEF current, bounds, ledger
  <2>3. /\ W' \in [Calls -> WriteCall]
        /\ W'[w].pc = "rotate"
        /\ \A v \in Calls \ {w} : W'[v] = W[v]
        /\ Writing'
    BY <1>1, <2>1, <2>2, MovesOn DEF FI_Inv
  <2>4. F_Types'
    BY <2>2, <2>3, KeepsTypes DEF FI_Inv, F_Types
  <2>5. \A l \in Logs : /\ Passed(l)' \subseteq Passed(l)
                        /\ \A v \in Passed(l)' : W'[v].when = W[v].when
    <3> TAKE l \in Logs
    <3>1. Callers' = Callers /\ Callers \subseteq Calls
      BY <2>2, ConfigFacts DEF Callers, FI_Inv
    <3>2. \A v \in Passed(l)' : v # w
      BY <2>3 DEF Passed
    <3> QED
      BY <2>3, <3>1, <3>2 DEF Passed
  <2>6. NextRotationPlanned'
    BY <2>2 DEF FI_Inv, NextRotationPlanned
  <2> QED
    BY <2>2, <2>3, <2>4, <2>5, <2>6, QuietFiles
<1>3. CASE ~needRotate(Head(W[w].todo), W[w].when)
  <2>1. W' = [W EXCEPT ![w].pc = "write"]
    BY <1>3 DEF Check
  <2> QED
    BY <1>1, <1>3, <2>1, PassInv
<1> QED
  BY <1>2, <1>3

\* A rotation is counted as trouble while that is bounded.
LEMMA RotationTroubles ==
  ASSUME FileLogConstants, troubles \in 0..MaxTroubles, NEW l, NEW logTime, NEW tm,
         doRotate(l, logTime, tm)
  PROVE  troubles' \in 0..MaxTroubles
<1>1. MaxTroubles \in Nat
  BY DEF FileLogConstants
<1>2. ASSUME NEW dir1, NEW closed, NEW error, Restarts(l, dir1, closed, error, tm),
             error => troubles < MaxTroubles
      PROVE  troubles' \in 0..MaxTroubles
  <2>1. \/ troubles' = troubles
        \/ troubles' = troubles + 1 /\ troubles < MaxTroubles
    BY <1>2 DEF Restarts, startLoggerFails
  <2> QED
    BY <1>1, <2>1
<1>3. CASE troubles' = troubles
  BY <1>3
<1> QED
  BY <1>2, <1>3 DEF doRotate

\* A rotation keeps the invariant.
LEMMA RotationInv ==
  ASSUME FileLogConstants, IsFiniteSet(Writers), FI_Inv, NEW l \in Logs, NEW logTime,
         NEW tm \in [AllLogs -> [Midnights -> Nat]], RotationStep(l, logTime, tm),
         \A k \in AllLogs : k # l => tm[k] = timers[k]
  PROVE  FI_Inv'
<1>1. F_Types' /\ Writing' /\ OpenFiles'
  BY RotationTypes DEF FI_Inv
<1>2. LinesKept'
  BY RotationKept DEF FI_Inv
<1>3. LimitKept' /\ LimitHeld'
  BY RotationLimit DEF FI_Inv
<1>4. NamedByDay' /\ DaysHeld'
  BY <1>1, RotationDays DEF FI_Inv
<1>5. NextRotationPlanned'
  BY RotationPlanned DEF FI_Inv
<1> QED
  BY <1>1, <1>2, <1>3, <1>4, <1>5 DEF FI_Inv

\* needRotate tells that there is a reason to rotate at all.
LEMMA Reason ==
  ASSUME FileLogConstants, NEW l, NEW day, needRotate(l, day)
  PROVE  MaxLines > 0 \/ Daily
BY DEF needRotate

\* A call rotates.
LEMMA RotateInv ==
  ASSUME FileLogConstants, IsFiniteSet(Writers), FI_Inv, NEW w \in Callers, Rotate(w)
  PROVE  FI_Inv'
<1>1. /\ W[w].pc = "rotate" /\ W' = [W EXCEPT ![w].pc = "write"]
      /\ UNCHANGED <<config, today, up, destroyed, msgs, written, expired, orphaned>>
  BY DEF Rotate
<1>2. w \in Calls /\ Head(W[w].todo) \in Logs /\ W[w].when \in 0..today
  BY <1>1, CallFacts, ConfigFacts DEF FI_Inv
<1> PICK l \in Logs, day \in 0..today : l = Head(W[w].todo) /\ day = W[w].when
  BY <1>2
<1>3. CASE needRotate(l, day)
  <2>1. doRotate(l, day, timers)
    BY <1>3 DEF Rotate
  <2>2. RotationOf(l, day, timers)
    BY <1>2, <2>1, RotationFacts DEF FI_Inv
  <2>3. troubles' \in 0..MaxTroubles
    BY <2>1, RotationTroubles DEF FI_Inv, F_Types
  <2>4. MaxLines > 0 \/ Daily
    BY <1>3, Reason
  <2>5. /\ W' \in [Calls -> WriteCall]
        /\ W'[w] = [W[w] EXCEPT !.pc = "write"]
        /\ \A v \in Calls \ {w} : W'[v] = W[v]
    BY <1>1, MovesOn DEF FI_Inv
  <2>6. RotationStep(l, day, timers)
    <3>1. \A v \in Calls :
            \/ W'[v] = W[v]
            \/ /\ W[v].pc = "rotate" /\ Head(W[v].todo) = l
               /\ W'[v] = [W[v] EXCEPT !.pc = "write"]
      BY <1>1, <2>5
    <3> QED
      BY <1>1, <2>2, <2>3, <2>4, <2>5, <3>1 DEF RotationStep
  <2>7. timers \in [AllLogs -> [Midnights -> Nat]]
    BY DEF FI_Inv, F_Types
  <2> QED
    BY <1>2, <2>6, <2>7, RotationInv
<1>4. CASE ~needRotate(l, day)
  <2>1. UNCHANGED <<dir, current, goroutines, troubles, failed, exhausted>>
    BY <1>4 DEF Rotate
  <2> QED
    BY <1>1, <1>4, <2>1, PassInv DEF goroutines, bounds, ledger
<1> QED
  BY <1>3, <1>4

\* The timer of midnight fires (file.go:192-204).
LEMMA dailyRotateInv ==
  ASSUME FileLogConstants, IsFiniteSet(Writers), FI_Inv, NEW l \in Logs, dailyRotate(l)
  PROVE  FI_Inv'
<1>1. PICK d \in 0..today :
        /\ timers[l][d] > 0
        /\ \/ /\ needRotate(l, today)
              /\ doRotate(l, today, [timers EXCEPT ![l][d] = @ - 1])
           \/ /\ ~needRotate(l, today)
              /\ timers' = [timers EXCEPT ![l][d] = @ - 1]
              /\ UNCHANGED <<dir, current, deleters, troubles, failed, exhausted>>
        /\ UNCHANGED <<config, today, up, destroyed, W, msgs, written, expired, orphaned>>
  BY DEF dailyRotate
<1> DEFINE tm == [timers EXCEPT ![l][d] = @ - 1]
<1>2. today \in 0..LastDay /\ LastDay \in Nat /\ l \in AllLogs
  BY ConfigFacts DEF FI_Inv, F_Types, Days, FileLogConstants
<1>3. d \in Midnights /\ timers \in [AllLogs -> [Midnights -> Nat]]
  <2>1. d \in Midnights
    BY <1>2 DEF Midnights
  <2> QED
    BY <2>1 DEF FI_Inv, F_Types
<1>4. /\ tm \in [AllLogs -> [Midnights -> Nat]]
      /\ \A k \in AllLogs : k # l => tm[k] = timers[k]
      /\ \A e \in Midnights : e # d => tm[l][e] = timers[l][e]
  <2>1. timers[l] \in [Midnights -> Nat] /\ timers[l][d] - 1 \in Nat
    <3>1. timers[l] \in [Midnights -> Nat]
      BY <1>2, <1>3
    <3>2. timers[l][d] \in Nat /\ timers[l][d] > 0
      BY <1>1, <1>3, <3>1
    <3> QED
      BY <3>1, <3>2
  <2>2. [timers[l] EXCEPT ![d] = timers[l][d] - 1] \in [Midnights -> Nat]
    BY <1>3, <2>1
  <2>3. tm = [timers EXCEPT ![l] = [timers[l] EXCEPT ![d] = timers[l][d] - 1]]
    OBVIOUS
  <2> HIDE DEF tm
  <2> QED
    BY <1>2, <1>3, <2>1, <2>2, <2>3
<1> HIDE DEF tm
<1>5. W' \in [Calls -> WriteCall] /\ W' = W
  BY <1>1 DEF FI_Inv, F_Types, Calls
<1>6. CASE needRotate(l, today)
  <2>1. doRotate(l, today, tm)
    BY <1>1, <1>6 DEF tm
  <2>2. RotationOf(l, today, tm)
    BY <1>2, <2>1, RotationFacts DEF FI_Inv
  <2>3. troubles' \in 0..MaxTroubles
    BY <2>1, RotationTroubles DEF FI_Inv, F_Types
  <2>4. MaxLines > 0 \/ Daily
    BY <1>6, Reason
  <2>5. RotationStep(l, today, tm)
    BY <1>1, <1>5, <2>2, <2>3, <2>4 DEF RotationStep
  <2> QED
    BY <1>4, <2>5, RotationInv
<1>7. CASE ~needRotate(l, today)
  <2>1. /\ timers' = tm
        /\ UNCHANGED <<config, today, dir, fileWriter, maxLinesCurLines, dailyOpenDate, up,
                       destroyed, W, msgs, troubles, written, expired, orphaned, failed,
                       exhausted>>
    BY <1>1, <1>7 DEF tm, current
  <2>2. F_Types' /\ Writing'
    <3>1. Logs' = Logs /\ Todos' = Todos
      BY <2>1 DEF Logs, Todos
    <3> QED
      BY <1>4, <2>1, <3>1 DEF FI_Inv, F_Types, Writing
  <2>3. \A k \in Logs : /\ Passed(k)' \subseteq Passed(k)
                        /\ \A v \in Passed(k)' : W'[v].when = W[v].when
    BY <2>1 DEF Passed, Callers
  <2>4. NextRotationPlanned'
    <3> SUFFICES ASSUME NEW k \in up, Daily, k \notin failed,
                        dailyOpenDate[k] \notin config.Back,
                        dailyOpenDate[k] + 1 \notin config.Forward
                 PROVE  tm[k][dailyOpenDate[k] + 1] > 0
      BY <2>1 DEF NextRotationPlanned
    <3>1. timers[k][dailyOpenDate[k] + 1] > 0
      BY DEF FI_Inv, NextRotationPlanned
    <3>2. k \in AllLogs
      BY ConfigFacts DEF FI_Inv, F_Types
    <3>3. CASE k # l
      BY <1>4, <3>1, <3>2, <3>3
    <3>4. CASE k = l
      <4>1. dailyOpenDate[l] = today
        BY <1>7 DEF needRotate
      <4>2. today + 1 \in Midnights /\ today + 1 # d
        BY <1>2 DEF Midnights
      <4> QED
        BY <1>4, <3>1, <3>4, <4>1, <4>2
    <3> QED
      BY <3>3, <3>4
  <2> QED
    BY <2>1, <2>2, <2>3, <2>4, QuietFiles
<1> QED
  BY <1>6, <1>7

\* A file is opened for the first time, when no call is in progress.
LEMMA InitLogInv ==
  ASSUME FileLogConstants, IsFiniteSet(Writers), FI_Inv, NEW l \in Logs, InitLog(l)
  PROVE  FI_Inv'
<1> DEFINE cur == Filename(l)
           new == [lines |-> {}, mtime |-> today]
<1>1. /\ l \notin up /\ up' = up \cup {l}
      /\ dir' = IF dir[cur] # NoFile THEN dir ELSE [dir EXCEPT ![cur] = new]
      /\ fileWriter' = [fileWriter EXCEPT ![l] = "open"]
      /\ maxLinesCurLines' = [maxLinesCurLines EXCEPT ![l] = Cardinality(dir'[cur].lines)]
      /\ dailyOpenDate' = [dailyOpenDate EXCEPT ![l] = today]
      /\ Planned(l, timers)
      /\ UNCHANGED <<config, today, destroyed, W, msgs, troubles, written, expired, orphaned,
                     failed, exhausted>>
  BY DEF InitLog, startLogger, createLogFile, initFd, Planned, bounds, ledger
<1>2. /\ today \in 0..LastDay /\ LastDay \in Nat
      /\ l \in AllLogs /\ cur \in Names /\ cur[1] = l /\ cur[2] = NoDate
  <2>1. today \in 0..LastDay /\ LastDay \in Nat
    BY DEF FI_Inv, F_Types, Days, FileLogConstants
  <2>2. l \in AllLogs
    BY ConfigFacts DEF FI_Inv
  <2> QED
    BY <2>1, <2>2, NameFacts
<1>3. /\ dir \in [Names -> [lines : SUBSET Lines, mtime : -1..LastDay]]
      /\ \A n \in Names : dir[n].mtime <= today /\ \A a \in dir[n].lines : a[3] <= today
      /\ \A n \in Names : IsFiniteSet(dir[n].lines)
  BY DEF FI_Inv, F_Types
<1>4. /\ UNCHANGED <<MaxLines, Callers, Logs, Most, Todos>>
      /\ Logs \subseteq AllLogs /\ Callers \subseteq Calls
  BY <1>1, ConfigFacts DEF FI_Inv, MaxLines, Callers, Logs, Most, Todos
<1>5. /\ new \in [lines : SUBSET Lines, mtime : -1..LastDay]
      /\ new # NoFile /\ new.lines = NoFile.lines /\ new.mtime = today
  BY <1>2 DEF NoFile
<1> HIDE DEF cur, new
<1>6. /\ dir' \in [Names -> [lines : SUBSET Lines, mtime : -1..LastDay]]
      /\ dir'[cur] # NoFile
      /\ \A n \in Names : dir'[n].lines = dir[n].lines
      /\ \A n \in Names : n # cur => dir'[n] = dir[n]
      /\ \A n \in Names : dir'[n].mtime <= today
  BY ONLY <1>1, <1>2, <1>3, <1>5
<1>7. /\ fileWriter \in [AllLogs -> {"open", "closed", "unlinked"}]
      /\ maxLinesCurLines \in [AllLogs -> Nat] /\ dailyOpenDate \in [AllLogs -> Days \cup {Never}]
      /\ timers \in [AllLogs -> [Midnights -> Nat]] /\ today \in Days
  BY DEF FI_Inv, F_Types
<1>8. Cardinality(dir'[cur].lines) \in Nat
  BY <1>2, <1>3, <1>6, FS_CardinalityType
<1>9. /\ fileWriter' \in [AllLogs -> {"open", "closed", "unlinked"}]
      /\ maxLinesCurLines' \in [AllLogs -> Nat] /\ dailyOpenDate' \in [AllLogs -> Days \cup {Never}]
      /\ fileWriter'[l] = "open" /\ dailyOpenDate'[l] = today
      /\ maxLinesCurLines'[l] = Cardinality(dir[cur].lines)
      /\ \A k \in AllLogs : k # l => /\ fileWriter'[k] = fileWriter[k]
                                     /\ maxLinesCurLines'[k] = maxLinesCurLines[k]
                                     /\ dailyOpenDate'[k] = dailyOpenDate[k]
  BY ONLY <1>1, <1>2, <1>6, <1>7, <1>8
<1>10. /\ timers' \in [AllLogs -> [Midnights -> Nat]]
       /\ Daily /\ today \notin config.Back /\ today + 1 \notin config.Forward =>
             timers'[l][today + 1] > 0
       /\ \A k \in AllLogs : k # l => timers'[k] = timers[k]
  <2>1. CASE ~Daily
    BY <1>1, <1>7, <2>1 DEF Planned
  <2>2. CASE Daily
    <3>1. PICK midnight \in NextMidnights : timers' = [timers EXCEPT ![l][midnight] = @ + 1]
      BY <1>1, <2>2 DEF Planned
    <3>2. /\ midnight \in Midnights
          /\ today \notin config.Back /\ today + 1 \notin config.Forward => midnight = today + 1
      BY <1>7, MidnightFacts
    <3> QED
      BY <1>2, <1>7, <3>1, <3>2, TimerAdded
  <2> QED
    BY <2>1, <2>2
<1>11. \A w \in Calls : W[w].pc = "idle"
  BY <1>1 DEF FI_Inv, Writing, Calls
<1>12. F_Types'
  <2>1. /\ up' \subseteq Logs' /\ failed' \subseteq Logs' /\ exhausted' \subseteq failed'
        /\ today' \in Days /\ config' \in Configs
        /\ W' \in [Writers \cup {Queue} -> WriteCall]
        /\ msgs' \in 0..MaxMsgs /\ troubles' \in 0..MaxTroubles
        /\ written' \subseteq Lines /\ destroyed' \in BOOLEAN
    BY <1>1, <1>4 DEF FI_Inv, F_Types
  <2>2. /\ \A n \in Names : dir'[n].mtime <= today' /\ \A a \in dir'[n].lines : a[3] <= today'
        /\ \A n \in Names : IsFiniteSet(dir'[n].lines)
    BY <1>1, <1>3, <1>6
  <2> QED
    BY <1>6, <1>9, <1>10, <2>1, <2>2 DEF F_Types
<1>13. Writing'
  BY <1>1, <1>11 DEF Writing, Calls
<1>14. OpenFiles'
  <2> SUFFICES ASSUME NEW k \in AllLogs
               PROVE  /\ fileWriter'[k] = "open" => k \in Logs /\ dir'[Filename(k)] # NoFile
                      /\ fileWriter'[k] = "unlinked" => k \in orphaned
    BY <1>1, <1>4 DEF OpenFiles, IsFile, Filename, NoFile
  <2>1. CASE k = l
    BY <1>6, <1>9, <2>1 DEF cur
  <2>2. CASE k # l
    <3>1. Filename(k) \in Names /\ Filename(k) # cur
      BY <1>2, <2>2, NameFacts
    <3> QED
      BY <1>6, <1>9, <2>2, <3>1 DEF FI_Inv, OpenFiles, IsFile
  <2> QED
    BY <2>1, <2>2
<1>15. LinesKept' /\ LimitKept' /\ NamedByDay'
  BY <1>1, <1>4, <1>6 DEF FI_Inv, LinesKept, Kept, LimitKept, NamedByDay
<1>16. \A k \in Logs : Passed(k)' = {} /\ Passed(k) = {}
  BY <1>1, <1>4, <1>11 DEF Passed
<1>17. LimitHeld'
  <2> SUFFICES ASSUME MaxLines > 0, NEW k \in Logs \ failed
               PROVE  /\ maxLinesCurLines'[k] + Cardinality({}) <= Most
                      /\ fileWriter'[k] = "open" =>
                            Cardinality(dir'[Filename(k)].lines) <= maxLinesCurLines'[k]
    BY <1>1, <1>4, <1>16 DEF LimitHeld, Filename
  <2>1. Cardinality({}) = 0
    BY FS_EmptySet
  <2>2. CASE k = l
    <3>1. Cardinality(dir[cur].lines) <= Most
      BY <1>2, <2>2 DEF FI_Inv, LimitKept, Most
    <3> QED
      BY <1>2, <1>6, <1>8, <1>9, <2>1, <2>2, <3>1 DEF cur
  <2>3. CASE k # l
    <3>1. k \in AllLogs /\ Filename(k) \in Names
      BY <1>4, NameFacts
    <3>2. /\ maxLinesCurLines[k] + Cardinality({}) <= Most
          /\ fileWriter[k] = "open" => Cardinality(dir[Filename(k)].lines) <= maxLinesCurLines[k]
      BY <1>16 DEF FI_Inv, LimitHeld
    <3> QED
      BY <1>6, <1>9, <2>3, <3>1, <3>2
  <2> QED
    BY <2>2, <2>3
<1>18. DaysHeld'
  <2> SUFFICES ASSUME MaxLines = 0, Daily, NEW k \in Logs \ exhausted,
                      dailyOpenDate'[k] \in Days
               PROVE  \A a \in dir'[Filename(k)].lines : a[3] <= dailyOpenDate'[k]
    BY <1>1, <1>4, <1>16 DEF DaysHeld, Filename
  <2>1. k \in AllLogs /\ Filename(k) \in Names
    BY <1>4, NameFacts
  <2>2. CASE k = l
    BY <1>3, <1>6, <1>9, <2>1, <2>2
  <2>3. CASE k # l
    BY <1>6, <1>9, <2>1, <2>3 DEF FI_Inv, DaysHeld
  <2> QED
    BY <2>2, <2>3
<1>19. NextRotationPlanned'
  <2> SUFFICES ASSUME NEW k \in up \cup {l}, Daily, k \notin failed,
                      dailyOpenDate'[k] \notin config.Back,
                      dailyOpenDate'[k] + 1 \notin config.Forward
               PROVE  timers'[k][dailyOpenDate'[k] + 1] > 0
    BY <1>1 DEF NextRotationPlanned
  <2>1. CASE k = l
    BY <1>9, <1>10, <2>1
  <2>2. CASE k # l
    <3>1. k \in up /\ k \in AllLogs
      BY <1>4, <2>2 DEF FI_Inv, F_Types
    <3> QED
      BY <1>9, <1>10, <2>2, <3>1 DEF FI_Inv, NextRotationPlanned
  <2> QED
    BY <2>1, <2>2
<1> QED
  BY <1>12, <1>13, <1>14, <1>15, <1>17, <1>18, <1>19 DEF FI_Inv

\* Destroy, a restart and midnight leave the files alone, and close them at most.
LEMMA QuietFileSteps ==
  ASSUME FileLogConstants, IsFiniteSet(Writers), FI_Inv, Destroy \/ Stop \/ NextDay
  PROVE  FI_Inv'
<1>0. /\ UNCHANGED <<config, dir, maxLinesCurLines, dailyOpenDate, written, expired, orphaned,
                     failed, exhausted>>
      /\ UNCHANGED <<Logs, Callers, Todos>>
  BY DEF Destroy, Stop, NextDay, ledger, current, Logs, Callers, Todos
<1>1. /\ fileWriter' \in [AllLogs -> {"open", "closed", "unlinked"}]
      /\ \A l \in AllLogs : fileWriter'[l] # "closed" => fileWriter'[l] = fileWriter[l]
  <2>1. CASE fileWriter' = [l \in AllLogs |-> "closed"]
    BY <2>1
  <2>2. CASE fileWriter' = fileWriter
    BY <2>2 DEF FI_Inv, F_Types
  <2> QED
    BY <2>1, <2>2 DEF Destroy, Stop, NextDay, current
<1>2. CASE Destroy
  <2>1. /\ UNCHANGED <<today, timers, up, W, msgs>> /\ destroyed' \in BOOLEAN
        /\ troubles' \in 0..MaxTroubles
    <3>1. troubles < MaxTroubles /\ troubles' = troubles + 1 /\ troubles \in 0..MaxTroubles
          /\ MaxTroubles \in Nat
      BY <1>2 DEF Destroy, FI_Inv, F_Types, FileLogConstants
    <3>2. troubles' \in 0..MaxTroubles
      BY <3>1
    <3> QED
      BY <1>2, <3>2 DEF Destroy, goroutines
  <2>2. F_Types' /\ Writing'
    BY <1>0, <1>1, <2>1 DEF FI_Inv, F_Types, Writing
  <2>3. \A l \in Logs : /\ Passed(l)' \subseteq Passed(l)
                        /\ \A v \in Passed(l)' : W'[v].when = W[v].when
    BY <1>0, <2>1 DEF Passed
  <2>4. NextRotationPlanned'
    BY <1>0, <2>1 DEF FI_Inv, NextRotationPlanned
  <2> QED
    BY <1>0, <1>1, <2>2, <2>3, <2>4, QuietFiles
<1>3. CASE Stop
  <2>1. /\ UNCHANGED <<today, msgs>> /\ up' = {} /\ destroyed' \in BOOLEAN
        /\ troubles' \in 0..MaxTroubles
        /\ timers' = [l \in AllLogs |-> [d \in Midnights |-> 0]]
        /\ W' = [w \in Calls |-> NoCall]
    <3>1. troubles < MaxTroubles /\ troubles' = troubles + 1 /\ troubles \in 0..MaxTroubles
          /\ MaxTroubles \in Nat
      BY <1>3 DEF Stop, FI_Inv, F_Types, FileLogConstants
    <3>2. troubles' \in 0..MaxTroubles
      BY <3>1
    <3> QED
      BY <1>3, <3>2 DEF Stop, Calls
  <2>2. NoCall \in WriteCall /\ NoCall.pc = "idle"
    BY DEF NoCall, WriteCall, Days, FileLogConstants
  <2>3. W' \in [Calls -> WriteCall] /\ \A w \in Calls : W'[w].pc = "idle"
    BY <2>1, <2>2
  <2>4. timers' \in [AllLogs -> [Midnights -> Nat]]
    BY <2>1
  <2>5. F_Types' /\ Writing'
    BY <1>0, <1>1, <2>1, <2>3, <2>4 DEF FI_Inv, F_Types, Writing, Calls
  <2>6. \A l \in Logs : Passed(l)' = {}
    BY <1>0, <2>3, ConfigFacts DEF Passed, FI_Inv
  <2>7. NextRotationPlanned'
    BY <2>1 DEF NextRotationPlanned
  <2> QED
    BY <1>0, <1>1, <2>5, <2>6, <2>7, QuietFiles
<1>4. CASE NextDay
  <2>1. /\ UNCHANGED <<timers, up, W, msgs, troubles, destroyed>>
        /\ today' \in Days /\ today' = today + 1 /\ today \in Nat /\ LastDay \in Nat
    BY <1>4 DEF NextDay, goroutines, bounds, FI_Inv, F_Types, Days, FileLogConstants
  <2>2. F_Types'
    <3>1. /\ dir \in [Names -> [lines : SUBSET Lines, mtime : -1..LastDay]]
          /\ \A n \in Names : dir[n].mtime <= today /\ \A a \in dir[n].lines : a[3] <= today
      BY DEF FI_Inv, F_Types
    <3>2. \A n \in Names : dir[n].mtime <= today + 1
      <4> TAKE n \in Names
      <4>1. dir[n].mtime \in Int /\ dir[n].mtime <= today
        BY <3>1
      <4> QED
        BY <2>1, <4>1
    <3>3. \A n \in Names : \A a \in dir[n].lines : a[3] <= today + 1
      <4> TAKE n \in Names
      <4> TAKE a \in dir[n].lines
      <4>1. a \in Lines /\ a[3] <= today
        BY <3>1
      <4>2. a[3] \in Int
        BY <4>1 DEF Lines, Days
      <4> QED
        BY <2>1, <4>1, <4>2
    <3> QED
      BY <1>0, <1>1, <2>1, <3>1, <3>2, <3>3 DEF FI_Inv, F_Types
  <2>3. Writing'
    <3>1. ASSUME NEW w \in Calls, W[w].pc # "idle"
          PROVE  W[w].when <= today + 1
      BY <2>1, <3>1, CallFacts DEF FI_Inv
    <3> QED
      BY <1>0, <2>1, <3>1 DEF FI_Inv, Writing, Calls
  <2>4. \A l \in Logs : /\ Passed(l)' \subseteq Passed(l)
                        /\ \A v \in Passed(l)' : W'[v].when = W[v].when
    BY <1>0, <2>1 DEF Passed
  <2>5. NextRotationPlanned'
    BY <1>0, <2>1 DEF FI_Inv, NextRotationPlanned
  <2> QED
    BY <1>0, <1>1, <2>2, <2>3, <2>4, <2>5, QuietFiles
<1> QED
  BY <1>2, <1>3, <1>4

\* The next log of a call, or its end.
LEMMA WrittenCall ==
  ASSUME FileLogConstants, F_Types, Writing, NEW w \in Callers, Write(w)
  PROVE  /\ W' \in [Calls -> WriteCall] /\ w \in Calls
         /\ W'[w].pc \in {"idle", "check"}
         /\ \A v \in Calls \ {w} : W'[v] = W[v]
         /\ Writing'
<1> DEFINE r == NextLog(W[w])
<1>2. w \in Calls /\ W[w] \in WriteCall
  BY ConfigFacts DEF F_Types, Calls
<1>1. /\ W[w].pc = "write" /\ W' = [W EXCEPT ![w] = r]
      /\ UNCHANGED <<config, today, up, msgs>>
  BY DEF Write, bounds
<1>3. up = Logs /\ W[w].msg \in 1..msgs /\ W[w].when <= today /\ W[w].todo \in Todos
  BY <1>1, <1>2 DEF Writing, Calls
<1>4. /\ r \in WriteCall /\ r.pc \in {"idle", "check"}
      /\ r.pc = "check" => r.msg = W[w].msg /\ r.when = W[w].when /\ r.todo \in Todos
  <2>1. PICK l \in Logs : \/ W[w].todo = <<l>>
                          \/ l \in config.Separate /\ W[w].todo = <<full, l>>
    BY <1>3 DEF Todos, Logs
  <2>2. CASE W[w].todo = <<l>>
    <3>0. Len(W[w].todo) = 1
      BY <2>2
    <3>1. r = NoCall
      BY <3>0 DEF NextLog
    <3> QED
      BY <3>1 DEF NoCall, WriteCall, Days, FileLogConstants
  <2>3. CASE l \in config.Separate /\ W[w].todo = <<full, l>>
    <3>1. Tail(W[w].todo) = <<l>> /\ Len(W[w].todo) = 2
      BY <2>3
    <3>2. <<l>> \in Todos /\ <<l>> \in Seq(AllLogs)
      BY <2>1, ConfigFacts DEF Todos
    <3>3. r = [W[w] EXCEPT !.pc = "check", !.todo = Tail(W[w].todo)]
      BY <3>1 DEF NextLog
    <3>4. /\ r \in WriteCall /\ r.pc = "check" /\ r.msg = W[w].msg /\ r.when = W[w].when
          /\ r.todo = Tail(W[w].todo)
      BY <1>2, <3>1, <3>2, <3>3 DEF WriteCall
    <3> QED
      BY <3>1, <3>2, <3>4
  <2> QED
    BY <2>1, <2>2, <2>3
<1> HIDE DEF r
<1>5. /\ W' \in [Calls -> WriteCall]
      /\ W'[w] = r /\ \A v \in Calls \ {w} : W'[v] = W[v]
  BY <1>1, <1>4, OneCall
<1>6. Writing'
  <2>1. /\ Logs' = Logs /\ Todos' = Todos
    BY <1>1 DEF Todos, Logs
  <2>2. ASSUME NEW v \in Calls, W'[v].pc # "idle"
        PROVE  up' = Logs /\ W'[v].msg \in 1..msgs' /\ W'[v].when <= today' /\ W'[v].todo \in Todos
    <3>1. CASE v = w
      BY <1>1, <1>3, <1>4, <1>5, <2>2, <3>1
    <3>2. CASE v # w
      BY <1>1, <1>5, <2>2, <3>2 DEF Writing, Calls
    <3> QED
      BY <3>1, <3>2
  <2> QED
    BY <2>1, <2>2 DEF Writing, Calls
<1> QED
  BY <1>2, <1>4, <1>5, <1>6

\* A call writes its line and goes on to its next log.
LEMMA WriteInv ==
  ASSUME FileLogConstants, IsFiniteSet(Writers), FI_Inv, NEW w \in Callers, Write(w)
  PROVE  FI_Inv'
<1>0. /\ W[w].pc = "write" /\ w \in Calls
      /\ W' \in [Calls -> WriteCall] /\ W'[w].pc \in {"idle", "check"}
      /\ \A v \in Calls \ {w} : W'[v] = W[v]
      /\ Writing'
  <2>1. W[w].pc = "write"
    BY DEF Write
  <2> QED
    BY <2>1, WrittenCall DEF FI_Inv
<1>1. /\ W[w] \in WriteCall /\ W[w].msg \in 1..MaxMsgs /\ W[w].when \in 0..today
      /\ Head(W[w].todo) \in Logs
  BY <1>0, CallFacts DEF FI_Inv
<1> PICK l \in Logs, msg \in 1..MaxMsgs, when \in 0..today :
      Head(W[w].todo) = l /\ W[w].msg = msg /\ W[w].when = when
  BY <1>1
<1> DEFINE line == <<l, msg, when>>
           cur == Filename(l)
           longer == [lines |-> dir[cur].lines \cup {line}, mtime |-> today]
<1>2. /\ Head(W[w].todo) = l /\ W[w].when = when
      /\ dir' = IF fileWriter[l] # "open" THEN dir ELSE [dir EXCEPT ![cur] = longer]
      /\ IF fileWriter[l] = "closed"
         THEN UNCHANGED <<maxLinesCurLines, written>>
         ELSE /\ maxLinesCurLines' = [maxLinesCurLines EXCEPT ![l] = @ + 1]
              /\ written' = written \cup {line}
      /\ UNCHANGED <<config, today, fileWriter, dailyOpenDate, timers, up, destroyed,
                     msgs, troubles, expired, orphaned, failed, exhausted>>
  <2>1. /\ UNCHANGED <<config, today, fileWriter, dailyOpenDate, timers, up, destroyed,
                       msgs, troubles, expired, orphaned, failed, exhausted>>
    BY DEF Write, goroutines, bounds
  <2>2. /\ dir' = IF fileWriter[l] # "open" THEN dir
                  ELSE [dir EXCEPT ![cur] = [lines |-> @.lines \cup {line}, mtime |-> today]]
        /\ IF fileWriter[l] = "closed"
           THEN UNCHANGED <<maxLinesCurLines, written>>
           ELSE /\ maxLinesCurLines' = [maxLinesCurLines EXCEPT ![l] = @ + 1]
                /\ written' = written \cup {line}
    BY DEF Write
  <2> QED
    BY <2>1, <2>2
<1>3. /\ today \in 0..LastDay /\ LastDay \in Nat /\ when \in Days /\ when <= today
      /\ l \in AllLogs /\ cur \in Names /\ cur[1] = l /\ cur[2] = NoDate
  <2>1. today \in 0..LastDay /\ LastDay \in Nat
    BY DEF FI_Inv, F_Types, Days, FileLogConstants
  <2>2. when \in Days /\ when <= today
    BY <2>1 DEF Days
  <2>3. l \in AllLogs
    BY ConfigFacts DEF FI_Inv
  <2> QED
    BY <2>1, <2>2, <2>3, NameFacts
<1>4. line \in Lines /\ line[1] = l /\ line[3] = when
  BY <1>3 DEF Lines
<1>5. /\ dir \in [Names -> [lines : SUBSET Lines, mtime : -1..LastDay]]
      /\ \A n \in Names : dir[n].mtime <= today /\ \A a \in dir[n].lines : a[3] <= today
      /\ \A n \in Names : IsFiniteSet(dir[n].lines)
      /\ fileWriter \in [AllLogs -> {"open", "closed", "unlinked"}]
      /\ maxLinesCurLines \in [AllLogs -> Nat]
  BY DEF FI_Inv, F_Types
<1>6. /\ UNCHANGED <<MaxLines, Callers, Logs, Most, Todos>>
      /\ Logs \subseteq AllLogs /\ Callers \subseteq Calls
      /\ MaxLines \in Nat /\ IsFiniteSet(Callers) /\ Cardinality(Callers) \in Nat
  BY <1>2, ConfigFacts DEF FI_Inv, MaxLines, Callers, Logs, Most, Todos
<1> HIDE DEF cur, line
<1>7. /\ longer \in [lines : SUBSET Lines, mtime : -1..LastDay] /\ longer # NoFile
      /\ longer.lines = dir[cur].lines \cup {line} /\ longer.mtime = today
  <2>1. dir[cur].lines \in SUBSET Lines
    BY <1>3, <1>5
  <2> QED
    BY <1>3, <1>4, <2>1 DEF NoFile
<1> HIDE DEF longer
<1>8. /\ dir' \in [Names -> [lines : SUBSET Lines, mtime : -1..LastDay]]
      /\ \A n \in Names : n # cur => dir'[n] = dir[n]
      /\ fileWriter[l] = "open" => dir'[cur] = longer
      /\ fileWriter[l] # "open" => dir'[cur] = dir[cur]
      /\ \A n \in Names : dir[n] # NoFile => dir'[n] # NoFile
      /\ \A n \in Names : dir[n].lines \subseteq dir'[n].lines
  BY ONLY <1>2, <1>3, <1>5, <1>7
<1>9. /\ \A n \in Names : dir'[n].mtime <= today /\ \A a \in dir'[n].lines : a[3] <= today
      /\ \A n \in Names : IsFiniteSet(dir'[n].lines)
  <2>1. IsFiniteSet(longer.lines)
    <3>1. IsFiniteSet(dir[cur].lines)
      BY <1>3, <1>5
    <3>2. IsFiniteSet(dir[cur].lines \cup {line})
      BY <3>1, FS_AddElement
    <3> QED
      BY <1>7, <3>2
  <2>2. longer.mtime <= today /\ \A a \in longer.lines : a[3] <= today
    BY <1>3, <1>4, <1>5, <1>7
  <2> QED
    BY <1>3, <1>5, <1>8, <2>1, <2>2
<1>10. /\ maxLinesCurLines' \in [AllLogs -> Nat]
       /\ \A k \in AllLogs : k # l => maxLinesCurLines'[k] = maxLinesCurLines[k]
       /\ fileWriter[l] # "closed" => maxLinesCurLines'[l] = maxLinesCurLines[l] + 1
       /\ fileWriter[l] = "closed" => maxLinesCurLines'[l] = maxLinesCurLines[l]
  BY ONLY <1>2, <1>3, <1>5
<1>11. F_Types'
  <2>1. /\ today' \in Days /\ config' \in Configs
        /\ fileWriter' \in [AllLogs -> {"open", "closed", "unlinked"}]
        /\ dailyOpenDate' \in [AllLogs -> Days \cup {Never}]
        /\ timers' \in [AllLogs -> [Midnights -> Nat]]
        /\ msgs' \in 0..MaxMsgs /\ troubles' \in 0..MaxTroubles
        /\ up' \subseteq Logs' /\ destroyed' \in BOOLEAN
        /\ exhausted' \subseteq failed' /\ failed' \subseteq Logs'
    BY <1>2, <1>6 DEF FI_Inv, F_Types
  <2>2. written' \subseteq Lines
    BY <1>2, <1>4 DEF FI_Inv, F_Types
  <2> QED
    BY <1>0, <1>2, <1>8, <1>9, <1>10, <2>1, <2>2 DEF F_Types, Calls
<1>12. OpenFiles'
  <2> SUFFICES ASSUME NEW k \in AllLogs
               PROVE  /\ fileWriter[k] = "open" => k \in Logs /\ dir'[Filename(k)] # NoFile
                      /\ fileWriter[k] = "unlinked" => k \in orphaned
    BY <1>2, <1>6 DEF OpenFiles, IsFile, Filename, NoFile
  <2>1. Filename(k) \in Names
    BY NameFacts
  <2> QED
    BY <1>8, <2>1 DEF FI_Inv, OpenFiles, IsFile
<1>13. LinesKept'
  <2> SUFFICES ASSUME NEW a \in written', a[1] \notin orphaned
               PROVE  a \in expired \/ \E n \in Names : n[1] = a[1] /\ a \in dir'[n].lines
    BY <1>2 DEF LinesKept, Kept
  <2>1. CASE a \in written
    <3>1. a \in expired \/ \E n \in Names : n[1] = a[1] /\ a \in dir[n].lines
      BY <2>1 DEF FI_Inv, LinesKept, Kept
    <3> QED
      BY <1>8, <3>1
  <2>2. CASE a = line /\ fileWriter[l] # "closed"
    <3>1. fileWriter[l] = "open"
      BY <1>3, <1>4, <1>5, <2>2 DEF FI_Inv, OpenFiles
    <3> QED
      BY <1>3, <1>4, <1>7, <1>8, <2>2, <3>1
  <2> QED
    BY <1>2, <2>1, <2>2
<1>14. \A k \in Logs : /\ Passed(k)' \subseteq Passed(k)
                       /\ \A v \in Passed(k)' : W'[v].when = W[v].when
                       /\ w \notin Passed(k)'
  <2> TAKE k \in Logs
  <2>1. \A v \in Passed(k)' : v # w
    BY <1>0 DEF Passed
  <2> QED
    BY <1>0, <1>6, <2>1 DEF Passed
<1>15. w \in Passed(l)
  BY <1>0, <1>2 DEF Passed
<1>16. Cardinality(Passed(l)') + 1 <= Cardinality(Passed(l)) /\ Cardinality(Passed(l)') \in Nat
  <2>1. Passed(l)' \subseteq Passed(l) \ {w}
    BY <1>14
  <2>2. IsFiniteSet(Passed(l)) /\ Cardinality(Passed(l)) \in Nat
    BY PassedFinite DEF FI_Inv
  <2>3. /\ IsFiniteSet(Passed(l) \ {w})
        /\ Cardinality(Passed(l) \ {w}) = Cardinality(Passed(l)) - 1
    BY <1>15, <2>2, FS_RemoveElement
  <2>4. /\ Cardinality(Passed(l)') <= Cardinality(Passed(l) \ {w})
        /\ IsFiniteSet(Passed(l)')
    BY <2>1, <2>3, FS_Subset
  <2> QED
    BY <2>2, <2>3, <2>4, FS_CardinalityType
<1>17. Cardinality(longer.lines) <= Cardinality(dir[cur].lines) + 1
       /\ Cardinality(longer.lines) \in Nat /\ Cardinality(dir[cur].lines) \in Nat
  <2>1. IsFiniteSet(dir[cur].lines)
    BY <1>3, <1>5
  <2>2. /\ IsFiniteSet(dir[cur].lines \cup {line})
        /\ \/ Cardinality(dir[cur].lines \cup {line}) = Cardinality(dir[cur].lines)
           \/ Cardinality(dir[cur].lines \cup {line}) = Cardinality(dir[cur].lines) + 1
    BY <2>1, FS_AddElement
  <2>3. Cardinality(dir[cur].lines) \in Nat
    BY <2>1, FS_CardinalityType
  <2>4. longer.lines = dir[cur].lines \cup {line}
    BY <1>7
  <2> QED
    BY ONLY <2>2, <2>3, <2>4
<1>18. LimitHeld'
  <2> SUFFICES ASSUME MaxLines > 0, NEW k \in Logs \ failed
               PROVE  /\ maxLinesCurLines'[k] + Cardinality(Passed(k)') <= Most
                      /\ fileWriter[k] = "open" =>
                            Cardinality(dir'[Filename(k)].lines) <= maxLinesCurLines'[k]
    BY <1>2, <1>6 DEF LimitHeld, Filename
  <2>0. Most \in Int
    BY <1>6 DEF Most
  <2>1. /\ maxLinesCurLines[k] + Cardinality(Passed(k)) <= Most
        /\ fileWriter[k] = "open" => Cardinality(dir[Filename(k)].lines) <= maxLinesCurLines[k]
    BY DEF FI_Inv, LimitHeld
  <2>2. CASE k = l
    <3>1. maxLinesCurLines[l] \in Nat /\ Cardinality(Passed(l)) \in Nat
      BY <1>3, <1>5, PassedFinite DEF FI_Inv
    <3>2. maxLinesCurLines'[l] <= maxLinesCurLines[l] + 1 /\ maxLinesCurLines'[l] \in Nat
      BY <1>3, <1>5, <1>10, <3>1
    <3>3. maxLinesCurLines'[l] + Cardinality(Passed(l)') <= Most
      BY <1>16, <2>0, <2>1, <2>2, <3>1, <3>2
    <3>4. ASSUME fileWriter[l] = "open"
          PROVE  Cardinality(dir'[cur].lines) <= maxLinesCurLines'[l]
      <4>1. Cardinality(dir[cur].lines) <= maxLinesCurLines[l]
        BY <2>1, <2>2, <3>4 DEF cur
      <4>2. maxLinesCurLines'[l] = maxLinesCurLines[l] + 1
        BY <1>10, <3>4
      <4>3. dir'[cur] = longer
        BY <1>8, <3>4
      <4> QED
        BY <1>17, <3>1, <4>1, <4>2, <4>3
    <3> QED
      BY <2>2, <3>3, <3>4 DEF cur
  <2>3. CASE k # l
    <3>1. k \in AllLogs /\ Filename(k) \in Names /\ Filename(k) # cur
      BY <1>3, <1>6, <2>3, NameFacts
    <3>2. maxLinesCurLines'[k] = maxLinesCurLines[k] /\ dir'[Filename(k)] = dir[Filename(k)]
      BY <1>8, <1>10, <2>3, <3>1
    <3>3. /\ Cardinality(Passed(k)') \in Nat /\ Cardinality(Passed(k)) \in Nat
          /\ Cardinality(Passed(k)') <= Cardinality(Passed(k))
      BY <1>14, PassedFinite DEF FI_Inv
    <3>4. maxLinesCurLines[k] \in Nat
      BY <1>5, <3>1
    <3> QED
      BY <2>0, <2>1, <3>2, <3>3, <3>4
  <2> QED
    BY <2>2, <2>3
<1>19. LimitKept'
  <2> SUFFICES ASSUME NEW n \in Names, MaxLines > 0, n[1] \notin failed
               PROVE  Cardinality(dir'[n].lines) <= Most
    BY <1>2, <1>6 DEF LimitKept, Most
  <2>1. Cardinality(dir[n].lines) <= Most
    BY DEF FI_Inv, LimitKept, Most
  <2>2. CASE dir'[n] = dir[n]
    BY <2>1, <2>2
  <2>3. CASE n = cur /\ fileWriter[l] = "open"
    <3>1. l \in Logs \ failed
      BY <1>3, <2>3
    <3>2. /\ maxLinesCurLines'[l] + Cardinality(Passed(l)') <= Most
          /\ Cardinality(dir'[cur].lines) <= maxLinesCurLines'[l]
      BY <1>2, <1>6, <1>18, <2>3, <3>1 DEF LimitHeld, cur, Filename
    <3>3. maxLinesCurLines'[l] \in Nat /\ Cardinality(dir'[cur].lines) \in Nat /\ Most \in Int
      BY <1>3, <1>6, <1>8, <1>10, <1>17, <2>3 DEF Most
    <3> QED
      BY <1>16, <2>3, <3>2, <3>3
  <2> QED
    BY <1>8, <2>2, <2>3
<1>20. NamedByDay'
  <2>1. \A n \in Names : n[2] # NoDate => dir'[n] = dir[n]
    BY <1>3, <1>8
  <2> QED
    BY <1>2, <1>6, <2>1, NameFacts DEF FI_Inv, NamedByDay
<1>21. DaysHeld'
  <2> SUFFICES ASSUME MaxLines = 0, Daily, NEW k \in Logs \ exhausted,
                      dailyOpenDate[k] \in Days
               PROVE  /\ \A a \in dir'[Filename(k)].lines : a[3] <= dailyOpenDate[k]
                      /\ fileWriter[k] = "open" =>
                            \A v \in Passed(k)' : W'[v].when <= dailyOpenDate[k]
    BY <1>2, <1>6 DEF DaysHeld, Filename
  <2>1. /\ \A a \in dir[Filename(k)].lines : a[3] <= dailyOpenDate[k]
        /\ fileWriter[k] = "open" => \A v \in Passed(k) : W[v].when <= dailyOpenDate[k]
    BY DEF FI_Inv, DaysHeld
  <2>2. \A a \in dir'[Filename(k)].lines : a[3] <= dailyOpenDate[k]
    <3>1. CASE k = l /\ fileWriter[l] = "open"
      <4>1. when <= dailyOpenDate[l]
        BY <1>2, <1>15, <2>1, <3>1
      <4> QED
        BY <1>4, <1>7, <1>8, <2>1, <3>1, <4>1 DEF cur
    <3>2. CASE k # l \/ fileWriter[l] # "open"
      <4>1. Filename(k) \in Names /\ (k # l => Filename(k) # cur)
        BY <1>3, <1>6, NameFacts
      <4>2. dir'[Filename(k)] = dir[Filename(k)]
        BY <1>8, <3>2, <4>1 DEF cur
      <4> QED
        BY <2>1, <4>2
    <3> QED
      BY <3>1, <3>2
  <2> QED
    BY <1>14, <2>1, <2>2
<1>22. NextRotationPlanned'
  BY <1>2 DEF FI_Inv, NextRotationPlanned
<1> QED
  BY <1>0, <1>11, <1>12, <1>13, <1>18, <1>19, <1>20, <1>21, <1>22 DEF FI_Inv

\* A file of a level that cannot be opened.
LEMMA InitFailsInv ==
  ASSUME FileLogConstants, IsFiniteSet(Writers), FI_Inv, NEW l \in Logs, InitFails(l)
  PROVE  FI_Inv'
<1>1. /\ l \notin up /\ up' = up \cup {l} /\ failed' = failed \cup {l}
      /\ troubles < MaxTroubles /\ troubles' = troubles + 1
      /\ fileWriter' = [fileWriter EXCEPT ![l] = "closed"]
      /\ maxLinesCurLines' = [maxLinesCurLines EXCEPT ![l] = 0]
      /\ dailyOpenDate' = [dailyOpenDate EXCEPT ![l] = Never]
      /\ UNCHANGED <<config, today, dir, destroyed, timers, W, msgs, written, expired, orphaned,
                     exhausted>>
  BY DEF InitFails, goroutines
<1>2. /\ UNCHANGED <<MaxLines, Callers, Logs, Most, Todos>>
      /\ Logs \subseteq AllLogs /\ Callers \subseteq Calls
  BY <1>1, ConfigFacts DEF FI_Inv, MaxLines, Callers, Logs, Most, Todos
<1>3. /\ fileWriter \in [AllLogs -> {"open", "closed", "unlinked"}]
      /\ maxLinesCurLines \in [AllLogs -> Nat] /\ dailyOpenDate \in [AllLogs -> Days \cup {Never}]
      /\ troubles \in 0..MaxTroubles /\ MaxTroubles \in Nat
  BY DEF FI_Inv, F_Types, FileLogConstants
<1>4. /\ fileWriter' \in [AllLogs -> {"open", "closed", "unlinked"}]
      /\ maxLinesCurLines' \in [AllLogs -> Nat] /\ dailyOpenDate' \in [AllLogs -> Days \cup {Never}]
      /\ fileWriter'[l] = "closed" /\ dailyOpenDate'[l] = Never
      /\ \A k \in AllLogs : k # l => /\ fileWriter'[k] = fileWriter[k]
                                     /\ maxLinesCurLines'[k] = maxLinesCurLines[k]
                                     /\ dailyOpenDate'[k] = dailyOpenDate[k]
  BY ONLY <1>1, <1>2, <1>3, l \in Logs
<1>5. troubles' \in 0..MaxTroubles
  BY ONLY <1>1, <1>3
<1>6. F_Types'
  <2>1. /\ up' \subseteq Logs' /\ failed' \subseteq Logs' /\ exhausted' \subseteq failed'
    BY <1>1, <1>2 DEF FI_Inv, F_Types
  <2> QED
    BY <1>1, <1>4, <1>5, <2>1 DEF FI_Inv, F_Types
<1>7. \A w \in Calls : W[w].pc = "idle"
  BY <1>1 DEF FI_Inv, Writing, Calls
<1>8. Writing'
  BY <1>1, <1>7 DEF Writing, Calls
<1>9. OpenFiles'
  <2> SUFFICES ASSUME NEW k \in AllLogs
               PROVE  /\ fileWriter'[k] = "open" => k \in Logs /\ dir[Filename(k)] # NoFile
                      /\ fileWriter'[k] = "unlinked" => k \in orphaned
    BY <1>1, <1>2 DEF OpenFiles, IsFile, Filename, NoFile
  <2> QED
    BY <1>4 DEF FI_Inv, OpenFiles, IsFile
<1>10. LinesKept' /\ LimitKept' /\ NamedByDay'
  BY <1>1, <1>2 DEF FI_Inv, LinesKept, Kept, LimitKept, NamedByDay
<1>11. \A k \in Logs : Passed(k)' = {} /\ Passed(k) = {}
  BY <1>1, <1>2, <1>7 DEF Passed
<1>12. LimitHeld'
  <2> SUFFICES ASSUME MaxLines > 0, NEW k \in Logs \ failed'
               PROVE  /\ maxLinesCurLines'[k] + Cardinality({}) <= Most
                      /\ fileWriter'[k] = "open" =>
                            Cardinality(dir[Filename(k)].lines) <= maxLinesCurLines'[k]
    BY <1>1, <1>2, <1>11 DEF LimitHeld, Filename
  <2>1. k # l /\ k \in Logs \ failed /\ k \in AllLogs
    BY <1>1, <1>2
  <2>2. /\ maxLinesCurLines[k] + Cardinality({}) <= Most
        /\ fileWriter[k] = "open" => Cardinality(dir[Filename(k)].lines) <= maxLinesCurLines[k]
    BY <1>11, <2>1 DEF FI_Inv, LimitHeld
  <2> QED
    BY <1>4, <2>1, <2>2
<1>13. DaysHeld'
  <2> SUFFICES ASSUME MaxLines = 0, Daily, NEW k \in Logs \ exhausted,
                      dailyOpenDate'[k] \in Days
               PROVE  \A a \in dir[Filename(k)].lines : a[3] <= dailyOpenDate'[k]
    BY <1>1, <1>2, <1>11 DEF DaysHeld, Filename
  <2>1. k # l /\ k \in AllLogs
    BY <1>2, <1>4, NameFacts
  <2> QED
    BY <1>4, <2>1 DEF FI_Inv, DaysHeld
<1>14. NextRotationPlanned'
  <2> SUFFICES ASSUME NEW k \in up \cup {l}, Daily, k \notin failed',
                      dailyOpenDate'[k] \notin config.Back,
                      dailyOpenDate'[k] + 1 \notin config.Forward
               PROVE  timers[k][dailyOpenDate'[k] + 1] > 0
    BY <1>1 DEF NextRotationPlanned
  <2>1. k # l /\ k \in up /\ k \in AllLogs /\ k \notin failed
    BY <1>1, <1>2 DEF FI_Inv, F_Types
  <2> QED
    BY <1>4, <2>1 DEF FI_Inv, NextRotationPlanned
<1> QED
  BY <1>6, <1>8, <1>9, <1>10, <1>12, <1>13, <1>14 DEF FI_Inv

\* The walk that finds old files changes nothing yet.
LEMMA deleteOldLogInv ==
  ASSUME FileLogConstants, IsFiniteSet(Writers), FI_Inv, NEW l \in Logs, deleteOldLog(l)
  PROVE  FI_Inv'
<1>1. UNCHANGED <<config, today, dir, fileWriter, maxLinesCurLines, dailyOpenDate, timers, up,
                  destroyed, W, msgs, troubles, written, expired, orphaned, failed, exhausted>>
  BY DEF deleteOldLog, current, bounds, ledger
<1> QED
  BY <1>1, SameFiles

\* Old files go, an open one too.
LEMMA RemoveOldInv ==
  ASSUME FileLogConstants, IsFiniteSet(Writers), FI_Inv, NEW old, RemoveOld(old)
  PROVE  FI_Inv'
<1>1. /\ dir' = [dir EXCEPT ![old] = NoFile]
      /\ expired' = expired \cup dir[old].lines
      /\ fileWriter' = [k \in AllLogs |->
            IF k \in {j \in Logs : Filename(j) = old /\ fileWriter[j] = "open"}
            THEN "unlinked" ELSE fileWriter[k]]
      /\ orphaned \cup {j \in Logs : Filename(j) = old /\ fileWriter[j] = "open"} \subseteq orphaned'
  BY DEF RemoveOld
<1>2. /\ UNCHANGED <<config, today, maxLinesCurLines, dailyOpenDate, timers, up, destroyed, W,
                     msgs, troubles, written, failed, exhausted>>
      /\ UNCHANGED <<MaxLines, Callers, Logs, Most, Todos>>
      /\ Logs \subseteq AllLogs
  <2>1. UNCHANGED <<config, today, maxLinesCurLines, dailyOpenDate, timers, up, destroyed, W,
                     msgs, troubles, written, failed, exhausted>>
    BY DEF RemoveOld, bounds
  <2> QED
    BY <2>1, ConfigFacts DEF FI_Inv, MaxLines, Callers, Logs, Most, Todos
<1>4. /\ dir \in [Names -> [lines : SUBSET Lines, mtime : -1..LastDay]]
      /\ \A n \in Names : dir[n].mtime <= today /\ \A a \in dir[n].lines : a[3] <= today
      /\ \A n \in Names : IsFiniteSet(dir[n].lines)
      /\ fileWriter \in [AllLogs -> {"open", "closed", "unlinked"}]
      /\ today \in 0..LastDay /\ LastDay \in Nat
  BY DEF FI_Inv, F_Types, Days, FileLogConstants
<1>5. /\ NoFile \in [lines : SUBSET Lines, mtime : -1..LastDay]
      /\ NoFile.lines = {} /\ NoFile.mtime <= today /\ IsFiniteSet(NoFile.lines)
      /\ Cardinality(NoFile.lines) = 0
  <2>1. NoFile.lines = {} /\ NoFile.mtime = -1
    BY DEF NoFile
  <2>2. IsFiniteSet(NoFile.lines) /\ Cardinality(NoFile.lines) = 0
    BY <2>1, FS_EmptySet
  <2>3. NoFile \in [lines : SUBSET Lines, mtime : -1..LastDay]
    BY <1>4 DEF NoFile
  <2> QED
    BY <1>4, <2>1, <2>2, <2>3
<1>6. /\ dir' \in [Names -> [lines : SUBSET Lines, mtime : -1..LastDay]]
      /\ \A n \in Names : \/ dir'[n] = NoFile /\ n = old
                          \/ dir'[n] = dir[n] /\ n # old
  BY ONLY <1>1, <1>4, <1>5
<1>7. /\ fileWriter' \in [AllLogs -> {"open", "closed", "unlinked"}]
      /\ \A k \in AllLogs : /\ fileWriter'[k] = "open" => fileWriter[k] = "open" /\ ~(k \in Logs /\ Filename(k) = old)
                            /\ fileWriter'[k] = "unlinked" => fileWriter[k] = "unlinked" \/ k \in orphaned'
  BY <1>1, <1>4
<1>8. F_Types' /\ Writing'
  <2>1. \A n \in Names : /\ dir'[n].mtime <= today' /\ \A a \in dir'[n].lines : a[3] <= today'
                         /\ IsFiniteSet(dir'[n].lines)
    BY <1>2, <1>4, <1>5, <1>6
  <2> QED
    BY <1>2, <1>6, <1>7, <2>1 DEF FI_Inv, F_Types, Writing
<1>9. OpenFiles'
  <2> SUFFICES ASSUME NEW k \in AllLogs
               PROVE  /\ fileWriter'[k] = "open" => k \in Logs /\ dir'[Filename(k)] # NoFile
                      /\ fileWriter'[k] = "unlinked" => k \in orphaned'
    BY <1>2 DEF OpenFiles, IsFile, Filename, NoFile
  <2>1. Filename(k) \in Names
    BY NameFacts
  <2>2. orphaned \subseteq orphaned'
    BY <1>1
  <2> QED
    BY <1>6, <1>7, <2>1, <2>2 DEF FI_Inv, OpenFiles, IsFile
<1>10. LinesKept'
  <2> SUFFICES ASSUME NEW a \in written, a[1] \notin orphaned
               PROVE  a \in expired' \/ \E n \in Names : n[1] = a[1] /\ a \in dir'[n].lines
    BY <1>1, <1>2 DEF LinesKept, Kept
  <2>1. a \in expired \/ \E n \in Names : n[1] = a[1] /\ a \in dir[n].lines
    BY DEF FI_Inv, LinesKept, Kept
  <2>2. ASSUME NEW n \in Names, n[1] = a[1], a \in dir[n].lines
        PROVE  a \in expired' \/ \E m \in Names : m[1] = a[1] /\ a \in dir'[m].lines
    BY <1>1, <1>6, <2>2
  <2> QED
    BY <1>1, <2>1, <2>2
<1>11. LimitKept' /\ LimitHeld'
  <2> SUFFICES ASSUME MaxLines > 0
               PROVE  /\ \A n \in Names : n[1] \notin failed => Cardinality(dir'[n].lines) <= Most
                      /\ \A k \in Logs \ failed :
                           /\ maxLinesCurLines[k] + Cardinality(Passed(k)) <= Most
                           /\ fileWriter'[k] = "open" =>
                                 Cardinality(dir'[Filename(k)].lines) <= maxLinesCurLines[k]
    BY <1>2 DEF LimitKept, LimitHeld, Most, Filename, Passed
  <2>1. 0 <= Most
    BY ConfigFacts DEF FI_Inv, Most
  <2>2. ASSUME NEW n \in Names, n[1] \notin failed
        PROVE  Cardinality(dir'[n].lines) <= Most
    BY <1>5, <1>6, <2>1, <2>2 DEF FI_Inv, LimitKept, Most
  <2>3. ASSUME NEW k \in Logs \ failed
        PROVE  /\ maxLinesCurLines[k] + Cardinality(Passed(k)) <= Most
               /\ fileWriter'[k] = "open" =>
                     Cardinality(dir'[Filename(k)].lines) <= maxLinesCurLines[k]
    <3>1. /\ maxLinesCurLines[k] + Cardinality(Passed(k)) <= Most
          /\ fileWriter[k] = "open" => Cardinality(dir[Filename(k)].lines) <= maxLinesCurLines[k]
      BY DEF FI_Inv, LimitHeld
    <3>2. k \in AllLogs /\ Filename(k) \in Names
      BY <1>2, NameFacts
    <3>3. fileWriter'[k] = "open" => fileWriter[k] = "open" /\ dir'[Filename(k)] = dir[Filename(k)]
      BY <1>6, <1>7, <3>2
    <3> QED
      BY <3>1, <3>3
  <2> QED
    BY <2>2, <2>3
<1>12. NamedByDay'
  BY <1>2, <1>5, <1>6 DEF FI_Inv, NamedByDay
<1>13. DaysHeld'
  <2> SUFFICES ASSUME MaxLines = 0, Daily, NEW k \in Logs \ exhausted,
                      dailyOpenDate[k] \in Days
               PROVE  /\ \A a \in dir'[Filename(k)].lines : a[3] <= dailyOpenDate[k]
                      /\ fileWriter'[k] = "open" =>
                            \A v \in Passed(k) : W[v].when <= dailyOpenDate[k]
    BY <1>2 DEF DaysHeld, Filename, Passed
  <2>1. k \in AllLogs /\ Filename(k) \in Names
    BY <1>2, NameFacts
  <2> QED
    BY <1>5, <1>6, <1>7, <2>1 DEF FI_Inv, DaysHeld
<1>14. NextRotationPlanned'
  BY <1>2 DEF FI_Inv, NextRotationPlanned
<1> QED
  BY <1>8, <1>9, <1>10, <1>11, <1>12, <1>13, <1>14 DEF FI_Inv

\* Every step keeps the invariant.
LEMMA FilesStep ==
  ASSUME FileLogConstants, IsFiniteSet(Writers), FI_Inv, [Next]_vars
  PROVE  FI_Inv'
<1>1. CASE UNCHANGED vars
  BY <1>1, SameFiles DEF vars
<1>2. CASE Next
  BY <1>2, WriteMsgInv, CheckInv, RotateInv, WriteInv, InitLogInv, InitFailsInv,
     dailyRotateInv, deleteOldLogInv, RemoveOldInv, QuietFileSteps DEF Next
<1> QED
  BY <1>1, <1>2

\* The invariant holds before the first log is set up.
LEMMA FilesInit ==
  ASSUME FileLogConstants, IsFiniteSet(Writers), Init
  PROVE  FI_Inv
<1>1. /\ NoFile \in [lines : SUBSET Lines, mtime : -1..LastDay]
      /\ NoFile.lines = {} /\ NoFile.mtime = -1 /\ NoCall \in WriteCall /\ NoCall.pc = "idle"
      /\ 0 \in Days
  BY DEF NoFile, NoCall, WriteCall, FileLogConstants, Days
<1>2. /\ IsFiniteSet({}) /\ Cardinality({}) = 0
      /\ IsFiniteSet(NoFile.lines) /\ Cardinality(NoFile.lines) = 0
  <2>1. IsFiniteSet({}) /\ Cardinality({}) = 0
    BY FS_EmptySet
  <2> QED
    BY ONLY <1>1, <2>1
<1>3. \A n \in Names : dir[n] = NoFile
  BY DEF Init
<1>4. F_Types
  <2>1. dir \in [Names -> [lines : SUBSET Lines, mtime : -1..LastDay]]
    BY <1>1 DEF Init
  <2>2. \A n \in Names : /\ dir[n].mtime <= today /\ \A a \in dir[n].lines : a[3] <= today
                         /\ IsFiniteSet(dir[n].lines)
    <3>1. today = 0
      BY DEF Init
    <3> QED
      BY ONLY <1>1, <1>2, <1>3, <3>1
  <2>3. timers \in [AllLogs -> [Midnights -> Nat]] /\ W \in [Writers \cup {Queue} -> WriteCall]
    BY <1>1 DEF Init
  <2>4. /\ today \in Days /\ config \in Configs
        /\ fileWriter \in [AllLogs -> {"open", "closed", "unlinked"}]
        /\ maxLinesCurLines \in [AllLogs -> Nat] /\ dailyOpenDate \in [AllLogs -> Days \cup {Never}]
        /\ written \subseteq Lines
        /\ up \subseteq Logs /\ destroyed \in BOOLEAN
        /\ exhausted \subseteq failed /\ failed \subseteq Logs
    BY <1>1 DEF Init
  <2>5. msgs \in 0..MaxMsgs /\ troubles \in 0..MaxTroubles
    BY DEF Init, FileLogConstants
  <2> QED
    BY <2>1, <2>2, <2>3, <2>4, <2>5 DEF F_Types
<1>5. \A w \in Calls : W[w].pc = "idle"
  BY <1>1 DEF Init, Calls
<1>6. Writing /\ OpenFiles /\ LinesKept /\ NextRotationPlanned
  BY <1>5 DEF Init, Writing, Calls, OpenFiles, LinesKept, NextRotationPlanned
<1>7. LimitKept /\ LimitHeld
  <2>1. Logs \subseteq AllLogs /\ Callers \subseteq Calls
        /\ MaxLines \in Nat /\ Cardinality(Callers) \in Nat
    BY <1>4, ConfigFacts
  <2>2. \A l \in Logs : Passed(l) = {} /\ maxLinesCurLines[l] = 0 /\ fileWriter[l] = "closed"
    BY <1>5, <2>1 DEF Init, Passed
  <2>3. MaxLines > 0 => 0 <= Most
    BY <2>1 DEF Most
  <2>4. LimitKept
    BY <1>2, <1>3, <2>3 DEF LimitKept, Most
  <2>5. LimitHeld
    <3>1. \A l \in Logs : maxLinesCurLines[l] + Cardinality(Passed(l)) = 0
      <4> TAKE l \in Logs
      <4>1. Cardinality(Passed(l)) = 0
        BY <1>2, <2>2
      <4> QED
        BY <2>2, <4>1
    <3>2. \A l \in Logs : fileWriter[l] # "open"
      BY <2>2
    <3> QED
      BY <2>3, <3>1, <3>2 DEF LimitHeld
  <2> QED
    BY <2>4, <2>5
<1>8. NamedByDay
  BY <1>1, <1>3 DEF NamedByDay
<1>9. DaysHeld
  <2>1. \A l \in Logs : Filename(l) \in Names /\ fileWriter[l] = "closed"
    BY <1>4, ConfigFacts, NameFacts DEF Init
  <2> QED
    BY <1>1, <1>3, <2>1 DEF DaysHeld
<1> QED
  BY <1>4, <1>6, <1>7, <1>8, <1>9 DEF FI_Inv

\* The types of the proof are those of the model.
LEMMA FilesTypes ==
  ASSUME FileLogConstants, F_Types
  PROVE  F_TypeOK
<1>1. /\ dir \in [Names -> [lines : SUBSET Lines, mtime : -1..LastDay]]
      /\ \A n \in Names : dir[n].mtime <= today
      /\ today \in 0..LastDay /\ LastDay \in Nat /\ troubles \in 0..MaxTroubles
      /\ MaxTroubles \in Nat
  BY DEF F_Types, Days, FileLogConstants
<1>2. \A n \in Names : dir[n].mtime \in -1..today /\ dir[n].lines \subseteq AllLogs \X (1..MaxMsgs) \X Days
  <2> TAKE n \in Names
  <2>1. dir[n] \in [lines : SUBSET Lines, mtime : -1..LastDay] /\ dir[n].mtime <= today
    BY <1>1
  <2>2. dir[n].lines \subseteq Lines /\ dir[n].mtime \in -1..LastDay
    BY <2>1
  <2> QED
    BY <1>1, <2>1, <2>2 DEF Lines
<1>3. troubles <= MaxTroubles
  BY <1>1
<1> QED
  BY <1>2, <1>3 DEF F_Types, F_TypeOK

-----------------------------------------------------------------------------
(* Theorems.                                                               *)

\* However many goroutines log, and with any configuration: a file has at most
\* MaxLines lines and one for every other goroutine that logs, a file named for a
\* day no line of a later one, and the next midnight is planned for
\* (file.go:115-153, 169-204, 235-288).
THEOREM FilesBounded ==
  ASSUME FileLogConstants, IsFiniteSet(Writers)
  PROVE  Spec => []F_Inv
<1>1. Init => FI_Inv
  BY FilesInit
<1>2. FI_Inv /\ [Next]_vars => FI_Inv'
  BY FilesStep
<1>3. FI_Inv => F_Inv
  BY FilesTypes DEF FI_Inv, F_Inv
<1> QED
  BY <1>1, <1>2, <1>3, PTL DEF Spec

\* No line that was written is lost, but with a file deleted for its age
\* (file.go:122-153, 235-311).
THEOREM NoLineLost ==
  ASSUME FileLogConstants, IsFiniteSet(Writers)
  PROVE  Spec => []LinesKept
<1>1. Init => FI_Inv
  BY FilesInit
<1>2. FI_Inv /\ [Next]_vars => FI_Inv'
  BY FilesStep
<1>3. FI_Inv => LinesKept
  BY DEF FI_Inv
<1> QED
  BY <1>1, <1>2, <1>3, PTL DEF Spec

\* No step changes a file that was rotated, but for deleting it.
LEMMA FrozenStep ==
  ASSUME FileLogConstants, FI_Inv, [Next]_vars, NEW n \in Names, n[2] # NoDate, IsFile(n)
  PROVE  dir'[n] \in {NoFile, dir[n]}
<1>0. n # Filename(n[1]) /\ \A l \in AllLogs : n # Filename(l)
  BY DEF Filename
<1>1. dir \in [Names -> [lines : SUBSET Lines, mtime : -1..LastDay]] /\ Logs \subseteq AllLogs
  BY ConfigFacts DEF FI_Inv, F_Types
<1>2. ASSUME NEW l \in Logs, NEW logTime \in 0..today, NEW tm, doRotate(l, logTime, tm)
      PROVE  dir'[n] = dir[n]
  BY <1>2, RotationFacts DEF FI_Inv, RotationOf
<1>3. CASE UNCHANGED dir
  BY <1>3
<1>4. ASSUME NEW w \in Callers, Rotate(w)
      PROVE  dir'[n] \in {NoFile, dir[n]}
  <2>1. w \in Calls /\ W[w].pc # "idle"
    BY <1>4, ConfigFacts DEF Rotate, FI_Inv
  <2>2. Head(W[w].todo) \in Logs /\ W[w].when \in 0..today
    BY <2>1, CallFacts DEF FI_Inv
  <2> QED
    BY <1>2, <1>3, <1>4, <2>2 DEF Rotate
<1>5. ASSUME NEW w \in Callers, Write(w)
      PROVE  dir'[n] \in {NoFile, dir[n]}
  <2>1. Head(W[w].todo) \in AllLogs
    <3>1. w \in Calls /\ W[w].pc # "idle"
      BY <1>5, ConfigFacts DEF Write, FI_Inv
    <3> QED
      BY <1>1, <3>1, CallFacts DEF FI_Inv
  <2>2. Filename(Head(W[w].todo)) # n
    BY <1>0, <2>1
  <2> QED
    BY <1>1, <1>5, <2>2 DEF Write
<1>6. ASSUME NEW l \in Logs, InitLog(l)
      PROVE  dir'[n] \in {NoFile, dir[n]}
  <2>1. Filename(l) # n
    BY <1>0, <1>1
  <2> QED
    BY <1>1, <1>6, <2>1 DEF InitLog, startLogger, createLogFile
<1>7. ASSUME NEW l \in Logs, dailyRotate(l)
      PROVE  dir'[n] \in {NoFile, dir[n]}
  <2>1. today \in 0..today
    BY DEF FI_Inv, F_Types, Days
  <2> QED
    BY <1>2, <1>3, <1>7, <2>1 DEF dailyRotate
<1>8. ASSUME NEW old \in doomed, RemoveOld(old)
      PROVE  dir'[n] \in {NoFile, dir[n]}
  BY <1>1, <1>8 DEF RemoveOld
<1>9. ASSUME NEW w \in Callers, WriteMsg(w) \/ Check(w)
      PROVE  UNCHANGED dir
  BY <1>9 DEF WriteMsg, Check
<1>10. Destroy \/ Stop \/ NextDay => UNCHANGED dir
  BY DEF Destroy, Stop, NextDay
<1>11. UNCHANGED vars => UNCHANGED dir
  BY DEF vars
<1>12. ASSUME NEW l \in Logs, InitFails(l) \/ deleteOldLog(l)
       PROVE  UNCHANGED dir
  BY <1>12 DEF InitFails, deleteOldLog
<1> QED
  BY <1>3, <1>4, <1>5, <1>6, <1>7, <1>8, <1>9, <1>10, <1>11, <1>12 DEF Next

\* A rotated file stays as it is until it is deleted (file.go:247-270).
THEOREM RotatedFilesFrozen ==
  ASSUME FileLogConstants, IsFiniteSet(Writers)
  PROVE  Spec => RotatedFrozen
<1>1. Init => FI_Inv
  BY FilesInit
<1>2. FI_Inv /\ [Next]_vars => FI_Inv'
  BY FilesStep
<1>3. FI_Inv /\ [Next]_vars =>
        [\A n \in Names : n[2] # NoDate /\ IsFile(n) => dir'[n] \in {NoFile, dir[n]}]_vars
  BY FrozenStep
<1> QED
  BY <1>1, <1>2, <1>3, PTL DEF Spec, RotatedFrozen
-----------------------------------------------------------------------------
(* The log service (AliLog).                                                *)


\* A caller's WriteMsg or Flush.
Call == [pc : {"idle", "length", "flush", "stored", "failed", "panicked"},
         todo : Seq(AllTopics)]

A_TypeOK ==
    /\ group \in [AllTopics -> Seq(Nat)] /\ logstore \in [AllTopics -> Seq(Nat)]
    /\ calls \in [LogCallers -> Call]
    /\ logs \in Nat /\ repliesLost \in Nat

\* Whoever waits for an answer holds the mutex; whoever has to look at a buffer
\* or to send it knows which.
Stages ==
    \A c \in LogCallers :
        /\ calls[c].pc \in {"stored", "failed"} => lock = c
        /\ calls[c].pc \notin {"idle", "panicked"} => calls[c].todo # <<>>

\* The buffer the service has just stored is at the service.
Stored ==
    \A c \in LogCallers : calls[c].pc = "stored" =>
        ToSet(group[Head(calls[c].todo)]) \subseteq ToSet(logstore[Head(calls[c].todo)])

Numbers == \A t \in AllTopics : ToSet(group[t]) \cup ToSet(logstore[t]) \subseteq 1..logs

InFlight(t) == \E c \in LogCallers : calls[c].pc = "stored" /\ Head(calls[c].todo) = t

\* A buffer holds nothing the service has, unless its answer is on its way.
Once ==
    repliesLost = 0 =>
        \A t \in AllTopics :
            /\ IsInjective(group[t]) /\ IsInjective(logstore[t])
            /\ InFlight(t) \/ ToSet(group[t]) \cap ToSet(logstore[t]) = {}

A_Inv == A_TypeOK /\ Stages /\ Stored /\ Numbers /\ MessagesKept /\ Once
-----------------------------------------------------------------------------
(* Buffers as sets of messages.                                            *)

\* One more message.
LEMMA Appended ==
  ASSUME NEW s \in Seq(Nat), NEW n \in Nat
  PROVE  /\ ToSet(Append(s, n)) = ToSet(s) \cup {n}
         /\ IsInjective(s) /\ n \notin ToSet(s) => IsInjective(Append(s, n))
<1>1. /\ Len(Append(s, n)) = Len(s) + 1
      /\ DOMAIN Append(s, n) = 1..(Len(s) + 1) /\ DOMAIN s = 1..Len(s)
      /\ \A i \in 1..Len(s) : Append(s, n)[i] = s[i]
      /\ Append(s, n)[Len(s) + 1] = n /\ Len(s) \in Nat
  OBVIOUS
<1>2. \A i \in 1..(Len(s) + 1) : i \in 1..Len(s) \/ i = Len(s) + 1
  BY <1>1
<1>3. \A i \in 1..Len(s) : i \in 1..(Len(s) + 1) /\ i # Len(s) + 1
  BY <1>1
<1>4. Len(s) + 1 \in 1..(Len(s) + 1)
  BY <1>1
<1> QED
  BY <1>1, <1>2, <1>3, <1>4 DEF ToSet, IsInjective

\* A buffer behind what the service has.
LEMMA Joined ==
  ASSUME NEW s \in Seq(Nat), NEW r \in Seq(Nat)
  PROVE  /\ ToSet(s \o r) = ToSet(s) \cup ToSet(r)
         /\ IsInjective(s) /\ IsInjective(r) /\ ToSet(s) \cap ToSet(r) = {}
              => IsInjective(s \o r)
<1> DEFINE L == Len(s)
           M == Len(r)
<1>1. /\ DOMAIN (s \o r) = 1..(L + M) /\ DOMAIN s = 1..L /\ DOMAIN r = 1..M
      /\ L \in Nat /\ M \in Nat
      /\ \A i \in 1..L : (s \o r)[i] = s[i]
      /\ \A i \in 1..(L + M) : i > L => (s \o r)[i] = r[i - L]
  OBVIOUS
<1> HIDE DEF L, M
<1>2. \A i \in 1..(L + M) : i \in 1..L \/ (i > L /\ i - L \in 1..M)
  BY <1>1
<1>3. \A i \in 1..L : i \in 1..(L + M)
  BY <1>1
<1>4. \A i \in 1..M : i + L \in 1..(L + M) /\ i + L > L /\ (i + L) - L = i
  BY <1>1
<1>5. \A i \in 1..M : (s \o r)[i + L] = r[i]
  BY <1>1, <1>4
<1>6. ToSet(s \o r) = ToSet(s) \cup ToSet(r)
  <2>1. ToSet(s \o r) \subseteq ToSet(s) \cup ToSet(r)
    BY <1>1, <1>2 DEF ToSet
  <2>2. ToSet(s) \subseteq ToSet(s \o r)
    BY <1>1, <1>3 DEF ToSet
  <2>3. ToSet(r) \subseteq ToSet(s \o r)
    <3> SUFFICES ASSUME NEW i \in 1..M PROVE r[i] \in ToSet(s \o r)
      BY <1>1 DEF ToSet
    <3>1. i + L \in DOMAIN (s \o r) /\ (s \o r)[i + L] = r[i]
      BY <1>1, <1>4, <1>5
    <3> QED
      BY <3>1 DEF ToSet
  <2> QED
    BY <2>1, <2>2, <2>3
<1>7. ASSUME IsInjective(s), IsInjective(r), ToSet(s) \cap ToSet(r) = {},
             NEW i \in 1..(L + M), NEW j \in 1..(L + M), (s \o r)[i] = (s \o r)[j]
      PROVE  i = j
  <2>1. CASE i \in 1..L /\ j \in 1..L
    BY <1>1, <1>7, <2>1 DEF IsInjective
  <2>2. CASE i \notin 1..L /\ j \notin 1..L
    <3>1. i - L \in 1..M /\ j - L \in 1..M
      BY <1>2, <2>2
    <3>2. (s \o r)[i] = r[i - L] /\ (s \o r)[j] = r[j - L]
      BY <1>1, <1>2, <2>2
    <3>3. ASSUME NEW a \in 1..M, NEW b \in 1..M, r[a] = r[b]
          PROVE  a = b
      BY <1>1, <1>7, <3>3 DEF IsInjective
    <3>4. i - L = j - L
      BY <1>7, <3>1, <3>2, <3>3
    <3> QED
      BY <1>1, <3>4
  <2>3. CASE i \in 1..L /\ j \notin 1..L
    BY <1>1, <1>2, <1>7, <2>3 DEF ToSet
  <2>4. CASE i \notin 1..L /\ j \in 1..L
    BY <1>1, <1>2, <1>7, <2>4 DEF ToSet
  <2> QED
    BY <2>1, <2>2, <2>3, <2>4
<1> QED
  BY <1>1, <1>6, <1>7 DEF IsInjective

\* An emptied buffer.
LEMMA Emptied == ToSet(<<>>) = {} /\ IsInjective(<<>>)
BY DEF ToSet, IsInjective

\* What Flush has to send: all buffers.
LEMMA AllBuffers ==
  ASSUME IsFiniteSet(Topics)
  PROVE  /\ <<"">> \o SetToSeq(Topics) \in Seq(AllTopics)
         /\ <<"">> \o SetToSeq(Topics) # <<>>
<1>1. /\ Cardinality(Topics) \in Nat
      /\ \E f \in [1..Cardinality(Topics) -> Topics] : IsInjective(f)
  BY FS_CardinalityType DEF ExistsBijection, Bijection, Injection
<1>2. SetToSeq(Topics) \in [1..Cardinality(Topics) -> Topics]
  BY <1>1 DEF SetToSeq
<1>3. SetToSeq(Topics) \in Seq(AllTopics)
  <2> DEFINE f == SetToSeq(Topics)
             n == Cardinality(Topics)
  <2>1. f \in [1..n -> AllTopics] /\ n \in Nat
    BY <1>1, <1>2 DEF AllTopics
  <2> HIDE DEF f, n
  <2>2. f \in Seq(AllTopics)
    BY <2>1
  <2> QED
    BY <2>2 DEF f
<1>4. <<"">> \in Seq(AllTopics)
  BY DEF AllTopics
<1>5. ASSUME NEW T, NEW a \in Seq(T), NEW b \in Seq(T), a # <<>>
      PROVE  a \o b \in Seq(T) /\ a \o b # <<>>
  BY <1>5
<1> QED
  BY <1>3, <1>4, <1>5
-----------------------------------------------------------------------------
(* Steps.                                                                  *)

\* Steps of a caller that does not wait for an answer, before and after, and that
\* leave the buffers alone.
LEMMA QuietInv ==
  ASSUME A_Inv, NEW c \in LogCallers, NEW r \in Call, calls' = [calls EXCEPT ![c] = r],
         calls[c].pc \notin {"stored", "failed"}, r.pc \notin {"stored", "failed"},
         r.pc \in {"idle", "panicked"} \/ r.todo # <<>>,
         UNCHANGED <<group, logstore, logs, lock, repliesLost>>
  PROVE  A_Inv'
<1>1. \A d \in LogCallers : calls'[d] = IF d = c THEN r ELSE calls[d]
  BY DEF A_Inv, A_TypeOK
<1>2. A_TypeOK' /\ Numbers' /\ MessagesKept'
  BY DEF A_Inv, A_TypeOK, Numbers, MessagesKept
<1>3. Stages' /\ Stored'
  BY <1>1 DEF A_Inv, Stages, Stored
<1>4. Once'
  BY <1>1 DEF A_Inv, Once, InFlight
<1> QED
  BY <1>2, <1>3, <1>4 DEF A_Inv

\* Nobody waits for an answer while the mutex is free.
LEMMA NobodyWaits ==
  ASSUME "free" \notin LogCallers, A_Inv, lock = "free"
  PROVE  /\ \A c \in LogCallers : calls[c].pc \notin {"stored", "failed"}
         /\ \A t \in AllTopics : ~InFlight(t)
BY DEF A_Inv, Stages, InFlight

\* A message goes into a buffer.
LEMMA aliWriteMsgInv ==
  ASSUME "free" \notin LogCallers, A_Inv, NEW c \in LogCallers, aliWriteMsg(c)
  PROVE  A_Inv'
<1> PICK t \in AllTopics :
      /\ group' = [group EXCEPT ![t] = Append(@, logs + 1)]
      /\ calls' = [calls EXCEPT ![c] = [pc |-> "length", todo |-> <<t>>]]
  <2>1. PICK word \in AllTopics \cup {"unknown"} :
          /\ group' = [group EXCEPT ![GroupOf(word)] = Append(@, logs + 1)]
          /\ calls' = [calls EXCEPT ![c] = [pc |-> "length", todo |-> <<GroupOf(word)>>]]
    BY DEF aliWriteMsg
  <2>2. GroupOf(word) \in AllTopics
    BY DEF GroupOf, AllTopics
  <2> QED
    BY <2>1, <2>2
<1>1. /\ logs' = logs + 1 /\ logs \in Nat
      /\ UNCHANGED <<lock, logstore, repliesLost>>
      /\ lock = "free"
      /\ \A d \in LogCallers : calls[d].pc \notin {"stored", "failed"}
      /\ \A u \in AllTopics : ~InFlight(u)
  BY NobodyWaits DEF aliWriteMsg, requests, A_Inv, A_TypeOK
<1>2. /\ \A d \in LogCallers : calls'[d] = IF d = c THEN [pc |-> "length", todo |-> <<t>>] ELSE calls[d]
      /\ \A u \in AllTopics : group'[u] = IF u = t THEN Append(group[u], logs + 1) ELSE group[u]
      /\ \A u \in AllTopics : group[u] \in Seq(Nat) /\ logstore[u] \in Seq(Nat)
  BY DEF A_Inv, A_TypeOK
<1>3. /\ ToSet(group'[t]) = ToSet(group[t]) \cup {logs + 1}
      /\ IsInjective(group[t]) /\ logs + 1 \notin ToSet(group[t]) => IsInjective(group'[t])
  <2>1. logs + 1 \in Nat /\ group[t] \in Seq(Nat)
    BY <1>1, <1>2
  <2>2. group'[t] = Append(group[t], logs + 1)
    BY <1>2
  <2> QED
    BY ONLY <2>1, <2>2, Appended
<1>9. \A u \in AllTopics \ {t} : group'[u] = group[u]
  BY <1>2
<1>4. A_TypeOK'
  <2>1. [pc |-> "length", todo |-> <<t>>] \in Call
    BY DEF Call
  <2>2. group' \in [AllTopics -> Seq(Nat)]
    <3>1. Append(group[t], logs + 1) \in Seq(Nat)
      BY <1>1, <1>2
    <3> QED
      BY <3>1 DEF A_Inv, A_TypeOK
  <2> QED
    BY <1>1, <2>1, <2>2 DEF A_Inv, A_TypeOK
<1>5. Stages' /\ Stored'
  BY <1>1, <1>2 DEF A_Inv, Stages, Stored
<1>6. /\ \A n \in 1..logs : n \in 1..(logs + 1)
      /\ \A n \in 1..(logs + 1) : n \in 1..logs \/ n = logs + 1
      /\ logs + 1 \in 1..(logs + 1) /\ logs + 1 \notin 1..logs
  BY <1>1
<1>7. Numbers' /\ MessagesKept'
  <2>1. \A u \in AllTopics : ToSet(group[u]) \subseteq 1..logs /\ ToSet(logstore[u]) \subseteq 1..logs
    BY DEF A_Inv, Numbers
  <2>2. \A u \in AllTopics :
          /\ ToSet(group[u]) \subseteq ToSet(group'[u])
          /\ ToSet(group'[u]) \subseteq ToSet(group[u]) \cup {logs + 1}
    <3> TAKE u \in AllTopics
    <3>1. CASE u = t
      BY ONLY <1>3, <3>1
    <3>2. CASE u # t
      <4>1. group'[u] = group[u]
        BY ONLY <1>9, <3>2, u \in AllTopics
      <4> QED
        BY ONLY <4>1
    <3> QED
      BY ONLY <3>1, <3>2
  <2>3. logs + 1 \in ToSet(group'[t])
    BY ONLY <1>3
  <2>4. ASSUME NEW u \in AllTopics
        PROVE  ToSet(group'[u]) \cup ToSet(logstore[u]) \subseteq 1..(logs + 1)
    BY <1>6, <2>1, <2>2
  <2>5. ASSUME NEW n \in 1..(logs + 1)
        PROVE  \E u \in AllTopics : n \in ToSet(group'[u]) \cup ToSet(logstore[u])
    <3>1. CASE n = logs + 1
      BY <2>3, <3>1
    <3>2. CASE n \in 1..logs
      <4>1. PICK u \in AllTopics : n \in ToSet(group[u]) \cup ToSet(logstore[u])
        BY <3>2 DEF A_Inv, MessagesKept
      <4> QED
        BY <2>2, <4>1
    <3> QED
      BY <1>6, <3>1, <3>2
  <2> QED
    BY <1>1, <2>4, <2>5 DEF Numbers, MessagesKept
<1>8. Once'
  <2> SUFFICES ASSUME repliesLost' = 0, NEW u \in AllTopics
               PROVE  /\ IsInjective(group'[u]) /\ IsInjective(logstore'[u])
                      /\ ToSet(group'[u]) \cap ToSet(logstore'[u]) = {}
    BY DEF Once
  <2>1. /\ IsInjective(group[u]) /\ IsInjective(logstore[u])
        /\ ToSet(group[u]) \cap ToSet(logstore[u]) = {}
    BY <1>1 DEF A_Inv, Once
  <2>2. logs + 1 \notin ToSet(group[u]) /\ logs + 1 \notin ToSet(logstore[u])
    BY <1>6 DEF A_Inv, Numbers
  <2>3. logstore'[u] = logstore[u]
    BY <1>1
  <2>4. CASE u = t
    BY ONLY <1>3, <2>1, <2>2, <2>3, <2>4
  <2>5. CASE u # t
    <3>1. group'[u] = group[u]
      BY <1>9, <2>5
    <3> QED
      BY ONLY <2>1, <2>3, <3>1
  <2> QED
    BY <2>4, <2>5
<1> QED
  BY <1>4, <1>5, <1>7, <1>8 DEF A_Inv

\* Length, Flush and the panic leave the buffers alone.
LEMMA QuietSteps ==
  ASSUME IsFiniteSet(Topics), A_Inv, NEW c \in LogCallers,
         WriteMsgPanics(c) \/ Length(c) \/ Flush(c)
  PROVE  A_Inv'
<1>0. /\ calls[c] \in Call /\ AliIdle \in Call
      /\ UNCHANGED <<group, logstore, logs, lock, repliesLost>>
  <2>1. AliIdle \in Call
    BY DEF AliIdle, Call
  <2>2. calls[c] \in Call
    BY DEF A_Inv, A_TypeOK
  <2>3. UNCHANGED <<group, logstore, logs, lock, repliesLost>>
    BY DEF WriteMsgPanics, Length, Flush, requests
  <2> QED
    BY <2>1, <2>2, <2>3
<1>1. CASE WriteMsgPanics(c)
  <2>1. [calls[c] EXCEPT !.pc = "panicked"] \in Call
    BY <1>0 DEF Call
  <2>2. calls' = [calls EXCEPT ![c] = [calls[c] EXCEPT !.pc = "panicked"]]
        /\ calls[c].pc = "idle"
    BY <1>1 DEF WriteMsgPanics
  <2>3. [calls[c] EXCEPT !.pc = "panicked"].pc = "panicked"
    BY <1>0 DEF Call
  <2> QED
    BY <1>0, <2>1, <2>2, <2>3, QuietInv
<1>2. CASE Length(c)
  <2>1. calls[c].pc = "length" /\ calls[c].todo # <<>>
    BY <1>2 DEF Length, A_Inv, Stages
  <2>2. [calls[c] EXCEPT !.pc = "flush"] \in Call
    BY <1>0 DEF Call
  <2>3. /\ [calls[c] EXCEPT !.pc = "flush"].pc = "flush"
        /\ [calls[c] EXCEPT !.pc = "flush"].todo # <<>>
    BY <1>0, <2>1 DEF Call
  <2>4. \/ calls' = [calls EXCEPT ![c] = [calls[c] EXCEPT !.pc = "flush"]]
        \/ calls' = [calls EXCEPT ![c] = AliIdle]
    BY <1>2 DEF Length
  <2>5. AliIdle.pc = "idle"
    BY DEF AliIdle
  <2> QED
    BY <1>0, <2>1, <2>2, <2>3, <2>4, <2>5, QuietInv
<1>3. CASE Flush(c)
  <2> DEFINE r == [pc |-> "flush", todo |-> <<"">> \o SetToSeq(Topics)]
  <2>1. r \in Call /\ r.pc = "flush" /\ r.todo # <<>>
    BY AllBuffers DEF Call
  <2>2. calls' = [calls EXCEPT ![c] = r] /\ calls[c].pc = "idle"
    BY <1>3 DEF Flush
  <2> HIDE DEF r
  <2> QED
    BY <1>0, <2>1, <2>2, QuietInv
<1> QED
  BY <1>1, <1>2, <1>3

\* A caller that has taken the mutex, with its request stored or not.
LEMMA AskedFacts ==
  ASSUME "free" \notin LogCallers, A_Inv, NEW c \in LogCallers, lock = "free", lock' = c,
         NEW s \in {"stored", "failed"}, calls[c].pc = "flush",
         calls' = [calls EXCEPT ![c].pc = s]
  PROVE  /\ \A d \in LogCallers \ {c} :
               calls'[d] = calls[d] /\ calls[d].pc \notin {"stored", "failed"}
         /\ calls'[c].pc = s /\ calls'[c].todo = calls[c].todo
         /\ calls[c].todo # <<>> /\ Head(calls[c].todo) \in AllTopics
         /\ calls' \in [LogCallers -> Call]
         /\ Stages'
<1>1. \A d \in LogCallers : calls[d].pc \notin {"stored", "failed"}
  BY NobodyWaits
<1>2. calls \in [LogCallers -> Call] /\ calls[c] \in Call
  BY DEF A_Inv, A_TypeOK
<1>3. /\ calls' = [calls EXCEPT ![c] = [calls[c] EXCEPT !.pc = s]]
      /\ [calls[c] EXCEPT !.pc = s] \in Call
      /\ [calls[c] EXCEPT !.pc = s].pc = s
      /\ [calls[c] EXCEPT !.pc = s].todo = calls[c].todo
  BY <1>2 DEF Call
<1>4. calls[c].todo # <<>>
  BY DEF A_Inv, Stages
<1>5. Head(calls[c].todo) \in AllTopics
  <2>1. calls[c].todo \in Seq(AllTopics)
    BY <1>2 DEF Call
  <2> QED
    BY <1>4, <2>1
<1>6. /\ \A d \in LogCallers \ {c} : calls'[d] = calls[d]
      /\ calls'[c] = [calls[c] EXCEPT !.pc = s]
      /\ calls' \in [LogCallers -> Call]
  BY <1>2, <1>3
<1>7. Stages'
  BY <1>1, <1>3, <1>4, <1>6 DEF A_Inv, Stages
<1> QED
  BY <1>1, <1>3, <1>4, <1>5, <1>6, <1>7

\* The service stores a buffer, or refuses it.
LEMMA PutLogsInv ==
  ASSUME "free" \notin LogCallers, A_Inv, NEW c \in LogCallers, PutLogs(c)
  PROVE  A_Inv'
<1> DEFINE t == Head(calls[c].todo)
<1>1. /\ calls[c].pc = "flush" /\ lock = "free" /\ lock' = c
      /\ UNCHANGED <<group, logs, repliesLost>>
      /\ \/ /\ logstore' = [logstore EXCEPT ![t] = @ \o group[t]]
            /\ calls' = [calls EXCEPT ![c].pc = "stored"]
         \/ /\ calls' = [calls EXCEPT ![c].pc = "failed"]
            /\ UNCHANGED logstore
  BY DEF PutLogs
<1>2. \A u \in AllTopics : ~InFlight(u)
  BY <1>1, NobodyWaits
<1>3. CASE /\ logstore' = [logstore EXCEPT ![t] = @ \o group[t]]
           /\ calls' = [calls EXCEPT ![c].pc = "stored"]
  <2>1. /\ \A d \in LogCallers \ {c} :
              calls'[d] = calls[d] /\ calls[d].pc \notin {"stored", "failed"}
        /\ calls'[c].pc = "stored" /\ Head(calls'[c].todo) = t
        /\ t \in AllTopics
        /\ calls' \in [LogCallers -> Call] /\ Stages'
    BY <1>1, <1>3, AskedFacts
  <2> HIDE DEF t
  <2>2. group[t] \in Seq(Nat) /\ logstore[t] \in Seq(Nat)
    BY <2>1 DEF A_Inv, A_TypeOK
  <2>3. logstore'[t] = logstore[t] \o group[t]
    BY <1>3, <2>1 DEF A_Inv, A_TypeOK
  <2>4. \A u \in AllTopics : u # t => logstore'[u] = logstore[u]
    BY <1>3 DEF A_Inv, A_TypeOK
  <2>5. ToSet(logstore'[t]) = ToSet(logstore[t]) \cup ToSet(group[t])
    BY ONLY <2>2, <2>3, Joined
  <2>6. A_TypeOK'
    <3>1. logstore[t] \o group[t] \in Seq(Nat)
      BY <2>2
    <3> QED
      BY <1>1, <1>3, <2>1, <3>1 DEF A_Inv, A_TypeOK
  <2>7. Stored'
    <3>1. \A d \in LogCallers : calls'[d].pc = "stored" => d = c
      BY <2>1
    <3>2. ToSet(group'[t]) \subseteq ToSet(logstore'[t])
      BY <1>1, <2>5
    <3> QED
      BY <2>1, <3>1, <3>2 DEF Stored
  <2>8. \A u \in AllTopics :
          /\ ToSet(logstore[u]) \subseteq ToSet(logstore'[u])
          /\ ToSet(logstore'[u]) \subseteq ToSet(logstore[u]) \cup ToSet(group[u])
    <3> TAKE u \in AllTopics
    <3>1. CASE u = t
      BY ONLY <2>5, <3>1
    <3>2. CASE u # t
      <4>1. logstore'[u] = logstore[u]
        BY ONLY <2>4, <3>2, u \in AllTopics
      <4> QED
        BY ONLY <4>1
    <3> QED
      BY ONLY <3>1, <3>2
  <2>9. Numbers' /\ MessagesKept'
    <3>1. Numbers'
      BY <1>1, <2>8 DEF A_Inv, Numbers
    <3>2. MessagesKept'
      BY <1>1, <2>8 DEF A_Inv, MessagesKept
    <3> QED
      BY <3>1, <3>2
  <2>10. Once'
    <3> SUFFICES ASSUME repliesLost' = 0, NEW u \in AllTopics
                 PROVE  /\ IsInjective(group'[u]) /\ IsInjective(logstore'[u])
                        /\ InFlight(u)' \/ ToSet(group'[u]) \cap ToSet(logstore'[u]) = {}
      BY DEF Once
    <3>1. /\ IsInjective(group[u]) /\ IsInjective(logstore[u])
          /\ ToSet(group[u]) \cap ToSet(logstore[u]) = {}
      BY <1>1, <1>2 DEF A_Inv, Once
    <3>2. group'[u] = group[u]
      BY <1>1
    <3>3. CASE u = t
      <4>1. InFlight(u)'
        BY <2>1, <3>3 DEF InFlight
      <4>2. IsInjective(logstore[t] \o group[t])
        BY ONLY <2>2, <3>1, <3>3, Joined
      <4>3. IsInjective(logstore'[u])
        BY ONLY <2>3, <3>3, <4>2
      <4> QED
        BY ONLY <3>1, <3>2, <4>1, <4>3
    <3>4. CASE u # t
      <4>1. logstore'[u] = logstore[u]
        BY <2>4, <3>4
      <4> QED
        BY ONLY <3>1, <3>2, <4>1
    <3> QED
      BY <3>3, <3>4
  <2> QED
    BY <2>1, <2>6, <2>7, <2>9, <2>10 DEF A_Inv
<1>4. CASE calls' = [calls EXCEPT ![c].pc = "failed"] /\ UNCHANGED logstore
  <2>1. /\ \A d \in LogCallers \ {c} :
              calls'[d] = calls[d] /\ calls[d].pc \notin {"stored", "failed"}
        /\ calls'[c].pc = "failed"
        /\ calls' \in [LogCallers -> Call] /\ Stages'
    BY <1>1, <1>4, AskedFacts
  <2>2. A_TypeOK' /\ Numbers' /\ MessagesKept'
    BY <1>1, <1>4, <2>1 DEF A_Inv, A_TypeOK, Numbers, MessagesKept
  <2>3. Stored'
    BY <2>1 DEF Stored
  <2>4. Once'
    BY <1>1, <1>2, <1>4 DEF A_Inv, Once
  <2> QED
    BY <2>1, <2>2, <2>3, <2>4 DEF A_Inv
<1> QED
  BY <1>1, <1>3, <1>4

\* The answer comes, or is lost.
LEMMA AnswerInv ==
  ASSUME "free" \notin LogCallers, A_Inv, NEW c \in LogCallers, Answer(c)
  PROVE  A_Inv'
<1> DEFINE t == Head(calls[c].todo)
           rest == Tail(calls[c].todo)
           r == IF rest = <<>> THEN AliIdle ELSE [pc |-> "flush", todo |-> rest]
<1>1. /\ calls[c].pc \in {"stored", "failed"} /\ lock' = "free"
      /\ calls' = [calls EXCEPT ![c] = r]
      /\ UNCHANGED <<logs, logstore>>
      /\ \/ /\ calls[c].pc = "stored" /\ UNCHANGED repliesLost
            /\ group' = [group EXCEPT ![t] = <<>>]
         \/ /\ calls[c].pc = "stored" /\ repliesLost' = repliesLost + 1
            /\ UNCHANGED group
         \/ /\ calls[c].pc = "failed" /\ UNCHANGED <<group, repliesLost>>
  BY DEF Answer
<1>2. calls[c].todo \in Seq(AllTopics) /\ calls[c].todo # <<>> /\ lock = c
  <2>1. calls[c] \in Call
    BY DEF A_Inv, A_TypeOK
  <2>2. calls[c].todo # <<>> /\ lock = c
    BY <1>1 DEF A_Inv, Stages
  <2> QED
    BY <2>1, <2>2 DEF Call
<1>3. t \in AllTopics /\ rest \in Seq(AllTopics)
  BY <1>2
<1>4. r \in Call /\ r.pc \notin {"stored", "failed"} /\ (r.pc = "idle" \/ r.todo # <<>>)
  <2>1. CASE rest = <<>>
    BY <2>1 DEF AliIdle, Call
  <2>2. CASE rest # <<>>
    BY <1>3, <2>2 DEF Call
  <2> QED
    BY <2>1, <2>2
<1> HIDE DEF t, rest, r
<1>5. /\ \A d \in LogCallers \ {c} :
            calls'[d] = calls[d] /\ calls[d].pc \notin {"stored", "failed"}
      /\ calls'[c] = r
      /\ calls' \in [LogCallers -> Call]
  <2>1. \A d \in LogCallers \ {c} : calls[d].pc \notin {"stored", "failed"}
    BY <1>2 DEF A_Inv, Stages
  <2> QED
    BY <1>1, <1>4, <2>1 DEF A_Inv, A_TypeOK
<1>6. Stages' /\ Stored'
  <2>1. \A d \in LogCallers : calls'[d].pc \notin {"stored", "failed"}
    BY <1>4, <1>5
  <2>2. Stored'
    BY <2>1 DEF Stored
  <2>3. Stages'
    BY <1>4, <1>5, <2>1 DEF A_Inv, Stages
  <2> QED
    BY <2>2, <2>3
<1>7. \A u \in AllTopics : InFlight(u) => calls[c].pc = "stored" /\ u = t
  BY <1>5 DEF InFlight, t
<1>8. CASE calls[c].pc = "stored" /\ UNCHANGED repliesLost /\ group' = [group EXCEPT ![t] = <<>>]
  <2>1. group'[t] = <<>> /\ \A u \in AllTopics : u # t => group'[u] = group[u]
    BY <1>3, <1>8 DEF A_Inv, A_TypeOK
  <2>2. ToSet(group'[t]) = {} /\ IsInjective(group'[t])
    BY ONLY <2>1, Emptied
  <2>3. \A u \in AllTopics : ToSet(group'[u]) \subseteq ToSet(group[u])
    <3> TAKE u \in AllTopics
    <3>1. CASE u = t
      BY ONLY <2>2, <3>1
    <3>2. CASE u # t
      <4>1. group'[u] = group[u]
        BY ONLY <2>1, <3>2, u \in AllTopics
      <4> QED
        BY ONLY <4>1
    <3> QED
      BY ONLY <3>1, <3>2
  <2>4. A_TypeOK'
    BY <1>1, <1>3, <1>5, <1>8 DEF A_Inv, A_TypeOK
  <2>5. Numbers'
    BY <1>1, <2>3 DEF A_Inv, Numbers
  <2>6. MessagesKept'
    <3>1. ToSet(group[t]) \subseteq ToSet(logstore[t])
      BY <1>8 DEF A_Inv, Stored, t
    <3>2. ASSUME NEW n \in 1..logs
          PROVE  \E u \in AllTopics : n \in ToSet(group'[u]) \cup ToSet(logstore[u])
      <4>1. PICK u \in AllTopics : n \in ToSet(group[u]) \cup ToSet(logstore[u])
        BY DEF A_Inv, MessagesKept
      <4>2. CASE u = t
        BY ONLY <3>1, <4>1, <4>2, u \in AllTopics
      <4>3. CASE u # t
        <5>1. group'[u] = group[u]
          BY <2>1, <4>3
        <5> QED
          BY ONLY <4>1, <5>1, u \in AllTopics
      <4> QED
        BY <4>2, <4>3
    <3> QED
      BY <1>1, <3>2 DEF MessagesKept
  <2>7. Once'
    <3> SUFFICES ASSUME repliesLost' = 0, NEW u \in AllTopics
                 PROVE  /\ IsInjective(group'[u]) /\ IsInjective(logstore'[u])
                        /\ ToSet(group'[u]) \cap ToSet(logstore'[u]) = {}
      BY DEF Once
    <3>1. /\ IsInjective(group[u]) /\ IsInjective(logstore[u])
          /\ InFlight(u) \/ ToSet(group[u]) \cap ToSet(logstore[u]) = {}
      BY <1>8 DEF A_Inv, Once
    <3>2. logstore'[u] = logstore[u]
      BY <1>1
    <3>3. CASE u = t
      BY ONLY <2>2, <3>1, <3>2, <3>3
    <3>4. CASE u # t
      <4>1. group'[u] = group[u] /\ ~InFlight(u)
        BY <1>7, <2>1, <3>4
      <4> QED
        BY ONLY <3>1, <3>2, <4>1
    <3> QED
      BY <3>3, <3>4
  <2> QED
    BY <1>6, <2>4, <2>5, <2>6, <2>7 DEF A_Inv
<1>9. CASE UNCHANGED group /\ (\/ repliesLost' = repliesLost + 1
                               \/ calls[c].pc = "failed" /\ UNCHANGED repliesLost)
  <2>1. A_TypeOK' /\ Numbers' /\ MessagesKept'
    BY <1>1, <1>5, <1>9 DEF A_Inv, A_TypeOK, Numbers, MessagesKept
  <2>2. Once'
    <3>1. CASE repliesLost' = repliesLost + 1
      <4>1. repliesLost' # 0
        BY <3>1 DEF A_Inv, A_TypeOK
      <4> QED
        BY <4>1 DEF Once
    <3>2. CASE calls[c].pc = "failed" /\ UNCHANGED repliesLost
      BY <1>1, <1>7, <1>9, <3>2 DEF A_Inv, Once
    <3> QED
      BY <1>9, <3>1, <3>2
  <2> QED
    BY <1>6, <2>1, <2>2 DEF A_Inv
<1> QED
  BY <1>1, <1>8, <1>9
-----------------------------------------------------------------------------
(* Theorems.                                                               *)

\* Every step keeps the invariant.
LEMMA StepInv ==
  ASSUME "free" \notin LogCallers, IsFiniteSet(Topics), A_Inv, [AliNext]_aliVars
  PROVE  A_Inv'
<1>1. CASE UNCHANGED aliVars
  BY <1>1 DEF aliVars, A_Inv, A_TypeOK, Stages, Stored, Numbers, MessagesKept, Once, InFlight
<1>2. CASE AliNext
  BY <1>2, aliWriteMsgInv, QuietSteps, PutLogsInv, AnswerInv DEF AliNext
<1> QED
  BY <1>1, <1>2

\* No buffer holds a message at first.
LEMMA InitInv ==
  ASSUME AliInit
  PROVE  A_Inv
<1>1. \A u \in AllTopics : group[u] = <<>> /\ logstore[u] = <<>>
  BY DEF AliInit
<1>2. A_TypeOK
  BY DEF AliInit, A_TypeOK, AliIdle, Call
<1>3. Stages /\ Stored
  BY DEF AliInit, AliIdle, Stages, Stored
<1>4. \A u \in AllTopics : ToSet(group[u]) = {} /\ IsInjective(group[u])
                           /\ ToSet(logstore[u]) = {} /\ IsInjective(logstore[u])
  BY <1>1, Emptied
<1>5. Numbers /\ MessagesKept /\ Once
  BY <1>4 DEF AliInit, Numbers, MessagesKept, Once
<1> QED
  BY <1>2, <1>3, <1>5 DEF A_Inv

\* A message that WriteMsg took is in its buffer or at the service, and there
\* twice only after an answer was lost, whatever is sent at the same time and
\* whatever fails (alils.go:148-182).
THEOREM MessagesDelivered ==
  ASSUME "free" \notin LogCallers, IsFiniteSet(Topics)
  PROVE  AliSpec => []Delivered
<1>1. AliInit => A_Inv
  BY InitInv
<1>2. A_Inv /\ [AliNext]_aliVars => A_Inv'
  BY StepInv
<1>3. A_Inv => Delivered
  BY DEF A_Inv, Once, Delivered, StoredOnce
<1> QED
  BY <1>1, <1>2, <1>3, PTL DEF AliSpec
-----------------------------------------------------------------------------
(* The order of a topic's messages, and how many wait (AliLog).             *)

Ascending == \A t \in AllTopics : \A i, j \in DOMAIN group[t] : i < j => group[t][i] < group[t][j]

\* A buffered message that is older than one at the service was there before it.
SentBefore(g, s) ==
    \A i \in DOMAIN g, j \in DOMAIN s : s[j] > g[i] => \E k \in 1..(j - 1) : s[k] = g[i]

SeenBefore == \A t \in AllTopics : SentBefore(group[t], logstore[t])

O_Inv == Ascending /\ SeenBefore /\ StoredInOrder

\* Who has nothing to send, and who has one buffer to look at; no request fails.
Errands ==
    \A c \in LogCallers :
        /\ calls[c].pc \in {"idle", "panicked"} => calls[c].todo = <<>>
        /\ calls[c].pc = "length" => Len(calls[c].todo) = 1
        /\ failures = 0 => calls[c].pc # "failed"

Z_Inv == failures \in Nat /\ rejected = FALSE /\ Errands /\ BufferBounded

S_Inv == A_Inv /\ O_Inv /\ Z_Inv
-----------------------------------------------------------------------------
(* The signature.                                                          *)

\* The only increasing order of 1..n is the identity.
LEMMA IncreasingIdentity ==
  ASSUME NEW n \in Nat, NEW s \in [1..n -> 1..n],
         \A i, j \in 1..n : i < j => s[i] < s[j]
  PROVE  s = [h \in 1..n |-> h]
<1>1. \A i, j \in 1..n : s[i] = s[j] => i = j
  <2> SUFFICES ASSUME NEW i \in 1..n, NEW j \in 1..n, s[i] = s[j] PROVE i = j
    OBVIOUS
  <2>1. s[i] \in Int /\ s[j] \in Int /\ i \in Int /\ j \in Int
    OBVIOUS
  <2>2. ~(i < j) /\ ~(j < i)
    BY <2>1
  <2> QED
    BY <2>1, <2>2
<1>2. \A v \in 1..n : \E j \in 1..n : s[j] = v
  <2>1. s \in Injection(1..n, 1..n)
    BY <1>1 DEF Injection, IsInjective
  <2>2. IsFiniteSet(1..n)
    BY FS_Interval
  <2>3. s \in Surjection(1..n, 1..n)
    BY ONLY <2>1, <2>2, FS_Injection
  <2> QED
    BY <2>3 DEF Surjection
<1>3. ASSUME NEW b \in 1..n, s[b] # b PROVE FALSE
  <2> DEFINE B == {i \in 1..n : s[i] # i}
  <2>1. PICK i \in B : \A j \in B : ~(j < i)
    <3>1. B \subseteq Nat /\ B # {}
      BY <1>3
    <3>2. \E i \in B : \A j \in B : <<j, i>> \notin OpToRel(<, Nat)
      BY <3>1, NatLessThanWellFounded, WFMin
    <3>3. PICK i \in B : \A j \in B : <<j, i>> \notin OpToRel(<, Nat)
      BY <3>2
    <3> HIDE DEF B
    <3>4. \A j \in B : ~(j < i)
      BY <3>1, <3>3 DEF OpToRel
    <3> QED
      BY <3>4
  <2>2. i \in 1..n /\ s[i] # i /\ s[i] \in 1..n
    OBVIOUS
  <2>3. \A j \in 1..n : j < i => s[j] = j
    BY <2>1
  <2>4. ~(s[i] < i)
    <3> SUFFICES ASSUME s[i] < i PROVE FALSE
      OBVIOUS
    <3>1. s[s[i]] = s[i]
      BY <2>2, <2>3
    <3> QED
      BY <1>1, <2>2, <3>1
  <2>5. PICK j \in 1..n : s[j] = i
    BY <1>2, <2>2
  <2>6. j # i /\ ~(j < i)
    BY <2>2, <2>3, <2>5
  <2>7. s[i] < s[j]
    BY <2>2, <2>6
  <2> QED
    BY <2>2, <2>4, <2>5, <2>7
<1> QED
  BY <1>3

\* Whatever order the headers are found in, what is signed is the same.
LEMMA Signed ==
  ASSUME NEW order \in Orders
  PROVE  Accepts(order)
<1> DEFINE id == [h \in slsHeaders |-> h]
           Is(sorted) == /\ ToSet(sorted) = ToSet(order)
                         /\ \A i, j \in slsHeaders : i < j => sorted[i] < sorted[j]
<1>1. NHeaders \in Nat /\ slsHeaders = 1..NHeaders
  BY AliConstants DEF slsHeaders
<1>2. order \in [slsHeaders -> slsHeaders] /\ IsInjective(order)
  BY DEF Orders
<1>3. ToSet(order) = slsHeaders
  <2>1. order \in Injection(slsHeaders, slsHeaders)
    BY <1>2 DEF Injection
  <2>2. IsFiniteSet(slsHeaders)
    BY <1>1, FS_Interval
  <2>3. order \in Surjection(slsHeaders, slsHeaders)
    BY ONLY <2>1, <2>2, FS_Injection
  <2> QED
    BY <1>2, <2>3 DEF Surjection, ToSet
<1>4. id \in Orders /\ Is(id)
  <2>1. id \in Orders
    BY DEF Orders, IsInjective
  <2>2. ToSet(id) = slsHeaders
    BY DEF ToSet
  <2> QED
    BY <1>3, <2>1, <2>2
<1>5. signature(order) \in Orders /\ Is(signature(order))
  <2> HIDE DEF id
  <2> QED
    BY <1>4 DEF signature
<1>6. signature(order) = id
  <2> DEFINE s == signature(order)
  <2>1. s \in [1..NHeaders -> 1..NHeaders] /\ \A i, j \in 1..NHeaders : i < j => s[i] < s[j]
    BY <1>1, <1>5 DEF Orders
  <2> HIDE DEF s
  <2>2. s = [h \in 1..NHeaders |-> h]
    BY <1>1, <2>1, IncreasingIdentity
  <2> QED
    BY <1>1, <2>2 DEF s
<1> QED
  BY <1>6 DEF Accepts
-----------------------------------------------------------------------------
(* Order.                                                                  *)

Rising(g) == \A i, j \in DOMAIN g : i < j => g[i] < g[j]
InOrder(s) ==
    \A i, j \in DOMAIN s : i < j /\ s[i] > s[j] => \E k \in 1..(i - 1) : s[k] = s[j]

\* A message newer than all others.
LEMMA NewerLast ==
  ASSUME NEW g \in Seq(Nat), NEW s \in Seq(Nat), NEW n \in Nat,
         ToSet(g) \cup ToSet(s) \subseteq 1..n, Rising(g), SentBefore(g, s)
  PROVE  Rising(Append(g, n + 1)) /\ SentBefore(Append(g, n + 1), s)
<1> DEFINE a == Append(g, n + 1)
<1>1. /\ DOMAIN a = 1..(Len(g) + 1) /\ DOMAIN g = 1..Len(g) /\ Len(g) \in Nat
      /\ \A i \in 1..Len(g) : a[i] = g[i]
      /\ a[Len(g) + 1] = n + 1
      /\ DOMAIN s = 1..Len(s) /\ Len(s) \in Nat
  OBVIOUS
<1>2. /\ \A i \in 1..Len(g) : g[i] \in 1..n
      /\ \A i \in 1..Len(s) : s[i] \in 1..n
  BY <1>1 DEF ToSet
<1> HIDE DEF a
<1>3. \A i \in 1..(Len(g) + 1) : i \in 1..Len(g) \/ i = Len(g) + 1
  BY <1>1
<1>4. Rising(a)
  <2> SUFFICES ASSUME NEW i \in 1..(Len(g) + 1), NEW j \in 1..(Len(g) + 1), i < j
               PROVE  a[i] < a[j]
    BY <1>1 DEF Rising
  <2>1. i \in 1..Len(g)
    BY <1>1
  <2>2. CASE j \in 1..Len(g)
    BY <1>1, <2>1, <2>2 DEF Rising
  <2>3. CASE j = Len(g) + 1
    <3>1. a[i] \in 1..n /\ a[j] = n + 1
      BY <1>1, <1>2, <2>1, <2>3
    <3> QED
      BY <3>1
  <2> QED
    BY <1>3, <2>2, <2>3
<1>5. SentBefore(a, s)
  <2> SUFFICES ASSUME NEW i \in 1..(Len(g) + 1), NEW j \in 1..Len(s), s[j] > a[i]
               PROVE  \E k \in 1..(j - 1) : s[k] = a[i]
    BY <1>1 DEF SentBefore
  <2>1. i # Len(g) + 1
    BY <1>1, <1>2
  <2>2. i \in DOMAIN g /\ j \in DOMAIN s /\ a[i] = g[i]
    BY <1>1, <1>3, <2>1
  <2> QED
    BY <2>2 DEF SentBefore
<1> QED
  BY <1>4, <1>5 DEF a

\* A buffer is stored behind what is there.
LEMMA StoredBehind ==
  ASSUME NEW g \in Seq(Nat), NEW s \in Seq(Nat), Rising(g), SentBefore(g, s), InOrder(s)
  PROVE  InOrder(s \o g) /\ SentBefore(g, s \o g)
<1> DEFINE L == Len(s)
           M == Len(g)
           b == s \o g
<1>1. /\ DOMAIN b = 1..(L + M) /\ DOMAIN s = 1..L /\ DOMAIN g = 1..M
      /\ L \in Nat /\ M \in Nat
      /\ \A i \in 1..L : b[i] = s[i]
      /\ \A i \in 1..(L + M) : i > L => b[i] = g[i - L]
      /\ \A i \in 1..L : s[i] \in Nat
      /\ \A i \in 1..M : g[i] \in Nat
  OBVIOUS
<1> HIDE DEF L, M, b
<1>2. \A i \in 1..(L + M) : i \in 1..L \/ (i > L /\ i - L \in 1..M)
  BY <1>1
<1>3. ASSUME NEW i \in 1..M, NEW j \in 1..(L + M), b[j] > g[i]
      PROVE  \E k \in 1..(j - 1) : b[k] = g[i]
  <2>1. CASE j \in 1..L
    <3>1. PICK k \in 1..(j - 1) : s[k] = g[i]
      BY <1>1, <1>3, <2>1 DEF SentBefore
    <3>2. k \in 1..L
      BY <1>1, <2>1
    <3> QED
      BY <1>1, <3>1, <3>2
  <2>2. CASE j > L /\ j - L \in 1..M
    <3>1. b[j] = g[j - L]
      BY <1>1, <2>2
    <3>2. i < j - L
      <4>1. ~(j - L < i)
        <5> SUFFICES ASSUME j - L < i PROVE FALSE
          OBVIOUS
        <5>1. g[j - L] < g[i]
          BY <1>1, <2>2 DEF Rising
        <5> QED
          BY <1>1, <1>3, <2>2, <3>1, <5>1
      <4>2. j - L # i
        <5> SUFFICES ASSUME j - L = i PROVE FALSE
          OBVIOUS
        <5>1. b[j] = g[i] /\ g[i] \in Nat
          BY <1>1, <3>1
        <5> QED
          BY <1>3, <5>1
      <4> QED
        BY <1>1, <4>1, <4>2
    <3>3. L + i \in 1..(j - 1) /\ L + i \in 1..(L + M) /\ L + i > L /\ (L + i) - L = i
      BY <1>1, <3>2
    <3>4. b[L + i] = g[i]
      BY <1>1, <3>3
    <3> QED
      BY <3>3, <3>4
  <2> QED
    BY <1>2, <2>1, <2>2
<1>4. SentBefore(g, b)
  BY <1>1, <1>3 DEF SentBefore
<1>5. InOrder(b)
  <2> SUFFICES ASSUME NEW i \in 1..(L + M), NEW j \in 1..(L + M), i < j, b[i] > b[j]
               PROVE  \E k \in 1..(i - 1) : b[k] = b[j]
    BY <1>1 DEF InOrder
  <2>1. CASE j \in 1..L
    <3>1. i \in 1..L
      BY <1>1, <2>1
    <3>2. PICK k \in 1..(i - 1) : s[k] = s[j]
      BY <1>1, <2>1, <3>1 DEF InOrder
    <3>3. k \in 1..L
      BY <1>1, <3>1
    <3> QED
      BY <1>1, <2>1, <3>2, <3>3
  <2>2. CASE j > L /\ j - L \in 1..M
    <3>1. b[j] = g[j - L]
      BY <1>1, <2>2
    <3> QED
      BY <1>3, <2>2, <3>1
  <2> QED
    BY <1>2, <2>1, <2>2
<1> QED
  BY <1>4, <1>5 DEF b

\* Nothing changes the order but WriteMsg, PutLogs and Answer.
LEMMA OrderKept ==
  ASSUME NEW t, O_Inv, \A u \in AllTopics : u # t => UNCHANGED <<group[u], logstore[u]>>,
         t \in AllTopics =>
            Rising(group'[t]) /\ SentBefore(group'[t], logstore'[t]) /\ InOrder(logstore'[t])
  PROVE  O_Inv'
<1>1. \A u \in AllTopics : Rising(group[u]) /\ SentBefore(group[u], logstore[u]) /\ InOrder(logstore[u])
  BY DEF O_Inv, Ascending, SeenBefore, StoredInOrder, Rising, InOrder
<1>2. \A u \in AllTopics : Rising(group'[u]) /\ SentBefore(group'[u], logstore'[u]) /\ InOrder(logstore'[u])
  <2> TAKE u \in AllTopics
  <2>1. CASE u = t
    BY <2>1
  <2>2. CASE u # t
    <3>1. group'[u] = group[u] /\ logstore'[u] = logstore[u]
      BY <2>2
    <3> QED
      BY ONLY <1>1, <3>1, u \in AllTopics
  <2> QED
    BY <2>1, <2>2
<1>3. Ascending' /\ SeenBefore' /\ StoredInOrder'
  BY <1>2 DEF Ascending, SeenBefore, StoredInOrder, Rising, InOrder
<1> QED
  BY <1>3 DEF O_Inv

\* What the invariants say of one topic.
LEMMA TopicFacts ==
  ASSUME A_Inv, O_Inv, NEW t \in AllTopics
  PROVE  /\ group[t] \in Seq(Nat) /\ logstore[t] \in Seq(Nat)
         /\ ToSet(group[t]) \cup ToSet(logstore[t]) \subseteq 1..logs /\ logs \in Nat
         /\ Rising(group[t]) /\ SentBefore(group[t], logstore[t]) /\ InOrder(logstore[t])
BY DEF A_Inv, A_TypeOK, Numbers, O_Inv, Ascending, SeenBefore, StoredInOrder, Rising, InOrder

\* The order of the messages in every step.
LEMMA OrderStep ==
  ASSUME "free" \notin LogCallers, A_Inv, O_Inv, [AliNext]_aliVars
  PROVE  O_Inv'
<1>1. ASSUME UNCHANGED <<group, logstore>> PROVE O_Inv'
  BY <1>1 DEF O_Inv, Ascending, SeenBefore, SentBefore, StoredInOrder
<1>2. ASSUME NEW c \in LogCallers, aliWriteMsg(c) PROVE O_Inv'
  <2>1. PICK t \in AllTopics : group' = [group EXCEPT ![t] = Append(@, logs + 1)]
    <3>1. PICK word \in AllTopics \cup {"unknown"} :
            group' = [group EXCEPT ![GroupOf(word)] = Append(@, logs + 1)]
      BY <1>2 DEF aliWriteMsg
    <3>2. GroupOf(word) \in AllTopics
      BY DEF GroupOf, AllTopics
    <3> QED
      BY <3>1, <3>2
  <2>2. logstore' = logstore
    BY <1>2 DEF aliWriteMsg
  <2>3. \A u \in AllTopics : group'[u] = IF u = t THEN Append(group[u], logs + 1) ELSE group[u]
    BY <2>1 DEF A_Inv, A_TypeOK
  <2>4. Rising(Append(group[t], logs + 1)) /\ SentBefore(Append(group[t], logs + 1), logstore[t])
    BY TopicFacts, NewerLast
  <2>5. Rising(group'[t]) /\ SentBefore(group'[t], logstore'[t]) /\ InOrder(logstore'[t])
    BY <2>2, <2>3, <2>4, TopicFacts
  <2> QED
    BY <2>2, <2>3, <2>5, OrderKept
<1>3. ASSUME NEW c \in LogCallers, PutLogs(c) PROVE O_Inv'
  <2> DEFINE t == Head(calls[c].todo)
  <2>1. /\ group' = group
        /\ UNCHANGED logstore \/ logstore' = [logstore EXCEPT ![t] = @ \o group[t]]
    BY <1>3 DEF PutLogs
  <2>2. CASE UNCHANGED logstore
    BY <1>1, <2>1, <2>2
  <2>3. CASE logstore' = [logstore EXCEPT ![t] = @ \o group[t]]
    <3> HIDE DEF t
    <3>1. \A u \in AllTopics :
            logstore'[u] = IF u = t THEN logstore[u] \o group[u] ELSE logstore[u]
      BY <2>3 DEF A_Inv, A_TypeOK
    <3>2. ASSUME t \in AllTopics
          PROVE  Rising(group'[t]) /\ SentBefore(group'[t], logstore'[t]) /\ InOrder(logstore'[t])
      <4>1. InOrder(logstore[t] \o group[t]) /\ SentBefore(group[t], logstore[t] \o group[t])
        BY <3>2, TopicFacts, StoredBehind
      <4> QED
        BY <2>1, <3>1, <3>2, <4>1, TopicFacts
    <3> QED
      BY <2>1, <3>1, <3>2, OrderKept
  <2> QED
    BY <2>1, <2>2, <2>3
<1>4. ASSUME NEW c \in LogCallers, Answer(c) PROVE O_Inv'
  <2> DEFINE t == Head(calls[c].todo)
  <2>1. /\ logstore' = logstore
        /\ UNCHANGED group \/ group' = [group EXCEPT ![t] = <<>>]
    BY <1>4 DEF Answer
  <2>2. CASE UNCHANGED group
    BY <1>1, <2>1, <2>2
  <2>3. CASE group' = [group EXCEPT ![t] = <<>>]
    <3> HIDE DEF t
    <3>1. \A u \in AllTopics : group'[u] = IF u = t THEN <<>> ELSE group[u]
      BY <2>3 DEF A_Inv, A_TypeOK
    <3>2. \A s : Rising(<<>>) /\ SentBefore(<<>>, s)
      BY DEF Rising, SentBefore
    <3>3. t \in AllTopics =>
            Rising(group'[t]) /\ SentBefore(group'[t], logstore'[t]) /\ InOrder(logstore'[t])
      BY <2>1, <3>1, <3>2, TopicFacts
    <3> QED
      BY <2>1, <3>1, <3>3, OrderKept
  <2> QED
    BY <2>1, <2>2, <2>3
<1>5. ASSUME NEW c \in LogCallers, WriteMsgPanics(c) \/ Length(c) \/ Flush(c) PROVE O_Inv'
  <2>1. UNCHANGED <<group, logstore>>
    BY <1>5 DEF WriteMsgPanics, Length, Flush
  <2> QED
    BY <1>1, <2>1
<1>6. CASE UNCHANGED aliVars
  BY <1>1, <1>6 DEF aliVars
<1> QED
  BY <1>2, <1>3, <1>4, <1>5, <1>6 DEF AliNext
-----------------------------------------------------------------------------
(* The size of the buffers.                                                *)

Askers(t) == {c \in LogCallers : t \in ToSet(calls[c].todo)}

\* Nothing refuses a request or loses an answer in a step that leaves both zero.
LEMMA SizeRest ==
  ASSUME Z_Inv, failures' \in Nat, UNCHANGED rejected, Errands',
         ASSUME failures' = 0, repliesLost' = 0, NEW t \in AllTopics
         PROVE  Len(group'[t]) <= Waiting + Cardinality(Askers(t)')
  PROVE  Z_Inv'
BY DEF Z_Inv, BufferBounded, Askers

\* With one caller more or less, or the same ones.
LEMMA AskerCounts ==
  ASSUME IsFiniteSet(LogCallers), NEW t
  PROVE  /\ Cardinality(Askers(t)) \in Nat
         /\ \A c \in LogCallers : Askers(t)' = Askers(t) \cup {c} /\ c \notin Askers(t)
               => Cardinality(Askers(t)') = Cardinality(Askers(t)) + 1
         /\ \A c \in LogCallers : Askers(t)' = Askers(t) \ {c} /\ c \in Askers(t)
               => Cardinality(Askers(t)') = Cardinality(Askers(t)) - 1
         /\ Askers(t) \subseteq Askers(t)' => Cardinality(Askers(t)) <= Cardinality(Askers(t)')
         /\ Cardinality(Askers(t)') \in Nat
<1>1. Askers(t) \subseteq LogCallers /\ Askers(t)' \subseteq LogCallers
  BY DEF Askers
<1>2. IsFiniteSet(Askers(t)) /\ IsFiniteSet(Askers(t)')
  BY <1>1, FS_Subset
<1>3. Cardinality(Askers(t)) \in Nat /\ Cardinality(Askers(t)') \in Nat
  BY <1>2, FS_CardinalityType
<1>4. Askers(t) \subseteq Askers(t)' => Cardinality(Askers(t)) <= Cardinality(Askers(t)')
  BY <1>2, FS_Subset
<1>5. \A c \in LogCallers : Askers(t)' = Askers(t) \cup {c} /\ c \notin Askers(t)
               => Cardinality(Askers(t)') = Cardinality(Askers(t)) + 1
  BY <1>2, FS_AddElement
<1>6. \A c \in LogCallers : Askers(t)' = Askers(t) \ {c} /\ c \in Askers(t)
               => Cardinality(Askers(t)') = Cardinality(Askers(t)) - 1
  BY <1>2, FS_RemoveElement
<1> QED
  BY <1>3, <1>4, <1>5, <1>6

\* A caller's call changes.
LEMMA AskersChanged ==
  ASSUME A_Inv, NEW c \in LogCallers, NEW r, calls' = [calls EXCEPT ![c] = r]
  PROVE  /\ \A d \in LogCallers : calls'[d] = IF d = c THEN r ELSE calls[d]
         /\ \A t : t \in ToSet(r.todo) => Askers(t)' = Askers(t) \cup {c}
         /\ \A t : t \notin ToSet(r.todo) => Askers(t)' = Askers(t) \ {c}
<1>1. \A d \in LogCallers : calls'[d] = IF d = c THEN r ELSE calls[d]
  BY DEF A_Inv, A_TypeOK
<1>2. ASSUME NEW t, NEW d
      PROVE  d \in Askers(t)' <=> /\ d \in LogCallers
                                  /\ \/ d = c /\ t \in ToSet(r.todo)
                                     \/ d # c /\ d \in Askers(t)
  BY <1>1 DEF Askers
<1>3. \A t : t \in ToSet(r.todo) => Askers(t)' = Askers(t) \cup {c}
  BY <1>2 DEF Askers
<1>4. \A t : t \notin ToSet(r.todo) => Askers(t)' = Askers(t) \ {c}
  BY <1>2 DEF Askers
<1> QED
  BY <1>1, <1>3, <1>4

\* What is said of one caller stays true of the others.
LEMMA ErrandsKept ==
  ASSUME Errands, NEW c \in LogCallers, NEW r, failures' = 0 => failures = 0,
         \A d \in LogCallers : calls'[d] = IF d = c THEN r ELSE calls[d],
         r.pc \in {"idle", "panicked"} => r.todo = <<>>,
         r.pc = "length" => Len(r.todo) = 1,
         failures' = 0 => r.pc # "failed"
  PROVE  Errands'
BY DEF Errands

\* The bound of a buffer.
LEMMA Sizes ==
  ASSUME A_Inv, Z_Inv, NEW t \in AllTopics, failures = 0, repliesLost = 0
  PROVE  Len(group[t]) <= Waiting + Cardinality(Askers(t))
BY DEF Z_Inv, BufferBounded, Askers

\* The elements of a sequence are its head and those of its tail.
LEMMA Elements ==
  /\ ToSet(<<>>) = {}
  /\ \A t : ToSet(<<t>>) = {t}
  /\ \A T : \A s \in Seq(T) : s # <<>> => ToSet(s) = {Head(s)} \cup ToSet(Tail(s))
  /\ \A T : \A s \in Seq(T) : Len(s) = 1 => ToSet(s) = {Head(s)}
<1>1. ToSet(<<>>) = {}
  BY DEF ToSet
<1>2. \A t : ToSet(<<t>>) = {t}
  <2> TAKE t
  <2>1. DOMAIN <<t>> = {1} /\ <<t>>[1] = t
    OBVIOUS
  <2> QED
    BY ONLY <2>1 DEF ToSet
<1>3. ASSUME NEW T, NEW s \in Seq(T), s # <<>>
      PROVE  ToSet(s) = {Head(s)} \cup ToSet(Tail(s))
  <2> DEFINE n == Len(s)
             r == Tail(s)
  <2>1. /\ n \in Nat \ {0} /\ DOMAIN s = 1..n /\ Head(s) = s[1]
        /\ DOMAIN r = 1..(n - 1) /\ \A i \in 1..(n - 1) : r[i] = s[i + 1]
    BY <1>3
  <2> HIDE DEF n, r
  <2>2. \A i \in 1..n : i = 1 \/ (i - 1 \in 1..(n - 1) /\ (i - 1) + 1 = i)
    BY <2>1
  <2>3. \A i \in 1..(n - 1) : i + 1 \in 1..n
    BY <2>1
  <2>4. 1 \in 1..n
    BY <2>1
  <2>5. ToSet(s) \subseteq {Head(s)} \cup ToSet(r)
    <3> SUFFICES ASSUME NEW i \in 1..n PROVE s[i] \in {s[1]} \cup ToSet(r)
      BY <2>1 DEF ToSet
    <3>1. CASE i = 1
      BY <3>1
    <3>2. CASE i - 1 \in 1..(n - 1) /\ (i - 1) + 1 = i
      <4>1. i - 1 \in DOMAIN r /\ r[i - 1] = s[i]
        BY <2>1, <3>2
      <4> QED
        BY <4>1 DEF ToSet
    <3> QED
      BY <2>2, <3>1, <3>2
  <2>6. {Head(s)} \cup ToSet(r) \subseteq ToSet(s)
    BY <2>1, <2>3, <2>4 DEF ToSet
  <2> QED
    BY <2>5, <2>6 DEF r
<1>4. ASSUME NEW T, NEW s \in Seq(T), Len(s) = 1
      PROVE  ToSet(s) = {Head(s)}
  <2>1. DOMAIN s = 1..Len(s) /\ Len(<<>>) = 0
    OBVIOUS
  <2>2. DOMAIN s = 1..1
    BY <1>4, <2>1
  <2>3. Head(s) = s[1]
    BY <1>4, HeadTailProperties
  <2>4. ToSet(s) = {s[1]}
    BY <2>2 DEF ToSet
  <2> QED
    BY <2>3, <2>4
<1> QED
  BY <1>1, <1>2, <1>3, <1>4

\* One more log in a buffer, and one caller more to look at it.
LEMMA WriteMsgSize ==
  ASSUME IsFiniteSet(LogCallers), A_Inv, Z_Inv, NEW c \in LogCallers, aliWriteMsg(c)
  PROVE  Z_Inv'
<1> PICK t \in AllTopics :
      /\ group' = [group EXCEPT ![t] = Append(@, logs + 1)]
      /\ calls' = [calls EXCEPT ![c] = [pc |-> "length", todo |-> <<t>>]]
  <2>1. PICK word \in AllTopics \cup {"unknown"} :
          /\ group' = [group EXCEPT ![GroupOf(word)] = Append(@, logs + 1)]
          /\ calls' = [calls EXCEPT ![c] = [pc |-> "length", todo |-> <<GroupOf(word)>>]]
    BY DEF aliWriteMsg
  <2>2. GroupOf(word) \in AllTopics
    BY DEF GroupOf, AllTopics
  <2> QED
    BY <2>1, <2>2
<1> DEFINE r == [pc |-> "length", todo |-> <<t>>]
<1>1. calls[c].pc = "idle" /\ UNCHANGED <<failures, repliesLost, rejected>>
  BY DEF aliWriteMsg, requests
<1>2. r.pc = "length" /\ r.todo = <<t>> /\ Len(r.todo) = 1 /\ ToSet(r.todo) = {t}
  BY Elements
<1>3. calls' = [calls EXCEPT ![c] = r]
  OBVIOUS
<1> HIDE DEF r
<1>4. /\ \A d \in LogCallers : calls'[d] = IF d = c THEN r ELSE calls[d]
      /\ \A u : u = t => Askers(u)' = Askers(u) \cup {c}
      /\ \A u : u # t => Askers(u)' = Askers(u) \ {c}
  BY <1>2, <1>3, AskersChanged
<1>5. Errands'
  BY <1>1, <1>2, <1>4, ErrandsKept DEF Z_Inv
<1>6. \A u : c \notin Askers(u)
  <2>1. ToSet(calls[c].todo) = {}
    BY <1>1, Elements DEF Z_Inv, Errands
  <2> QED
    BY <2>1 DEF Askers
<1>7. ASSUME failures' = 0, repliesLost' = 0, NEW u \in AllTopics
      PROVE  Len(group'[u]) <= Waiting + Cardinality(Askers(u)')
  <2>1. Len(group[u]) <= Waiting + Cardinality(Askers(u))
    BY <1>1, <1>7, Sizes
  <2>2. group[u] \in Seq(Nat) /\ Waiting \in Nat
    BY AliConstants DEF A_Inv, A_TypeOK, Waiting
  <2>3. CASE u = t
    <3>1. Cardinality(Askers(u)') = Cardinality(Askers(u)) + 1
      BY <1>4, <1>6, <2>3, AskerCounts
    <3>2. group'[u] = Append(group[u], logs + 1)
      BY <2>3 DEF A_Inv, A_TypeOK
    <3>3. Len(group'[u]) = Len(group[u]) + 1 /\ Len(group[u]) \in Nat
      BY <2>2, <3>2
    <3>4. Cardinality(Askers(u)) \in Nat
      BY AskerCounts
    <3> QED
      BY ONLY <2>1, <2>2, <3>1, <3>3, <3>4
  <2>4. CASE u # t
    <3>1. group'[u] = group[u]
      BY <2>4 DEF A_Inv, A_TypeOK
    <3>2. Askers(u) \ {c} = Askers(u)
      BY <1>6
    <3>3. Askers(u)' = Askers(u) \ {c}
      BY <1>4, <2>4
    <3> QED
      BY <2>1, <3>1, <3>2, <3>3
  <2> QED
    BY <2>3, <2>4
<1> QED
  BY <1>1, <1>5, <1>7, SizeRest DEF Z_Inv

\* A step that leaves the buffers alone and the asker in each place.
LEMMA QuietSize ==
  ASSUME IsFiniteSet(LogCallers), A_Inv, Z_Inv, NEW c \in LogCallers, NEW r,
         calls' = [calls EXCEPT ![c] = r], UNCHANGED <<group, repliesLost, rejected>>,
         failures' \in Nat, failures' = 0 => failures = 0,
         r.pc \in {"idle", "panicked"} => r.todo = <<>>,
         r.pc = "length" => Len(r.todo) = 1,
         failures' = 0 => r.pc # "failed",
         calls[c].todo = <<>> \/ r.todo = calls[c].todo
  PROVE  Z_Inv'
<1>1. /\ \A d \in LogCallers : calls'[d] = IF d = c THEN r ELSE calls[d]
      /\ \A t : t \in ToSet(r.todo) => Askers(t)' = Askers(t) \cup {c}
      /\ \A t : t \notin ToSet(r.todo) => Askers(t)' = Askers(t) \ {c}
  BY AskersChanged
<1>2. Errands'
  BY <1>1, ErrandsKept DEF Z_Inv
<1>3. \A t : Askers(t) \subseteq Askers(t)'
  <2> TAKE t
  <2>1. c \in Askers(t) => t \in ToSet(r.todo)
    BY Elements DEF Askers
  <2> QED
    BY <1>1, <2>1
<1>4. ASSUME failures' = 0, repliesLost' = 0, NEW t \in AllTopics
      PROVE  Len(group'[t]) <= Waiting + Cardinality(Askers(t)')
  <2>1. Len(group[t]) <= Waiting + Cardinality(Askers(t))
    BY <1>4, Sizes
  <2>2. group[t] \in Seq(Nat) /\ Waiting \in Nat /\ group'[t] = group[t]
    BY AliConstants DEF A_Inv, A_TypeOK, Waiting
  <2>3. /\ Cardinality(Askers(t)) \in Nat /\ Cardinality(Askers(t)') \in Nat
        /\ Cardinality(Askers(t)) <= Cardinality(Askers(t)')
    BY <1>3, AskerCounts
  <2>4. Len(group[t]) \in Nat
    BY <2>2
  <2> QED
    BY ONLY <2>1, <2>2, <2>3, <2>4
<1> QED
  BY <1>2, <1>4, SizeRest

\* A call that is refused and a flush leave the sizes.
LEMMA QuietSizes ==
  ASSUME IsFiniteSet(LogCallers), A_Inv, Z_Inv, NEW c \in LogCallers,
         WriteMsgPanics(c) \/ Flush(c)
  PROVE  Z_Inv'
<1>1. calls[c].pc = "idle" /\ calls[c].todo = <<>>
  BY DEF WriteMsgPanics, Flush, Z_Inv, Errands
<1>2. UNCHANGED <<group, repliesLost, rejected, failures>> /\ failures \in Nat
  BY DEF WriteMsgPanics, Flush, requests, Z_Inv
<1>3. CASE WriteMsgPanics(c)
  <2> DEFINE r == [calls[c] EXCEPT !.pc = "panicked"]
  <2>1. r.pc = "panicked" /\ r.todo = <<>>
    <3>1. calls[c] \in Call
      BY DEF A_Inv, A_TypeOK
    <3> QED
      BY <1>1, <3>1 DEF Call
  <2>2. calls' = [calls EXCEPT ![c] = r]
    BY <1>3 DEF WriteMsgPanics
  <2> HIDE DEF r
  <2> QED
    BY <1>1, <1>2, <2>1, <2>2, QuietSize
<1>4. CASE Flush(c)
  <2> DEFINE r == [pc |-> "flush", todo |-> <<"">> \o SetToSeq(Topics)]
  <2>1. r.pc = "flush"
    OBVIOUS
  <2>2. calls' = [calls EXCEPT ![c] = r]
    BY <1>4 DEF Flush
  <2> HIDE DEF r
  <2> QED
    BY <1>1, <1>2, <2>1, <2>2, QuietSize
<1> QED
  BY <1>3, <1>4

\* A caller leaves a buffer that holds less than FlushWhen logs, or goes to send it.
LEMMA LengthSize ==
  ASSUME IsFiniteSet(LogCallers), A_Inv, Z_Inv, NEW c \in LogCallers, Length(c)
  PROVE  Z_Inv'
<1> DEFINE t == Head(calls[c].todo)
           r == [calls[c] EXCEPT !.pc = "flush"]
<1>1. /\ calls[c].pc = "length" /\ calls[c] \in Call
      /\ UNCHANGED <<group, repliesLost, rejected, failures>> /\ failures \in Nat
  BY DEF Length, requests, Z_Inv, A_Inv, A_TypeOK
<1>2. r.pc = "flush" /\ r.todo = calls[c].todo
  BY <1>1 DEF Call
<1>3. calls[c].todo \in Seq(AllTopics) /\ Len(calls[c].todo) = 1
  BY <1>1 DEF Call, Z_Inv, Errands
<1>4. ToSet(calls[c].todo) = {t}
  BY <1>3, Elements
<1>5. \/ calls' = [calls EXCEPT ![c] = r]
      \/ calls' = [calls EXCEPT ![c] = AliIdle] /\ ~(Len(group[t]) >= FlushWhen)
  BY DEF Length
<1>6. AliIdle.pc = "idle" /\ AliIdle.todo = <<>>
  BY DEF AliIdle
<1> HIDE DEF t, r
<1>7. CASE calls' = [calls EXCEPT ![c] = r]
  BY <1>1, <1>2, <1>7, QuietSize
<1>8. CASE calls' = [calls EXCEPT ![c] = AliIdle] /\ ~(Len(group[t]) >= FlushWhen)
  <2>1. /\ \A d \in LogCallers : calls'[d] = IF d = c THEN AliIdle ELSE calls[d]
        /\ \A u : u \notin ToSet(AliIdle.todo) => Askers(u)' = Askers(u) \ {c}
    BY <1>8, AskersChanged
  <2>4. \A u : u \notin ToSet(AliIdle.todo)
    BY <1>6, Elements
  <2>2. Errands'
    BY <1>1, <1>6, <2>1, ErrandsKept DEF Z_Inv
  <2>3. ASSUME failures' = 0, repliesLost' = 0, NEW u \in AllTopics
        PROVE  Len(group'[u]) <= Waiting + Cardinality(Askers(u)')
    <3>1. Len(group[u]) <= Waiting + Cardinality(Askers(u))
      BY <1>1, <2>3, Sizes
    <3>2. group'[u] = group[u] /\ Len(group[u]) \in Nat
      BY <1>1 DEF A_Inv, A_TypeOK
    <3>3. Cardinality(Askers(u)') \in Nat
      BY AskerCounts
    <3>4. CASE u = t
      <4>1. Len(group[u]) <= Waiting /\ Waiting \in Nat
        BY <1>8, <3>2, <3>4, AliConstants DEF Waiting
      <4> QED
        BY ONLY <3>2, <3>3, <4>1
    <3>5. CASE u # t
      <4>1. c \notin Askers(u)
        BY <1>4, <3>5 DEF Askers
      <4>2. Askers(u) \ {c} = Askers(u)
        BY <4>1
      <4>3. Askers(u)' = Askers(u) \ {c}
        BY <2>1, <2>4
      <4> QED
        BY <3>1, <3>2, <4>2, <4>3
    <3> QED
      BY <3>4, <3>5
  <2> QED
    BY <1>1, <2>2, <2>3, SizeRest
<1> QED
  BY <1>5, <1>7, <1>8

\* No signature is refused, and a buffer is as long before as after.
LEMMA PutLogsSize ==
  ASSUME IsFiniteSet(LogCallers), A_Inv, Z_Inv, NEW c \in LogCallers, PutLogs(c)
  PROVE  Z_Inv'
<1>1. calls[c] \in Call /\ UNCHANGED <<group, repliesLost>> /\ failures \in Nat /\ rejected = FALSE
  BY DEF PutLogs, Z_Inv, A_Inv, A_TypeOK
<1>2. PICK s \in {"stored", "failed"} :
        /\ calls' = [calls EXCEPT ![c].pc = s]
        /\ UNCHANGED rejected
        /\ \/ s = "stored" /\ UNCHANGED failures
           \/ s = "failed" /\ failures' = failures + 1
  BY <1>1, Signed DEF PutLogs
<1> DEFINE r == [calls[c] EXCEPT !.pc = s]
<1>3. r.pc = s /\ r.todo = calls[c].todo /\ calls' = [calls EXCEPT ![c] = r]
  BY <1>1, <1>2 DEF Call
<1> HIDE DEF r
<1>4. failures' \in Nat /\ (failures' = 0 => failures = 0 /\ s = "stored")
  BY <1>1, <1>2
<1> QED
  BY <1>1, <1>2, <1>3, <1>4, QuietSize

\* A good answer leaves an empty buffer; the caller goes on with the rest.
LEMMA AnswerSize ==
  ASSUME IsFiniteSet(LogCallers), A_Inv, Z_Inv, NEW c \in LogCallers, Answer(c)
  PROVE  Z_Inv'
<1> DEFINE t == Head(calls[c].todo)
           rest == Tail(calls[c].todo)
           r == IF rest = <<>> THEN AliIdle ELSE [pc |-> "flush", todo |-> rest]
<1>1. /\ calls[c].pc \in {"stored", "failed"}
      /\ calls' = [calls EXCEPT ![c] = r]
      /\ UNCHANGED <<failures, rejected>> /\ failures \in Nat
      /\ \/ calls[c].pc = "stored" /\ UNCHANGED repliesLost /\ group' = [group EXCEPT ![t] = <<>>]
         \/ calls[c].pc = "stored" /\ repliesLost' = repliesLost + 1
         \/ calls[c].pc = "failed"
  BY DEF Answer, Z_Inv
<1>2. calls[c].todo \in Seq(AllTopics) /\ calls[c].todo # <<>>
  <2>1. calls[c] \in Call
    BY DEF A_Inv, A_TypeOK
  <2>2. calls[c].todo # <<>>
    BY <1>1 DEF A_Inv, Stages
  <2> QED
    BY <2>1, <2>2 DEF Call
<1>3. ToSet(calls[c].todo) = {t} \cup ToSet(rest)
  BY <1>2, Elements
<1>4. r.todo = rest /\ r.pc \in {"idle", "flush"} /\ (r.pc = "idle" => r.todo = <<>>)
  BY DEF AliIdle
<1> HIDE DEF t, rest, r
<1>5. /\ \A d \in LogCallers : calls'[d] = IF d = c THEN r ELSE calls[d]
      /\ \A u : u \in ToSet(r.todo) => Askers(u)' = Askers(u) \cup {c}
      /\ \A u : u \notin ToSet(r.todo) => Askers(u)' = Askers(u) \ {c}
  BY <1>1, AskersChanged
<1>6. Errands'
  BY <1>1, <1>4, <1>5, ErrandsKept DEF Z_Inv
<1>7. ASSUME failures' = 0, repliesLost' = 0, NEW u \in AllTopics
      PROVE  Len(group'[u]) <= Waiting + Cardinality(Askers(u)')
  <2>1. /\ failures = 0 /\ repliesLost = 0
        /\ group' = [group EXCEPT ![t] = <<>>]
    <3>1. calls[c].pc # "failed" /\ repliesLost \in Nat
      BY <1>1, <1>7 DEF Z_Inv, Errands, A_Inv, A_TypeOK
    <3> QED
      BY <1>1, <1>7, <3>1
  <2>2. group'[u] = IF u = t THEN <<>> ELSE group[u]
    BY <2>1 DEF A_Inv, A_TypeOK
  <2>3. /\ Cardinality(Askers(u)) \in Nat /\ Cardinality(Askers(u)') \in Nat
        /\ Askers(u) \subseteq Askers(u)' => Cardinality(Askers(u)) <= Cardinality(Askers(u)')
        /\ Waiting \in Nat
    BY AskerCounts, AliConstants DEF Waiting
  <2>4. CASE u = t
    <3>1. Len(group'[u]) = 0
      BY <2>2, <2>4
    <3> QED
      BY ONLY <2>3, <3>1
  <2>5. CASE u # t
    <3>1. c \in Askers(u) => u \in ToSet(r.todo)
      BY <1>3, <1>4, <2>5 DEF Askers
    <3>2. Askers(u) \subseteq Askers(u)'
      BY <1>5, <3>1
    <3>3. Len(group[u]) <= Waiting + Cardinality(Askers(u))
      BY <2>1, Sizes
    <3>4. Len(group'[u]) = Len(group[u]) /\ Len(group[u]) \in Nat
      BY <2>2, <2>5 DEF A_Inv, A_TypeOK
    <3> QED
      BY ONLY <2>3, <3>2, <3>3, <3>4
  <2> QED
    BY <2>4, <2>5
<1> QED
  BY <1>1, <1>6, <1>7, SizeRest

\* Every step keeps the sizes.
LEMMA SizeStep ==
  ASSUME IsFiniteSet(LogCallers), A_Inv, Z_Inv, [AliNext]_aliVars
  PROVE  Z_Inv'
<1>1. CASE UNCHANGED aliVars
  BY <1>1 DEF aliVars, requests, Z_Inv, Errands, BufferBounded
<1>2. CASE AliNext
  BY <1>2, WriteMsgSize, QuietSizes, LengthSize, PutLogsSize, AnswerSize DEF AliNext
<1> QED
  BY <1>1, <1>2

\* The order and the sizes hold before the first message.
LEMMA ServiceInit ==
  ASSUME AliInit, IsFiniteSet(LogCallers)
  PROVE  O_Inv /\ Z_Inv
<1>1. \A t \in AllTopics : group[t] = <<>> /\ logstore[t] = <<>>
  BY DEF AliInit
<1>2. O_Inv
  BY <1>1 DEF O_Inv, Ascending, SeenBefore, SentBefore, StoredInOrder
<1>3. \A c \in LogCallers : calls[c].pc = "idle" /\ calls[c].todo = <<>>
  BY DEF AliInit, AliIdle
<1>4. BufferBounded
  <2> SUFFICES ASSUME NEW t \in AllTopics
               PROVE  Len(group[t]) <= Waiting + Cardinality(Askers(t))
    BY DEF BufferBounded, Askers
  <2>1. Waiting \in Nat /\ Cardinality(Askers(t)) \in Nat
    BY AskerCounts, AliConstants DEF Waiting
  <2>2. Len(group[t]) = 0
    BY <1>1
  <2> QED
    BY ONLY <2>1, <2>2
<1>5. Z_Inv
  BY <1>3, <1>4 DEF Z_Inv, Errands, AliInit
<1> QED
  BY <1>2, <1>5

\* A topic's messages arrive in the order they were logged, a buffer that nothing
\* fails for stays below FlushWhen and one log for each caller at it, and no
\* signature is refused (alils.go:148-182, signature.go:50-66).
THEOREM ServiceHolds ==
  ASSUME "free" \notin LogCallers, IsFiniteSet(LogCallers), IsFiniteSet(Topics)
  PROVE  AliSpec => []ServiceInv
<1>1. AliInit => S_Inv
  BY InitInv, ServiceInit DEF S_Inv
<1>2. S_Inv /\ [AliNext]_aliVars => S_Inv'
  BY StepInv, OrderStep, SizeStep DEF S_Inv
<1>3. S_Inv => ServiceInv
  BY DEF S_Inv, O_Inv, Z_Inv, ServiceInv, NeverRejected
<1> QED
  BY <1>1, <1>2, <1>3, PTL DEF AliSpec
-----------------------------------------------------------------------------
(* The connection to a collector (ConnWriter).                             *)

ConnStates == {"open", "closed", "broken"}
ConnTask == [pc : {"idle", "connect", "dial", "assign", "assignLg", "deferred", "println", "close",
                   "panicked"},
             msg : Nat, mine : Nat]

ConnTypes ==
    /\ conns \in Seq(ConnStates) /\ arrived \in Seq(Seq(Nat)) /\ DOMAIN arrived = DOMAIN conns
    /\ innerWriter \in {0} \cup DOMAIN conns /\ lg \in {0} \cup DOMAIN conns
    /\ tasks \in [Loggers -> ConnTask] /\ sentMsgs \in Nat
    /\ \A g \in Loggers :
          /\ tasks[g].mine \in {0} \cup DOMAIN conns
          /\ tasks[g].pc \in {"assign", "assignLg"} => tasks[g].mine # 0

\* The one caller of an asynchronous logger: where it is says which connection is
\* open, and that println finds the one that was dialled.
Alone(g) ==
    /\ tasks[g].pc # "panicked"
    /\ \A c \in DOMAIN conns : conns[c] = "open" =>
          \/ c = innerWriter /\ (tasks[g].pc = "idle" => ~ReconnectOnMsg)
          \/ c = tasks[g].mine /\ tasks[g].pc = "assign"
    /\ tasks[g].pc = "idle" /\ ~ReconnectOnMsg /\ innerWriter # 0 =>
          lg = innerWriter /\ conns[lg] # "closed"
    /\ tasks[g].pc \in {"dial", "assign"} => innerWriter = 0
    /\ tasks[g].pc = "assign" => conns[tasks[g].mine] # "closed"
    /\ tasks[g].pc = "assignLg" =>
          innerWriter = tasks[g].mine /\ conns[innerWriter] # "closed"
    /\ tasks[g].pc \in {"deferred", "println", "close"} =>
          innerWriter # 0 /\ lg = innerWriter /\ conns[lg] # "closed"
    /\ tasks[g].pc \in {"println", "close"} =>
          tasks[g].mine = IF ReconnectOnMsg THEN innerWriter ELSE 0

OneCaller ==
    alone /\ ~gone =>
        /\ \A g \in Active : Alone(g)
        /\ \A g \in Loggers \ Active : tasks[g].pc = "idle"
        /\ ~Broken => lost = {}

\* As long as nothing was dialled to the end, nothing was written.
FirstRace ==
    /\ lg = 0 => lost = {} /\ \A c \in DOMAIN arrived : arrived[c] = <<>>
    /\ ~ReconnectOnMsg /\ Panicked => lg = 0

K_Inv == ConnTypes /\ OneCaller /\ FirstRace
-----------------------------------------------------------------------------
\* The callers are loggers; with one, it is the only one.
LEMMA ActiveLoggers ==
  /\ Active \subseteq Loggers
  /\ alone => \E g \in Loggers : Active = {g}
<1>1. \E g \in Loggers : TRUE
  BY ConnConstants
<1>2. (CHOOSE g \in Loggers : TRUE) \in Loggers
  BY <1>1
<1> QED
  BY <1>2 DEF Active

ConnPlaces == {"idle", "connect", "dial", "assign", "assignLg", "deferred", "println", "close",
               "panicked"}

\* A caller's step changes its own call.
LEMMA TaskChanged ==
  ASSUME K_Inv, NEW g \in Loggers, NEW r \in ConnTask, tasks' = [tasks EXCEPT ![g] = r]
  PROVE  /\ tasks' \in [Loggers -> ConnTask]
         /\ tasks'[g] = r /\ \A h \in Loggers \ {g} : tasks'[h] = tasks[h]
  BY DEF K_Inv, ConnTypes

\* A goroutine goes on, and no other does.
LEMMA TaskStepped ==
  ASSUME K_Inv, NEW g \in Loggers, NEW pc \in ConnPlaces, Step(g, pc)
  PROVE  /\ tasks' \in [Loggers -> ConnTask]
         /\ tasks'[g].pc = pc /\ tasks'[g].msg = tasks[g].msg /\ tasks'[g].mine = tasks[g].mine
         /\ \A h \in Loggers \ {g} : tasks'[h] = tasks[h]
  BY DEF K_Inv, ConnTypes, Step, ConnTask, ConnPlaces

\* Where the connections are closed or break, only that changes.
LEMMA ConnClosed ==
  ASSUME K_Inv, NEW k \in {0} \cup DOMAIN conns, conns' = Closed(k)
  PROVE  /\ conns' \in Seq(ConnStates) /\ DOMAIN conns' = DOMAIN conns
         /\ \A c \in DOMAIN conns : conns'[c] =
               IF c = k /\ conns[c] # "broken" THEN "closed" ELSE conns[c]
<1>1. conns \in Seq(ConnStates) /\ \A c \in DOMAIN conns : conns[c] \in ConnStates /\ c # 0
  BY DEF K_Inv, ConnTypes
<1>2. CASE k = 0 \/ conns[k] = "broken"
  BY <1>1, <1>2 DEF Closed
<1>3. CASE k # 0 /\ conns[k] # "broken"
  <2>1. k \in DOMAIN conns /\ conns' = [conns EXCEPT ![k] = "closed"] /\ "closed" \in ConnStates
    BY <1>3 DEF Closed, ConnStates
  <2>2. conns' \in Seq(ConnStates)
    BY <1>1, <2>1, ExceptSeq
  <2> QED
    BY <1>1, <1>3, <2>1, <2>2
<1> QED
  BY <1>2, <1>3

\* What is left to show of a caller's step.
LEMMA ConnRest ==
  ASSUME K_Inv, ~Panicked, NEW g \in Active, UNCHANGED <<ReconnectOnMsg, alone, gone>>,
         \A h \in Loggers \ {g} : tasks'[h] = tasks[h],
         ConnTypes', Broken' <=> Broken,
         alone /\ ~gone => Alone(g)',
         alone /\ ~gone /\ ~Broken => lost' = {},
         lg' = 0 => lg = 0 /\ lost' = lost /\ \A c \in DOMAIN arrived' : arrived'[c] = <<>>,
         ~ReconnectOnMsg /\ tasks'[g].pc = "panicked" => lg' = 0
  PROVE  K_Inv'
<1>1. Active' = Active /\ g \in Loggers
  BY ActiveLoggers DEF Active
<1>2. OneCaller'
  <2>1. alone /\ ~gone => /\ Active = {g}
                          /\ \A h \in Loggers \ Active : tasks[h].pc = "idle"
    BY ActiveLoggers DEF K_Inv, OneCaller
  <2> QED
    BY <1>1, <2>1 DEF OneCaller
<1>3. FirstRace'
  <2>1. Panicked' => tasks'[g].pc = "panicked"
    BY <1>1 DEF Panicked
  <2>2. lg' = 0 => lost' = {} /\ \A c \in DOMAIN arrived' : arrived'[c] = <<>>
    BY DEF K_Inv, FirstRace
  <2> QED
    BY <2>1, <2>2 DEF FirstRace
<1> QED
  BY <1>2, <1>3 DEF K_Inv

\* The alone caller's place.
LEMMA AlonePlace ==
  ASSUME K_Inv, NEW g \in Active, alone, ~gone
  PROVE  Alone(g) /\ (~Broken => lost = {})
  BY DEF K_Inv, OneCaller

\* A goroutine logs a message: it connects first, or not.
LEMMA ConnStarts ==
  ASSUME K_Inv, ~Panicked, NEW g \in Active, connWriteMsg(g)
  PROVE  K_Inv'
<1> DEFINE pc == IF Reconnect \/ innerWriter = 0 \/ ReconnectOnMsg THEN "connect" ELSE "deferred"
           r == [pc |-> pc, msg |-> sentMsgs + 1, mine |-> 0]
<1>1. g \in Loggers /\ sentMsgs \in Nat
  BY ActiveLoggers DEF K_Inv, ConnTypes
<1>2. r \in ConnTask /\ r.pc = pc /\ r.mine = 0
  <2>2. sentMsgs + 1 \in Nat /\ 0 \in Nat
    BY <1>1
  <2>3. pc \in {"connect", "deferred"}
    OBVIOUS
  <2>4. ASSUME NEW p \in {"connect", "deferred"}, NEW k \in Nat, NEW n \in Nat
        PROVE  [pc |-> p, msg |-> k, mine |-> n] \in ConnTask
    BY DEF ConnTask
  <2> HIDE DEF pc
  <2> QED
    BY <2>2, <2>3, <2>4
<1>3. /\ tasks[g].pc = "idle" /\ tasks' = [tasks EXCEPT ![g] = r] /\ sentMsgs' = sentMsgs + 1
      /\ UNCHANGED <<sinks, innerWriter>>
  BY DEF connWriteMsg
<1> HIDE DEF r
<1>4. /\ tasks' \in [Loggers -> ConnTask] /\ tasks'[g] = r
      /\ \A h \in Loggers \ {g} : tasks'[h] = tasks[h]
  BY <1>1, <1>2, <1>3, TaskChanged
<1>5. ConnTypes'
  <2>1. \A h \in Loggers : /\ tasks'[h].mine \in {0} \cup DOMAIN conns
                           /\ tasks'[h].pc \in {"assign", "assignLg"} => tasks'[h].mine # 0
    BY <1>2, <1>4 DEF K_Inv, ConnTypes
  <2> QED
    BY <1>1, <1>3, <1>4, <2>1 DEF K_Inv, ConnTypes, sinks
<1>6. ASSUME alone, ~gone PROVE Alone(g)'
  <2>1. Alone(g)
    BY <1>6, AlonePlace
  <2>2. UNCHANGED <<ReconnectOnMsg, lg, conns, innerWriter>>
    BY <1>3 DEF sinks
  <2>3. tasks'[g].pc \in {"connect", "deferred"} /\ (tasks'[g].pc = "deferred" => innerWriter # 0 /\ ~ReconnectOnMsg)
    BY <1>2, <1>4
  <2> QED
    BY <1>3, <2>1, <2>2, <2>3 DEF Alone
<1>7. tasks'[g].pc # "panicked"
  BY <1>2, <1>4
<1>8. /\ Broken' <=> Broken
      /\ UNCHANGED <<ReconnectOnMsg, alone, gone, lg, lost, arrived>>
  BY <1>3 DEF Broken, sinks
<1>9. lg = 0 => \A c \in DOMAIN arrived : arrived[c] = <<>>
  BY DEF K_Inv, FirstRace
<1> QED
  BY <1>4, <1>5, <1>6, <1>7, <1>8, <1>9, AlonePlace, ConnRest

\* The connection of before is closed.
LEMMA ConnDisconnects ==
  ASSUME K_Inv, ~Panicked, NEW g \in Active, Disconnect(g)
  PROVE  K_Inv'
<1>1. g \in Loggers /\ innerWriter \in {0} \cup DOMAIN conns
  BY ActiveLoggers DEF K_Inv, ConnTypes
<1>2. /\ tasks[g].pc = "connect" /\ conns' = Closed(innerWriter) /\ innerWriter' = 0 /\ Step(g, "dial")
      /\ UNCHANGED <<ReconnectOnMsg, alone, lg, arrived, lost, gone, sentMsgs>>
  BY DEF Disconnect
<1>3. /\ tasks' \in [Loggers -> ConnTask]
      /\ tasks'[g].pc = "dial" /\ tasks'[g].mine = tasks[g].mine
      /\ \A h \in Loggers \ {g} : tasks'[h] = tasks[h]
  BY <1>1, <1>2, TaskStepped DEF ConnPlaces
<1>4. /\ conns' \in Seq(ConnStates) /\ DOMAIN conns' = DOMAIN conns
      /\ \A c \in DOMAIN conns : conns'[c] =
            IF c = innerWriter /\ conns[c] # "broken" THEN "closed" ELSE conns[c]
  BY <1>1, <1>2, ConnClosed
<1>5. ConnTypes'
  <2>1. \A h \in Loggers : /\ tasks'[h].mine \in {0} \cup DOMAIN conns
                           /\ tasks'[h].pc \in {"assign", "assignLg"} => tasks'[h].mine # 0
    BY <1>3 DEF K_Inv, ConnTypes
  <2> QED
    BY <1>2, <1>3, <1>4, <2>1 DEF K_Inv, ConnTypes
<1>6. ASSUME alone, ~gone PROVE Alone(g)'
  <2>1. Alone(g)
    BY <1>6, AlonePlace
  <2>2. \A c \in DOMAIN conns : conns'[c] # "open"
    BY <1>2, <1>4, <2>1 DEF Alone
  <2> QED
    BY <1>2, <1>3, <1>4, <2>2 DEF Alone
<1>7. Broken' <=> Broken
  BY <1>4 DEF Broken
<1>9. lg = 0 => \A c \in DOMAIN arrived : arrived[c] = <<>>
  BY DEF K_Inv, FirstRace
<1> QED
  BY <1>2, <1>3, <1>5, <1>6, <1>7, <1>9, AlonePlace, ConnRest

\* A connection is made, or the dial fails.
LEMMA ConnDials ==
  ASSUME K_Inv, ~Panicked, NEW g \in Active, Dial(g)
  PROVE  K_Inv'
<1>1. g \in Loggers /\ tasks[g] \in ConnTask
  BY ActiveLoggers DEF K_Inv, ConnTypes
<1>2. /\ tasks[g].pc = "dial"
      /\ UNCHANGED <<ReconnectOnMsg, alone, innerWriter, lg, lost, gone, sentMsgs>>
  BY DEF Dial
<1>3. lg = 0 => \A c \in DOMAIN arrived : arrived[c] = <<>>
  BY DEF K_Inv, FirstRace
<1>4. CASE tasks' = [tasks EXCEPT ![g] = NoTask] /\ UNCHANGED <<conns, arrived>>
  <2>1. NoTask \in ConnTask /\ NoTask.pc = "idle" /\ NoTask.mine = 0
    BY DEF NoTask, ConnTask
  <2>2. /\ tasks' \in [Loggers -> ConnTask] /\ tasks'[g] = NoTask
        /\ \A h \in Loggers \ {g} : tasks'[h] = tasks[h]
    BY <1>1, <1>4, <2>1, TaskChanged
  <2>3. ConnTypes'
    <3>1. \A h \in Loggers : /\ tasks'[h].mine \in {0} \cup DOMAIN conns
                             /\ tasks'[h].pc \in {"assign", "assignLg"} => tasks'[h].mine # 0
      BY <2>1, <2>2 DEF K_Inv, ConnTypes
    <3> QED
      BY <1>2, <1>4, <2>2, <3>1 DEF K_Inv, ConnTypes
  <2>4. ASSUME alone, ~gone PROVE Alone(g)'
    <3>1. Alone(g)
      BY <2>4, AlonePlace
    <3>2. innerWriter = 0 /\ \A c \in DOMAIN conns : conns[c] # "open"
      <4>1. \A c \in DOMAIN conns : c # 0
        BY DEF K_Inv, ConnTypes
      <4> QED
        BY <1>2, <3>1, <4>1 DEF Alone
    <3> QED
      BY <1>2, <1>4, <2>1, <2>2, <3>2 DEF Alone
  <2>5. Broken' <=> Broken
    BY <1>4 DEF Broken
  <2> QED
    BY <1>2, <1>3, <1>4, <2>1, <2>2, <2>3, <2>4, <2>5, AlonePlace, ConnRest
<1>5. CASE /\ conns' = Append(conns, "open") /\ arrived' = Append(arrived, <<>>)
           /\ tasks' = [tasks EXCEPT ![g].pc = "assign", ![g].mine = Len(conns) + 1]
  <2> DEFINE n == Len(conns)
             r == [tasks[g] EXCEPT !.pc = "assign", !.mine = n + 1]
  <2>1. /\ conns \in Seq(ConnStates) /\ n \in Nat /\ DOMAIN conns = 1..n
        /\ arrived \in Seq(Seq(Nat)) /\ DOMAIN arrived = 1..n /\ Len(arrived) = n
    BY DEF K_Inv, ConnTypes
  <2>2. r \in ConnTask /\ r.pc = "assign" /\ r.mine = n + 1
    <3>1. n + 1 \in Nat
      BY <2>1
    <3>2. ASSUME NEW t \in ConnTask, NEW k \in Nat
          PROVE  /\ [t EXCEPT !.pc = "assign", !.mine = k] \in ConnTask
                 /\ [t EXCEPT !.pc = "assign", !.mine = k].pc = "assign"
                 /\ [t EXCEPT !.pc = "assign", !.mine = k].mine = k
      BY DEF ConnTask
    <3> QED
      BY <1>1, <3>1, <3>2
  <2>3. tasks' = [tasks EXCEPT ![g] = r]
    BY <1>1, <1>5 DEF K_Inv, ConnTypes
  <2> HIDE DEF r
  <2>4. /\ tasks' \in [Loggers -> ConnTask] /\ tasks'[g] = r
        /\ \A h \in Loggers \ {g} : tasks'[h] = tasks[h]
    BY <1>1, <2>2, <2>3, TaskChanged
  <2>5. /\ conns' \in Seq(ConnStates) /\ DOMAIN conns' = 1..(n + 1)
        /\ \A c \in 1..n : conns'[c] = conns[c]
        /\ conns'[n + 1] = "open"
    <3>1. "open" \in ConnStates
      BY DEF ConnStates
    <3> QED
      BY <1>5, <2>1, <3>1, AppendProperties
  <2>6. /\ arrived' \in Seq(Seq(Nat)) /\ DOMAIN arrived' = 1..(n + 1)
        /\ \A c \in 1..n : arrived'[c] = arrived[c]
        /\ arrived'[n + 1] = <<>>
    <3>1. <<>> \in Seq(Nat)
      OBVIOUS
    <3> QED
      BY <1>5, <2>1, <3>1, AppendProperties
  <2>7. \A c \in 1..(n + 1) : c \in 1..n \/ c = n + 1
    BY <2>1
  <2>8. 1..n \subseteq 1..(n + 1) /\ n + 1 \in 1..(n + 1) /\ n + 1 # 0 /\ 0 \notin 1..n
    BY <2>1
  <2> HIDE DEF n
  <2>9. ConnTypes'
    <3>1. \A h \in Loggers : /\ tasks'[h].mine \in {0} \cup 1..(n + 1)
                             /\ tasks'[h].pc \in {"assign", "assignLg"} => tasks'[h].mine # 0
      BY <2>1, <2>2, <2>4, <2>8 DEF K_Inv, ConnTypes
    <3>2. innerWriter' \in {0} \cup 1..(n + 1) /\ lg' \in {0} \cup 1..(n + 1) /\ sentMsgs' \in Nat
      BY <1>2, <2>1, <2>8 DEF K_Inv, ConnTypes
    <3> QED
      BY <2>4, <2>5, <2>6, <3>1, <3>2 DEF ConnTypes
  <2>10. ASSUME alone, ~gone PROVE Alone(g)'
    <3>1. Alone(g)
      BY <2>10, AlonePlace
    <3>2. innerWriter = 0 /\ \A c \in 1..n : conns[c] # "open"
      BY <1>2, <2>1, <2>8, <3>1 DEF Alone
    <3> QED
      BY <1>2, <2>2, <2>4, <2>5, <2>7, <3>2 DEF Alone
  <2>11. Broken' <=> Broken
    BY <2>1, <2>5, <2>7, <2>8 DEF Broken
  <2>12. lg = 0 => \A c \in DOMAIN arrived' : arrived'[c] = <<>>
    BY <1>3, <2>1, <2>6, <2>7
  <2> QED
    BY <1>2, <2>2, <2>4, <2>9, <2>10, <2>11, <2>12, AlonePlace, ConnRest
<1> QED
  BY <1>4, <1>5 DEF Dial

\* The new connection is assigned, then the logger on it.
LEMMA ConnAssigns ==
  ASSUME K_Inv, ~Panicked, NEW g \in Active, AssignInner(g) \/ AssignLg(g)
  PROVE  K_Inv'
<1>1. g \in Loggers /\ tasks[g].mine \in {0} \cup DOMAIN conns
  BY ActiveLoggers DEF K_Inv, ConnTypes
<1>2. /\ UNCHANGED <<ReconnectOnMsg, alone, conns, arrived, lost, gone, sentMsgs>>
      /\ \/ /\ tasks[g].pc = "assign" /\ innerWriter' = tasks[g].mine /\ lg' = lg /\ Step(g, "assignLg")
         \/ /\ tasks[g].pc = "assignLg" /\ lg' = tasks[g].mine /\ innerWriter' = innerWriter
            /\ Step(g, "deferred")
  BY DEF AssignInner, AssignLg, sinks
<1>3. tasks[g].mine \in DOMAIN conns /\ tasks[g].mine # 0
  BY <1>1, <1>2 DEF K_Inv, ConnTypes
<1>4. /\ tasks' \in [Loggers -> ConnTask]
      /\ tasks'[g].pc = IF tasks[g].pc = "assign" THEN "assignLg" ELSE "deferred"
      /\ tasks'[g].mine = tasks[g].mine
      /\ \A h \in Loggers \ {g} : tasks'[h] = tasks[h]
  <2>1. CASE tasks[g].pc = "assign" /\ Step(g, "assignLg")
    BY <1>1, <2>1, TaskStepped DEF ConnPlaces
  <2>2. CASE tasks[g].pc = "assignLg" /\ Step(g, "deferred")
    BY <1>1, <2>2, TaskStepped DEF ConnPlaces
  <2> QED
    BY <1>2, <2>1, <2>2
<1>5. ConnTypes'
  <2>1. \A h \in Loggers : /\ tasks'[h].mine \in {0} \cup DOMAIN conns
                           /\ tasks'[h].pc \in {"assign", "assignLg"} => tasks'[h].mine # 0
    BY <1>3, <1>4 DEF K_Inv, ConnTypes
  <2>2. innerWriter' \in {0} \cup DOMAIN conns /\ lg' \in {0} \cup DOMAIN conns
    BY <1>2, <1>3 DEF K_Inv, ConnTypes
  <2> QED
    BY <1>2, <1>4, <2>1, <2>2 DEF K_Inv, ConnTypes
<1>6. ASSUME alone, ~gone PROVE Alone(g)'
  <2>1. Alone(g)
    BY <1>6, AlonePlace
  <2>2. CASE tasks[g].pc = "assign"
    <3>1. \A c \in DOMAIN conns : conns[c] = "open" => c = tasks[g].mine
      <4>1. \A c \in DOMAIN conns : c # 0
        BY DEF K_Inv, ConnTypes
      <4> QED
        BY <2>1, <2>2, <4>1 DEF Alone
    <3> QED
      BY <1>2, <1>4, <2>1, <2>2, <3>1 DEF Alone
  <2>3. CASE tasks[g].pc = "assignLg"
    BY <1>2, <1>3, <1>4, <2>1, <2>3 DEF Alone
  <2> QED
    BY <1>2, <2>2, <2>3
<1>7. Broken' <=> Broken
  BY <1>2 DEF Broken
<1>8. lg' = 0 => lg = 0 /\ \A c \in DOMAIN arrived : arrived[c] = <<>>
  BY <1>2, <1>3 DEF K_Inv, FirstRace
<1> QED
  BY <1>2, <1>4, <1>5, <1>6, <1>7, <1>8, AlonePlace, ConnRest

\* The close of the connection is deferred, on none at all a panic.
LEMMA ConnDefers ==
  ASSUME K_Inv, ~Panicked, NEW g \in Active, DeferClose(g)
  PROVE  K_Inv'
<1> DEFINE pc == IF ReconnectOnMsg /\ innerWriter = 0 THEN "panicked" ELSE "println"
           mine == IF ReconnectOnMsg THEN innerWriter ELSE 0
           r == [tasks[g] EXCEPT !.mine = mine, !.pc = pc]
<1>1. /\ g \in Loggers /\ tasks[g] \in ConnTask /\ innerWriter \in {0} \cup DOMAIN conns
      /\ innerWriter \in Nat
  BY ActiveLoggers DEF K_Inv, ConnTypes
<1>2. /\ tasks[g].pc = "deferred" /\ UNCHANGED <<sinks, innerWriter, sentMsgs>>
      /\ tasks' = [tasks EXCEPT ![g] = r]
  BY <1>1 DEF DeferClose, K_Inv, ConnTypes
<1>3. r \in ConnTask /\ r.pc = pc /\ r.mine = mine
  <2>2. mine \in Nat /\ pc \in {"panicked", "println"}
    BY <1>1
  <2>3. ASSUME NEW p \in {"panicked", "println"}, NEW k \in Nat
        PROVE  /\ [tasks[g] EXCEPT !.mine = k, !.pc = p] \in ConnTask
               /\ [tasks[g] EXCEPT !.mine = k, !.pc = p].pc = p
               /\ [tasks[g] EXCEPT !.mine = k, !.pc = p].mine = k
    BY <1>1 DEF ConnTask
  <2> HIDE DEF mine, pc
  <2> QED
    BY <2>2, <2>3
<1> HIDE DEF r
<1>4. /\ tasks' \in [Loggers -> ConnTask] /\ tasks'[g] = r
      /\ \A h \in Loggers \ {g} : tasks'[h] = tasks[h]
  BY <1>1, <1>2, <1>3, TaskChanged
<1>5. ConnTypes'
  <2>1. \A h \in Loggers : /\ tasks'[h].mine \in {0} \cup DOMAIN conns
                           /\ tasks'[h].pc \in {"assign", "assignLg"} => tasks'[h].mine # 0
    BY <1>1, <1>3, <1>4 DEF K_Inv, ConnTypes
  <2> QED
    BY <1>2, <1>4, <2>1 DEF K_Inv, ConnTypes, sinks
<1>6. ASSUME alone, ~gone PROVE Alone(g)'
  <2>1. Alone(g) /\ UNCHANGED <<ReconnectOnMsg, lg, conns, innerWriter>>
    BY <1>2, <1>6, AlonePlace DEF sinks
  <2>2. innerWriter # 0 /\ tasks'[g].pc = "println" /\ tasks'[g].mine = mine
    BY <1>2, <1>3, <1>4, <2>1 DEF Alone
  <2> QED
    BY <1>2, <2>1, <2>2 DEF Alone
<1>7. /\ Broken' <=> Broken
      /\ UNCHANGED <<ReconnectOnMsg, alone, gone, lg, lost, arrived>>
  BY <1>2 DEF Broken, sinks
<1>8. lg = 0 => \A c \in DOMAIN arrived : arrived[c] = <<>>
  BY DEF K_Inv, FirstRace
<1>9. tasks'[g].pc = "panicked" => ReconnectOnMsg
  BY <1>3, <1>4
<1> QED
  BY <1>4, <1>5, <1>6, <1>7, <1>8, <1>9, AlonePlace, ConnRest

\* The message is written to the logger's connection.
LEMMA ConnPrints ==
  ASSUME K_Inv, ~Panicked, NEW g \in Active, println(g)
  PROVE  K_Inv'
<1>1. /\ g \in Loggers /\ tasks[g].msg \in Nat /\ lg \in {0} \cup DOMAIN conns
      /\ conns \in Seq(ConnStates) /\ arrived \in Seq(Seq(Nat)) /\ DOMAIN arrived = DOMAIN conns
  BY ActiveLoggers DEF K_Inv, ConnTypes, ConnTask
<1>2. /\ tasks[g].pc = "println"
      /\ UNCHANGED <<ReconnectOnMsg, alone, innerWriter, lg, conns, gone, sentMsgs>>
  BY DEF println
<1>3. Broken' <=> Broken
  BY <1>2 DEF Broken
<1>4. CASE lg = 0 /\ Step(g, "panicked") /\ UNCHANGED <<arrived, lost>>
  <2>1. /\ tasks' \in [Loggers -> ConnTask]
        /\ tasks'[g].pc = "panicked" /\ tasks'[g].mine = tasks[g].mine
        /\ \A h \in Loggers \ {g} : tasks'[h] = tasks[h]
    BY <1>1, <1>4, TaskStepped DEF ConnPlaces
  <2>2. ConnTypes'
    <3>1. \A h \in Loggers : /\ tasks'[h].mine \in {0} \cup DOMAIN conns
                             /\ tasks'[h].pc \in {"assign", "assignLg"} => tasks'[h].mine # 0
      BY <2>1 DEF K_Inv, ConnTypes
    <3> QED
      BY <1>2, <1>4, <2>1, <3>1 DEF K_Inv, ConnTypes
  <2>3. ~(alone /\ ~gone)
    BY <1>2, <1>4, AlonePlace DEF Alone
  <2>4. \A c \in DOMAIN arrived : arrived[c] = <<>>
    BY <1>4 DEF K_Inv, FirstRace
  <2> QED
    BY <1>2, <1>3, <1>4, <2>1, <2>2, <2>3, <2>4, ConnRest
<1>5. CASE /\ lg # 0 /\ Step(g, "close")
           /\ IF conns[lg] = "open"
              THEN arrived' = [arrived EXCEPT ![lg] = Append(@, tasks[g].msg)] /\ UNCHANGED lost
              ELSE lost' = lost \cup {tasks[g].msg} /\ UNCHANGED arrived
  <2>1. /\ tasks' \in [Loggers -> ConnTask]
        /\ tasks'[g].pc = "close" /\ tasks'[g].mine = tasks[g].mine
        /\ \A h \in Loggers \ {g} : tasks'[h] = tasks[h]
    BY <1>1, <1>5, TaskStepped DEF ConnPlaces
  <2>2. arrived' \in Seq(Seq(Nat)) /\ DOMAIN arrived' = DOMAIN conns
    <3>1. CASE arrived' = [arrived EXCEPT ![lg] = Append(@, tasks[g].msg)]
      <4>1. lg \in DOMAIN arrived /\ arrived[lg] \in Seq(Nat)
        BY <1>1, <1>5
      <4>2. Append(arrived[lg], tasks[g].msg) \in Seq(Nat)
        BY <1>1, <4>1
      <4>3. [arrived EXCEPT ![lg] = Append(arrived[lg], tasks[g].msg)] \in Seq(Seq(Nat))
        BY <1>1, <4>1, <4>2, ExceptSeq
      <4> QED
        BY <1>1, <3>1, <4>3
    <3>2. CASE UNCHANGED arrived
      BY <1>1, <3>2
    <3> QED
      BY <1>5, <3>1, <3>2
  <2>3. ConnTypes'
    <3>1. \A h \in Loggers : /\ tasks'[h].mine \in {0} \cup DOMAIN conns
                             /\ tasks'[h].pc \in {"assign", "assignLg"} => tasks'[h].mine # 0
      BY <2>1 DEF K_Inv, ConnTypes
    <3> QED
      BY <1>2, <2>1, <2>2, <3>1 DEF K_Inv, ConnTypes
  <2>4. ASSUME alone, ~gone PROVE Alone(g)' /\ (~Broken => lost' = {})
    <3>1. Alone(g) /\ (~Broken => lost = {})
      BY <2>4, AlonePlace
    <3>2. conns[lg] # "closed" /\ lg \in DOMAIN conns /\ conns[lg] \in ConnStates
      BY <1>1, <1>2, <1>5, <3>1 DEF Alone
    <3>3. ~Broken => conns[lg] = "open"
      BY <3>2 DEF Broken, ConnStates
    <3>4. Alone(g)'
      BY <1>2, <2>1, <3>1 DEF Alone
    <3> QED
      BY <1>5, <3>1, <3>3, <3>4
  <2> QED
    BY <1>2, <1>3, <1>5, <2>1, <2>3, <2>4, ConnRest
<1> QED
  BY <1>4, <1>5 DEF println

\* The deferred close.
LEMMA ConnCloses ==
  ASSUME K_Inv, ~Panicked, NEW g \in Active, Close(g)
  PROVE  K_Inv'
<1>1. g \in Loggers /\ tasks[g].mine \in {0} \cup DOMAIN conns
  BY ActiveLoggers DEF K_Inv, ConnTypes
<1>2. /\ tasks[g].pc = "close" /\ conns' = Closed(tasks[g].mine) /\ tasks' = [tasks EXCEPT ![g] = NoTask]
      /\ UNCHANGED <<ReconnectOnMsg, alone, innerWriter, lg, arrived, lost, gone, sentMsgs>>
  BY DEF Close
<1>3. NoTask \in ConnTask /\ NoTask.pc = "idle" /\ NoTask.mine = 0
  BY DEF NoTask, ConnTask
<1>4. /\ tasks' \in [Loggers -> ConnTask] /\ tasks'[g] = NoTask
      /\ \A h \in Loggers \ {g} : tasks'[h] = tasks[h]
  BY <1>1, <1>2, <1>3, TaskChanged
<1>5. /\ conns' \in Seq(ConnStates) /\ DOMAIN conns' = DOMAIN conns
      /\ \A c \in DOMAIN conns : conns'[c] =
            IF c = tasks[g].mine /\ conns[c] # "broken" THEN "closed" ELSE conns[c]
  BY <1>1, <1>2, ConnClosed
<1>6. ConnTypes'
  <2>1. \A h \in Loggers : /\ tasks'[h].mine \in {0} \cup DOMAIN conns
                           /\ tasks'[h].pc \in {"assign", "assignLg"} => tasks'[h].mine # 0
    BY <1>3, <1>4 DEF K_Inv, ConnTypes
  <2> QED
    BY <1>2, <1>4, <1>5, <2>1 DEF K_Inv, ConnTypes
<1>7. ASSUME alone, ~gone PROVE Alone(g)'
  <2>1. Alone(g)
    BY <1>7, AlonePlace
  <2>2. innerWriter # 0 /\ lg = innerWriter /\ conns[lg] # "closed" /\ innerWriter \in DOMAIN conns
    BY <1>2, <2>1 DEF Alone, K_Inv, ConnTypes
  <2>3. \A c \in DOMAIN conns : conns[c] = "open" => c = innerWriter /\ c # 0
    BY <1>2, <2>1, <2>2 DEF Alone
  <2>4. CASE ReconnectOnMsg
    <3>1. tasks[g].mine = innerWriter
      BY <1>2, <2>1, <2>4 DEF Alone
    <3>2. \A c \in DOMAIN conns : conns'[c] # "open"
      BY <1>5, <2>3, <3>1
    <3> QED
      BY <1>2, <1>3, <1>4, <1>5, <2>4, <3>2 DEF Alone
  <2>5. CASE ~ReconnectOnMsg
    <3>1. conns' = conns
      BY <1>2, <2>1, <2>5 DEF Alone, Closed
    <3> QED
      BY <1>2, <1>3, <1>4, <2>2, <2>3, <2>5, <3>1 DEF Alone
  <2> QED
    BY <2>4, <2>5
<1>8. Broken' <=> Broken
  BY <1>5 DEF Broken
<1>9. lg = 0 => \A c \in DOMAIN arrived : arrived[c] = <<>>
  BY DEF K_Inv, FirstRace
<1> QED
  BY <1>2, <1>3, <1>4, <1>6, <1>7, <1>8, <1>9, AlonePlace, ConnRest

\* Destroy, and a collector that goes away.
LEMMA ConnEnds ==
  ASSUME K_Inv, ~Panicked, connDestroy \/ \E c \in DOMAIN conns : Break(c)
  PROVE  K_Inv'
<1>1. /\ UNCHANGED <<ReconnectOnMsg, alone, innerWriter, lg, arrived, lost, sentMsgs, tasks>>
      /\ conns \in Seq(ConnStates) /\ innerWriter \in {0} \cup DOMAIN conns
  BY DEF connDestroy, Break, K_Inv, ConnTypes
<1>2. CASE connDestroy
  <2>1. conns' = Closed(innerWriter) /\ gone'
    BY <1>2 DEF connDestroy
  <2>2. conns' \in Seq(ConnStates) /\ DOMAIN conns' = DOMAIN conns
    BY <1>1, <2>1, ConnClosed
  <2>3. ConnTypes' /\ FirstRace' /\ OneCaller'
    BY <1>1, <2>1, <2>2 DEF K_Inv, ConnTypes, FirstRace, OneCaller, Panicked
  <2> QED
    BY <2>3 DEF K_Inv
<1>3. ASSUME NEW c \in DOMAIN conns, Break(c) PROVE K_Inv'
  <2>1. conns[c] = "open" /\ conns' = [conns EXCEPT ![c] = "broken"] /\ UNCHANGED gone
    BY <1>3 DEF Break
  <2>2. conns' \in Seq(ConnStates)
    <3>1. "broken" \in ConnStates
      BY DEF ConnStates
    <3> QED
      BY <1>1, <1>3, <2>1, <3>1, ExceptSeq
  <2>3. /\ DOMAIN conns' = DOMAIN conns /\ conns'[c] = "broken"
        /\ \A d \in DOMAIN conns : /\ conns'[d] = "open" => conns[d] = "open"
                                   /\ conns[d] # "closed" => conns'[d] # "closed"
    BY <2>1
  <2>4. ConnTypes' /\ FirstRace'
    BY <1>1, <2>2, <2>3 DEF K_Inv, ConnTypes, FirstRace, Panicked
  <2>5. OneCaller'
    <3>1. Broken'
      BY <1>3, <2>3 DEF Broken
    <3>2. ASSUME NEW g \in Active, Alone(g) PROVE Alone(g)'
      <4>1. tasks[g].mine \in {0} \cup DOMAIN conns /\ lg \in {0} \cup DOMAIN conns
        BY ActiveLoggers DEF K_Inv, ConnTypes
      <4>2. \A d \in DOMAIN conns : conns'[d] = "open" =>
               \/ d = innerWriter /\ (tasks[g].pc = "idle" => ~ReconnectOnMsg)
               \/ d = tasks[g].mine /\ tasks[g].pc = "assign"
        BY <2>3, <3>2 DEF Alone
      <4>3. tasks[g].pc \in {"assign", "assignLg"} => tasks[g].mine # 0
        BY ActiveLoggers DEF K_Inv, ConnTypes
      <4> QED
        BY <1>1, <2>3, <3>2, <4>1, <4>2, <4>3 DEF Alone
    <3>3. Active' = Active
      BY <1>1 DEF Active
    <3> QED
      BY <1>1, <2>1, <3>1, <3>2, <3>3 DEF K_Inv, OneCaller
  <2> QED
    BY <2>4, <2>5 DEF K_Inv
<1> QED
  BY <1>2, <1>3

\* To a collector, whoever logs and however often it reconnects: a single caller
\* loses no message, does not panic and leaves no connection open as long as none
\* breaks, and callers that race panic over the first connection only
\* (conn.go:49-113).
THEOREM ConnectionInvariant == ConnSpec => []ConnInv
<1>1. ConnInit => K_Inv
  <2> SUFFICES ASSUME ConnInit PROVE K_Inv
    OBVIOUS
  <2> USE DEF ConnInit
  <2>1. NoTask \in ConnTask /\ NoTask.pc = "idle" /\ NoTask.mine = 0
    BY DEF NoTask, ConnTask
  <2>2. \A g \in Loggers : tasks[g] = NoTask
    OBVIOUS
  <2>3. <<>> \in Seq(ConnStates) /\ <<>> \in Seq(Seq(Nat)) /\ DOMAIN <<>> = {}
    OBVIOUS
  <2>4. ConnTypes
    BY <2>1, <2>2, <2>3 DEF ConnTypes
  <2>5. OneCaller
    BY <2>1, <2>2, <2>3, ActiveLoggers DEF OneCaller, Alone
  <2>6. FirstRace
    BY <2>1, <2>2, <2>3 DEF FirstRace, Panicked
  <2> QED
    BY <2>4, <2>5, <2>6 DEF K_Inv
<1>2. K_Inv /\ [ConnNext]_connVars => K_Inv'
  <2>1. CASE K_Inv /\ UNCHANGED connVars
    <3> USE <2>1 DEF connVars
    <3>1. ConnTypes' /\ FirstRace'
      BY DEF K_Inv, ConnTypes, FirstRace, Panicked
    <3>2. Active' = Active /\ (Broken' <=> Broken)
      BY DEF Active, Broken
    <3>3. \A g \in Active : Alone(g) => Alone(g)'
      BY DEF Alone
    <3>4. OneCaller'
      BY <3>2, <3>3 DEF K_Inv, OneCaller
    <3> QED
      BY <3>1, <3>4 DEF K_Inv
  <2>2. CASE K_Inv /\ ConnNext
    BY <2>2, ConnStarts, ConnDisconnects, ConnDials, ConnAssigns, ConnDefers, ConnPrints, ConnCloses,
       ConnEnds DEF ConnNext
  <2> QED
    BY <2>1, <2>2
<1>3. K_Inv => ConnInv
  <2> SUFFICES ASSUME K_Inv PROVE ConnInv
    OBVIOUS
  <2>1. ASSUME alone, ~gone PROVE \E g \in Active : Alone(g) /\ Active = {g} /\ ~Panicked
    <3>1. PICK g \in Loggers : Active = {g}
      BY <2>1, ActiveLoggers
    <3>2. Alone(g) /\ \A h \in Loggers \ {g} : tasks[h].pc = "idle"
      BY <2>1, <3>1 DEF K_Inv, OneCaller
    <3>3. ~Panicked
      BY <3>2 DEF Panicked, Alone
    <3> QED
      BY <3>1, <3>2, <3>3
  <2>2. LostIfBrokenOnly
    BY <2>1 DEF LostIfBrokenOnly, K_Inv, OneCaller
  <2>3. NoneLeaked
    <3> SUFFICES ASSUME alone, ~gone, NEW c \in DOMAIN conns, conns[c] = "open"
                 PROVE  \/ c = innerWriter /\ (ReconnectOnMsg => \E g \in Active : tasks[g].pc # "idle")
                        \/ \E g \in Active : tasks[g].pc = "assign" /\ tasks[g].mine = c
      BY DEF NoneLeaked
    <3> QED
      BY <2>1 DEF Alone
  <2>4. RaceAtFirstOnly
    BY DEF RaceAtFirstOnly, K_Inv, FirstRace
  <2> QED
    BY <2>2, <2>3, <2>4 DEF ConnInv
<1> QED
  BY <1>1, <1>2, <1>3, PTL DEF ConnSpec
-----------------------------------------------------------------------------
(* The packets of the raw socket (RawUDP).                                  *)

\* A set of numbers that is not empty has a least.
LEMMA LeastElement ==
  ASSUME NEW S, S \subseteq Nat, S # {}
  PROVE  \E m \in S : \A k \in S : m <= k
<1>1. PICK m \in S : \A k \in S : ~(<<k, m>> \in OpToRel(<, Nat))
  BY NatLessThanWellFounded, WFMin
<1>2. \A k \in S : <<k, m>> \in Nat \X Nat /\ <<k, m>>[1] = k /\ <<k, m>>[2] = m
  OBVIOUS
<1>3. \A k \in S : ~(k < m)
  BY <1>1, <1>2 DEF OpToRel
<1>4. m \in Nat /\ \A k \in S : k \in Nat
  BY <1>1
<1> QED
  BY <1>3, <1>4

\* Induction over the numbers of a set.
LEMMA SetInduction ==
  ASSUME NEW S, NEW n, n \in Nat, 0 \in S, \A k \in 0 .. n - 1 : k \in S => k + 1 \in S
  PROVE  \A k \in 0 .. n : k \in S
<1> SUFFICES ASSUME NEW x \in 0 .. n, x \notin S PROVE FALSE
  OBVIOUS
<1> DEFINE T == {k \in 0 .. n : k \notin S}
<1>1. T \subseteq Nat /\ T # {}
  OBVIOUS
<1>2. PICK m \in T : \A k \in T : m <= k
  BY ONLY <1>1, LeastElement
<1>3. m \in 0 .. n /\ m \notin S /\ m # 0
  OBVIOUS
<1>4. m - 1 \in 0 .. n - 1 /\ ~(m <= m - 1) /\ (m - 1) + 1 = m /\ m - 1 \in 0 .. n
  BY ONLY <1>3, n \in Nat
<1>5. m - 1 \in S
  BY <1>2, <1>4
<1> QED
  BY <1>3, <1>4, <1>5

\* Quotient and remainder are unique.
LEMMA DivUnique ==
  ASSUME NEW d \in Nat, d > 0, NEW q \in Int, NEW r \in Nat, r < d, NEW x, x = q * d + r
  PROVE  x \in Int /\ x \div d = q /\ x % d = r
<1>1. x \in Int
  OBVIOUS
<1>2. PICK p : p \in Int /\ p = x \div d
  BY <1>1
<1>3. PICK s : s \in Nat /\ s = x % d /\ s < d
  BY <1>1
<1>4. x = p * d + s
  BY <1>1, <1>2, <1>3
<1>5. p * d + s = q * d + r
  BY ONLY <1>4, x = q * d + r
<1>6. ~(p < q)
  <2> SUFFICES ASSUME p < q PROVE FALSE
    OBVIOUS
  <2>1. p + 1 <= q
    BY ONLY <1>2, p < q, q \in Int
  <2>2. (p + 1) * d <= q * d
    BY ONLY <1>2, <2>1, q \in Int, d \in Nat
  <2>3. (p + 1) * d = p * d + d
    BY ONLY <1>2, d \in Nat
  <2>4. p * d \in Int /\ q * d \in Int
    BY ONLY <1>2, d \in Nat, q \in Int
  <2> QED
    BY ONLY <1>3, <1>5, <2>2, <2>3, <2>4, d \in Nat, r \in Nat
<1>7. ~(q < p)
  <2> SUFFICES ASSUME q < p PROVE FALSE
    OBVIOUS
  <2>1. q + 1 <= p
    BY ONLY <1>2, q < p, q \in Int
  <2>2. (q + 1) * d <= p * d
    BY ONLY <1>2, <2>1, q \in Int, d \in Nat
  <2>3. (q + 1) * d = q * d + d
    BY ONLY q \in Int, d \in Nat
  <2>4. p * d \in Int /\ q * d \in Int
    BY ONLY <1>2, d \in Nat, q \in Int
  <2> QED
    BY ONLY <1>3, <1>5, <2>2, <2>3, <2>4, d \in Nat, r \in Nat, r < d
<1>8. p = q
  BY ONLY <1>2, <1>6, <1>7, q \in Int
<1>9. s = r
  <2>1. PICK y : y \in Int /\ y = q * d
    BY ONLY d \in Nat, q \in Int
  <2>2. y + s = y + r
    BY ONLY <1>5, <1>8, <2>1
  <2>3. s \in Nat
    BY ONLY <1>3
  <2>4. y \in Int
    BY ONLY <2>1
  <2> QED
    BY ONLY <2>2, <2>3, <2>4, r \in Nat
<1> QED
  BY <1>1, <1>2, <1>3, <1>8, <1>9


\* g is the function with the value a at 0 and each step's from the one before.
StepsOf(g, n, a, F) == g[0] = a /\ \A k \in 1 .. n : g[k] = F[k][g[k - 1]]

\* A function that is defined by recursion on the numbers up to n is there.
LEMMA RecursionExists ==
  ASSUME NEW n \in Nat, NEW V, NEW a \in V, NEW F \in [1 .. n -> [V -> V]]
  PROVE  \E g : g \in [0 .. n -> V] /\ StepsOf(g, n, a, F)
<1> DEFINE Is(k, g) == g[0] = a /\ \A j \in 1 .. k : g[j] = F[j][g[j - 1]]
           S == {k \in 0 .. n : \E g \in [0 .. k -> V] : Is(k, g)}
<1>1. 0 \in S
  <2>1. PICK g : g = [j \in 0 .. 0 |-> a]
    OBVIOUS
  <2>2. g \in [0 .. 0 -> V] /\ g[0] = a
    BY <2>1
  <2>3. \A j \in 1 .. 0 : FALSE
    OBVIOUS
  <2>4. Is(0, g)
    BY ONLY <2>2, <2>3
  <2>5. 0 \in 0 .. n
    OBVIOUS
  <2> QED
    BY ONLY <2>2, <2>4, <2>5
<1>2. ASSUME NEW k \in 0 .. n - 1, k \in S PROVE k + 1 \in S
  <2>1. PICK g \in [0 .. k -> V] : Is(k, g)
    BY <1>2
  <2> DEFINE h == [j \in 0 .. k + 1 |-> IF j = k + 1 THEN F[k + 1][g[k]] ELSE g[j]]
  <2>2. k \in Nat /\ k + 1 \in 1 .. n /\ k + 1 \in 0 .. n
    OBVIOUS
  <2>3. g[k] \in V /\ F[k + 1] \in [V -> V]
    BY <2>2
  <2>4. F[k + 1][g[k]] \in V
    BY ONLY <2>3
  <2>5. h \in [0 .. k + 1 -> V]
    BY ONLY <2>2, <2>4, g \in [0 .. k -> V]
  <2>6. \A j \in 0 .. k : h[j] = g[j]
    BY ONLY <2>2
  <2>7. h[k + 1] = F[k + 1][h[k]]
    BY ONLY <2>2, <2>6
  <2>8. ASSUME NEW j \in 1 .. k + 1 PROVE h[j] = F[j][h[j - 1]]
    <3>1. CASE j = k + 1
      <4>1. (k + 1) - 1 = k
        BY ONLY <2>2
      <4> QED
        BY ONLY <2>7, <3>1, <4>1
    <3>2. CASE j # k + 1
      <4>1. j \in 1 .. k /\ j \in 0 .. k /\ j - 1 \in 0 .. k
        BY ONLY <2>2, <3>2, j \in 1 .. k + 1
      <4>2. g[j] = F[j][g[j - 1]]
        BY <2>1, <4>1
      <4> QED
        BY ONLY <2>6, <4>1, <4>2
    <3> QED
      BY ONLY <3>1, <3>2
  <2>9. h[0] = a
    <3>1. g[0] = a
      BY <2>1
    <3>2. 0 \in 0 .. k
      BY ONLY <2>2
    <3> QED
      BY ONLY <2>6, <3>1, <3>2
  <2>10. Is(k + 1, h)
    BY ONLY <2>8, <2>9
  <2> QED
    BY ONLY <2>2, <2>5, <2>10
<1>3. \A k \in 0 .. n : k \in S
  <2>1. n \in Nat /\ 0 \in S /\ \A k \in 0 .. n - 1 : k \in S => k + 1 \in S
    BY ONLY <1>1, <1>2, n \in Nat
  <2> HIDE DEF S
  <2> QED
    BY ONLY <2>1, SetInduction
<1>4. PICK g \in [0 .. n -> V] : Is(n, g)
  BY <1>3
<1> QED
  BY <1>4 DEF StepsOf

ByteValues == 0 .. (ByteSize - 1)
MaxWord == Word - 1

Weighted(s) ==
    LET sum[n \in 0..Len(s)] == IF n = 0 THEN 0 ELSE sum[n - 1] + s[n] * weight(n)
    IN  sum

Added(buf, seed) ==
    LET word(i) == IF i = Len(buf) THEN buf[i] * ByteSize ELSE buf[i] * ByteSize + buf[i + 1]
        sum[n \in 0..Len(buf)] == IF n = 0 THEN seed
                                  ELSE IF n % 2 = 1 THEN uint32(sum[n - 1] + word(n)) ELSE sum[n - 1]
    IN  sum

\* The sums of the receiver and of the sender, by name.
LEMMA Unfolded ==
  /\ \A s : Right(s) <=> Weighted(s)[Len(s)] % MaxWord = 0
  /\ \A s, seed : checksumAdd(s, seed) = Added(s, seed)[Len(s)]
<1>1. ASSUME NEW s PROVE Right(s) <=> Weighted(s)[Len(s)] % MaxWord = 0
  BY DEF Right, Weighted, MaxWord
<1>2. ASSUME NEW s, NEW seed PROVE checksumAdd(s, seed) = Added(s, seed)[Len(s)]
  BY DEF checksumAdd, Added
<1> QED
  BY <1>1, <1>2

\* What the constants are.
LEMMA ByteFacts ==
  /\ ByteSize \in Nat /\ ByteSize > 6 /\ UDP \in ByteValues
  /\ Word \in Nat /\ Word = ByteSize * ByteSize /\ Word > 42 /\ MaxWord \in Nat /\ MaxWord = Word - 1
  /\ ByteValues \subseteq Nat
<1>1. ByteSize \in Nat /\ ByteSize > 6 /\ UDP \in ByteValues
  BY PacketConstants DEF ByteValues
<1>2. ByteSize * ByteSize > 42 /\ ByteSize * ByteSize \in Nat
  BY ONLY <1>1
<1> QED
  BY ONLY <1>1, <1>2 DEF Word, MaxWord, ByteValues

\* The receiver's sum, step by step.
LEMMA WeightedSum ==
  ASSUME NEW s \in Seq(ByteValues)
  PROVE  /\ Weighted(s) \in [0 .. Len(s) -> Nat]
         /\ Weighted(s)[0] = 0
         /\ \A n \in 1 .. Len(s) : Weighted(s)[n] = Weighted(s)[n - 1] + s[n] * weight(n)
<1>1. Len(s) \in Nat /\ \A n \in 1 .. Len(s) : s[n] \in Nat
  <2>1. Len(s) \in Nat /\ \A n \in 1 .. Len(s) : s[n] \in ByteValues
    BY ONLY s \in Seq(ByteValues)
  <2> QED
    BY ONLY <2>1, ByteFacts
<1>2. \A n \in 1 .. Len(s) : weight(n) \in Nat
  BY ByteFacts DEF weight
<1>3. \A n \in 1 .. Len(s) : s[n] * weight(n) \in Nat
  BY ONLY <1>1, <1>2
<1> DEFINE F == [n \in 1 .. Len(s) |-> [v \in Nat |-> v + s[n] * weight(n)]]
<1>4. F \in [1 .. Len(s) -> [Nat -> Nat]]
  BY ONLY <1>1, <1>3
<1>5. PICK g : g \in [0 .. Len(s) -> Nat] /\ StepsOf(g, Len(s), 0, F)
  <2>1. Len(s) \in Nat /\ 0 \in Nat
    BY <1>1
  <2> HIDE DEF F
  <2> QED
    BY ONLY <1>4, <2>1, RecursionExists
<1>6. ASSUME NEW n \in 1 .. Len(s) PROVE g[n] = g[n - 1] + s[n] * weight(n)
  <2>1. n - 1 \in 0 .. Len(s)
    BY ONLY <1>1, n \in 1 .. Len(s)
  <2>2. g[n - 1] \in Nat
    BY ONLY <1>5, <2>1
  <2>3. g[n] = F[n][g[n - 1]]
    BY <1>5 DEF StepsOf
  <2> QED
    BY ONLY <2>2, <2>3, n \in 1 .. Len(s)
<1>7. g = [n \in 0 .. Len(s) |-> IF n = 0 THEN 0 ELSE g[n - 1] + s[n] * weight(n)]
  <2>1. \A n \in 0 .. Len(s) : n = 0 \/ n \in 1 .. Len(s)
    BY ONLY <1>1
  <2>2. g[0] = 0
    BY <1>5 DEF StepsOf
  <2>3. \A n \in 0 .. Len(s) : g[n] = IF n = 0 THEN 0 ELSE g[n - 1] + s[n] * weight(n)
    BY ONLY <1>6, <2>1, <2>2
  <2> QED
    BY ONLY <1>5, <2>3
<1> DEFINE Sums(f) == f = [n \in 0 .. Len(s) |-> IF n = 0 THEN 0 ELSE f[n - 1] + s[n] * weight(n)]
<1>8. Sums(g)
  BY <1>7
<1>9. Weighted(s) = CHOOSE f : Sums(f)
  BY DEF Weighted
<1>10. PICK w : w = Weighted(s)
  OBVIOUS
<1>11. Sums(w)
  <2> HIDE DEF Sums
  <2> QED
    BY ONLY <1>8, <1>9, <1>10
<1>12. /\ DOMAIN w = 0 .. Len(s) /\ w = [n \in 0 .. Len(s) |-> w[n]]
       /\ \A n \in 0 .. Len(s) : w[n] = IF n = 0 THEN 0 ELSE w[n - 1] + s[n] * weight(n)
  BY ONLY <1>11
<1>13. w[0] = 0 /\ \A n \in 1 .. Len(s) : w[n] = w[n - 1] + s[n] * weight(n)
  <2>1. 0 \in 0 .. Len(s) /\ \A n \in 1 .. Len(s) : n \in 0 .. Len(s) /\ n # 0
    BY ONLY <1>1
  <2> QED
    BY ONLY <1>12, <2>1
<1>14. \A n \in 0 .. Len(s) : w[n] \in Nat
  <2> DEFINE N == {n \in 0 .. Len(s) : w[n] \in Nat}
  <2>1. 0 \in N
    BY ONLY <1>1, <1>13
  <2>2. ASSUME NEW n \in 0 .. Len(s) - 1, n \in N PROVE n + 1 \in N
    <3>1. n + 1 \in 1 .. Len(s) /\ n + 1 \in 0 .. Len(s) /\ (n + 1) - 1 = n
      BY ONLY <1>1, n \in 0 .. Len(s) - 1
    <3>2. w[n + 1] = w[n] + s[n + 1] * weight(n + 1)
      BY ONLY <1>13, <3>1
    <3>3. w[n] \in Nat
      BY <2>2
    <3> QED
      BY ONLY <1>3, <3>1, <3>2, <3>3
  <2>3. \A n \in 0 .. Len(s) : n \in N
    <3>1. Len(s) \in Nat /\ 0 \in N /\ \A n \in 0 .. Len(s) - 1 : n \in N => n + 1 \in N
      BY ONLY <1>1, <2>1, <2>2
    <3> HIDE DEF N
    <3> QED
      BY ONLY <3>1, SetInduction
  <2> QED
    BY <2>3
<1> QED
  BY ONLY <1>10, <1>12, <1>13, <1>14

\* t has after b the n octets that s has after a.
Agree(s, a, t, b, n) == \A i \in 1 .. n : t[b + i] = s[a + i]
Rises(s, a, t, b, n) == Weighted(t)[b + n] - Weighted(t)[b] = Weighted(s)[a + n] - Weighted(s)[a]

\* Two segments that agree, at a distance that is even, add the same to the sums.
LEMMA SameSegments ==
  ASSUME NEW s, NEW t, NEW a, NEW b, NEW n, s \in Seq(ByteValues), t \in Seq(ByteValues),
         a \in Nat, b \in Nat, n \in Nat, a + n <= Len(s), b + n <= Len(t), a % 2 = b % 2,
         Agree(s, a, t, b, n)
  PROVE  Rises(s, a, t, b, n)
<1> DEFINE N == {k \in 0 .. n : Weighted(t)[b + k] - Weighted(t)[b] = Weighted(s)[a + k] - Weighted(s)[a]}
<1>1. PICK x, y : x = Weighted(s) /\ y = Weighted(t)
  OBVIOUS
<1>2. /\ x \in [0 .. Len(s) -> Nat] /\ \A k \in 1 .. Len(s) : x[k] = x[k - 1] + s[k] * weight(k)
      /\ y \in [0 .. Len(t) -> Nat] /\ \A k \in 1 .. Len(t) : y[k] = y[k - 1] + t[k] * weight(k)
  BY ONLY <1>1, WeightedSum, s \in Seq(ByteValues), t \in Seq(ByteValues)
<1>3. Len(s) \in Nat /\ Len(t) \in Nat
  BY ONLY s \in Seq(ByteValues), t \in Seq(ByteValues)
<1>4. \A k \in 0 .. n : a + k \in 0 .. Len(s) /\ b + k \in 0 .. Len(t)
  BY ONLY <1>3, a \in Nat, b \in Nat, n \in Nat, a + n <= Len(s), b + n <= Len(t)
<1>5. \A k \in 0 .. n : x[a + k] \in Nat /\ y[b + k] \in Nat
  BY ONLY <1>2, <1>4
<1>6. a + 0 = a /\ b + 0 = b /\ 0 \in 0 .. n
  BY ONLY a \in Nat, b \in Nat, n \in Nat
<1>7. x[a] \in Nat /\ y[b] \in Nat
  BY ONLY <1>5, <1>6
<1>8. 0 \in N
  <2>1. y[b] - y[b] = x[a] - x[a]
    BY ONLY <1>7
  <2> QED
    BY ONLY <1>1, <1>6, <2>1
<1>9. ASSUME NEW k \in 0 .. n - 1, k \in N PROVE k + 1 \in N
  <2>1. /\ k + 1 \in 1 .. n /\ k + 1 \in 0 .. n /\ k \in 0 .. n /\ k \in Nat
        /\ a + (k + 1) \in 1 .. Len(s) /\ (a + (k + 1)) - 1 = a + k
        /\ b + (k + 1) \in 1 .. Len(t) /\ (b + (k + 1)) - 1 = b + k
    BY ONLY <1>3, a \in Nat, b \in Nat, n \in Nat, a + n <= Len(s), b + n <= Len(t), k \in 0 .. n - 1
  <2>2. /\ x[a + (k + 1)] = x[a + k] + s[a + (k + 1)] * weight(a + (k + 1))
        /\ y[b + (k + 1)] = y[b + k] + t[b + (k + 1)] * weight(b + (k + 1))
    BY ONLY <1>2, <2>1
  <2>3. (a + (k + 1)) % 2 = (b + (k + 1)) % 2
    BY ONLY <2>1, a \in Nat, b \in Nat, a % 2 = b % 2
  <2>4. weight(a + (k + 1)) = weight(b + (k + 1))
    BY ONLY <2>3 DEF weight
  <2>5. t[b + (k + 1)] = s[a + (k + 1)]
    BY ONLY <2>1, Agree(s, a, t, b, n) DEF Agree
  <2>6. PICK d : d = s[a + (k + 1)] * weight(a + (k + 1))
    OBVIOUS
  <2>7. x[a + (k + 1)] = x[a + k] + d /\ y[b + (k + 1)] = y[b + k] + d
    BY ONLY <2>2, <2>4, <2>5, <2>6
  <2>8. d \in Int
    <3>1. s[a + (k + 1)] \in Nat /\ weight(a + (k + 1)) \in Nat
      <4>1. s[a + (k + 1)] \in ByteValues
        BY ONLY <2>1, s \in Seq(ByteValues)
      <4> QED
        BY ONLY <4>1, ByteFacts DEF weight
    <3> QED
      BY ONLY <2>6, <3>1
  <2>9. y[b + k] - y[b] = x[a + k] - x[a]
    BY ONLY <1>1, <1>9
  <2>10. x[a + k] \in Nat /\ y[b + k] \in Nat
    BY ONLY <1>5, <2>1
  <2>11. y[b + (k + 1)] - y[b] = x[a + (k + 1)] - x[a]
    <3>1. PICK p, q, u, v : /\ p \in Nat /\ p = x[a] /\ q \in Nat /\ q = y[b]
                            /\ u \in Nat /\ u = x[a + k] /\ v \in Nat /\ v = y[b + k]
      BY ONLY <1>7, <2>10
    <3>2. v - q = u - p
      BY ONLY <2>9, <3>1
    <3>3. p \in Nat /\ q \in Nat /\ u \in Nat /\ v \in Nat
      BY ONLY <3>1
    <3>4. (v + d) - q = (u + d) - p
      BY ONLY <2>8, <3>2, <3>3
    <3> QED
      BY ONLY <2>7, <3>1, <3>4
  <2> QED
    BY ONLY <1>1, <2>1, <2>11
<1>10. \A k \in 0 .. n : k \in N
  <2>1. n \in Nat /\ 0 \in N /\ \A k \in 0 .. n - 1 : k \in N => k + 1 \in N
    BY ONLY <1>8, <1>9, n \in Nat
  <2> HIDE DEF N
  <2> QED
    BY ONLY <2>1, SetInduction
<1> QED
  <2>1. n \in 0 .. n
    BY ONLY n \in Nat
  <2> QED
    BY <1>10, <2>1 DEF Rises

\* The sums after the two octets of a word.
LEMMA NextWord ==
  ASSUME NEW s \in Seq(ByteValues), NEW k \in Nat, k % 2 = 0, k + 2 <= Len(s)
  PROVE  /\ Weighted(s)[k] \in Nat /\ Weighted(s)[k + 1] = Weighted(s)[k] + s[k + 1] * ByteSize
         /\ Weighted(s)[k + 2] = Weighted(s)[k] + (s[k + 1] * ByteSize + s[k + 2])
<1>1. PICK x : x = Weighted(s)
  OBVIOUS
<1>2. Len(s) \in Nat
  OBVIOUS
<1>3. /\ k \in 0 .. Len(s) /\ k + 1 \in 1 .. Len(s) /\ k + 2 \in 1 .. Len(s)
      /\ (k + 1) - 1 = k /\ (k + 2) - 1 = k + 1
  BY ONLY <1>2, k \in Nat, k + 2 <= Len(s)
<1>4. (k + 1) % 2 = 1 /\ (k + 2) % 2 = 0
  BY ONLY k \in Nat, k % 2 = 0
<1>5. /\ x[k] \in Nat /\ x[k + 1] = x[k] + s[k + 1] * weight(k + 1)
      /\ x[k + 2] = x[k + 1] + s[k + 2] * weight(k + 2)
  <2>1. x \in [0 .. Len(s) -> Nat] /\ \A n \in 1 .. Len(s) : x[n] = x[n - 1] + s[n] * weight(n)
    BY ONLY <1>1, WeightedSum, s \in Seq(ByteValues)
  <2> QED
    BY ONLY <1>3, <2>1
<1>6. s[k + 1] \in Nat /\ s[k + 2] \in Nat
  <2>1. s[k + 1] \in ByteValues /\ s[k + 2] \in ByteValues
    BY ONLY <1>3, s \in Seq(ByteValues)
  <2> QED
    BY ONLY <2>1, ByteFacts
<1>7. weight(k + 1) = ByteSize /\ weight(k + 2) = 1
  BY ONLY <1>4 DEF weight
<1>8. PICK d : d \in Nat /\ d = s[k + 1] * ByteSize
  BY ONLY <1>6, ByteFacts
<1>9. s[k + 2] * 1 = s[k + 2]
  BY ONLY <1>6
<1>10. x[k + 1] = x[k] + d /\ x[k + 2] = x[k + 1] + s[k + 2]
  BY ONLY <1>5, <1>7, <1>8, <1>9
<1>11. x[k + 2] = x[k] + (d + s[k + 2])
  BY ONLY <1>5, <1>6, <1>8, <1>10
<1> QED
  BY ONLY <1>1, <1>5, <1>8, <1>10, <1>11

\* An octet adds less than a word.
LEMMA SumsBounded ==
  ASSUME NEW s \in Seq(ByteValues)
  PROVE  \A n \in 0 .. Len(s) : Weighted(s)[n] <= n * MaxWord
<1> DEFINE N == {n \in 0 .. Len(s) : Weighted(s)[n] <= n * MaxWord}
<1>1. PICK x : x = Weighted(s)
  OBVIOUS
<1>2. /\ x \in [0 .. Len(s) -> Nat] /\ x[0] = 0
      /\ \A n \in 1 .. Len(s) : x[n] = x[n - 1] + s[n] * weight(n)
  BY ONLY <1>1, WeightedSum, s \in Seq(ByteValues)
<1>3. Len(s) \in Nat
  OBVIOUS
<1>4. 0 \in N
  <2>1. 0 <= 0 * MaxWord
    BY ONLY ByteFacts
  <2> QED
    BY ONLY <1>1, <1>2, <1>3, <2>1
<1>5. ASSUME NEW n \in 0 .. Len(s) - 1, n \in N PROVE n + 1 \in N
  <2>1. n \in Nat /\ n \in 0 .. Len(s) /\ n + 1 \in 1 .. Len(s) /\ n + 1 \in 0 .. Len(s) /\ (n + 1) - 1 = n
    BY ONLY <1>3, n \in 0 .. Len(s) - 1
  <2>2. x[n] \in Nat /\ x[n + 1] = x[n] + s[n + 1] * weight(n + 1)
    BY ONLY <1>2, <2>1
  <2>3. s[n + 1] \in ByteValues
    BY ONLY <2>1, s \in Seq(ByteValues)
  <2>4. PICK d : d \in Nat /\ d = s[n + 1] * weight(n + 1) /\ d <= MaxWord
    <3>1. PICK o : o \in Nat /\ o <= ByteSize - 1 /\ o = s[n + 1]
      BY ONLY <2>3, ByteFacts DEF ByteValues
    <3>2. weight(n + 1) \in {1, ByteSize}
      BY ONLY TRUE DEF weight
    <3>3. o * 1 \in Nat /\ o * 1 <= MaxWord
      <4>1. ByteSize * ByteSize >= ByteSize
        BY ONLY ByteFacts
      <4> QED
        BY ONLY <3>1, <4>1, ByteFacts
    <3>4. o * ByteSize \in Nat /\ o * ByteSize <= MaxWord
      <4>1. PICK z : z \in Nat /\ z = o * ByteSize /\ z <= (ByteSize - 1) * ByteSize
        BY ONLY <3>1, ByteFacts
      <4>2. (ByteSize - 1) * ByteSize = Word - ByteSize
        BY ONLY ByteFacts
      <4> QED
        BY ONLY <4>1, <4>2, ByteFacts
    <3> QED
      BY ONLY <3>1, <3>2, <3>3, <3>4
  <2>5. x[n] <= n * MaxWord
    BY ONLY <1>1, <1>5
  <2>6. PICK z : z \in Nat /\ z = n * MaxWord /\ (n + 1) * MaxWord = z + MaxWord
    BY ONLY <2>1, ByteFacts
  <2>7. x[n + 1] <= (n + 1) * MaxWord
    BY ONLY <2>2, <2>4, <2>5, <2>6, ByteFacts
  <2> QED
    BY ONLY <1>1, <2>1, <2>7
<1>6. \A n \in 0 .. Len(s) : n \in N
  <2>1. Len(s) \in Nat /\ 0 \in N /\ \A n \in 0 .. Len(s) - 1 : n \in N => n + 1 \in N
    BY ONLY <1>3, <1>4, <1>5
  <2> HIDE DEF N
  <2> QED
    BY ONLY <2>1, SetInduction
<1> QED
  BY <1>6

\* The words added by the code, one at a time.
WordAt(buf, i) == IF i = Len(buf) THEN buf[i] * ByteSize ELSE buf[i] * ByteSize + buf[i + 1]

\* A word is a number.
LEMMA WordNat ==
  ASSUME NEW s \in Seq(ByteValues), NEW n \in 1 .. Len(s)
  PROVE  WordAt(s, n) \in Nat
<1>1. Len(s) \in Nat
  OBVIOUS
<1>2. n = Len(s) \/ n + 1 \in 1 .. Len(s)
  BY ONLY <1>1, n \in 1 .. Len(s)
<1>3. s[n] \in ByteValues /\ (n # Len(s) => s[n + 1] \in ByteValues)
  BY ONLY <1>2, s \in Seq(ByteValues), n \in 1 .. Len(s)
<1>4. s[n] \in Nat /\ (n # Len(s) => s[n + 1] \in Nat)
  BY ONLY <1>3, ByteFacts
<1>5. PICK d : d \in Nat /\ d = s[n] * ByteSize
  BY ONLY <1>4, ByteFacts
<1> QED
  BY ONLY <1>4, <1>5 DEF WordAt

\* The sender's sum, step by step (net.go, checksumAdd).
LEMMA AddedSteps ==
  ASSUME NEW s \in Seq(ByteValues), NEW seed \in Nat
  PROVE  /\ Added(s, seed)[0] = seed
         /\ \A n \in 1 .. Len(s) :
                Added(s, seed)[n] = IF n % 2 = 1 THEN uint32(Added(s, seed)[n - 1] + WordAt(s, n))
                                    ELSE Added(s, seed)[n - 1]
<1>1. Len(s) \in Nat
  OBVIOUS
<1> DEFINE F == [n \in 1 .. Len(s) |-> [v \in Nat |-> IF n % 2 = 1 THEN uint32(v + WordAt(s, n)) ELSE v]]
<1>2. Word * Word \in Nat /\ Word * Word > 0
  BY ONLY ByteFacts
<1>3. ASSUME NEW n \in 1 .. Len(s), NEW v \in Nat PROVE uint32(v + WordAt(s, n)) \in Nat
  <2>1. WordAt(s, n) \in Nat
    BY ONLY WordNat, s \in Seq(ByteValues), n \in 1 .. Len(s)
  <2>2. PICK u : u \in Nat /\ u = v + WordAt(s, n)
    BY ONLY <2>1, v \in Nat
  <2>3. PICK m : m \in Nat /\ m = Word * Word /\ m > 0
    BY ONLY <1>2
  <2>4. u % m \in Nat
    BY ONLY <2>2, <2>3
  <2> QED
    BY ONLY <2>2, <2>3, <2>4 DEF uint32
<1>4. F \in [1 .. Len(s) -> [Nat -> Nat]]
  BY ONLY <1>3
<1>5. PICK g : g \in [0 .. Len(s) -> Nat] /\ StepsOf(g, Len(s), seed, F)
  <2>1. Len(s) \in Nat /\ seed \in Nat
    BY <1>1
  <2> HIDE DEF F
  <2> QED
    BY ONLY <1>4, <2>1, RecursionExists
<1> DEFINE Next1(f, n) == IF n % 2 = 1 THEN uint32(f[n - 1] + WordAt(s, n)) ELSE f[n - 1]
<1>6. ASSUME NEW n \in 1 .. Len(s) PROVE g[n] = Next1(g, n)
  <2>1. n - 1 \in 0 .. Len(s)
    BY ONLY <1>1, n \in 1 .. Len(s)
  <2>2. g[n - 1] \in Nat
    BY ONLY <1>5, <2>1
  <2>3. g[n] = F[n][g[n - 1]]
    BY <1>5 DEF StepsOf
  <2> QED
    BY ONLY <2>2, <2>3, n \in 1 .. Len(s)
<1> DEFINE Sums(f) == f = [n \in 0 .. Len(s) |-> IF n = 0 THEN seed ELSE Next1(f, n)]
<1>7. Sums(g)
  <2>1. \A n \in 0 .. Len(s) : n = 0 \/ n \in 1 .. Len(s)
    BY ONLY <1>1
  <2>2. g[0] = seed
    BY <1>5 DEF StepsOf
  <2> HIDE DEF Next1
  <2>3. \A n \in 0 .. Len(s) : g[n] = IF n = 0 THEN seed ELSE Next1(g, n)
    BY ONLY <1>6, <2>1, <2>2
  <2> QED
    BY ONLY <1>5, <2>3
<1>8. Added(s, seed) = CHOOSE f : Sums(f)
  BY DEF Added, WordAt
<1>9. PICK w : w = Added(s, seed)
  OBVIOUS
<1>10. Sums(w)
  <2> HIDE DEF Sums
  <2> QED
    BY ONLY <1>7, <1>8, <1>9
<1>11. \A n \in 0 .. Len(s) : w[n] = IF n = 0 THEN seed ELSE Next1(w, n)
  BY ONLY <1>10
<1>12. 0 \in 0 .. Len(s) /\ \A n \in 1 .. Len(s) : n \in 0 .. Len(s) /\ n # 0
  BY ONLY <1>1
<1>13. w[0] = seed /\ \A n \in 1 .. Len(s) : w[n] = Next1(w, n)
  <2> HIDE DEF Next1
  <2> QED
    BY ONLY <1>11, <1>12
<1> QED
  BY ONLY <1>9, <1>13

\* No sum wraps: the words of a packet and their carries fit in four octets.
LEMMA NoWrap ==
  ASSUME NEW s \in Seq(ByteValues), NEW seed \in 0 .. MaxWord, Len(s) <= MaxWord, NEW n \in 0 .. Len(s)
  PROVE  /\ seed + Weighted(s)[n] \in 0 .. (Word * Word - 1)
         /\ uint32(seed + Weighted(s)[n]) = seed + Weighted(s)[n]
<1>1. Len(s) \in Nat
  OBVIOUS
<1>2. PICK x : x \in Nat /\ x = Weighted(s)[n] /\ x <= n * MaxWord
  <2>1. Weighted(s)[n] \in Nat
    BY ONLY WeightedSum, s \in Seq(ByteValues), n \in 0 .. Len(s)
  <2>2. Weighted(s)[n] <= n * MaxWord
    BY ONLY SumsBounded, s \in Seq(ByteValues), n \in 0 .. Len(s)
  <2> QED
    BY ONLY <2>1, <2>2
<1>3. n \in Nat /\ n <= MaxWord
  BY ONLY <1>1, ByteFacts, Len(s) <= MaxWord, n \in 0 .. Len(s)
<1>4. PICK p : p \in Nat /\ p = n * MaxWord /\ p <= MaxWord * MaxWord
  BY ONLY <1>3, ByteFacts
<1>5. PICK q : q \in Nat /\ q = MaxWord * MaxWord
  BY ONLY ByteFacts
<1>6. PICK m : m \in Nat /\ m = Word * Word /\ m = q + 2 * MaxWord + 1
  <2>1. \A z \in Nat : (z + 1) * (z + 1) = z * z + 2 * z + 1
    OBVIOUS
  <2>2. Word = MaxWord + 1 /\ MaxWord \in Nat
    BY ONLY ByteFacts
  <2>3. Word * Word = q + 2 * MaxWord + 1
    BY ONLY <1>5, <2>1, <2>2
  <2>4. q + 2 * MaxWord + 1 \in Nat
    BY ONLY <1>5, <2>2
  <2> QED
    BY ONLY <2>3, <2>4
<1>7. PICK v : v \in Nat /\ v = seed + x /\ v < m
  <2>1. x <= p /\ p <= q
    BY ONLY <1>2, <1>4, <1>5
  <2>2. seed \in Nat /\ seed <= MaxWord /\ MaxWord \in Nat
    BY ONLY ByteFacts, seed \in 0 .. MaxWord
  <2>3. x \in Nat /\ p \in Nat /\ q \in Nat /\ m \in Nat /\ m = q + 2 * MaxWord + 1
    BY ONLY <1>2, <1>4, <1>5, <1>6
  <2>4. seed + x \in Nat /\ seed + x < m
    BY ONLY <2>1, <2>2, <2>3
  <2> QED
    BY ONLY <2>4
<1>8. m \in Nat /\ v \in Nat /\ v < m
  BY ONLY <1>6, <1>7
<1>9. v % m = v /\ v \in 0 .. (m - 1)
  BY ONLY <1>8
<1> QED
  BY ONLY <1>2, <1>6, <1>7, <1>9 DEF uint32

\* For what fits a packet nothing wraps: the sender's sum is the receiver's.
LEMMA AddedSum ==
  ASSUME NEW s \in Seq(ByteValues), NEW seed \in 0 .. MaxWord, Len(s) <= MaxWord
  PROVE  /\ checksumAdd(s, seed) = seed + Weighted(s)[Len(s)]
         /\ seed + Weighted(s)[Len(s)] \in 0 .. (Word * Word - 1)
<1>1. Len(s) \in Nat /\ seed \in Nat
  BY ByteFacts
<1> DEFINE End(n) == IF n % 2 = 1 /\ n < Len(s) THEN n + 1 ELSE n
<1>2. PICK x, w : x = Weighted(s) /\ w = Added(s, seed)
  OBVIOUS
<1>3. /\ x \in [0 .. Len(s) -> Nat] /\ x[0] = 0
      /\ \A n \in 1 .. Len(s) : x[n] = x[n - 1] + s[n] * weight(n)
  BY ONLY <1>2, WeightedSum, s \in Seq(ByteValues)
<1>4. /\ w[0] = seed
      /\ \A n \in 1 .. Len(s) : w[n] = IF n % 2 = 1 THEN uint32(w[n - 1] + WordAt(s, n)) ELSE w[n - 1]
  BY ONLY <1>1, <1>2, AddedSteps, s \in Seq(ByteValues)
<1>5. \A n \in 0 .. Len(s) : End(n) \in 0 .. Len(s)
  BY ONLY <1>1
<1>6. \A n \in 0 .. Len(s) : uint32(seed + x[n]) = seed + x[n]
  <2> SUFFICES ASSUME NEW n \in 0 .. Len(s) PROVE uint32(seed + x[n]) = seed + x[n]
    OBVIOUS
  <2> QED
    BY ONLY <1>2, NoWrap, s \in Seq(ByteValues), seed \in 0 .. MaxWord, Len(s) <= MaxWord, n \in 0 .. Len(s)
<1> DEFINE N == {n \in 0 .. Len(s) : w[n] = seed + x[End(n)]}
<1>7. 0 \in N
  <2>1. 0 \in 0 .. Len(s) /\ End(0) = 0
    BY ONLY <1>1
  <2>2. w[0] = seed + x[0]
    BY ONLY <1>1, <1>3, <1>4
  <2> QED
    BY ONLY <2>1, <2>2
<1>8. ASSUME NEW n \in 0 .. Len(s) - 1, n \in N PROVE n + 1 \in N
  <2>1. /\ n \in Nat /\ n \in 0 .. Len(s) /\ n + 1 \in 1 .. Len(s) /\ n + 1 \in 0 .. Len(s)
        /\ (n + 1) - 1 = n /\ n < Len(s)
    BY ONLY <1>1, n \in 0 .. Len(s) - 1
  <2>2. w[n] = seed + x[End(n)]
    BY ONLY <1>8
  <2>3. w[n + 1] = IF (n + 1) % 2 = 1 THEN uint32(w[n] + WordAt(s, n + 1)) ELSE w[n]
    BY ONLY <1>4, <2>1
  <2>4. CASE n % 2 = 1
    <3>1. (n + 1) % 2 # 1
      BY ONLY <2>1, <2>4
    <3>2. End(n) = n + 1 /\ End(n + 1) = n + 1
      BY ONLY <2>1, <2>4, <3>1
    <3> QED
      BY ONLY <2>1, <2>2, <2>3, <3>1, <3>2
  <2>5. CASE n % 2 # 1
    <3>1. (n + 1) % 2 = 1 /\ n % 2 = 0
      BY ONLY <2>1, <2>5
    <3>2. End(n) = n /\ End(n + 1) = IF n + 1 < Len(s) THEN n + 2 ELSE n + 1
      BY ONLY <2>1, <2>5, <3>1
    <3>3. x[n] \in Nat /\ WordAt(s, n + 1) \in Nat
      BY ONLY <1>3, <2>1, WordNat, s \in Seq(ByteValues)
    <3>4. w[n + 1] = uint32((seed + x[n]) + WordAt(s, n + 1))
      BY ONLY <2>2, <2>3, <3>1, <3>2
    <3>5. x[End(n + 1)] = x[n] + WordAt(s, n + 1)
      <4>1. CASE n + 1 = Len(s)
        <5>1. End(n + 1) = n + 1
          BY ONLY <1>1, <3>2, <4>1
        <5>2. x[n + 1] = x[n] + s[n + 1] * ByteSize
          BY ONLY <1>3, <2>1, <3>1 DEF weight
        <5> QED
          BY ONLY <4>1, <5>1, <5>2 DEF WordAt
      <4>2. CASE n + 1 # Len(s)
        <5>1. n + 1 < Len(s) /\ n + 2 <= Len(s) /\ (n + 1) + 1 = n + 2 /\ End(n + 1) = n + 2
          BY ONLY <1>1, <2>1, <3>2, <4>2
        <5>2. x[n + 2] = x[n] + (s[n + 1] * ByteSize + s[n + 2])
          BY ONLY <1>2, <2>1, <3>1, <5>1, NextWord, s \in Seq(ByteValues)
        <5> QED
          BY ONLY <4>2, <5>1, <5>2 DEF WordAt
      <4> QED
        BY ONLY <4>1, <4>2
    <3>6. (seed + x[n]) + WordAt(s, n + 1) = seed + (x[n] + WordAt(s, n + 1))
      BY ONLY <1>1, <3>3
    <3>7. End(n + 1) \in 0 .. Len(s)
      BY ONLY <1>5, <2>1
    <3>8. w[n + 1] = seed + x[End(n + 1)]
      <4> HIDE DEF End
      <4> QED
        BY ONLY <1>6, <3>4, <3>5, <3>6, <3>7
    <3> QED
      BY ONLY <2>1, <3>8
  <2> QED
    BY ONLY <2>4, <2>5
<1>9. \A n \in 0 .. Len(s) : n \in N
  <2>1. Len(s) \in Nat /\ 0 \in N /\ \A n \in 0 .. Len(s) - 1 : n \in N => n + 1 \in N
    BY ONLY <1>1, <1>7, <1>8
  <2> HIDE DEF N
  <2> QED
    BY ONLY <2>1, SetInduction
<1>10. Len(s) \in 0 .. Len(s) /\ End(Len(s)) = Len(s)
  BY ONLY <1>1
<1>11. w[Len(s)] = seed + x[Len(s)]
  BY <1>9, <1>10
<1>12. checksumAdd(s, seed) = w[Len(s)]
  BY ONLY <1>2, Unfolded
<1>13. seed + Weighted(s)[Len(s)] \in 0 .. (Word * Word - 1)
  BY ONLY <1>10, NoWrap, s \in Seq(ByteValues), seed \in 0 .. MaxWord, Len(s) <= MaxWord
<1> QED
  BY ONLY <1>2, <1>11, <1>12, <1>13

Carry(x) == (x \div Word) + (x % Word)

\* Adding the carry makes a sum smaller and keeps it modulo Word - 1.
LEMMA CarryLess ==
  ASSUME NEW x \in Nat, x >= Word
  PROVE  /\ Carry(x) \in Nat /\ Carry(x) > 0 /\ Carry(x) < x
         /\ \E q \in Nat : x = q * MaxWord + Carry(x)
<1>0. Word \in Nat /\ Word > 0
  BY ONLY ByteFacts
<1>1. PICK q, r : q \in Nat /\ q = x \div Word /\ r \in Nat /\ r = x % Word /\ r < Word
  <2>1. x \div Word \in Nat /\ x % Word \in Nat /\ x % Word < Word
    BY ONLY <1>0, x \in Nat
  <2> QED
    BY ONLY <2>1
<1>2. x = q * Word + r
  <2>1. x = Word * (x \div Word) + (x % Word)
    BY ONLY ByteFacts, x \in Nat
  <2>2. Word * q = q * Word
    BY ONLY <1>1, ByteFacts
  <2> QED
    BY ONLY <1>1, <2>1, <2>2
<1>3. q > 0
  <2> SUFFICES ASSUME q = 0 PROVE FALSE
    <3>1. q \in Nat
      BY ONLY <1>1
    <3> QED
      BY <3>1
  <2>1. 0 * Word = 0
    BY ONLY ByteFacts
  <2>2. q * Word = 0
    BY ONLY <2>1, q = 0
  <2>3. Word \in Nat
    BY ONLY ByteFacts
  <2> QED
    BY ONLY <1>1, <1>2, <2>2, <2>3, x >= Word
<1>4. PICK p : p \in Nat /\ p = q * MaxWord /\ p >= q
  <2>1. q * MaxWord \in Nat
    BY ONLY <1>1, ByteFacts
  <2>2. q * MaxWord >= q * 1
    BY ONLY <1>1, ByteFacts
  <2>3. q * 1 = q
    BY ONLY <1>1
  <2> QED
    BY ONLY <2>1, <2>2, <2>3
<1>5. q * Word = p + q
  <2>1. Word = MaxWord + 1 /\ MaxWord \in Nat
    BY ONLY ByteFacts
  <2>2. q * (MaxWord + 1) = q * MaxWord + q
    BY ONLY <1>1, <2>1
  <2> QED
    BY ONLY <1>4, <2>1, <2>2
<1>6. x = p + (q + r)
  BY ONLY <1>1, <1>2, <1>4, <1>5
<1>7. q + r \in Nat /\ q + r > 0 /\ q + r < x
  <2>1. q \in Nat /\ r \in Nat /\ p \in Nat /\ q > 0 /\ p >= q
    BY ONLY <1>1, <1>3, <1>4
  <2> QED
    BY ONLY <1>6, <2>1
<1>8. Carry(x) = q + r
  BY ONLY <1>1 DEF Carry
<1> QED
  BY ONLY <1>1, <1>4, <1>6, <1>7, <1>8

\* What is left of x when no carry is: x, modulo MaxWord, and not zero unless x is.
Folded(x) == IF x = 0 THEN 0 ELSE 1 + ((x - 1) % MaxWord)

\* A sum folded to one word is determined by its remainder.
LEMMA RestUnique ==
  ASSUME NEW x \in Nat, NEW r \in 0 .. MaxWord, NEW q \in Nat, x = q * MaxWord + r, r = 0 <=> x = 0
  PROVE  Folded(x) = r
<1>1. CASE x = 0
  BY ONLY <1>1, r = 0 <=> x = 0 DEF Folded
<1>2. CASE x # 0
  <2>1. r \in Nat /\ r > 0 /\ r - 1 \in Nat /\ r - 1 < MaxWord /\ MaxWord > 0 /\ MaxWord \in Nat
    BY ONLY <1>2, ByteFacts, r \in 0 .. MaxWord, r = 0 <=> x = 0
  <2>2. x - 1 = q * MaxWord + (r - 1)
    <3>1. PICK p : p \in Nat /\ p = q * MaxWord
      BY ONLY <2>1, q \in Nat
    <3> QED
      BY ONLY <2>1, <3>1, x = q * MaxWord + r
  <2>3. PICK y, s : y = x - 1 /\ s = r - 1
    OBVIOUS
  <2>4. y % MaxWord = s
    BY ONLY <2>1, <2>2, <2>3, DivUnique, q \in Nat
  <2> QED
    BY ONLY <1>2, <2>1, <2>3, <2>4 DEF Folded
<1> QED
  BY ONLY <1>1, <1>2

\* A sum folded to one word differs by a multiple of Word - 1.
LEMMA RestForm ==
  ASSUME NEW x \in Nat
  PROVE  /\ Folded(x) \in 0 .. MaxWord /\ (Folded(x) = 0 <=> x = 0)
         /\ \E q \in Nat : x = q * MaxWord + Folded(x)
<1>1. CASE x = 0
  <2>1. 0 = 0 * MaxWord + 0 /\ 0 \in 0 .. MaxWord
    BY ONLY ByteFacts
  <2> QED
    BY ONLY <1>1, <2>1 DEF Folded
<1>2. CASE x # 0
  <2>1. x - 1 \in Nat /\ MaxWord \in Nat /\ MaxWord > 0
    BY ONLY <1>2, ByteFacts, x \in Nat
  <2>2. PICK q, r : q \in Nat /\ q = (x - 1) \div MaxWord /\ r \in Nat /\ r = (x - 1) % MaxWord /\ r < MaxWord
    BY ONLY <2>1
  <2>3. x - 1 = q * MaxWord + r
    <3>1. x - 1 = MaxWord * ((x - 1) \div MaxWord) + ((x - 1) % MaxWord)
      BY ONLY <2>1
    <3>2. MaxWord * q = q * MaxWord
      BY ONLY <2>1, <2>2
    <3> QED
      BY ONLY <2>2, <3>1, <3>2
  <2>4. PICK p : p \in Nat /\ p = q * MaxWord
    BY ONLY <2>1, <2>2
  <2>5. x = p + (1 + r)
    BY ONLY <2>2, <2>3, <2>4, x \in Nat
  <2>6. Folded(x) = 1 + r
    BY ONLY <1>2, <2>2 DEF Folded
  <2>7. 1 + r \in 0 .. MaxWord /\ 1 + r # 0
    BY ONLY <2>1, <2>2
  <2> QED
    BY ONLY <1>2, <2>2, <2>4, <2>5, <2>6, <2>7
<1> QED
  BY ONLY <1>1, <1>2

Sums32 == 0 .. (Word * Word - 1)

\* The carries are added until none is left, in any number of steps.
LEMMA Carried == \A x \in Sums32 : carried[x] = Folded(x)
<1>1. ASSUME NEW x \in Sums32 PROVE x \in Nat
  BY ONLY x \in Sums32, ByteFacts DEF Sums32
<1>2. ASSUME NEW x \in Sums32, x < Word PROVE Folded(x) = x
  <2>1. x \in Nat /\ x \in 0 .. MaxWord /\ 0 \in Nat
    BY ONLY <1>1, ByteFacts, x \in Sums32, x < Word
  <2>2. x = 0 * MaxWord + x
    BY ONLY <2>1, ByteFacts
  <2> QED
    BY ONLY <2>1, <2>2, RestUnique
<1>3. ASSUME NEW x \in Sums32, ~(x < Word) PROVE Carry(x) \in Sums32 /\ Carry(x) < x /\ Folded(x) = Folded(Carry(x))
  <2>1. x \in Nat /\ x >= Word /\ x # 0
    BY ONLY <1>1, ByteFacts, x \in Sums32, ~(x < Word)
  <2>2. PICK y : y \in Nat /\ y = Carry(x) /\ y > 0 /\ y < x
    BY ONLY <2>1, CarryLess
  <2>3. PICK q : q \in Nat /\ x = q * MaxWord + y
    BY ONLY <2>1, <2>2, CarryLess
  <2>4. y \in Sums32
    <3>1. Word * Word \in Nat
      BY ONLY ByteFacts
    <3> QED
      BY ONLY <2>1, <2>2, <3>1, x \in Sums32 DEF Sums32
  <2>5. PICK r : r \in 0 .. MaxWord /\ r = Folded(y) /\ (r = 0 <=> y = 0)
    BY ONLY <2>2, RestForm
  <2>6. PICK p : p \in Nat /\ y = p * MaxWord + r
    BY ONLY <2>2, <2>5, RestForm
  <2>7. r # 0
    BY ONLY <2>2, <2>5
  <2>8. x = (q + p) * MaxWord + r
    <3>1. PICK a, b : a \in Nat /\ a = q * MaxWord /\ b \in Nat /\ b = p * MaxWord
      BY ONLY <2>3, <2>6, ByteFacts
    <3>2. (q + p) * MaxWord = a + b
      <4>1. (q + p) * MaxWord = q * MaxWord + p * MaxWord
        BY ONLY <2>3, <2>6, ByteFacts
      <4> QED
        BY ONLY <3>1, <4>1
    <3>3. r \in Nat
      BY ONLY <2>5, ByteFacts
    <3>4. x = a + (b + r)
      BY ONLY <2>3, <2>6, <3>1
    <3>5. a + (b + r) = (a + b) + r
      BY ONLY <3>1, <3>3
    <3> QED
      BY ONLY <3>2, <3>4, <3>5
  <2>9. q + p \in Nat
    BY ONLY <2>3, <2>6
  <2>10. PICK k : k \in Nat /\ x = k * MaxWord + r
    BY ONLY <2>8, <2>9
  <2>11. Folded(x) = r
    BY ONLY <2>1, <2>5, <2>7, <2>10, RestUnique
  <2> QED
    BY ONLY <2>2, <2>4, <2>5, <2>11
<1> DEFINE Next1(f, x) == IF x < Word THEN x ELSE f[Carry(x)]
           Carries(f) == f = [x \in Sums32 |-> Next1(f, x)]
<1>4. PICK g : g = [x \in Sums32 |-> Folded(x)]
  OBVIOUS
<1>5. Carries(g)
  <2>1. \A x \in Sums32 : g[x] = Next1(g, x)
    BY ONLY <1>2, <1>3, <1>4
  <2>2. DOMAIN g = Sums32 /\ g = [x \in Sums32 |-> g[x]]
    BY ONLY <1>4
  <2> HIDE DEF Next1
  <2> QED
    BY ONLY <2>1, <2>2
<1>6. carried = CHOOSE f : Carries(f)
  BY DEF carried, Carry, Sums32
<1>7. PICK w : w = carried
  OBVIOUS
<1>8. Carries(w)
  <2> HIDE DEF Carries
  <2> QED
    BY ONLY <1>5, <1>6, <1>7
<1>9. \A x \in Sums32 : w[x] = Next1(w, x)
  BY ONLY <1>8
<1> DEFINE Bad == {x \in Sums32 : w[x] # Folded(x)}
<1>10. Bad = {}
  <2> SUFFICES ASSUME Bad # {} PROVE FALSE
    OBVIOUS
  <2>1. Bad \subseteq Nat
    BY ONLY <1>1
  <2>2. PICK x : x \in Bad /\ \A y \in Bad : x <= y
    <3> HIDE DEF Bad
    <3> QED
      BY ONLY <2>1, LeastElement, Bad # {}
  <2>3. x \in Sums32 /\ x \in Nat /\ w[x] # Folded(x)
    BY ONLY <1>1, <2>2
  <2>4. ~(x < Word) /\ w[x] = w[Carry(x)]
    BY ONLY <1>2, <1>9, <2>3
  <2>5. PICK y : y = Carry(x) /\ y \in Sums32 /\ y < x /\ Folded(x) = Folded(y)
    BY ONLY <1>3, <2>3, <2>4
  <2>6. y \in Bad
    BY ONLY <2>3, <2>4, <2>5
  <2>7. y \in Nat /\ x <= y
    BY ONLY <1>1, <2>2, <2>5, <2>6
  <2> QED
    BY ONLY <2>3, <2>5, <2>7
<1> QED
  BY ONLY <1>7, <1>10

\* The checksum is never zero and brings the sum to a multiple of MaxWord.
LEMMA Wrapper ==
  ASSUME NEW x \in Sums32
  PROVE  /\ checksumWrapper(x) \in 1 .. MaxWord
         /\ \E q \in Nat : x + checksumWrapper(x) = q * MaxWord
<1>1. x \in Nat
  BY ByteFacts DEF Sums32
<1>2. PICK r : r \in 0 .. MaxWord /\ r = carried[x]
  BY ONLY <1>1, Carried, RestForm, x \in Sums32
<1>3. PICK q : q \in Nat /\ x = q * MaxWord + r
  BY ONLY <1>1, <1>2, Carried, RestForm, x \in Sums32
<1>4. r \in Nat /\ MaxWord \in Nat /\ MaxWord > 0 /\ r <= MaxWord
  BY ONLY <1>2, ByteFacts
<1>5. PICK p : p \in Nat /\ p = q * MaxWord
  BY ONLY <1>3, <1>4
<1>6. (q + 1) * MaxWord = p + MaxWord /\ (q + 2) * MaxWord = p + 2 * MaxWord /\ q + 1 \in Nat /\ q + 2 \in Nat
  <2>1. (q + 1) * MaxWord = q * MaxWord + MaxWord /\ (q + 2) * MaxWord = q * MaxWord + 2 * MaxWord
    BY ONLY <1>3, <1>4
  <2> QED
    BY ONLY <1>3, <1>5, <2>1
<1>7. checksumWrapper(x) = IF MaxWord - r = 0 THEN MaxWord ELSE MaxWord - r
  BY ONLY <1>2, ByteFacts DEF checksumWrapper
<1>8. CASE r = MaxWord
  <2>1. checksumWrapper(x) = MaxWord
    BY ONLY <1>4, <1>7, <1>8
  <2>2. x + MaxWord = p + 2 * MaxWord
    BY ONLY <1>3, <1>4, <1>5, <1>8
  <2> QED
    BY ONLY <1>4, <1>6, <2>1, <2>2
<1>9. CASE r # MaxWord
  <2>1. checksumWrapper(x) = MaxWord - r /\ MaxWord - r \in 1 .. MaxWord
    BY ONLY <1>4, <1>7, <1>9
  <2>2. x + (MaxWord - r) = p + MaxWord
    BY ONLY <1>3, <1>4, <1>5
  <2> QED
    BY ONLY <1>6, <2>1, <2>2
<1> QED
  BY ONLY <1>8, <1>9

(* Sequences of octets.                                                    *)

\* Concatenation, position by position.
LEMMA JoinedBytes ==
  ASSUME NEW S, NEW s \in Seq(S), NEW t \in Seq(S)
  PROVE  /\ s \o t \in Seq(S) /\ Len(s \o t) = Len(s) + Len(t)
         /\ \A i \in 1 .. Len(s) : (s \o t)[i] = s[i]
         /\ \A i \in 1 .. Len(t) : (s \o t)[Len(s) + i] = t[i]
<1>1. Len(s) \in Nat /\ Len(t) \in Nat
  OBVIOUS
<1>2. s \o t \in Seq(S) /\ Len(s \o t) = Len(s) + Len(t)
  OBVIOUS
<1>3. \A i \in 1 .. Len(s) + Len(t) : (s \o t)[i] = IF i <= Len(s) THEN s[i] ELSE t[i - Len(s)]
  OBVIOUS
<1>4. \A i \in 1 .. Len(s) : i \in 1 .. Len(s) + Len(t) /\ i <= Len(s)
  BY ONLY <1>1
<1>5. \A i \in 1 .. Len(t) : /\ Len(s) + i \in 1 .. Len(s) + Len(t) /\ ~(Len(s) + i <= Len(s))
                             /\ (Len(s) + i) - Len(s) = i
  BY ONLY <1>1
<1> QED
  BY ONLY <1>2, <1>3, <1>4, <1>5

\* A segment, position by position.
LEMMA Segment ==
  ASSUME NEW S, NEW s \in Seq(S), NEW from \in Nat, NEW n \in Nat, from + n <= Len(s)
  PROVE  /\ SubSeq(s, from + 1, from + n) \in Seq(S) /\ Len(SubSeq(s, from + 1, from + n)) = n
         /\ \A i \in 1 .. n : SubSeq(s, from + 1, from + n)[i] = s[from + i]
<1>1. Len(s) \in Nat
  OBVIOUS
<1>2. PICK a, b : a \in Nat /\ b \in Nat /\ a = from + 1 /\ b = from + n
  BY ONLY from \in Nat, n \in Nat
<1>3. \A i \in a .. b : s[i] \in S
  <2>1. \A i \in a .. b : i \in 1 .. Len(s)
    BY ONLY <1>1, <1>2, from \in Nat, n \in Nat, from + n <= Len(s)
  <2> QED
    BY ONLY <2>1, s \in Seq(S)
<1>4. a \in Int /\ b \in Int /\ b - a + 1 = n /\ (a <= b \/ n = 0)
      /\ \A i \in 1 .. n : a + i - 1 = from + i
  BY ONLY <1>2, from \in Nat, n \in Nat
<1>5. PICK u : u = SubSeq(s, a, b)
  OBVIOUS
<1>6. u \in Seq(S) /\ Len(u) = (IF a <= b THEN b - a + 1 ELSE 0) /\ \A i \in 1 .. b - a + 1 : u[i] = s[a + i - 1]
  <2>1. a \in Int /\ b \in Int
    BY ONLY <1>4
  <2>2. /\ SubSeq(s, a, b) \in Seq(S)
        /\ Len(SubSeq(s, a, b)) = (IF a <= b THEN b - a + 1 ELSE 0)
        /\ \A i \in 1 .. b - a + 1 : SubSeq(s, a, b)[i] = s[a + i - 1]
    BY ONLY <1>3, <2>1, SubSeqProperties
  <2> QED
    BY ONLY <1>5, <2>2
<1>7. Len(u) = n /\ \A i \in 1 .. n : u[i] = s[from + i]
  <2>1. a <= b \/ (n = 0 /\ ~(a <= b))
    BY ONLY <1>4
  <2> QED
    BY ONLY <1>4, <1>6, <2>1
<1> QED
  BY ONLY <1>2, <1>5, <1>6, <1>7

\* copy replaces the octets it covers and no others.
LEMMA Overwritten ==
  ASSUME NEW buf \in Seq(ByteValues), NEW at \in Nat, NEW octets \in Seq(ByteValues), at + Len(octets) <= Len(buf)
  PROVE  /\ copy(buf, at, octets) \in Seq(ByteValues) /\ Len(copy(buf, at, octets)) = Len(buf)
         /\ \A i \in 1 .. Len(octets) : copy(buf, at, octets)[at + i] = octets[i]
         /\ \A i \in 1 .. Len(buf) : (i <= at \/ i > at + Len(octets)) => copy(buf, at, octets)[i] = buf[i]
<1>1. Len(buf) \in Nat /\ Len(octets) \in Nat /\ DOMAIN buf = 1 .. Len(buf)
  OBVIOUS
<1>2. PICK c : c = copy(buf, at, octets)
  OBVIOUS
<1>3. c = [i \in 1 .. Len(buf) |-> IF i \in (at + 1)..(at + Len(octets)) THEN octets[i - at] ELSE buf[i]]
  BY ONLY <1>1, <1>2 DEF copy
<1>4. ASSUME NEW i \in 1 .. Len(buf) PROVE c[i] \in ByteValues
  <2>1. CASE i \in (at + 1)..(at + Len(octets))
    <3>1. i - at \in 1 .. Len(octets)
      BY ONLY <1>1, <2>1, at \in Nat
    <3> QED
      BY ONLY <1>3, <2>1, <3>1, octets \in Seq(ByteValues), i \in 1 .. Len(buf)
  <2>2. CASE i \notin (at + 1)..(at + Len(octets))
    BY ONLY <1>3, <2>2, buf \in Seq(ByteValues), i \in 1 .. Len(buf)
  <2> QED
    BY ONLY <2>1, <2>2
<1>5. c \in [1 .. Len(buf) -> ByteValues]
  BY ONLY <1>3, <1>4
<1>6. c \in Seq(ByteValues) /\ Len(c) = Len(buf)
  BY ONLY <1>1, <1>5
<1>7. ASSUME NEW i \in 1 .. Len(octets) PROVE c[at + i] = octets[i]
  <2>1. at + i \in 1 .. Len(buf) /\ at + i \in (at + 1)..(at + Len(octets)) /\ (at + i) - at = i
    BY ONLY <1>1, at \in Nat, at + Len(octets) <= Len(buf), i \in 1 .. Len(octets)
  <2> QED
    BY ONLY <1>3, <2>1
<1>8. ASSUME NEW i \in 1 .. Len(buf), i <= at \/ i > at + Len(octets) PROVE c[i] = buf[i]
  <2>1. i \notin (at + 1)..(at + Len(octets))
    BY ONLY <1>1, <1>8, at \in Nat, i \in 1 .. Len(buf)
  <2> QED
    BY ONLY <1>3, <2>1, i \in 1 .. Len(buf)
<1> QED
  BY ONLY <1>2, <1>6, <1>7, <1>8

\* A word as two octets.
LEMMA TwoOctets ==
  ASSUME NEW v \in 0 .. MaxWord
  PROVE  /\ High(v) \in ByteValues /\ Low(v) \in ByteValues /\ High(v) * ByteSize + Low(v) = v
         /\ <<High(v), Low(v)>> \in Seq(ByteValues) /\ Len(<<High(v), Low(v)>>) = 2
<1>1. ByteSize \in Nat /\ ByteSize > 0 /\ v \in Nat
  BY ByteFacts
<1>2. PICK q, r : q = v \div ByteSize /\ r = v % ByteSize
  OBVIOUS
<1>3. q \in Nat /\ r \in Nat /\ r < ByteSize /\ v = ByteSize * q + r
  BY ONLY <1>1, <1>2
<1>4. PICK p : p \in Nat /\ p = q * ByteSize
  BY ONLY <1>1, <1>3
<1>5. v = p + r
  BY ONLY <1>1, <1>3, <1>4
<1>6. q < ByteSize
  <2> SUFFICES ASSUME ~(q < ByteSize) PROVE FALSE
    OBVIOUS
  <2>1. q >= ByteSize
    BY ONLY <1>1, <1>3, ~(q < ByteSize)
  <2>2. p >= ByteSize * ByteSize
    BY ONLY <1>1, <1>3, <1>4, <2>1
  <2>3. p >= Word
    BY ONLY <2>2, ByteFacts
  <2>4. v <= Word - 1 /\ Word \in Nat
    BY ONLY <1>1, ByteFacts, v \in 0 .. MaxWord
  <2>5. p \in Nat /\ r \in Nat
    BY ONLY <1>3, <1>4
  <2> QED
    BY ONLY <1>5, <2>3, <2>4, <2>5
<1>7. q \in ByteValues /\ r \in ByteValues
  BY ONLY <1>1, <1>3, <1>6 DEF ByteValues
<1>8. <<q, r>> \in Seq(ByteValues) /\ Len(<<q, r>>) = 2
  BY ONLY <1>7
<1> QED
  BY ONLY <1>2, <1>4, <1>5, <1>7, <1>8 DEF High, Low

(* The packet, octet by octet.                                             *)

ULen(payload) == 8 + Len(payload)
Zeros == [i \in 1..8 |-> 0]
Data(src, dst, payload) == Zeros \o udpPart(src, dst, ULen(payload), payload)
UDPSum(src, dst, payload) == checksumWrapper(checksumAdd(Data(src, dst, payload), ULen(payload)))
UDPDone(src, dst, payload) ==
    copy(Data(src, dst, payload), 26, <<High(UDPSum(src, dst, payload)), Low(UDPSum(src, dst, payload))>>)

IPHead(payload) == <<5, 0, High(28 + Len(payload)), Low(28 + Len(payload)), 0, 0, 4, 0, 6>>
IPDone(src, dst, payload) == copy(UDPDone(src, dst, payload), 0, IPHead(payload))
IPSum(src, dst, payload) == CheckSum(SubSeq(IPDone(src, dst, payload), 1, 20))

\* p is s, of n octets, and then t, of m.
Both(p, n, s, m, t) ==
    /\ p \in Seq(ByteValues) /\ Len(p) = n + m
    /\ \A i \in 1 .. n : p[i] = s[i]
    /\ \A i \in 1 .. m : p[n + i] = t[i]

\* A function from 1 to n is a sequence.
LEMMA FunctionIsSequence ==
  ASSUME NEW S, NEW n \in Nat, NEW z, z \in [1 .. n -> S]
  PROVE  z \in Seq(S) /\ Len(z) = n
  OBVIOUS

\* Concatenation, with the lengths named.
LEMMA ThenJoined ==
  ASSUME NEW s \in Seq(ByteValues), NEW t \in Seq(ByteValues), NEW n, NEW m, Len(s) = n, Len(t) = m,
         NEW p, p = s \o t
  PROVE  Both(p, n, s, m, t)
<1>1. /\ s \o t \in Seq(ByteValues) /\ Len(s \o t) = Len(s) + Len(t)
      /\ \A i \in 1 .. Len(s) : (s \o t)[i] = s[i]
      /\ \A i \in 1 .. Len(t) : (s \o t)[Len(s) + i] = t[i]
  BY ONLY JoinedBytes, s \in Seq(ByteValues), t \in Seq(ByteValues)
<1> QED
  BY ONLY <1>1, Len(s) = n, Len(t) = m, p = s \o t DEF Both

\* What is in the octets of the data.
DataOctets(d, src, dst, payload) ==
    /\ d \in Seq(ByteValues) /\ Len(d) = 28 + Len(payload)
    /\ \A i \in 1..9 : d[i] = 0
    /\ d[10] = UDP /\ d[11] = 0 /\ d[12] = 0
    /\ \A i \in 1..4 : d[12 + i] = src[1][i]
    /\ \A i \in 1..4 : d[16 + i] = dst[1][i]
    /\ \A i \in 1..2 : d[20 + i] = src[2][i]
    /\ \A i \in 1..2 : d[22 + i] = dst[2][i]
    /\ d[25] = High(ULen(payload)) /\ d[26] = Low(ULen(payload)) /\ d[27] = 0 /\ d[28] = 0
    /\ \A i \in 1..Len(payload) : d[28 + i] = payload[i]

\* The octets of the packet before its checksums (net.go:53-66).
LEMMA DataFacts ==
  ASSUME NEW src \in Addrs, NEW dst \in Addrs, NEW payload \in Payloads, 28 + Len(payload) <= MaxWord
  PROVE  DataOctets(Data(src, dst, payload), src, dst, payload)
<1>1. /\ src[1] \in Seq(ByteValues) /\ Len(src[1]) = 4 /\ src[2] \in Seq(ByteValues) /\ Len(src[2]) = 2
      /\ dst[1] \in Seq(ByteValues) /\ Len(dst[1]) = 4 /\ dst[2] \in Seq(ByteValues) /\ Len(dst[2]) = 2
      /\ payload \in Seq(ByteValues)
  BY PacketConstants DEF ByteValues
<1>2. PICK h, l : h = High(ULen(payload)) /\ l = Low(ULen(payload)) /\ h \in ByteValues /\ l \in ByteValues
  <2>1. ULen(payload) \in 0 .. MaxWord
    <3>1. Len(payload) \in Nat
      BY ONLY <1>1
    <3> QED
      BY ONLY <3>1, ByteFacts, 28 + Len(payload) <= MaxWord DEF ULen
  <2> QED
    BY ONLY <2>1, TwoOctets
<1>3. 0 \in ByteValues /\ UDP \in ByteValues
  BY ByteFacts DEF ByteValues
<1>4. PICK z : z = Zeros /\ z \in Seq(ByteValues) /\ Len(z) = 8 /\ \A i \in 1..8 : z[i] = 0
  <2>1. PICK z : z = [i \in 1..8 |-> 0]
    OBVIOUS
  <2>2. z \in [1..8 -> ByteValues] /\ \A i \in 1..8 : z[i] = 0
    BY ONLY <1>3, <2>1
  <2>3. z \in Seq(ByteValues) /\ Len(z) = 8
    <3>1. 8 \in Nat
      OBVIOUS
    <3> QED
      BY ONLY <2>2, <3>1, FunctionIsSequence
  <2> QED
    BY ONLY <2>1, <2>2, <2>3 DEF Zeros
<1>5. PICK a : /\ a = <<0, UDP, 0, 0>> /\ a \in Seq(ByteValues) /\ Len(a) = 4
               /\ a[1] = 0 /\ a[2] = UDP /\ a[3] = 0 /\ a[4] = 0
  <2>1. PICK a : a = <<0, UDP, 0, 0>>
    OBVIOUS
  <2>2. a \in Seq(ByteValues) /\ Len(a) = 4 /\ a[1] = 0 /\ a[2] = UDP /\ a[3] = 0 /\ a[4] = 0
    BY ONLY <1>3, <2>1
  <2> QED
    BY ONLY <2>1, <2>2
<1>6. PICK b : /\ b = <<h, l, 0, 0>> /\ b \in Seq(ByteValues) /\ Len(b) = 4
               /\ b[1] = h /\ b[2] = l /\ b[3] = 0 /\ b[4] = 0
  <2>1. PICK b : b = <<h, l, 0, 0>>
    OBVIOUS
  <2>2. b \in Seq(ByteValues) /\ Len(b) = 4 /\ b[1] = h /\ b[2] = l /\ b[3] = 0 /\ b[4] = 0
    BY ONLY <1>2, <1>3, <2>1
  <2> QED
    BY ONLY <2>1, <2>2
<1>7. PICK p1 : /\ p1 = a \o src[1] /\ p1 \in Seq(ByteValues) /\ Len(p1) = 8
                /\ Both(p1, 4, a, 4, src[1])
  <2>1. PICK p1 : p1 = a \o src[1]
    OBVIOUS
  <2>2. a \in Seq(ByteValues) /\ src[1] \in Seq(ByteValues) /\ Len(a) = 4 /\ Len(src[1]) = 4
    BY ONLY <1>5, <1>1
  <2>3. Both(p1, 4, a, 4, src[1])
    BY ONLY <2>1, <2>2, ThenJoined
  <2>4. p1 \in Seq(ByteValues) /\ Len(p1) = 8
    BY ONLY <2>3 DEF Both
  <2> QED
    BY ONLY <2>1, <2>3, <2>4
<1>8. PICK p2 : /\ p2 = p1 \o dst[1] /\ p2 \in Seq(ByteValues) /\ Len(p2) = 12
                /\ Both(p2, 8, p1, 4, dst[1])
  <2>1. PICK p2 : p2 = p1 \o dst[1]
    OBVIOUS
  <2>2. p1 \in Seq(ByteValues) /\ dst[1] \in Seq(ByteValues) /\ Len(p1) = 8 /\ Len(dst[1]) = 4
    BY ONLY <1>7, <1>1
  <2>3. Both(p2, 8, p1, 4, dst[1])
    BY ONLY <2>1, <2>2, ThenJoined
  <2>4. p2 \in Seq(ByteValues) /\ Len(p2) = 12
    BY ONLY <2>3 DEF Both
  <2> QED
    BY ONLY <2>1, <2>3, <2>4
<1>9. PICK p3 : /\ p3 = p2 \o src[2] /\ p3 \in Seq(ByteValues) /\ Len(p3) = 14
                /\ Both(p3, 12, p2, 2, src[2])
  <2>1. PICK p3 : p3 = p2 \o src[2]
    OBVIOUS
  <2>2. p2 \in Seq(ByteValues) /\ src[2] \in Seq(ByteValues) /\ Len(p2) = 12 /\ Len(src[2]) = 2
    BY ONLY <1>8, <1>1
  <2>3. Both(p3, 12, p2, 2, src[2])
    BY ONLY <2>1, <2>2, ThenJoined
  <2>4. p3 \in Seq(ByteValues) /\ Len(p3) = 14
    BY ONLY <2>3 DEF Both
  <2> QED
    BY ONLY <2>1, <2>3, <2>4
<1>10. PICK p4 : /\ p4 = p3 \o dst[2] /\ p4 \in Seq(ByteValues) /\ Len(p4) = 16
                 /\ Both(p4, 14, p3, 2, dst[2])
  <2>1. PICK p4 : p4 = p3 \o dst[2]
    OBVIOUS
  <2>2. p3 \in Seq(ByteValues) /\ dst[2] \in Seq(ByteValues) /\ Len(p3) = 14 /\ Len(dst[2]) = 2
    BY ONLY <1>9, <1>1
  <2>3. Both(p4, 14, p3, 2, dst[2])
    BY ONLY <2>1, <2>2, ThenJoined
  <2>4. p4 \in Seq(ByteValues) /\ Len(p4) = 16
    BY ONLY <2>3 DEF Both
  <2> QED
    BY ONLY <2>1, <2>3, <2>4
<1>11. PICK p5 : /\ p5 = p4 \o b /\ p5 \in Seq(ByteValues) /\ Len(p5) = 20
                 /\ Both(p5, 16, p4, 4, b)
  <2>1. PICK p5 : p5 = p4 \o b
    OBVIOUS
  <2>2. p4 \in Seq(ByteValues) /\ b \in Seq(ByteValues) /\ Len(p4) = 16 /\ Len(b) = 4
    BY ONLY <1>10, <1>6
  <2>3. Both(p5, 16, p4, 4, b)
    BY ONLY <2>1, <2>2, ThenJoined
  <2>4. p5 \in Seq(ByteValues) /\ Len(p5) = 20
    BY ONLY <2>3 DEF Both
  <2> QED
    BY ONLY <2>1, <2>3, <2>4
<1>12. PICK p6 : /\ p6 = p5 \o payload /\ p6 \in Seq(ByteValues) /\ Len(p6) = 20 + Len(payload)
                 /\ Both(p6, 20, p5, Len(payload), payload)
  <2>1. PICK p6 : p6 = p5 \o payload
    OBVIOUS
  <2>2. p5 \in Seq(ByteValues) /\ payload \in Seq(ByteValues) /\ Len(p5) = 20 /\ Len(payload) = Len(payload)
    BY ONLY <1>11, <1>1
  <2>3. Both(p6, 20, p5, Len(payload), payload)
    BY ONLY <2>1, <2>2, ThenJoined
  <2>4. p6 \in Seq(ByteValues) /\ Len(p6) = 20 + Len(payload)
    BY ONLY <2>3 DEF Both
  <2> QED
    BY ONLY <2>1, <2>3, <2>4
<1>13. PICK d : /\ d = z \o p6 /\ d \in Seq(ByteValues) /\ Len(d) = 28 + Len(payload)
                /\ Both(d, 8, z, 20 + Len(payload), p6)
  <2>1. PICK d : d = z \o p6
    OBVIOUS
  <2>2. z \in Seq(ByteValues) /\ p6 \in Seq(ByteValues) /\ Len(z) = 8 /\ Len(p6) = 20 + Len(payload)
    BY ONLY <1>4, <1>12
  <2>3. Both(d, 8, z, 20 + Len(payload), p6)
    BY ONLY <2>1, <2>2, ThenJoined
  <2>4. d \in Seq(ByteValues) /\ Len(d) = 8 + (20 + Len(payload)) /\ Len(payload) \in Nat
    BY ONLY <1>1, <2>3 DEF Both
  <2>5. 8 + (20 + Len(payload)) = 28 + Len(payload)
    BY ONLY <2>4
  <2> QED
    BY ONLY <2>1, <2>3, <2>4, <2>5
<1>14. d = Data(src, dst, payload)
  BY ONLY <1>2, <1>4, <1>5, <1>6, <1>7, <1>8, <1>9, <1>10, <1>11, <1>12, <1>13 DEF Data, udpPart
<1>15. Len(payload) \in Nat
  BY ONLY <1>1
<1>16. \A i \in 1..(20 + Len(payload)) : d[8 + i] = p6[i]
  BY ONLY <1>13 DEF Both
<1>17. \A i \in 1..20 : d[8 + i] = p5[i]
  <2>1. \A i \in 1..20 : i \in 1..(20 + Len(payload))
    BY ONLY <1>15
  <2>2. \A i \in 1..20 : p6[i] = p5[i]
    BY ONLY <1>12 DEF Both
  <2> QED
    BY ONLY <1>16, <2>1, <2>2
<1>p1. (\A i \in 1..4 : p1[i] = a[i]) /\ \A i \in 1..4 : p1[4 + i] = src[1][i]
  BY ONLY <1>7 DEF Both
<1>p2. (\A i \in 1..8 : p2[i] = p1[i]) /\ \A i \in 1..4 : p2[8 + i] = dst[1][i]
  BY ONLY <1>8 DEF Both
<1>p3. (\A i \in 1..12 : p3[i] = p2[i]) /\ \A i \in 1..2 : p3[12 + i] = src[2][i]
  BY ONLY <1>9 DEF Both
<1>p4. (\A i \in 1..14 : p4[i] = p3[i]) /\ \A i \in 1..2 : p4[14 + i] = dst[2][i]
  BY ONLY <1>10 DEF Both
<1>p5. (\A i \in 1..16 : p5[i] = p4[i]) /\ \A i \in 1..4 : p5[16 + i] = b[i]
  BY ONLY <1>11 DEF Both
<1>18. /\ d[9] = p5[1] /\ d[10] = p5[2] /\ d[11] = p5[3] /\ d[12] = p5[4]
       /\ d[25] = p5[17] /\ d[26] = p5[18] /\ d[27] = p5[19] /\ d[28] = p5[20]
  <2>1. /\ d[8 + 1] = p5[1] /\ d[8 + 2] = p5[2] /\ d[8 + 3] = p5[3] /\ d[8 + 4] = p5[4]
        /\ d[8 + 17] = p5[17] /\ d[8 + 18] = p5[18] /\ d[8 + 19] = p5[19] /\ d[8 + 20] = p5[20]
    BY ONLY <1>17
  <2> QED
    BY ONLY <2>1
<1>19. /\ p5[1] = 0 /\ p5[2] = UDP /\ p5[3] = 0 /\ p5[4] = 0
       /\ p5[17] = h /\ p5[18] = l /\ p5[19] = 0 /\ p5[20] = 0
  <2>1. \A i \in 1..4 : p5[i] = a[i]
    BY ONLY <1>p1, <1>p2, <1>p3, <1>p4, <1>p5
  <2>2. p5[16 + 1] = h /\ p5[16 + 2] = l /\ p5[16 + 3] = 0 /\ p5[16 + 4] = 0
    BY ONLY <1>6, <1>p5
  <2> QED
    BY ONLY <1>5, <2>1, <2>2
<1>20. \A i \in 1..9 : d[i] = 0
  <2>1. \A i \in 1..8 : d[i] = 0
    BY ONLY <1>4, <1>13 DEF Both
  <2> QED
    BY ONLY <1>18, <1>19, <2>1
<1>21. \A i \in 1..4 : d[12 + i] = src[1][i]
  <2>1. \A i \in 1..4 : 4 + i \in 1..8 /\ 4 + i \in 1..20 /\ 8 + (4 + i) = 12 + i
    OBVIOUS
  <2>2. \A i \in 1..8 : p5[i] = p1[i]
    BY ONLY <1>p2, <1>p3, <1>p4, <1>p5
  <2> QED
    BY ONLY <1>p1, <1>17, <2>1, <2>2
<1>22. \A i \in 1..4 : d[16 + i] = dst[1][i]
  <2>1. \A i \in 1..4 : 8 + i \in 1..12 /\ 8 + i \in 1..20 /\ 8 + (8 + i) = 16 + i
    OBVIOUS
  <2>2. \A i \in 1..12 : p5[i] = p2[i]
    BY ONLY <1>p3, <1>p4, <1>p5
  <2> QED
    BY ONLY <1>p2, <1>17, <2>1, <2>2
<1>23. \A i \in 1..2 : d[20 + i] = src[2][i]
  <2>1. \A i \in 1..2 : 12 + i \in 1..14 /\ 12 + i \in 1..20 /\ 8 + (12 + i) = 20 + i
    OBVIOUS
  <2>2. \A i \in 1..14 : p5[i] = p3[i]
    BY ONLY <1>p4, <1>p5
  <2> QED
    BY ONLY <1>p3, <1>17, <2>1, <2>2
<1>24. \A i \in 1..2 : d[22 + i] = dst[2][i]
  <2>1. \A i \in 1..2 : 14 + i \in 1..16 /\ 14 + i \in 1..20 /\ 8 + (14 + i) = 22 + i
    OBVIOUS
  <2>2. \A i \in 1..16 : p5[i] = p4[i]
    BY ONLY <1>p5
  <2> QED
    BY ONLY <1>p4, <1>17, <2>1, <2>2
<1>25. \A i \in 1..Len(payload) : d[28 + i] = payload[i]
  <2>1. \A i \in 1..Len(payload) : 20 + i \in 1..(20 + Len(payload)) /\ 8 + (20 + i) = 28 + i
    BY ONLY <1>15
  <2>2. \A i \in 1..Len(payload) : p6[20 + i] = payload[i]
    BY ONLY <1>12 DEF Both
  <2> QED
    BY ONLY <1>16, <2>1, <2>2
<1>26. DataOctets(d, src, dst, payload)
  BY ONLY <1>2, <1>13, <1>18, <1>19, <1>20, <1>21, <1>22, <1>23, <1>24, <1>25 DEF DataOctets
<1> QED
  BY ONLY <1>14, <1>26

\* c is buf, of n octets, with those after at and up to to replaced by m octets.
Replaced(c, buf, n, at, octets, m, to) ==
    /\ c \in Seq(ByteValues) /\ Len(c) = n
    /\ \A i \in 1 .. m : c[at + i] = octets[i]
    /\ \A i \in 1 .. n : (i <= at \/ i > to) => c[i] = buf[i]

\* copy, with the lengths named.
LEMMA Replacing ==
  ASSUME NEW buf \in Seq(ByteValues), NEW at \in Nat, NEW octets \in Seq(ByteValues), NEW n, NEW m, NEW to,
         Len(buf) = n, Len(octets) = m, at + m = to, to <= n, NEW c, c = copy(buf, at, octets)
  PROVE  Replaced(c, buf, n, at, octets, m, to)
<1>1. at + Len(octets) <= Len(buf)
  OBVIOUS
<1>2. /\ copy(buf, at, octets) \in Seq(ByteValues) /\ Len(copy(buf, at, octets)) = Len(buf)
      /\ \A i \in 1 .. Len(octets) : copy(buf, at, octets)[at + i] = octets[i]
      /\ \A i \in 1 .. Len(buf) : (i <= at \/ i > at + Len(octets)) => copy(buf, at, octets)[i] = buf[i]
  BY ONLY <1>1, Overwritten, buf \in Seq(ByteValues), at \in Nat, octets \in Seq(ByteValues)
<1> QED
  BY ONLY <1>2, Len(buf) = n, Len(octets) = m, at + m = to, c = copy(buf, at, octets) DEF Replaced

\* The packet, from the data it is made of, before and after the checksum of
\* its IP header.
PacketOctets(K, I, d, payload, uc, ipc) ==
    /\ K \in Seq(ByteValues) /\ Len(K) = 28 + Len(payload) /\ I \in Seq(ByteValues) /\ Len(I) = Len(K)
    /\ \A i \in (1..10) \cup (13..20) : K[i] = I[i]
    /\ I[11] = 0 /\ I[12] = 0 /\ K[11] = High(ipc) /\ K[12] = Low(ipc)
    /\ K[3] = High(28 + Len(payload)) /\ K[4] = Low(28 + Len(payload))
    /\ K[10] = UDP /\ K[27] = High(uc) /\ K[28] = Low(uc)
    /\ \A i \in 1..(28 + Len(payload)) : i > 12 /\ i # 27 /\ i # 28 => K[i] = d[i]

\* Both checksums, and the octets of the packet that is sent.
LEMMA Sent ==
  ASSUME NEW src \in Addrs, NEW dst \in Addrs, NEW payload \in Payloads, 28 + Len(payload) <= MaxWord
  PROVE  LET d == Data(src, dst, payload)
             I == IPDone(src, dst, payload)
             uc == UDPSum(src, dst, payload)
             ipc == IPSum(src, dst, payload)
         IN  /\ uc \in 1 .. MaxWord
             /\ \E q \in Nat : (ULen(payload) + Weighted(d)[28 + Len(payload)]) + uc = q * MaxWord
             /\ ipc \in 1 .. MaxWord
             /\ \E q \in Nat : Weighted(SubSeq(I, 1, 20))[20] + ipc = q * MaxWord
             /\ PacketOctets(Built(src, dst, payload), I, d, payload, uc, ipc)
<1>1. Len(payload) \in Nat /\ 28 + Len(payload) \in 0 .. MaxWord /\ ULen(payload) \in 0 .. MaxWord
  <2>1. payload \in Seq(ByteValues)
    BY PacketConstants DEF ByteValues
  <2>2. Len(payload) \in Nat
    BY ONLY <2>1
  <2> QED
    BY ONLY <2>2, ByteFacts, 28 + Len(payload) <= MaxWord DEF ULen
<1>2. PICK d : d = Data(src, dst, payload) /\ DataOctets(d, src, dst, payload)
  BY ONLY DataFacts, src \in Addrs, dst \in Addrs, payload \in Payloads, 28 + Len(payload) <= MaxWord
<1>3. /\ d \in Seq(ByteValues) /\ Len(d) = 28 + Len(payload) /\ d[10] = UDP /\ d[11] = 0 /\ d[12] = 0
  BY ONLY <1>2 DEF DataOctets
<1>4. PICK x : /\ x = checksumAdd(d, ULen(payload)) /\ x = ULen(payload) + Weighted(d)[28 + Len(payload)]
               /\ x \in Sums32
  BY ONLY <1>1, <1>3, AddedSum, 28 + Len(payload) <= MaxWord DEF Sums32
<1>5. PICK uc : uc = UDPSum(src, dst, payload) /\ uc = checksumWrapper(x)
  BY ONLY <1>2, <1>4 DEF UDPSum
<1>6. uc \in 1 .. MaxWord /\ \E q \in Nat : x + uc = q * MaxWord
  BY ONLY <1>4, <1>5, Wrapper
<1>7. uc \in 0 .. MaxWord
  BY ONLY <1>6, ByteFacts
<1>8. PICK c : c = <<High(uc), Low(uc)>> /\ c \in Seq(ByteValues) /\ Len(c) = 2
  BY ONLY <1>7, TwoOctets
<1>9. PICK u : u = copy(d, 26, c)
  OBVIOUS
<1>10. /\ u \in Seq(ByteValues) /\ Len(u) = 28 + Len(payload) /\ u[27] = High(uc) /\ u[28] = Low(uc)
       /\ \A i \in 1 .. 28 + Len(payload) : (i <= 26 \/ i > 28) => u[i] = d[i]
  <2>1. 26 \in Nat /\ Len(d) = 28 + Len(payload) /\ Len(c) = 2 /\ 26 + 2 = 28 /\ 28 <= 28 + Len(payload)
    BY ONLY <1>1, <1>3, <1>8
  <2>2. Replaced(u, d, 28 + Len(payload), 26, c, 2, 28)
    BY ONLY <1>3, <1>8, <1>9, <2>1, Replacing
  <2>3. /\ u \in Seq(ByteValues) /\ Len(u) = 28 + Len(payload)
        /\ \A i \in 1 .. 2 : u[26 + i] = c[i]
        /\ \A i \in 1 .. 28 + Len(payload) : (i <= 26 \/ i > 28) => u[i] = d[i]
    BY ONLY <2>2 DEF Replaced
  <2>4. u[26 + 1] = c[1] /\ u[26 + 2] = c[2]
    <3>1. 1 \in 1 .. 2 /\ 2 \in 1 .. 2
      OBVIOUS
    <3> QED
      BY ONLY <2>3, <3>1
  <2>5. u[27] = High(uc) /\ u[28] = Low(uc)
    BY ONLY <1>8, <2>4
  <2> QED
    BY ONLY <2>3, <2>5
<1>11. PICK hd : /\ hd = IPHead(payload) /\ hd \in Seq(ByteValues) /\ Len(hd) = 9
                 /\ hd[3] = High(28 + Len(payload)) /\ hd[4] = Low(28 + Len(payload))
  <2>1. PICK h, l : h \in ByteValues /\ l \in ByteValues /\ h = High(28 + Len(payload)) /\ l = Low(28 + Len(payload))
    BY ONLY <1>1, TwoOctets
  <2>2. 5 \in ByteValues /\ 0 \in ByteValues /\ 4 \in ByteValues /\ 6 \in ByteValues
    BY ONLY ByteFacts DEF ByteValues
  <2>3. PICK hd : hd = <<5, 0, h, l, 0, 0, 4, 0, 6>>
    OBVIOUS
  <2>4. hd \in Seq(ByteValues) /\ Len(hd) = 9 /\ hd[3] = h /\ hd[4] = l
    BY ONLY <2>1, <2>2, <2>3
  <2>5. hd = IPHead(payload)
    BY ONLY <2>1, <2>3 DEF IPHead
  <2> QED
    BY ONLY <2>1, <2>4, <2>5
<1>12. PICK I : I = copy(u, 0, hd)
  OBVIOUS
<1>13. /\ I \in Seq(ByteValues) /\ Len(I) = 28 + Len(payload)
       /\ I[3] = High(28 + Len(payload)) /\ I[4] = Low(28 + Len(payload))
       /\ \A i \in 1 .. 28 + Len(payload) : i > 9 => I[i] = u[i]
  <2>1. 0 \in Nat /\ Len(u) = 28 + Len(payload) /\ Len(hd) = 9 /\ 0 + 9 = 9 /\ 9 <= 28 + Len(payload)
    BY ONLY <1>1, <1>10, <1>11
  <2>2. Replaced(I, u, 28 + Len(payload), 0, hd, 9, 9)
    BY ONLY <1>10, <1>11, <1>12, <2>1, Replacing
  <2>3. /\ I \in Seq(ByteValues) /\ Len(I) = 28 + Len(payload)
        /\ \A i \in 1 .. 9 : I[0 + i] = hd[i]
        /\ \A i \in 1 .. 28 + Len(payload) : (i <= 0 \/ i > 9) => I[i] = u[i]
    BY ONLY <2>2 DEF Replaced
  <2>4. I[3] = hd[3] /\ I[4] = hd[4]
    <3>1. 3 \in 1 .. 9 /\ 4 \in 1 .. 9 /\ 0 + 3 = 3 /\ 0 + 4 = 4
      OBVIOUS
    <3> QED
      BY ONLY <2>3, <3>1
  <2>5. \A i \in 1 .. 28 + Len(payload) : i > 9 => I[i] = u[i]
    BY ONLY <2>3
  <2> QED
    BY ONLY <1>11, <2>3, <2>4, <2>5
<1>14. u = UDPDone(src, dst, payload) /\ I = IPDone(src, dst, payload)
  BY ONLY <1>2, <1>5, <1>8, <1>9, <1>11, <1>12 DEF UDPDone, IPDone
<1>15. PICK h : h = SubSeq(I, 1, 20) /\ h \in Seq(ByteValues) /\ Len(h) = 20
  <2>1. 0 \in Nat /\ 20 \in Nat /\ 0 + 20 <= Len(I)
    BY ONLY <1>1, <1>13
  <2>2. /\ SubSeq(I, 0 + 1, 0 + 20) \in Seq(ByteValues) /\ Len(SubSeq(I, 0 + 1, 0 + 20)) = 20
    BY ONLY <1>13, <2>1, Segment
  <2>3. 0 + 1 = 1 /\ 0 + 20 = 20
    OBVIOUS
  <2> QED
    BY ONLY <2>2, <2>3
<1>16. PICK y : y = checksumAdd(h, 0) /\ y = Weighted(h)[20] /\ y \in Sums32
  <2>1. 0 \in 0 .. MaxWord /\ 20 <= MaxWord
    BY ONLY ByteFacts
  <2>2. /\ checksumAdd(h, 0) = 0 + Weighted(h)[20] /\ 0 + Weighted(h)[20] \in Sums32
    BY ONLY <1>15, <2>1, AddedSum DEF Sums32
  <2>3. Weighted(h)[20] \in Nat
    <3>1. 20 \in 0 .. Len(h)
      BY ONLY <1>15
    <3> QED
      BY ONLY <1>15, <3>1, WeightedSum
  <2>4. 0 + Weighted(h)[20] = Weighted(h)[20]
    BY ONLY <2>3
  <2> QED
    BY ONLY <2>2, <2>4
<1>17. PICK ipc : ipc = IPSum(src, dst, payload) /\ ipc = checksumWrapper(y)
  BY ONLY <1>14, <1>15, <1>16 DEF IPSum, CheckSum
<1>18. ipc \in 1 .. MaxWord /\ \E q \in Nat : y + ipc = q * MaxWord
  BY ONLY <1>16, <1>17, Wrapper
<1>19. ipc \in 0 .. MaxWord
  BY ONLY <1>18, ByteFacts
<1>20. PICK e : e = <<High(ipc), Low(ipc)>> /\ e \in Seq(ByteValues) /\ Len(e) = 2
  BY ONLY <1>19, TwoOctets
<1>21. PICK K : K = copy(I, 10, e)
  OBVIOUS
<1>22. /\ K \in Seq(ByteValues) /\ Len(K) = 28 + Len(payload) /\ K[11] = High(ipc) /\ K[12] = Low(ipc)
       /\ \A i \in 1 .. 28 + Len(payload) : (i <= 10 \/ i > 12) => K[i] = I[i]
  <2>1. 10 \in Nat /\ Len(I) = 28 + Len(payload) /\ Len(e) = 2 /\ 10 + 2 = 12 /\ 12 <= 28 + Len(payload)
    BY ONLY <1>1, <1>13, <1>20
  <2>2. Replaced(K, I, 28 + Len(payload), 10, e, 2, 12)
    BY ONLY <1>13, <1>20, <1>21, <2>1, Replacing
  <2>3. /\ K \in Seq(ByteValues) /\ Len(K) = 28 + Len(payload)
        /\ \A i \in 1 .. 2 : K[10 + i] = e[i]
        /\ \A i \in 1 .. 28 + Len(payload) : (i <= 10 \/ i > 12) => K[i] = I[i]
    BY ONLY <2>2 DEF Replaced
  <2>4. K[10 + 1] = e[1] /\ K[10 + 2] = e[2]
    <3>1. 1 \in 1 .. 2 /\ 2 \in 1 .. 2
      OBVIOUS
    <3> QED
      BY ONLY <2>3, <3>1
  <2>5. K[11] = High(ipc) /\ K[12] = Low(ipc)
    BY ONLY <1>20, <2>4
  <2> QED
    BY ONLY <2>3, <2>5
<1>23. K = Built(src, dst, payload)
  <2>1. uint16(28 + Len(payload)) = 28 + Len(payload) /\ uint16(8 + Len(payload)) = ULen(payload)
    <3>1. Word \in Nat /\ 28 + Len(payload) < Word /\ 8 + Len(payload) < Word
      BY ONLY <1>1, ByteFacts
    <3>2. \A v \in Nat : v < Word => v % Word = v
      BY ONLY <3>1
    <3>3. 28 + Len(payload) \in Nat /\ 8 + Len(payload) \in Nat
      BY ONLY <1>1
    <3> QED
      BY ONLY <3>1, <3>2, <3>3 DEF uint16, ULen
  <2> QED
    BY <1>2, <1>5, <1>8, <1>9, <1>11, <1>12, <1>14, <1>17, <1>20, <1>21, <2>1
    DEF Built, Data, Zeros, UDPSum, UDPDone, IPHead, IPDone, IPSum
<1>24. PacketOctets(K, I, d, payload, uc, ipc)
  <2>1. \A i \in (1..10) \cup (13..20) : K[i] = I[i]
    <3>1. \A i \in (1..10) \cup (13..20) : i \in 1 .. 28 + Len(payload) /\ (i <= 10 \/ i > 12)
      BY ONLY <1>1
    <3> QED
      BY ONLY <1>22, <3>1
  <2>2. \A i \in {10, 11, 12, 27, 28} : i \in 1 .. 28 + Len(payload) /\ i > 9
    BY ONLY <1>1
  <2>3. I[10] = u[10] /\ I[11] = u[11] /\ I[12] = u[12] /\ I[27] = u[27] /\ I[28] = u[28]
    BY ONLY <1>13, <2>2
  <2>4. u[10] = UDP /\ u[11] = 0 /\ u[12] = 0
    <3>1. 10 <= 26 /\ 11 <= 26 /\ 12 <= 26
      OBVIOUS
    <3> QED
      BY ONLY <1>3, <1>10, <2>2, <3>1
  <2>5. K[27] = I[27] /\ K[28] = I[28] /\ 3 \in 1..10 /\ 4 \in 1..10 /\ 10 \in 1..10
    <3>1. 27 > 12 /\ 28 > 12
      OBVIOUS
    <3> QED
      BY ONLY <1>22, <2>2, <3>1
  <2>6. \A i \in 1..(28 + Len(payload)) : i > 12 /\ i # 27 /\ i # 28 => K[i] = d[i]
    <3> SUFFICES ASSUME NEW i \in 1..(28 + Len(payload)), i > 12, i # 27, i # 28 PROVE K[i] = d[i]
      OBVIOUS
    <3>1. i > 9 /\ (i <= 26 \/ i > 28)
      BY ONLY <1>1, i \in 1..(28 + Len(payload)), i > 12, i # 27, i # 28
    <3> QED
      BY ONLY <1>10, <1>13, <1>22, <3>1, i \in 1..(28 + Len(payload)), i > 12
  <2> QED
    BY ONLY <1>10, <1>13, <1>22, <2>1, <2>3, <2>4, <2>5, <2>6 DEF PacketOctets
<1> QED
  BY ONLY <1>2, <1>4, <1>5, <1>6, <1>14, <1>15, <1>16, <1>17, <1>18, <1>23, <1>24

(* What the receiver adds up.                                              *)

\* A sum is a number.
LEMMA SumNat ==
  ASSUME NEW s \in Seq(ByteValues), NEW n \in 0 .. Len(s)
  PROVE  Weighted(s)[n] \in Nat
  BY WeightedSum

\* t has between b and b2 what s has between a and a2, at an even distance.
Aligned(s, a, a2, t, b, b2) ==
    /\ s \in Seq(ByteValues) /\ t \in Seq(ByteValues) /\ a2 <= Len(s) /\ b2 <= Len(t)
    /\ a \in Nat /\ a2 \in Nat /\ b \in Nat /\ b2 \in Nat /\ a <= a2 /\ a2 - a = b2 - b
    /\ a % 2 = b % 2
    /\ \A i \in 1 .. a2 - a : t[b + i] = s[a + i]

\* Equal segments at an even distance add the same.
LEMMA SameSums ==
  ASSUME NEW s, NEW a, NEW a2, NEW t, NEW b, NEW b2, Aligned(s, a, a2, t, b, b2)
  PROVE  Weighted(t)[b2] + Weighted(s)[a] = Weighted(t)[b] + Weighted(s)[a2]
<1>1. /\ s \in Seq(ByteValues) /\ t \in Seq(ByteValues) /\ a2 <= Len(s) /\ b2 <= Len(t)
      /\ a \in Nat /\ a2 \in Nat /\ b \in Nat /\ b2 \in Nat /\ a <= a2 /\ a2 - a = b2 - b
      /\ a % 2 = b % 2
  BY DEF Aligned
<1>2. PICK n : n \in Nat /\ n = a2 - a
  BY ONLY <1>1
<1>3. a + n = a2 /\ b + n = b2
  BY ONLY <1>1, <1>2
<1>4. Agree(s, a, t, b, n)
  BY ONLY <1>2, Aligned(s, a, a2, t, b, b2) DEF Aligned, Agree
<1>5. a + n <= Len(s) /\ b + n <= Len(t)
  BY ONLY <1>1, <1>3
<1>6. Weighted(t)[b + n] - Weighted(t)[b] = Weighted(s)[a + n] - Weighted(s)[a]
  <2>1. /\ s \in Seq(ByteValues) /\ t \in Seq(ByteValues) /\ a \in Nat /\ b \in Nat /\ n \in Nat
        /\ a + n <= Len(s) /\ b + n <= Len(t) /\ a % 2 = b % 2 /\ Agree(s, a, t, b, n)
    BY ONLY <1>1, <1>2, <1>4, <1>5
  <2>2. Rises(s, a, t, b, n)
    BY ONLY <2>1, SameSegments
  <2> QED
    BY ONLY <2>2 DEF Rises
<1>7. Len(s) \in Nat /\ Len(t) \in Nat
  BY ONLY <1>1
<1>8. a \in 0 .. Len(s) /\ a2 \in 0 .. Len(s) /\ b \in 0 .. Len(t) /\ b2 \in 0 .. Len(t)
  BY ONLY <1>1, <1>7
<1>9. PICK x, x2, y, y2 : /\ x = Weighted(s)[a] /\ x2 = Weighted(s)[a2]
                          /\ y = Weighted(t)[b] /\ y2 = Weighted(t)[b2]
  OBVIOUS
<1>10. x \in Nat /\ x2 \in Nat /\ y \in Nat /\ y2 \in Nat
  BY ONLY <1>1, <1>8, <1>9, SumNat
<1>11. y2 - y = x2 - x
  BY ONLY <1>3, <1>6, <1>9
<1>12. y2 + x = y + x2
  BY ONLY <1>10, <1>11
<1> QED
  BY ONLY <1>9, <1>12

\* The octets k1 and k2 of s, those after the first k, are the word v.
WordIs(s, k, k1, k2, v) ==
    /\ s \in Seq(ByteValues) /\ k \in Nat /\ k % 2 = 0 /\ k1 = k + 1 /\ k2 = k + 2 /\ k2 <= Len(s)
    /\ s[k1] * ByteSize + s[k2] = v

\* A word more in the sum.
LEMMA NextSum ==
  ASSUME NEW s, NEW k, NEW k1, NEW k2, NEW v, WordIs(s, k, k1, k2, v)
  PROVE  Weighted(s)[k2] = Weighted(s)[k] + v
<1>1. s \in Seq(ByteValues) /\ k \in Nat /\ k % 2 = 0 /\ k1 = k + 1 /\ k2 = k + 2 /\ k2 <= Len(s)
  BY DEF WordIs
<1>2. k + 2 <= Len(s)
  BY ONLY <1>1
<1>3. Weighted(s)[k + 2] = Weighted(s)[k] + (s[k + 1] * ByteSize + s[k + 2])
  BY ONLY <1>1, <1>2, NextWord
<1>4. s[k1] * ByteSize + s[k2] = v
  BY DEF WordIs
<1> QED
  BY ONLY <1>1, <1>3, <1>4

\* u is the n octets of s after the first from: SubSeq(s, lo, hi).
Cut(s, from, n, lo, hi) ==
    s \in Seq(ByteValues) /\ from \in Nat /\ n \in Nat /\ lo = from + 1 /\ hi = from + n /\ hi <= Len(s)

PieceAt(u, s, from, n) ==
    u \in Seq(ByteValues) /\ Len(u) = n /\ \A i \in 1 .. n : u[i] = s[from + i]

\* A segment of the packet, with its ends named.
LEMMA PieceOf ==
  ASSUME NEW s, NEW from, NEW n, NEW lo, NEW hi, Cut(s, from, n, lo, hi)
  PROVE  PieceAt(SubSeq(s, lo, hi), s, from, n)
<1>1. s \in Seq(ByteValues) /\ from \in Nat /\ n \in Nat /\ lo = from + 1 /\ hi = from + n /\ hi <= Len(s)
  BY DEF Cut
<1>2. from + n <= Len(s)
  BY ONLY <1>1
<1>3. /\ SubSeq(s, from + 1, from + n) \in Seq(ByteValues) /\ Len(SubSeq(s, from + 1, from + n)) = n
      /\ \A i \in 1 .. n : SubSeq(s, from + 1, from + n)[i] = s[from + i]
  BY ONLY <1>1, <1>2, Segment
<1> QED
  BY ONLY <1>1, <1>3 DEF PieceAt

\* Bytes that add up to a multiple of MaxWord are right.
LEMMA RightSum ==
  ASSUME NEW s \in Seq(ByteValues), NEW n, n = Len(s), NEW q \in Nat, Weighted(s)[n] = q * MaxWord
  PROVE  Right(s)
<1>1. PICK y : y = Weighted(s)[n]
  OBVIOUS
<1>2. y = q * MaxWord + 0
  <2>1. PICK p : p \in Nat /\ p = q * MaxWord
    BY ONLY ByteFacts, q \in Nat
  <2> QED
    BY ONLY <1>1, <2>1, Weighted(s)[n] = q * MaxWord
<1>3. MaxWord \in Nat /\ MaxWord > 0 /\ 0 \in Nat /\ 0 < MaxWord /\ q \in Int
  BY ONLY ByteFacts, q \in Nat
<1>4. y % MaxWord = 0
  BY ONLY <1>2, <1>3, DivUnique
<1> QED
  BY ONLY <1>1, <1>4, Unfolded, n = Len(s)

\* The IP header, with its checksum.
LEMMA HeaderRight ==
  ASSUME NEW K, NEW I, NEW d, NEW payload, Len(payload) \in Nat, NEW uc, NEW ipc \in 1 .. MaxWord,
         PacketOctets(K, I, d, payload, uc, ipc),
         NEW q \in Nat, Weighted(SubSeq(I, 1, 20))[20] + ipc = q * MaxWord
  PROVE  Right(SubSeq(K, 1, 20))
<1>1. /\ K \in Seq(ByteValues) /\ Len(K) = 28 + Len(payload) /\ I \in Seq(ByteValues) /\ Len(I) = Len(K)
      /\ \A i \in (1..10) \cup (13..20) : K[i] = I[i]
      /\ I[11] = 0 /\ I[12] = 0 /\ K[11] = High(ipc) /\ K[12] = Low(ipc)
  BY DEF PacketOctets
<1>2. Cut(K, 0, 20, 1, 20) /\ Cut(I, 0, 20, 1, 20)
  BY ONLY <1>1, Len(payload) \in Nat DEF Cut
<1>3. PICK f : f = SubSeq(K, 1, 20) /\ PieceAt(f, K, 0, 20) /\ f \in Seq(ByteValues) /\ Len(f) = 20
  <2>1. PICK f : f = SubSeq(K, 1, 20)
    OBVIOUS
  <2>2. PieceAt(f, K, 0, 20)
    BY ONLY <1>2, <2>1, PieceOf
  <2>3. f \in Seq(ByteValues) /\ Len(f) = 20
    BY ONLY <2>2 DEF PieceAt
  <2> QED
    BY ONLY <2>1, <2>2, <2>3
<1>4. PICK h : h = SubSeq(I, 1, 20) /\ PieceAt(h, I, 0, 20) /\ h \in Seq(ByteValues) /\ Len(h) = 20
  <2>1. PICK h : h = SubSeq(I, 1, 20)
    OBVIOUS
  <2>2. PieceAt(h, I, 0, 20)
    BY ONLY <1>2, <2>1, PieceOf
  <2>3. h \in Seq(ByteValues) /\ Len(h) = 20
    BY ONLY <2>2 DEF PieceAt
  <2> QED
    BY ONLY <2>1, <2>2, <2>3
<1>5. \A i \in 1 .. 20 : f[i] = K[i] /\ h[i] = I[i]
  <2>1. \A i \in 1 .. 20 : f[i] = K[0 + i] /\ h[i] = I[0 + i]
    BY ONLY <1>3, <1>4 DEF PieceAt
  <2>2. \A i \in 1 .. 20 : 0 + i = i
    OBVIOUS
  <2> QED
    BY ONLY <2>1, <2>2
<1>6. PICK x, y : x = Weighted(h) /\ y = Weighted(f)
  OBVIOUS
<1>7. /\ x[0] \in Nat /\ x[10] \in Nat /\ x[12] \in Nat /\ x[20] \in Nat /\ x[0] = 0
      /\ y[0] \in Nat /\ y[10] \in Nat /\ y[12] \in Nat /\ y[20] \in Nat /\ y[0] = 0
  <2>1. 0 \in 0 .. 20 /\ 10 \in 0 .. 20 /\ 12 \in 0 .. 20 /\ 20 \in 0 .. 20
    OBVIOUS
  <2> QED
    BY ONLY <1>3, <1>4, <1>6, <2>1, WeightedSum
<1>8. y[10] + x[0] = y[0] + x[10]
  <2>1. \A i \in 1 .. 10 : i \in 1 .. 20 /\ i \in (1..10) \cup (13..20) /\ 0 + i = i
    OBVIOUS
  <2>2. \A i \in 1 .. 10 : f[0 + i] = h[0 + i]
    BY ONLY <1>1, <1>5, <2>1
  <2>3. Aligned(h, 0, 10, f, 0, 10)
    BY ONLY <1>3, <1>4, <2>2 DEF Aligned
  <2> QED
    BY ONLY <1>6, <2>3, SameSums
<1>9. x[12] = x[10] + 0
  <2>1. h[11] = 0 /\ h[12] = 0
    BY ONLY <1>1, <1>5
  <2>2. h[11] * ByteSize + h[12] = 0
    BY ONLY <2>1, ByteFacts
  <2>3. WordIs(h, 10, 11, 12, 0)
    BY ONLY <1>4, <2>2 DEF WordIs
  <2> QED
    BY ONLY <1>6, <2>3, NextSum
<1>10. y[12] = y[10] + ipc
  <2>1. f[11] = High(ipc) /\ f[12] = Low(ipc)
    <3>1. 11 \in 1 .. 20 /\ 12 \in 1 .. 20
      OBVIOUS
    <3> QED
      BY ONLY <1>1, <1>5, <3>1
  <2>2. ipc \in 0 .. MaxWord
    BY ONLY ByteFacts, ipc \in 1 .. MaxWord
  <2>3. f[11] * ByteSize + f[12] = ipc
    BY ONLY <2>1, <2>2, TwoOctets
  <2>4. WordIs(f, 10, 11, 12, ipc)
    BY ONLY <1>3, <2>3 DEF WordIs
  <2> QED
    BY ONLY <1>6, <2>4, NextSum
<1>11. y[20] + x[12] = y[12] + x[20]
  <2>1. \A i \in 1 .. 8 : 12 + i \in 1 .. 20 /\ 12 + i \in (1..10) \cup (13..20)
    OBVIOUS
  <2>2. \A i \in 1 .. 8 : f[12 + i] = h[12 + i]
    BY ONLY <1>1, <1>5, <2>1
  <2>3. Aligned(h, 12, 20, f, 12, 20)
    BY ONLY <1>3, <1>4, <2>2 DEF Aligned
  <2> QED
    BY ONLY <1>6, <2>3, SameSums
<1>12. y[20] = x[20] + ipc
  <2>1. PICK x0, x10, x12, x20, y0, y10, y12, y20 :
            /\ x0 = x[0] /\ x10 = x[10] /\ x12 = x[12] /\ x20 = x[20]
            /\ y0 = y[0] /\ y10 = y[10] /\ y12 = y[12] /\ y20 = y[20]
    OBVIOUS
  <2>2. /\ x10 \in Nat /\ x12 \in Nat /\ x20 \in Nat /\ x0 = 0
        /\ y10 \in Nat /\ y12 \in Nat /\ y20 \in Nat /\ y0 = 0
    BY ONLY <1>7, <2>1
  <2>3. y10 + x0 = y0 + x10 /\ x12 = x10 + 0 /\ y12 = y10 + ipc /\ y20 + x12 = y12 + x20
    BY ONLY <1>8, <1>9, <1>10, <1>11, <2>1
  <2>4. ipc \in Nat
    BY ONLY ByteFacts, ipc \in 1 .. MaxWord
  <2>5. y20 = x20 + ipc
    BY ONLY <2>2, <2>3, <2>4
  <2> QED
    BY ONLY <2>1, <2>5
<1>13. Weighted(f)[20] = q * MaxWord
  BY ONLY <1>4, <1>6, <1>12, Weighted(SubSeq(I, 1, 20))[20] + ipc = q * MaxWord
<1>14. Right(f)
  BY ONLY <1>3, <1>13, RightSum, q \in Nat
<1> QED
  BY ONLY <1>3, <1>14

\* The UDP header and the payload, with the checksum and what is added to them
\* of the IP header.
LEMMA PseudoRight ==
  ASSUME NEW src, NEW dst, NEW payload, Len(payload) \in Nat, ULen(payload) \in 0 .. MaxWord,
         NEW K, NEW I, NEW d, NEW uc \in 1 .. MaxWord, NEW ipc,
         DataOctets(d, src, dst, payload), PacketOctets(K, I, d, payload, uc, ipc),
         NEW q \in Nat, (ULen(payload) + Weighted(d)[28 + Len(payload)]) + uc = q * MaxWord
  PROVE  Right(SubSeq(K, 13, 20) \o <<0, UDP, K[25], K[26]>> \o SubSeq(K, 21, 28 + Len(payload)))
<1>1. /\ K \in Seq(ByteValues) /\ Len(K) = 28 + Len(payload) /\ K[27] = High(uc) /\ K[28] = Low(uc)
      /\ \A i \in 1..(28 + Len(payload)) : i > 12 /\ i # 27 /\ i # 28 => K[i] = d[i]
  BY DEF PacketOctets
<1>2. /\ d \in Seq(ByteValues) /\ Len(d) = 28 + Len(payload)
      /\ \A i \in 1..9 : d[i] = 0
      /\ d[10] = UDP /\ d[11] = 0 /\ d[12] = 0
      /\ d[25] = High(ULen(payload)) /\ d[26] = Low(ULen(payload)) /\ d[27] = 0 /\ d[28] = 0
  BY DEF DataOctets
<1>3. PICK u, l, n : u = ULen(payload) /\ l = 28 + Len(payload) /\ n = Len(payload)
  OBVIOUS
<1>4. /\ n \in Nat /\ l \in Nat /\ u \in Nat /\ l = 28 + n /\ u = 8 + n /\ l = 20 + u /\ u \in 0 .. MaxWord
  BY ONLY <1>3, Len(payload) \in Nat, ULen(payload) \in 0 .. MaxWord DEF ULen
<1>5. K[25] = High(u) /\ K[26] = Low(u)
  <2>1. 25 \in 1 .. l /\ 26 \in 1 .. l /\ 25 > 12 /\ 26 > 12 /\ 25 # 27 /\ 25 # 28 /\ 26 # 27 /\ 26 # 28
    BY ONLY <1>4
  <2> QED
    BY ONLY <1>1, <1>2, <1>3, <2>1
<1>6. PICK a : a = SubSeq(K, 13, 20) /\ PieceAt(a, K, 12, 8) /\ a \in Seq(ByteValues) /\ Len(a) = 8
  <2>1. PICK a : a = SubSeq(K, 13, 20)
    OBVIOUS
  <2>2. Cut(K, 12, 8, 13, 20)
    BY ONLY <1>1, <1>3, <1>4 DEF Cut
  <2>3. PieceAt(a, K, 12, 8)
    BY ONLY <2>1, <2>2, PieceOf
  <2>4. a \in Seq(ByteValues) /\ Len(a) = 8
    BY ONLY <2>3 DEF PieceAt
  <2> QED
    BY ONLY <2>1, <2>3, <2>4
<1>7. PICK b : b = SubSeq(K, 21, l) /\ PieceAt(b, K, 20, u) /\ b \in Seq(ByteValues) /\ Len(b) = u
  <2>1. PICK b : b = SubSeq(K, 21, l)
    OBVIOUS
  <2>2. Cut(K, 20, u, 21, l)
    BY ONLY <1>1, <1>3, <1>4 DEF Cut
  <2>3. PieceAt(b, K, 20, u)
    BY ONLY <2>1, <2>2, PieceOf
  <2>4. b \in Seq(ByteValues) /\ Len(b) = u
    BY ONLY <2>3 DEF PieceAt
  <2> QED
    BY ONLY <2>1, <2>3, <2>4
<1>8. PICK c : /\ c = <<0, UDP, K[25], K[26]>> /\ c \in Seq(ByteValues) /\ Len(c) = 4
               /\ c[1] = 0 /\ c[2] = UDP /\ c[3] = High(u) /\ c[4] = Low(u)
  <2>1. High(u) \in ByteValues /\ Low(u) \in ByteValues
    BY ONLY <1>4, TwoOctets
  <2>2. 0 \in ByteValues /\ UDP \in ByteValues
    BY ONLY ByteFacts DEF ByteValues
  <2>3. PICK c : c = <<0, UDP, High(u), Low(u)>>
    OBVIOUS
  <2>4. c \in Seq(ByteValues) /\ Len(c) = 4 /\ c[1] = 0 /\ c[2] = UDP /\ c[3] = High(u) /\ c[4] = Low(u)
    BY ONLY <2>1, <2>2, <2>3
  <2> QED
    BY ONLY <1>5, <2>3, <2>4
<1>9. PICK e : e = a \o c /\ Both(e, 8, a, 4, c) /\ e \in Seq(ByteValues) /\ Len(e) = 12
  <2>1. PICK e : e = a \o c
    OBVIOUS
  <2>2. Both(e, 8, a, 4, c)
    BY ONLY <1>6, <1>8, <2>1, ThenJoined
  <2>3. e \in Seq(ByteValues) /\ Len(e) = 12
    BY ONLY <2>2 DEF Both
  <2> QED
    BY ONLY <2>1, <2>2, <2>3
<1>10. PICK p : p = e \o b /\ Both(p, 12, e, u, b) /\ p \in Seq(ByteValues) /\ Len(p) = 20 + n
  <2>1. PICK p : p = e \o b
    OBVIOUS
  <2>2. Both(p, 12, e, u, b)
    BY ONLY <1>7, <1>9, <2>1, ThenJoined
  <2>3. p \in Seq(ByteValues) /\ Len(p) = 12 + u /\ 12 + u = 20 + n
    BY ONLY <1>4, <2>2 DEF Both
  <2> QED
    BY ONLY <2>1, <2>2, <2>3
<1>11. \A i \in 1 .. 8 : p[i] = K[12 + i]
  <2>1. \A i \in 1 .. 8 : i \in 1 .. 12
    OBVIOUS
  <2>2. \A i \in 1 .. 12 : p[i] = e[i]
    BY ONLY <1>10 DEF Both
  <2>3. \A i \in 1 .. 8 : e[i] = a[i]
    BY ONLY <1>9 DEF Both
  <2>4. \A i \in 1 .. 8 : a[i] = K[12 + i]
    BY ONLY <1>6 DEF PieceAt
  <2> QED
    BY ONLY <2>1, <2>2, <2>3, <2>4
<1>12. p[9] = 0 /\ p[10] = UDP /\ p[11] = High(u) /\ p[12] = Low(u)
  <2>1. \A i \in 1 .. 12 : p[i] = e[i]
    BY ONLY <1>10 DEF Both
  <2>2. 9 \in 1 .. 12 /\ 10 \in 1 .. 12 /\ 11 \in 1 .. 12 /\ 12 \in 1 .. 12
    OBVIOUS
  <2>3. p[9] = e[9] /\ p[10] = e[10] /\ p[11] = e[11] /\ p[12] = e[12]
    BY ONLY <2>1, <2>2
  <2>4. \A i \in 1 .. 4 : e[8 + i] = c[i]
    BY ONLY <1>9 DEF Both
  <2>5. e[8 + 1] = c[1] /\ e[8 + 2] = c[2] /\ e[8 + 3] = c[3] /\ e[8 + 4] = c[4]
    BY ONLY <2>4
  <2>6. e[9] = c[1] /\ e[10] = c[2] /\ e[11] = c[3] /\ e[12] = c[4]
    BY ONLY <2>5
  <2> QED
    BY ONLY <1>8, <2>3, <2>6
<1>13. \A i \in 1 .. u : p[12 + i] = K[20 + i]
  <2>1. \A i \in 1 .. u : p[12 + i] = b[i]
    BY ONLY <1>10 DEF Both
  <2>2. \A i \in 1 .. u : b[i] = K[20 + i]
    BY ONLY <1>7 DEF PieceAt
  <2> QED
    BY ONLY <2>1, <2>2
<1>14. \A i \in 1 .. 8 : p[0 + i] = d[12 + i]
  <2>1. \A i \in 1 .. 8 : /\ 12 + i \in 1 .. l /\ 12 + i > 12 /\ 12 + i # 27 /\ 12 + i # 28
                          /\ 0 + i = i
    BY ONLY <1>4
  <2> QED
    BY ONLY <1>1, <1>3, <1>11, <2>1
<1>15. \A i \in 1 .. 6 : p[12 + i] = d[20 + i]
  <2>1. \A i \in 1 .. 6 : /\ 20 + i \in 1 .. l /\ 20 + i > 12 /\ 20 + i # 27 /\ 20 + i # 28
                          /\ i \in 1 .. u
    BY ONLY <1>4
  <2> QED
    BY ONLY <1>1, <1>3, <1>13, <2>1
<1>16. p[19] = High(uc) /\ p[20] = Low(uc)
  <2>1. 7 \in 1 .. u /\ 8 \in 1 .. u
    BY ONLY <1>4
  <2>2. p[12 + 7] = K[20 + 7] /\ p[12 + 8] = K[20 + 8]
    BY ONLY <1>13, <2>1
  <2>3. p[19] = K[27] /\ p[20] = K[28]
    BY ONLY <2>2
  <2> QED
    BY ONLY <1>1, <2>3
<1>17. \A i \in 1 .. n : p[20 + i] = d[28 + i]
  <2>1. \A i \in 1 .. n : /\ 28 + i \in 1 .. l /\ 28 + i > 12 /\ 28 + i # 27 /\ 28 + i # 28
                          /\ 8 + i \in 1 .. u /\ 12 + (8 + i) = 20 + i /\ 20 + (8 + i) = 28 + i
    BY ONLY <1>4
  <2>2. \A i \in 1 .. n : p[12 + (8 + i)] = K[20 + (8 + i)]
    BY ONLY <1>13, <2>1
  <2> QED
    BY ONLY <1>1, <1>3, <2>1, <2>2
<1>18. /\ Aligned(d, 12, 20, p, 0, 8) /\ Aligned(d, 20, 26, p, 12, 18)
       /\ Aligned(d, 28, l, p, 20, 20 + n)
  <2>1. /\ d \in Seq(ByteValues) /\ p \in Seq(ByteValues) /\ 20 <= Len(d) /\ 26 <= Len(d) /\ l <= Len(d)
        /\ 8 <= Len(p) /\ 18 <= Len(p) /\ 20 + n <= Len(p)
    <3>1. d \in Seq(ByteValues) /\ p \in Seq(ByteValues) /\ Len(d) = l /\ Len(p) = 20 + n
      BY ONLY <1>2, <1>3, <1>10
    <3>2. /\ 20 <= l /\ 26 <= l /\ l <= l
          /\ 8 <= 20 + n /\ 18 <= 20 + n /\ 20 + n <= 20 + n
      BY ONLY <1>4
    <3> QED
      BY ONLY <3>1, <3>2
  <2>2. Aligned(d, 12, 20, p, 0, 8)
    BY ONLY <1>14, <2>1 DEF Aligned
  <2>3. Aligned(d, 20, 26, p, 12, 18)
    BY ONLY <1>15, <2>1 DEF Aligned
  <2>4. Aligned(d, 28, l, p, 20, 20 + n)
    <3>1. PICK m : m = 20 + n
      OBVIOUS
    <3>2. l - 28 = n /\ m - 20 = n /\ 28 <= l /\ 28 % 2 = 20 % 2 /\ m \in Nat /\ l \in Nat
      BY ONLY <1>4, <3>1
    <3>3. \A i \in 1 .. l - 28 : p[20 + i] = d[28 + i]
      BY ONLY <1>17, <3>2
    <3>4. Aligned(d, 28, l, p, 20, m)
      BY ONLY <2>1, <3>1, <3>2, <3>3 DEF Aligned
    <3> QED
      BY ONLY <3>1, <3>4
  <2> QED
    BY ONLY <2>2, <2>3, <2>4
<1>19. /\ WordIs(d, 0, 1, 2, 0) /\ WordIs(d, 2, 3, 4, 0) /\ WordIs(d, 4, 5, 6, 0) /\ WordIs(d, 6, 7, 8, 0)
       /\ WordIs(d, 8, 9, 10, UDP) /\ WordIs(d, 10, 11, 12, 0) /\ WordIs(d, 26, 27, 28, 0)
  <2>1. /\ d[1] = 0 /\ d[2] = 0 /\ d[3] = 0 /\ d[4] = 0 /\ d[5] = 0 /\ d[6] = 0 /\ d[7] = 0 /\ d[8] = 0
        /\ d[9] = 0
    BY ONLY <1>2
  <2>2. 0 * ByteSize + 0 = 0 /\ 0 * ByteSize + UDP = UDP
    BY ONLY ByteFacts DEF ByteValues
  <2>3. Len(d) >= 28
    BY ONLY <1>2, <1>3, <1>4
  <2> QED
    BY ONLY <1>2, <2>1, <2>2, <2>3 DEF WordIs
<1>20. WordIs(p, 8, 9, 10, UDP) /\ WordIs(p, 10, 11, 12, u) /\ WordIs(p, 18, 19, 20, uc)
  <2>1. 0 * ByteSize + UDP = UDP
    BY ONLY ByteFacts DEF ByteValues
  <2>2. High(u) * ByteSize + Low(u) = u
    BY ONLY <1>4, TwoOctets
  <2>3. High(uc) * ByteSize + Low(uc) = uc
    <3>1. uc \in 0 .. MaxWord
      BY ONLY ByteFacts, uc \in 1 .. MaxWord
    <3> QED
      BY ONLY <3>1, TwoOctets
  <2>4. Len(p) >= 20
    BY ONLY <1>4, <1>10
  <2> QED
    BY ONLY <1>10, <1>12, <1>16, <2>1, <2>2, <2>3, <2>4 DEF WordIs
<1>21. PICK x, y : x = Weighted(d) /\ y = Weighted(p)
  OBVIOUS
<1>22. /\ x[2] = x[0] + 0 /\ x[4] = x[2] + 0 /\ x[6] = x[4] + 0 /\ x[8] = x[6] + 0
       /\ x[10] = x[8] + UDP /\ x[12] = x[10] + 0 /\ x[28] = x[26] + 0
  BY ONLY <1>19, <1>21, NextSum
<1>23. y[10] = y[8] + UDP /\ y[12] = y[10] + u /\ y[20] = y[18] + uc
  BY ONLY <1>20, <1>21, NextSum
<1>24. /\ y[8] + x[12] = y[0] + x[20] /\ y[18] + x[20] = y[12] + x[26]
       /\ y[20 + n] + x[28] = y[20] + x[l]
  BY ONLY <1>18, <1>21, SameSums
<1>25. x[0] = 0 /\ y[0] = 0 /\ x \in [0 .. l -> Nat] /\ y \in [0 .. 20 + n -> Nat]
  BY ONLY <1>2, <1>3, <1>10, <1>21, WeightedSum
<1>26. y[20 + n] = (u + x[l]) + uc
  <2>1. /\ x[20] \in Nat /\ x[26] \in Nat /\ x[l] \in Nat
    BY ONLY <1>4, <1>25
  <2>2. y[8] \in Nat /\ y[18] \in Nat /\ y[20 + n] \in Nat
    BY ONLY <1>4, <1>25
  <2>3. UDP \in Nat /\ uc \in Nat
    BY ONLY ByteFacts, uc \in 1 .. MaxWord
  <2>4. x[12] = UDP
    BY ONLY <1>22, <1>25, <2>3
  <2>5. PICK x20, x26, x28, xl, y8, y10, y12, y18, y20, yn :
            /\ x20 = x[20] /\ x26 = x[26] /\ x28 = x[28] /\ xl = x[l]
            /\ y8 = y[8] /\ y10 = y[10] /\ y12 = y[12] /\ y18 = y[18] /\ y20 = y[20] /\ yn = y[20 + n]
    OBVIOUS
  <2>6. x20 \in Nat /\ x26 \in Nat /\ xl \in Nat /\ y8 \in Nat /\ y18 \in Nat /\ yn \in Nat
    BY ONLY <2>1, <2>2, <2>5
  <2>7. /\ y8 + UDP = 0 + x20 /\ y10 = y8 + UDP /\ y12 = y10 + u /\ y18 + x20 = y12 + x26
        /\ x28 = x26 + 0 /\ y20 = y18 + uc /\ yn + x28 = y20 + xl
    BY ONLY <1>22, <1>23, <1>24, <1>25, <2>4, <2>5
  <2>8. u \in Nat
    BY ONLY <1>4
  <2>9. yn = (u + xl) + uc
    BY ONLY <2>3, <2>6, <2>7, <2>8
  <2> QED
    BY ONLY <2>5, <2>9
<1>27. y[20 + n] = q * MaxWord
  BY ONLY <1>3, <1>21, <1>26, (ULen(payload) + Weighted(d)[28 + Len(payload)]) + uc = q * MaxWord
<1>28. Right(p)
  BY ONLY <1>10, <1>21, <1>27, RightSum, q \in Nat
<1> QED
  BY ONLY <1>3, <1>6, <1>7, <1>8, <1>9, <1>10, <1>28

\* Two sequences of octets are the same when their octets are.
LEMMA SameBytes ==
  ASSUME NEW s, NEW t, NEW n \in Nat, s \in Seq(ByteValues), t \in Seq(ByteValues), Len(s) = n, Len(t) = n,
         \A i \in 1 .. n : s[i] = t[i]
  PROVE  s = t
<1>1. s \in [1 .. n -> ByteValues] /\ t \in [1 .. n -> ByteValues]
  BY LenProperties
<1> QED
  BY <1>1

\* A piece of the packet is what was put there.
LEMMA PieceIs ==
  ASSUME NEW K, NEW from, NEW n, NEW lo, NEW hi, Cut(K, from, n, lo, hi), NEW t \in Seq(ByteValues), Len(t) = n,
         \A i \in 1 .. n : K[from + i] = t[i]
  PROVE  SubSeq(K, lo, hi) = t
<1>1. PieceAt(SubSeq(K, lo, hi), K, from, n)
  BY PieceOf
<1>2. n \in Nat
  BY DEF Cut
<1>3. PICK u : u = SubSeq(K, lo, hi)
  OBVIOUS
<1>4. u \in Seq(ByteValues) /\ Len(u) = n /\ \A i \in 1 .. n : u[i] = K[from + i]
  BY <1>1, <1>3 DEF PieceAt
<1>5. \A i \in 1 .. n : u[i] = t[i]
  BY <1>4
<1>6. u = t
  BY ONLY <1>2, <1>4, <1>5, SameBytes, t \in Seq(ByteValues), Len(t) = n
<1> QED
  BY <1>3, <1>6

\* What the receiver makes of the packet K.
Received(K, src, dst, payload) ==
    LET total == K[3] * ByteSize + K[4]
        ulen == K[25] * ByteSize + K[26]
    IN  /\ total = Len(K) /\ ulen = total - 20
        /\ Right(SubSeq(K, 0 + 1, 0 + 20))
        /\ K[10] = UDP
        /\ SubSeq(K, 26 + 1, 26 + 2) # <<0, 0>>
        /\ Right(SubSeq(K, 12 + 1, 12 + 8) \o <<0, UDP, K[25], K[26]>> \o SubSeq(K, 20 + 1, 20 + ulen))
        /\ <<SubSeq(K, 12 + 1, 12 + 4), SubSeq(K, 20 + 1, 20 + 2)>> = src
        /\ <<SubSeq(K, 16 + 1, 16 + 4), SubSeq(K, 22 + 1, 22 + 2)>> = dst
        /\ SubSeq(K, 28 + 1, 28 + (ulen - 8)) = payload

\* The receiver reads back what was to be sent, and finds both checksums right.
LEMMA ReceivedAsSent ==
  ASSUME NEW src \in Addrs, NEW dst \in Addrs, NEW payload \in Payloads, 28 + Len(payload) <= MaxWord
  PROVE  Received(Built(src, dst, payload), src, dst, payload)
<1>1. /\ src[1] \in Seq(ByteValues) /\ Len(src[1]) = 4 /\ src[2] \in Seq(ByteValues) /\ Len(src[2]) = 2
      /\ dst[1] \in Seq(ByteValues) /\ Len(dst[1]) = 4 /\ dst[2] \in Seq(ByteValues) /\ Len(dst[2]) = 2
      /\ payload \in Seq(ByteValues) /\ src = <<src[1], src[2]>> /\ dst = <<dst[1], dst[2]>>
  BY PacketConstants DEF ByteValues
<1>2. PICK n, u : n = Len(payload) /\ u = ULen(payload)
  OBVIOUS
<1>3. n \in Nat /\ u = 8 + n /\ u \in 0 .. MaxWord /\ 28 + n \in 0 .. MaxWord
  <2>1. Len(payload) \in Nat
    BY ONLY <1>1
  <2> QED
    BY ONLY <1>2, <2>1, ByteFacts, 28 + Len(payload) <= MaxWord DEF ULen
<1>4. PICK d, I, uc, ipc, K : /\ d = Data(src, dst, payload) /\ I = IPDone(src, dst, payload)
                              /\ uc = UDPSum(src, dst, payload) /\ ipc = IPSum(src, dst, payload)
                              /\ K = Built(src, dst, payload)
  OBVIOUS
<1>5. /\ uc \in 1 .. MaxWord
      /\ \E q \in Nat : (ULen(payload) + Weighted(d)[28 + Len(payload)]) + uc = q * MaxWord
      /\ ipc \in 1 .. MaxWord
      /\ \E q \in Nat : Weighted(SubSeq(I, 1, 20))[20] + ipc = q * MaxWord
      /\ PacketOctets(K, I, d, payload, uc, ipc)
  BY ONLY <1>4, Sent, src \in Addrs, dst \in Addrs, payload \in Payloads, 28 + Len(payload) <= MaxWord
<1>6. DataOctets(d, src, dst, payload)
  BY ONLY <1>4, DataFacts, src \in Addrs, dst \in Addrs, payload \in Payloads, 28 + Len(payload) <= MaxWord
<1>7. /\ K \in Seq(ByteValues) /\ Len(K) = 28 + n /\ K[3] = High(28 + n) /\ K[4] = Low(28 + n)
      /\ K[10] = UDP /\ K[27] = High(uc) /\ K[28] = Low(uc)
      /\ \A i \in 1..(28 + n) : i > 12 /\ i # 27 /\ i # 28 => K[i] = d[i]
  BY ONLY <1>2, <1>5 DEF PacketOctets
<1>8. /\ \A i \in 1..4 : d[12 + i] = src[1][i]
      /\ \A i \in 1..4 : d[16 + i] = dst[1][i]
      /\ \A i \in 1..2 : d[20 + i] = src[2][i]
      /\ \A i \in 1..2 : d[22 + i] = dst[2][i]
      /\ d[25] = High(u) /\ d[26] = Low(u)
      /\ \A i \in 1..n : d[28 + i] = payload[i]
  BY ONLY <1>2, <1>6 DEF DataOctets
<1>9. PICK total, ulen : total = K[3] * ByteSize + K[4] /\ ulen = K[25] * ByteSize + K[26]
  OBVIOUS
<1>10. total = 28 + n
  BY ONLY <1>3, <1>7, <1>9, TwoOctets
<1>11. K[25] = High(u) /\ K[26] = Low(u)
  <2>1. 25 \in 1..(28 + n) /\ 26 \in 1..(28 + n) /\ 25 > 12 /\ 26 > 12 /\ 25 # 27 /\ 25 # 28 /\ 26 # 27 /\ 26 # 28
    BY ONLY <1>3
  <2> QED
    BY ONLY <1>7, <1>8, <2>1
<1>12. ulen = u
  BY ONLY <1>3, <1>9, <1>11, TwoOctets
<1>13. total = Len(K) /\ ulen = total - 20 /\ ulen - 8 = n /\ 20 + ulen = 28 + n /\ 28 + (ulen - 8) = 28 + n
  BY ONLY <1>3, <1>7, <1>10, <1>12
<1>14. Right(SubSeq(K, 1, 20))
  BY ONLY <1>2, <1>3, <1>5, HeaderRight
<1>15. Right(SubSeq(K, 13, 20) \o <<0, UDP, K[25], K[26]>> \o SubSeq(K, 21, 28 + n))
  BY ONLY <1>2, <1>3, <1>5, <1>6, PseudoRight
<1>16. SubSeq(K, 27, 28) # <<0, 0>>
  <2>1. PICK t : t = SubSeq(K, 27, 28)
    OBVIOUS
  <2>2. Cut(K, 26, 2, 27, 28)
    BY ONLY <1>3, <1>7 DEF Cut
  <2>3. PieceAt(t, K, 26, 2)
    BY ONLY <2>1, <2>2, PieceOf
  <2>4. t[1] = K[27] /\ t[2] = K[28]
    <3>1. t[1] = K[26 + 1] /\ t[2] = K[26 + 2]
      BY ONLY <2>3 DEF PieceAt
    <3> QED
      BY ONLY <3>1
  <2>5. uc \in 0 .. MaxWord /\ uc # 0
    BY ONLY <1>5, ByteFacts
  <2>6. High(uc) * ByteSize + Low(uc) = uc
    BY ONLY <2>5, TwoOctets
  <2>7. ~(High(uc) = 0 /\ Low(uc) = 0)
    BY ONLY <2>5, <2>6, ByteFacts
  <2>8. t = <<0, 0>> => t[1] = 0 /\ t[2] = 0
    OBVIOUS
  <2> QED
    BY ONLY <1>7, <2>1, <2>4, <2>7, <2>8
<1>17. SubSeq(K, 13, 16) = src[1]
  <2>1. Cut(K, 12, 4, 13, 16)
    BY ONLY <1>3, <1>7 DEF Cut
  <2>2. \A i \in 1..4 : 12 + i \in 1..(28 + n) /\ 12 + i > 12 /\ 12 + i # 27 /\ 12 + i # 28
    BY ONLY <1>3
  <2>3. \A i \in 1..4 : K[12 + i] = src[1][i]
    BY ONLY <1>7, <1>8, <2>2
  <2> QED
    BY ONLY <1>1, <2>1, <2>3, PieceIs
<1>18. SubSeq(K, 17, 20) = dst[1]
  <2>1. Cut(K, 16, 4, 17, 20)
    BY ONLY <1>3, <1>7 DEF Cut
  <2>2. \A i \in 1..4 : 16 + i \in 1..(28 + n) /\ 16 + i > 12 /\ 16 + i # 27 /\ 16 + i # 28
    BY ONLY <1>3
  <2>3. \A i \in 1..4 : K[16 + i] = dst[1][i]
    BY ONLY <1>7, <1>8, <2>2
  <2> QED
    BY ONLY <1>1, <2>1, <2>3, PieceIs
<1>19. SubSeq(K, 21, 22) = src[2]
  <2>1. Cut(K, 20, 2, 21, 22)
    BY ONLY <1>3, <1>7 DEF Cut
  <2>2. \A i \in 1..2 : 20 + i \in 1..(28 + n) /\ 20 + i > 12 /\ 20 + i # 27 /\ 20 + i # 28
    BY ONLY <1>3
  <2>3. \A i \in 1..2 : K[20 + i] = src[2][i]
    BY ONLY <1>7, <1>8, <2>2
  <2> QED
    BY ONLY <1>1, <2>1, <2>3, PieceIs
<1>20. SubSeq(K, 23, 24) = dst[2]
  <2>1. Cut(K, 22, 2, 23, 24)
    BY ONLY <1>3, <1>7 DEF Cut
  <2>2. \A i \in 1..2 : 22 + i \in 1..(28 + n) /\ 22 + i > 12 /\ 22 + i # 27 /\ 22 + i # 28
    BY ONLY <1>3
  <2>3. \A i \in 1..2 : K[22 + i] = dst[2][i]
    BY ONLY <1>7, <1>8, <2>2
  <2> QED
    BY ONLY <1>1, <2>1, <2>3, PieceIs
<1>21. SubSeq(K, 29, 28 + n) = payload
  <2>1. Cut(K, 28, n, 29, 28 + n)
    BY ONLY <1>3, <1>7 DEF Cut
  <2>2. \A i \in 1..n : 28 + i \in 1..(28 + n) /\ 28 + i > 12 /\ 28 + i # 27 /\ 28 + i # 28
    BY ONLY <1>3
  <2>3. \A i \in 1..n : K[28 + i] = payload[i]
    BY ONLY <1>7, <1>8, <2>2
  <2>4. PICK hi : hi = 28 + n
    OBVIOUS
  <2>5. Cut(K, 28, n, 29, hi)
    BY ONLY <2>1, <2>4
  <2>6. payload \in Seq(ByteValues) /\ Len(payload) = n
    BY ONLY <1>1, <1>2
  <2>7. SubSeq(K, 29, hi) = payload
    BY ONLY <2>3, <2>5, <2>6, PieceIs
  <2> QED
    BY ONLY <2>4, <2>7
<1>22. /\ 0 + 1 = 1 /\ 0 + 20 = 20 /\ 26 + 1 = 27 /\ 26 + 2 = 28 /\ 12 + 1 = 13 /\ 12 + 8 = 20
       /\ 20 + 1 = 21 /\ 12 + 4 = 16 /\ 20 + 2 = 22 /\ 16 + 1 = 17 /\ 16 + 4 = 20 /\ 22 + 1 = 23
       /\ 22 + 2 = 24 /\ 28 + 1 = 29
  OBVIOUS
<1>23. Received(K, src, dst, payload)
  BY ONLY <1>1, <1>7, <1>9, <1>13, <1>14, <1>15, <1>16, <1>17, <1>18, <1>19, <1>20, <1>21, <1>22 DEF Received
<1> QED
  BY ONLY <1>4, <1>23

\* A packet that is sent is right and accepted; one that is not does not fit.
LEMMA SendKeeps ==
  ASSUME NEW src \in Addrs, NEW dst \in Addrs, NEW payload \in Payloads, sendUDPViaRaw(src, dst, payload)
  PROVE  RawInv'
<1>1. PICK n, iplen : n = Len(payload) /\ iplen = uint16(28 + Len(payload))
  OBVIOUS
<1>2. /\ sent' = [src |-> src, dst |-> dst, payload |-> payload]
      /\ result' = IF iplen > Word - 1 THEN "too big" ELSE IF iplen < 28 THEN "panicked" ELSE "sent"
      /\ packet' = IF result' = "sent" THEN Built(src, dst, payload) ELSE <<>>
  BY <1>1 DEF sendUDPViaRaw
<1>3. n \in Nat /\ n < Word /\ 28 < Word /\ Word \in Nat
  <2>1. payload \in Seq(ByteValues) /\ Len(payload) < ByteSize * ByteSize
    BY PacketConstants DEF ByteValues
  <2>2. Len(payload) \in Nat
    BY ONLY <2>1
  <2> QED
    BY ONLY <1>1, <2>1, <2>2, ByteFacts
<1>4. CASE 28 + n < Word
  <2>1. iplen = 28 + n
    <3>1. (28 + n) % Word = 28 + n
      BY ONLY <1>3, <1>4
    <3> QED
      BY ONLY <1>1, <3>1 DEF uint16
  <2>2. result' = "sent"
    <3>1. ~(iplen > Word - 1) /\ ~(iplen < 28)
      BY ONLY <1>3, <1>4, <2>1
    <3> QED
      BY ONLY <1>2, <3>1
  <2>3. 28 + Len(payload) <= MaxWord
    BY ONLY <1>1, <1>3, <1>4, ByteFacts
  <2>4. Received(packet', src, dst, payload)
    BY ONLY <1>2, <2>2, <2>3, ReceivedAsSent, src \in Addrs, dst \in Addrs, payload \in Payloads
  <2>5. sent'.src = src /\ sent'.dst = dst /\ sent'.payload = payload
    BY ONLY <1>2
  <2>6. Accepted'
    BY ONLY <2>4, <2>5 DEF Accepted, Received, At
  <2>7. SentIfFits'
    BY ONLY <2>2 DEF SentIfFits
  <2> QED
    BY ONLY <2>6, <2>7 DEF RawInv
<1>5. CASE ~(28 + n < Word)
  <2>1. PICK r : r \in Nat /\ r = 28 + n - Word /\ r < 28 /\ r < Word
    BY ONLY <1>3, <1>5
  <2>2. 28 + n = 1 * Word + r
    BY ONLY <1>3, <2>1
  <2>3. (28 + n) % Word = r
    <3>1. PICK y : y = 28 + n
      OBVIOUS
    <3>2. Word > 0 /\ 1 \in Int
      BY ONLY <1>3
    <3> QED
      BY ONLY <1>3, <2>1, <2>2, <3>1, <3>2, DivUnique
  <2>4. iplen = r
    BY ONLY <1>1, <2>3 DEF uint16
  <2>5. result' = "panicked"
    <3>1. ~(iplen > Word - 1) /\ iplen < 28
      BY ONLY <1>3, <2>1, <2>4
    <3> QED
      BY ONLY <1>2, <3>1
  <2>6. Len(sent'.payload) > Word - 1 - 28
    <3>1. Len(sent'.payload) = n
      BY ONLY <1>1, <1>2
    <3> QED
      BY ONLY <1>3, <1>5, <3>1
  <2> QED
    BY ONLY <2>5, <2>6 DEF RawInv, Accepted, SentIfFits
<1> QED
  BY ONLY <1>4, <1>5

\* Every payload that fits is sent, and the packet accepted by its receiver: its
\* lengths, both of its checksums, the addresses and the payload, for every size
\* of an octet, every address and every payload (net.go:13-79).
THEOREM PacketsAccepted == RawSpec => []RawInv
<1>1. RawInit => RawInv
  BY DEF RawInit, RawInv, Accepted, SentIfFits
<1>2. RawInv /\ [RawNext]_rawVars => RawInv'
  <2> SUFFICES ASSUME RawInv, [RawNext]_rawVars PROVE RawInv'
    OBVIOUS
  <2>1. CASE RawNext
    <3>1. PICK src \in Addrs, dst \in Addrs, payload \in Payloads : sendUDPViaRaw(src, dst, payload)
      BY <2>1 DEF RawNext
    <3> QED
      BY ONLY <3>1, SendKeeps
  <2>2. CASE UNCHANGED rawVars
    BY <2>2 DEF rawVars, RawInv, Accepted, SentIfFits, At
  <2> QED
    BY <2>1, <2>2
<1> QED
  BY <1>1, <1>2, PTL DEF RawSpec

-----------------------------------------------------------------------------
(* The writer for the Windows console (AnsiColor): its colors.              *)

\* Attributes taken apart, with the bits of each part.
Fields(fg, bg, fi, bi, u, o) ==
    [foregroundColor : fg, backgroundColor : bg, foregroundIntensity : fi, backgroundIntensity : bi,
     underscore : u, otherAttributes : o]
\* Attributes taken apart: every part has bits of its own; after a light color
\* the color's part has an intensity too.
Plain == Fields(SUBSET fgRGB, SUBSET bgRGB, SUBSET fgIntensity, SUBSET bgIntensity, SUBSET underscore,
                SUBSET {"other"})
Shaped == Fields(SUBSET Bits, SUBSET Bits, SUBSET Bits, SUBSET Bits, SUBSET Bits, SUBSET Bits)

\* A color has bits of its part, a light one its intensity too.
LEMMA ColorsOf ==
  ASSUME NEW c, c \in foregroundCodes \cup backgroundCodes
  PROVE  /\ colorMap[c] \subseteq Bits
         /\ c \in foregroundCodes /\ ~light(c) => colorMap[c] \subseteq fgRGB
         /\ c \in backgroundCodes /\ ~light(c) => colorMap[c] \subseteq bgRGB
<1>1. \A d : Fg(d) \subseteq fgRGB /\ Bg(d) \subseteq bgRGB
  BY DEF Fg, Bg, Color, fgRGB, bgRGB
<1>2. fgRGB \subseteq Bits /\ bgRGB \subseteq Bits /\ fgIntensity \subseteq Bits /\ bgIntensity \subseteq Bits
  BY DEF Bits
<1>3. c \in (30..37) \cup {39} \cup (90..97) \cup (40..47) \cup {49} \cup (100..107)
  BY DEF foregroundCodes, backgroundCodes
<1>4. colorMap[c] = CASE c \in 30..37   -> Fg(c - 30)
      [] c = 39         -> defaultAttr \cap fgRGB
      [] c \in 90..97   -> Fg(c - 90) \cup fgIntensity
      [] c \in 40..47   -> Bg(c - 40)
      [] c = 49         -> defaultAttr \cap bgRGB
      [] c \in 100..107 -> Bg(c - 100) \cup bgIntensity
  BY DEF colorMap
<1>5. CASE c \in 30..37
  <2>1. colorMap[c] = Fg(c - 30)
    BY ONLY <1>4, <1>5
  <2>2. c \notin backgroundCodes
    BY ONLY <1>5 DEF backgroundCodes
  <2> QED
    BY ONLY <1>1, <1>2, <2>1, <2>2
<1>6. CASE c = 39
  <2>1. colorMap[c] = defaultAttr \cap fgRGB
    BY ONLY <1>4, <1>6
  <2>2. c \notin backgroundCodes
    BY ONLY <1>6 DEF backgroundCodes
  <2> QED
    BY ONLY <1>1, <1>2, <2>1, <2>2
<1>7. CASE c \in 90..97
  <2>1. colorMap[c] = Fg(c - 90) \cup fgIntensity
    BY ONLY <1>4, <1>7
  <2>2. light(c)
    BY ONLY <1>7 DEF light
  <2> QED
    BY ONLY <1>1, <1>2, <2>1, <2>2
<1>8. CASE c \in 40..47
  <2>1. colorMap[c] = Bg(c - 40)
    BY ONLY <1>4, <1>8
  <2>2. c \notin foregroundCodes
    BY ONLY <1>8 DEF foregroundCodes
  <2> QED
    BY ONLY <1>1, <1>2, <2>1, <2>2
<1>9. CASE c = 49
  <2>1. colorMap[c] = defaultAttr \cap bgRGB
    BY ONLY <1>4, <1>9
  <2>2. c \notin foregroundCodes
    BY ONLY <1>9 DEF foregroundCodes
  <2> QED
    BY ONLY <1>1, <1>2, <2>1, <2>2
<1>10. CASE c \in 100..107
  <2>1. colorMap[c] = Bg(c - 100) \cup bgIntensity
    BY ONLY <1>4, <1>10
  <2>2. light(c)
    BY ONLY <1>10 DEF light
  <2> QED
    BY ONLY <1>1, <1>2, <2>1, <2>2
<1> QED
  BY ONLY <1>3, <1>5, <1>6, <1>7, <1>8, <1>9, <1>10

\* Attributes are taken apart and put together again without loss.
LEMMA Converted ==
  /\ \A attr : convertTextAttr(attr) \in Plain
  /\ Plain \subseteq Shaped
  /\ \A t \in Shaped : convertWinAttr(t) \subseteq Bits
  /\ \A t \in Plain : convertTextAttr(convertWinAttr(t)) = t
  /\ \A attr \in SUBSET Bits : convertWinAttr(convertTextAttr(attr)) = attr
<1>1. \A attr : convertTextAttr(attr) \in Plain
  BY DEF convertTextAttr, Plain, Fields
<1>2. Plain \subseteq Shaped
  BY DEF Plain, Shaped, Fields, Bits
<1>3. \A t \in Shaped : convertWinAttr(t) \subseteq Bits
  BY DEF Shaped, Fields, convertWinAttr
<1>4. ASSUME NEW t \in Plain PROVE convertTextAttr(convertWinAttr(t)) = t
  <2>1. /\ t.foregroundColor \subseteq fgRGB /\ t.backgroundColor \subseteq bgRGB
        /\ t.foregroundIntensity \subseteq fgIntensity /\ t.backgroundIntensity \subseteq bgIntensity
        /\ t.underscore \subseteq underscore /\ t.otherAttributes \subseteq {"other"}
    BY DEF Plain, Fields
  <2>2. PICK w : w = convertWinAttr(t)
    OBVIOUS
  <2>3. w = t.foregroundColor \cup t.backgroundColor \cup t.foregroundIntensity \cup t.backgroundIntensity
              \cup t.underscore \cup t.otherAttributes
    BY <2>2 DEF convertWinAttr
  <2>4. w \cap fgRGB = t.foregroundColor
    BY ONLY <2>1, <2>3 DEF fgRGB, bgRGB, fgIntensity, bgIntensity, underscore
  <2>5. w \cap bgRGB = t.backgroundColor
    BY ONLY <2>1, <2>3 DEF fgRGB, bgRGB, fgIntensity, bgIntensity, underscore
  <2>6. w \cap fgIntensity = t.foregroundIntensity
    BY ONLY <2>1, <2>3 DEF fgRGB, bgRGB, fgIntensity, bgIntensity, underscore
  <2>7. w \cap bgIntensity = t.backgroundIntensity
    BY ONLY <2>1, <2>3 DEF fgRGB, bgRGB, fgIntensity, bgIntensity, underscore
  <2>8. w \cap underscore = t.underscore
    BY ONLY <2>1, <2>3 DEF fgRGB, bgRGB, fgIntensity, bgIntensity, underscore
  <2>9. w \cap {"other"} = t.otherAttributes
    BY ONLY <2>1, <2>3 DEF fgRGB, bgRGB, fgIntensity, bgIntensity, underscore
  <2>10. convertTextAttr(w) = t
    BY ONLY <2>4, <2>5, <2>6, <2>7, <2>8, <2>9, t \in Plain DEF convertTextAttr, Plain, Fields
  <2> QED
    BY ONLY <2>2, <2>10
<1>5. ASSUME NEW attr \in SUBSET Bits PROVE convertWinAttr(convertTextAttr(attr)) = attr
  BY DEF convertWinAttr, convertTextAttr, Bits
<1> QED
  BY <1>1, <1>2, <1>3, <1>4, <1>5

\* A code changes one part, or all to the default.
LEMMA CodeKeeps ==
  ASSUME NEW c
  PROVE  /\ \A t \in Shaped : ApplyCode(t, c) \in Shaped
         /\ ~light(c) => \A t \in Plain : ApplyCode(t, c) \in Plain
<1>1. [convertTextAttr(defaultAttr) EXCEPT !.underscore = {}, !.otherAttributes = {}] \in Plain
  <2>1. convertTextAttr(defaultAttr) \in Plain
    BY Converted
  <2> QED
    BY ONLY <2>1 DEF Plain, Fields
<1>2. ASSUME NEW t \in Shaped PROVE ApplyCode(t, c) \in Shaped
  <2>1. c \in foregroundCodes => [t EXCEPT !.foregroundColor = colorMap[c]] \in Shaped
    BY ColorsOf DEF Shaped, Fields
  <2>2. c \in backgroundCodes => [t EXCEPT !.backgroundColor = colorMap[c]] \in Shaped
    BY ColorsOf DEF Shaped, Fields
  <2>3. [convertTextAttr(defaultAttr) EXCEPT !.underscore = {}, !.otherAttributes = {}] \in Shaped
    BY <1>1, Converted
  <2>4. /\ [t EXCEPT !.foregroundIntensity = fgIntensity] \in Shaped
        /\ [t EXCEPT !.foregroundIntensity = {}] \in Shaped
        /\ [t EXCEPT !.underscore = underscore] \in Shaped
        /\ [t EXCEPT !.underscore = {}] \in Shaped
        /\ [t EXCEPT !.backgroundIntensity = bgIntensity] \in Shaped
        /\ [t EXCEPT !.backgroundIntensity = {}] \in Shaped
    BY DEF Shaped, Fields, Bits
  <2> QED
    BY <2>1, <2>2, <2>3, <2>4 DEF ApplyCode
<1>3. ASSUME ~light(c), NEW t \in Plain PROVE ApplyCode(t, c) \in Plain
  <2>1. c \in foregroundCodes => [t EXCEPT !.foregroundColor = colorMap[c]] \in Plain
    BY <1>3, ColorsOf DEF Plain, Fields
  <2>2. c \in backgroundCodes => [t EXCEPT !.backgroundColor = colorMap[c]] \in Plain
    BY <1>3, ColorsOf DEF Plain, Fields
  <2>4. /\ [t EXCEPT !.foregroundIntensity = fgIntensity] \in Plain
        /\ [t EXCEPT !.foregroundIntensity = {}] \in Plain
        /\ [t EXCEPT !.underscore = underscore] \in Plain
        /\ [t EXCEPT !.underscore = {}] \in Plain
        /\ [t EXCEPT !.backgroundIntensity = bgIntensity] \in Plain
        /\ [t EXCEPT !.backgroundIntensity = {}] \in Plain
    BY DEF Plain, Fields
  <2> QED
    BY <1>1, <2>1, <2>2, <2>4 DEF ApplyCode
<1> QED
  BY <1>2, <1>3

\* The value of a separation, whatever the codes.
OneByOne(attr, codes) ==
    LET a[n \in 0..Len(codes)] ==
            IF n = 0 THEN attr ELSE convertWinAttr(ApplyCode(convertTextAttr(a[n - 1]), codes[n]))
    IN  a[Len(codes)]

\* The codes applied, step by step.
LEMMA AppliedSteps ==
  ASSUME NEW attr, attr \in Shaped, NEW codes, Len(codes) \in Nat
  PROVE  \E w : /\ w \in [0 .. Len(codes) -> Shaped] /\ w[0] = attr
                /\ \A n \in 1 .. Len(codes) : w[n] = ApplyCode(w[n - 1], codes[n])
                /\ Applied(attr, codes) = w[Len(codes)]
<1>1. \A n \in 1 .. Len(codes), v \in Shaped : ApplyCode(v, codes[n]) \in Shaped
  BY CodeKeeps
<1> DEFINE F == [n \in 1 .. Len(codes) |-> [v \in Shaped |-> ApplyCode(v, codes[n])]]
<1>4. F \in [1 .. Len(codes) -> [Shaped -> Shaped]]
  BY ONLY <1>1
<1>5. PICK g : g \in [0 .. Len(codes) -> Shaped] /\ StepsOf(g, Len(codes), attr, F)
  <2>1. Len(codes) \in Nat /\ attr \in Shaped
    OBVIOUS
  <2> HIDE DEF F
  <2> QED
    BY ONLY <1>4, <2>1, RecursionExists
<1>6. ASSUME NEW n \in 1 .. Len(codes) PROVE g[n] = ApplyCode(g[n - 1], codes[n])
  <2>1. n - 1 \in 0 .. Len(codes)
    BY ONLY Len(codes) \in Nat, n \in 1 .. Len(codes)
  <2>2. g[n - 1] \in Shaped
    BY ONLY <1>5, <2>1
  <2>3. g[n] = F[n][g[n - 1]]
    BY <1>5 DEF StepsOf
  <2> QED
    BY ONLY <2>2, <2>3, n \in 1 .. Len(codes)
<1>7. g = [n \in 0 .. Len(codes) |-> IF n = 0 THEN attr ELSE ApplyCode(g[n - 1], codes[n])]
  <2>1. \A n \in 0 .. Len(codes) : n = 0 \/ n \in 1 .. Len(codes)
    BY ONLY Len(codes) \in Nat
  <2>2. g[0] = attr
    BY <1>5 DEF StepsOf
  <2>3. \A n \in 0 .. Len(codes) : g[n] = IF n = 0 THEN attr ELSE ApplyCode(g[n - 1], codes[n])
    BY ONLY <1>6, <2>1, <2>2
  <2> QED
    BY ONLY <1>5, <2>3
<1> DEFINE Steps(f) == f = [n \in 0 .. Len(codes) |-> IF n = 0 THEN attr ELSE ApplyCode(f[n - 1], codes[n])]
<1>8. Steps(g)
  BY <1>7
<1>9. PICK w : w = CHOOSE f : Steps(f)
  OBVIOUS
<1>10. Applied(attr, codes) = w[Len(codes)]
  BY <1>9 DEF Applied
<1>11. Steps(w)
  <2> HIDE DEF Steps
  <2> QED
    BY ONLY <1>8, <1>9
<1>12. /\ DOMAIN w = 0 .. Len(codes) /\ w = [n \in 0 .. Len(codes) |-> w[n]]
       /\ \A n \in 0 .. Len(codes) : w[n] = IF n = 0 THEN attr ELSE ApplyCode(w[n - 1], codes[n])
  BY ONLY <1>11
<1>13. w[0] = attr /\ \A n \in 1 .. Len(codes) : w[n] = ApplyCode(w[n - 1], codes[n])
  <2>1. 0 \in 0 .. Len(codes) /\ \A n \in 1 .. Len(codes) : n \in 0 .. Len(codes) /\ n # 0
    BY ONLY Len(codes) \in Nat
  <2> QED
    BY ONLY <1>12, <2>1
<1>14. \A n \in 0 .. Len(codes) : w[n] \in Shaped
  <2> DEFINE N == {n \in 0 .. Len(codes) : w[n] \in Shaped}
  <2>1. 0 \in N
    BY ONLY <1>13, Len(codes) \in Nat, attr \in Shaped
  <2>2. ASSUME NEW n \in 0 .. Len(codes) - 1, n \in N PROVE n + 1 \in N
    <3>1. n + 1 \in 1 .. Len(codes) /\ n + 1 \in 0 .. Len(codes) /\ (n + 1) - 1 = n
      BY ONLY Len(codes) \in Nat, n \in 0 .. Len(codes) - 1
    <3>2. w[n + 1] = ApplyCode(w[n], codes[n + 1])
      BY ONLY <1>13, <3>1
    <3>3. w[n] \in Shaped
      BY <2>2
    <3> QED
      BY ONLY <1>1, <3>1, <3>2, <3>3
  <2>3. \A n \in 0 .. Len(codes) : n \in N
    <3>1. Len(codes) \in Nat /\ 0 \in N /\ \A n \in 0 .. Len(codes) - 1 : n \in N => n + 1 \in N
      BY ONLY <2>1, <2>2, Len(codes) \in Nat
    <3> HIDE DEF N
    <3> QED
      BY ONLY <3>1, SetInduction
  <2> QED
    BY <2>3
<1>15. w \in [0 .. Len(codes) -> Shaped]
  BY ONLY <1>12, <1>14
<1> QED
  BY ONLY <1>10, <1>13, <1>15

\* The codes one at a time, step by step.
LEMMA OneByOneSteps ==
  ASSUME NEW attr, attr \in (SUBSET Bits), NEW codes, Len(codes) \in Nat
  PROVE  \E w : /\ w \in [0 .. Len(codes) -> (SUBSET Bits)] /\ w[0] = attr
                /\ \A n \in 1 .. Len(codes) : w[n] = convertWinAttr(ApplyCode(convertTextAttr(w[n - 1]), codes[n]))
                /\ OneByOne(attr, codes) = w[Len(codes)]
<1>1. \A n \in 1 .. Len(codes), v \in (SUBSET Bits) : convertWinAttr(ApplyCode(convertTextAttr(v), codes[n])) \in (SUBSET Bits)
  BY CodeKeeps, Converted
<1> DEFINE F == [n \in 1 .. Len(codes) |-> [v \in (SUBSET Bits) |-> convertWinAttr(ApplyCode(convertTextAttr(v), codes[n]))]]
<1>4. F \in [1 .. Len(codes) -> [(SUBSET Bits) -> (SUBSET Bits)]]
  BY ONLY <1>1
<1>5. PICK g : g \in [0 .. Len(codes) -> (SUBSET Bits)] /\ StepsOf(g, Len(codes), attr, F)
  <2>1. Len(codes) \in Nat /\ attr \in (SUBSET Bits)
    OBVIOUS
  <2> HIDE DEF F
  <2> QED
    BY ONLY <1>4, <2>1, RecursionExists
<1>6. ASSUME NEW n \in 1 .. Len(codes) PROVE g[n] = convertWinAttr(ApplyCode(convertTextAttr(g[n - 1]), codes[n]))
  <2>1. n - 1 \in 0 .. Len(codes)
    BY ONLY Len(codes) \in Nat, n \in 1 .. Len(codes)
  <2>2. g[n - 1] \in (SUBSET Bits)
    BY ONLY <1>5, <2>1
  <2>3. g[n] = F[n][g[n - 1]]
    BY <1>5 DEF StepsOf
  <2> QED
    BY ONLY <2>2, <2>3, n \in 1 .. Len(codes)
<1>7. g = [n \in 0 .. Len(codes) |-> IF n = 0 THEN attr ELSE convertWinAttr(ApplyCode(convertTextAttr(g[n - 1]), codes[n]))]
  <2>1. \A n \in 0 .. Len(codes) : n = 0 \/ n \in 1 .. Len(codes)
    BY ONLY Len(codes) \in Nat
  <2>2. g[0] = attr
    BY <1>5 DEF StepsOf
  <2>3. \A n \in 0 .. Len(codes) : g[n] = IF n = 0 THEN attr ELSE convertWinAttr(ApplyCode(convertTextAttr(g[n - 1]), codes[n]))
    BY ONLY <1>6, <2>1, <2>2
  <2> QED
    BY ONLY <1>5, <2>3
<1> DEFINE Steps(f) == f = [n \in 0 .. Len(codes) |-> IF n = 0 THEN attr ELSE convertWinAttr(ApplyCode(convertTextAttr(f[n - 1]), codes[n]))]
<1>8. Steps(g)
  BY <1>7
<1>9. PICK w : w = CHOOSE f : Steps(f)
  OBVIOUS
<1>10. OneByOne(attr, codes) = w[Len(codes)]
  BY <1>9 DEF OneByOne
<1>11. Steps(w)
  <2> HIDE DEF Steps
  <2> QED
    BY ONLY <1>8, <1>9
<1>12. /\ DOMAIN w = 0 .. Len(codes) /\ w = [n \in 0 .. Len(codes) |-> w[n]]
       /\ \A n \in 0 .. Len(codes) : w[n] = IF n = 0 THEN attr ELSE convertWinAttr(ApplyCode(convertTextAttr(w[n - 1]), codes[n]))
  BY ONLY <1>11
<1>13. w[0] = attr /\ \A n \in 1 .. Len(codes) : w[n] = convertWinAttr(ApplyCode(convertTextAttr(w[n - 1]), codes[n]))
  <2>1. 0 \in 0 .. Len(codes) /\ \A n \in 1 .. Len(codes) : n \in 0 .. Len(codes) /\ n # 0
    BY ONLY Len(codes) \in Nat
  <2> QED
    BY ONLY <1>12, <2>1
<1>14. \A n \in 0 .. Len(codes) : w[n] \in (SUBSET Bits)
  <2> DEFINE N == {n \in 0 .. Len(codes) : w[n] \in (SUBSET Bits)}
  <2>1. 0 \in N
    BY ONLY <1>13, Len(codes) \in Nat, attr \in (SUBSET Bits)
  <2>2. ASSUME NEW n \in 0 .. Len(codes) - 1, n \in N PROVE n + 1 \in N
    <3>1. n + 1 \in 1 .. Len(codes) /\ n + 1 \in 0 .. Len(codes) /\ (n + 1) - 1 = n
      BY ONLY Len(codes) \in Nat, n \in 0 .. Len(codes) - 1
    <3>2. w[n + 1] = convertWinAttr(ApplyCode(convertTextAttr(w[n]), codes[n + 1]))
      BY ONLY <1>13, <3>1
    <3>3. w[n] \in (SUBSET Bits)
      BY <2>2
    <3> QED
      BY ONLY <1>1, <3>1, <3>2, <3>3
  <2>3. \A n \in 0 .. Len(codes) : n \in N
    <3>1. Len(codes) \in Nat /\ 0 \in N /\ \A n \in 0 .. Len(codes) - 1 : n \in N => n + 1 \in N
      BY ONLY <2>1, <2>2, Len(codes) \in Nat
    <3> HIDE DEF N
    <3> QED
      BY ONLY <3>1, SetInduction
  <2> QED
    BY <2>3
<1>15. w \in [0 .. Len(codes) -> (SUBSET Bits)]
  BY ONLY <1>12, <1>14
<1> QED
  BY ONLY <1>10, <1>13, <1>15

\* Without light colors the codes do together what they do one at a time.
LEMMA SameColors ==
  ASSUME NEW attr \in SUBSET Bits, NEW codes, Len(codes) \in Nat, DOMAIN codes = 1 .. Len(codes)
  PROVE  /\ convertWinAttr(Applied(convertTextAttr(attr), codes)) = separately(attr, codes)
         /\ convertWinAttr(Applied(convertTextAttr(attr), codes)) \subseteq Bits
<1>1. convertTextAttr(attr) \in Plain /\ convertTextAttr(attr) \in Shaped
  BY Converted
<1>2. PICK w : /\ w \in [0 .. Len(codes) -> Shaped] /\ w[0] = convertTextAttr(attr)
               /\ \A n \in 1 .. Len(codes) : w[n] = ApplyCode(w[n - 1], codes[n])
               /\ Applied(convertTextAttr(attr), codes) = w[Len(codes)]
  BY ONLY <1>1, AppliedSteps, Len(codes) \in Nat
<1>3. PICK a : /\ a \in [0 .. Len(codes) -> SUBSET Bits] /\ a[0] = attr
               /\ \A n \in 1 .. Len(codes) :
                      a[n] = convertWinAttr(ApplyCode(convertTextAttr(a[n - 1]), codes[n]))
               /\ OneByOne(attr, codes) = a[Len(codes)]
  BY ONLY OneByOneSteps, attr \in SUBSET Bits, Len(codes) \in Nat
<1>4. separately(attr, codes) = IF \E i \in DOMAIN codes : light(codes[i])
                                THEN convertWinAttr(Applied(convertTextAttr(attr), codes))
                                ELSE OneByOne(attr, codes)
  BY DEF separately, OneByOne
<1>5. Len(codes) \in 0 .. Len(codes)
  BY ONLY Len(codes) \in Nat
<1>6. convertWinAttr(w[Len(codes)]) \subseteq Bits
  BY ONLY <1>2, <1>5, Converted
<1>7. ASSUME \A i \in 1 .. Len(codes) : ~light(codes[i])
      PROVE  convertWinAttr(w[Len(codes)]) = a[Len(codes)]
  <2> DEFINE N == {n \in 0 .. Len(codes) : w[n] \in Plain /\ a[n] = convertWinAttr(w[n])}
  <2>1. 0 \in N
    <3>1. 0 \in 0 .. Len(codes)
      BY ONLY Len(codes) \in Nat
    <3>2. a[0] = convertWinAttr(w[0])
      BY ONLY <1>2, <1>3, Converted, attr \in SUBSET Bits
    <3> QED
      BY ONLY <1>1, <1>2, <3>1, <3>2
  <2>2. ASSUME NEW n \in 0 .. Len(codes) - 1, n \in N PROVE n + 1 \in N
    <3>1. n + 1 \in 1 .. Len(codes) /\ n + 1 \in 0 .. Len(codes) /\ (n + 1) - 1 = n
      BY ONLY Len(codes) \in Nat, n \in 0 .. Len(codes) - 1
    <3>2. /\ w[n + 1] = ApplyCode(w[n], codes[n + 1])
          /\ a[n + 1] = convertWinAttr(ApplyCode(convertTextAttr(a[n]), codes[n + 1]))
      BY ONLY <1>2, <1>3, <3>1
    <3>3. w[n] \in Plain /\ a[n] = convertWinAttr(w[n])
      BY <2>2
    <3>4. convertTextAttr(a[n]) = w[n]
      BY ONLY <3>3, Converted
    <3>5. w[n + 1] \in Plain
      BY ONLY <1>7, <3>1, <3>2, <3>3, CodeKeeps
    <3> QED
      BY ONLY <3>1, <3>2, <3>4, <3>5
  <2>3. \A n \in 0 .. Len(codes) : n \in N
    <3>1. Len(codes) \in Nat /\ 0 \in N /\ \A n \in 0 .. Len(codes) - 1 : n \in N => n + 1 \in N
      BY ONLY <2>1, <2>2, Len(codes) \in Nat
    <3> HIDE DEF N
    <3> QED
      BY ONLY <3>1, SetInduction
  <2> QED
    BY <1>5, <2>3
<1> QED
  BY ONLY <1>2, <1>3, <1>4, <1>6, <1>7, DOMAIN codes = 1 .. Len(codes)

\* A sequence does with the attributes what its codes do one at a time, or
\* together where they have light colors.
LEMMA ColorChanged ==
  ASSUME NEW attr \in SUBSET Bits, NEW param \in Seq(Bytes)
  PROVE  /\ changeColor(attr, param) = separately(attr, Codes(param))
         /\ changeColor(attr, param) \subseteq Bits
<1>1. PICK codes : codes = Codes(param)
  OBVIOUS
<1>2. Len(codes) \in Nat /\ DOMAIN codes = 1 .. Len(codes)
  <2>1. CASE param = <<>>
    <3>1. codes = <<0>>
      BY <1>1, <2>1 DEF Codes
    <3> QED
      BY ONLY <3>1
  <2>2. CASE param # <<>>
    <3> DEFINE A(i) == /\ i = 1 \/ param[i - 1] = separatorChar
                       /\ i = Len(param) \/ param[i + 1] = separatorChar
    <3>1. codes = [i \in DOMAIN param |-> IF A(i) THEN param[i] ELSE separatorChar]
      BY <1>1, <2>2 DEF Codes
    <3>2. Len(param) \in Nat /\ DOMAIN param = 1 .. Len(param)
      OBVIOUS
    <3> HIDE DEF A
    <3>3. PICK n : n = Len(param)
      OBVIOUS
    <3>4. codes = [i \in 1 .. n |-> IF A(i) THEN param[i] ELSE separatorChar] /\ n \in Nat
      BY ONLY <3>1, <3>2, <3>3
    <3>5. codes \in [1 .. n -> {IF A(i) THEN param[i] ELSE separatorChar : i \in 1 .. n}]
      BY ONLY <3>4
    <3>6. PICK S : S = {IF A(i) THEN param[i] ELSE separatorChar : i \in 1 .. n}
      OBVIOUS
    <3>7. codes \in Seq(S)
      BY ONLY <3>4, <3>5, <3>6
    <3> QED
      BY ONLY <3>7
  <2> QED
    BY ONLY <2>1, <2>2
<1>3. changeColor(attr, param) = convertWinAttr(Applied(convertTextAttr(attr), codes))
  BY <1>1 DEF changeColor
<1> QED
  BY ONLY <1>1, <1>2, <1>3, SameColors, attr \in SUBSET Bits


-----------------------------------------------------------------------------
(* The writer: the invariant.                                               *)

\* The bytes of Writes.
ByteText == Seq(Bytes)

WriteCalls == [pc : {"idle", "loop", "panicked"}, p : ByteText, last : Int, text : Nat, afterEsc : BOOLEAN]
Meanings == [seq : ByteText, attr : SUBSET Bits, shown : ByteText, wrote : ByteText, owed : Int,
             odd : BOOLEAN, failed : BOOLEAN]

ColorTypes ==
    /\ mode \in {"Discard", "Output"}
    /\ WAttributes \subseteq Bits
    /\ state \in {"outside", "first", "second"}
    /\ paramStartBuf \in ByteText /\ paramBuf \in ByteText
    /\ call \in WriteCalls
    /\ meant \in Meanings

\* What the buffers hold, after a failed write too.
BufferStages ==
    /\ state = "outside" => paramStartBuf = <<>>
    /\ state # "second" => paramBuf = <<>>
    /\ call.last <= Len(call.p)
    /\ call.pc = "idle" => call = Idle
    /\ call.pc = "loop" /\ mode = "Output" => ~call.afterEsc
    /\ call.pc = "loop" /\ state = "first" /\ call.p = <<>> => call.afterEsc
    /\ call.last < 0 => call.afterEsc

\* Where the console does not fail, the attributes are right and the buffers hold
\* the sequence that has begun.  Write forgets it, in the mode that outputs it.
Begun ==
    /\ state = "outside" => seq = <<>>
    /\ state = "first" => seq = <<firstCsiChar>> /\ (~meant.odd => paramStartBuf = <<firstCsiChar>>)
    /\ state = "second" => /\ seq = <<firstCsiChar, secondeCsiChar>> \o paramBuf
                           /\ ~meant.odd => paramStartBuf = <<firstCsiChar, secondeCsiChar>>
Sequence ==
    ~meant.failed =>
        /\ WAttributes = meant.attr
        /\ call.pc # "idle" \/ mode = "Discard" => Begun
        /\ call.pc = "idle" /\ mode = "Output" => seq = <<>>

\* In a Write: the text that waits for the end of a sequence, and what follows it.
Pending ==
    /\ call.text <= Len(call.p)
    /\ meant.shown = meant.wrote \o SubSeq(call.p, 1, call.text)
    /\ meant.owed = call.text + Len(seq)
    /\ mode = "Output" => call.p = SubSeq(call.p, 1, call.text) \o seq
    /\ state = "outside" => Len(call.p) = call.text
    /\ state = "first" => Len(call.p) = call.text + 1 \/ call.p = <<>>
    /\ state = "second" => call.last = call.text \/ (call.last < 0 /\ call.text = 0)
Loop == call.pc = "loop" /\ ~meant.failed /\ ~meant.odd => Pending

C_Inv == ColorTypes /\ BufferStages /\ Sequence /\ Loop /\ ColorInv

\* The bytes are told apart.
LEMMA BytesDiffer ==
  /\ firstCsiChar \in Bytes /\ secondeCsiChar \in Bytes /\ sgrCode \in Bytes
  /\ firstCsiChar # secondeCsiChar
  /\ ~isParameterChar(firstCsiChar) /\ ~isParameterChar(secondeCsiChar) /\ ~isParameterChar(sgrCode)
<1>1. \A b \in Params : b \in Nat
  BY ColorConstants
<1> QED
  BY <1>1 DEF Bytes, firstCsiChar, secondeCsiChar, separatorChar, sgrCode, otherChar, isParameterChar

\* Sequences of bytes: what the steps below do with them.
LEMMA Texts ==
  /\ <<>> \in ByteText
  /\ \A ch \in Bytes : <<ch>> \in ByteText
  /\ \A s \in ByteText, ch \in Bytes : Append(s, ch) \in ByteText /\ Len(Append(s, ch)) = Len(s) + 1
  /\ \A s, t \in ByteText : s \o t \in ByteText /\ Len(s \o t) = Len(s) + Len(t)
  /\ \A s \in ByteText : s \o <<>> = s /\ <<>> \o s = s /\ Len(s) \in Nat /\ (Len(s) = 0 <=> s = <<>>)
  /\ \A s, t \in ByteText, ch \in Bytes : s \o Append(t, ch) = Append(s \o t, ch)
  /\ \A s \in ByteText, ch \in Bytes : s \o <<ch>> = Append(s, ch)
  /\ \A r, s, t \in ByteText : (r \o s) \o t = r \o (s \o t)
<1>1. <<>> \in ByteText /\ \A ch \in Bytes : <<ch>> \in ByteText
  BY DEF ByteText
<1>2. \A s \in ByteText, ch \in Bytes : Append(s, ch) \in ByteText /\ Len(Append(s, ch)) = Len(s) + 1
  BY DEF ByteText
<1>3. \A s, t \in ByteText : s \o t \in ByteText /\ Len(s \o t) = Len(s) + Len(t)
  BY DEF ByteText
<1>4. \A s \in ByteText : s \o <<>> = s /\ <<>> \o s = s /\ Len(s) \in Nat /\ (Len(s) = 0 <=> s = <<>>)
  BY DEF ByteText
<1>5. \A s, t \in ByteText, ch \in Bytes : s \o Append(t, ch) = Append(s \o t, ch)
  BY DEF ByteText
<1>6. \A s \in ByteText, ch \in Bytes : s \o <<ch>> = Append(s, ch)
  BY DEF ByteText
<1>7. \A r, s, t \in ByteText : (r \o s) \o t = r \o (s \o t)
  BY DEF ByteText
<1> QED
  BY ONLY <1>1, <1>2, <1>3, <1>4, <1>5, <1>6, <1>7

\* Appending to the last of two texts.
LEMMA AppendLast ==
  ASSUME NEW s, NEW t, NEW b, s \in ByteText, t \in ByteText, b \in Bytes
  PROVE  s \o Append(t, b) = Append(s \o t, b)
  BY Texts

\* Three texts in a row.
LEMMA ThreeTexts ==
  ASSUME NEW r, NEW s, NEW t, r \in ByteText, s \in ByteText, t \in ByteText
  PROVE  (r \o s) \o t = r \o (s \o t)
  BY Texts

\* The beginning of a text is that of a longer one.
LEMMA Beginnings ==
  /\ \A s \in ByteText, n \in Nat : n <= Len(s) => SubSeq(s, 1, n) \in ByteText /\ Len(SubSeq(s, 1, n)) = n
  /\ \A s \in ByteText : SubSeq(s, 1, Len(s)) = s /\ SubSeq(s, 1, 0) = <<>>
  /\ \A s \in ByteText, ch \in Bytes, n \in Nat : n <= Len(s) => SubSeq(Append(s, ch), 1, n) = SubSeq(s, 1, n)
<1>1. \A s \in ByteText, n \in Nat : n <= Len(s) => SubSeq(s, 1, n) \in ByteText /\ Len(SubSeq(s, 1, n)) = n
  BY DEF ByteText
<1>2. \A s \in ByteText : SubSeq(s, 1, Len(s)) = s /\ SubSeq(s, 1, 0) = <<>>
  BY DEF ByteText
<1>3. \A s \in ByteText, ch \in Bytes, n \in Nat : n <= Len(s) => SubSeq(Append(s, ch), 1, n) = SubSeq(s, 1, n)
  BY DEF ByteText
<1> QED
  BY ONLY <1>1, <1>2, <1>3

\* Comparing forgets what agrees, and everything where nothing is compared.
LEMMA Compared ==
  ASSUME NEW m \in Meanings
  PROVE  /\ Compare(m) \in Meanings
         /\ Compare(m).seq = m.seq /\ Compare(m).attr = m.attr /\ Compare(m).odd = m.odd
         /\ Compare(m).failed = m.failed
         /\ ~m.odd /\ ~m.failed =>
                /\ Compare(m).owed = m.owed
                /\ \A x \in ByteText : m.shown = m.wrote \o x => Compare(m).shown = Compare(m).wrote \o x
<1>1. /\ m.seq \in ByteText /\ m.attr \in SUBSET Bits /\ m.shown \in ByteText /\ m.wrote \in ByteText
      /\ m.owed \in Int /\ m.odd \in BOOLEAN /\ m.failed \in BOOLEAN
  BY DEF Meanings
<1>2. CASE m.odd \/ m.failed
  <2>1. Compare(m) = [m EXCEPT !.wrote = <<>>, !.shown = <<>>, !.owed = 0]
    BY <1>2 DEF Compare
  <2>2. Compare(m) \in Meanings
    <3>1. <<>> \in ByteText /\ 0 \in Int
      BY Texts
    <3> QED
      BY ONLY <2>1, <3>1, m \in Meanings DEF Meanings
  <2>3. /\ Compare(m).seq = m.seq /\ Compare(m).attr = m.attr /\ Compare(m).odd = m.odd
        /\ Compare(m).failed = m.failed
    BY ONLY <2>1, m \in Meanings DEF Meanings
  <2> QED
    BY ONLY <1>2, <2>2, <2>3
<1>3. CASE ~(m.odd \/ m.failed) /\ m.wrote = m.shown
  <2>1. Compare(m) = [m EXCEPT !.wrote = <<>>, !.shown = <<>>]
    BY <1>3 DEF Compare
  <2>2. Compare(m) \in Meanings
    BY ONLY <2>1, Texts, m \in Meanings DEF Meanings
  <2>3. ASSUME NEW x \in ByteText, m.shown = m.wrote \o x PROVE x = <<>>
    <3>1. Len(m.shown) = Len(m.wrote) + Len(x)
      BY ONLY <1>1, <2>3, Texts
    <3>2. Len(m.shown) = Len(m.wrote) /\ Len(m.wrote) \in Nat /\ Len(x) \in Nat
      BY ONLY <1>1, <1>3, Texts, x \in ByteText
    <3>3. Len(x) = 0
      BY ONLY <3>1, <3>2
    <3> QED
      BY ONLY <3>3, Texts, x \in ByteText
  <2>4. \A x \in ByteText : m.shown = m.wrote \o x => Compare(m).shown = Compare(m).wrote \o x
    <3>1. Compare(m).shown = <<>> /\ Compare(m).wrote = <<>>
      BY ONLY <2>1, m \in Meanings DEF Meanings
    <3> QED
      BY ONLY <2>3, <3>1, Texts
  <2> QED
    BY ONLY <2>1, <2>2, <2>4, m \in Meanings DEF Meanings
<1>4. CASE ~(m.odd \/ m.failed) /\ m.wrote # m.shown
  <2>1. Compare(m) = m
    BY <1>4 DEF Compare
  <2> QED
    BY ONLY <2>1, m \in Meanings
<1> QED
  BY ONLY <1>2, <1>3, <1>4

-----------------------------------------------------------------------------
(* The writer: a byte.                                                      *)

\* A sequence of two.
LEMMA TwoBytes ==
  ASSUME NEW S, NEW b \in S, NEW c \in S
  PROVE  Append(<<b>>, c) = <<b, c>>
<1>1. <<b>> \in Seq(S) /\ Len(<<b>>) = 1
  OBVIOUS
<1>2. Append(<<b>>, c) \in Seq(S)
  OBVIOUS
<1>3. Len(Append(<<b>>, c)) = 2
  BY <1>1
<1>4. Append(<<b>>, c)[1] = b /\ Append(<<b>>, c)[2] = c
  BY <1>1, AppendProperties
<1>5. PICK u : u = Append(<<b>>, c)
  OBVIOUS
<1>6. u \in Seq(S) /\ Len(u) = 2 /\ u[1] = b /\ u[2] = c
  BY ONLY <1>2, <1>3, <1>4, <1>5
<1>7. u = <<b, c>>
  BY ONLY <1>6
<1> QED
  BY ONLY <1>5, <1>7

\* What a byte makes of the sequence that has begun, and what it shows.
LEMMA NextBytes ==
  ASSUME seq \in ByteText, NEW ch \in Bytes
  PROVE  /\ seqAfter(ch) \in ByteText /\ visible(ch) \in ByteText
         /\ seq = <<>> /\ ch = firstCsiChar => seqAfter(ch) = <<firstCsiChar>> /\ visible(ch) = <<>>
         /\ seq = <<>> /\ ch # firstCsiChar => seqAfter(ch) = <<>> /\ visible(ch) = <<ch>>
         /\ seq = <<firstCsiChar>> /\ ch = firstCsiChar => seqAfter(ch) = <<firstCsiChar>>
         /\ seq = <<firstCsiChar>> /\ ch = secondeCsiChar =>
                seqAfter(ch) = <<firstCsiChar, secondeCsiChar>> /\ visible(ch) = <<>>
         /\ seq = <<firstCsiChar>> /\ ch # firstCsiChar /\ ch # secondeCsiChar => seqAfter(ch) = <<>>
         /\ Len(seq) >= 2 /\ isParameterChar(ch) => seqAfter(ch) = Append(seq, ch) /\ visible(ch) = <<>>
         /\ Len(seq) >= 2 /\ ~isParameterChar(ch) =>
                seqAfter(ch) = <<>> /\ visible(ch) = IF PassedOn(ch) THEN Append(seq, ch) ELSE <<>>
<1>1. PICK s : s = seq
  OBVIOUS
<1>2. /\ s \in ByteText /\ Len(s) \in Nat /\ <<>> \in ByteText /\ <<ch>> \in ByteText
      /\ Append(s, ch) \in ByteText
  BY ONLY <1>1, Texts, seq \in ByteText, ch \in Bytes
<1>3. /\ ch = firstCsiChar /\ Len(s) <= 1 => seqAfter(ch) = <<ch>>
      /\ Len(s) = 1 /\ ch = secondeCsiChar => seqAfter(ch) = Append(s, ch)
      /\ Len(s) >= 2 /\ isParameterChar(ch) => seqAfter(ch) = Append(s, ch)
      /\ (/\ ~(ch = firstCsiChar /\ Len(s) <= 1) /\ ~(Len(s) = 1 /\ ch = secondeCsiChar)
          /\ ~(Len(s) >= 2 /\ isParameterChar(ch))) => seqAfter(ch) = <<>>
  BY <1>1, <1>2, BytesDiffer DEF seqAfter
<1>4. /\ Len(s) >= 2 => visible(ch) = IF ~isParameterChar(ch) /\ PassedOn(ch) THEN Append(s, ch) ELSE <<>>
      /\ ~(Len(s) >= 2) /\ seqAfter(ch) = <<ch>> => visible(ch) = s
      /\ ~(Len(s) >= 2) /\ seqAfter(ch) = <<>> => visible(ch) = Append(s, ch)
      /\ ~(Len(s) >= 2) /\ seqAfter(ch) # <<ch>> /\ seqAfter(ch) # <<>> => visible(ch) = <<>>
  <2>1. <<ch>> # <<>>
    OBVIOUS
  <2>2. PICK z : z = seqAfter(ch)
    OBVIOUS
  <2> QED
    BY ONLY <1>1, <2>1, <2>2 DEF visible
<1>5. seqAfter(ch) \in ByteText
  BY ONLY <1>2, <1>3
<1>6. visible(ch) \in ByteText
  BY ONLY <1>2, <1>4
<1>7. CASE s = <<>>
  <2>1. Len(s) = 0 /\ Append(s, ch) = <<ch>>
    BY ONLY <1>7
  <2>2. <<ch>> # <<>>
    OBVIOUS
  <2>3. ch = firstCsiChar => seqAfter(ch) = <<ch>> /\ visible(ch) = <<>>
    BY ONLY <1>3, <1>4, <1>7, <2>1
  <2>4. ch # firstCsiChar => seqAfter(ch) = <<>>
    BY ONLY <1>3, <2>1
  <2>5. ch # firstCsiChar => visible(ch) = <<ch>>
    BY ONLY <1>4, <2>1, <2>2, <2>4
  <2>6. s # <<firstCsiChar>>
    BY ONLY <1>7
  <2> QED
    BY ONLY <1>1, <1>5, <1>6, <2>1, <2>3, <2>4, <2>5, <2>6
<1>8. CASE s = <<firstCsiChar>>
  <2>1. Len(s) = 1 /\ Append(s, ch) = <<firstCsiChar, ch>> /\ s # <<>>
    <3>1. PICK b : b = firstCsiChar
      OBVIOUS
    <3>2. Len(<<b>>) = 1 /\ <<b>> # <<>>
      OBVIOUS
    <3>3. b \in Bytes
      BY ONLY <3>1, BytesDiffer
    <3>4. Append(<<b>>, ch) = <<b, ch>>
      BY ONLY <3>3, TwoBytes, ch \in Bytes
    <3> QED
      BY ONLY <1>8, <3>1, <3>2, <3>4
  <2>2. <<firstCsiChar, ch>> # <<ch>> /\ <<firstCsiChar, ch>> # <<>>
    OBVIOUS
  <2>3. ch = firstCsiChar => seqAfter(ch) = <<firstCsiChar>>
    BY ONLY <1>3, <2>1
  <2>4. ch = secondeCsiChar => seqAfter(ch) = <<firstCsiChar, ch>>
    BY ONLY <1>3, <2>1, BytesDiffer
  <2>5. ch = secondeCsiChar => visible(ch) = <<>>
    BY ONLY <1>4, <2>1, <2>2, <2>4
  <2>6. ch # firstCsiChar /\ ch # secondeCsiChar => seqAfter(ch) = <<>>
    BY ONLY <1>3, <2>1
  <2> QED
    BY ONLY <1>1, <1>5, <1>6, <2>1, <2>3, <2>4, <2>5, <2>6
<1>9. CASE Len(s) >= 2
  <2>1. s # <<>> /\ s # <<firstCsiChar>> /\ ~(Len(s) <= 1) /\ Len(s) # 1
    <3>1. Len(<<>>) = 0 /\ Len(<<firstCsiChar>>) = 1
      OBVIOUS
    <3>2. ~(Len(s) <= 1) /\ Len(s) # 1 /\ Len(s) # 0
      <4>1. PICK k : k = Len(s)
        OBVIOUS
      <4>2. k \in Nat /\ k >= 2
        BY ONLY <1>2, <1>9, <4>1
      <4>3. ~(k <= 1) /\ k # 1 /\ k # 0
        BY ONLY <4>2
      <4> QED
        BY ONLY <4>1, <4>3
    <3> QED
      BY ONLY <3>1, <3>2
  <2>2. isParameterChar(ch) => seqAfter(ch) = Append(s, ch) /\ visible(ch) = <<>>
    BY ONLY <1>3, <1>4, <1>9, <2>1
  <2>3. ~isParameterChar(ch) => /\ seqAfter(ch) = <<>>
                                /\ visible(ch) = IF PassedOn(ch) THEN Append(s, ch) ELSE <<>>
    BY ONLY <1>3, <1>4, <1>9, <2>1
  <2> QED
    BY ONLY <1>1, <1>5, <1>6, <2>1, <2>2, <2>3
<1> QED
  BY ONLY <1>1, <1>5, <1>6, <1>7, <1>8, <1>9

\* What is meant after a byte.
LEMMA Meant ==
  ASSUME meant \in Meanings, mode \in {"Discard", "Output"}, NEW ch \in Bytes, NEW out \in ByteText,
         NEW n \in Int, Means(ch, out, n)
  PROVE  /\ meant' \in Meanings
         /\ meant'.failed = meant.failed
         /\ ~meant.failed =>
                /\ meant'.seq = seqAfter(ch)
                /\ meant'.attr = IF Len(seq) >= 2 /\ ch = sgrCode /\ ~PassedOn(ch)
                                 THEN separately(meant.attr, Codes(SubSeq(seq, 3, Len(seq)))) ELSE meant.attr
                /\ meant'.odd = (meant.odd \/ (Len(seq) = 1 /\ ch # secondeCsiChar))
                /\ ~meant'.odd =>
                       /\ meant'.owed = meant.owed + 1 - n
                       /\ \A x \in ByteText : meant.shown \o visible(ch) = (meant.wrote \o out) \o x =>
                              meant'.shown = meant'.wrote \o x
<1>1. /\ meant.seq \in ByteText /\ meant.attr \in SUBSET Bits /\ meant.shown \in ByteText
      /\ meant.wrote \in ByteText /\ meant.owed \in Int /\ meant.odd \in BOOLEAN /\ meant.failed \in BOOLEAN
  BY DEF Meanings
<1>2. CASE meant.failed
  <2>1. meant' = meant
    BY <1>2 DEF Means
  <2> QED
    BY ONLY <1>2, <2>1, meant \in Meanings
<1>3. CASE ~meant.failed
  <2>1. PICK s, a, v : /\ s = seqAfter(ch)
                       /\ a = IF Len(seq) >= 2 /\ ch = sgrCode /\ ~PassedOn(ch)
                              THEN separately(meant.attr, Codes(SubSeq(seq, 3, Len(seq)))) ELSE meant.attr
                       /\ v = visible(ch)
    OBVIOUS
  <2>2. PICK m : m = [meant EXCEPT
        !.seq = seqAfter(ch),
        !.attr = IF Len(seq) >= 2 /\ ch = sgrCode /\ ~PassedOn(ch)
                 THEN separately(@, Codes(SubSeq(seq, 3, Len(seq)))) ELSE @,
        !.shown = @ \o visible(ch),
        !.wrote = @ \o out,
        !.owed = @ + 1 - n,
        !.odd = @ \/ (Len(seq) = 1 /\ ch # secondeCsiChar)]
    OBVIOUS
  <2>3. meant' = Compare(m)
    BY ONLY <1>3, <2>2, Means(ch, out, n) DEF Means
  <2>4. seq \in ByteText
    BY <1>1 DEF seq
  <2>5. s \in ByteText /\ v \in ByteText
    BY ONLY <2>1, <2>4, NextBytes, ch \in Bytes
  <2>6. a \in SUBSET Bits
    <3>1. CASE Len(seq) >= 2 /\ ch = sgrCode /\ ~PassedOn(ch)
      <4>1. SubSeq(seq, 3, Len(seq)) \in Seq(Bytes)
        BY <2>4 DEF ByteText
      <4>2. changeColor(meant.attr, SubSeq(seq, 3, Len(seq))) = separately(meant.attr, Codes(SubSeq(seq, 3, Len(seq))))
        BY ONLY <1>1, <4>1, ColorChanged
      <4>3. changeColor(meant.attr, SubSeq(seq, 3, Len(seq))) \subseteq Bits
        BY ONLY <1>1, <4>1, ColorChanged
      <4> QED
        BY ONLY <2>1, <3>1, <4>2, <4>3
    <3>2. CASE ~(Len(seq) >= 2 /\ ch = sgrCode /\ ~PassedOn(ch))
      BY ONLY <1>1, <2>1, <3>2
    <3> QED
      BY ONLY <3>1, <3>2
  <2>8. meant.shown \o v \in ByteText /\ meant.wrote \o out \in ByteText /\ meant.owed + 1 - n \in Int
    <3>1. meant.shown \o v \in ByteText /\ meant.wrote \o out \in ByteText
      BY ONLY <1>1, <2>5, Texts, out \in ByteText
    <3>2. PICK k : k = meant.owed
      OBVIOUS
    <3>3. k \in Int
      BY ONLY <1>1, <3>2
    <3>4. k + 1 - n \in Int
      BY ONLY <3>3, n \in Int
    <3> QED
      BY ONLY <3>1, <3>2, <3>4
  <2>10. /\ m.seq = s /\ m.attr = a /\ m.shown = meant.shown \o v /\ m.wrote = meant.wrote \o out
         /\ m.owed = meant.owed + 1 - n /\ m.failed = meant.failed
         /\ m.odd = (meant.odd \/ (Len(seq) = 1 /\ ch # secondeCsiChar))
    BY ONLY <2>1, <2>2, meant \in Meanings DEF Meanings
  <2>9. m \in Meanings
    <3>1. m.odd \in BOOLEAN
      BY ONLY <2>10
    <3>2. m = [meant EXCEPT !.seq = m.seq, !.attr = m.attr, !.shown = m.shown, !.wrote = m.wrote,
                            !.owed = m.owed, !.odd = m.odd]
      BY ONLY <2>2, meant \in Meanings DEF Meanings
    <3> QED
      BY ONLY <1>1, <2>5, <2>6, <2>8, <2>10, <3>1, <3>2, meant \in Meanings DEF Meanings
  <2>11. /\ Compare(m) \in Meanings
         /\ Compare(m).seq = m.seq /\ Compare(m).attr = m.attr /\ Compare(m).odd = m.odd
         /\ Compare(m).failed = m.failed
         /\ ~m.odd /\ ~m.failed =>
                /\ Compare(m).owed = m.owed
                /\ \A x \in ByteText : m.shown = m.wrote \o x => Compare(m).shown = Compare(m).wrote \o x
    BY ONLY <2>9, Compared
  <2> QED
    BY ONLY <1>3, <2>1, <2>3, <2>10, <2>11
<1> QED
  BY ONLY <1>1, <1>2, <1>3

\* The writer and its call after a byte that ends no sequence.
Passes(ch, s, startBuf, buf, last, text) ==
    /\ state' = s /\ paramStartBuf' = startBuf /\ paramBuf' = buf
    /\ call'.pc = "loop" /\ call'.p = Append(call.p, ch) /\ call'.last = last /\ call'.text = text
    /\ call'.afterEsc = call.afterEsc

\* A byte that ends no sequence, by the stage it comes at.
LEMMA ByteStages ==
  ASSUME ColorTypes, BufferStages, NEW ch \in Bytes, TakeByte(ch)
  PROVE  /\ call.pc = "loop" /\ call' \in WriteCalls
         /\ Means(ch, <<>>, 0) /\ UNCHANGED screen /\ (state = "second" => isParameterChar(ch))
         /\ \/ /\ state = "outside" /\ ch = firstCsiChar
               /\ Passes(ch, "first", Append(paramStartBuf, ch), paramBuf, call.last, call.text)
            \/ /\ state = "outside" /\ ch # firstCsiChar
               /\ Passes(ch, "outside", paramStartBuf, paramBuf, call.last, call.text + 1)
            \/ /\ state = "first" /\ ch = firstCsiChar
               /\ Passes(ch, "first", Append(paramStartBuf, ch), paramBuf, call.last, call.text + 1)
            \/ /\ state = "first" /\ ch = secondeCsiChar
               /\ Passes(ch, "second", Append(paramStartBuf, ch), paramBuf, Len(call.p) - 1, call.text)
            \/ /\ state = "first" /\ ch # firstCsiChar /\ ch # secondeCsiChar
               /\ Passes(ch, "outside", <<>>, paramBuf, call.last, call.text + 1)
            \/ /\ state = "second"
               /\ Passes(ch, "second", paramStartBuf, Append(paramBuf, ch), call.last, call.text)
<1>1. /\ call \in WriteCalls
      /\ call.p \in ByteText /\ call.last \in Int /\ call.text \in Nat /\ call.afterEsc \in BOOLEAN
      /\ state \in {"outside", "first", "second"}
  BY DEF ColorTypes, WriteCalls
<1>2. /\ call.pc = "loop" /\ Means(ch, <<>>, 0) /\ UNCHANGED screen
      /\ state = "second" => isParameterChar(ch)
  BY DEF TakeByte
<1>3. PICK n : n = Len(call.p) - 1
  OBVIOUS
<1>4. n \in Int
  <2>1. Len(call.p) \in Nat
    BY ONLY <1>1, Texts
  <2> QED
    BY ONLY <1>3, <2>1
<1>5. call' = [call EXCEPT !.p = Append(@, ch),
                           !.last = IF state = "first" /\ ch = secondeCsiChar THEN n ELSE @,
                           !.text = IF Text(ch) THEN @ + 1 ELSE @]
  BY <1>3 DEF TakeByte
<1>6. Append(call.p, ch) \in ByteText
  BY ONLY <1>1, Texts, ch \in Bytes
<1>7. call' \in WriteCalls
  <2>1. PICK l, t : /\ l = IF state = "first" /\ ch = secondeCsiChar THEN n ELSE call.last
                    /\ t = IF Text(ch) THEN call.text + 1 ELSE call.text
    OBVIOUS
  <2>2. l \in Int
    BY ONLY <1>1, <1>4, <2>1
  <2>3. t \in Nat
    BY ONLY <1>1, <2>1
  <2>4. call' = [call EXCEPT !.p = Append(call.p, ch), !.last = l, !.text = t]
    BY ONLY <1>1, <1>5, <2>1 DEF WriteCalls
  <2> QED
    BY ONLY <1>1, <1>6, <2>2, <2>3, <2>4 DEF WriteCalls
<1>8. /\ call'.pc = "loop" /\ call'.p = Append(call.p, ch) /\ call'.afterEsc = call.afterEsc
      /\ call'.last = IF state = "first" /\ ch = secondeCsiChar THEN n ELSE call.last
      /\ call'.text = IF Text(ch) THEN call.text + 1 ELSE call.text
  BY ONLY <1>1, <1>2, <1>5 DEF WriteCalls
<1>9. Text(ch) <=> (state = "outside" /\ ch # firstCsiChar) \/ (state = "first" /\ ch # secondeCsiChar)
  BY DEF Text
<1>10. \/ /\ state = "outside" /\ ch = firstCsiChar
          /\ state' = "first" /\ paramStartBuf' = Append(paramStartBuf, ch)
       \/ state = "outside" /\ ch # firstCsiChar /\ UNCHANGED <<state, paramStartBuf>>
       \/ /\ state = "first" /\ ch = firstCsiChar
          /\ paramStartBuf' = Append(paramStartBuf, ch) /\ UNCHANGED state
       \/ /\ state = "first" /\ ch = secondeCsiChar
          /\ state' = "second" /\ paramStartBuf' = Append(paramStartBuf, ch)
       \/ /\ state = "first" /\ ch \notin {firstCsiChar, secondeCsiChar}
          /\ state' = "outside" /\ paramStartBuf' = <<>>
       \/ state = "second" /\ UNCHANGED <<state, paramStartBuf>>
  BY DEF TakeByte
<1>11. paramBuf' = IF state = "second" THEN Append(paramBuf, ch) ELSE paramBuf
  BY DEF TakeByte
<1>12. firstCsiChar # secondeCsiChar
  BY BytesDiffer
<1>13. CASE state = "outside"
  BY ONLY <1>2, <1>7, <1>8, <1>9, <1>10, <1>11, <1>13 DEF Passes
<1>14. CASE state = "first"
  BY ONLY <1>2, <1>3, <1>7, <1>8, <1>9, <1>10, <1>11, <1>12, <1>14 DEF Passes
<1>15. CASE state = "second"
  BY ONLY <1>2, <1>7, <1>8, <1>9, <1>10, <1>11, <1>15 DEF Passes
<1> QED
  BY ONLY <1>1, <1>13, <1>14, <1>15

\* A byte that shows nothing leaves pending what was.
LEMMA Quiet ==
  ASSUME ColorTypes, Pending, NEW ch \in Bytes, Means(ch, <<>>, 0), visible(ch) = <<>>, ~meant.failed, ~meant'.odd,
         call'.p = Append(call.p, ch), call'.text = call.text
  PROVE  /\ SubSeq(call'.p, 1, call'.text) = SubSeq(call.p, 1, call.text)
         /\ SubSeq(call.p, 1, call.text) \in ByteText
         /\ Len(call'.p) = Len(call.p) + 1 /\ call'.text <= Len(call'.p)
         /\ meant'.shown = meant'.wrote \o SubSeq(call'.p, 1, call'.text)
         /\ meant'.owed = meant.owed + 1
<1>1. /\ meant \in Meanings /\ mode \in {"Discard", "Output"} /\ call.p \in ByteText /\ call.text \in Nat
      /\ meant.shown \in ByteText /\ meant.wrote \in ByteText /\ meant.owed \in Int
  BY DEF ColorTypes, WriteCalls, Meanings
<1>2. call.text <= Len(call.p) /\ meant.shown = meant.wrote \o SubSeq(call.p, 1, call.text)
  BY DEF Pending
<1>3. PICK x : x = SubSeq(call.p, 1, call.text)
  OBVIOUS
<1>4. x \in ByteText /\ SubSeq(Append(call.p, ch), 1, call.text) = x
  BY ONLY <1>1, <1>2, <1>3, Beginnings, ch \in Bytes
<1>5. Len(call'.p) = Len(call.p) + 1 /\ call'.text <= Len(call'.p)
  <2>1. Len(Append(call.p, ch)) = Len(call.p) + 1 /\ Len(call.p) \in Nat
    BY ONLY <1>1, Texts, ch \in Bytes
  <2>2. PICK k, l : k = Len(call.p) /\ l = call.text
    OBVIOUS
  <2>3. k \in Nat /\ l \in Nat /\ l <= k
    BY ONLY <1>1, <1>2, <2>1, <2>2
  <2>4. l <= k + 1
    BY ONLY <2>3
  <2> QED
    BY ONLY <2>1, <2>2, <2>4, call'.p = Append(call.p, ch), call'.text = call.text
<1>6. meant.shown \o <<>> = (meant.wrote \o <<>>) \o x
  BY ONLY <1>1, <1>2, <1>3, Texts
<1>7. /\ meant'.owed = meant.owed + 1 - 0
      /\ \A y \in ByteText : meant.shown \o visible(ch) = (meant.wrote \o <<>>) \o y =>
             meant'.shown = meant'.wrote \o y
  <2>1. <<>> \in ByteText /\ 0 \in Int
    BY Texts
  <2> QED
    BY ONLY <1>1, <2>1, Meant, ch \in Bytes, Means(ch, <<>>, 0), ~meant.failed, ~meant'.odd
<1>8. meant'.shown = meant'.wrote \o x
  BY ONLY <1>4, <1>6, <1>7, visible(ch) = <<>>
<1>9. meant'.owed = meant.owed + 1
  <2>1. PICK k : k = meant.owed
    OBVIOUS
  <2>2. k \in Int
    BY ONLY <1>1, <2>1
  <2>3. k + 1 - 0 = k + 1
    BY ONLY <2>2
  <2> QED
    BY ONLY <1>7, <2>1, <2>3
<1> QED
  BY ONLY <1>3, <1>4, <1>5, <1>8, <1>9, call'.p = Append(call.p, ch), call'.text = call.text

\* The sequence that has begun, and its buffers.
LEMMA ByteBegun ==
  ASSUME ColorTypes, BufferStages, Sequence, NEW ch \in Bytes, TakeByte(ch), ~meant.failed
  PROVE  Begun'
<1>1. /\ meant \in Meanings /\ mode \in {"Discard", "Output"} /\ paramStartBuf \in ByteText
      /\ paramBuf \in ByteText /\ seq \in ByteText /\ meant.odd \in BOOLEAN
  BY DEF ColorTypes, Meanings, seq
<1>2. call.pc = "loop" /\ Means(ch, <<>>, 0) /\ (state = "second" => isParameterChar(ch))
  BY ONLY ByteStages, ColorTypes, BufferStages, ch \in Bytes, TakeByte(ch)
<1>3. Begun
  BY <1>2 DEF Sequence
<1>4. /\ meant'.seq = seqAfter(ch)
      /\ meant'.odd = (meant.odd \/ (Len(seq) = 1 /\ ch # secondeCsiChar))
  <2>1. <<>> \in ByteText /\ 0 \in Int
    BY Texts
  <2> QED
    BY ONLY <1>1, <1>2, <2>1, Meant, ch \in Bytes, ~meant.failed
<1>5. seq' = meant'.seq
  BY DEF seq
<1>6. CASE /\ state = "outside" /\ ch = firstCsiChar
           /\ Passes(ch, "first", Append(paramStartBuf, ch), paramBuf, call.last, call.text)
  <2>1. seq = <<>> /\ paramStartBuf = <<>>
    BY <1>3, <1>6 DEF Begun, BufferStages
  <2>2. seqAfter(ch) = <<firstCsiChar>>
    BY ONLY <1>1, <1>6, <2>1, NextBytes, ch \in Bytes
  <2>3. paramStartBuf' = <<firstCsiChar>> /\ state' = "first"
    <3>1. Append(<<>>, ch) = <<ch>>
      OBVIOUS
    <3> QED
      BY ONLY <1>6, <2>1, <3>1 DEF Passes
  <2> QED
    BY ONLY <1>4, <1>5, <2>2, <2>3 DEF Begun
<1>7. CASE /\ state = "outside" /\ ch # firstCsiChar
           /\ Passes(ch, "outside", paramStartBuf, paramBuf, call.last, call.text + 1)
  <2>1. seq = <<>>
    BY <1>3, <1>7 DEF Begun
  <2>2. seqAfter(ch) = <<>>
    BY ONLY <1>1, <1>7, <2>1, NextBytes, ch \in Bytes
  <2>3. state' = "outside"
    BY ONLY <1>7 DEF Passes
  <2> QED
    BY ONLY <1>4, <1>5, <2>2, <2>3 DEF Begun
<1>8. CASE /\ state = "first" /\ ch = firstCsiChar
           /\ Passes(ch, "first", Append(paramStartBuf, ch), paramBuf, call.last, call.text + 1)
  <2>1. seq = <<firstCsiChar>> /\ Len(seq) = 1
    <3>1. seq = <<firstCsiChar>>
      BY <1>3, <1>8 DEF Begun
    <3> QED
      BY ONLY <3>1
  <2>2. seqAfter(ch) = <<firstCsiChar>>
    BY ONLY <1>1, <1>8, <2>1, NextBytes, ch \in Bytes
  <2>3. meant'.odd
    BY ONLY <1>4, <1>8, <2>1, BytesDiffer
  <2>4. state' = "first"
    BY ONLY <1>8 DEF Passes
  <2> QED
    BY ONLY <1>4, <1>5, <2>2, <2>3, <2>4 DEF Begun
<1>9. CASE /\ state = "first" /\ ch = secondeCsiChar
           /\ Passes(ch, "second", Append(paramStartBuf, ch), paramBuf, Len(call.p) - 1, call.text)
  <2>1. /\ seq = <<firstCsiChar>> /\ paramBuf = <<>>
        /\ ~meant.odd => paramStartBuf = <<firstCsiChar>>
    BY <1>3, <1>9 DEF Begun, BufferStages
  <2>2. seqAfter(ch) = <<firstCsiChar, secondeCsiChar>>
    BY ONLY <1>1, <1>9, <2>1, NextBytes, ch \in Bytes
  <2>3. <<firstCsiChar, secondeCsiChar>> \in ByteText
    BY BytesDiffer DEF ByteText
  <2>4. seqAfter(ch) = <<firstCsiChar, secondeCsiChar>> \o <<>>
    BY ONLY <2>2, <2>3, Texts
  <2>5. Append(<<firstCsiChar>>, ch) = <<firstCsiChar, secondeCsiChar>>
    BY ONLY <1>9, TwoBytes, BytesDiffer
  <2>6. ~meant'.odd => ~meant.odd
    BY ONLY <1>4
  <2>7. state' = "second" /\ paramBuf' = <<>> /\ paramStartBuf' = Append(paramStartBuf, ch)
    BY ONLY <1>9, <2>1 DEF Passes
  <2> QED
    BY ONLY <1>4, <1>5, <2>1, <2>4, <2>5, <2>6, <2>7 DEF Begun
<1>10. CASE /\ state = "first" /\ ch # firstCsiChar /\ ch # secondeCsiChar
            /\ Passes(ch, "outside", <<>>, paramBuf, call.last, call.text + 1)
  <2>1. seq = <<firstCsiChar>>
    BY <1>3, <1>10 DEF Begun
  <2>2. seqAfter(ch) = <<>>
    BY ONLY <1>1, <1>10, <2>1, NextBytes, ch \in Bytes
  <2>3. state' = "outside"
    BY ONLY <1>10 DEF Passes
  <2> QED
    BY ONLY <1>4, <1>5, <2>2, <2>3 DEF Begun
<1>11. CASE /\ state = "second"
            /\ Passes(ch, "second", paramStartBuf, Append(paramBuf, ch), call.last, call.text)
  <2>1. /\ seq = <<firstCsiChar, secondeCsiChar>> \o paramBuf
        /\ ~meant.odd => paramStartBuf = <<firstCsiChar, secondeCsiChar>>
    BY <1>3, <1>11 DEF Begun
  <2>2. <<firstCsiChar, secondeCsiChar>> \in ByteText /\ Len(<<firstCsiChar, secondeCsiChar>>) = 2
    BY BytesDiffer DEF ByteText
  <2>3. Len(seq) >= 2
    <3>1. Len(seq) = 2 + Len(paramBuf) /\ Len(paramBuf) \in Nat
      BY ONLY <1>1, <2>1, <2>2, Texts
    <3> QED
      BY ONLY <3>1
  <2>4. seqAfter(ch) = Append(seq, ch)
    BY ONLY <1>1, <1>2, <1>11, <2>3, NextBytes, ch \in Bytes
  <2>5. seqAfter(ch) = <<firstCsiChar, secondeCsiChar>> \o Append(paramBuf, ch)
    <3>1. PICK two : two = <<firstCsiChar, secondeCsiChar>>
      OBVIOUS
    <3>2. two \in ByteText /\ paramBuf \in ByteText
      BY ONLY <1>1, <2>2, <3>1
    <3>3. two \o Append(paramBuf, ch) = Append(two \o paramBuf, ch)
      BY ONLY <3>2, AppendLast, ch \in Bytes
    <3> QED
      BY ONLY <2>1, <2>4, <3>1, <3>3
  <2>6. ~meant'.odd => ~meant.odd
    BY ONLY <1>4
  <2>7. state' = "second" /\ paramBuf' = Append(paramBuf, ch) /\ paramStartBuf' = paramStartBuf
    BY ONLY <1>11 DEF Passes
  <2> QED
    BY ONLY <1>4, <1>5, <2>1, <2>5, <2>6, <2>7 DEF Begun
<1> QED
  BY ONLY <1>6, <1>7, <1>8, <1>9, <1>10, <1>11, ByteStages, ColorTypes, BufferStages, ch \in Bytes, TakeByte(ch)

\* What is pending in the Write.
LEMMA BytePending ==
  ASSUME ColorTypes, BufferStages, Sequence, Loop, NEW ch \in Bytes, TakeByte(ch), ~meant'.failed, ~meant'.odd
  PROVE  Pending'
<1>1. /\ meant \in Meanings /\ mode \in {"Discard", "Output"} /\ seq \in ByteText /\ meant.odd \in BOOLEAN
      /\ call.p \in ByteText /\ call.text \in Nat /\ call.last \in Int /\ Len(call.p) \in Nat
      /\ meant.shown \in ByteText /\ meant.wrote \in ByteText /\ meant.owed \in Int
  <2>1. /\ meant \in Meanings /\ mode \in {"Discard", "Output"} /\ seq \in ByteText /\ meant.odd \in BOOLEAN
        /\ call.p \in ByteText /\ call.text \in Nat /\ call.last \in Int
        /\ meant.shown \in ByteText /\ meant.wrote \in ByteText /\ meant.owed \in Int
    BY DEF ColorTypes, WriteCalls, Meanings, seq
  <2> QED
    BY ONLY <2>1, Texts
<1>2. /\ call.pc = "loop" /\ Means(ch, <<>>, 0) /\ (state = "second" => isParameterChar(ch))
      /\ mode' = mode
  <2>1. /\ call.pc = "loop" /\ Means(ch, <<>>, 0) /\ (state = "second" => isParameterChar(ch))
        /\ UNCHANGED screen
    BY ONLY ByteStages, ColorTypes, BufferStages, ch \in Bytes, TakeByte(ch)
  <2> QED
    BY ONLY <2>1 DEF screen
<1>3. /\ ~meant.failed
      /\ meant'.seq = seqAfter(ch)
      /\ meant'.odd = (meant.odd \/ (Len(seq) = 1 /\ ch # secondeCsiChar))
      /\ meant'.owed = meant.owed + 1 - 0
      /\ \A x \in ByteText : meant.shown \o visible(ch) = (meant.wrote \o <<>>) \o x =>
             meant'.shown = meant'.wrote \o x
  <2>1. <<>> \in ByteText /\ 0 \in Int
    BY Texts
  <2>2. meant'.failed = meant.failed
    BY ONLY <1>1, <1>2, <2>1, Meant, ch \in Bytes
  <2>3. ~meant.failed
    BY ONLY <2>2, ~meant'.failed
  <2> QED
    BY ONLY <1>1, <1>2, <2>1, <2>3, Meant, ch \in Bytes, ~meant'.odd
<1>4. ~meant.odd /\ ~(Len(seq) = 1 /\ ch # secondeCsiChar)
  BY ONLY <1>1, <1>3, ~meant'.odd
<1>5. Begun /\ Pending
  BY <1>2, <1>3, <1>4 DEF Sequence, Loop
<1>6. /\ call.text <= Len(call.p)
      /\ meant.shown = meant.wrote \o SubSeq(call.p, 1, call.text)
      /\ meant.owed = call.text + Len(seq)
      /\ mode = "Output" => call.p = SubSeq(call.p, 1, call.text) \o seq
      /\ state = "outside" => Len(call.p) = call.text
      /\ state = "first" => Len(call.p) = call.text + 1 \/ call.p = <<>>
      /\ state = "second" => call.last = call.text \/ (call.last < 0 /\ call.text = 0)
  BY ONLY <1>5 DEF Pending
<1>7. seq' = meant'.seq
  BY DEF seq
<1>8. ASSUME visible(ch) = <<>>, call'.p = Append(call.p, ch), call'.text = call.text
      PROVE  /\ SubSeq(call'.p, 1, call'.text) = SubSeq(call.p, 1, call.text)
             /\ SubSeq(call.p, 1, call.text) \in ByteText
             /\ Len(call'.p) = Len(call.p) + 1 /\ call'.text <= Len(call'.p)
             /\ meant'.shown = meant'.wrote \o SubSeq(call'.p, 1, call'.text)
             /\ meant'.owed = meant.owed + 1
  BY ONLY <1>2, <1>3, <1>5, <1>8, Quiet, ColorTypes, ch \in Bytes, ~meant'.odd
<1>9. PICK k, l, s, o : k = Len(call.p) /\ l = call.text /\ s = Len(seq) /\ o = meant.owed
  OBVIOUS
<1>10. k \in Nat /\ l \in Nat /\ l <= k /\ s \in Nat /\ o = l + s
  <2>1. Len(seq) \in Nat
    BY ONLY <1>1, Texts
  <2> QED
    BY ONLY <1>1, <1>6, <1>9, <2>1
<1>11. CASE /\ state = "outside" /\ ch = firstCsiChar
            /\ Passes(ch, "first", Append(paramStartBuf, ch), paramBuf, call.last, call.text)
  <2>1. seq = <<>>
    BY ONLY <1>5, <1>11 DEF Begun
  <2>2. seqAfter(ch) = <<ch>> /\ visible(ch) = <<>>
    BY ONLY <1>1, <1>11, <2>1, NextBytes, ch \in Bytes
  <2>3. state' = "first" /\ call'.p = Append(call.p, ch) /\ call'.text = call.text
    BY ONLY <1>11 DEF Passes
  <2>4. /\ SubSeq(call'.p, 1, call'.text) = SubSeq(call.p, 1, call.text)
        /\ SubSeq(call.p, 1, call.text) \in ByteText
        /\ Len(call'.p) = Len(call.p) + 1 /\ call'.text <= Len(call'.p)
        /\ meant'.shown = meant'.wrote \o SubSeq(call'.p, 1, call'.text)
        /\ meant'.owed = meant.owed + 1
    BY ONLY <1>8, <2>2, <2>3
  <2>5. SubSeq(call.p, 1, call.text) = call.p
    BY ONLY <1>1, <1>6, <1>11, Beginnings
  <2>6. call'.p = SubSeq(call'.p, 1, call'.text) \o <<ch>>
    <3>1. call.p \o <<ch>> = Append(call.p, ch)
      BY ONLY <1>1, Texts, ch \in Bytes
    <3> QED
      BY ONLY <2>3, <2>4, <2>5, <3>1
  <2>7. Len(call'.p) = call'.text + 1
    BY ONLY <1>6, <1>11, <2>3, <2>4
  <2>8. meant'.owed = call'.text + Len(seq')
    <3>1. Len(<<ch>>) = 1 /\ Len(<<>>) = 0
      OBVIOUS
    <3>2. o + 1 = l + 1
      BY ONLY <1>9, <1>10, <2>1, <3>1
    <3> QED
      BY ONLY <1>3, <1>7, <1>9, <2>2, <2>3, <2>4, <3>1, <3>2
  <2>9. state' # "outside" /\ state' # "second"
    BY ONLY <2>3
  <2> QED
    BY ONLY <1>3, <1>7, <2>2, <2>4, <2>6, <2>7, <2>8, <2>9 DEF Pending
<1>12. CASE /\ state = "outside" /\ ch # firstCsiChar
            /\ Passes(ch, "outside", paramStartBuf, paramBuf, call.last, call.text + 1)
  <2>1. seq = <<>>
    BY ONLY <1>5, <1>12 DEF Begun
  <2>2. seqAfter(ch) = <<>> /\ visible(ch) = <<ch>>
    BY ONLY <1>1, <1>12, <2>1, NextBytes, ch \in Bytes
  <2>3. state' = "outside" /\ call'.p = Append(call.p, ch) /\ call'.text = call.text + 1
    BY ONLY <1>12 DEF Passes
  <2>4. Append(call.p, ch) \in ByteText /\ Len(call'.p) = call'.text
    <3>1. Append(call.p, ch) \in ByteText /\ Len(Append(call.p, ch)) = Len(call.p) + 1
      BY ONLY <1>1, Texts, ch \in Bytes
    <3> QED
      BY ONLY <1>6, <1>12, <2>3, <3>1
  <2>5. SubSeq(call'.p, 1, call'.text) = call'.p
    BY ONLY <2>3, <2>4, Beginnings
  <2>6. SubSeq(call.p, 1, call.text) = call.p
    BY ONLY <1>1, <1>6, <1>12, Beginnings
  <2>7. meant.shown \o <<ch>> = (meant.wrote \o <<>>) \o Append(call.p, ch)
    <3>1. <<ch>> \in ByteText /\ meant.wrote \o <<>> = meant.wrote /\ call.p \o <<ch>> = Append(call.p, ch)
      BY ONLY <1>1, Texts, ch \in Bytes
    <3>2. (meant.wrote \o call.p) \o <<ch>> = meant.wrote \o (call.p \o <<ch>>)
      <4>1. PICK r, t, u : r = meant.wrote /\ t = call.p /\ u = <<ch>>
        OBVIOUS
      <4>2. r \in ByteText /\ t \in ByteText /\ u \in ByteText
        BY ONLY <1>1, <3>1, <4>1
      <4>3. (r \o t) \o u = r \o (t \o u)
        BY ONLY <4>2, ThreeTexts
      <4> QED
        BY ONLY <4>1, <4>3
    <3> QED
      BY ONLY <1>6, <2>6, <3>1, <3>2
  <2>8. meant'.shown = meant'.wrote \o SubSeq(call'.p, 1, call'.text)
    BY ONLY <1>3, <2>2, <2>3, <2>4, <2>5, <2>7
  <2>9. meant'.owed = call'.text + Len(seq')
    <3>1. Len(<<>>) = 0
      OBVIOUS
    <3>2. o + 1 - 0 = (l + 1) + 0
      BY ONLY <1>9, <1>10, <2>1, <3>1
    <3> QED
      BY ONLY <1>3, <1>7, <1>9, <2>2, <2>3, <3>1, <3>2
  <2>10. call'.p = SubSeq(call'.p, 1, call'.text) \o <<>>
    BY ONLY <2>3, <2>4, <2>5, Texts
  <2>11. call'.text <= Len(call'.p)
    <3>1. l + 1 \in Nat /\ l + 1 <= l + 1
      BY ONLY <1>10
    <3> QED
      BY ONLY <1>9, <2>3, <2>4, <3>1
  <2>12. state' # "first" /\ state' # "second"
    BY ONLY <2>3
  <2> QED
    BY ONLY <1>3, <1>7, <2>2, <2>4, <2>8, <2>9, <2>10, <2>11, <2>12 DEF Pending
<1>13. CASE state = "first" /\ ch # secondeCsiChar
  <2>1. seq = <<firstCsiChar>>
    BY ONLY <1>5, <1>13 DEF Begun
  <2>2. Len(seq) = 1
    BY ONLY <2>1
  <2> QED
    BY ONLY <1>4, <1>13, <2>2
<1>14. ASSUME NEW two, two \in ByteText, Len(seq) + 1 = Len(two), two = Append(seq, ch), seqAfter(ch) = two,
              visible(ch) = <<>>, call'.p = Append(call.p, ch), call'.text = call.text, state' = "second",
              call'.last = call'.text \/ (call'.last < 0 /\ call'.text = 0)
       PROVE  Pending'
  <2>1. /\ SubSeq(call'.p, 1, call'.text) = SubSeq(call.p, 1, call.text)
        /\ SubSeq(call.p, 1, call.text) \in ByteText
        /\ Len(call'.p) = Len(call.p) + 1 /\ call'.text <= Len(call'.p)
        /\ meant'.shown = meant'.wrote \o SubSeq(call'.p, 1, call'.text)
        /\ meant'.owed = meant.owed + 1
    BY ONLY <1>8, <1>14
  <2>2. meant'.owed = call'.text + Len(seq')
    <3>1. o + 1 = l + (s + 1)
      BY ONLY <1>10
    <3> QED
      BY ONLY <1>3, <1>7, <1>9, <1>14, <2>1, <3>1
  <2>3. mode = "Output" => call'.p = SubSeq(call'.p, 1, call'.text) \o two
    <3>1. PICK x : x = SubSeq(call.p, 1, call.text)
      OBVIOUS
    <3>2. x \in ByteText /\ seq \in ByteText
      BY ONLY <1>1, <2>1, <3>1
    <3>3. x \o Append(seq, ch) = Append(x \o seq, ch)
      BY ONLY <3>2, AppendLast, ch \in Bytes
    <3> QED
      BY ONLY <1>6, <1>14, <2>1, <3>1, <3>3
  <2>4. state' # "outside" /\ state' # "first"
    BY ONLY <1>14
  <2> QED
    BY ONLY <1>2, <1>3, <1>7, <1>14, <2>1, <2>2, <2>3, <2>4 DEF Pending
<1>15. CASE /\ state = "first" /\ ch = secondeCsiChar
            /\ Passes(ch, "second", Append(paramStartBuf, ch), paramBuf, Len(call.p) - 1, call.text)
  <2>1. seq = <<firstCsiChar>>
    BY ONLY <1>5, <1>15 DEF Begun
  <2>2. seqAfter(ch) = <<firstCsiChar, ch>> /\ visible(ch) = <<>>
    BY ONLY <1>1, <1>15, <2>1, NextBytes, ch \in Bytes
  <2>3. Append(seq, ch) = <<firstCsiChar, ch>>
    BY ONLY <2>1, TwoBytes, BytesDiffer, ch \in Bytes
  <2>4. Append(seq, ch) \in ByteText /\ Len(Append(seq, ch)) = Len(seq) + 1
    BY ONLY <1>1, Texts, ch \in Bytes
  <2>5. /\ state' = "second" /\ call'.p = Append(call.p, ch) /\ call'.text = call.text
        /\ call'.last = Len(call.p) - 1
    BY ONLY <1>15 DEF Passes
  <2>6. k - 1 = l \/ (k - 1 < 0 /\ l = 0)
    <3>1. CASE Len(call.p) = call.text + 1
      BY ONLY <1>9, <1>10, <3>1
    <3>2. CASE call.p = <<>>
      <4>1. k = 0
        BY ONLY <1>9, <3>2
      <4> QED
        BY ONLY <1>10, <4>1
    <3> QED
      BY ONLY <1>6, <1>15, <3>1, <3>2
  <2> QED
    BY ONLY <1>9, <1>14, <2>2, <2>3, <2>4, <2>5, <2>6
<1>16. CASE /\ state = "second"
            /\ Passes(ch, "second", paramStartBuf, Append(paramBuf, ch), call.last, call.text)
  <2>1. seq = <<firstCsiChar, secondeCsiChar>> \o paramBuf
    BY ONLY <1>5, <1>16 DEF Begun
  <2>2. Len(seq) >= 2
    <3>1. <<firstCsiChar, secondeCsiChar>> \in ByteText /\ Len(<<firstCsiChar, secondeCsiChar>>) = 2
      BY BytesDiffer DEF ByteText
    <3>2. paramBuf \in ByteText
      BY DEF ColorTypes
    <3>3. Len(seq) = 2 + Len(paramBuf) /\ Len(paramBuf) \in Nat
      BY ONLY <2>1, <3>1, <3>2, Texts
    <3> QED
      BY ONLY <3>3
  <2>3. seqAfter(ch) = Append(seq, ch) /\ visible(ch) = <<>>
    BY ONLY <1>1, <1>2, <1>16, <2>2, NextBytes, ch \in Bytes
  <2>4. Append(seq, ch) \in ByteText /\ Len(Append(seq, ch)) = Len(seq) + 1
    BY ONLY <1>1, Texts, ch \in Bytes
  <2>5. /\ state' = "second" /\ call'.p = Append(call.p, ch) /\ call'.text = call.text
        /\ call'.last = call.last
    BY ONLY <1>16 DEF Passes
  <2> QED
    BY ONLY <1>6, <1>14, <1>16, <2>3, <2>4, <2>5
<1> QED
  BY ONLY <1>11, <1>12, <1>13, <1>15, <1>16, BytesDiffer, ByteStages, ColorTypes, BufferStages, ch \in Bytes, TakeByte(ch)

\* A byte that ends no sequence keeps the invariant.
LEMMA ByteKeeps ==
  ASSUME C_Inv, NEW ch \in Bytes, TakeByte(ch)
  PROVE  C_Inv'
<1>1. ColorTypes /\ BufferStages /\ Sequence /\ Loop
  BY DEF C_Inv
<1>2. /\ meant \in Meanings /\ mode \in {"Discard", "Output"} /\ paramStartBuf \in ByteText
      /\ paramBuf \in ByteText /\ seq \in ByteText /\ WAttributes \subseteq Bits
      /\ call.p \in ByteText /\ call.last \in Int
  BY ONLY <1>1 DEF ColorTypes, WriteCalls, Meanings, seq
<1>3. /\ call.pc = "loop" /\ call' \in WriteCalls /\ Means(ch, <<>>, 0) /\ UNCHANGED screen
      /\ state = "second" => isParameterChar(ch)
  BY ONLY <1>1, ByteStages, ch \in Bytes, TakeByte(ch)
<1>4. \/ /\ state = "outside" /\ ch = firstCsiChar
         /\ Passes(ch, "first", Append(paramStartBuf, ch), paramBuf, call.last, call.text)
      \/ /\ state = "outside" /\ ch # firstCsiChar
         /\ Passes(ch, "outside", paramStartBuf, paramBuf, call.last, call.text + 1)
      \/ /\ state = "first" /\ ch = firstCsiChar
         /\ Passes(ch, "first", Append(paramStartBuf, ch), paramBuf, call.last, call.text + 1)
      \/ /\ state = "first" /\ ch = secondeCsiChar
         /\ Passes(ch, "second", Append(paramStartBuf, ch), paramBuf, Len(call.p) - 1, call.text)
      \/ /\ state = "first" /\ ch # firstCsiChar /\ ch # secondeCsiChar
         /\ Passes(ch, "outside", <<>>, paramBuf, call.last, call.text + 1)
      \/ /\ state = "second"
         /\ Passes(ch, "second", paramStartBuf, Append(paramBuf, ch), call.last, call.text)
  BY ONLY <1>1, ByteStages, ch \in Bytes, TakeByte(ch)
<1>5. mode' = mode /\ WAttributes' = WAttributes
  BY ONLY <1>3 DEF screen
<1>6. meant' \in Meanings /\ meant'.failed = meant.failed
      /\ (~meant.failed => meant'.attr = IF Len(seq) >= 2 /\ ch = sgrCode /\ ~PassedOn(ch)
                                THEN separately(meant.attr, Codes(SubSeq(seq, 3, Len(seq)))) ELSE meant.attr)
  <2>1. <<>> \in ByteText /\ 0 \in Int
    BY Texts
  <2> QED
    BY ONLY <1>2, <1>3, <2>1, Meant, ch \in Bytes
<1>7. Append(paramStartBuf, ch) \in ByteText /\ Append(paramBuf, ch) \in ByteText /\ <<>> \in ByteText
  BY ONLY <1>2, Texts, ch \in Bytes
<1>8. ColorTypes'
  <2>1. state' \in {"outside", "first", "second"} /\ paramStartBuf' \in ByteText /\ paramBuf' \in ByteText
    BY ONLY <1>2, <1>4, <1>7 DEF Passes
  <2> QED
    BY ONLY <1>2, <1>3, <1>5, <1>6, <2>1 DEF ColorTypes
<1>9. BufferStages'
  <2>1. /\ state = "outside" => paramStartBuf = <<>>
        /\ state # "second" => paramBuf = <<>>
        /\ call.last <= Len(call.p)
        /\ mode = "Output" => ~call.afterEsc
        /\ state = "first" /\ call.p = <<>> => call.afterEsc
        /\ call.last < 0 => call.afterEsc
    BY ONLY <1>1, <1>3 DEF BufferStages
  <2>2. /\ call'.pc = "loop" /\ call'.p = Append(call.p, ch) /\ call'.afterEsc = call.afterEsc
        /\ call'.last = call.last \/ (state = "first" /\ call'.last = Len(call.p) - 1)
        /\ state' = "outside" => paramStartBuf' = <<>>
        /\ state' # "second" => paramBuf' = <<>>
    BY ONLY <1>4, <2>1 DEF Passes
  <2>3. PICK k, l, q : k = Len(call.p) /\ l = call.last /\ q = call'.last
    OBVIOUS
  <2>4. k \in Nat /\ l \in Int /\ l <= k /\ (k = 0 <=> call.p = <<>>) /\ Len(call'.p) = k + 1
    <3>1. Len(call.p) \in Nat /\ (Len(call.p) = 0 <=> call.p = <<>>)
      BY ONLY <1>2, Texts
    <3>2. Len(Append(call.p, ch)) = Len(call.p) + 1
      BY ONLY <1>2, Texts, ch \in Bytes
    <3> QED
      BY ONLY <1>2, <2>1, <2>2, <2>3, <3>1, <3>2
  <2>5. q = l \/ (state = "first" /\ q = k - 1)
    BY ONLY <2>2, <2>3
  <2>6. q <= k + 1
    BY ONLY <2>4, <2>5
  <2>7. q < 0 => l < 0 \/ (state = "first" /\ k = 0)
    BY ONLY <2>4, <2>5
  <2>8. call'.p # <<>>
    <3>1. k + 1 # 0
      BY ONLY <2>4
    <3>2. Len(<<>>) = 0
      OBVIOUS
    <3> QED
      BY ONLY <2>4, <3>1, <3>2
  <2>9. call'.last <= Len(call'.p) /\ (call'.last < 0 => call'.afterEsc)
    BY ONLY <2>1, <2>2, <2>3, <2>4, <2>6, <2>7
  <2> QED
    BY ONLY <1>5, <2>1, <2>2, <2>8, <2>9 DEF BufferStages
<1>10. Sequence'
  <2> SUFFICES ASSUME ~meant'.failed PROVE /\ WAttributes' = meant'.attr
                                           /\ Begun'
    BY <1>3, <1>4 DEF Sequence, Passes
  <2>1. ~meant.failed
    BY <1>6
  <2>2. WAttributes = meant.attr /\ Begun
    BY ONLY <1>1, <1>3, <2>1 DEF Sequence
  <2>3. ~(Len(seq) >= 2 /\ ch = sgrCode)
    <3>1. CASE state = "second"
      BY ONLY <1>3, <3>1, BytesDiffer
    <3>2. CASE state # "second"
      <4>1. seq = <<>> \/ seq = <<firstCsiChar>>
        BY ONLY <1>4, <2>2, <3>2 DEF Begun
      <4>2. Len(<<>>) = 0 /\ Len(<<firstCsiChar>>) = 1 /\ ~(0 >= 2) /\ ~(1 >= 2)
        OBVIOUS
      <4> QED
        BY ONLY <4>1, <4>2
    <3> QED
      BY ONLY <3>1, <3>2
  <2>4. meant'.attr = meant.attr
    BY ONLY <1>6, <2>1, <2>3
  <2>5. Begun'
    BY ONLY <1>1, <2>1, ByteBegun, ch \in Bytes, TakeByte(ch)
  <2> QED
    BY ONLY <1>5, <2>2, <2>4, <2>5
<1>11. Loop'
  <2>1. ASSUME ~meant'.failed, ~meant'.odd PROVE Pending'
    BY ONLY <1>1, <2>1, BytePending, ch \in Bytes, TakeByte(ch)
  <2> QED
    BY ONLY <2>1 DEF Loop
<1>12. ColorInv'
  <2>1. call'.pc = "loop"
    BY ONLY <1>4 DEF Passes
  <2> QED
    BY ONLY <2>1 DEF ColorInv, TextKept, ColorsKept, BytesCounted, PanicsAfterEscOnly, Comparable
<1> QED
  BY ONLY <1>8, <1>9, <1>10, <1>11, <1>12 DEF C_Inv

-----------------------------------------------------------------------------
(* The writer: the end of a sequence, and of a Write.                       *)

\* What a sequence does to the attributes, and what it is meant to do.
LEMMA ColorAtEnd ==
  ASSUME ColorTypes, Sequence, ~meant.failed, call.pc = "loop", state = "second", NEW ch \in Bytes,
         Len(seq) >= 2, SubSeq(seq, 3, Len(seq)) = paramBuf,
         NEW a, a = IF Len(seq) >= 2 /\ ch = sgrCode /\ ~PassedOn(ch)
                    THEN separately(meant.attr, Codes(SubSeq(seq, 3, Len(seq)))) ELSE meant.attr
  PROVE  a = IF parseEscapeSequence(ch) = "changedColor" THEN changeColor(WAttributes, paramBuf)
             ELSE WAttributes
<1>1. WAttributes = meant.attr
  BY DEF Sequence
<1>2. changeColor(WAttributes, paramBuf) = separately(WAttributes, Codes(paramBuf))
  <2>1. WAttributes \in SUBSET Bits /\ paramBuf \in Seq(Bytes)
    BY DEF ColorTypes, ByteText
  <2> QED
    BY ONLY <2>1, ColorChanged
<1>3. parseEscapeSequence(ch) = "changedColor" <=> ch = sgrCode /\ ~PassedOn(ch)
  BY DEF parseEscapeSequence, PassedOn
<1> QED
  BY ONLY <1>1, <1>2, <1>3, Len(seq) >= 2, SubSeq(seq, 3, Len(seq)) = paramBuf,
          a = IF Len(seq) >= 2 /\ ch = sgrCode /\ ~PassedOn(ch)
              THEN separately(meant.attr, Codes(SubSeq(seq, 3, Len(seq)))) ELSE meant.attr

\* Texts with the same bytes are the same.
LEMMA SameText ==
  ASSUME NEW s, NEW t, NEW n, n \in Nat, s \in ByteText, t \in ByteText, Len(s) = n, Len(t) = n,
         \A i \in 1 .. n : s[i] = t[i]
  PROVE  s = t
<1>1. s \in [1 .. n -> Bytes] /\ t \in [1 .. n -> Bytes]
  BY LenProperties DEF ByteText
<1>2. s = [i \in 1 .. n |-> s[i]] /\ t = [i \in 1 .. n |-> t[i]]
  BY ONLY <1>1
<1>3. [i \in 1 .. n |-> s[i]] = [i \in 1 .. n |-> t[i]]
  BY ONLY \A i \in 1 .. n : s[i] = t[i]
<1> QED
  BY ONLY <1>2, <1>3

\* What follows the two first bytes of a sequence.
LEMMA Parameters ==
  ASSUME NEW s, NEW two, NEW buf, two \in ByteText, Len(two) = 2, buf \in ByteText, s = two \o buf
  PROVE  Len(s) >= 2 /\ SubSeq(s, 3, Len(s)) = buf
<1>1. Len(buf) \in Nat /\ Len(s) = 2 + Len(buf) /\ s \in ByteText
  BY ONLY Texts, two \in ByteText, Len(two) = 2, buf \in ByteText, s = two \o buf
<1>2. PICK n : n = Len(s)
  OBVIOUS
<1>3. n \in Nat /\ n >= 2 /\ Len(buf) = n - 2 /\ n - 2 \in Nat
  BY ONLY <1>1, <1>2
<1>4. PICK z : z = SubSeq(s, 3, n)
  OBVIOUS
<1>5. z \in ByteText /\ Len(z) = n - 2 /\ \A i \in 1 .. n - 2 : z[i] = s[i + 2]
  <2>1. \A i \in 3 .. n : s[i] \in Bytes
    BY ONLY <1>1, <1>2, <1>3 DEF ByteText
  <2>2. /\ SubSeq(s, 3, n) \in Seq(Bytes)
        /\ Len(SubSeq(s, 3, n)) = IF 3 <= n THEN n - 3 + 1 ELSE 0
        /\ \A i \in 1 .. n - 3 + 1 : SubSeq(s, 3, n)[i] = s[3 + i - 1]
    BY ONLY <1>3, <2>1, SubSeqProperties
  <2>3. (IF 3 <= n THEN n - 3 + 1 ELSE 0) = n - 2 /\ n - 3 + 1 = n - 2
    BY ONLY <1>3
  <2>4. \A i \in 1 .. n - 2 : 3 + i - 1 = i + 2
    BY ONLY <1>3
  <2>5. Len(z) = n - 2 /\ z \in Seq(Bytes)
    BY ONLY <1>4, <2>2, <2>3
  <2>6. \A i \in 1 .. n - 2 : z[i] = s[i + 2]
    BY ONLY <1>4, <2>2, <2>3, <2>4
  <2> QED
    BY ONLY <2>5, <2>6 DEF ByteText
<1>6. \A i \in 1 .. n - 2 : s[i + 2] = buf[i]
  <2>1. DOMAIN two = 1 .. 2 /\ DOMAIN buf = 1 .. n - 2
    BY ONLY <1>3, two \in ByteText, Len(two) = 2, buf \in ByteText DEF ByteText
  <2>2. \A i \in 1 .. n - 2 : s[2 + i] = buf[i]
    <3>1. two \in Seq(Bytes) /\ buf \in Seq(Bytes)
      BY ONLY two \in ByteText, buf \in ByteText DEF ByteText
    <3>2. \A i \in 1 .. Len(two) + Len(buf) : s[i] = IF i <= Len(two) THEN two[i] ELSE buf[i - Len(two)]
      BY ONLY <3>1, ConcatProperties, s = two \o buf
    <3>3. \A i \in 1 .. n : s[i] = IF i <= 2 THEN two[i] ELSE buf[i - 2]
      <4>1. Len(two) + Len(buf) = n
        BY ONLY <1>3, Len(two) = 2
      <4> QED
        BY ONLY <3>2, <4>1, Len(two) = 2
    <3>4. \A i \in 1 .. n - 2 : 2 + i \in 1 .. n /\ ~(2 + i <= 2) /\ (2 + i) - 2 = i
      BY ONLY <1>3
    <3> QED
      BY ONLY <3>3, <3>4
  <2>3. \A i \in 1 .. n - 2 : 2 + i = i + 2
    BY ONLY <1>3
  <2> QED
    BY ONLY <2>2, <2>3
<1>7. z = buf
  <2>1. z \in ByteText /\ buf \in ByteText /\ Len(z) = n - 2 /\ Len(buf) = n - 2
    BY ONLY <1>3, <1>5, buf \in ByteText
  <2>2. \A i \in 1 .. n - 2 : z[i] = buf[i]
    BY ONLY <1>5, <1>6
  <2> QED
    BY ONLY <1>3, <2>1, <2>2, SameText
<1> QED
  BY ONLY <1>2, <1>3, <1>4, <1>7

\* A sequence ends: its text is out, and it was passed on or carried out.
LEMMA SequenceEndsKeeps ==
  ASSUME C_Inv, NEW ch \in Bytes, SequenceEnds(ch)
  PROVE  C_Inv'
<1>1. ColorTypes /\ BufferStages /\ Sequence /\ Loop
  BY DEF C_Inv
<1>2. /\ meant \in Meanings /\ mode \in {"Discard", "Output"} /\ paramStartBuf \in ByteText
      /\ paramBuf \in ByteText /\ seq \in ByteText /\ WAttributes \subseteq Bits
      /\ call \in WriteCalls /\ call.p \in ByteText /\ call.last \in Int /\ call.text \in Nat
      /\ meant.shown \in ByteText /\ meant.wrote \in ByteText /\ meant.owed \in Int /\ meant.odd \in BOOLEAN
  BY ONLY <1>1 DEF ColorTypes, WriteCalls, Meanings, seq
<1>3. PICK T, whole, out, n : /\ T = SubSeq(call.p, 1, call.last)
                              /\ whole = paramStartBuf \o Append(paramBuf, ch)
                              /\ out = IF PassedOn(ch) THEN T \o whole ELSE T
                              /\ n = Len(T) + Len(whole)
  OBVIOUS
<1>4. /\ call.pc = "loop" /\ state = "second" /\ ~isParameterChar(ch) /\ call.last >= 0
      /\ Means(ch, out, n)
      /\ WAttributes' = IF parseEscapeSequence(ch) = "changedColor"
                        THEN changeColor(WAttributes, paramBuf) ELSE WAttributes
      /\ state' = "outside" /\ paramStartBuf' = <<>> /\ paramBuf' = <<>>
      /\ call' = [call EXCEPT !.p = <<>>, !.last = 0, !.text = 0]
      /\ mode' = mode
  BY <1>3 DEF SequenceEnds, EndsSequence
<1>5. /\ T \in ByteText /\ Append(paramBuf, ch) \in ByteText /\ whole \in ByteText /\ out \in ByteText
      /\ n \in Int /\ Len(T) = call.last
  <2>1. call.last \in Nat /\ call.last <= Len(call.p)
    BY ONLY <1>1, <1>2, <1>4 DEF BufferStages
  <2>2. T \in ByteText /\ Len(T) = call.last
    BY ONLY <1>2, <1>3, <2>1, Beginnings
  <2>3. Append(paramBuf, ch) \in ByteText
    BY ONLY <1>2, Texts, ch \in Bytes
  <2>4. whole \in ByteText
    BY ONLY <1>2, <1>3, <2>3, Texts
  <2>5. T \o whole \in ByteText
    BY ONLY <2>2, <2>4, Texts
  <2>6. n \in Int
    <3>1. Len(T) \in Nat /\ Len(whole) \in Nat
      BY ONLY <2>2, <2>4, Texts
    <3>2. Len(T) + Len(whole) \in Int
      BY ONLY <3>1
    <3> QED
      BY ONLY <1>3, <3>2
  <2>7. out \in ByteText
    BY ONLY <1>3, <2>2, <2>5
  <2> QED
    BY ONLY <2>2, <2>3, <2>4, <2>6, <2>7
<1>6. /\ meant' \in Meanings /\ meant'.failed = meant.failed
      /\ ~meant.failed =>
            /\ meant'.seq = seqAfter(ch)
            /\ meant'.attr = IF Len(seq) >= 2 /\ ch = sgrCode /\ ~PassedOn(ch)
                             THEN separately(meant.attr, Codes(SubSeq(seq, 3, Len(seq)))) ELSE meant.attr
            /\ meant'.odd = (meant.odd \/ (Len(seq) = 1 /\ ch # secondeCsiChar))
            /\ ~meant'.odd =>
                   /\ meant'.owed = meant.owed + 1 - n
                   /\ \A x \in ByteText : meant.shown \o visible(ch) = (meant.wrote \o out) \o x =>
                          meant'.shown = meant'.wrote \o x
  BY ONLY <1>2, <1>4, <1>5, Meant, ch \in Bytes
<1>7. /\ call' \in WriteCalls /\ call'.pc = "loop" /\ call'.p = <<>> /\ call'.last = 0 /\ call'.text = 0
      /\ call'.afterEsc = call.afterEsc
  <2>1. <<>> \in ByteText /\ 0 \in Int /\ 0 \in Nat
    BY Texts
  <2>2. call' \in WriteCalls
    BY ONLY <1>2, <1>4, <2>1 DEF WriteCalls
  <2> QED
    BY ONLY <1>2, <1>4, <2>2 DEF WriteCalls
<1>8. ColorTypes'
  <2>1. WAttributes' \subseteq Bits
    <3>1. changeColor(WAttributes, paramBuf) \subseteq Bits
      BY ONLY <1>2, ColorChanged DEF ByteText
    <3> QED
      BY ONLY <1>2, <1>4, <3>1
  <2> QED
    BY ONLY <1>2, <1>4, <1>6, <1>7, <2>1, Texts DEF ColorTypes
<1>9. BufferStages'
  <2>1. mode = "Output" => ~call.afterEsc
    BY ONLY <1>1, <1>4 DEF BufferStages
  <2>2. Len(<<>>) = 0 /\ 0 <= 0 /\ ~(0 < 0)
    OBVIOUS
  <2> QED
    BY ONLY <1>4, <1>7, <2>1, <2>2 DEF BufferStages
<1>10. ASSUME ~meant.failed
       PROVE  /\ seq = <<firstCsiChar, secondeCsiChar>> \o paramBuf
              /\ ~meant.odd => paramStartBuf = <<firstCsiChar, secondeCsiChar>>
              /\ Len(seq) >= 2 /\ SubSeq(seq, 3, Len(seq)) = paramBuf
              /\ seqAfter(ch) = <<>>
              /\ visible(ch) = IF PassedOn(ch) THEN Append(seq, ch) ELSE <<>>
  <2>1. /\ seq = <<firstCsiChar, secondeCsiChar>> \o paramBuf
        /\ ~meant.odd => paramStartBuf = <<firstCsiChar, secondeCsiChar>>
    BY ONLY <1>1, <1>4, <1>10 DEF Sequence, Begun
  <2>2. <<firstCsiChar, secondeCsiChar>> \in ByteText /\ Len(<<firstCsiChar, secondeCsiChar>>) = 2
    BY BytesDiffer DEF ByteText
  <2>3. Len(seq) >= 2 /\ SubSeq(seq, 3, Len(seq)) = paramBuf
    BY ONLY <1>2, <2>1, <2>2, Parameters
  <2> QED
    BY ONLY <1>2, <1>4, <2>1, <2>3, NextBytes, ch \in Bytes
<1>11. Sequence'
  <2>1. ASSUME ~meant'.failed PROVE WAttributes' = meant'.attr
    <3>1. ~meant.failed
      BY <1>6, <2>1
    <3>2. PICK a : a = meant'.attr
      OBVIOUS
    <3>3. a = IF Len(seq) >= 2 /\ ch = sgrCode /\ ~PassedOn(ch)
              THEN separately(meant.attr, Codes(SubSeq(seq, 3, Len(seq)))) ELSE meant.attr
      BY ONLY <1>6, <3>1, <3>2
    <3>4. Len(seq) >= 2 /\ SubSeq(seq, 3, Len(seq)) = paramBuf
      BY ONLY <1>10, <3>1
    <3>5. a = IF parseEscapeSequence(ch) = "changedColor" THEN changeColor(WAttributes, paramBuf)
              ELSE WAttributes
      BY ONLY <1>1, <1>4, <3>1, <3>3, <3>4, ColorAtEnd, ch \in Bytes
    <3> QED
      BY ONLY <1>4, <3>2, <3>5
  <2>2. ASSUME ~meant'.failed PROVE meant'.seq = <<>>
    BY ONLY <1>6, <1>10, <2>2
  <2>3. seq' = meant'.seq
    BY DEF seq
  <2> QED
    BY ONLY <1>4, <1>7, <2>1, <2>2, <2>3 DEF Sequence, Begun
<1>12. ASSUME ~meant'.failed, ~meant'.odd PROVE Pending'
  <2>1. ~meant.failed
    BY ONLY <1>6, <1>12
  <2>2. ~meant.odd
    BY ONLY <1>2, <1>6, <1>12, <2>1
  <2>3. Pending
    BY ONLY <1>1, <1>4, <2>1, <2>2 DEF Loop
  <2>4. /\ meant.shown = meant.wrote \o SubSeq(call.p, 1, call.text)
        /\ meant.owed = call.text + Len(seq)
        /\ call.last = call.text
    <3>1. /\ meant.shown = meant.wrote \o SubSeq(call.p, 1, call.text)
          /\ meant.owed = call.text + Len(seq)
          /\ call.last = call.text \/ (call.last < 0 /\ call.text = 0)
      BY ONLY <1>4, <2>3 DEF Pending
    <3>2. ~(call.last < 0)
      BY ONLY <1>2, <1>4
    <3> QED
      BY ONLY <3>1, <3>2
  <2>5. whole = Append(seq, ch)
    <3>1. PICK two : two = <<firstCsiChar, secondeCsiChar>>
      OBVIOUS
    <3>2. two \in ByteText
      BY ONLY <3>1, BytesDiffer DEF ByteText
    <3>3. two \o Append(paramBuf, ch) = Append(two \o paramBuf, ch)
      BY ONLY <1>2, <3>2, AppendLast, ch \in Bytes
    <3> QED
      BY ONLY <1>3, <1>10, <2>1, <2>2, <3>1, <3>3
  <2>6. meant.shown \o visible(ch) = (meant.wrote \o out) \o <<>>
    <3>1. PICK w : w = meant.wrote
      OBVIOUS
    <3>2. w \in ByteText /\ meant.shown = w \o T
      BY ONLY <1>2, <1>3, <2>4, <3>1
    <3>3. CASE PassedOn(ch)
      <4>1. out = T \o whole /\ visible(ch) = whole
        BY ONLY <1>3, <1>10, <2>1, <2>5, <3>3
      <4>2. (w \o T) \o whole = w \o (T \o whole)
        BY ONLY <1>5, <3>2, ThreeTexts
      <4>3. w \o (T \o whole) \in ByteText
        BY ONLY <1>5, <3>2, <4>1, Texts
      <4>4. (w \o (T \o whole)) \o <<>> = w \o (T \o whole)
        BY ONLY <4>3, Texts
      <4> QED
        BY ONLY <3>1, <3>2, <4>1, <4>2, <4>4
    <3>4. CASE ~PassedOn(ch)
      <4>1. out = T /\ visible(ch) = <<>>
        BY ONLY <1>3, <1>10, <2>1, <3>4
      <4> QED
        BY ONLY <3>1, <3>2, <4>1
    <3> QED
      BY ONLY <3>3, <3>4
  <2>7. meant'.shown = meant'.wrote \o <<>>
    BY ONLY <1>6, <1>12, <2>1, <2>6, Texts
  <2>8. SubSeq(<<>>, 1, 0) = <<>> /\ <<>> \o <<>> = <<>> /\ Len(<<>>) = 0 /\ 0 <= 0
    BY Texts, Beginnings
  <2>9. meant'.owed = 0 + 0
    <3>1. PICK l, s, o : l = call.text /\ s = Len(seq) /\ o = meant.owed
      OBVIOUS
    <3>2. Len(seq) \in Nat /\ Len(Append(seq, ch)) = Len(seq) + 1
      BY ONLY <1>2, Texts, ch \in Bytes
    <3>3. l \in Nat /\ s \in Nat /\ o = l + s
      BY ONLY <1>2, <2>4, <3>1, <3>2
    <3>4. n = l + (s + 1)
      BY ONLY <1>3, <1>5, <2>4, <2>5, <3>1, <3>2
    <3>5. o + 1 - n = 0 + 0
      BY ONLY <3>3, <3>4
    <3> QED
      BY ONLY <1>6, <1>12, <2>1, <3>1, <3>5
  <2>10. seq' = <<>>
    <3>1. seq' = meant'.seq
      BY DEF seq
    <3> QED
      BY ONLY <1>6, <1>10, <2>1, <3>1
  <2>11. state' # "first" /\ state' # "second"
    BY ONLY <1>4
  <2> QED
    BY ONLY <1>7, <2>7, <2>8, <2>9, <2>10, <2>11 DEF Pending
<1>13. Loop'
  BY ONLY <1>12 DEF Loop
<1>14. ColorInv'
  BY ONLY <1>7 DEF ColorInv, TextKept, ColorsKept, BytesCounted, PanicsAfterEscOnly, Comparable
<1> QED
  BY ONLY <1>8, <1>9, <1>11, <1>13, <1>14 DEF C_Inv

\* A panic ends the Write where it stood.
LEMMA PanicsKeeps ==
  ASSUME C_Inv, NEW ch \in Bytes, Panics(ch)
  PROVE  C_Inv'
<1>1. ColorTypes /\ BufferStages /\ Sequence /\ Loop
  BY DEF C_Inv
<1>2. /\ call.pc = "loop" /\ call.last < 0 /\ call' = [call EXCEPT !.pc = "panicked"]
      /\ mode' = mode /\ console' = console /\ WAttributes' = WAttributes
      /\ state' = state /\ paramStartBuf' = paramStartBuf /\ paramBuf' = paramBuf /\ meant' = meant
  BY DEF Panics, EndsSequence, screen, parsed
<1>3. call \in WriteCalls
  BY ONLY <1>1 DEF ColorTypes
<1>4. /\ call' \in WriteCalls /\ call'.pc = "panicked" /\ call'.p = call.p /\ call'.last = call.last
      /\ call'.afterEsc = call.afterEsc
  BY ONLY <1>2, <1>3 DEF WriteCalls
<1>5. call.afterEsc
  BY ONLY <1>1, <1>2 DEF BufferStages
<1>6. ColorTypes'
  BY ONLY <1>1, <1>2, <1>4 DEF ColorTypes
<1>7. BufferStages'
  BY ONLY <1>1, <1>2, <1>4, <1>5 DEF BufferStages
<1>8. Sequence'
  BY ONLY <1>1, <1>2, <1>4 DEF Sequence, Begun, seq
<1>9. Loop'
  BY ONLY <1>4 DEF Loop
<1>10. ColorInv'
  BY ONLY <1>4, <1>5 DEF ColorInv, TextKept, ColorsKept, BytesCounted, PanicsAfterEscOnly, Comparable
<1> QED
  BY ONLY <1>6, <1>7, <1>8, <1>9, <1>10 DEF C_Inv

\* The record of no Write, and that of nothing meant.
LEMMA Nothings ==
  /\ Idle \in WriteCalls /\ Idle.pc = "idle" /\ Idle.p = <<>> /\ Idle.last = 0 /\ ~Idle.afterEsc
  /\ Nothing \in Meanings
  /\ \A a \in SUBSET Bits : /\ [Nothing EXCEPT !.attr = a] \in Meanings
                            /\ [Nothing EXCEPT !.attr = a].attr = a
                            /\ [Nothing EXCEPT !.attr = a].seq = <<>>
                            /\ [Nothing EXCEPT !.attr = a].shown = <<>>
                            /\ [Nothing EXCEPT !.attr = a].wrote = <<>>
                            /\ [Nothing EXCEPT !.attr = a].owed = 0
                            /\ ~[Nothing EXCEPT !.attr = a].odd
                            /\ ~[Nothing EXCEPT !.attr = a].failed
  /\ [Nothing EXCEPT !.failed = TRUE] \in Meanings /\ [Nothing EXCEPT !.failed = TRUE].failed
<1>1. <<>> \in ByteText /\ defaultAttr \in SUBSET Bits
  BY Texts, ColorConstants
<1>2. Idle \in WriteCalls /\ Idle.pc = "idle" /\ Idle.p = <<>> /\ Idle.last = 0 /\ ~Idle.afterEsc
  BY <1>1 DEF Idle, WriteCalls
<1>3. Nothing \in Meanings
  BY <1>1 DEF Nothing, Meanings
<1>4. PICK m : m = Nothing
  OBVIOUS
<1>5. /\ m \in Meanings /\ m.seq = <<>> /\ m.shown = <<>> /\ m.wrote = <<>> /\ m.owed = 0
      /\ m.odd = FALSE /\ m.failed = FALSE
  BY ONLY <1>3, <1>4 DEF Nothing
<1>6. ASSUME NEW a \in SUBSET Bits
      PROVE  /\ [m EXCEPT !.attr = a] \in Meanings
             /\ [m EXCEPT !.attr = a].attr = a
             /\ [m EXCEPT !.attr = a].seq = <<>>
             /\ [m EXCEPT !.attr = a].shown = <<>>
             /\ [m EXCEPT !.attr = a].wrote = <<>>
             /\ [m EXCEPT !.attr = a].owed = 0
             /\ ~[m EXCEPT !.attr = a].odd
             /\ ~[m EXCEPT !.attr = a].failed
  BY ONLY <1>5, a \in SUBSET Bits DEF Meanings
<1>7. [m EXCEPT !.failed = TRUE] \in Meanings /\ [m EXCEPT !.failed = TRUE].failed
  BY ONLY <1>5 DEF Meanings
<1> QED
  BY ONLY <1>2, <1>3, <1>4, <1>6, <1>7

\* Between two Writes, after the console has failed: nothing is compared.
LEMMA AfterFailure ==
  ASSUME C_Inv, call' = Idle, meant' = [Nothing EXCEPT !.failed = TRUE], mode' = mode,
         WAttributes' = WAttributes, state' = state, paramStartBuf' \in ByteText, paramBuf' \in ByteText,
         state = "outside" => paramStartBuf' = <<>>, state # "second" => paramBuf' = <<>>
  PROVE  C_Inv'
<1>1. ColorTypes /\ BufferStages
  BY DEF C_Inv
<1>2. meant' \in Meanings /\ meant'.failed
  BY ONLY Nothings, meant' = [Nothing EXCEPT !.failed = TRUE]
<1>3. call' \in WriteCalls /\ call'.pc = "idle" /\ call'.p = <<>> /\ call'.last = 0 /\ ~call'.afterEsc
  BY ONLY Nothings, call' = Idle
<1>4. ColorTypes'
  BY ONLY <1>1, <1>2, <1>3, mode' = mode, WAttributes' = WAttributes, state' = state,
          paramStartBuf' \in ByteText, paramBuf' \in ByteText DEF ColorTypes
<1>5. BufferStages'
  <2>1. 0 <= Len(<<>>) /\ ~(0 < 0)
    OBVIOUS
  <2> QED
    BY <1>3, <2>1 DEF BufferStages, Idle
<1>6. Sequence' /\ Loop'
  BY ONLY <1>2 DEF Sequence, Loop
<1>7. ColorInv'
  BY ONLY <1>2, <1>3 DEF ColorInv, TextKept, ColorsKept, BytesCounted, PanicsAfterEscOnly, Comparable
<1> QED
  BY ONLY <1>4, <1>5, <1>6, <1>7 DEF C_Inv

\* The console fails inside of a sequence, and Write returns.
LEMMA WriteFailsKeeps ==
  ASSUME C_Inv, NEW ch \in Bytes, WriteFails(ch)
  PROVE  C_Inv'
<1>1. state = "second" /\ call' = Idle /\ meant' = [Nothing EXCEPT !.failed = TRUE]
      /\ mode' = mode /\ WAttributes' = WAttributes /\ state' = state
  BY DEF WriteFails, EndsSequence, screen
<1>2. paramStartBuf \in ByteText /\ paramBuf \in ByteText
  BY DEF C_Inv, ColorTypes
<1>3. <<>> \in ByteText /\ Append(paramBuf, ch) \in ByteText
  BY ONLY <1>2, Texts, ch \in Bytes
<1>4. paramStartBuf' \in ByteText /\ paramBuf' \in ByteText
  BY <1>2, <1>3 DEF WriteFails
<1>5. (state = "outside" => paramStartBuf' = <<>>) /\ (state # "second" => paramBuf' = <<>>)
  BY ONLY <1>1
<1> QED
  BY ONLY <1>1, <1>4, <1>5, AfterFailure, C_Inv

\* The program gives its console up between two Writes.
LEMMA DetachKeeps ==
  ASSUME C_Inv, Detach
  PROVE  C_Inv'
<1>1. /\ mode' = mode /\ WAttributes' = WAttributes /\ call' = call /\ meant' = meant
      /\ state' = state /\ paramStartBuf' = paramStartBuf /\ paramBuf' = paramBuf
      /\ call.pc = "idle"
  BY DEF Detach, parsed
<1>2. ColorTypes' /\ BufferStages' /\ Sequence'
  BY <1>1 DEF C_Inv, ColorTypes, BufferStages, Sequence, Begun, seq
<1>3. Loop' 
  BY ONLY <1>1 DEF Loop
<1>4. ColorInv'
  BY <1>1 DEF C_Inv, ColorInv, TextKept, ColorsKept, BytesCounted, PanicsAfterEscOnly, Comparable, seq
<1> QED
  BY ONLY <1>2, <1>3, <1>4 DEF C_Inv

\* Nothing is pending at the beginning of a Write.
LEMMA PendingNothing ==
  ASSUME call'.p = <<>>, call'.text = 0, call'.last = 0, meant'.shown = <<>>, meant'.wrote = <<>>,
         NEW s, s = seq', s \in ByteText, meant'.owed = Len(s), mode' = "Output" => s = <<>>
  PROVE  Pending'
<1>1. SubSeq(<<>>, 1, 0) = <<>> /\ <<>> \o <<>> = <<>> /\ Len(<<>>) = 0 /\ 0 <= 0
  BY Texts, Beginnings
<1>2. 0 + Len(s) = Len(s)
  <2>1. Len(s) \in Nat
    BY ONLY Texts, s \in ByteText
  <2>2. PICK k : k = Len(s)
    OBVIOUS
  <2> QED
    BY ONLY <2>1, <2>2
<1>3. PICK c, m : c = call' /\ m = meant'
  OBVIOUS
<1>4. /\ c.p = <<>> /\ c.text = 0 /\ c.last = 0 /\ m.shown = <<>> /\ m.wrote = <<>> /\ m.owed = Len(s)
  BY ONLY <1>3, call'.p = <<>>, call'.text = 0, call'.last = 0, meant'.shown = <<>>, meant'.wrote = <<>>,
          meant'.owed = Len(s)
<1>5. /\ c.text <= Len(c.p) /\ m.shown = m.wrote \o SubSeq(c.p, 1, c.text) /\ m.owed = c.text + Len(s)
      /\ mode' = "Output" => c.p = SubSeq(c.p, 1, c.text) \o s
      /\ state' = "outside" => Len(c.p) = c.text
      /\ state' = "first" => Len(c.p) = c.text + 1 \/ c.p = <<>>
      /\ state' = "second" => c.last = c.text \/ (c.last < 0 /\ c.text = 0)
  BY ONLY <1>1, <1>2, <1>4, mode' = "Output" => s = <<>>
<1> QED
  BY ONLY <1>3, <1>5, s = seq' DEF Pending

\* A Write begins: outside of sequences, or inside of the one an earlier Write left.
LEMMA BeginWriteKeeps ==
  ASSUME C_Inv, BeginWrite
  PROVE  C_Inv'
<1>1. ColorTypes /\ BufferStages /\ Sequence /\ ColorInv
  BY DEF C_Inv
<1>2. /\ call.pc = "idle" /\ mode' = mode /\ WAttributes' = WAttributes
      /\ call' = [Idle EXCEPT !.pc = "loop", !.afterEsc = (state' = "first")]
      /\ meant' = IF state' = "outside" THEN [Nothing EXCEPT !.attr = WAttributes]
                  ELSE [meant EXCEPT !.wrote = <<>>, !.shown = <<>>]
      /\ \/ state' = "outside" /\ paramStartBuf' = <<>> /\ paramBuf' = <<>>
         \/ /\ mode # "Output" /\ state' = state
            /\ paramStartBuf' = paramStartBuf /\ paramBuf' = paramBuf
  BY DEF BeginWrite, screen, parsed
<1>3. /\ call' \in WriteCalls /\ call'.pc = "loop" /\ call'.p = <<>> /\ call'.last = 0 /\ call'.text = 0
      /\ call'.afterEsc = (state' = "first")
  <2>1. PICK b : b = (state' = "first")
    OBVIOUS
  <2>2. b \in BOOLEAN
    BY ONLY <2>1
  <2>3. call' = [Idle EXCEPT !.pc = "loop", !.afterEsc = b]
    BY ONLY <1>2, <2>1
  <2>4. <<>> \in ByteText
    BY Texts
  <2>5. call' = [pc |-> "loop", p |-> <<>>, last |-> 0, text |-> 0, afterEsc |-> b]
    BY ONLY <2>3 DEF Idle
  <2> QED
    BY ONLY <2>1, <2>2, <2>4, <2>5 DEF WriteCalls
<1>4. /\ meant \in Meanings /\ WAttributes \in SUBSET Bits /\ mode \in {"Discard", "Output"}
      /\ state \in {"outside", "first", "second"} /\ paramStartBuf \in ByteText /\ paramBuf \in ByteText
      /\ seq \in ByteText
  BY ONLY <1>1 DEF ColorTypes, Meanings, seq
<1>5. ColorInv'
  BY ONLY <1>3 DEF ColorInv, TextKept, ColorsKept, BytesCounted, PanicsAfterEscOnly, Comparable
<1>6. <<>> \in ByteText /\ Len(<<>>) = 0 /\ 0 <= 0 /\ ~(0 < 0)
  BY Texts
<1>7. seq' = meant'.seq
  BY DEF seq
<1>8. CASE state' = "outside"
  <2>1. meant' = [Nothing EXCEPT !.attr = WAttributes]
    BY ONLY <1>2, <1>8
  <2>2. /\ meant' \in Meanings /\ meant'.attr = WAttributes /\ meant'.seq = <<>> /\ meant'.shown = <<>>
        /\ meant'.wrote = <<>> /\ meant'.owed = 0 /\ ~meant'.odd /\ ~meant'.failed
    BY ONLY <1>4, <2>1, Nothings
  <2>3. paramStartBuf' = <<>> /\ paramBuf' = <<>>
    BY ONLY <1>1, <1>2, <1>8 DEF BufferStages
  <2>4. ColorTypes'
    BY ONLY <1>2, <1>3, <1>4, <1>6, <1>8, <2>2, <2>3 DEF ColorTypes
  <2>5. BufferStages'
    BY ONLY <1>3, <1>6, <1>8, <2>3 DEF BufferStages
  <2>6. Sequence'
    BY ONLY <1>2, <1>3, <1>7, <1>8, <2>2 DEF Sequence, Begun
  <2>7. Pending'
    <3>1. PICK s : s = seq'
      OBVIOUS
    <3>2. s = <<>>
      BY ONLY <1>7, <2>2, <3>1
    <3>3. s \in ByteText /\ meant'.owed = Len(s)
      BY ONLY <1>6, <2>2, <3>2
    <3> QED
      BY ONLY <1>3, <2>2, <3>1, <3>2, <3>3, PendingNothing
  <2> QED
    BY ONLY <1>5, <2>4, <2>5, <2>6, <2>7 DEF C_Inv, Loop
<1>9. CASE state' # "outside"
  <2>1. /\ mode = "Discard" /\ state' = state /\ paramStartBuf' = paramStartBuf /\ paramBuf' = paramBuf
        /\ meant' = [meant EXCEPT !.wrote = <<>>, !.shown = <<>>]
    BY ONLY <1>2, <1>4, <1>9
  <2>2. /\ meant' \in Meanings /\ meant'.attr = meant.attr /\ meant'.seq = meant.seq /\ meant'.shown = <<>>
        /\ meant'.wrote = <<>> /\ meant'.owed = meant.owed /\ meant'.odd = meant.odd
        /\ meant'.failed = meant.failed
    BY ONLY <1>4, <1>6, <2>1 DEF Meanings
  <2>3. ColorTypes'
    BY ONLY <1>2, <1>3, <1>4, <2>1, <2>2 DEF ColorTypes
  <2>4. BufferStages'
    <3>1. (state = "outside" => paramStartBuf = <<>>) /\ (state # "second" => paramBuf = <<>>)
      BY ONLY <1>1 DEF BufferStages
    <3>2. mode' # "Output"
      BY ONLY <1>2, <2>1
    <3> QED
      BY ONLY <1>3, <1>6, <2>1, <3>1, <3>2 DEF BufferStages
  <2>5. Sequence'
    <3>1. mode' # "Output" /\ mode = "Discard"
      BY ONLY <1>2, <2>1
    <3>2. ~meant.failed => WAttributes = meant.attr /\ Begun
      BY ONLY <1>1, <3>1 DEF Sequence
    <3> QED
      BY ONLY <1>2, <2>1, <2>2, <3>1, <3>2 DEF Sequence, Begun, seq
  <2>6. ASSUME ~meant'.failed, ~meant'.odd PROVE Pending'
    <3>1. meant.owed = Len(seq)
      BY ONLY <1>1, <1>2, <2>2, <2>6 DEF ColorInv, BytesCounted, Comparable
    <3>2. seq' = seq
      BY ONLY <2>2 DEF seq
    <3>3. PICK s : s = seq'
      OBVIOUS
    <3>4. s \in ByteText /\ meant'.owed = Len(s)
      BY ONLY <1>4, <2>2, <3>1, <3>2, <3>3
    <3>5. mode' # "Output"
      BY ONLY <1>2, <2>1
    <3> QED
      BY ONLY <1>3, <2>2, <3>3, <3>4, <3>5, PendingNothing
  <2>7. Loop'
    BY ONLY <2>6 DEF Loop
  <2> QED
    BY ONLY <1>5, <2>3, <2>4, <2>5, <2>7 DEF C_Inv
<1> QED
  BY ONLY <1>8, <1>9

\* What is compared at the end of a Write agrees, where it is compared.
LEMMA AllOut ==
  ASSUME ColorTypes, Pending, NEW out, NEW s,
         out = IF mode = "Output" \/ state = "outside" THEN call.p ELSE <<>>,
         s = IF mode = "Output" THEN <<>> ELSE seq,
         ~(mode = "Output" \/ state = "outside") => ~(call.text > 0)
  PROVE  /\ (IF mode = "Output" THEN meant.shown \o seq ELSE meant.shown) = (meant.wrote \o out) \o <<>>
         /\ meant.owed - Len(out) = Len(s)
<1>1. /\ call.p \in ByteText /\ call.text \in Nat /\ seq \in ByteText
      /\ meant.shown \in ByteText /\ meant.wrote \in ByteText
  BY DEF ColorTypes, WriteCalls, Meanings, seq
<1>2. /\ call.text <= Len(call.p)
      /\ meant.shown = meant.wrote \o SubSeq(call.p, 1, call.text)
      /\ meant.owed = call.text + Len(seq)
      /\ mode = "Output" => call.p = SubSeq(call.p, 1, call.text) \o seq
      /\ state = "outside" => Len(call.p) = call.text
  BY ONLY Pending DEF Pending
<1>3. PICK w, p, n, S, q : w = meant.wrote /\ p = call.p /\ n = call.text /\ S = SubSeq(call.p, 1, call.text) /\ q = seq
  OBVIOUS
<1>4. /\ w \in ByteText /\ p \in ByteText /\ n \in Nat /\ q \in ByteText /\ n <= Len(p) /\ S = SubSeq(p, 1, n)
      /\ meant.shown = w \o S /\ meant.owed = n + Len(q)
  BY ONLY <1>1, <1>2, <1>3
<1>5. S \in ByteText /\ Len(S) = n
  BY ONLY <1>4, Beginnings
<1>6. Len(q) \in Nat /\ Len(<<>>) = 0 /\ <<>> \in ByteText
  BY ONLY <1>4, Texts
<1>7. PICK k : k = Len(q)
  OBVIOUS
<1>8. CASE mode = "Output"
  <2>1. out = p /\ s = <<>> /\ p = S \o q
    BY ONLY <1>2, <1>3, <1>8, out = IF mode = "Output" \/ state = "outside" THEN call.p ELSE <<>>,
            s = IF mode = "Output" THEN <<>> ELSE seq
  <2>2. (w \o S) \o q = w \o (S \o q)
    <3>1. w \in ByteText /\ S \in ByteText /\ q \in ByteText
      BY ONLY <1>4, <1>5
    <3> QED
      BY ONLY <3>1, ThreeTexts
  <2>3. (w \o p) \o <<>> = w \o p
    <3>1. w \o p \in ByteText
      BY ONLY <1>4, Texts
    <3> QED
      BY ONLY <3>1, Texts
  <2>4. Len(p) = n + k
    <3>1. Len(S \o q) = Len(S) + Len(q)
      BY ONLY <1>4, <1>5, Texts
    <3> QED
      BY ONLY <1>5, <1>7, <2>1, <3>1
  <2>5. (n + k) - (n + k) = 0
    BY ONLY <1>4, <1>6, <1>7
  <2> QED
    BY ONLY <1>3, <1>4, <1>6, <1>7, <1>8, <2>1, <2>2, <2>3, <2>4, <2>5
<1>9. CASE mode # "Output" /\ state = "outside"
  <2>1. out = p /\ s = q /\ Len(p) = n
    BY ONLY <1>2, <1>3, <1>9, out = IF mode = "Output" \/ state = "outside" THEN call.p ELSE <<>>,
            s = IF mode = "Output" THEN <<>> ELSE seq
  <2>2. S = p
    BY ONLY <1>4, <2>1, Beginnings
  <2>3. (w \o p) \o <<>> = w \o p
    <3>1. w \o p \in ByteText
      BY ONLY <1>4, Texts
    <3> QED
      BY ONLY <3>1, Texts
  <2>4. (n + k) - n = k
    BY ONLY <1>4, <1>6, <1>7
  <2> QED
    BY ONLY <1>3, <1>4, <1>7, <1>9, <2>1, <2>2, <2>3, <2>4
<1>10. CASE mode # "Output" /\ state # "outside"
  <2>1. out = <<>> /\ s = q /\ ~(n > 0)
    BY ONLY <1>3, <1>10, out = IF mode = "Output" \/ state = "outside" THEN call.p ELSE <<>>,
            s = IF mode = "Output" THEN <<>> ELSE seq,
            ~(mode = "Output" \/ state = "outside") => ~(call.text > 0)
  <2>2. n = 0
    BY ONLY <1>4, <2>1
  <2>3. S = <<>>
    BY ONLY <1>4, <2>2, Beginnings
  <2>4. w \o <<>> = w
    BY ONLY <1>4, Texts
  <2>5. (0 + k) - 0 = k
    BY ONLY <1>6, <1>7
  <2> QED
    BY ONLY <1>3, <1>4, <1>6, <1>7, <1>10, <2>1, <2>2, <2>3, <2>4, <2>5
<1> QED
  BY ONLY <1>8, <1>9, <1>10

\* A Write returns, all of it done.
LEMMA ReturnsKeeps ==
  ASSUME C_Inv, call.pc = "loop", call' = Idle, mode' = mode, WAttributes' = WAttributes, state' = state,
         paramStartBuf' = paramStartBuf, paramBuf' = paramBuf,
         NEW writes, NEW out, writes = (mode = "Output" \/ state = "outside"),
         out = IF writes THEN call.p ELSE <<>>,
         meant' = Compare([meant EXCEPT
                  !.seq = IF mode = "Output" THEN <<>> ELSE @,
                  !.shown = IF mode = "Output" THEN @ \o seq ELSE @,
                  !.wrote = @ \o out,
                  !.owed = @ - Len(out),
                  !.odd = @ \/ (~writes /\ call.text > 0)])
  PROVE  C_Inv'
<1>1. ColorTypes /\ BufferStages /\ Sequence /\ Loop
  BY DEF C_Inv
<1>2. /\ meant \in Meanings /\ mode \in {"Discard", "Output"} /\ seq \in ByteText /\ call.p \in ByteText
      /\ call.text \in Nat /\ meant.seq \in ByteText /\ meant.attr \in SUBSET Bits /\ meant.shown \in ByteText
      /\ meant.wrote \in ByteText /\ meant.owed \in Int /\ meant.odd \in BOOLEAN /\ meant.failed \in BOOLEAN
      /\ seq = meant.seq
  BY ONLY <1>1 DEF ColorTypes, WriteCalls, Meanings, seq
<1>3. PICK s, w, v, o, b : /\ s = IF mode = "Output" THEN <<>> ELSE seq
                           /\ w = IF mode = "Output" THEN meant.shown \o seq ELSE meant.shown
                           /\ v = meant.wrote \o out
                           /\ o = meant.owed - Len(out)
                           /\ b = (meant.odd \/ (~writes /\ call.text > 0))
  OBVIOUS
<1>4. PICK m : m = [meant EXCEPT !.seq = s, !.shown = w, !.wrote = v, !.owed = o, !.odd = b]
  OBVIOUS
<1>5. meant' = Compare(m)
  <2>1. m = [meant EXCEPT
                  !.seq = IF mode = "Output" THEN <<>> ELSE @,
                  !.shown = IF mode = "Output" THEN @ \o seq ELSE @,
                  !.wrote = @ \o out,
                  !.owed = @ - Len(out),
                  !.odd = @ \/ (~writes /\ call.text > 0)]
    BY ONLY <1>2, <1>3, <1>4 DEF Meanings
  <2> QED
    BY <2>1
<1>6. out \in ByteText /\ Len(out) \in Nat
  <2>1. out \in ByteText
    BY ONLY <1>2, Texts, out = IF writes THEN call.p ELSE <<>>
  <2> QED
    BY ONLY <2>1, Texts
<1>7. s \in ByteText /\ w \in ByteText /\ v \in ByteText /\ o \in Int /\ b \in BOOLEAN
  <2>1. meant.shown \o seq \in ByteText /\ meant.wrote \o out \in ByteText /\ <<>> \in ByteText
    BY ONLY <1>2, <1>6, Texts
  <2>2. o \in Int
    BY ONLY <1>2, <1>3, <1>6
  <2>3. b \in BOOLEAN
    BY ONLY <1>3
  <2> QED
    BY ONLY <1>2, <1>3, <2>1, <2>2, <2>3
<1>8. /\ m \in Meanings /\ m.seq = s /\ m.attr = meant.attr /\ m.shown = w /\ m.wrote = v /\ m.owed = o
      /\ m.odd = b /\ m.failed = meant.failed
  BY ONLY <1>2, <1>4, <1>7 DEF Meanings
<1>9. /\ meant' \in Meanings /\ meant'.seq = s /\ meant'.attr = meant.attr /\ meant'.odd = b
      /\ meant'.failed = meant.failed
      /\ ~b /\ ~meant.failed =>
             /\ meant'.owed = o
             /\ \A x \in ByteText : w = v \o x => meant'.shown = meant'.wrote \o x
  BY ONLY <1>5, <1>8, Compared
<1>10. call' \in WriteCalls /\ call'.pc = "idle" /\ call'.p = <<>> /\ call'.last = 0 /\ ~call'.afterEsc
  BY ONLY Nothings, call' = Idle
<1>11. seq' = s
  BY <1>9 DEF seq
<1>12. ColorTypes'
  BY ONLY <1>1, <1>9, <1>10, mode' = mode, WAttributes' = WAttributes, state' = state,
          paramStartBuf' = paramStartBuf, paramBuf' = paramBuf DEF ColorTypes
<1>13. BufferStages'
  <2>1. 0 <= Len(<<>>) /\ ~(0 < 0)
    OBVIOUS
  <2> QED
    BY <1>1, <1>10, <2>1 DEF BufferStages, Idle
<1>14. Sequence'
  <2>1. ASSUME ~meant'.failed PROVE WAttributes' = meant'.attr
    BY ONLY <1>1, <1>9, <2>1, WAttributes' = WAttributes DEF Sequence
  <2>2. ASSUME ~meant'.failed, mode' = "Discard" PROVE Begun'
    <3>1. Begun /\ s = seq
      BY ONLY <1>1, <1>3, <1>9, <2>2, call.pc = "loop", mode' = mode DEF Sequence
    <3>2. ~meant'.odd => ~meant.odd
      BY ONLY <1>3, <1>9
    <3> QED
      BY ONLY <1>11, <3>1, <3>2, state' = state, paramStartBuf' = paramStartBuf, paramBuf' = paramBuf DEF Begun
  <2>3. ASSUME mode' = "Output" PROVE seq' = <<>>
    BY ONLY <1>3, <1>11, <2>3, mode' = mode
  <2> QED
    BY ONLY <1>10, <2>1, <2>2, <2>3 DEF Sequence
<1>15. Loop'
  BY ONLY <1>10 DEF Loop
<1>16. ASSUME ~meant'.failed, ~meant'.odd PROVE meant'.wrote = meant'.shown /\ meant'.owed = Len(seq')
  <2>1. ~meant.failed /\ ~meant.odd /\ ~(~writes /\ call.text > 0) /\ ~b
    BY ONLY <1>3, <1>9, <1>16
  <2>2. Pending
    BY ONLY <1>1, <2>1, call.pc = "loop" DEF Loop
  <2>3. /\ out = IF mode = "Output" \/ state = "outside" THEN call.p ELSE <<>>
        /\ ~(mode = "Output" \/ state = "outside") => ~(call.text > 0)
    BY ONLY <2>1, writes = (mode = "Output" \/ state = "outside"), out = IF writes THEN call.p ELSE <<>>
  <2>4. /\ (IF mode = "Output" THEN meant.shown \o seq ELSE meant.shown) = (meant.wrote \o out) \o <<>>
        /\ meant.owed - Len(out) = Len(s)
    BY ONLY <1>1, <1>3, <2>2, <2>3, AllOut
  <2>5. w = v \o <<>> /\ o = Len(s)
    BY ONLY <1>3, <2>4
  <2>6. meant'.owed = o /\ meant'.shown = meant'.wrote \o <<>>
    BY ONLY <1>9, <2>1, <2>5, Texts
  <2>7. meant'.wrote \o <<>> = meant'.wrote
    <3>1. meant'.wrote \in ByteText
      BY ONLY <1>9 DEF Meanings
    <3> QED
      BY ONLY <3>1, Texts
  <2> QED
    BY ONLY <1>11, <2>5, <2>6, <2>7
<1>17. ColorInv'
  BY ONLY <1>10, <1>14, <1>16 DEF ColorInv, TextKept, ColorsKept, BytesCounted, PanicsAfterEscOnly, Comparable,
          Sequence
<1> QED
  BY ONLY <1>12, <1>13, <1>14, <1>15, <1>17 DEF C_Inv

\* The end of a Write, whether what is left can be written or not.
LEMMA EndWriteKeeps ==
  ASSUME C_Inv, EndWrite
  PROVE  C_Inv'
<1>1. PICK writes, out : /\ writes = (mode = "Output" \/ state = "outside")
                         /\ out = IF writes THEN call.p ELSE <<>>
  OBVIOUS
<1>2. /\ call.pc = "loop" /\ call' = Idle /\ mode' = mode /\ WAttributes' = WAttributes /\ state' = state
      /\ paramStartBuf' = paramStartBuf /\ paramBuf' = paramBuf
      /\ \/ meant' = Compare([meant EXCEPT
                  !.seq = IF mode = "Output" THEN <<>> ELSE @,
                  !.shown = IF mode = "Output" THEN @ \o seq ELSE @,
                  !.wrote = @ \o out,
                  !.owed = @ - Len(out),
                  !.odd = @ \/ (~writes /\ call.text > 0)])
         \/ meant' = [Nothing EXCEPT !.failed = TRUE]
  BY <1>1 DEF EndWrite, screen, parsed
<1>3. CASE meant' = [Nothing EXCEPT !.failed = TRUE]
  <2>1. /\ paramStartBuf \in ByteText /\ paramBuf \in ByteText
        /\ state = "outside" => paramStartBuf = <<>>
        /\ state # "second" => paramBuf = <<>>
    BY DEF C_Inv, ColorTypes, BufferStages
  <2>2. /\ paramStartBuf' \in ByteText /\ paramBuf' \in ByteText
        /\ state = "outside" => paramStartBuf' = <<>>
        /\ state # "second" => paramBuf' = <<>>
    BY ONLY <1>2, <2>1
  <2> QED
    BY ONLY <1>2, <1>3, <2>2, AfterFailure, C_Inv
<1>4. CASE meant' = Compare([meant EXCEPT
                  !.seq = IF mode = "Output" THEN <<>> ELSE @,
                  !.shown = IF mode = "Output" THEN @ \o seq ELSE @,
                  !.wrote = @ \o out,
                  !.owed = @ - Len(out),
                  !.odd = @ \/ (~writes /\ call.text > 0)])
  BY ONLY <1>1, <1>2, <1>4, ReturnsKeeps, C_Inv
<1> QED
  BY ONLY <1>2, <1>3, <1>4

\* The writer for the console shows the text without the sequences that set its
\* colors, sets the attributes they ask for and counts the bytes, however they are
\* divided into Writes, and only panics after an ESC at the end of a Write
\* (ansiColorWriter.Write, color_windows.go:363-428).
THEOREM ColorsRight == ColorSpec => []ColorInv
<1>1. ColorInit => C_Inv
  <2> SUFFICES ASSUME ColorInit PROVE C_Inv
    OBVIOUS
  <2>1. /\ mode \in {"Discard", "Output"} /\ WAttributes = defaultAttr /\ state = "outside"
        /\ paramStartBuf = <<>> /\ paramBuf = <<>> /\ call = Idle /\ meant = Nothing
    BY DEF ColorInit
  <2>2. call \in WriteCalls /\ call.pc = "idle" /\ call.p = <<>> /\ call.last = 0 /\ ~call.afterEsc
    BY ONLY <2>1, Nothings
  <2>3. meant \in Meanings
    BY ONLY <2>1, Nothings
  <2>4. /\ meant.seq = <<>> /\ meant.attr = defaultAttr /\ meant.shown = <<>> /\ meant.wrote = <<>>
        /\ meant.owed = 0 /\ Len(<<>>) = 0 /\ 0 <= 0 /\ ~(0 < 0) /\ <<>> \in ByteText
    BY <2>1, Texts DEF Nothing
  <2>5. defaultAttr \subseteq Bits
    BY ColorConstants
  <2>6. ColorTypes
    BY ONLY <2>1, <2>2, <2>3, <2>4, <2>5 DEF ColorTypes
  <2>7. BufferStages
    BY ONLY <2>1, <2>2, <2>4 DEF BufferStages
  <2>8. Sequence
    BY ONLY <2>1, <2>2, <2>4 DEF Sequence, Begun, seq
  <2>9. Loop
    BY ONLY <2>2 DEF Loop
  <2>10. ColorInv
    BY ONLY <2>1, <2>2, <2>4 DEF ColorInv, TextKept, ColorsKept, BytesCounted, PanicsAfterEscOnly, Comparable, seq
  <2> QED
    BY ONLY <2>6, <2>7, <2>8, <2>9, <2>10 DEF C_Inv
<1>2. C_Inv /\ [ColorNext]_colorVars => C_Inv'
  <2> SUFFICES ASSUME C_Inv, [ColorNext]_colorVars PROVE C_Inv'
    OBVIOUS
  <2>1. CASE BeginWrite
    BY ONLY <2>1, C_Inv, BeginWriteKeeps
  <2>2. CASE EndWrite
    BY ONLY <2>2, C_Inv, EndWriteKeeps
  <2>3. CASE Detach
    BY ONLY <2>3, C_Inv, DetachKeeps
  <2>4. ASSUME NEW ch \in Bytes, TakeByte(ch) PROVE C_Inv'
    BY ONLY <2>4, C_Inv, ByteKeeps
  <2>5. ASSUME NEW ch \in Bytes, SequenceEnds(ch) PROVE C_Inv'
    BY ONLY <2>5, C_Inv, SequenceEndsKeeps
  <2>6. ASSUME NEW ch \in Bytes, Panics(ch) PROVE C_Inv'
    BY ONLY <2>6, C_Inv, PanicsKeeps
  <2>7. ASSUME NEW ch \in Bytes, WriteFails(ch) PROVE C_Inv'
    BY ONLY <2>7, C_Inv, WriteFailsKeeps
  <2>8. CASE UNCHANGED colorVars
    BY <2>8 DEF colorVars, C_Inv, ColorTypes, BufferStages, Sequence, Begun, Loop, Pending, ColorInv, TextKept,
                ColorsKept, BytesCounted, PanicsAfterEscOnly, Comparable, seq
  <2> QED
    BY <2>1, <2>2, <2>3, <2>4, <2>5, <2>6, <2>7, <2>8 DEF ColorNext
<1>3. C_Inv => ColorInv
  BY DEF C_Inv
<1> QED
  BY <1>1, <1>2, <1>3, PTL DEF ColorSpec

=============================================================================
