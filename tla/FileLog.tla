------------------------------ MODULE FileLog ------------------------------
(* The file outputs of the logging library: fileLogWriter (file.go) and
   multiFileLogWriter (multifile.go), which keeps one file for everything and
   one per selected level in the same directory.  A file is rotated when it has
   MaxLines lines and, with Daily, when the day changes: by the first message
   of another day or by a timer goroutine (dailyRotate), whichever comes first.
   Each rotation starts a goroutine that deletes old files (deleteOldLog).

   A line is one message in one log; its length is not modelled, so a limit in
   bytes (MaxSize) is a limit in lines.  Days are counted, the code compares
   days of the month: LastDay stays below a month.  A rotated file's name is its
   log, a date and a number, 0 for a name without number.  The configuration
   includes what the time zone does: the days of 25 hours, and those of 23.  *)
EXTENDS Integers, Sequences, SequencesExt, FiniteSets

CONSTANTS
    full,       \* the log that gets every message
    LevelLogs,  \* the logs of one level, not full
    Writers,    \* goroutines that log
    Queue,      \* the logger goroutine of an asynchronous logger
    Configs,    \* configurations: [MaxLines, Separate, Async, Back, Forward], MaxLines
                \* 0 for no limit, Back and Forward the days of 25 and 23 hours
    Daily, MaxDays,
    MaxNum,     \* largest number of a rotated file (999 in the code)
    LastDay,    \* bound: the last day, below 28
    MaxMsgs,    \* bound: number of messages
    MaxTroubles \* bound: number of failing renames and opens, of Destroys and of restarts

ASSUME FileLogConstants ==
    /\ full \notin LevelLogs /\ Daily \in BOOLEAN
    /\ Configs \subseteq [MaxLines : Nat, Separate : SUBSET LevelLogs, Async : BOOLEAN,
                           Back : SUBSET Nat, Forward : SUBSET Nat]
    /\ MaxNum \in Nat \ {0} /\ MaxDays \in Nat /\ LastDay \in 0..27
    /\ MaxMsgs \in Nat /\ MaxTroubles \in Nat

VARIABLES
    config,     \* the configuration
    today,
    dir,        \* file name -> its file [lines, mtime], or NoFile
    fileWriter, \* log -> "open", "closed", or "unlinked": open and deleted
    maxLinesCurLines, dailyOpenDate,
    up,         \* the logs whose Init is done
    destroyed,  \* Destroy has been called
    timers,     \* log -> for each day, the dailyRotate goroutines that wake then
    deleters,   \* the logs with deleteOldLog goroutines that will find old files
    doomed,     \* names whose files they found old and will remove
    W,          \* WriteMsg calls in progress
    msgs,       \* number of messages so far
    written,    \* <<log, message>>: WriteMsg has returned without an error
    expired,    \* the lines of the files deleted for their age
    troubles,
    orphaned,   \* logs whose open file was deleted, or a new file in an old one's place
    failed,     \* logs whose Init or a rotation of which has failed
    exhausted   \* those it failed for because every name was taken

current == <<fileWriter, maxLinesCurLines, dailyOpenDate>>
goroutines == <<timers, deleters, doomed>>
bounds == <<msgs, troubles>>
vars == <<config, today, dir, fileWriter, maxLinesCurLines, dailyOpenDate,
          up, destroyed, timers, deleters, doomed, W, msgs, written, expired, troubles,
          orphaned, failed, exhausted>>
ledger == <<written, expired, orphaned, failed, exhausted>>

MaxLines == config.MaxLines
AllLogs == {full} \cup LevelLogs
Logs == {full} \cup config.Separate
Callers == IF config.Async THEN {Queue} ELSE Writers
Days == 0..LastDay
NoDate == -1
Never == -2     \* the day of a zero time: 0001-01-01
Midnights == 0..(LastDay + 2)
Filename(l) == <<l, NoDate, 0>>
Rotated(l) == {<<l, d, n>> : d \in Days \cup {Never}, n \in 0..MaxNum}
Names == UNION {Rotated(l) \cup {Filename(l)} : l \in AllLogs}
NoFile == [lines |-> {}, mtime |-> -1]
IsFile(n) == dir[n] # NoFile
NoCall == [pc |-> "idle", msg |-> 0, when |-> 0, todo |-> <<>>]

Init ==
    /\ config \in Configs
    /\ today = 0
    /\ dir = [n \in Names |-> NoFile]
    /\ fileWriter = [l \in AllLogs |-> "closed"]
    /\ maxLinesCurLines = [l \in AllLogs |-> 0] /\ dailyOpenDate = [l \in AllLogs |-> 0]
    /\ up = {} /\ destroyed = FALSE
    /\ timers = [l \in AllLogs |-> [d \in Midnights |-> 0]]
    /\ deleters = {} /\ doomed = {}
    /\ W = [w \in Writers \cup {Queue} |-> NoCall]
    /\ msgs = 0 /\ troubles = 0
    /\ written = {} /\ expired = {} /\ orphaned = {} /\ failed = {} /\ exhausted = {}

----------------------------------------------------------------------------
(* Opening and rotating.                                                     *)

\* Mutant: the file is truncated.
createLogFile_Truncates(l, dir1) ==
    dir' = [dir1 EXCEPT ![Filename(l)] = [lines |-> {}, mtime |-> today]]

\* createLogFile: an existing file is opened for appending, else one is made.
createLogFile(l, dir1) ==
    dir' = IF dir1[Filename(l)] # NoFile THEN dir1
           ELSE [dir1 EXCEPT ![Filename(l)] = [lines |-> {}, mtime |-> today]]

\* dailyRotate waits for the midnight before the time 24 hours from now: the next
\* one; late on the day before one of 23 hours, that after it; early on one of 25
\* hours, the one that has passed.
NextMidnights ==
    {today + 1} \cup {d \in {today} : today \in config.Back}
                \cup {d \in {today + 2} : today + 1 \in config.Forward}

\* initFd: the lines are those the file has; a new timer.
initFd(l, tm) ==
    /\ fileWriter' = [fileWriter EXCEPT ![l] = "open"]
    /\ maxLinesCurLines' = [maxLinesCurLines EXCEPT ![l] = Cardinality(dir'[Filename(l)].lines)]
    /\ dailyOpenDate' = [dailyOpenDate EXCEPT ![l] = today]
    /\ \E midnight \in NextMidnights :
          timers' = IF Daily THEN [tm EXCEPT ![l][midnight] = @ + 1] ELSE tm

startLogger(l, dir1, tm) == createLogFile(l, dir1) /\ initFd(l, tm)

\* The file cannot be opened: the writer keeps what it had, closed or not.
startLoggerFails(l, dir1, closed, tm) ==
    /\ troubles < MaxTroubles
    /\ dir' = dir1
    /\ fileWriter' = IF closed THEN [fileWriter EXCEPT ![l] = "closed"] ELSE fileWriter
    /\ timers' = tm
    /\ UNCHANGED <<maxLinesCurLines, dailyOpenDate>>

\* Mutant: one line too many.
needRotate_Over(l, day) ==
    \/ MaxLines > 0 /\ maxLinesCurLines[l] > MaxLines
    \/ Daily /\ day # dailyOpenDate[l]

needRotate(l, day) ==
    \/ MaxLines > 0 /\ maxLinesCurLines[l] >= MaxLines
    \/ Daily /\ day # dailyOpenDate[l]

\* The free names doRotate may pick, and its choice: the first.
Candidates(l, logTime) ==
    IF MaxLines > 0 THEN {<<l, logTime, n>> : n \in 1..MaxNum}
                    ELSE {<<l, dailyOpenDate[l], n>> : n \in 0..MaxNum}
\* Mutant: the first name, taken or not.
FreeName_Taken(l, logTime) ==
    CHOOSE f \in Candidates(l, logTime) : \A g \in Candidates(l, logTime) : f[3] <= g[3]

FreeName(l, logTime) ==
    CHOOSE f \in Candidates(l, logTime) :
        /\ ~IsFile(f)
        /\ \A g \in Candidates(l, logTime) : ~IsFile(g) => f[3] <= g[3]

\* Files are told apart by the beginning and the end of their names: the log of
\* everything finds those of the levels too.  A file last written MaxDays ago
\* to the day may be older than MaxDays or not yet; none gets old during a day,
\* so that a deleteOldLog that starts without one does nothing.
Owns(l, name) == l = full \/ l = name[1]
Age(name) == today - dir[name].mtime
OldFiles(l) == {n \in Names : IsFile(n) /\ Owns(l, n) /\ Age(n) >= MaxDays}

\* The logger is started again with the directory dir1 that the renaming left.
Restarts(l, dir1, closed, error, tm) ==
    /\ deleters' = IF OldFiles(l) = {} THEN deleters ELSE deleters \cup {l}
    /\ UNCHANGED doomed
    /\ \/ /\ startLogger(l, dir1, tm)
          /\ failed' = IF error THEN failed \cup {l} ELSE failed
          /\ troubles' = IF error THEN troubles + 1 ELSE troubles
       \/ /\ startLoggerFails(l, dir1, closed, tm)
          /\ failed' = failed \cup {l}
          /\ troubles' = troubles + 1

\* tm: the timers, less the one whose goroutine calls.
doRotate(l, logTime, tm) ==
    LET cur == Filename(l)
        free == FreeName(l, logTime)
    IN  IF ~IsFile(cur)
        THEN Restarts(l, dir, FALSE, FALSE, tm) /\ UNCHANGED exhausted
        ELSE IF \A f \in Candidates(l, logTime) : IsFile(f)
        THEN /\ failed' = failed \cup {l} /\ exhausted' = exhausted \cup {l}
             /\ timers' = tm
             /\ UNCHANGED <<dir, current, deleters, doomed, troubles>>
        ELSE /\ \/ Restarts(l, [dir EXCEPT ![free] = dir[cur], ![cur] = NoFile], TRUE, FALSE, tm)
                \/ troubles < MaxTroubles /\ Restarts(l, dir, TRUE, TRUE, tm)
             /\ UNCHANGED exhausted

----------------------------------------------------------------------------
(* The goroutines.                                                           *)

\* Init of the file for everything, then of those of the levels.
InitLog(l) ==
    /\ l \notin up /\ ~destroyed /\ (l = full \/ full \in up)
    /\ startLogger(l, dir, timers)
    /\ up' = up \cup {l}
    /\ UNCHANGED <<config, today, destroyed, deleters, doomed, W, bounds, ledger>>

\* The file of a level cannot be opened, which multiFileLogWriter ignores: a
\* writer without a file, whose first rotation may open one.
InitFails(l) ==
    /\ l \in config.Separate /\ l \notin up /\ ~destroyed /\ full \in up
    /\ troubles < MaxTroubles
    /\ fileWriter' = [fileWriter EXCEPT ![l] = "closed"]
    /\ maxLinesCurLines' = [maxLinesCurLines EXCEPT ![l] = 0]
    /\ dailyOpenDate' = [dailyOpenDate EXCEPT ![l] = Never]
    /\ up' = up \cup {l} /\ failed' = failed \cup {l} /\ troubles' = troubles + 1
    /\ UNCHANGED <<config, today, dir, destroyed, goroutines, W, msgs, written, expired, orphaned,
                   exhausted>>

\* A message goes to the log of everything and to its level's.  One that waited
\* in the queue of an asynchronous logger may be of the day before.
WriteMsg(w) ==
    /\ W[w].pc = "idle" /\ msgs < MaxMsgs /\ up = Logs /\ ~destroyed
    /\ \E todo \in {<<full>>} \cup {<<full, l>> : l \in config.Separate},
          when \in {today} \cup {d \in Days : config.Async /\ d = today - 1} :
          W' = [W EXCEPT ![w] = [pc |-> "check", msg |-> msgs + 1, when |-> when, todo |-> todo]]
    /\ msgs' = msgs + 1
    /\ UNCHANGED <<config, today, dir, current, goroutines, up, destroyed, ledger,
                   troubles>>

\* Under the read lock: is a rotation due?
Check(w) ==
    /\ W[w].pc = "check"
    /\ W' = [W EXCEPT ![w].pc = IF needRotate(Head(W[w].todo), W[w].when) THEN "rotate" ELSE "write"]
    /\ UNCHANGED <<config, today, dir, current, goroutines, up, destroyed, bounds,
                   ledger>>

\* Under the write lock: still due?
Rotate(w) ==
    LET l == Head(W[w].todo) IN
    /\ W[w].pc = "rotate"
    /\ IF needRotate(l, W[w].when)
       THEN doRotate(l, W[w].when, timers)
       ELSE UNCHANGED <<dir, current, goroutines, troubles, failed, exhausted>>
    /\ W' = [W EXCEPT ![w].pc = "write"]
    /\ UNCHANGED <<config, today, up, destroyed, msgs, written, expired,
                   orphaned>>

\* A call goes on with its level's log, or ends.
NextLog(call) ==
    IF Len(call.todo) = 1 THEN NoCall
    ELSE [call EXCEPT !.pc = "check", !.todo = Tail(call.todo)]

\* Under the write lock again: the line goes to whatever file is open now.
Write(w) ==
    LET l == Head(W[w].todo) IN
    /\ W[w].pc = "write"
    /\ W' = [W EXCEPT ![w] = NextLog(W[w])]
    /\ LET line == <<l, W[w].msg, W[w].when>> IN
       /\ dir' = IF fileWriter[l] # "open" THEN dir
                 ELSE [dir EXCEPT ![Filename(l)] = [lines |-> @.lines \cup {line}, mtime |-> today]]
       /\ IF fileWriter[l] = "closed"
          THEN UNCHANGED <<maxLinesCurLines, written>>
          ELSE /\ maxLinesCurLines' = [maxLinesCurLines EXCEPT ![l] = @ + 1]
               /\ written' = written \cup {line}
    /\ UNCHANGED <<config, today, fileWriter, dailyOpenDate, goroutines, up, destroyed,
                   bounds, expired, orphaned, failed, exhausted>>

\* The timer of a file opened earlier.
dailyRotate(l) ==
    \E d \in 0..today :
        /\ timers[l][d] > 0
        /\ LET tm == [timers EXCEPT ![l][d] = @ - 1] IN
           IF needRotate(l, today)
           THEN doRotate(l, today, tm)
           ELSE /\ timers' = tm
                /\ UNCHANGED <<dir, current, deleters, doomed, troubles, failed, exhausted>>
        /\ UNCHANGED <<config, today, up, destroyed, W, msgs, written, expired,
                       orphaned>>

\* The walk finds old files.
deleteOldLog(l) ==
    /\ l \in deleters
    /\ deleters' = deleters \ {l}
    /\ \E old \in SUBSET OldFiles(l) :
          /\ \A n \in OldFiles(l) : Age(n) > MaxDays => n \in old
          /\ doomed' = doomed \cup old
    /\ UNCHANGED <<config, today, dir, current, timers, up, destroyed, W, bounds, ledger>>

\* It removes one, or what has its name by now.
RemoveOld(n) ==
    LET cut == {l \in Logs : Filename(l) = n /\ fileWriter[l] = "open"}
        new == {l \in {n[1]} : IsFile(n) /\ Age(n) < MaxDays}
    IN  /\ n \in doomed
        /\ doomed' = doomed \ {n}
        /\ dir' = [dir EXCEPT ![n] = NoFile]
        /\ expired' = expired \cup dir[n].lines
        /\ fileWriter' = [l \in AllLogs |-> IF l \in cut THEN "unlinked" ELSE fileWriter[l]]
        /\ orphaned' = orphaned \cup cut \cup new
        /\ UNCHANGED <<config, today, maxLinesCurLines, dailyOpenDate, timers, deleters, up,
                       destroyed, W, bounds, written, failed, exhausted>>

\* Destroy of every log, under no lock; the timers stay.
Destroy ==
    /\ up = Logs /\ ~destroyed /\ troubles < MaxTroubles
    /\ destroyed' = TRUE /\ troubles' = troubles + 1
    /\ fileWriter' = [l \in AllLogs |-> "closed"]
    /\ UNCHANGED <<config, today, dir, maxLinesCurLines, dailyOpenDate, goroutines, up, W, msgs,
                   ledger>>

\* The program ends or crashes at any moment, and may start again.
Stop ==
    /\ troubles < MaxTroubles
    /\ troubles' = troubles + 1
    /\ up' = {} /\ destroyed' = FALSE
    /\ fileWriter' = [l \in AllLogs |-> "closed"]
    /\ timers' = [l \in AllLogs |-> [d \in Midnights |-> 0]]
    /\ deleters' = {} /\ doomed' = {}
    /\ W' = [w \in Writers \cup {Queue} |-> NoCall]
    /\ UNCHANGED <<config, today, dir, maxLinesCurLines, dailyOpenDate, msgs, ledger>>

\* The goroutines due get to run, and Init to its end, before a day has passed.
NextDay ==
    /\ today < LastDay /\ up \in {{}, Logs}
    /\ deleters = {} /\ doomed = {} /\ \A l \in Logs, d \in 0..today : timers[l][d] = 0
    /\ today' = today + 1
    /\ UNCHANGED <<config, dir, current, goroutines, up, destroyed, W, bounds, ledger>>

Next ==
    \/ \E w \in Callers : WriteMsg(w) \/ Check(w) \/ Rotate(w) \/ Write(w)
    \/ \E l \in Logs : InitLog(l) \/ InitFails(l) \/ dailyRotate(l) \/ deleteOldLog(l)
    \/ \E n \in doomed : RemoveOld(n)
    \/ Destroy \/ Stop \/ NextDay

Spec == Init /\ [][Next]_vars

----------------------------------------------------------------------------
(* Properties.                                                               *)

F_TypeOK ==
    /\ today \in Days /\ config \in Configs
    /\ \A n \in Names : dir[n].mtime \in -1..today /\ dir[n].lines \subseteq AllLogs \X (1..MaxMsgs) \X Days
    /\ fileWriter \in [AllLogs -> {"open", "closed", "unlinked"}]
    /\ maxLinesCurLines \in [AllLogs -> Nat] /\ dailyOpenDate \in [AllLogs -> Days \cup {Never}]
    /\ up \subseteq Logs /\ exhausted \subseteq failed /\ failed \subseteq Logs
    /\ destroyed \in BOOLEAN /\ troubles <= MaxTroubles

Kept(a) ==
    \/ a \in expired
    \/ \E n \in Names : n[1] = a[1] /\ a \in dir[n].lines

\* A line WriteMsg wrote is found in a file of its log until that file is
\* deleted for its age, whatever rotations, failures of them and restarts came
\* in between (file.go:122-153, 235-311), unless the file was deleted while it
\* was open or in the place of another.
LinesKept == \A a \in written : a[1] \notin orphaned => Kept(a)

\* A file has no more lines than MaxLines and the writers that passed the check
\* with it, unless a rotation or the Init of its log failed (file.go:115-120,
\* 129-151, 182-188): after a restart, too, where the lines are counted.
LimitKept ==
    \A n \in Names :
        MaxLines > 0 /\ n[1] \notin failed =>
            Cardinality(dir[n].lines) <= MaxLines + Cardinality(Callers) - 1

\* With daily rotation only, a file named for a day holds no line of a later
\* day, however late its messages come, whatever fails and however long the days
\* are, unless all names of a day were taken (file.go:252-263).  The file that is
\* there for a log whose Init failed gets a name of no day, 0001-01-01, with lines
\* of any (multifile.go:70).
NamedByDay ==
    \A n \in Names :
        n[2] \in Days /\ MaxLines = 0 /\ n[1] \notin exhausted =>
            \A a \in dir[n].lines : a[3] <= n[2]

\* Once a file has its rotated name nothing is written to it and no later
\* rotation takes its name (file.go:247-270).
RotatedFrozen ==
    [][\A n \in Names : n[2] # NoDate /\ IsFile(n) =>
          dir'[n] \in {NoFile, dir[n]}]_vars

\* As long as neither its Init nor a rotation of it failed, a log with Daily has a
\* timer for the midnight after its file was opened, so that it is rotated then
\* even if nobody logs (file.go:179-181, 192-204): not a file opened on a day of
\* 25 hours, or before one of 23, which may have none (file.go:193).
NextRotationPlanned ==
    \A l \in up :
        /\ Daily /\ l \notin failed
        /\ dailyOpenDate[l] \notin config.Back /\ dailyOpenDate[l] + 1 \notin config.Forward
        => timers[l][dailyOpenDate[l] + 1] > 0

\* The open files and their timers: how many lines a file has, of which days, and
\* that the next midnight is planned for (file.go:115-153, 169-204, 235-288).
F_Inv == F_TypeOK /\ LimitKept /\ NamedByDay /\ NextRotationPlanned

=============================================================================
