----------------------------- MODULE BeeLogger -----------------------------
(* The front end of the logging library (internal/logs/log.go).  Writers call
   the level functions from any goroutine; a message goes to every output
   directly, or, after Async, through the bounded channel msgChan to one
   logger goroutine.  A controller configures, flushes, resets and closes the
   logger; two at once are not modelled, a flush of one would let that of the
   other return (log.go:445).  None of the fields but outputs is ever guarded by the lock for
   its readers, and outputs only against other changes of it.

   Formatting and time stamps are left out: a message is its writer and
   number.  A panic anywhere ends the program (crashed).                     *)
EXTENDS Integers, Sequences, SequencesExt, FiniteSets

CONSTANTS
    Writers,        \* goroutines that log
    Controllers,    \* the goroutine that configures, flushes and closes
    Adapters,       \* registered adapters, "console" among them
    Levels,         \* levels the writers use and SetLevel sets
    msgChanLen,     \* capacity of msgChan
    MaxMsgs,        \* bound: messages of one writer
    MaxCalls        \* bound: calls of one controller

ASSUME BeeLoggerConstants ==
    /\ \E c \in Controllers : Controllers = {c}
    /\ "console" \in Adapters
    /\ Levels \subseteq 0..7 /\ msgChanLen \in Nat \ {0}
    /\ MaxMsgs \in Nat /\ MaxCalls \in Nat

VARIABLES
    level, init, asynchronous,
    outputs,        \* sequence of adapter instances [name, id]
    made,           \* number of instances made so far
    msgChan, chan,  \* the queued messages; "nil", "open" or "closed"
    pool,           \* logMsgPool has been made
    signalChan, sigOpen,
    wg,             \* counter of the WaitGroup
    lock,           \* nobody, or the controller that holds bl.lock
    G,              \* the logger goroutine
    W, C,           \* calls in progress of the writers and controllers
    accepted,       \* messages whose level function has returned
    done,           \* messages for which writeToLoggers has returned
    handed,         \* per instance, the messages given to its WriteMsg
    unflushed,      \* those given to an instance since its last Flush
    crashed

vars == <<level, init, asynchronous, outputs, made, msgChan, chan, pool,
          signalChan, sigOpen, wg, lock, G, W, C, accepted, done, handed,
          unflushed, crashed>>
modes == <<level, init, asynchronous, pool, lock>>
queue == <<msgChan, chan>>
signals == <<signalChan, sigOpen, wg>>
outs == <<outputs, made>>
books == <<accepted, done, handed, unflushed>>

nobody == "nobody"
levelLoggerImpl == -1
None == <<>>
Msgs == Writers \X (1..MaxMsgs)
Idle == [pc |-> "idle", msg |-> None, todo |-> <<>>, sent |-> 0, after |-> {}]

NewLogger ==
    /\ level = 7 /\ init = FALSE /\ asynchronous = FALSE
    /\ outputs = <<[name |-> "console", id |-> 0]>> /\ made = 1
    /\ msgChan = <<>> /\ chan = "nil" /\ pool = FALSE
    /\ signalChan = <<>> /\ sigOpen = TRUE /\ wg = 0 /\ lock = nobody
    /\ crashed = FALSE

Init ==
    /\ NewLogger
    /\ G = [pc |-> "off", msg |-> None, todo |-> <<>>, then |-> "off", sg |-> ""]
    /\ W = [w \in Writers |-> Idle]
    /\ C = [c \in Controllers |-> [pc |-> "idle", call |-> "", calls |-> 0,
                                   before |-> {}]]
    /\ accepted = {} /\ done = {} /\ unflushed = {}
    /\ handed = [i \in 0..(MaxCalls * Cardinality(Controllers) + Cardinality(Msgs)) |-> <<>>]

\* A panic ends every goroutine.
Panic ==
    /\ crashed' = TRUE
    /\ UNCHANGED <<modes, outs, queue, signals, G, W, C, books>>

----------------------------------------------------------------------------
(* Outputs.                                                                  *)

\* A second instance of an adapter and an adapter whose Init fails are refused.
setLogger(outs0, name) ==
    \/ /\ \A i \in DOMAIN outs0 : outs0[i].name # name
       /\ outputs' = Append(outs0, [name |-> name, id |-> made])
       /\ made' = made + 1
    \/ /\ name # "console" \/ \E i \in DOMAIN outs0 : outs0[i].name = name
       /\ outputs' = outs0
       /\ UNCHANGED made

\* One round of the loop of writeToLoggers: the next output of the snapshot
\* taken when the loop started gets the message; with the last, msg is done.
writeTo(todo, msg) ==
    /\ handed' = IF todo = <<>> THEN handed
                 ELSE [handed EXCEPT ![Head(todo).id] = Append(@, msg)]
    /\ unflushed' = IF todo = <<>> THEN unflushed ELSE unflushed \cup {<<Head(todo), msg>>}
    /\ done' = IF Len(todo) <= 1 THEN done \cup {msg} ELSE done

\* The outputs' Flush.
flushAll == unflushed' = {u \in unflushed : \A i \in DOMAIN outputs : outputs[i] # u[1]}

----------------------------------------------------------------------------
(* Writers.                                                                  *)

NextMessage(w) ==
    LET n == W[w].sent + 1
    IN  [pc |-> IF init THEN "mode" ELSE "first", msg |-> <<w, n>>, todo |-> <<>>,
         sent |-> n, after |-> accepted]

\* writeMsg tests without the lock whether the logger was ever configured.
Start(w) ==
    /\ W[w].pc = "idle" /\ W[w].sent < MaxMsgs
    /\ W' = [W EXCEPT ![w] = NextMessage(w)]
    /\ UNCHANGED <<modes, outs, queue, signals, G, C, books, crashed>>

\* ... and gives a logger that was not the console (again), under the lock: by
\* then a SetLogger may have configured it.
AddConsole(w) ==
    /\ W[w].pc = "first" /\ lock = nobody
    /\ setLogger(outputs, "console")
    /\ W' = [W EXCEPT ![w].pc = "mode"]
    /\ UNCHANGED <<modes, queue, signals, G, C, books, crashed>>

\* Emergency ... Debug, Warn, Info, Trace: nothing above the level is logged.
Log(w, l) == l <= level /\ Start(w)

\* The io.Writer of the standard library's loggers ignores the level.
Write(w) == levelLoggerImpl <= level /\ Start(w)

\* Mutant: with the channel full the writer does not wait, it writes the message itself.
ReadMode_FullWrites(w) ==
    /\ W[w].pc = "mode"
    /\ \/ /\ ~asynchronous \/ (chan = "open" /\ Len(msgChan) = msgChanLen)
          /\ W' = [W EXCEPT ![w] = [@ EXCEPT !.pc = "out", !.todo = outputs]]
          /\ UNCHANGED <<modes, outs, queue, signals, G, C, books, crashed>>
       \/ asynchronous /\ (~pool \/ chan = "closed") /\ Panic
       \/ /\ asynchronous /\ pool /\ chan = "open" /\ Len(msgChan) < msgChanLen
          /\ msgChan' = Append(msgChan, W[w].msg)
          /\ accepted' = accepted \cup {W[w].msg}
          /\ W' = [W EXCEPT ![w].pc = "idle"]
          /\ UNCHANGED <<modes, outs, chan, signals, G, C, done, handed, unflushed, crashed>>

\* writeMsg reads asynchronous: it writes the message itself, or needs the pool
\* and room in the channel.  Sending on a closed channel panics.
ReadMode(w) ==
    /\ W[w].pc = "mode"
    /\ \/ /\ ~asynchronous
          /\ W' = [W EXCEPT ![w] = [@ EXCEPT !.pc = "out", !.todo = outputs]]
          /\ UNCHANGED <<modes, outs, queue, signals, G, C, books, crashed>>
       \/ asynchronous /\ (~pool \/ chan = "closed") /\ Panic
       \/ /\ asynchronous /\ pool /\ chan = "open" /\ Len(msgChan) < msgChanLen
          /\ msgChan' = Append(msgChan, W[w].msg)
          /\ accepted' = accepted \cup {W[w].msg}
          /\ W' = [W EXCEPT ![w].pc = "idle"]
          /\ UNCHANGED <<modes, outs, chan, signals, G, C, done, handed, unflushed, crashed>>

\* The loop of writeToLoggers in the writer's own goroutine; the call returns
\* with the last output.
Out(w) ==
    /\ W[w].pc = "out"
    /\ writeTo(W[w].todo, W[w].msg)
    /\ IF Len(W[w].todo) <= 1
       THEN /\ accepted' = accepted \cup {W[w].msg}
            /\ W' = [W EXCEPT ![w] = [@ EXCEPT !.pc = "idle", !.todo = <<>>]]
       ELSE /\ W' = [W EXCEPT ![w].todo = Tail(@)]
            /\ UNCHANGED accepted
    /\ UNCHANGED <<modes, outs, queue, signals, G, C, crashed>>

----------------------------------------------------------------------------
(* The logger goroutine (startLogger, flush).                                *)

\* Receiving from a closed and empty msgChan gives nil, dereferenced at once.
TakeMsg(after) ==
    \/ /\ msgChan # <<>>
       /\ G' = [G EXCEPT !.pc = "write", !.msg = Head(msgChan), !.todo = outputs, !.then = after]
       /\ msgChan' = Tail(msgChan)
       /\ UNCHANGED <<modes, outs, chan, signals, W, C, books, crashed>>
    \/ msgChan = <<>> /\ chan = "closed" /\ after = "select" /\ Panic

SelectMsg == G.pc = "select" /\ TakeMsg("select")

SelectSignal ==
    /\ G.pc = "select" /\ (signalChan # <<>> \/ ~sigOpen)
    /\ G' = [G EXCEPT !.pc = "drain", !.sg = IF signalChan = <<>> THEN "" ELSE Head(signalChan)]
    /\ signalChan' = IF signalChan = <<>> THEN <<>> ELSE Tail(signalChan)
    /\ UNCHANGED <<modes, outs, queue, sigOpen, wg, W, C, books, crashed>>

LoggerWrites ==
    /\ G.pc = "write"
    /\ writeTo(G.todo, G.msg)
    /\ G' = IF Len(G.todo) <= 1
            THEN [G EXCEPT !.pc = G.then, !.msg = None, !.todo = <<>>]
            ELSE [G EXCEPT !.todo = Tail(@)]
    /\ UNCHANGED <<modes, outs, queue, signals, W, C, accepted, crashed>>

\* Mutant: the outputs are flushed and the caller released whatever is still queued.
Drain_StopsEarly ==
    /\ G.pc = "drain"
    /\ flushAll
    /\ G' = [G EXCEPT !.pc = "signalled"]
    /\ UNCHANGED <<modes, outs, queue, signals, W, C, accepted, done, handed, crashed>>

\* flush writes what is queued until nothing is, then flushes the outputs.
Drain ==
    /\ G.pc = "drain"
    /\ \/ TakeMsg("drain")
       \/ /\ msgChan = <<>>
          /\ flushAll
          /\ G' = [G EXCEPT !.pc = "signalled"]
          /\ UNCHANGED <<modes, outs, queue, signals, W, C, accepted, done, handed, crashed>>

\* Mutant: no wg.Done after a flush.
SignalDone_Forgets ==
    /\ G.pc = "signalled"
    /\ IF wg = 0
       THEN Panic
       ELSE /\ wg' = IF G.sg = "close" THEN wg - 1 ELSE wg
            /\ G' = [G EXCEPT !.pc = IF G.sg = "close" THEN "over" ELSE "select"]
            /\ outputs' = IF G.sg = "close" THEN <<>> ELSE outputs
            /\ UNCHANGED <<modes, made, queue, signalChan, sigOpen, W, C, books, crashed>>

\* Mutant: the goroutine ends after a flush too.
SignalDone_Ends ==
    /\ G.pc = "signalled"
    /\ IF wg = 0
       THEN Panic
       ELSE /\ wg' = wg - 1
            /\ G' = [G EXCEPT !.pc = "over"]
            /\ outputs' = IF G.sg = "close" THEN <<>> ELSE outputs
            /\ UNCHANGED <<modes, made, queue, signalChan, sigOpen, W, C, books, crashed>>

\* After a "close" the outputs are destroyed and the goroutine ends.
SignalDone ==
    /\ G.pc = "signalled"
    /\ IF wg = 0
       THEN Panic
       ELSE /\ wg' = wg - 1
            /\ G' = [G EXCEPT !.pc = IF G.sg = "close" THEN "over" ELSE "select"]
            /\ outputs' = IF G.sg = "close" THEN <<>> ELSE outputs
            /\ UNCHANGED <<modes, made, queue, signalChan, sigOpen, W, C, books, crashed>>

startLogger ==
    SelectMsg \/ SelectSignal \/ LoggerWrites \/ Drain \/ SignalDone

----------------------------------------------------------------------------
(* Controllers.                                                              *)

Begins(c, call, pc) ==
    C' = [C EXCEPT ![c] = [pc |-> pc, call |-> call, calls |-> C[c].calls + 1,
                           before |-> accepted]]
Free(c) == C[c].pc = "idle" /\ C[c].calls < MaxCalls
At(c, pc) == C[c].pc = pc
Goes(c, pc) == C' = [C EXCEPT ![c].pc = pc]

SetLevel(c, l) ==
    /\ Free(c) /\ level # l
    /\ level' = l
    /\ Begins(c, "SetLevel", "idle")
    /\ UNCHANGED <<init, asynchronous, pool, lock, outs, queue, signals, G, W, books, crashed>>

\* The first SetLogger drops the console (without destroying it) before it
\* makes the new output: in between there is no output at all.
SetLogger(c) ==
    /\ Free(c) /\ lock = nobody
    /\ lock' = c
    /\ init' = TRUE
    /\ outputs' = IF init THEN outputs ELSE <<>>
    /\ Begins(c, "SetLogger", "making")
    /\ UNCHANGED <<level, asynchronous, pool, made, queue, signals, G, W, books, crashed>>

SetLoggerEnds(c) ==
    /\ At(c, "making")
    /\ \E name \in Adapters : setLogger(outputs, name)
    /\ lock' = nobody
    /\ Goes(c, "idle")
    /\ UNCHANGED <<level, init, asynchronous, pool, queue, signals, G, W, books, crashed>>

\* An adapter is an output once.
DelLogger(c, name) ==
    /\ Free(c) /\ lock = nobody
    /\ \/ \E i \in DOMAIN outputs : outputs[i].name = name /\ outputs' = RemoveAt(outputs, i)
       \/ (\A i \in DOMAIN outputs : outputs[i].name # name) /\ UNCHANGED outputs
    /\ Begins(c, "DelLogger", "idle")
    /\ UNCHANGED <<modes, made, queue, signals, G, W, books, crashed>>

\* Async announces the asynchronous mode before the channel and the pool exist.
Async(c) ==
    /\ Free(c) /\ lock = nobody /\ ~asynchronous
    /\ asynchronous' = TRUE /\ lock' = c
    /\ Begins(c, "Async", "channel")
    /\ UNCHANGED <<level, init, pool, outs, queue, signals, G, W, books, crashed>>

AsyncChannel(c) ==
    /\ At(c, "channel")
    /\ msgChan' = <<>> /\ chan' = "open"
    /\ Goes(c, "starting")
    /\ UNCHANGED <<modes, outs, signals, G, W, books, crashed>>

AsyncStarts(c) ==
    /\ At(c, "starting")
    /\ pool' = TRUE /\ lock' = nobody
    /\ wg' = wg + 1
    /\ G' = [G EXCEPT !.pc = "select"]
    /\ Goes(c, "idle")
    /\ UNCHANGED <<level, init, asynchronous, outs, queue, signalChan, sigOpen, W, books, crashed>>

\* Flush, Close and the Flush inside Reset.
Flush(c, call) ==
    /\ Free(c)
    /\ Begins(c, call, IF asynchronous THEN "signal" ELSE "flush")
    /\ UNCHANGED <<modes, outs, queue, signals, G, W, books, crashed>>

FlushSync(c) ==
    /\ At(c, "flush")
    /\ flushAll
    /\ Goes(c, IF C[c].call = "Flush" THEN "returning" ELSE "destroy")
    /\ UNCHANGED <<modes, outs, queue, signals, G, W, accepted, done, handed, crashed>>

Signal(c) ==
    /\ At(c, "signal")
    /\ \/ ~sigOpen /\ Panic
       \/ /\ sigOpen /\ Len(signalChan) < 1
          /\ signalChan' = Append(signalChan, IF C[c].call = "Close" THEN "close" ELSE "flush")
          /\ Goes(c, "wait")
          /\ UNCHANGED <<modes, outs, queue, sigOpen, wg, G, W, books, crashed>>

Waited(c) ==
    /\ At(c, "wait") /\ wg = 0
    /\ Goes(c, IF C[c].call = "Close" THEN "closeMsgs" ELSE "add")
    /\ UNCHANGED <<modes, outs, queue, signals, G, W, books, crashed>>

Add(c) ==
    /\ At(c, "add")
    /\ wg' = wg + 1
    /\ Goes(c, IF C[c].call = "Flush" THEN "returning" ELSE "destroy")
    /\ UNCHANGED <<modes, outs, queue, signalChan, sigOpen, G, W, books, crashed>>

CloseMsgs(c) ==
    /\ At(c, "closeMsgs")
    /\ \/ chan # "open" /\ Panic
       \/ /\ chan = "open" /\ chan' = "closed"
          /\ Goes(c, "closeSignals")
          /\ UNCHANGED <<modes, outs, msgChan, signals, G, W, books, crashed>>

\* Reset and a synchronous Close destroy the outputs, without the lock.
Destroy(c) ==
    /\ At(c, "destroy")
    /\ outputs' = <<>>
    /\ Goes(c, IF C[c].call = "Close" THEN "closeSignals" ELSE "returning")
    /\ UNCHANGED <<modes, made, queue, signals, G, W, books, crashed>>

CloseSignals(c) ==
    /\ At(c, "closeSignals")
    /\ \/ ~sigOpen /\ Panic
       \/ /\ sigOpen /\ sigOpen' = FALSE
          /\ Goes(c, "returning")
          /\ UNCHANGED <<modes, outs, queue, signalChan, wg, G, W, books, crashed>>

Returns(c) ==
    /\ At(c, "returning")
    /\ Goes(c, "idle")
    /\ UNCHANGED <<modes, outs, queue, signals, G, W, books, crashed>>

----------------------------------------------------------------------------

WriterGoesOn(w) == AddConsole(w) \/ ReadMode(w) \/ Out(w)

ControllerCalls(c) ==
    \/ \E l \in Levels : SetLevel(c, l)
    \/ SetLogger(c)
    \/ \E name \in Adapters : DelLogger(c, name)
    \/ Async(c)
    \/ \E call \in {"Flush", "Close", "Reset"} : Flush(c, call)

ControllerGoesOn(c) ==
    \/ SetLoggerEnds(c) \/ AsyncChannel(c) \/ AsyncStarts(c)
    \/ FlushSync(c) \/ Signal(c) \/ Waited(c) \/ Add(c)
    \/ CloseMsgs(c) \/ Destroy(c) \/ CloseSignals(c) \/ Returns(c)

Next ==
    /\ ~crashed
    /\ \/ \E w \in Writers : Write(w) \/ (\E l \in Levels : Log(w, l)) \/ WriterGoesOn(w)
       \/ \E c \in Controllers : ControllerCalls(c) \/ ControllerGoesOn(c)
       \/ startLogger

\* Go schedules every goroutine; nobody has to make another call.
Fairness ==
    /\ WF_vars(~crashed /\ startLogger)
    /\ \A w \in Writers : WF_vars(~crashed /\ WriterGoesOn(w))
    /\ \A c \in Controllers : WF_vars(~crashed /\ ControllerGoesOn(c))

Spec == Init /\ [][Next]_vars /\ Fairness

----------------------------------------------------------------------------
(* Properties.                                                               *)

B_TypeOK ==
    /\ level \in Levels \cup {7} /\ init \in BOOLEAN /\ asynchronous \in BOOLEAN
    /\ \A i \in DOMAIN outputs : outputs[i].name \in Adapters /\ outputs[i].id \in 0..made
    /\ Len(msgChan) <= msgChanLen /\ chan \in {"nil", "open", "closed"}
    /\ Len(signalChan) <= 1 /\ wg \in 0..2
    /\ lock \in Controllers \cup {nobody}
    /\ accepted \subseteq Msgs /\ done \subseteq Msgs

\* When Flush, Close or Reset returns, every message logged before the call was
\* made has been written to the outputs (log.go:441, "flush all chan data").
FlushDrains ==
    \A c \in Controllers : At(c, "returning") => C[c].before \subseteq done

\* ... and the outputs were flushed after they got those messages, which an
\* output flushed before the queue is drained would miss (log.go:477-492).
FlushedBefore ==
    /\ FlushDrains
    /\ \A c \in Controllers : At(c, "returning") =>
          \A m \in C[c].before, i \in DOMAIN outputs : <<outputs[i], m>> \notin unflushed

\* An output gets a message once, and after every message whose level function
\* had returned before this one's was called, whoever logged it and also when
\* the mode changes in between (log.go:289-297, 329-331).
InOrder ==
    \A i \in DOMAIN handed : \A a, b \in DOMAIN handed[i] : a < b =>
        /\ handed[i][a] # handed[i][b]
        /\ \A w \in Writers : handed[i][a] = W[w].msg => handed[i][b] \notin W[w].after

\* The program panics only while Async is making the channel and the pool
\* (log.go:164-169) or after Close has closed a channel (log.go:457, 465): not
\* because of a flush, a reset or a change of the outputs.
PanicsOnlyAround == crashed => (asynchronous /\ ~pool) \/ chan = "closed" \/ ~sigOpen

\* Every call returns: a writer waiting for room in the channel gets it, a
\* controller waiting for the WaitGroup is released (log.go:294, 444-446).
CallsReturn ==
    /\ \A w \in Writers : W[w].pc # "idle" ~> (W[w].pc = "idle" \/ crashed)
    /\ \A c \in Controllers : C[c].pc # "idle" ~> (C[c].pc = "idle" \/ crashed)

\* A logged message is written, unless the logger is closed under it
\* (log.go:329-331, 479-487).
AcceptedWritten ==
    \A m \in Msgs : m \in accepted ~> (m \in done \/ crashed \/ chan = "closed")

\* The logger's state: its type, what an output was given, and a panic only where
\* Async or Close has left a hole (log.go:112-139, 157-177, 289-297, 453-467).
B_Inv == B_TypeOK /\ InOrder /\ PanicsOnlyAround

=============================================================================
