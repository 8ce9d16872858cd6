----------------------------- MODULE ConnWriter -----------------------------
(* The logging library's output to a TCP connection (connWriter, conn.go).  It
   has no lock of its own but that of println: with a synchronous logger every
   goroutine that logs runs WriteMsg, with an asynchronous one only one does.
   The collector's end of a connection may break at any time; writing to it then
   fails, and println does not look.                                         *)
EXTENDS Integers, Sequences, SequencesExt, FiniteSets

CONSTANTS
    Loggers,    \* goroutines that log
    MaxSent,    \* bound: messages
    MaxDials    \* bound: calls of Dial

ASSUME ConnConstants == Loggers # {} /\ MaxSent \in Nat /\ MaxDials \in Nat

VARIABLES
    ReconnectOnMsg, Reconnect,  \* the configuration; Reconnect is reset by the first message
    alone,       \* one goroutine calls: the logger is asynchronous
    innerWriter, \* the current connection, or 0
    lg,          \* the connection println writes to, or 0
    conns,       \* the connections: "open", "closed" here, or "broken"
    tasks,       \* goroutine -> its WriteMsg
    arrived,     \* connection -> the messages that went over it
    lost,        \* messages whose write failed
    gone,        \* Destroy has been called
    sentMsgs     \* number of messages

connVars == <<ReconnectOnMsg, Reconnect, alone, innerWriter, lg, conns, tasks, arrived, lost, gone, sentMsgs>>
sinks == <<ReconnectOnMsg, alone, lg, conns, arrived, lost, gone>>

NoTask == [pc |-> "idle", msg |-> 0, mine |-> 0]
Active == IF alone THEN {CHOOSE g \in Loggers : TRUE} ELSE Loggers

ConnInit ==
    /\ ReconnectOnMsg \in BOOLEAN /\ Reconnect \in BOOLEAN /\ alone \in BOOLEAN
    /\ innerWriter = 0 /\ lg = 0
    /\ conns = <<>> /\ arrived = <<>>
    /\ tasks = [g \in Loggers |-> NoTask]
    /\ lost = {} /\ gone = FALSE /\ sentMsgs = 0

Step(g, pc) == tasks' = [tasks EXCEPT ![g].pc = pc]
\* A broken connection stays one.
Closed(c) == IF c = 0 \/ conns[c] = "broken" THEN conns ELSE [conns EXCEPT ![c] = "closed"]

\* needToConnectOnMsg.
connWriteMsg(g) ==
    /\ tasks[g].pc = "idle" /\ ~gone /\ sentMsgs < MaxSent
    /\ sentMsgs' = sentMsgs + 1
    /\ Reconnect' = FALSE
    /\ tasks' = [tasks EXCEPT ![g] =
          [pc |-> IF Reconnect \/ innerWriter = 0 \/ ReconnectOnMsg THEN "connect" ELSE "deferred",
           msg |-> sentMsgs + 1, mine |-> 0]]
    /\ UNCHANGED <<sinks, innerWriter>>

\* connect first gives up the connection there is.
Disconnect(g) ==
    /\ tasks[g].pc = "connect"
    /\ conns' = Closed(innerWriter)
    /\ innerWriter' = 0
    /\ Step(g, "dial")
    /\ UNCHANGED <<ReconnectOnMsg, Reconnect, alone, lg, arrived, lost, gone, sentMsgs>>

Dial(g) ==
    /\ tasks[g].pc = "dial" /\ Len(conns) < MaxDials
    /\ \/ /\ conns' = Append(conns, "open") /\ arrived' = Append(arrived, <<>>)
          /\ tasks' = [tasks EXCEPT ![g].pc = "assign", ![g].mine = Len(conns) + 1]
       \/ tasks' = [tasks EXCEPT ![g] = NoTask] /\ UNCHANGED <<conns, arrived>>
    /\ UNCHANGED <<ReconnectOnMsg, Reconnect, alone, innerWriter, lg, lost, gone, sentMsgs>>

AssignInner(g) ==
    /\ tasks[g].pc = "assign"
    /\ innerWriter' = tasks[g].mine
    /\ Step(g, "assignLg")
    /\ UNCHANGED <<sinks, Reconnect, sentMsgs>>

AssignLg(g) ==
    /\ tasks[g].pc = "assignLg"
    /\ lg' = tasks[g].mine
    /\ Step(g, "deferred")
    /\ UNCHANGED <<ReconnectOnMsg, Reconnect, alone, innerWriter, conns, arrived, lost, gone, sentMsgs>>

\* With ReconnectOnMsg the connection there is now will be closed at the end: a
\* nil one ends the program.
DeferClose(g) ==
    /\ tasks[g].pc = "deferred"
    /\ tasks' = [tasks EXCEPT
          ![g].mine = IF ReconnectOnMsg THEN innerWriter ELSE 0,
          ![g].pc = IF ReconnectOnMsg /\ innerWriter = 0 THEN "panicked" ELSE "println"]
    /\ UNCHANGED <<sinks, innerWriter, Reconnect, sentMsgs>>

\* lg is the current one, whoever dialled it; its error is not looked at.
println(g) ==
    /\ tasks[g].pc = "println"
    /\ IF lg = 0 THEN Step(g, "panicked") /\ UNCHANGED <<arrived, lost>>
       ELSE /\ Step(g, "close")
            /\ IF conns[lg] = "open"
               THEN arrived' = [arrived EXCEPT ![lg] = Append(@, tasks[g].msg)] /\ UNCHANGED lost
               ELSE lost' = lost \cup {tasks[g].msg} /\ UNCHANGED arrived
    /\ UNCHANGED <<ReconnectOnMsg, Reconnect, alone, innerWriter, lg, conns, gone, sentMsgs>>

\* Mutant: the connection of the message is not closed.
Close_KeepsOpen(g) ==
    /\ tasks[g].pc = "close"
    /\ tasks' = [tasks EXCEPT ![g] = NoTask]
    /\ UNCHANGED <<sinks, innerWriter, Reconnect, sentMsgs>>

Close(g) ==
    /\ tasks[g].pc = "close"
    /\ conns' = Closed(tasks[g].mine)
    /\ tasks' = [tasks EXCEPT ![g] = NoTask]
    /\ UNCHANGED <<ReconnectOnMsg, Reconnect, alone, innerWriter, lg, arrived, lost, gone, sentMsgs>>

\* From another goroutine, with writes under way or not: the connection is closed
\* but not forgotten.
connDestroy ==
    /\ ~gone /\ gone' = TRUE
    /\ conns' = Closed(innerWriter)
    /\ UNCHANGED <<ReconnectOnMsg, Reconnect, alone, innerWriter, lg, arrived, lost, sentMsgs, tasks>>

\* External: the collector goes away.
Break(c) ==
    /\ conns[c] = "open"
    /\ conns' = [conns EXCEPT ![c] = "broken"]
    /\ UNCHANGED <<ReconnectOnMsg, Reconnect, alone, innerWriter, lg, arrived, lost, gone, sentMsgs, tasks>>

Panicked == \E g \in Loggers : tasks[g].pc = "panicked"

ConnNext ==
    /\ ~Panicked
    /\ \/ \E g \in Active : \/ connWriteMsg(g) \/ Disconnect(g) \/ Dial(g) \/ AssignInner(g) \/ AssignLg(g)
                            \/ DeferClose(g) \/ println(g) \/ Close(g)
       \/ \E c \in DOMAIN conns : Break(c)
       \/ connDestroy

ConnSpec == ConnInit /\ [][ConnNext]_connVars

----------------------------------------------------------------------------
(* Properties.                                                               *)

Broken == \E c \in DOMAIN conns : conns[c] = "broken"

\* With one caller, while no connection breaks and the logger stays, nothing that
\* is written is lost and WriteMsg does not panic, reconnecting or not
\* (conn.go:51-68, 82-113).
LostIfBrokenOnly == alone /\ ~Broken /\ ~gone => lost = {} /\ ~Panicked

\* With one caller the connections that are open are the current one and one that
\* is about to be; with ReconnectOnMsg none is between two messages
\* (conn.go:62-64, 82-98).
NoneLeaked ==
    alone /\ ~gone =>
        \A c \in DOMAIN conns : conns[c] = "open" =>
            \/ c = innerWriter /\ (ReconnectOnMsg => \E g \in Active : tasks[g].pc # "idle")
            \/ \E g \in Active : tasks[g].pc = "assign" /\ tasks[g].mine = c

\* Without reconnecting, callers race for the first connection only: once a line
\* has been written none panics (conn.go:56, 66, 97-98, 108).
RaceAtFirstOnly ==
    ~ReconnectOnMsg /\ Panicked => lost = {} /\ \A c \in DOMAIN arrived : arrived[c] = <<>>

\* The collector's connection: messages, connections and panics (conn.go:49-113).
ConnInv == LostIfBrokenOnly /\ NoneLeaked /\ RaceAtFirstOnly

=============================================================================
