------------------------------- MODULE AliLog -------------------------------
(* The logging library's output to a log service (aliLSWriter, alils.go): a
   buffer per topic, sent whole when it holds FlushWhen logs or when the logger
   flushes.  The mutex is held while a buffer is changed and while it is sent,
   but not when its length is looked at.  A request is signed over its headers,
   which the code goes through in the random order of a Go map; the service
   signs it again and compares.  Its answer may be an error, or get lost.    *)
EXTENDS Integers, Sequences, SequencesExt, FiniteSets

CONSTANTS
    LogCallers,     \* goroutines that log
    Topics,      \* the configured topics; "" is the one of all other messages
    FlushWhen,
    NHeaders,    \* bound: the service's headers in a request, 4 in the code
    MaxLogs,     \* bound: number of messages
    MaxFailures  \* bound: requests that fail

\* A FlushWhen below 0 ends Init; 0 sends every log at once.
ASSUME AliConstants == FlushWhen \in Nat /\ NHeaders \in Nat

VARIABLES
    group,       \* topic -> the logs in its buffer, by number
    calls,       \* caller -> its WriteMsg or Flush in progress
    lock,        \* the caller that holds the mutex, or "free"
    logs,        \* number of messages so far
    logstore,    \* external: topic -> the logs the service keeps
    failures, repliesLost, rejected

requests == <<failures, repliesLost, rejected>>
aliVars == <<group, calls, lock, logs, logstore, failures, repliesLost, rejected>>

AllTopics == Topics \cup {""}
AliIdle == [pc |-> "idle", todo |-> <<>>]

AliInit ==
    /\ group = [t \in AllTopics |-> <<>>] /\ logstore = [t \in AllTopics |-> <<>>]
    /\ calls = [c \in LogCallers |-> AliIdle] /\ lock = "free"
    /\ logs = 0 /\ failures = 0 /\ repliesLost = 0 /\ rejected = FALSE

----------------------------------------------------------------------------
(* A header's name is a number, its place among the names in order.          *)

slsHeaders == 1..NHeaders
Orders == {order \in [slsHeaders -> slsHeaders] : IsInjective(order)}

\* What is signed: the headers found in the given order, sorted.
signature(order) ==
    CHOOSE sorted \in Orders :
        /\ ToSet(sorted) = ToSet(order)
        /\ \A i, j \in slsHeaders : i < j => sorted[i] < sorted[j]
Accepts(order) == signature(order) = [h \in slsHeaders |-> h]

----------------------------------------------------------------------------
(* The writer.                                                               *)

Up == \A c \in LogCallers : calls[c].pc # "panicked"

\* The word before ## is the topic if it is a configured one.
GroupOf(word) == IF word \in Topics THEN word ELSE ""

aliWriteMsg(c) ==
    /\ Up /\ calls[c].pc = "idle" /\ lock = "free" /\ logs < MaxLogs
    /\ logs' = logs + 1
    /\ \E word \in AllTopics \cup {"unknown"} :
          LET t == GroupOf(word)
          IN  /\ group' = [group EXCEPT ![t] = Append(@, logs + 1)]
              /\ calls' = [calls EXCEPT ![c] = [pc |-> "length", todo |-> <<t>>]]
    /\ UNCHANGED <<lock, logstore, requests>>

\* A message that starts with a word and ##, with no space before it, ends the
\* program: a slice with a negative end.  The library's own level prefixes end
\* with a space; its Write, for Go's logger, adds none.
WriteMsgPanics(c) ==
    /\ Up /\ calls[c].pc = "idle" /\ logs < MaxLogs /\ Topics # {}
    /\ calls' = [calls EXCEPT ![c].pc = "panicked"]
    /\ UNCHANGED <<group, lock, logs, logstore, requests>>

\* Mutant: sent with one log more.
Length_Over(c) ==
    /\ Up /\ calls[c].pc = "length"
    /\ calls' = [calls EXCEPT ![c] =
           IF Len(group[Head(@.todo)]) > FlushWhen THEN [@ EXCEPT !.pc = "flush"] ELSE AliIdle]
    /\ UNCHANGED <<group, lock, logs, logstore, requests>>

\* Without the mutex.
Length(c) ==
    /\ Up /\ calls[c].pc = "length"
    /\ calls' = [calls EXCEPT ![c] =
           IF Len(group[Head(@.todo)]) >= FlushWhen THEN [@ EXCEPT !.pc = "flush"] ELSE AliIdle]
    /\ UNCHANGED <<group, lock, logs, logstore, requests>>

\* All groups, the default one first.
Flush(c) ==
    /\ Up /\ calls[c].pc = "idle"
    /\ calls' = [calls EXCEPT ![c] = [pc |-> "flush", todo |-> <<"">> \o SetToSeq(Topics)]]
    /\ UNCHANGED <<group, lock, logs, logstore, requests>>

\* flush takes the mutex and sends the group; the service stores it or not.
PutLogs(c) ==
    LET t == Head(calls[c].todo) IN
    /\ Up /\ calls[c].pc = "flush" /\ lock = "free"
    /\ lock' = c
    /\ \E order \in Orders :
          \/ /\ Accepts(order)
             /\ logstore' = [logstore EXCEPT ![t] = @ \o group[t]]
             /\ calls' = [calls EXCEPT ![c].pc = "stored"]
             /\ UNCHANGED <<failures, rejected>>
          \/ /\ failures < MaxFailures \/ ~Accepts(order)
             /\ rejected' = (rejected \/ ~Accepts(order))
             /\ failures' = IF Accepts(order) THEN failures + 1 ELSE failures
             /\ calls' = [calls EXCEPT ![c].pc = "failed"]
             /\ UNCHANGED logstore
    /\ UNCHANGED <<group, logs, repliesLost>>

\* Mutant: the buffer is emptied after an error too.
Answer_EmptiesAlways(c) ==
    LET t == Head(calls[c].todo)
        rest == Tail(calls[c].todo)
    IN
    /\ Up /\ calls[c].pc \in {"stored", "failed"}
    /\ group' = [group EXCEPT ![t] = <<>>]
    /\ lock' = "free"
    /\ calls' = [calls EXCEPT ![c] = IF rest = <<>> THEN AliIdle ELSE [pc |-> "flush", todo |-> rest]]
    /\ UNCHANGED <<logs, logstore, requests>>

\* The answer: the buffer is emptied only after a good one.
Answer(c) ==
    LET t == Head(calls[c].todo)
        rest == Tail(calls[c].todo)
    IN
    /\ Up /\ calls[c].pc \in {"stored", "failed"}
    /\ \/ /\ calls[c].pc = "stored"
          /\ group' = [group EXCEPT ![t] = <<>>]
          /\ UNCHANGED repliesLost
       \/ /\ calls[c].pc = "stored" => repliesLost < MaxFailures
          /\ repliesLost' = IF calls[c].pc = "stored" THEN repliesLost + 1 ELSE repliesLost
          /\ UNCHANGED group
    /\ lock' = "free"
    /\ calls' = [calls EXCEPT ![c] = IF rest = <<>> THEN AliIdle ELSE [pc |-> "flush", todo |-> rest]]
    /\ UNCHANGED <<logs, logstore, failures, rejected>>

AliNext ==
    \E c \in LogCallers : \/ aliWriteMsg(c) \/ WriteMsgPanics(c) \/ Length(c) \/ Flush(c)
                       \/ PutLogs(c) \/ Answer(c)

AliSpec == AliInit /\ [][AliNext]_aliVars

----------------------------------------------------------------------------
(* Properties.                                                               *)

\* As long as the program runs, a message WriteMsg took is in its buffer or at
\* the service, whatever is sent at the same time and whatever fails
\* (alils.go:148-154, 172-182).
MessagesKept ==
    \A n \in 1..logs : \E t \in AllTopics : n \in ToSet(group[t]) \cup ToSet(logstore[t])

\* The service has a message twice only if one of its answers was lost
\* (alils.go:176-179).
StoredOnce == repliesLost = 0 => \A t \in AllTopics : IsInjective(logstore[t])

\* A topic's messages reach the service in the order they were logged; one that
\* comes late was there before (alils.go:149, 176).
StoredInOrder ==
    \A t \in AllTopics : \A i, j \in DOMAIN logstore[t] :
        i < j /\ logstore[t][i] > logstore[t][j] =>
            \E k \in 1..(i - 1) : logstore[t][k] = logstore[t][j]

\* Logs that stay in a buffer nobody looks at.
Waiting == IF FlushWhen = 0 THEN 0 ELSE FlushWhen - 1

\* When nothing fails, a buffer holds at most FlushWhen - 1 logs and one for each
\* caller about to look at it or to send it (alils.go:152-154): at most so many
\* are lost when the program ends.
BufferBounded ==
    failures = 0 /\ repliesLost = 0 =>
        \A t \in AllTopics :
            Len(group[t]) <= Waiting + Cardinality({c \in LogCallers : t \in ToSet(calls[c].todo)})

\* The service never refuses the signature (request.go:35-42, signature.go:50-66).
NeverRejected == ~rejected

\* No message is lost by the writer, and none stored twice without need
\* (alils.go:148-182).
Delivered == MessagesKept /\ StoredOnce

\* The order of a topic's messages, the size of its buffer, and signatures the
\* service takes (alils.go:148-182, signature.go:50-66).
ServiceInv == StoredInOrder /\ BufferBounded /\ NeverRejected

=============================================================================
