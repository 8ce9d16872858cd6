--------------------------- MODULE BeeLoggerProofs ---------------------------
(***************************************************************************)
(* Proofs about BeeLogger, for every set of writers, of adapters and of    *)
(* levels, every size of the channel and every number of messages and      *)
(* calls.                                                                  *)
(***************************************************************************)
EXTENDS BeeLogger, SequenceTheorems, TLAPS

Instances == [name : Adapters, id : Nat]
WriterCall == [pc : {"idle", "first", "mode", "out"}, msg : Msgs \cup {None}, todo : Seq(Instances),
               sent : 0..MaxMsgs, after : SUBSET Msgs]
CallNames == {"", "SetLevel", "SetLogger", "DelLogger", "Async", "Flush", "Close", "Reset"}
ControllerCall == [pc : {"idle", "making", "channel", "starting", "signal", "wait", "add", "flush",
                         "destroy", "closeMsgs", "closeSignals", "returning"},
                   call : CallNames, calls : Nat, before : SUBSET Msgs]
LoggerState == [pc : {"off", "select", "write", "drain", "signalled", "over"},
                msg : Msgs \cup {None}, todo : Seq(Instances),
                then : {"off", "select", "drain"}, sg : {"", "flush", "close"}]

L_Types ==
    /\ level \in Levels \cup {7} /\ init \in BOOLEAN /\ asynchronous \in BOOLEAN
    /\ pool \in BOOLEAN /\ sigOpen \in BOOLEAN /\ crashed \in BOOLEAN
    /\ outputs \in Seq(Instances) /\ made \in Nat
    /\ msgChan \in Seq(Msgs) /\ Len(msgChan) <= msgChanLen /\ chan \in {"nil", "open", "closed"}
    /\ signalChan \in Seq({"flush", "close"}) /\ Len(signalChan) <= 1 /\ wg \in {0, 1}
    /\ lock \in Controllers \cup {nobody}
    /\ G \in LoggerState /\ W \in [Writers -> WriterCall] /\ C \in [Controllers -> ControllerCall]
    /\ accepted \subseteq Msgs /\ done \subseteq accepted
    /\ unflushed \subseteq Instances \X Msgs
    /\ handed \in [DOMAIN handed -> Seq(Msgs)]

\* An adapter is an output once, and an instance that is made later is another one.
OutputsDiffer ==
    /\ \A i \in DOMAIN outputs : outputs[i].id < made
    /\ \A i, j \in DOMAIN outputs :
          outputs[i].name = outputs[j].name \/ outputs[i].id = outputs[j].id => i = j
    /\ \A u \in unflushed : u[1].id < made

\* A message that is being written has still to go to the outputs in todo.
Left(m, todo, given, n) ==
    /\ \A i \in DOMAIN todo : todo[i].id < n
    /\ \A i, j \in DOMAIN todo : todo[i].id = todo[j].id => i = j
    /\ \A i \in DOMAIN todo :
          todo[i].id \in DOMAIN given => m \notin ToSet(given[todo[i].id])

InHand(m) == G.pc = "write" /\ m = G.msg
Begun(m) == m \in done \/ InHand(m) \/ \E w \in Writers : W[w].pc = "out" /\ W[w].msg = m

\* Where a message is: with its writer, in the channel, with the logger's goroutine,
\* or done.
Numbered ==
    \A w \in Writers :
        /\ IF W[w].sent = 0 THEN W[w].pc = "idle" /\ W[w].after = {} ELSE W[w].msg = <<w, W[w].sent>>
        /\ \A m \in accepted : m[1] = w => m[2] <= W[w].sent
        /\ W[w].pc # "idle" => W[w].msg \notin accepted
Queued ==
    /\ IsInjective(msgChan)
    /\ ToSet(msgChan) \subseteq accepted \ done
    /\ G.pc = "write" => G.msg \in accepted \ done /\ G.msg \notin ToSet(msgChan)
    /\ \A m \in accepted : m \in done \/ m \in ToSet(msgChan) \/ InHand(m)
    /\ ~asynchronous \/ G.pc = "off" => msgChan = <<>>
    /\ ~asynchronous => G.pc = "off"
Handed ==
    /\ \A i \in DOMAIN handed : \A m \in ToSet(handed[i]) : Begun(m)
    /\ \A i \in DOMAIN handed : IsInjective(handed[i])
    /\ G.pc = "write" => Left(G.msg, G.todo, handed, made)
    /\ \A w \in Writers : W[w].pc = "out" => Left(W[w].msg, W[w].todo, handed, made)

\* What was logged before a message was begun is written when the message is.
Before ==
    \A w \in Writers :
        /\ W[w].after \subseteq accepted
        /\ Begun(W[w].msg) => W[w].after \subseteq done
        /\ \A k \in DOMAIN msgChan : msgChan[k] = W[w].msg =>
              \A m \in W[w].after :
                  m \in done \/ InHand(m) \/ \E j \in 1..(k - 1) : msgChan[j] = m

\* The logger's goroutine waits for messages and signals.
Serves == G.pc = "select" \/ (G.pc = "write" /\ G.then = "select")
Draining == G.pc \in {"drain", "signalled"} \/ (G.pc = "write" /\ G.then = "drain")
Sent(c) == IF C[c].call = "Close" THEN "close" ELSE "flush"

Stage(c) ==
    /\ G.pc = "write" => Serves \/ Draining
    /\ C[c].pc \in {"signal", "flush", "destroy", "returning", "wait", "add"} =>
          C[c].call \in {"Flush", "Close", "Reset"}
    /\ C[c].pc \in {"closeMsgs", "closeSignals"} => C[c].call = "Close"
    /\ C[c].pc = "add" => C[c].call # "Close"
    /\ C[c].pc = "destroy" => C[c].call # "Flush"
    /\ pool <=> asynchronous /\ C[c].pc \notin {"channel", "starting"}
    /\ ~pool => G.pc = "off" /\ wg = 0 /\ signalChan = <<>> /\ msgChan = <<>>
    /\ ~asynchronous => /\ chan = "nil"
                        /\ C[c].pc \notin {"channel", "starting", "signal", "wait", "add", "closeMsgs"}
    /\ C[c].pc = "channel" => asynchronous /\ chan = "nil"
    /\ C[c].pc = "starting" => asynchronous /\ chan = "open"
    /\ C[c].pc = "flush" => ~asynchronous
    /\ asynchronous /\ C[c].pc = "destroy" => C[c].call # "Close"
    /\ ~sigOpen => C[c].pc \notin {"wait", "add", "closeMsgs"} /\ signalChan = <<>>
    /\ ~sigOpen /\ Draining => G.sg = ""
    /\ pool => chan # "nil" /\ G.pc # "off" /\ (C[c].pc = "closeSignals" => chan = "closed")
    /\ G.pc = "over" => C[c].pc \in {"wait", "closeMsgs", "closeSignals"} \/ chan = "closed"

\* The handshake of a flush: the signal is sent, taken, answered by wg.Done and
\* undone by wg.Add.
Handshake(c) ==
    pool /\ sigOpen =>
        /\ C[c].pc \in {"idle", "making", "signal", "destroy", "returning"} =>
              Serves /\ wg = 1 /\ signalChan = <<>>
        /\ C[c].pc = "wait" =>
              \/ Serves /\ wg = 1 /\ signalChan = <<Sent(c)>>
              \/ Draining /\ G.sg = Sent(c) /\ wg = 1 /\ signalChan = <<>>
              \/ /\ wg = 0 /\ signalChan = <<>>
                 /\ IF C[c].call = "Close" THEN G.pc = "over" ELSE Serves
        /\ C[c].pc = "add" => Serves /\ wg = 0 /\ signalChan = <<>>
        /\ C[c].pc \in {"closeMsgs", "closeSignals"} =>
              G.pc = "over" /\ wg = 0 /\ signalChan = <<>>
        /\ chan = "closed" => C[c].pc = "closeSignals"

Flushed(c) ==
    \/ C[c].pc \in {"add", "destroy", "closeMsgs", "closeSignals", "returning"}
    \/ C[c].pc = "wait" /\ (G.pc = "signalled" \/ wg = 0)

\* A flush that has ended has written and flushed what was logged before it.
Drained(c) ==
    /\ C[c].before \subseteq accepted
    /\ Flushed(c) =>
          /\ C[c].before \subseteq done
          /\ \A m \in C[c].before, i \in DOMAIN outputs : <<outputs[i], m>> \notin unflushed

L_Inv ==
    /\ L_Types /\ OutputsDiffer /\ Numbered /\ Queued /\ Handed /\ Before
    /\ \A c \in Controllers : Stage(c) /\ Handshake(c) /\ Drained(c)
    /\ PanicsOnlyAround
-----------------------------------------------------------------------------
(* Sequences.                                                              *)

\* One more element.
LEMMA OneMore ==
  ASSUME NEW T, NEW s \in Seq(T), NEW e \in T
  PROVE  /\ ToSet(Append(s, e)) = ToSet(s) \cup {e}
         /\ IsInjective(s) /\ e \notin ToSet(s) => IsInjective(Append(s, e))
<1>1. /\ Len(Append(s, e)) = Len(s) + 1
      /\ DOMAIN Append(s, e) = 1..(Len(s) + 1) /\ DOMAIN s = 1..Len(s)
      /\ \A i \in 1..Len(s) : Append(s, e)[i] = s[i]
      /\ Append(s, e)[Len(s) + 1] = e /\ Len(s) \in Nat
  OBVIOUS
<1>2. \A i \in 1..(Len(s) + 1) : i \in 1..Len(s) \/ i = Len(s) + 1
  BY <1>1
<1>3. \A i \in 1..Len(s) : i \in 1..(Len(s) + 1) /\ i # Len(s) + 1
  BY <1>1
<1>4. Len(s) + 1 \in 1..(Len(s) + 1)
  BY <1>1
<1> QED
  BY <1>1, <1>2, <1>3, <1>4 DEF ToSet, IsInjective

\* The first element taken away.
LEMMA FirstTaken ==
  ASSUME NEW T, NEW s \in Seq(T), s # <<>>
  PROVE  /\ Head(s) \in T /\ Tail(s) \in Seq(T) /\ Len(Tail(s)) = Len(s) - 1
         /\ Head(s) = s[1] /\ 1 \in DOMAIN s
         /\ \A k \in DOMAIN Tail(s) : k + 1 \in DOMAIN s /\ Tail(s)[k] = s[k + 1]
         /\ \A k \in DOMAIN s : k # 1 => k - 1 \in DOMAIN Tail(s) /\ Tail(s)[k - 1] = s[k]
         /\ ToSet(s) = {Head(s)} \cup ToSet(Tail(s))
         /\ IsInjective(s) => IsInjective(Tail(s)) /\ Head(s) \notin ToSet(Tail(s))
<1>1. /\ Head(s) \in T /\ Tail(s) \in Seq(T) /\ Len(Tail(s)) = Len(s) - 1
      /\ \A k \in 1..Len(Tail(s)) : Tail(s)[k] = s[k + 1]
  BY HeadTailProperties
<1>2. /\ Len(s) \in Nat /\ Len(s) > 0 /\ DOMAIN s = 1..Len(s) /\ Head(s) = s[1]
      /\ DOMAIN Tail(s) = 1..(Len(s) - 1)
  BY <1>1
<1>3. \A k \in 1..(Len(s) - 1) : k + 1 \in 1..Len(s) /\ k + 1 # 1
  BY <1>2
<1>4. \A k \in 1..Len(s) : k # 1 => k - 1 \in 1..(Len(s) - 1) /\ (k - 1) + 1 = k
  BY <1>2
<1>5. \A k \in DOMAIN Tail(s) : k + 1 \in DOMAIN s /\ Tail(s)[k] = s[k + 1]
  BY <1>1, <1>2, <1>3
<1>6. \A k \in DOMAIN s : k # 1 => k - 1 \in DOMAIN Tail(s) /\ Tail(s)[k - 1] = s[k]
  BY <1>1, <1>2, <1>4
<1>7. 1 \in DOMAIN s
  BY <1>2
<1>8. ToSet(s) = {Head(s)} \cup ToSet(Tail(s))
  <2>1. ASSUME NEW k \in DOMAIN s
        PROVE  s[k] \in {Head(s)} \cup ToSet(Tail(s))
    BY <1>2, <1>6 DEF ToSet
  <2>2. ASSUME NEW k \in DOMAIN Tail(s)
        PROVE  Tail(s)[k] \in ToSet(s)
    BY <1>5 DEF ToSet
  <2> QED
    BY <1>2, <1>7, <2>1, <2>2 DEF ToSet
<1>9. ASSUME IsInjective(s)
      PROVE  IsInjective(Tail(s)) /\ Head(s) \notin ToSet(Tail(s))
  <2>1. ASSUME NEW i \in DOMAIN Tail(s), NEW j \in DOMAIN Tail(s), Tail(s)[i] = Tail(s)[j]
        PROVE  i = j
    <3>1. i + 1 = j + 1
      BY <1>5, <1>9, <2>1 DEF IsInjective
    <3> QED
      BY <1>2, <3>1
  <2>2. ASSUME NEW i \in DOMAIN Tail(s) PROVE Tail(s)[i] # Head(s)
    <3>1. Tail(s)[i] = s[i + 1] /\ i + 1 \in DOMAIN s /\ i + 1 # 1
      BY <1>2, <1>3, <1>5
    <3> QED
      BY <1>2, <1>7, <1>9, <3>1 DEF IsInjective
  <2> QED
    BY <2>1, <2>2 DEF IsInjective, ToSet
<1> QED
  BY <1>1, <1>2, <1>5, <1>6, <1>7, <1>8, <1>9

\* One element taken away.
LEMMA OneTaken ==
  ASSUME NEW T, NEW s \in Seq(T), NEW i \in DOMAIN s
  PROVE  /\ RemoveAt(s, i) \in Seq(T)
         /\ DOMAIN RemoveAt(s, i) = 1..(Len(s) - 1)
         /\ \A k \in 1..(Len(s) - 1) : RemoveAt(s, i)[k] = s[IF k < i THEN k ELSE k + 1]
<1> DEFINE a == SubSeq(s, 1, i - 1)
           b == SubSeq(s, i + 1, Len(s))
<1>1. Len(s) \in Nat /\ i \in 1..Len(s) /\ \A k \in 1..Len(s) : s[k] \in T
  OBVIOUS
<1>2. a \in Seq(T) /\ Len(a) = i - 1 /\ \A k \in 1..(i - 1) : a[k] = s[k]
  <2>1. \A k \in 1..(i - 1) : s[k] \in T
    BY <1>1
  <2>2. 1 \in Int /\ i - 1 \in Int
    BY <1>1
  <2>3. /\ a \in Seq(T) /\ Len(a) = IF 1 <= i - 1 THEN (i - 1) - 1 + 1 ELSE 0
        /\ \A k \in 1..((i - 1) - 1 + 1) : a[k] = s[1 + k - 1]
    BY <2>1, <2>2, SubSeqProperties
  <2> QED
    BY <1>1, <2>3
<1>3. b \in Seq(T) /\ Len(b) = Len(s) - i /\ \A k \in 1..(Len(s) - i) : b[k] = s[k + i]
  <2>1. \A k \in (i + 1)..Len(s) : s[k] \in T
    BY <1>1
  <2>2. i + 1 \in Int /\ Len(s) \in Int
    BY <1>1
  <2>3. /\ b \in Seq(T) /\ Len(b) = IF i + 1 <= Len(s) THEN Len(s) - (i + 1) + 1 ELSE 0
        /\ \A k \in 1..(Len(s) - (i + 1) + 1) : b[k] = s[(i + 1) + k - 1]
    BY <2>1, <2>2, SubSeqProperties
  <2> QED
    BY <1>1, <2>3
<1> HIDE DEF a, b
<1>4. /\ a \o b \in Seq(T) /\ Len(a \o b) = Len(a) + Len(b)
      /\ \A k \in 1..(Len(a) + Len(b)) :
            (a \o b)[k] = IF k <= Len(a) THEN a[k] ELSE b[k - Len(a)]
  BY <1>2, <1>3, ConcatProperties
<1>5. RemoveAt(s, i) = a \o b
  BY DEF RemoveAt, a, b
<1>6. Len(a) + Len(b) = Len(s) - 1
  BY <1>1, <1>2, <1>3
<1>7. ASSUME NEW k \in 1..(Len(s) - 1)
      PROVE  (a \o b)[k] = s[IF k < i THEN k ELSE k + 1]
  <2>1. CASE k < i
    <3>1. k <= Len(a) /\ k \in 1..(i - 1)
      BY <1>1, <1>2, <2>1
    <3> QED
      BY <1>2, <1>4, <1>6, <2>1, <3>1
  <2>2. CASE ~(k < i)
    <3>1. ~(k <= Len(a)) /\ k - (i - 1) \in 1..(Len(s) - i) /\ k - (i - 1) + i = k + 1
      BY <1>1, <1>2, <2>2
    <3>2. b[k - (i - 1)] = s[k + 1]
      BY <1>3, <3>1
    <3>3. (a \o b)[k] = b[k - (i - 1)]
      BY <1>2, <1>4, <1>6, <3>1
    <3> QED
      BY <2>2, <3>2, <3>3
  <2> QED
    BY <2>1, <2>2
<1>8. DOMAIN (a \o b) = 1..(Len(s) - 1)
  BY <1>1, <1>4, <1>6
<1> QED
  BY <1>4, <1>5, <1>7, <1>8
\* The numbers of instances.
LEMMA InstanceIds ==
  ASSUME NEW s \in Seq(Instances), NEW i \in DOMAIN s
  PROVE  s[i] \in Instances /\ s[i].id \in Nat /\ s[i].name \in Adapters
<1>1. s[i] \in Instances
  OBVIOUS
<1> QED
  BY <1>1 DEF Instances

-----------------------------------------------------------------------------
(* Steps that write no message.                                            *)

\* What the logger's goroutine has in hand stays.
SameInHand ==
    /\ (G.pc = "write") <=> (G'.pc = "write")
    /\ G.pc = "write" => G'.msg = G.msg /\ G'.todo = G.todo

\* Messages stay where they are.
LEMMA NothingWritten ==
  ASSUME L_Inv, UNCHANGED <<W, msgChan, accepted, done, handed>>, SameInHand,
         made \in Nat, made' \in Nat, made' >= made, asynchronous => asynchronous',
         G'.pc = "off" => G.pc = "off", ~asynchronous' => G'.pc = "off"
  PROVE  Numbered' /\ Queued' /\ Handed' /\ Before'
<1>1. \A m : InHand(m)' <=> InHand(m)
  BY DEF SameInHand, InHand
<1>2. \A m : Begun(m)' <=> Begun(m)
  BY <1>1 DEF Begun
<1>3. Numbered'
  BY DEF L_Inv, Numbered
<1>4. Queued'
  BY <1>1 DEF L_Inv, Queued, SameInHand
<1>5. Before'
  BY <1>1, <1>2 DEF L_Inv, Before
<1>6. ASSUME NEW m, NEW todo \in Seq(Instances), Left(m, todo, handed, made)
      PROVE  Left(m, todo, handed', made')
  <2>1. \A i \in DOMAIN todo : todo[i].id \in Nat
    BY InstanceIds
  <2>2. \A x \in Nat : x < made => x < made'
    OBVIOUS
  <2> QED
    BY <1>6, <2>1, <2>2 DEF Left
<1>7. /\ \A w \in Writers : W[w].todo \in Seq(Instances)
      /\ G.todo \in Seq(Instances)
  BY DEF L_Inv, L_Types, WriterCall, LoggerState
<1>8. G'.pc = "write" => Left(G'.msg, G'.todo, handed', made')
  BY <1>6, <1>7 DEF L_Inv, Handed, SameInHand
<1>9. \A w \in Writers : W[w].pc = "out" => Left(W[w].msg, W[w].todo, handed', made')
  BY <1>6, <1>7 DEF L_Inv, Handed
<1>10. Handed'
  <2>1. \A i \in DOMAIN handed : \A m \in ToSet(handed[i]) : Begun(m)'
    BY <1>2 DEF L_Inv, Handed
  <2> QED
    BY <1>8, <1>9, <2>1 DEF L_Inv, Handed
<1> QED
  BY <1>3, <1>4, <1>5, <1>10

\* The outputs lose one, or all.
LEMMA OutputsFewer ==
  ASSUME L_Inv, unflushed' \subseteq unflushed, UNCHANGED made,
         \/ UNCHANGED outputs
         \/ outputs' = <<>>
         \/ \E i \in DOMAIN outputs : outputs' = RemoveAt(outputs, i)
  PROVE  /\ OutputsDiffer' /\ outputs' \in Seq(Instances)
         /\ \A k \in DOMAIN outputs' : \E l \in DOMAIN outputs : outputs'[k] = outputs[l]
<1>1. \A u \in unflushed' : u[1].id < made'
  BY DEF L_Inv, OutputsDiffer
<1>2. CASE UNCHANGED outputs
  BY <1>1, <1>2 DEF L_Inv, L_Types, OutputsDiffer
<1>3. CASE outputs' = <<>>
  BY <1>1, <1>3 DEF OutputsDiffer
<1>4. ASSUME NEW i \in DOMAIN outputs, outputs' = RemoveAt(outputs, i)
      PROVE  /\ OutputsDiffer' /\ outputs' \in Seq(Instances)
             /\ \A k \in DOMAIN outputs' : \E l \in DOMAIN outputs : outputs'[k] = outputs[l]
  <2> DEFINE from(k) == IF k < i THEN k ELSE k + 1
  <2>1. /\ outputs' \in Seq(Instances) /\ DOMAIN outputs' = 1..(Len(outputs) - 1)
        /\ \A k \in 1..(Len(outputs) - 1) : outputs'[k] = outputs[from(k)]
    BY <1>4, OneTaken DEF L_Inv, L_Types
  <2>2. Len(outputs) \in Nat /\ DOMAIN outputs = 1..Len(outputs) /\ i \in 1..Len(outputs)
    BY <1>4 DEF L_Inv, L_Types
  <2>3. \A k \in 1..(Len(outputs) - 1) : from(k) \in 1..Len(outputs)
    BY <2>2
  <2>4. \A k, l \in 1..(Len(outputs) - 1) : from(k) = from(l) => k = l
    BY <2>2
  <2> HIDE DEF from
  <2>5. \A k \in DOMAIN outputs' : from(k) \in DOMAIN outputs /\ outputs'[k] = outputs[from(k)]
    BY <2>1, <2>2, <2>3
  <2>6. \A k, l \in DOMAIN outputs' : from(k) = from(l) => k = l
    BY <2>1, <2>4
  <2>7. OutputsDiffer'
    BY <1>1, <2>5, <2>6 DEF L_Inv, OutputsDiffer
  <2> QED
    BY <2>1, <2>5, <2>7
<1> QED
  BY <1>2, <1>3, <1>4

\* setLogger makes another output, or none, from those there are.
LEMMA OneOutputMore ==
  ASSUME L_Inv, NEW name \in Adapters, NEW outs0,
         outs0 = outputs \/ outs0 = <<>>, setLogger(outs0, name), UNCHANGED unflushed
  PROVE  /\ OutputsDiffer' /\ outputs' \in Seq(Instances) /\ made' \in Nat /\ made' >= made
         /\ \A k \in DOMAIN outputs' :
               \/ \E l \in DOMAIN outputs : outputs'[k] = outputs[l]
               \/ outputs'[k].id = made
<1>1. /\ outs0 \in Seq(Instances) /\ made \in Nat
      /\ \A i \in DOMAIN outs0 : outs0[i].id < made /\ outs0[i].id \in Nat
      /\ \A i, j \in DOMAIN outs0 :
            outs0[i].name = outs0[j].name \/ outs0[i].id = outs0[j].id => i = j
      /\ \A k \in DOMAIN outs0 : \E l \in DOMAIN outputs : outs0[k] = outputs[l]
      /\ \A u \in unflushed : u[1].id < made /\ u[1].id \in Nat
  <2>1. outputs \in Seq(Instances) /\ made \in Nat /\ unflushed \subseteq Instances \X Msgs
    BY DEF L_Inv, L_Types
  <2>2. \A i \in DOMAIN outputs : outputs[i].id \in Nat
    BY <2>1, InstanceIds
  <2>3. \A u \in unflushed : u[1].id \in Nat
    BY <2>1 DEF Instances
  <2>4. CASE outs0 = outputs
    BY <2>1, <2>2, <2>3, <2>4 DEF L_Inv, OutputsDiffer
  <2>5. CASE outs0 = <<>>
    BY <2>1, <2>3, <2>5 DEF L_Inv, OutputsDiffer
  <2> QED
    BY <2>4, <2>5
<1>2. CASE outputs' = outs0 /\ UNCHANGED made
  BY <1>1, <1>2 DEF OutputsDiffer
<1>3. CASE /\ \A i \in DOMAIN outs0 : outs0[i].name # name
           /\ outputs' = Append(outs0, [name |-> name, id |-> made])
           /\ made' = made + 1
  <2> DEFINE e == [name |-> name, id |-> made]
             n == Len(outs0)
  <2>1. e \in Instances /\ e.name = name /\ e.id = made
    BY <1>1 DEF Instances
  <2> HIDE DEF e
  <2>2. n \in Nat /\ DOMAIN outs0 = 1..n
    BY <1>1
  <2>3. /\ outputs' \in Seq(Instances) /\ DOMAIN outputs' = 1..(n + 1)
        /\ \A i \in 1..n : outputs'[i] = outs0[i]
        /\ outputs'[n + 1] = e
    <3>1. outputs' = Append(outs0, e)
      BY <1>3 DEF e
    <3>2. /\ Append(outs0, e) \in Seq(Instances) /\ Len(Append(outs0, e)) = Len(outs0) + 1
          /\ \A i \in 1..Len(outs0) : Append(outs0, e)[i] = outs0[i]
          /\ Append(outs0, e)[Len(outs0) + 1] = e
      BY <1>1, <2>1, AppendProperties
    <3> QED
      BY <3>1, <3>2
  <2> HIDE DEF n
  <2>4. \A i \in 1..(n + 1) : i \in DOMAIN outs0 \/ i = n + 1
    BY <2>2
  <2>5. \A i \in 1..(n + 1) : outputs'[i].id < made'
    <3>1. \A x \in Nat : x < made => x < made'
      BY <1>1, <1>3
    <3>2. made < made'
      BY <1>1, <1>3
    <3> QED
      BY <1>1, <2>1, <2>2, <2>3, <2>4, <3>1, <3>2
  <2>6. \A i, j \in 1..(n + 1) :
          outputs'[i].name = outputs'[j].name \/ outputs'[i].id = outputs'[j].id => i = j
    <3>1. \A i \in DOMAIN outs0 : outs0[i].id # made
      BY <1>1
    <3> TAKE i, j \in 1..(n + 1)
    <3>2. CASE i \in DOMAIN outs0 /\ j \in DOMAIN outs0
      BY <1>1, <2>2, <2>3, <3>2
    <3>3. CASE i \in DOMAIN outs0 /\ j = n + 1
      BY <1>3, <2>1, <2>2, <2>3, <3>1, <3>3
    <3>4. CASE i = n + 1 /\ j \in DOMAIN outs0
      BY <1>3, <2>1, <2>2, <2>3, <3>1, <3>4
    <3> QED
      BY <2>4, <3>2, <3>3, <3>4
  <2>7. \A u \in unflushed' : u[1].id < made'
    BY <1>1, <1>3
  <2>8. OutputsDiffer'
    BY <2>3, <2>5, <2>6, <2>7 DEF OutputsDiffer
  <2>9. made' \in Nat /\ made' >= made
    BY <1>1, <1>3
  <2>10. \A k \in DOMAIN outputs' :
           \/ \E l \in DOMAIN outputs : outputs'[k] = outputs[l]
           \/ outputs'[k].id = made
    BY <1>1, <2>1, <2>2, <2>3, <2>4
  <2> QED
    BY <2>3, <2>8, <2>9, <2>10
<1> QED
  BY <1>2, <1>3 DEF setLogger
-----------------------------------------------------------------------------
(* Steps of the writers.                                                   *)

\* Outputs made meanwhile do not matter to a message that is being written.
LEMMA LeftLater ==
  ASSUME NEW m, NEW todo \in Seq(Instances), NEW given, NEW n \in Nat, NEW k \in Nat, k >= n,
         Left(m, todo, given, n)
  PROVE  Left(m, todo, given, k)
<1>1. \A i \in DOMAIN todo : todo[i].id \in Nat
  BY InstanceIds
<1>2. \A x \in Nat : x < n => x < k
  OBVIOUS
<1> QED
  BY <1>1, <1>2 DEF Left

\* The types of the calls.
LEMMA CallTypes ==
  ASSUME L_Inv
  PROVE  /\ \A w \in Writers :
               /\ W[w] \in WriterCall /\ W[w].todo \in Seq(Instances)
               /\ W[w].sent \in 0..MaxMsgs /\ W[w].after \subseteq Msgs
               /\ W[w].pc # "idle" => W[w].sent # 0 /\ W[w].msg = <<w, W[w].sent>> /\ W[w].msg \in Msgs
         /\ G \in LoggerState /\ G.todo \in Seq(Instances)
<1>1. /\ \A w \in Writers :
            /\ W[w] \in WriterCall /\ W[w].todo \in Seq(Instances)
            /\ W[w].sent \in 0..MaxMsgs /\ W[w].after \subseteq Msgs
      /\ G \in LoggerState /\ G.todo \in Seq(Instances)
  BY DEF L_Inv, L_Types, WriterCall, LoggerState
<1>2. ASSUME NEW w \in Writers, W[w].pc # "idle"
      PROVE  W[w].sent # 0 /\ W[w].msg = <<w, W[w].sent>> /\ W[w].msg \in Msgs
  <2>1. W[w].sent # 0 /\ W[w].msg = <<w, W[w].sent>>
    BY <1>2 DEF L_Inv, Numbered
  <2>2. W[w].sent \in 1..MaxMsgs
    BY <1>1, <2>1, BeeLoggerConstants
  <2> QED
    BY <2>1, <2>2 DEF Msgs
<1> QED
  BY <1>1, <1>2

\* A new message is nowhere yet.
LEMMA StartContent ==
  ASSUME L_Inv, NEW w \in Writers, Start(w)
  PROVE  L_Types' /\ OutputsDiffer' /\ Numbered' /\ Queued' /\ Handed' /\ Before'
<1> DEFINE n == W[w].sent + 1
           m == <<w, n>>
<1>1. /\ W[w].pc = "idle" /\ W[w].sent < MaxMsgs
      /\ W' = [W EXCEPT ![w] = NextMessage(w)]
      /\ UNCHANGED <<modes, outs, queue, signals, G, C, books, crashed>>
  BY DEF Start
<1>2. n \in 1..MaxMsgs /\ n # 0 /\ \A k \in 1..MaxMsgs : k <= W[w].sent => k # n /\ k <= n
  BY <1>1, CallTypes, BeeLoggerConstants
<1>3. m \in Msgs /\ m[1] = w /\ m[2] = n
  BY <1>2 DEF Msgs
<1>4. /\ W' \in [Writers -> WriterCall] /\ \A v \in Writers \ {w} : W'[v] = W[v]
      /\ W'[w].pc \in {"first", "mode"} /\ W'[w].sent = n /\ W'[w].msg = m /\ W'[w].after = accepted
  <2> DEFINE r == [pc |-> IF init THEN "mode" ELSE "first", msg |-> m, todo |-> <<>>,
                   sent |-> n, after |-> accepted]
  <2>1. NextMessage(w) = r /\ W \in [Writers -> WriterCall] /\ accepted \subseteq Msgs
    BY DEF NextMessage, L_Inv, L_Types
  <2>2. r \in WriterCall
    BY <1>2, <1>3, <2>1 DEF WriterCall
  <2>3. r.pc \in {"first", "mode"} /\ r.sent = n /\ r.msg = m /\ r.after = accepted
    OBVIOUS
  <2> HIDE DEF r, n, m
  <2> QED
    BY <1>1, <2>1, <2>2, <2>3
<1>5. m \notin accepted /\ \A a \in accepted : a[1] = w => a[2] <= n
  <2>1. \A a \in accepted : a[1] = w => a[2] <= W[w].sent /\ a[2] \in 1..MaxMsgs
    BY DEF L_Inv, L_Types, Numbered, Msgs
  <2> QED
    BY <1>2, <1>3, <2>1
<1> HIDE DEF n, m
<1>6. OutputsDiffer' /\ UNCHANGED outs
  BY <1>1 DEF L_Inv, OutputsDiffer, outs, books
<1>7. L_Types'
  BY <1>1, <1>4, <1>6 DEF L_Inv, L_Types, modes, outs, queue, signals, books
<1>8. \A a : InHand(a)' <=> InHand(a)
  BY <1>1 DEF InHand
<1>9. \A a : Begun(a)' <=> Begun(a)
  <2>1. \A a : \A v \in Writers : W'[v].pc = "out" /\ W'[v].msg = a <=> W[v].pc = "out" /\ W[v].msg = a
    BY <1>1, <1>4
  <2> QED
    BY <1>1, <1>8, <2>1 DEF Begun, books
<1>10. Numbered'
  BY <1>1, <1>2, <1>3, <1>4, <1>5 DEF L_Inv, Numbered, books, m, n
<1>11. Queued'
  BY <1>1, <1>8 DEF L_Inv, Queued, modes, queue, books
<1>12. Handed'
  BY <1>1, <1>4, <1>6, <1>9 DEF L_Inv, Handed, books, outs
<1>13. ~Begun(m)
  <2>1. m \notin done /\ ~InHand(m)
    BY <1>5 DEF L_Inv, L_Types, InHand, Queued
  <2>2. \A v \in Writers : W[v].pc = "out" => W[v].msg # m
    BY <1>1, <1>3, CallTypes
  <2> QED
    BY <2>1, <2>2 DEF Begun
<1>14. Before'
  <2>1. \A k \in DOMAIN msgChan : msgChan[k] # m
    BY <1>5 DEF L_Inv, Queued, ToSet
  <2> QED
    BY <1>1, <1>4, <1>8, <1>9, <1>13, <2>1 DEF L_Inv, Before, queue, books
<1> QED
  BY <1>6, <1>7, <1>10, <1>11, <1>12, <1>14

\* The console is one more output, and the writer reads the mode next.
LEMMA ConsoleContent ==
  ASSUME L_Inv, NEW w \in Writers, AddConsole(w)
  PROVE  /\ L_Types' /\ OutputsDiffer' /\ Numbered' /\ Queued' /\ Handed' /\ Before'
         /\ \A k \in DOMAIN outputs' :
               \/ \E l \in DOMAIN outputs : outputs'[k] = outputs[l]
               \/ outputs'[k].id = made
<1>1. /\ W[w].pc = "first" /\ setLogger(outputs, "console")
      /\ W' = [W EXCEPT ![w].pc = "mode"]
      /\ UNCHANGED <<modes, queue, signals, G, C, books, crashed>>
  BY DEF AddConsole
<1>2. /\ OutputsDiffer' /\ outputs' \in Seq(Instances) /\ made' \in Nat /\ made' >= made
      /\ \A k \in DOMAIN outputs' :
            \/ \E l \in DOMAIN outputs : outputs'[k] = outputs[l]
            \/ outputs'[k].id = made
  BY <1>1, OneOutputMore, BeeLoggerConstants DEF books
<1>3. /\ W' \in [Writers -> WriterCall] /\ \A v \in Writers \ {w} : W'[v] = W[v]
      /\ W'[w].pc = "mode" /\ W'[w].sent = W[w].sent /\ W'[w].msg = W[w].msg
      /\ W'[w].after = W[w].after
  BY <1>1, CallTypes DEF L_Inv, L_Types, WriterCall
<1>4. \A v \in Writers : /\ W'[v].sent = W[v].sent /\ W'[v].msg = W[v].msg /\ W'[v].after = W[v].after
                         /\ W'[v].pc = "out" <=> W[v].pc = "out"
                         /\ W'[v].pc = "idle" <=> W[v].pc = "idle"
                         /\ W'[v].pc = "out" => W'[v] = W[v]
  BY <1>1, <1>3
<1>5. L_Types'
  BY <1>1, <1>2, <1>3 DEF L_Inv, L_Types, modes, queue, signals, books
<1>6. (\A a : InHand(a)' <=> InHand(a)) /\ \A a : Begun(a)' <=> Begun(a)
  BY <1>1, <1>4 DEF InHand, Begun, books
<1>7. Numbered'
  BY <1>1, <1>4 DEF L_Inv, Numbered, books
<1>8. Queued'
  BY <1>1, <1>6 DEF L_Inv, Queued, modes, queue, books
<1>9. Handed'
  <2>1. made \in Nat /\ made' \in Nat /\ made' >= made
    BY <1>2 DEF L_Inv, L_Types
  <2>2. G.pc = "write" => Left(G.msg, G.todo, handed, made')
    BY <2>1, CallTypes, LeftLater DEF L_Inv, Handed
  <2>3. \A v \in Writers : W[v].pc = "out" => Left(W[v].msg, W[v].todo, handed, made')
    BY <2>1, CallTypes, LeftLater DEF L_Inv, Handed
  <2>4. \A v \in Writers : W'[v].pc = "out" => Left(W'[v].msg, W'[v].todo, handed, made')
    BY <1>4, <2>3
  <2> QED
    BY <1>1, <1>6, <2>2, <2>4 DEF L_Inv, Handed, books
<1>10. Before'
  BY <1>1, <1>4, <1>6 DEF L_Inv, Before, queue, books
<1> QED
  BY <1>2, <1>5, <1>7, <1>8, <1>9, <1>10

\* Nobody else's message is w's.
LEMMA OwnMessage ==
  ASSUME L_Inv, NEW w \in Writers, W[w].pc # "idle"
  PROVE  /\ W[w].msg \in Msgs /\ W[w].msg \notin accepted /\ W[w].msg \notin done
         /\ W[w].msg \notin ToSet(msgChan) /\ ~InHand(W[w].msg)
         /\ \A v \in Writers \ {w} :
               /\ W[v].pc # "idle" => W[v].msg # W[w].msg
               /\ W[v].msg = W[w].msg => W[v].after = {}
         /\ W[w].pc \in {"first", "mode"} => ~Begun(W[w].msg)
<1>1. W[w].msg \in Msgs /\ W[w].msg = <<w, W[w].sent>>
  BY CallTypes
<1>2. W[w].msg \notin accepted /\ W[w].msg \notin done /\ W[w].msg \notin ToSet(msgChan) /\ ~InHand(W[w].msg)
  BY DEF L_Inv, L_Types, Numbered, Queued, InHand
<1>3. ASSUME NEW v \in Writers \ {w}
      PROVE  /\ W[v].pc # "idle" => W[v].msg # W[w].msg
             /\ W[v].msg = W[w].msg => W[v].after = {}
  <2>1. W[v].sent = 0 => W[v].pc = "idle" /\ W[v].after = {}
    BY DEF L_Inv, Numbered
  <2>2. W[v].sent # 0 => W[v].msg = <<v, W[v].sent>>
    BY DEF L_Inv, Numbered
  <2>3. <<v, W[v].sent>> # <<w, W[w].sent>>
    OBVIOUS
  <2> QED
    BY <1>1, <2>1, <2>2, <2>3
<1>4. W[w].pc \in {"first", "mode"} => ~Begun(W[w].msg)
  BY <1>2, <1>3 DEF Begun
<1> QED
  BY <1>1, <1>2, <1>3, <1>4

\* Nothing is changed.
LEMMA SameStages ==
  ASSUME L_Inv, NEW c \in Controllers,
         UNCHANGED <<modes, outs, queue, signals, G, C, accepted, done, unflushed>>
  PROVE  Stage(c)' /\ Handshake(c)' /\ Drained(c)'
<1> USE DEF modes, outs, queue, signals
<1>1. Stage(c) /\ Handshake(c) /\ Drained(c)
  BY DEF L_Inv
<1>2. (Serves' <=> Serves) /\ (Draining' <=> Draining) /\ Sent(c)' = Sent(c) /\ (Flushed(c)' <=> Flushed(c))
  BY DEF Serves, Draining, Sent, Flushed
<1>3. Stage(c)'
  BY <1>1, <1>2 DEF Stage
<1>4. Handshake(c)'
  BY <1>1, <1>2 DEF Handshake
<1>5. Drained(c)'
  BY <1>1, <1>2 DEF Drained
<1> QED
  BY <1>3, <1>4, <1>5

\* Nothing is changed by a panic.
LEMMA PanicInv ==
  ASSUME L_Inv, Panic, (asynchronous /\ ~pool) \/ chan = "closed" \/ ~sigOpen
  PROVE  L_Inv'
<1> USE DEF modes, outs, queue, signals, books
<1>1. L_Types' /\ OutputsDiffer' /\ PanicsOnlyAround'
  BY DEF Panic, L_Inv, L_Types, OutputsDiffer, PanicsOnlyAround
<1>2. Numbered' /\ Queued' /\ Handed' /\ Before'
  BY NothingWritten DEF Panic, L_Inv, L_Types, SameInHand, Queued
<1>3. \A c \in Controllers : Stage(c)' /\ Handshake(c)' /\ Drained(c)'
  BY SameStages DEF Panic
<1> QED
  BY <1>1, <1>2, <1>3 DEF L_Inv

\* The writer starts to write its message itself.
LEMMA WritesItself ==
  ASSUME L_Inv, NEW w \in Writers, W[w].pc = "mode", ~asynchronous,
         W' = [W EXCEPT ![w] = [@ EXCEPT !.pc = "out", !.todo = outputs]],
         UNCHANGED <<modes, outs, queue, signals, G, C, books, crashed>>
  PROVE  L_Types' /\ OutputsDiffer' /\ Numbered' /\ Queued' /\ Handed' /\ Before'
<1> USE DEF modes, outs, queue, signals, books
<1> DEFINE m == W[w].msg
<1>1. /\ W' \in [Writers -> WriterCall] /\ \A v \in Writers \ {w} : W'[v] = W[v]
      /\ W'[w].pc = "out" /\ W'[w].sent = W[w].sent /\ W'[w].msg = m
      /\ W'[w].after = W[w].after /\ W'[w].todo = outputs
  BY CallTypes DEF L_Inv, L_Types, WriterCall
<1>2. /\ m \notin accepted /\ ~Begun(m)
      /\ \A v \in Writers \ {w} : W[v].msg = m => W[v].after = {}
  BY OwnMessage
<1> HIDE DEF m
<1>3. L_Types' /\ OutputsDiffer'
  BY <1>1 DEF L_Inv, L_Types, OutputsDiffer
<1>4. \A a : InHand(a)' <=> InHand(a)
  BY DEF InHand
<1>5. \A a : Begun(a)' <=> Begun(a) \/ a = m
  <2>1. \A a : (\E v \in Writers : W'[v].pc = "out" /\ W'[v].msg = a)
               <=> (\E v \in Writers : W[v].pc = "out" /\ W[v].msg = a) \/ a = m
    BY <1>1
  <2> QED
    BY <1>4, <2>1 DEF Begun
<1>6. Numbered'
  <2>1. \A v \in Writers : W'[v].sent = W[v].sent /\ W'[v].msg = W[v].msg /\ W'[v].after = W[v].after
    BY <1>1 DEF m
  <2>2. \A v \in Writers : W'[v].pc = "idle" <=> W[v].pc = "idle"
    BY <1>1
  <2> QED
    BY <2>1, <2>2 DEF L_Inv, Numbered
<1>7. Queued'
  BY <1>4 DEF L_Inv, Queued
<1>8. accepted \subseteq done
  BY DEF L_Inv, Queued, InHand, ToSet
<1>9. Left(m, outputs, handed, made)
  <2>1. \A i \in DOMAIN handed : m \notin ToSet(handed[i])
    BY <1>2 DEF L_Inv, Handed
  <2> QED
    BY <2>1 DEF L_Inv, OutputsDiffer, Left
<1>10. Handed'
  <2>1. \A v \in Writers : W'[v].pc = "out" => Left(W'[v].msg, W'[v].todo, handed, made)
    BY <1>1, <1>9 DEF L_Inv, Handed
  <2> QED
    BY <1>5, <2>1 DEF L_Inv, Handed
<1>11. Before'
  <2>1. \A v \in Writers : W'[v].msg = W[v].msg /\ W'[v].after = W[v].after
    BY <1>1 DEF m
  <2>2. \A v \in Writers : W[v].after \subseteq done
    BY <1>8 DEF L_Inv, Before
  <2> QED
    BY <2>1, <2>2 DEF L_Inv, Before
<1> QED
  BY <1>3, <1>6, <1>7, <1>10, <1>11

\* The message goes into the channel.
LEMMA Enqueues ==
  ASSUME L_Inv, NEW w \in Writers, W[w].pc = "mode", asynchronous, pool, Len(msgChan) < msgChanLen,
         msgChan' = Append(msgChan, W[w].msg), accepted' = accepted \cup {W[w].msg},
         W' = [W EXCEPT ![w].pc = "idle"],
         UNCHANGED <<modes, outs, chan, signals, G, C, done, handed, unflushed, crashed>>
  PROVE  L_Types' /\ OutputsDiffer' /\ Numbered' /\ Queued' /\ Handed' /\ Before'
<1> USE DEF modes, outs, queue, signals, books
<1> DEFINE m == W[w].msg
<1>1. /\ W' \in [Writers -> WriterCall] /\ \A v \in Writers \ {w} : W'[v] = W[v]
      /\ W'[w].pc = "idle" /\ W'[w].sent = W[w].sent /\ W'[w].msg = m
      /\ W'[w].after = W[w].after
  BY CallTypes DEF L_Inv, L_Types, WriterCall
<1>2. /\ m \in Msgs /\ m \notin accepted /\ m \notin done /\ ~Begun(m) /\ m \notin ToSet(msgChan)
      /\ ~InHand(m)
      /\ \A v \in Writers \ {w} : W[v].msg = m => W[v].after = {}
      /\ \A v \in Writers \ {w} : W[v].pc # "idle" => W[v].msg # m
  BY OwnMessage
<1>3. W[w].sent # 0 /\ m = <<w, W[w].sent>> /\ W[w].sent \in 0..MaxMsgs
  BY CallTypes
<1> HIDE DEF m
<1>4. /\ msgChan \in Seq(Msgs) /\ Len(msgChan) \in Nat /\ DOMAIN msgChan = 1..Len(msgChan)
      /\ msgChan' \in Seq(Msgs) /\ Len(msgChan') = Len(msgChan) + 1
      /\ DOMAIN msgChan' = 1..(Len(msgChan) + 1)
      /\ \A k \in 1..Len(msgChan) : msgChan'[k] = msgChan[k]
      /\ msgChan'[Len(msgChan) + 1] = m
      /\ ToSet(msgChan') = ToSet(msgChan) \cup {m}
      /\ IsInjective(msgChan')
  <2>1. msgChan \in Seq(Msgs) /\ msgChan' = Append(msgChan, m) /\ IsInjective(msgChan)
    BY DEF L_Inv, L_Types, Queued, m
  <2>2. /\ Append(msgChan, m) \in Seq(Msgs) /\ Len(Append(msgChan, m)) = Len(msgChan) + 1
        /\ \A i \in 1..Len(msgChan) : Append(msgChan, m)[i] = msgChan[i]
        /\ Append(msgChan, m)[Len(msgChan) + 1] = m
    BY <1>2, <2>1, AppendProperties
  <2>3. /\ ToSet(Append(msgChan, m)) = ToSet(msgChan) \cup {m}
        /\ IsInjective(Append(msgChan, m))
    BY <1>2, <2>1, OneMore
  <2> QED
    BY <2>1, <2>2, <2>3
<1>5. L_Types' /\ OutputsDiffer'
  <2>1. msgChan' # <<>> /\ Len(msgChan') <= msgChanLen
    BY <1>4, BeeLoggerConstants
  <2>2. accepted' \subseteq Msgs /\ done' \subseteq accepted'
    BY <1>2 DEF L_Inv, L_Types, m
  <2> QED
    BY <1>1, <1>4, <2>1, <2>2 DEF L_Inv, L_Types, OutputsDiffer
<1>6. \A a : InHand(a)' <=> InHand(a)
  BY DEF InHand
<1>7. \A a : Begun(a)' <=> Begun(a)
  <2>1. \A a : \A v \in Writers : W'[v].pc = "out" /\ W'[v].msg = a <=> W[v].pc = "out" /\ W[v].msg = a
    BY <1>1
  <2> QED
    BY <1>6, <2>1 DEF Begun
<1>8. Numbered'
  <2>1. \A v \in Writers : W'[v].sent = W[v].sent /\ W'[v].msg = W[v].msg /\ W'[v].after = W[v].after
    BY <1>1 DEF m
  <2>2. \A v \in Writers : W'[v].pc # "idle" => v # w /\ W[v].pc # "idle"
    BY <1>1
  <2>3. \A a \in accepted' : a[1] = w => a[2] <= W[w].sent
    BY <1>3 DEF L_Inv, Numbered, m
  <2>4. \A a \in accepted', v \in Writers \ {w} : a[1] = v => a[2] <= W[v].sent
    BY <1>3 DEF L_Inv, Numbered, m
  <2>5. \A v \in Writers : W'[v].pc # "idle" => W[v].msg \notin accepted'
    BY <1>2, <2>2 DEF L_Inv, Numbered, m
  <2>6. \A v \in Writers :
          IF W'[v].sent = 0 THEN W'[v].pc = "idle" /\ W'[v].after = {} ELSE W'[v].msg = <<v, W'[v].sent>>
    BY <1>1, <2>1 DEF L_Inv, Numbered
  <2> QED
    BY <2>1, <2>3, <2>4, <2>5, <2>6 DEF Numbered
<1>9. Queued'
  <2>1. G.pc = "write" => G.msg # m
    BY <1>2 DEF InHand
  <2>2. G.pc # "off"
    BY BeeLoggerConstants DEF L_Inv, Stage
  <2>3. /\ accepted' = accepted \cup {m} /\ ToSet(msgChan) \subseteq accepted \ done
        /\ G.pc = "write" => G.msg \in accepted \ done /\ G.msg \notin ToSet(msgChan)
        /\ \A a \in accepted : a \in done \/ a \in ToSet(msgChan) \/ InHand(a)
    BY DEF L_Inv, Queued, m
  <2> QED
    BY <1>2, <1>4, <1>6, <2>1, <2>2, <2>3 DEF Queued
<1>10. Handed'
  <2>1. \A v \in Writers : W'[v].pc = "out" => Left(W'[v].msg, W'[v].todo, handed, made)
    BY <1>1 DEF L_Inv, Handed
  <2> QED
    BY <1>7, <2>1 DEF L_Inv, Handed
<1>11. Before'
  <2>1. \A v \in Writers : W'[v].msg = W[v].msg /\ W'[v].after = W[v].after
    BY <1>1 DEF m
  <2>2. \A v \in Writers : W[v].after \subseteq accepted' /\ (Begun(W[v].msg)' => W[v].after \subseteq done)
    BY <1>7 DEF L_Inv, Before
  <2>3. ASSUME NEW v \in Writers, NEW k \in DOMAIN msgChan', msgChan'[k] = W[v].msg, NEW a \in W[v].after
        PROVE  a \in done \/ InHand(a) \/ \E j \in 1..(k - 1) : msgChan'[j] = a
    <3>1. CASE k \in 1..Len(msgChan)
      <4>1. a \in done \/ InHand(a) \/ \E j \in 1..(k - 1) : msgChan[j] = a
        BY <1>4, <2>3, <3>1 DEF L_Inv, Before
      <4>2. \A j \in 1..(k - 1) : j \in 1..Len(msgChan)
        BY <1>4, <3>1
      <4> QED
        BY <1>4, <4>1, <4>2
    <3>2. CASE k = Len(msgChan) + 1
      <4>1. a \in accepted
        BY DEF L_Inv, Before
      <4>2. a \in done \/ a \in ToSet(msgChan) \/ InHand(a)
        BY <4>1 DEF L_Inv, Queued
      <4>3. ASSUME a \in ToSet(msgChan)
            PROVE  \E j \in 1..(k - 1) : msgChan'[j] = a
        <5>1. PICK j \in 1..Len(msgChan) : msgChan[j] = a
          BY <1>4, <4>3 DEF ToSet
        <5>2. j \in 1..(k - 1)
          BY <1>4, <3>2
        <5> QED
          BY <1>4, <5>1, <5>2
      <4> QED
        BY <4>2, <4>3
    <3> QED
      BY <1>4, <3>1, <3>2
  <2> QED
    BY <1>6, <2>1, <2>2, <2>3 DEF Before
<1> QED
  BY <1>5, <1>8, <1>9, <1>10, <1>11
\* The next output gets a message that had not been given to it.
LEMMA OneWritten ==
  ASSUME L_Inv, NEW m \in Msgs, NEW todo \in Seq(Instances), Left(m, todo, handed, made),
         writeTo(todo, m)
  PROVE  /\ DOMAIN handed' = DOMAIN handed /\ handed' \in [DOMAIN handed -> Seq(Msgs)]
         /\ \A i \in DOMAIN handed : ToSet(handed'[i]) \subseteq ToSet(handed[i]) \cup {m}
         /\ \A i \in DOMAIN handed : IsInjective(handed'[i])
         /\ Tail(todo) \in Seq(Instances) \/ Len(todo) <= 1
         /\ Left(m, Tail(todo), handed', made) \/ Len(todo) <= 1
         /\ \A a, t : a # m /\ Left(a, t, handed, made) => Left(a, t, handed', made)
         /\ unflushed' \subseteq Instances \X Msgs
         /\ \A u \in unflushed' : u \in unflushed \/ (u[2] = m /\ u[1].id < made)
         /\ done' = IF Len(todo) <= 1 THEN done \cup {m} ELSE done
<1>1. /\ handed \in [DOMAIN handed -> Seq(Msgs)] /\ \A i \in DOMAIN handed : IsInjective(handed[i])
      /\ unflushed \subseteq Instances \X Msgs
  BY DEF L_Inv, L_Types, Handed
<1>2. done' = IF Len(todo) <= 1 THEN done \cup {m} ELSE done
  BY DEF writeTo
<1>3. CASE todo = <<>>
  <2>1. handed' = handed /\ unflushed' = unflushed /\ Len(todo) <= 1
    BY <1>3 DEF writeTo
  <2> QED
    BY <1>1, <1>2, <2>1
<1>4. CASE todo # <<>>
  <2> DEFINE o == Head(todo)
             d == o.id
  <2>1. /\ handed' = [handed EXCEPT ![d] = Append(@, m)]
        /\ unflushed' = unflushed \cup {<<o, m>>}
    BY <1>4 DEF writeTo
  <2>2. /\ o \in Instances /\ o = todo[1] /\ 1 \in DOMAIN todo /\ Tail(todo) \in Seq(Instances)
        /\ \A k \in DOMAIN Tail(todo) : k + 1 \in DOMAIN todo /\ Tail(todo)[k] = todo[k + 1]
        /\ \A k \in DOMAIN Tail(todo) : k + 1 # 1
    <3>1. /\ o \in Instances /\ o = todo[1] /\ 1 \in DOMAIN todo /\ Tail(todo) \in Seq(Instances)
          /\ \A k \in DOMAIN Tail(todo) : k + 1 \in DOMAIN todo /\ Tail(todo)[k] = todo[k + 1]
      BY <1>4, FirstTaken
    <3>2. \A k \in DOMAIN Tail(todo) : k + 1 # 1
      BY <3>1
    <3> QED
      BY <3>1, <3>2
  <2>3. d \in DOMAIN handed => m \notin ToSet(handed[d])
    BY <2>2 DEF Left
  <2>4. d < made /\ d \in Nat
    <3>1. todo[1].id < made /\ todo[1].id \in Nat
      BY <2>2, InstanceIds DEF Left
    <3> QED
      BY <2>2, <3>1
  <2>5. unflushed' \subseteq Instances \X Msgs
    BY <1>1, <2>1, <2>2
  <2> HIDE DEF o
  <2>6. \A u \in unflushed' : u \in unflushed \/ (u[2] = m /\ u[1].id < made)
    BY <2>1, <2>4
  <2> HIDE DEF d
  <2>7. ASSUME d \in DOMAIN handed
        PROVE  /\ Append(handed[d], m) \in Seq(Msgs) /\ IsInjective(Append(handed[d], m))
               /\ ToSet(Append(handed[d], m)) = ToSet(handed[d]) \cup {m}
    <3>1. handed[d] \in Seq(Msgs) /\ IsInjective(handed[d]) /\ m \notin ToSet(handed[d])
      BY <1>1, <2>3, <2>7
    <3> QED
      BY <3>1, OneMore, AppendProperties
  <2>8. /\ DOMAIN handed' = DOMAIN handed
        /\ \A i \in DOMAIN handed : handed'[i] = IF i = d THEN Append(handed[d], m) ELSE handed[i]
    BY <2>1
  <2>9. handed' \in [DOMAIN handed -> Seq(Msgs)]
    BY <1>1, <2>1, <2>7
  <2>10. \A i \in DOMAIN handed :
            ToSet(handed'[i]) \subseteq ToSet(handed[i]) \cup {m} /\ IsInjective(handed'[i])
    <3> TAKE i \in DOMAIN handed
    <3>1. CASE i = d
      <4>1. handed'[i] = Append(handed[i], m)
        BY <2>8, <3>1
      <4> QED
        BY <2>7, <3>1, <4>1
    <3>2. CASE i # d
      <4>1. handed'[i] = handed[i]
        BY <2>8, <3>2
      <4> QED
        BY <1>1, <4>1
    <3> QED
      BY <3>1, <3>2
  <2>11. \A a, t : a # m /\ Left(a, t, handed, made) => Left(a, t, handed', made)
    BY <2>8, <2>10 DEF Left
  <2>12. Left(m, Tail(todo), handed', made)
    <3>1. \A k \in DOMAIN Tail(todo) : Tail(todo)[k].id # d
      BY <2>2 DEF Left, d, o
    <3>2. \A k \in DOMAIN Tail(todo) : Tail(todo)[k].id \in DOMAIN handed
             => handed'[Tail(todo)[k].id] = handed[Tail(todo)[k].id]
      BY <2>8, <3>1
    <3>3. \A k \in DOMAIN Tail(todo) : Tail(todo)[k].id < made
      BY <2>2 DEF Left
    <3>4. \A k, l \in DOMAIN Tail(todo) : Tail(todo)[k].id = Tail(todo)[l].id => k = l
      <4>1. \A k, l \in DOMAIN Tail(todo) : k + 1 = l + 1 => k = l
        BY <2>2
      <4> QED
        BY <2>2, <4>1 DEF Left
    <3>5. \A k \in DOMAIN Tail(todo) : Tail(todo)[k].id \in DOMAIN handed
             => m \notin ToSet(handed[Tail(todo)[k].id])
      BY <2>2 DEF Left
    <3> QED
      BY <2>8, <3>2, <3>3, <3>4, <3>5 DEF Left
  <2> QED
    BY <1>2, <2>2, <2>5, <2>6, <2>8, <2>9, <2>10, <2>11, <2>12
<1> QED
  BY <1>3, <1>4

\* A writer gives its message to the next output.
LEMMA OutContent ==
  ASSUME L_Inv, NEW w \in Writers, Out(w)
  PROVE  L_Types' /\ OutputsDiffer' /\ Numbered' /\ Queued' /\ Handed' /\ Before'
<1> USE DEF modes, outs, queue, signals
<1> DEFINE m == W[w].msg
           todo == W[w].todo
<1>1. /\ W[w].pc = "out" /\ writeTo(todo, m)
      /\ UNCHANGED <<modes, outs, queue, signals, G, C, crashed>>
      /\ \/ /\ Len(todo) <= 1 /\ accepted' = accepted \cup {m}
            /\ W' = [W EXCEPT ![w] = [@ EXCEPT !.pc = "idle", !.todo = <<>>]]
         \/ /\ ~(Len(todo) <= 1) /\ accepted' = accepted
            /\ W' = [W EXCEPT ![w].todo = Tail(@)]
  BY DEF Out
<1>2. /\ m \in Msgs /\ m \notin accepted /\ m \notin done /\ m \notin ToSet(msgChan) /\ ~InHand(m)
      /\ \A v \in Writers \ {w} : W[v].pc # "idle" => W[v].msg # m
  BY <1>1, OwnMessage
<1>3. W[w].sent # 0 /\ m = <<w, W[w].sent>> /\ todo \in Seq(Instances)
  BY <1>1, CallTypes
<1>4. /\ DOMAIN handed' = DOMAIN handed /\ handed' \in [DOMAIN handed -> Seq(Msgs)]
      /\ \A i \in DOMAIN handed : ToSet(handed'[i]) \subseteq ToSet(handed[i]) \cup {m}
      /\ \A i \in DOMAIN handed : IsInjective(handed'[i])
      /\ Tail(todo) \in Seq(Instances) \/ Len(todo) <= 1
      /\ Left(m, Tail(todo), handed', made) \/ Len(todo) <= 1
      /\ \A a, t : a # m /\ Left(a, t, handed, made) => Left(a, t, handed', made)
      /\ unflushed' \subseteq Instances \X Msgs
      /\ \A u \in unflushed' : u \in unflushed \/ (u[2] = m /\ u[1].id < made)
      /\ done' = IF Len(todo) <= 1 THEN done \cup {m} ELSE done
  <2>1. Left(m, todo, handed, made)
    BY <1>1 DEF L_Inv, Handed
  <2> QED
    BY <1>1, <1>2, <1>3, <2>1, OneWritten
<1>5. /\ W' \in [Writers -> WriterCall] /\ \A v \in Writers \ {w} : W'[v] = W[v]
      /\ W'[w].sent = W[w].sent /\ W'[w].msg = m /\ W'[w].after = W[w].after
      /\ \/ Len(todo) <= 1 /\ W'[w].pc = "idle"
         \/ ~(Len(todo) <= 1) /\ W'[w].pc = "out" /\ W'[w].todo = Tail(todo)
  <2>1. W \in [Writers -> WriterCall] /\ W[w] \in WriterCall
    BY DEF L_Inv, L_Types
  <2>2. CASE /\ Len(todo) <= 1
             /\ W' = [W EXCEPT ![w] = [@ EXCEPT !.pc = "idle", !.todo = <<>>]]
    <3> DEFINE r == [W[w] EXCEPT !.pc = "idle", !.todo = <<>>]
    <3>1. <<>> \in Seq(Instances)
      OBVIOUS
    <3>2. /\ r \in WriterCall /\ r.pc = "idle" /\ r.sent = W[w].sent /\ r.msg = W[w].msg
          /\ r.after = W[w].after
      BY <2>1, <3>1 DEF WriterCall
    <3>3. W' = [W EXCEPT ![w] = r]
      BY <2>2
    <3> HIDE DEF r
    <3> QED
      BY <2>1, <2>2, <3>2, <3>3
  <2>3. CASE ~(Len(todo) <= 1) /\ W' = [W EXCEPT ![w].todo = Tail(@)]
    <3>1. Tail(todo) \in Seq(Instances)
      BY <1>4, <2>3
    <3> QED
      BY <1>1, <2>1, <2>3, <3>1 DEF WriterCall
  <2> QED
    BY <1>1, <2>2, <2>3
<1>6. accepted' = IF Len(todo) <= 1 THEN accepted \cup {m} ELSE accepted
  BY <1>1
<1>7. Begun(m)
  BY <1>1 DEF Begun
<1> HIDE DEF m, todo
<1>8. L_Types' /\ OutputsDiffer'
  <2>1. accepted' \subseteq Msgs /\ done' \subseteq accepted'
    BY <1>2, <1>4, <1>6 DEF L_Inv, L_Types
  <2>2. L_Types'
    BY <1>1, <1>4, <1>5, <2>1 DEF L_Inv, L_Types
  <2> QED
    BY <1>1, <1>4, <2>2 DEF L_Inv, OutputsDiffer
<1>9. \A a : InHand(a)' <=> InHand(a)
  BY <1>1 DEF InHand
<1>10. \A a : Begun(a)' <=> Begun(a)
  <2>1. \A a : (\E v \in Writers \ {w} : W'[v].pc = "out" /\ W'[v].msg = a)
               <=> (\E v \in Writers \ {w} : W[v].pc = "out" /\ W[v].msg = a)
    BY <1>5
  <2>2. \A a : Begun(a) <=> \/ a \in done \/ InHand(a) \/ a = m
                            \/ \E v \in Writers \ {w} : W[v].pc = "out" /\ W[v].msg = a
    BY <1>1 DEF Begun, m
  <2>3. \A a : Begun(a)' <=> \/ a \in done' \/ InHand(a) \/ (W'[w].pc = "out" /\ a = m)
                             \/ \E v \in Writers \ {w} : W'[v].pc = "out" /\ W'[v].msg = a
    BY <1>5, <1>9 DEF Begun
  <2> QED
    BY <1>4, <1>5, <2>1, <2>2, <2>3
<1>11. Numbered'
  <2>1. \A v \in Writers : W'[v].sent = W[v].sent /\ W'[v].msg = W[v].msg /\ W'[v].after = W[v].after
    BY <1>5 DEF m
  <2>2. \A v \in Writers \ {w} : W'[v].pc # "idle" => W[v].msg \notin accepted'
    BY <1>2, <1>5, <1>6 DEF L_Inv, Numbered
  <2>3. W'[w].pc # "idle" => m \notin accepted'
    BY <1>2, <1>5, <1>6
  <2>4. \A v \in Writers :
          IF W'[v].sent = 0 THEN W'[v].pc = "idle" /\ W'[v].after = {} ELSE W'[v].msg = <<v, W'[v].sent>>
    BY <1>3, <1>5, <2>1 DEF L_Inv, Numbered
  <2>5. \A v \in Writers : \A a \in accepted' : a[1] = v => a[2] <= W[v].sent
    <3>1. m[1] = w /\ m[2] <= W[w].sent
      BY <1>3, CallTypes, BeeLoggerConstants
    <3> QED
      BY <1>6, <3>1 DEF L_Inv, Numbered
  <2>6. \A v \in Writers : W'[v].pc # "idle" => W'[v].msg \notin accepted'
    BY <1>5, <2>2, <2>3
  <2> QED
    BY <2>1, <2>4, <2>5, <2>6 DEF Numbered
<1>12. Queued'
  <2>1. /\ G.pc = "write" => G.msg # m
        /\ \A a \in accepted' : a \in accepted \/ (a = m /\ a \in done')
        /\ \A a \in done' : a \in done \/ a = m
        /\ accepted \subseteq accepted' /\ done \subseteq done'
    BY <1>2, <1>4, <1>6 DEF InHand
  <2> QED
    BY <1>1, <1>2, <1>9, <2>1 DEF L_Inv, Queued
<1>13. Handed'
  <2>1. \A i \in DOMAIN handed' : \A a \in ToSet(handed'[i]) : Begun(a)'
    BY <1>4, <1>7, <1>10 DEF L_Inv, Handed
  <2>2. G.pc = "write" => Left(G.msg, G.todo, handed', made)
    BY <1>2, <1>4 DEF L_Inv, Handed, InHand
  <2>3. \A v \in Writers : W'[v].pc = "out" => Left(W'[v].msg, W'[v].todo, handed', made)
    <3> TAKE v \in Writers
    <3>1. CASE v = w
      BY <1>4, <1>5, <3>1
    <3>2. CASE v # w
      <4>1. W'[v] = W[v] /\ (W[v].pc = "out" => W[v].msg # m)
        BY <1>2, <1>5, <3>2
      <4>2. W[v].pc = "out" => Left(W[v].msg, W[v].todo, handed, made)
        BY DEF L_Inv, Handed
      <4> QED
        BY <1>4, <4>1, <4>2
    <3> QED
      BY <3>1, <3>2
  <2> QED
    BY <1>1, <1>4, <2>1, <2>2, <2>3 DEF Handed
<1>14. Before'
  <2>1. \A v \in Writers : W'[v].msg = W[v].msg /\ W'[v].after = W[v].after
    BY <1>5 DEF m
  <2>2. accepted \subseteq accepted' /\ done \subseteq done'
    BY <1>4, <1>6
  <2> QED
    BY <1>1, <1>9, <1>10, <2>1, <2>2 DEF L_Inv, Before
<1> QED
  BY <1>8, <1>11, <1>12, <1>13, <1>14
-----------------------------------------------------------------------------
(* Steps of the logger's goroutine.                                        *)

\* The first message of the channel is taken.
LEMMA TakeContent ==
  ASSUME L_Inv, NEW after \in {"select", "drain"}, G.pc = after, msgChan # <<>>,
         G' = [G EXCEPT !.pc = "write", !.msg = Head(msgChan), !.todo = outputs, !.then = after],
         msgChan' = Tail(msgChan),
         UNCHANGED <<modes, outs, chan, signals, W, C, books, crashed>>
  PROVE  L_Types' /\ OutputsDiffer' /\ Numbered' /\ Queued' /\ Handed' /\ Before'
<1> USE DEF modes, outs, signals, books
<1> DEFINE m == Head(msgChan)
<1>1. /\ m \in Msgs /\ msgChan' \in Seq(Msgs) /\ Len(msgChan') = Len(msgChan) - 1
      /\ m = msgChan[1] /\ 1 \in DOMAIN msgChan
      /\ \A k \in DOMAIN msgChan' : k + 1 \in DOMAIN msgChan /\ msgChan'[k] = msgChan[k + 1]
      /\ \A k \in DOMAIN msgChan : k # 1 => k - 1 \in DOMAIN msgChan' /\ msgChan'[k - 1] = msgChan[k]
      /\ ToSet(msgChan) = {m} \cup ToSet(msgChan')
      /\ IsInjective(msgChan') /\ m \notin ToSet(msgChan')
  <2>1. msgChan \in Seq(Msgs) /\ IsInjective(msgChan)
    BY DEF L_Inv, L_Types, Queued
  <2> QED
    BY <2>1, FirstTaken
<1>2. /\ G' \in LoggerState /\ G'.pc = "write" /\ G'.msg = m /\ G'.todo = outputs
      /\ G.pc # "write" /\ G.pc # "off"
  <2>1. G \in LoggerState /\ outputs \in Seq(Instances)
    BY DEF L_Inv, L_Types
  <2> HIDE DEF m
  <2>2. G' = [G EXCEPT !.pc = "write", !.msg = m, !.todo = outputs, !.then = after]
    BY DEF m
  <2> QED
    BY <1>1, <2>1, <2>2 DEF LoggerState
<1>3. m \in accepted /\ m \notin done
  BY <1>1 DEF L_Inv, Queued
<1> HIDE DEF m
<1>4. L_Types' /\ OutputsDiffer'
  <2>1. Len(msgChan') <= msgChanLen
    <3>1. Len(msgChan) \in Nat /\ Len(msgChan) <= msgChanLen
      BY DEF L_Inv, L_Types
    <3> QED
      BY <1>1, <3>1, BeeLoggerConstants
  <2> QED
    BY <1>1, <1>2, <2>1 DEF L_Inv, L_Types, OutputsDiffer
<1>5. \A a : ~InHand(a) /\ (InHand(a)' <=> a = m)
  BY <1>2 DEF InHand
<1>6. ~Begun(m)
  <2>1. \A v \in Writers : W[v].pc = "out" => W[v].msg # m
    BY <1>3 DEF L_Inv, Numbered
  <2> QED
    BY <1>3, <1>5, <2>1 DEF Begun
<1>7. \A a : Begun(a)' <=> Begun(a) \/ a = m
  BY <1>5 DEF Begun
<1>8. Numbered'
  BY DEF L_Inv, Numbered
<1>9. Queued'
  BY <1>1, <1>2, <1>3, <1>5 DEF L_Inv, Queued
<1>10. Handed'
  <2>1. Left(m, outputs, handed, made)
    <3>1. \A i \in DOMAIN handed : m \notin ToSet(handed[i])
      BY <1>6 DEF L_Inv, Handed
    <3> QED
      BY <3>1 DEF L_Inv, OutputsDiffer, Left
  <2> QED
    BY <1>2, <1>7, <2>1 DEF L_Inv, Handed
<1>11. Before'
  <2>1. ASSUME NEW v \in Writers, W[v].msg = m PROVE W[v].after \subseteq done
    <3>1. ASSUME NEW a \in W[v].after PROVE a \in done
      <4>1. a \in done \/ InHand(a) \/ \E j \in 1..(1 - 1) : msgChan[j] = a
        BY <1>1, <2>1 DEF L_Inv, Before
      <4>2. 1..(1 - 1) = {}
        OBVIOUS
      <4> QED
        BY <1>5, <4>1, <4>2
    <3> QED
      BY <3>1
  <2>2. \A v \in Writers : Begun(W[v].msg)' => W[v].after \subseteq done
    BY <1>7, <2>1 DEF L_Inv, Before
  <2>3. ASSUME NEW v \in Writers, NEW k \in DOMAIN msgChan', msgChan'[k] = W[v].msg, NEW a \in W[v].after
        PROVE  a \in done \/ a = m \/ \E j \in 1..(k - 1) : msgChan'[j] = a
    <3>1. k + 1 \in DOMAIN msgChan /\ msgChan[k + 1] = W[v].msg /\ k \in Nat /\ (k + 1) - 1 = k
      <4>1. k \in Nat
        BY <1>1
      <4> QED
        BY <1>1, <2>3, <4>1
    <3>2. a \in done \/ InHand(a) \/ \E j \in 1..k : msgChan[j] = a
      BY <3>1 DEF L_Inv, Before
    <3>3. ASSUME NEW j \in 1..k, msgChan[j] = a
          PROVE  a = m \/ \E i \in 1..(k - 1) : msgChan'[i] = a
      <4>1. CASE j = 1
        BY <1>1, <3>3, <4>1
      <4>2. CASE j # 1
        <5>1. j \in DOMAIN msgChan
          <6>1. DOMAIN msgChan = 1..Len(msgChan) /\ Len(msgChan) \in Nat
            BY DEF L_Inv, L_Types
          <6> QED
            BY <3>1, <6>1
        <5>2. msgChan'[j - 1] = a
          BY <1>1, <3>3, <4>2, <5>1
        <5>3. j - 1 \in 1..(k - 1)
          BY <3>1, <4>2
        <5> QED
          BY <5>2, <5>3
      <4> QED
        BY <4>1, <4>2
    <3> QED
      BY <1>5, <3>2, <3>3
  <2>4. \A v \in Writers : W[v].after \subseteq accepted
    BY DEF L_Inv, Before
  <2> QED
    BY <1>5, <2>2, <2>3, <2>4 DEF Before
<1> QED
  BY <1>4, <1>8, <1>9, <1>10, <1>11

\* The logger's goroutine gives the message it has in hand to the next output.
LEMMA LoggerWritesContent ==
  ASSUME L_Inv, LoggerWrites
  PROVE  L_Types' /\ OutputsDiffer' /\ Numbered' /\ Queued' /\ Handed' /\ Before'
<1> USE DEF modes, outs, queue, signals
<1> DEFINE m == G.msg
           todo == G.todo
<1>1. /\ G.pc = "write" /\ writeTo(todo, m)
      /\ UNCHANGED <<modes, outs, queue, signals, W, C, accepted, crashed>>
      /\ G' = IF Len(todo) <= 1
              THEN [G EXCEPT !.pc = G.then, !.msg = None, !.todo = <<>>]
              ELSE [G EXCEPT !.todo = Tail(@)]
  BY DEF LoggerWrites
<1>2. m \in accepted /\ m \in Msgs /\ m \notin done /\ m \notin ToSet(msgChan) /\ Begun(m)
  BY <1>1 DEF L_Inv, L_Types, Queued, Begun, InHand
<1>3. todo \in Seq(Instances) /\ G.then \in {"select", "drain"} /\ asynchronous
  <2>1. PICK c \in Controllers : Controllers = {c}
    BY BeeLoggerConstants
  <2>2. Serves \/ Draining
    BY <1>1, <2>1 DEF L_Inv, Stage
  <2> QED
    BY <1>1, <2>2, CallTypes DEF Serves, Draining, L_Inv, Queued
<1>4. /\ DOMAIN handed' = DOMAIN handed /\ handed' \in [DOMAIN handed -> Seq(Msgs)]
      /\ \A i \in DOMAIN handed : ToSet(handed'[i]) \subseteq ToSet(handed[i]) \cup {m}
      /\ \A i \in DOMAIN handed : IsInjective(handed'[i])
      /\ Tail(todo) \in Seq(Instances) \/ Len(todo) <= 1
      /\ Left(m, Tail(todo), handed', made) \/ Len(todo) <= 1
      /\ \A a, t : a # m /\ Left(a, t, handed, made) => Left(a, t, handed', made)
      /\ unflushed' \subseteq Instances \X Msgs
      /\ \A u \in unflushed' : u \in unflushed \/ (u[2] = m /\ u[1].id < made)
      /\ done' = IF Len(todo) <= 1 THEN done \cup {m} ELSE done
  <2>1. Left(m, todo, handed, made)
    BY <1>1 DEF L_Inv, Handed
  <2> QED
    BY <1>1, <1>2, <1>3, <2>1, OneWritten
<1>5. /\ G' \in LoggerState
      /\ \/ Len(todo) <= 1 /\ G'.pc \in {"select", "drain"}
         \/ ~(Len(todo) <= 1) /\ G'.pc = "write" /\ G'.msg = m /\ G'.todo = Tail(todo)
  <2>1. G \in LoggerState
    BY DEF L_Inv, L_Types
  <2>2. CASE Len(todo) <= 1
    <3> DEFINE r == [G EXCEPT !.pc = G.then, !.msg = None, !.todo = <<>>]
    <3>1. <<>> \in Seq(Instances) /\ None \in Msgs \cup {None}
      OBVIOUS
    <3>2. r \in LoggerState /\ r.pc = G.then
      BY <1>3, <2>1, <3>1 DEF LoggerState
    <3>3. G' = r
      BY <1>1, <2>2
    <3> HIDE DEF r
    <3> QED
      BY <1>3, <2>2, <3>2, <3>3
  <2>3. CASE ~(Len(todo) <= 1)
    <3>1. Tail(todo) \in Seq(Instances) /\ G' = [G EXCEPT !.todo = Tail(todo)]
      BY <1>1, <1>4, <2>3
    <3> QED
      BY <1>1, <2>1, <2>3, <3>1 DEF LoggerState
  <2> QED
    BY <2>2, <2>3
<1> HIDE DEF m, todo
<1>6. L_Types' /\ OutputsDiffer'
  <2>1. done' \subseteq accepted'
    BY <1>1, <1>2, <1>4 DEF L_Inv, L_Types
  <2>2. L_Types'
    BY <1>1, <1>4, <1>5, <2>1 DEF L_Inv, L_Types
  <2> QED
    BY <1>1, <1>4, <2>2 DEF L_Inv, OutputsDiffer
<1>7. \A a : InHand(a) <=> a = m
  BY <1>1 DEF InHand, m
<1>8. \A a : InHand(a)' <=> ~(Len(todo) <= 1) /\ a = m
  BY <1>5 DEF InHand
<1>9. \A a : a \in done' \/ InHand(a)' <=> a \in done \/ InHand(a)
  BY <1>4, <1>7, <1>8
<1>10. \A a : Begun(a)' <=> Begun(a)
  <2>1. \A v \in Writers : W'[v] = W[v]
    BY <1>1
  <2> QED
    BY <1>1, <1>9, <2>1 DEF Begun
<1>11. Numbered'
  BY <1>1 DEF L_Inv, Numbered
<1>12. Queued'
  <2>1. \A a \in done' : a \in done \/ a = m
    BY <1>4
  <2>2. G'.pc = "write" => G'.msg = m /\ done' = done
    BY <1>4, <1>5
  <2>3. \A a \in accepted : a \in done' \/ a \in ToSet(msgChan) \/ InHand(a)'
    BY <1>9 DEF L_Inv, Queued
  <2>4. G'.pc # "off"
    BY <1>5
  <2> QED
    BY <1>1, <1>2, <1>3, <2>1, <2>2, <2>3, <2>4 DEF L_Inv, Queued
<1>13. Handed'
  <2>1. \A i \in DOMAIN handed' : \A a \in ToSet(handed'[i]) : Begun(a)'
    BY <1>2, <1>4, <1>10 DEF L_Inv, Handed
  <2>2. G'.pc = "write" => Left(G'.msg, G'.todo, handed', made)
    BY <1>4, <1>5
  <2>3. \A v \in Writers : W[v].pc = "out" => Left(W[v].msg, W[v].todo, handed', made)
    <3>1. \A v \in Writers : W[v].pc = "out" => W[v].msg # m /\ Left(W[v].msg, W[v].todo, handed, made)
      BY <1>2 DEF L_Inv, Numbered, Handed
    <3> QED
      BY <1>4, <3>1
  <2> QED
    BY <1>1, <1>4, <2>1, <2>2, <2>3 DEF Handed
<1>14. Before'
  <2>1. done \subseteq done'
    BY <1>4
  <2>2. \A a : a \in done \/ InHand(a) => a \in done' \/ InHand(a)'
    BY <1>9
  <2>3. \A v \in Writers : W[v].after \subseteq accepted /\ (Begun(W[v].msg) => W[v].after \subseteq done)
    BY DEF L_Inv, Before
  <2>4. \A v \in Writers : \A k \in DOMAIN msgChan : msgChan[k] = W[v].msg =>
          \A a \in W[v].after :
              a \in done' \/ InHand(a)' \/ \E j \in 1..(k - 1) : msgChan[j] = a
    BY <2>2 DEF L_Inv, Before
  <2> QED
    BY <1>1, <1>10, <2>1, <2>3, <2>4 DEF Before
<1> QED
  BY <1>6, <1>11, <1>12, <1>13, <1>14
-----------------------------------------------------------------------------
(* Signals.                                                                *)

\* Steps that only write messages leave the handshake alone.
LEMMA HandshakeKept ==
  ASSUME L_Inv, UNCHANGED <<modes, chan, signals, C, crashed>>,
         Serves' <=> Serves, Draining' <=> Draining, G'.sg = G.sg,
         G'.pc = "write" => Serves' \/ Draining',
         \A pc \in {"off", "signalled", "over"} : G'.pc = pc <=> G.pc = pc,
         pool \/ UNCHANGED msgChan,
         accepted \subseteq accepted', done \subseteq done',
         \A u \in unflushed' : u \in unflushed \/ u[2] \notin done,
         \A k \in DOMAIN outputs' :
            \/ \E l \in DOMAIN outputs : outputs'[k] = outputs[l]
            \/ outputs'[k].id = made
  PROVE  PanicsOnlyAround' /\ \A c \in Controllers : Stage(c)' /\ Handshake(c)' /\ Drained(c)'
<1> USE DEF modes, signals
<1>1. PanicsOnlyAround'
  BY DEF L_Inv, PanicsOnlyAround
<1>2. ASSUME NEW c \in Controllers
      PROVE  Stage(c)' /\ Handshake(c)' /\ Drained(c)'
  <2>1. Stage(c) /\ Handshake(c) /\ Drained(c)
    BY DEF L_Inv
  <2>2. Stage(c)'
    BY <2>1 DEF Stage
  <2>3. Handshake(c)'
    BY <2>1 DEF Handshake, Sent
  <2>4. Flushed(c)' <=> Flushed(c)
    BY DEF Flushed
  <2>5. ASSUME Flushed(c), NEW m \in C[c].before, NEW k \in DOMAIN outputs'
        PROVE  <<outputs'[k], m>> \notin unflushed'
    <3>1. m \in done /\ \A i \in DOMAIN outputs : <<outputs[i], m>> \notin unflushed
      BY <2>1, <2>5 DEF Drained
    <3>2. CASE \E l \in DOMAIN outputs : outputs'[k] = outputs[l]
      BY <3>1, <3>2
    <3>3. CASE outputs'[k].id = made
      <4>1. made \in Nat /\ \A u \in unflushed : u[1].id < made
        BY DEF L_Inv, L_Types, OutputsDiffer
      <4> QED
        BY <3>1, <3>3, <4>1
    <3> QED
      BY <3>2, <3>3
  <2>6. Drained(c)'
    BY <2>1, <2>4, <2>5 DEF Drained
  <2> QED
    BY <2>2, <2>3, <2>6
<1> QED
  BY <1>1, <1>2

\* A call of a level function.
LEMMA StartInv ==
  ASSUME L_Inv, NEW w \in Writers, Start(w)
  PROVE  L_Inv'
<1>1. L_Types' /\ OutputsDiffer' /\ Numbered' /\ Queued' /\ Handed' /\ Before'
  BY StartContent
<1>2. UNCHANGED <<modes, outs, queue, signals, G, C, books, crashed>>
  BY DEF Start
<1>3. PanicsOnlyAround' /\ \A c \in Controllers : Stage(c)' /\ Handshake(c)' /\ Drained(c)'
  <2>1. G.pc = "write" => Serves \/ Draining
    BY BeeLoggerConstants DEF L_Inv, Stage
  <2> QED
    BY <1>2, <2>1, HandshakeKept DEF modes, outs, queue, signals, books, Serves, Draining
<1> QED
  BY <1>1, <1>3 DEF L_Inv

\* A logger never configured gets the console.
LEMMA AddConsoleInv ==
  ASSUME L_Inv, NEW w \in Writers, AddConsole(w)
  PROVE  L_Inv'
<1>1. /\ L_Types' /\ OutputsDiffer' /\ Numbered' /\ Queued' /\ Handed' /\ Before'
      /\ \A k \in DOMAIN outputs' :
            \/ \E l \in DOMAIN outputs : outputs'[k] = outputs[l]
            \/ outputs'[k].id = made
  BY ConsoleContent
<1>2. UNCHANGED <<modes, queue, signals, G, C, books, crashed>>
  BY DEF AddConsole
<1>3. PanicsOnlyAround' /\ \A c \in Controllers : Stage(c)' /\ Handshake(c)' /\ Drained(c)'
  <2>1. G.pc = "write" => Serves \/ Draining
    BY BeeLoggerConstants DEF L_Inv, Stage
  <2> QED
    BY <1>1, <1>2, <2>1, HandshakeKept DEF modes, queue, signals, books, Serves, Draining
<1> QED
  BY <1>1, <1>3 DEF L_Inv

\* The other steps of a writer.
LEMMA WriterInv ==
  ASSUME L_Inv, NEW w \in Writers, ReadMode(w) \/ Out(w)
  PROVE  L_Inv'
<1>1. G.pc = "write" => Serves \/ Draining
  BY BeeLoggerConstants DEF L_Inv, Stage
<1>2. CASE asynchronous /\ (~pool \/ chan = "closed") /\ Panic
  BY <1>2, PanicInv
<1>3. CASE /\ W[w].pc = "mode" /\ ~asynchronous
           /\ W' = [W EXCEPT ![w] = [@ EXCEPT !.pc = "out", !.todo = outputs]]
           /\ UNCHANGED <<modes, outs, queue, signals, G, C, books, crashed>>
  <2>1. L_Types' /\ OutputsDiffer' /\ Numbered' /\ Queued' /\ Handed' /\ Before'
    BY <1>3, WritesItself
  <2>2. PanicsOnlyAround' /\ \A c \in Controllers : Stage(c)' /\ Handshake(c)' /\ Drained(c)'
    BY <1>1, <1>3, HandshakeKept DEF modes, outs, queue, signals, books, Serves, Draining
  <2> QED
    BY <2>1, <2>2 DEF L_Inv
<1>4. CASE /\ W[w].pc = "mode" /\ asynchronous /\ pool /\ chan = "open" /\ Len(msgChan) < msgChanLen
           /\ msgChan' = Append(msgChan, W[w].msg) /\ accepted' = accepted \cup {W[w].msg}
           /\ W' = [W EXCEPT ![w].pc = "idle"]
           /\ UNCHANGED <<modes, outs, chan, signals, G, C, done, handed, unflushed, crashed>>
  <2>1. L_Types' /\ OutputsDiffer' /\ Numbered' /\ Queued' /\ Handed' /\ Before'
    BY <1>4, Enqueues
  <2>2. PanicsOnlyAround' /\ \A c \in Controllers : Stage(c)' /\ Handshake(c)' /\ Drained(c)'
    BY <1>1, <1>4, HandshakeKept DEF modes, outs, queue, signals, books, Serves, Draining
  <2> QED
    BY <2>1, <2>2 DEF L_Inv
<1>5. CASE Out(w)
  <2>1. L_Types' /\ OutputsDiffer' /\ Numbered' /\ Queued' /\ Handed' /\ Before'
    BY <1>5, OutContent
  <2>2. W[w].msg \notin done /\ W[w].pc = "out"
    BY <1>5, OwnMessage DEF Out
  <2>3. /\ UNCHANGED <<modes, outs, queue, signals, G, C, crashed>>
        /\ accepted \subseteq accepted' /\ done \subseteq done'
        /\ \A u \in unflushed' : u \in unflushed \/ u[2] = W[w].msg
    BY <1>5 DEF Out, writeTo
  <2>4. PanicsOnlyAround' /\ \A c \in Controllers : Stage(c)' /\ Handshake(c)' /\ Drained(c)'
    BY <1>1, <2>2, <2>3, HandshakeKept DEF modes, outs, queue, signals, Serves, Draining
  <2> QED
    BY <2>1, <2>4 DEF L_Inv
<1> QED
  BY <1>2, <1>3, <1>4, <1>5 DEF ReadMode

\* The logger's goroutine takes a message.
LEMMA TakeInv ==
  ASSUME L_Inv, NEW after \in {"select", "drain"}, G.pc = after, TakeMsg(after)
  PROVE  L_Inv'
<1>1. CASE msgChan = <<>> /\ chan = "closed" /\ after = "select" /\ Panic
  BY <1>1, PanicInv
<1>2. CASE /\ msgChan # <<>>
           /\ G' = [G EXCEPT !.pc = "write", !.msg = Head(msgChan), !.todo = outputs, !.then = after]
           /\ msgChan' = Tail(msgChan)
           /\ UNCHANGED <<modes, outs, chan, signals, W, C, books, crashed>>
  <2>1. L_Types' /\ OutputsDiffer' /\ Numbered' /\ Queued' /\ Handed' /\ Before'
    BY <1>2, TakeContent
  <2>2. G'.pc = "write" /\ G'.then = after /\ G'.sg = G.sg
    BY <1>2 DEF L_Inv, L_Types, LoggerState
  <2>3. Serves' <=> Serves
    BY <2>2 DEF Serves
  <2>4. Draining' <=> Draining
    BY <2>2 DEF Draining
  <2>5. Serves' \/ Draining'
    BY <2>2 DEF Serves, Draining
  <2>6. pool
    BY BeeLoggerConstants DEF L_Inv, Stage
  <2>7. PanicsOnlyAround' /\ \A c \in Controllers : Stage(c)' /\ Handshake(c)' /\ Drained(c)'
    BY <1>2, <2>2, <2>3, <2>4, <2>5, <2>6, HandshakeKept DEF modes, outs, signals, books
  <2> QED
    BY <2>1, <2>7 DEF L_Inv
<1> QED
  BY <1>1, <1>2 DEF TakeMsg

\* The logger's goroutine writes.
LEMMA LoggerWritesInv ==
  ASSUME L_Inv, LoggerWrites
  PROVE  L_Inv'
<1>1. L_Types' /\ OutputsDiffer' /\ Numbered' /\ Queued' /\ Handed' /\ Before'
  BY LoggerWritesContent
<1>2. /\ G.pc = "write" /\ G.msg \notin done /\ (Serves \/ Draining) /\ G \in LoggerState
      /\ G.then \in {"select", "drain"}
  <2>1. G.pc = "write"
    BY DEF LoggerWrites
  <2>2. Serves \/ Draining
    BY <2>1, BeeLoggerConstants DEF L_Inv, Stage
  <2> QED
    BY <2>1, <2>2 DEF L_Inv, L_Types, Queued, Serves, Draining
<1>3. /\ UNCHANGED <<modes, outs, queue, signals, W, C, accepted, crashed>>
      /\ done \subseteq done'
      /\ \A u \in unflushed' : u \in unflushed \/ u[2] = G.msg
  BY DEF LoggerWrites, writeTo
<1>4. /\ G'.sg = G.sg /\ G'.then = G.then
      /\ G'.pc = G.then \/ G'.pc = "write"
  BY <1>2 DEF LoggerWrites, LoggerState
<1>5. (Serves' <=> Serves) /\ (Draining' <=> Draining)
  BY <1>2, <1>4 DEF Serves, Draining
<1>6. Serves' \/ Draining'
  BY <1>2, <1>4 DEF Serves, Draining
<1>7. PanicsOnlyAround' /\ \A c \in Controllers : Stage(c)' /\ Handshake(c)' /\ Drained(c)'
  BY <1>2, <1>3, <1>4, <1>5, <1>6, HandshakeKept DEF modes, outs, queue, signals
<1> QED
  BY <1>1, <1>7 DEF L_Inv
-----------------------------------------------------------------------------
(* Steps that write no message: signals and controllers.                   *)

Stages == {"idle", "making", "channel", "starting", "signal", "wait", "add", "flush",
           "destroy", "closeMsgs", "closeSignals", "returning"}

\* The controller goes on, or calls.
LEMMA GoesOn ==
  ASSUME L_Inv, NEW c \in Controllers, NEW pc \in Stages, Goes(c, pc)
  PROVE  /\ C' \in [Controllers -> ControllerCall]
         /\ C'[c].pc = pc /\ C'[c].call = C[c].call /\ C'[c].before = C[c].before
<1>1. C \in [Controllers -> ControllerCall] /\ C[c] \in ControllerCall
  BY DEF L_Inv, L_Types
<1>2. C' = [C EXCEPT ![c].pc = pc]
  BY DEF Goes
<1> QED
  BY <1>1, <1>2 DEF ControllerCall, Stages

LEMMA Calls ==
  ASSUME L_Inv, NEW c \in Controllers, NEW pc \in Stages, NEW call \in CallNames, Begins(c, call, pc)
  PROVE  /\ C' \in [Controllers -> ControllerCall]
         /\ C'[c].pc = pc /\ C'[c].call = call /\ C'[c].before = accepted
<1>1. C \in [Controllers -> ControllerCall] /\ C[c] \in ControllerCall /\ accepted \subseteq Msgs
  BY DEF L_Inv, L_Types
<1> DEFINE r == [pc |-> pc, call |-> call, calls |-> C[c].calls + 1, before |-> accepted]
<1>2. r \in ControllerCall /\ r.pc = pc /\ r.call = call /\ r.before = accepted
  BY <1>1 DEF ControllerCall, Stages
<1>3. C' = [C EXCEPT ![c] = r]
  BY DEF Begins
<1> HIDE DEF r
<1> QED
  BY <1>1, <1>2, <1>3

\* Of a step that writes no message there is left to show what it does to the
\* handshake.
LEMMA Rest ==
  ASSUME L_Inv, NEW c \in Controllers, Controllers = {c}, L_Types',
         UNCHANGED <<W, msgChan, accepted, done, handed>>, SameInHand,
         made' >= made, asynchronous => asynchronous',
         G'.pc = "off" => G.pc = "off", ~asynchronous' => G'.pc = "off",
         unflushed' \subseteq unflushed, OutputsDiffer',
         \A k \in DOMAIN outputs' :
            \/ \E l \in DOMAIN outputs : outputs'[k] = outputs[l]
            \/ outputs'[k].id = made,
         C'[c].before \subseteq accepted,
         Flushed(c)' =>
            \/ Flushed(c) /\ C'[c].before = C[c].before
            \/ accepted \subseteq done /\ \A k \in DOMAIN outputs', m \in accepted :
                                             <<outputs'[k], m>> \notin unflushed',
         Stage(c)', Handshake(c)', PanicsOnlyAround'
  PROVE  L_Inv'
<1>1. Numbered' /\ Queued' /\ Handed' /\ Before'
  BY NothingWritten DEF L_Inv, L_Types
<1>2. Drained(c)'
  <2>1. CASE ~Flushed(c)'
    BY <2>1 DEF Drained
  <2>2. CASE accepted \subseteq done /\ \A k \in DOMAIN outputs', m \in accepted :
                                          <<outputs'[k], m>> \notin unflushed'
    BY <2>2 DEF Drained
  <2>3. CASE Flushed(c) /\ C'[c].before = C[c].before
    <3>1. /\ C[c].before \subseteq done
          /\ \A m \in C[c].before, i \in DOMAIN outputs : <<outputs[i], m>> \notin unflushed
      BY <2>3 DEF L_Inv, Drained
    <3>2. ASSUME NEW m \in C[c].before, NEW k \in DOMAIN outputs'
          PROVE  <<outputs'[k], m>> \notin unflushed'
      <4>1. CASE \E l \in DOMAIN outputs : outputs'[k] = outputs[l]
        BY <3>1, <4>1
      <4>2. CASE outputs'[k].id = made
        <5>1. made \in Nat /\ \A u \in unflushed : u[1].id < made
          BY DEF L_Inv, L_Types, OutputsDiffer
        <5> QED
          BY <4>2, <5>1
      <4> QED
        BY <4>1, <4>2
    <3> QED
      BY <2>3, <3>1, <3>2 DEF Drained
  <2> QED
    BY <2>1, <2>2, <2>3
<1> QED
  BY <1>1, <1>2 DEF L_Inv

\* Controllers that only change the level, the outputs or the lock.
LEMMA ConfigureInv ==
  ASSUME L_Inv, NEW c \in Controllers, Controllers = {c},
         \/ \E l \in Levels : SetLevel(c, l)
         \/ SetLogger(c)
         \/ SetLoggerEnds(c)
         \/ \E name \in Adapters : DelLogger(c, name)
         \/ Destroy(c)
         \/ Returns(c)
  PROVE  L_Inv'
<1> USE DEF modes, outs, queue, signals, books
<1> DEFINE pc == C[c].pc
           to == C'[c].pc
<1>1. /\ C' \in [Controllers -> ControllerCall]
      /\ C'[c].before \subseteq accepted
      /\ \/ pc = "idle" /\ to \in {"idle", "making"}
         \/ pc = "making" /\ to = "idle"
         \/ /\ pc = "destroy" /\ C'[c].call = C[c].call /\ C'[c].before = C[c].before
            /\ to = IF C[c].call = "Close" THEN "closeSignals" ELSE "returning"
         \/ pc = "returning" /\ to = "idle"
  <2>1. C[c].before \subseteq accepted
    BY DEF L_Inv, Drained
  <2>2. CASE \E l \in Levels : SetLevel(c, l)
    BY <2>2, Calls DEF SetLevel, Free, Stages, CallNames
  <2>3. CASE SetLogger(c)
    BY <2>3, Calls DEF SetLogger, Free, Stages, CallNames
  <2>4. CASE SetLoggerEnds(c)
    BY <2>1, <2>4, GoesOn DEF SetLoggerEnds, At, Stages
  <2>5. CASE \E name \in Adapters : DelLogger(c, name)
    BY <2>5, Calls DEF DelLogger, Free, Stages, CallNames
  <2>6. CASE Destroy(c)
    BY <2>1, <2>6, GoesOn DEF Destroy, At, Stages
  <2>7. CASE Returns(c)
    BY <2>1, <2>7, GoesOn DEF Returns, At, Stages
  <2> QED
    BY <2>2, <2>3, <2>4, <2>5, <2>6, <2>7
<1>2. /\ UNCHANGED <<asynchronous, pool, queue, signals, G, W, books, crashed>>
      /\ level' \in Levels \cup {7} /\ init' \in BOOLEAN /\ lock' \in Controllers \cup {nobody}
  BY DEF SetLevel, SetLogger, SetLoggerEnds, DelLogger, Destroy, Returns, L_Inv, L_Types
<1>3. /\ OutputsDiffer' /\ outputs' \in Seq(Instances) /\ made' \in Nat /\ made' >= made
      /\ \A k \in DOMAIN outputs' :
            \/ \E l \in DOMAIN outputs : outputs'[k] = outputs[l]
            \/ outputs'[k].id = made
  <2>1. made \in Nat /\ made >= made
    BY DEF L_Inv, L_Types
  <2>2. CASE \E name \in Adapters : setLogger(outputs, name)
    BY <1>2, <2>2, OneOutputMore
  <2>3. CASE /\ UNCHANGED made
             /\ \/ UNCHANGED outputs
                \/ outputs' = <<>>
                \/ \E i \in DOMAIN outputs : outputs' = RemoveAt(outputs, i)
    BY <1>2, <2>1, <2>3, OutputsFewer
  <2>4. \/ \E name \in Adapters : setLogger(outputs, name)
        \/ UNCHANGED made /\ (\/ UNCHANGED outputs
                              \/ outputs' = <<>>
                              \/ \E i \in DOMAIN outputs : outputs' = RemoveAt(outputs, i))
    BY DEF SetLevel, SetLogger, SetLoggerEnds, DelLogger, Destroy, Returns
  <2> QED
    BY <2>2, <2>3, <2>4
<1>4. L_Types'
  BY <1>1, <1>2, <1>3 DEF L_Inv, L_Types
<1>5. PanicsOnlyAround'
  BY <1>2 DEF L_Inv, PanicsOnlyAround
<1>6. Stage(c)'
  <2>1. Stage(c)
    BY DEF L_Inv
  <2> QED
    BY <1>1, <1>2, <2>1 DEF Stage, Serves, Draining
<1>7. Handshake(c)'
  <2>1. Handshake(c) /\ Stage(c)
    BY DEF L_Inv
  <2> QED
    BY <1>1, <1>2, <2>1 DEF Handshake, Stage, Serves, Draining
<1>8. Flushed(c)' => Flushed(c) /\ C'[c].before = C[c].before
  BY <1>1 DEF Flushed
<1>9. /\ G'.pc = "off" => G.pc = "off" /\ SameInHand /\ (~asynchronous' => G'.pc = "off")
      /\ SameInHand /\ (~asynchronous' => G'.pc = "off")
  BY <1>2 DEF SameInHand, L_Inv, Queued
<1> QED
  BY <1>1, <1>2, <1>3, <1>4, <1>5, <1>6, <1>7, <1>8, <1>9, Rest
\* Async, from its beginning to the logger's goroutine.
LEMMA AsyncInv ==
  ASSUME L_Inv, ~crashed, NEW c \in Controllers, Controllers = {c},
         Async(c) \/ AsyncChannel(c) \/ AsyncStarts(c)
  PROVE  L_Inv'
<1> USE DEF modes, outs, queue, signals, books
<1>1. Stage(c) /\ Handshake(c) /\ C[c].before \subseteq accepted /\ made \in Nat
  BY DEF L_Inv, L_Types, Drained
<1>2. OutputsDiffer' /\ UNCHANGED <<outs, accepted, done, handed, unflushed, W, crashed>>
  BY DEF L_Inv, OutputsDiffer, Async, AsyncChannel, AsyncStarts
<1>3. /\ UNCHANGED <<made>> /\ made' >= made
      /\ \A k \in DOMAIN outputs' : \E l \in DOMAIN outputs : outputs'[k] = outputs[l]
  BY <1>1, <1>2
<1>4. CASE Async(c)
  <2>1. /\ C' \in [Controllers -> ControllerCall] /\ C[c].pc = "idle"
        /\ C'[c].pc = "channel" /\ C'[c].before = accepted
    BY <1>4, Calls DEF Async, Free, Stages, CallNames
  <2>2. L_Types' /\ PanicsOnlyAround'
    BY <1>4, <2>1 DEF Async, L_Inv, L_Types, PanicsOnlyAround
  <2>3. Stage(c)' /\ Handshake(c)'
    BY <1>1, <1>4, <2>1 DEF Async, Stage, Handshake, Serves, Draining
  <2>4. ~Flushed(c)' /\ SameInHand /\ (G'.pc = "off" => G.pc = "off") /\ asynchronous'
    BY <1>4, <2>1 DEF Async, Flushed, SameInHand
  <2> QED
    BY <1>2, <1>3, <1>4, <2>1, <2>2, <2>3, <2>4, Rest DEF Async
<1>5. CASE AsyncChannel(c)
  <2>1. /\ C' \in [Controllers -> ControllerCall] /\ C[c].pc = "channel"
        /\ C'[c].pc = "starting" /\ C'[c].before = C[c].before
    BY <1>5, GoesOn DEF AsyncChannel, At, Stages
  <2>2. msgChan' = msgChan /\ asynchronous /\ ~pool
    BY <1>1, <1>5, <2>1 DEF AsyncChannel, Stage
  <2>3. L_Types' /\ PanicsOnlyAround'
    BY <1>5, <2>1, <2>2 DEF AsyncChannel, L_Inv, L_Types, PanicsOnlyAround
  <2>4. Stage(c)' /\ Handshake(c)'
    BY <1>1, <1>5, <2>1, <2>2 DEF AsyncChannel, Stage, Handshake, Serves, Draining
  <2>5. ~Flushed(c)' /\ SameInHand /\ (G'.pc = "off" => G.pc = "off") /\ asynchronous'
    BY <1>5, <2>1, <2>2 DEF AsyncChannel, Flushed, SameInHand
  <2> QED
    BY <1>1, <1>2, <1>3, <1>5, <2>1, <2>2, <2>3, <2>4, <2>5, Rest DEF AsyncChannel
<1>6. CASE AsyncStarts(c)
  <2>1. /\ C' \in [Controllers -> ControllerCall] /\ C[c].pc = "starting"
        /\ C'[c].pc = "idle" /\ C'[c].before = C[c].before
    BY <1>6, GoesOn DEF AsyncStarts, At, Stages
  <2>2. asynchronous /\ ~pool /\ G.pc = "off" /\ wg = 0 /\ signalChan = <<>> /\ chan = "open"
    BY <1>1, <2>1 DEF Stage
  <2>3. G' \in LoggerState /\ G'.pc = "select" /\ wg' = 1
    <3>1. G \in LoggerState /\ G' = [G EXCEPT !.pc = "select"] /\ wg' = wg + 1
      BY <1>6 DEF AsyncStarts, L_Inv, L_Types
    <3>2. wg' = 1
      BY <2>2, <3>1
    <3> QED
      BY <3>1, <3>2 DEF LoggerState
  <2>4. L_Types' /\ PanicsOnlyAround'
    <3>1. /\ UNCHANGED <<level, init, asynchronous, outs, queue, signalChan, sigOpen, W, books, crashed>>
          /\ pool' = TRUE /\ lock' = nobody
      BY <1>6 DEF AsyncStarts
    <3>2. L_Types'
      BY <2>1, <2>3, <3>1 DEF L_Inv, L_Types
    <3>3. PanicsOnlyAround'
      BY <3>1 DEF PanicsOnlyAround
    <3> QED
      BY <3>2, <3>3
  <2>5. Stage(c)' /\ Handshake(c)'
    BY <1>1, <1>6, <2>1, <2>2, <2>3 DEF AsyncStarts, Stage, Handshake, Serves, Draining
  <2>6. ~Flushed(c)' /\ SameInHand /\ (G'.pc = "off" => G.pc = "off") /\ asynchronous'
    BY <1>6, <2>1, <2>2, <2>3 DEF AsyncStarts, Flushed, SameInHand
  <2> QED
    BY <1>1, <1>2, <1>3, <1>6, <2>1, <2>2, <2>4, <2>5, <2>6, Rest DEF AsyncStarts
<1> QED
  BY <1>4, <1>5, <1>6

\* Flush, Close and Reset up to the wait, and what comes after it.
LEMMA FlushCallsInv ==
  ASSUME L_Inv, NEW c \in Controllers, Controllers = {c},
         \/ \E call \in {"Flush", "Close", "Reset"} : Flush(c, call)
         \/ Signal(c) \/ Waited(c) \/ Add(c) \/ CloseMsgs(c) \/ CloseSignals(c)
  PROVE  L_Inv'
<1> USE DEF modes, outs, queue, signals, books
<1>1. Stage(c) /\ Handshake(c) /\ C[c].before \subseteq accepted /\ made \in Nat
  BY DEF L_Inv, L_Types, Drained
<1>2. /\ SameInHand <=> SameInHand
      /\ ~asynchronous => G.pc = "off"
  BY DEF L_Inv, Queued
<1>3. ASSUME UNCHANGED <<modes, outs, msgChan, G, W, books, crashed>>,
             C'[c].before \subseteq accepted,
             Flushed(c)' => Flushed(c) /\ C'[c].before = C[c].before,
             L_Types', Stage(c)', Handshake(c)', PanicsOnlyAround'
      PROVE  L_Inv'
  <2>1. OutputsDiffer' /\ SameInHand /\ made' >= made
    BY <1>1, <1>3 DEF L_Inv, OutputsDiffer, SameInHand
  <2>2. \A k \in DOMAIN outputs' : \E l \in DOMAIN outputs : outputs'[k] = outputs[l]
    BY <1>3
  <2> QED
    BY <1>2, <1>3, <2>1, <2>2, Rest
<1>4. ASSUME NEW call \in {"Flush", "Close", "Reset"}, Flush(c, call)
      PROVE  L_Inv'
  <2> DEFINE pc == IF asynchronous THEN "signal" ELSE "flush"
  <2>1. pc \in Stages /\ call \in CallNames /\ Begins(c, call, pc) /\ C[c].pc = "idle"
    BY <1>4 DEF Flush, Free, Stages, CallNames
  <2>2. /\ C' \in [Controllers -> ControllerCall]
        /\ C'[c].pc = pc /\ C'[c].call = call /\ C'[c].before = accepted
    BY <2>1, Calls
  <2>3. UNCHANGED <<modes, outs, queue, signals, G, W, books, crashed>>
    BY <1>4 DEF Flush
  <2>4. L_Types' /\ PanicsOnlyAround'
    BY <2>2, <2>3 DEF L_Inv, L_Types, PanicsOnlyAround
  <2>5. Stage(c)' /\ Handshake(c)'
    BY <1>1, <2>1, <2>2, <2>3 DEF Stage, Handshake, Serves, Draining
  <2> QED
    BY <1>3, <2>2, <2>3, <2>4, <2>5 DEF Flushed
<1>5. CASE Signal(c)
  <2>1. CASE ~sigOpen /\ Panic
    BY <2>1, PanicInv
  <2>2. CASE /\ sigOpen /\ Len(signalChan) < 1
             /\ signalChan' = Append(signalChan, IF C[c].call = "Close" THEN "close" ELSE "flush")
             /\ Goes(c, "wait")
             /\ UNCHANGED <<modes, outs, queue, sigOpen, wg, G, W, books, crashed>>
    <3>1. /\ C' \in [Controllers -> ControllerCall] /\ C[c].pc = "signal"
          /\ C'[c].pc = "wait" /\ C'[c].call = C[c].call /\ C'[c].before = C[c].before
      BY <1>5, <2>2, GoesOn DEF Signal, At, Stages
    <3>2. pool /\ asynchronous /\ signalChan = <<>> /\ Serves /\ wg = 1 /\ chan # "closed"
      BY <1>1, <2>2, <3>1 DEF Stage, Handshake
    <3>3. signalChan' = <<Sent(c)>> /\ Sent(c)' = Sent(c) /\ Sent(c) \in {"flush", "close"}
      BY <2>2, <3>1, <3>2 DEF Sent
    <3>4. L_Types' /\ PanicsOnlyAround'
      BY <2>2, <3>1, <3>3 DEF L_Inv, L_Types, PanicsOnlyAround
    <3>5. Serves'
      BY <2>2, <3>2 DEF Serves
    <3>6. Stage(c)' /\ Handshake(c)'
      BY <1>1, <2>2, <3>1, <3>2, <3>3, <3>5 DEF Stage, Handshake, Draining, Serves
    <3>7. ~Flushed(c)'
      BY <2>2, <3>1, <3>2 DEF Flushed, Serves
    <3> QED
      BY <1>1, <1>3, <2>2, <3>1, <3>4, <3>6, <3>7
  <2> QED
    BY <1>5, <2>1, <2>2 DEF Signal
<1>6. CASE Waited(c)
  <2>1. /\ C' \in [Controllers -> ControllerCall] /\ C[c].pc = "wait"
        /\ C'[c].pc = IF C[c].call = "Close" THEN "closeMsgs" ELSE "add"
        /\ C'[c].call = C[c].call /\ C'[c].before = C[c].before
    BY <1>6, GoesOn DEF Waited, At, Stages
  <2>2. wg = 0 /\ UNCHANGED <<modes, outs, queue, signals, G, W, books, crashed>>
    BY <1>6 DEF Waited
  <2>3. pool /\ sigOpen
    BY <1>1, <2>1 DEF Stage
  <2>9. signalChan = <<>> /\ IF C[c].call = "Close" THEN G.pc = "over" ELSE Serves
    <3>1. wg # 1
      BY <2>2
    <3> QED
      BY <1>1, <2>1, <2>3, <3>1 DEF Handshake
  <2>4. L_Types' /\ PanicsOnlyAround'
    BY <2>1, <2>2 DEF L_Inv, L_Types, PanicsOnlyAround
  <2>5. Serves' <=> Serves
    BY <2>2 DEF Serves
  <2>6. Handshake(c)'
    BY <1>1, <2>1, <2>2, <2>3, <2>5, <2>9 DEF Handshake
  <2>7. Stage(c)'
    BY <1>1, <2>1, <2>2, <2>3, <2>5, <2>9 DEF Stage, Draining, Serves
  <2>8. Flushed(c)
    BY <2>1, <2>2 DEF Flushed
  <2> QED
    BY <1>1, <1>3, <2>1, <2>2, <2>4, <2>6, <2>7, <2>8
<1>7. CASE Add(c)
  <2>1. /\ C' \in [Controllers -> ControllerCall] /\ C[c].pc = "add"
        /\ C'[c].pc = IF C[c].call = "Flush" THEN "returning" ELSE "destroy"
        /\ C'[c].call = C[c].call /\ C'[c].before = C[c].before
    BY <1>7, GoesOn DEF Add, At, Stages
  <2>2. wg' = wg + 1 /\ UNCHANGED <<modes, outs, queue, signalChan, sigOpen, G, W, books, crashed>>
    BY <1>7 DEF Add
  <2>3. pool /\ sigOpen /\ signalChan = <<>> /\ Serves /\ wg = 0 /\ C[c].call # "Close"
    BY <1>1, <2>1 DEF Stage, Handshake
  <2>4. L_Types' /\ PanicsOnlyAround'
    BY <2>1, <2>2, <2>3 DEF L_Inv, L_Types, PanicsOnlyAround
  <2>5. Serves'
    BY <2>2, <2>3 DEF Serves
  <2>6. Handshake(c)'
    BY <1>1, <2>1, <2>2, <2>3, <2>5 DEF Handshake
  <2>7. Stage(c)'
    BY <1>1, <2>1, <2>2, <2>3, <2>5 DEF Stage, Draining, Serves
  <2>8. Flushed(c)
    BY <2>1 DEF Flushed
  <2> QED
    BY <1>1, <1>3, <2>1, <2>2, <2>4, <2>6, <2>7, <2>8
<1>8. CASE CloseMsgs(c)
  <2>1. C[c].pc = "closeMsgs"
    BY <1>8 DEF CloseMsgs, At
  <2>2. pool /\ sigOpen /\ C[c].call = "Close" /\ G.pc = "over" /\ wg = 0 /\ signalChan = <<>> /\ chan = "open"
    <3>1. asynchronous /\ sigOpen
      BY <1>1, <2>1 DEF Stage
    <3>2. pool /\ C[c].call = "Close" /\ chan # "nil"
      BY <1>1, <2>1, <3>1 DEF Stage
    <3> QED
      BY <1>1, <2>1, <3>1, <3>2 DEF Handshake, L_Inv, L_Types
  <2>3. /\ chan' = "closed" /\ Goes(c, "closeSignals")
        /\ UNCHANGED <<modes, outs, msgChan, signals, G, W, books, crashed>>
    BY <1>8, <2>2 DEF CloseMsgs
  <2>4. /\ C' \in [Controllers -> ControllerCall]
        /\ C'[c].pc = "closeSignals" /\ C'[c].call = C[c].call /\ C'[c].before = C[c].before
    BY <2>3, GoesOn DEF Stages
  <2>5. L_Types' /\ PanicsOnlyAround'
    BY <2>3, <2>4 DEF L_Inv, L_Types, PanicsOnlyAround
  <2>6. Handshake(c)'
    BY <1>1, <2>2, <2>3, <2>4 DEF Handshake
  <2>7. Stage(c)'
    BY <1>1, <2>2, <2>3, <2>4 DEF Stage, Draining, Serves
  <2>8. Flushed(c)
    BY <2>1 DEF Flushed
  <2> QED
    BY <1>1, <1>3, <2>3, <2>4, <2>5, <2>6, <2>7, <2>8
<1>9. CASE CloseSignals(c)
  <2>1. CASE ~sigOpen /\ Panic
    BY <2>1, PanicInv
  <2>2. CASE /\ sigOpen /\ sigOpen' = FALSE
             /\ Goes(c, "returning")
             /\ UNCHANGED <<modes, outs, queue, signalChan, wg, G, W, books, crashed>>
    <3>1. /\ C' \in [Controllers -> ControllerCall] /\ C[c].pc = "closeSignals"
          /\ C'[c].pc = "returning" /\ C'[c].call = C[c].call /\ C'[c].before = C[c].before
      BY <1>9, <2>2, GoesOn DEF CloseSignals, At, Stages
    <3>2. signalChan = <<>> /\ C[c].call = "Close" /\ (pool => G.pc = "over" /\ chan = "closed")
      BY <1>1, <2>2, <3>1 DEF Stage, Handshake
    <3>3. L_Types' /\ PanicsOnlyAround'
      BY <2>2, <3>1 DEF L_Inv, L_Types, PanicsOnlyAround
    <3>4. Handshake(c)'
      BY <2>2 DEF Handshake
    <3>5. Stage(c)'
      BY <1>1, <2>2, <3>1, <3>2 DEF Stage, Draining, Serves
    <3>6. Flushed(c)
      BY <3>1 DEF Flushed
    <3> QED
      BY <1>1, <1>3, <2>2, <3>1, <3>3, <3>4, <3>5, <3>6
  <2> QED
    BY <1>9, <2>1, <2>2 DEF CloseSignals
<1> QED
  BY <1>4, <1>5, <1>6, <1>7, <1>8, <1>9
\* The outputs are flushed by a controller, while there is no logger's goroutine.
LEMMA FlushSyncInv ==
  ASSUME L_Inv, NEW c \in Controllers, Controllers = {c}, FlushSync(c)
  PROVE  L_Inv'
<1> USE DEF modes, outs, queue, signals, books
<1>1. /\ Stage(c) /\ Handshake(c) /\ C[c].before \subseteq accepted /\ made \in Nat
      /\ unflushed \subseteq Instances \X Msgs
  BY DEF L_Inv, L_Types, Drained
<1>2. /\ C' \in [Controllers -> ControllerCall] /\ C[c].pc = "flush"
      /\ C'[c].pc = IF C[c].call = "Flush" THEN "returning" ELSE "destroy"
      /\ C'[c].call = C[c].call /\ C'[c].before = C[c].before
  BY GoesOn DEF FlushSync, At, Stages
<1>3. /\ unflushed' = {u \in unflushed : \A i \in DOMAIN outputs : outputs[i] # u[1]}
      /\ UNCHANGED <<modes, outs, queue, signals, G, W, accepted, done, handed, crashed>>
  BY DEF FlushSync, flushAll
<1>4. ~asynchronous /\ ~pool /\ G.pc = "off" /\ msgChan = <<>>
  BY <1>1, <1>2 DEF Stage
<1>5. accepted \subseteq done
  BY <1>4 DEF L_Inv, Queued, InHand, ToSet
<1>6. \A k \in DOMAIN outputs', m \in accepted : <<outputs'[k], m>> \notin unflushed'
  BY <1>3
<1>7. L_Types' /\ PanicsOnlyAround' /\ OutputsDiffer'
  BY <1>1, <1>2, <1>3 DEF L_Inv, L_Types, PanicsOnlyAround, OutputsDiffer
<1>8. Stage(c)' /\ Handshake(c)'
  BY <1>1, <1>2, <1>3, <1>4 DEF Stage, Handshake, Serves, Draining
<1>9. /\ SameInHand /\ G'.pc = "off" /\ made' >= made
      /\ \A k \in DOMAIN outputs' : \E l \in DOMAIN outputs : outputs'[k] = outputs[l]
  BY <1>1, <1>3, <1>4 DEF SameInHand
<1> QED
  BY <1>1, <1>2, <1>3, <1>4, <1>5, <1>6, <1>7, <1>8, <1>9, Rest

\* The logger's goroutine takes a signal, flushes the outputs, and answers.
LEMMA SignalsInv ==
  ASSUME L_Inv, ~crashed, NEW c \in Controllers, Controllers = {c},
         SelectSignal \/ Drain \/ SignalDone
  PROVE  L_Inv'
<1> USE DEF modes, outs, queue, signals, books
<1>1. /\ Stage(c) /\ Handshake(c) /\ C[c].before \subseteq accepted /\ made \in Nat
      /\ C \in [Controllers -> ControllerCall] /\ G \in LoggerState
      /\ signalChan \in Seq({"flush", "close"}) /\ unflushed \subseteq Instances \X Msgs
  BY DEF L_Inv, L_Types, Drained
<1>2. ASSUME G.pc # "off"
      PROVE  pool /\ asynchronous
  BY <1>1, <1>2 DEF Stage
<1>3. CASE SelectSignal
  <2>1. /\ G.pc = "select" /\ (signalChan # <<>> \/ ~sigOpen)
        /\ G' = [G EXCEPT !.pc = "drain", !.sg = IF signalChan = <<>> THEN "" ELSE Head(signalChan)]
        /\ signalChan' = IF signalChan = <<>> THEN <<>> ELSE Tail(signalChan)
        /\ UNCHANGED <<modes, outs, queue, sigOpen, wg, W, C, books, crashed>>
    BY <1>3 DEF SelectSignal
  <2>2. pool /\ asynchronous
    BY <1>2, <2>1
  <2>3. /\ G' \in LoggerState /\ G'.pc = "drain"
        /\ G'.sg = IF signalChan = <<>> THEN "" ELSE Head(signalChan)
    <3>1. signalChan # <<>> => Head(signalChan) \in {"flush", "close"}
      BY <1>1
    <3> QED
      BY <1>1, <2>1, <3>1 DEF LoggerState
  <2>4. signalChan' = <<>>
    <3>1. Len(signalChan) <= 1
      BY DEF L_Inv, L_Types
    <3>2. ASSUME NEW s \in Seq({"flush", "close"}), Len(s) <= 1, s # <<>> PROVE Tail(s) = <<>>
      BY <3>2, HeadTailProperties, EmptySeq
    <3> QED
      BY <1>1, <2>1, <3>1, <3>2
  <2>5. L_Types' /\ PanicsOnlyAround' /\ OutputsDiffer'
    <3>1. signalChan' \in Seq({"flush", "close"}) /\ Len(signalChan') <= 1
      BY <2>4
    <3> QED
      BY <2>1, <2>3, <3>1 DEF L_Inv, L_Types, PanicsOnlyAround, OutputsDiffer
  <2>6. Stage(c)'
    BY <1>1, <2>1, <2>2, <2>3, <2>4 DEF Stage, Serves, Draining
  <2>7. Handshake(c)'
    <3>1. CASE ~sigOpen
      BY <2>1, <3>1 DEF Handshake
    <3>2. CASE sigOpen
      <4>1. C[c].pc = "wait" /\ signalChan = <<Sent(c)>> /\ wg = 1 /\ chan # "closed"
        <5>1. C[c].pc \in Stages
          BY <1>1 DEF ControllerCall, Stages
        <5> QED
          BY <1>1, <2>1, <2>2, <3>2, <5>1 DEF Handshake, Stage, Stages, Serves, Draining
      <4>2. G'.sg = Sent(c) /\ Sent(c)' = Sent(c)
        <5>1. <<Sent(c)>> # <<>> /\ Head(<<Sent(c)>>) = Sent(c)
          OBVIOUS
        <5> QED
          BY <2>1, <2>3, <4>1, <5>1 DEF Sent
      <4>3. Draining'
        BY <2>3 DEF Draining
      <4> QED
        BY <2>1, <2>4, <4>1, <4>2, <4>3 DEF Handshake
    <3> QED
      BY <3>1, <3>2
  <2>8. Flushed(c)' => Flushed(c)
    BY <2>1, <2>3 DEF Flushed
  <2>9. /\ SameInHand /\ G'.pc # "off" /\ made' >= made
        /\ \A k \in DOMAIN outputs' : \E l \in DOMAIN outputs : outputs'[k] = outputs[l]
    BY <1>1, <2>1, <2>3 DEF SameInHand
  <2> QED
    BY <1>1, <2>1, <2>2, <2>5, <2>6, <2>7, <2>8, <2>9, Rest
<1>4. CASE Drain
  <2>1. CASE TakeMsg("drain")
    BY <1>4, <2>1, TakeInv DEF Drain
  <2>2. CASE /\ msgChan = <<>> /\ flushAll
             /\ G' = [G EXCEPT !.pc = "signalled"]
             /\ UNCHANGED <<modes, outs, queue, signals, W, C, accepted, done, handed, crashed>>
    <3>1. /\ G.pc = "drain" /\ G' \in LoggerState /\ G'.pc = "signalled" /\ G'.sg = G.sg
      BY <1>1, <1>4, <2>2 DEF Drain, LoggerState
    <3>2. pool /\ asynchronous
      BY <1>2, <3>1
    <3>3. unflushed' = {u \in unflushed : \A i \in DOMAIN outputs : outputs[i] # u[1]}
      BY <2>2 DEF flushAll
    <3>4. /\ accepted \subseteq done
          /\ \A k \in DOMAIN outputs', m \in accepted : <<outputs'[k], m>> \notin unflushed'
      BY <2>2, <3>1, <3>3 DEF L_Inv, Queued, InHand, ToSet
    <3>5. L_Types' /\ PanicsOnlyAround' /\ OutputsDiffer'
      BY <1>1, <2>2, <3>1, <3>3 DEF L_Inv, L_Types, PanicsOnlyAround, OutputsDiffer
    <3>6. Stage(c)'
      BY <1>1, <2>2, <3>1, <3>2 DEF Stage, Serves, Draining
    <3>7. Handshake(c)'
      <4>1. Draining /\ ~Serves /\ G.pc # "over" /\ Draining'
        BY <3>1 DEF Serves, Draining
      <4> QED
        BY <1>1, <2>2, <3>1, <3>2, <4>1 DEF Handshake, Sent
    <3>8. /\ SameInHand /\ G'.pc # "off" /\ made' >= made
          /\ \A k \in DOMAIN outputs' : \E l \in DOMAIN outputs : outputs'[k] = outputs[l]
      BY <1>1, <2>2, <3>1 DEF SameInHand
    <3> QED
      BY <1>1, <2>2, <3>2, <3>3, <3>4, <3>5, <3>6, <3>7, <3>8, Rest
  <2> QED
    BY <1>4, <2>1, <2>2 DEF Drain
<1>5. CASE SignalDone
  <2>1. G.pc = "signalled"
    BY <1>5 DEF SignalDone
  <2>2. pool /\ asynchronous
    BY <1>2, <2>1
  <2>3. Draining /\ ~Serves /\ G.pc # "over"
    BY <2>1 DEF Draining, Serves
  <2>4. C[c].pc \in Stages
    BY <1>1 DEF ControllerCall, Stages
  <2>5. ASSUME sigOpen
        PROVE  C[c].pc = "wait" /\ G.sg = Sent(c) /\ wg = 1 /\ signalChan = <<>> /\ chan # "closed"
    BY <1>1, <2>2, <2>3, <2>4, <2>5 DEF Handshake, Stage, Stages
  <2>6. CASE wg = 0
    <3>1. Panic /\ ~sigOpen
      BY <1>5, <2>5, <2>6 DEF SignalDone
    <3> QED
      BY <3>1, PanicInv
  <2>7. CASE wg # 0
    <3>1. /\ wg' = wg - 1
          /\ G' = [G EXCEPT !.pc = IF G.sg = "close" THEN "over" ELSE "select"]
          /\ outputs' = IF G.sg = "close" THEN <<>> ELSE outputs
          /\ UNCHANGED <<modes, made, queue, signalChan, sigOpen, W, C, books, crashed>>
      BY <1>5, <2>7 DEF SignalDone
    <3>2. wg' = 0
      BY <2>7, <3>1 DEF L_Inv, L_Types
    <3>3. /\ G' \in LoggerState /\ G'.pc = IF G.sg = "close" THEN "over" ELSE "select"
      BY <1>1, <3>1 DEF LoggerState
    <3>4. /\ OutputsDiffer' /\ outputs' \in Seq(Instances)
          /\ \A k \in DOMAIN outputs' : \E l \in DOMAIN outputs : outputs'[k] = outputs[l]
      BY <3>1, OutputsFewer
    <3>5. L_Types' /\ PanicsOnlyAround'
      BY <1>1, <3>1, <3>2, <3>3, <3>4 DEF L_Inv, L_Types, PanicsOnlyAround
    <3>6. Handshake(c)'
      <4>1. CASE ~sigOpen
        BY <3>1, <4>1 DEF Handshake
      <4>2. CASE sigOpen
        <5>1. /\ C'[c].pc = "wait" /\ signalChan' = <<>> /\ chan' # "closed"
              /\ C'[c].call = C[c].call
          BY <2>5, <3>1, <4>2
        <5>2. G.sg = "close" <=> C[c].call = "Close"
          BY <2>5, <4>2 DEF Sent
        <5>3. G'.pc = "select" => Serves'
          BY DEF Serves
        <5> QED
          BY <3>2, <3>3, <5>1, <5>2, <5>3 DEF Handshake
      <4> QED
        BY <4>1, <4>2
    <3>7. Stage(c)'
      <4>1. G'.pc = "over" => C[c].pc \in {"wait", "closeMsgs", "closeSignals"} \/ chan = "closed"
        BY <1>1, <2>3, <2>5, <3>3 DEF Stage
      <4>2. ~Draining'
        BY <3>3 DEF Draining
      <4>3. G'.pc # "write" /\ G'.pc # "off" /\ C' = C
        BY <3>1, <3>3
      <4> QED
        BY <1>1, <2>2, <3>1, <4>1, <4>2, <4>3 DEF Stage
    <3>8. Flushed(c)' => Flushed(c)
      BY <2>1, <3>1 DEF Flushed
    <3>9. SameInHand /\ G'.pc # "off" /\ made' >= made
      BY <1>1, <2>1, <3>1, <3>3 DEF SameInHand
    <3> QED
      BY <1>1, <2>2, <3>1, <3>4, <3>5, <3>6, <3>7, <3>8, <3>9, Rest
  <2> QED
    BY <2>6, <2>7
<1> QED
  BY <1>3, <1>4, <1>5
-----------------------------------------------------------------------------
(* Theorems.                                                               *)

\* Every step keeps the invariant.
LEMMA LoggerStep ==
  ASSUME L_Inv, [Next]_vars
  PROVE  L_Inv'
<1>1. PICK c \in Controllers : Controllers = {c}
  BY BeeLoggerConstants
<1>2. CASE UNCHANGED vars
  <2> USE DEF vars, modes, outs, queue, signals, books
  <2>1. L_Types' /\ OutputsDiffer' /\ PanicsOnlyAround'
    BY <1>2 DEF L_Inv, L_Types, OutputsDiffer, PanicsOnlyAround
  <2>2. Numbered' /\ Queued' /\ Handed' /\ Before'
    BY <1>2, NothingWritten DEF L_Inv, L_Types, SameInHand, Queued
  <2>3. \A d \in Controllers : Stage(d)' /\ Handshake(d)' /\ Drained(d)'
    BY <1>2, SameStages
  <2> QED
    BY <2>1, <2>2, <2>3 DEF L_Inv
<1>3. ASSUME Next PROVE L_Inv'
  <2>1. ~crashed
    BY <1>3 DEF Next
  <2>2. ASSUME NEW w \in Writers, Write(w) \/ (\E l \in Levels : Log(w, l)) \/ WriterGoesOn(w)
        PROVE  L_Inv'
    BY <2>2, StartInv, AddConsoleInv, WriterInv DEF Write, Log, WriterGoesOn
  <2>3. ASSUME NEW d \in Controllers, ControllerCalls(d) \/ ControllerGoesOn(d)
        PROVE  L_Inv'
    <3>1. Controllers = {d}
      BY <1>1
    <3> QED
      BY <2>1, <2>3, <3>1, ConfigureInv, AsyncInv, FlushCallsInv, FlushSyncInv
      DEF ControllerCalls, ControllerGoesOn
  <2>4. CASE startLogger
    <3>1. CASE SelectMsg
      BY <3>1, TakeInv DEF SelectMsg
    <3>2. CASE LoggerWrites
      BY <3>2, LoggerWritesInv
    <3>3. CASE SelectSignal \/ Drain \/ SignalDone
      BY <1>1, <2>1, <3>3, SignalsInv
    <3> QED
      BY <2>4, <3>1, <3>2, <3>3 DEF startLogger
  <2> QED
    BY <1>3, <2>2, <2>3, <2>4 DEF Next
<1> QED
  BY <1>2, <1>3

\* A new logger.
LEMMA LoggerInit ==
  ASSUME Init
  PROVE  L_Inv
<1>1. /\ level = 7 /\ init = FALSE /\ asynchronous = FALSE
      /\ outputs = <<[name |-> "console", id |-> 0]>> /\ made = 1
      /\ msgChan = <<>> /\ chan = "nil" /\ pool = FALSE
      /\ signalChan = <<>> /\ sigOpen = TRUE /\ wg = 0 /\ lock = nobody
      /\ crashed = FALSE
      /\ G = [pc |-> "off", msg |-> None, todo |-> <<>>, then |-> "off", sg |-> ""]
      /\ W = [w \in Writers |-> Idle]
      /\ C = [c \in Controllers |-> [pc |-> "idle", call |-> "", calls |-> 0, before |-> {}]]
      /\ accepted = {} /\ done = {} /\ unflushed = {}
      /\ \A i \in DOMAIN handed : handed[i] = <<>>
      /\ handed \in [DOMAIN handed -> {<<>>}]
  BY DEF Init, NewLogger
<1>2. msgChanLen \in Nat /\ msgChanLen >= 0 /\ MaxMsgs \in Nat /\ 0 \in 0..MaxMsgs /\ "console" \in Adapters
  BY BeeLoggerConstants
<1>3. <<[name |-> "console", id |-> 0]>> \in Seq(Instances)
  <2>1. [name |-> "console", id |-> 0] \in Instances
    BY <1>2 DEF Instances
  <2> HIDE DEF Instances
  <2> QED
    BY <2>1
<1>4. L_Types
  <2>7. <<>> \in Seq(Instances) /\ None \in Msgs \cup {None} /\ <<>> \in Seq(Msgs)
    OBVIOUS
  <2>1. G \in LoggerState
    BY <1>1, <2>7 DEF LoggerState
  <2>2. Idle \in WriterCall
    BY <1>2, <2>7 DEF Idle, WriterCall
  <2>3. C \in [Controllers -> ControllerCall]
    BY <1>1 DEF ControllerCall, CallNames
  <2>4. W \in [Writers -> WriterCall]
    BY <1>1, <2>2
  <2>5. /\ msgChan \in Seq(Msgs) /\ Len(msgChan) <= msgChanLen
        /\ signalChan \in Seq({"flush", "close"}) /\ Len(signalChan) <= 1
    <3>1. Len(<<>>) = 0 /\ <<>> \in Seq({"flush", "close"}) /\ 0 <= 1
      OBVIOUS
    <3>2. 0 <= msgChanLen
      BY <1>2
    <3> QED
      BY ONLY <1>1, <2>7, <3>1, <3>2
  <2>6. handed \in [DOMAIN handed -> Seq(Msgs)]
    BY <1>1, <2>7
  <2> QED
    BY <1>1, <1>3, <2>1, <2>3, <2>4, <2>5, <2>6 DEF L_Types
<1>5. OutputsDiffer
  <2>1. DOMAIN outputs = {1} /\ outputs[1].id = 0 /\ 0 < made
    <3>1. \A x : DOMAIN <<x>> = {1} /\ <<x>>[1] = x
      OBVIOUS
    <3>2. [name |-> "console", id |-> 0].id = 0 /\ 0 < 1
      OBVIOUS
    <3> QED
      BY ONLY <1>1, <3>1, <3>2
  <2> QED
    BY <1>1, <2>1 DEF OutputsDiffer
<1>6. ToSet(<<>>) = {} /\ IsInjective(<<>>) /\ DOMAIN <<>> = {}
  BY DEF ToSet, IsInjective
<1>7. \A m : ~Begun(m) /\ ~InHand(m)
  BY <1>1 DEF Begun, InHand, Idle
<1>8. \A w \in Writers : W[w].pc = "idle" /\ W[w].sent = 0 /\ W[w].after = {}
  BY <1>1 DEF Idle
<1>9. Numbered /\ Queued /\ Handed /\ Before
  <2>1. Numbered
    BY <1>1, <1>8 DEF Numbered
  <2>2. Queued
    BY <1>1, <1>6 DEF Queued
  <2>3. Handed
    BY <1>1, <1>6, <1>8 DEF Handed
  <2>4. Before
    BY <1>6, <1>7, <1>8 DEF Before
  <2> QED
    BY <2>1, <2>2, <2>3, <2>4
<1>10. PanicsOnlyAround /\ \A c \in Controllers : Stage(c) /\ Handshake(c) /\ Drained(c)
  BY <1>1 DEF PanicsOnlyAround, Stage, Handshake, Drained, Serves, Draining, Flushed
<1> QED
  BY <1>4, <1>5, <1>9, <1>10 DEF L_Inv

\* An output got a message after all that had been logged before it was: part of
\* InOrder.
Ordered ==
    \A i \in DOMAIN handed : \A a, b \in DOMAIN handed[i] : a < b =>
        \A w \in Writers : handed[i][a] = W[w].msg => handed[i][b] \notin W[w].after

\* A message given to an output was not done, and what was logged before one that
\* was given earlier is.
LEMMA OrderedWritten ==
  ASSUME L_Inv, Ordered, NEW m, NEW todo \in Seq(Instances), writeTo(todo, m), m \notin done,
         \A v \in Writers : W'[v].msg = W[v].msg /\ W'[v].after = W[v].after
  PROVE  Ordered'
<1>1. CASE todo = <<>>
  BY <1>1 DEF Ordered, writeTo
<1>2. CASE todo # <<>>
  <2> DEFINE d == Head(todo).id
  <2>1. handed' = [handed EXCEPT ![d] = Append(handed[d], m)]
    BY <1>2 DEF writeTo
  <2> HIDE DEF d
  <2>2. ASSUME NEW i \in DOMAIN handed', NEW a \in DOMAIN handed'[i], NEW b \in DOMAIN handed'[i],
               a < b, NEW w \in Writers, handed'[i][a] = W[w].msg
        PROVE  handed'[i][b] \notin W[w].after
    <3>1. i \in DOMAIN handed /\ handed[i] \in Seq(Msgs)
      BY <2>1 DEF L_Inv, L_Types
    <3>2. CASE i # d
      <4>1. handed'[i] = handed[i]
        BY <2>1, <3>1, <3>2
      <4> QED
        BY <2>2, <3>1, <4>1 DEF Ordered
    <3>3. CASE i = d
      <4> DEFINE n == Len(handed[i])
      <4>1. handed'[i] = Append(handed[i], m)
        BY <2>1, <3>1, <3>3
      <4>2. /\ DOMAIN handed'[i] = 1..(n + 1) /\ DOMAIN handed[i] = 1..n /\ n \in Nat
            /\ \A k \in 1..n : handed'[i][k] = handed[i][k]
            /\ handed'[i][n + 1] = m
        BY <3>1, <4>1
      <4> HIDE DEF n
      <4>3. a \in 1..n /\ (b \in 1..n \/ b = n + 1)
        BY <2>2, <4>2
      <4>4. handed[i][a] = W[w].msg
        BY <2>2, <4>2, <4>3
      <4>5. CASE b \in 1..n
        BY <2>2, <3>1, <4>2, <4>3, <4>4, <4>5 DEF Ordered
      <4>6. CASE b = n + 1
        <5>1. W[w].msg \in ToSet(handed[i])
          BY <4>2, <4>3, <4>4 DEF ToSet
        <5>2. W[w].after \subseteq done
          BY <3>1, <5>1 DEF L_Inv, Handed, Before
        <5> QED
          BY <4>2, <4>6, <5>2
      <4> QED
        BY <4>3, <4>5, <4>6
    <3> QED
      BY <3>2, <3>3
  <2> QED
    BY <2>2 DEF Ordered
<1> QED
  BY <1>1, <1>2

\* Every step keeps the order.
LEMMA OrderedStep ==
  ASSUME L_Inv, Ordered, [Next]_vars
  PROVE  Ordered'
<1>1. W \in [Writers -> WriterCall]
  BY DEF L_Inv, L_Types
<1>2. ASSUME UNCHANGED handed,
             \A v \in Writers : W'[v].msg = W[v].msg /\ W'[v].after = W[v].after
      PROVE  Ordered'
  BY <1>2 DEF Ordered
<1>3. CASE UNCHANGED vars \/ \E c \in Controllers : ControllerCalls(c) \/ ControllerGoesOn(c)
  <2>1. UNCHANGED <<handed, W>>
    <3> USE DEF books, Panic
    <3>1. CASE UNCHANGED vars
      BY <3>1 DEF vars
    <3>2. ASSUME NEW c \in Controllers, ControllerCalls(c) PROVE UNCHANGED <<handed, W>>
      BY <3>2 DEF ControllerCalls, SetLevel, SetLogger, DelLogger, Async, Flush
    <3>3. ASSUME NEW c \in Controllers, ControllerGoesOn(c) PROVE UNCHANGED <<handed, W>>
      BY <3>3 DEF ControllerGoesOn, SetLoggerEnds, AsyncChannel, AsyncStarts, FlushSync, Signal,
                  Waited, Add, CloseMsgs, Destroy, CloseSignals, Returns
    <3> QED
      BY <1>3, <3>1, <3>2, <3>3
  <2> QED
    BY <1>2, <2>1
<1>4. ASSUME NEW w \in Writers, Start(w) PROVE Ordered'
  <2>1. /\ UNCHANGED handed /\ W[w].pc = "idle" /\ W[w].sent < MaxMsgs
        /\ W' = [W EXCEPT ![w] = NextMessage(w)]
    BY <1>4 DEF Start, books
  <2>2. /\ \A v \in Writers \ {w} : W'[v] = W[v]
        /\ W'[w].msg = <<w, W[w].sent + 1>>
    <3>1. \A x : [W EXCEPT ![w] = x][w] = x
      BY <1>1
    <3>2. NextMessage(w).msg = <<w, W[w].sent + 1>>
      BY DEF NextMessage
    <3> QED
      BY <1>1, <2>1, <3>1, <3>2
  <2>3. ~Begun(<<w, W[w].sent + 1>>)
    <3>1. W[w].sent \in 0..MaxMsgs /\ MaxMsgs \in Nat
      BY CallTypes, BeeLoggerConstants
    <3>2. <<w, W[w].sent + 1>> \notin accepted
      <4>1. ~(W[w].sent + 1 <= W[w].sent)
        BY <3>1
      <4> QED
        BY <4>1 DEF L_Inv, Numbered
    <3>3. <<w, W[w].sent + 1>> \notin done /\ ~InHand(<<w, W[w].sent + 1>>)
      BY <3>2 DEF L_Inv, L_Types, InHand, Queued
    <3>4. ASSUME NEW v \in Writers, W[v].pc = "out" PROVE W[v].msg # <<w, W[w].sent + 1>>
      <4>1. v # w /\ W[v].msg = <<v, W[v].sent>>
        BY <2>1, <3>4, CallTypes
      <4> QED
        BY <4>1
    <3> QED
      BY <3>3, <3>4 DEF Begun
  <2>4. \A i \in DOMAIN handed : \A a \in DOMAIN handed[i] : handed[i][a] # <<w, W[w].sent + 1>>
    BY <2>3 DEF L_Inv, Handed, ToSet
  <2>5. ASSUME NEW v \in Writers, NEW i \in DOMAIN handed, NEW a \in DOMAIN handed[i]
        PROVE  handed[i][a] = W'[v].msg => handed[i][a] = W[v].msg /\ W'[v].after = W[v].after
    <3>1. CASE v = w
      BY <2>2, <2>4, <3>1
    <3>2. CASE v # w
      BY <2>2, <3>2
    <3> QED
      BY <3>1, <3>2
  <2> QED
    BY <2>1, <2>5 DEF Ordered
<1>8. ASSUME NEW w \in Writers, NEW pc, NEW todo,
             \/ W' = W
             \/ W' = [W EXCEPT ![w].pc = pc]
             \/ W' = [W EXCEPT ![w].todo = todo]
             \/ W' = [W EXCEPT ![w] = [W[w] EXCEPT !.pc = pc, !.todo = todo]]
      PROVE  \A v \in Writers : W'[v].msg = W[v].msg /\ W'[v].after = W[v].after
  <2>1. ASSUME NEW r \in WriterCall
        PROVE  /\ [r EXCEPT !.pc = pc].msg = r.msg /\ [r EXCEPT !.pc = pc].after = r.after
               /\ [r EXCEPT !.todo = todo].msg = r.msg /\ [r EXCEPT !.todo = todo].after = r.after
               /\ [r EXCEPT !.pc = pc, !.todo = todo].msg = r.msg
               /\ [r EXCEPT !.pc = pc, !.todo = todo].after = r.after
    BY DEF WriterCall
  <2>2. PICK x : /\ W' = W \/ W' = [W EXCEPT ![w] = x]
                 /\ x.msg = W[w].msg /\ x.after = W[w].after
    <3>1. W[w] \in WriterCall
      BY <1>1
    <3> HIDE DEF WriterCall
    <3> QED
      BY <1>8, <2>1, <3>1
  <2> QED
    BY <1>1, <2>2
<1>5. ASSUME NEW w \in Writers, ReadMode(w) PROVE Ordered'
  <2>1. UNCHANGED handed
    BY <1>5 DEF ReadMode, Panic, books
  <2>2. \A v \in Writers : W'[v].msg = W[v].msg /\ W'[v].after = W[v].after
    BY <1>5, <1>8 DEF ReadMode, Panic
  <2> QED
    BY <1>2, <2>1, <2>2
<1>9. ASSUME NEW w \in Writers, AddConsole(w) PROVE Ordered'
  <2>1. UNCHANGED handed
    BY <1>9 DEF AddConsole, books
  <2>2. \A v \in Writers : W'[v].msg = W[v].msg /\ W'[v].after = W[v].after
    BY <1>8, <1>9 DEF AddConsole
  <2> QED
    BY <1>2, <2>1, <2>2
<1>6. ASSUME NEW w \in Writers, Out(w) PROVE Ordered'
  <2>1. W[w].pc = "out" /\ writeTo(W[w].todo, W[w].msg)
    BY <1>6 DEF Out
  <2>2. \A v \in Writers : W'[v].msg = W[v].msg /\ W'[v].after = W[v].after
    BY <1>6, <1>8 DEF Out
  <2>3. W[w].msg \notin done /\ W[w].todo \in Seq(Instances)
    BY <2>1, OwnMessage, CallTypes
  <2> QED
    BY <2>1, <2>2, <2>3, OrderedWritten
<1>7. CASE startLogger
  <2>1. CASE LoggerWrites
    <3>1. /\ G.pc = "write" /\ writeTo(G.todo, G.msg)
          /\ \A v \in Writers : W'[v].msg = W[v].msg /\ W'[v].after = W[v].after
      BY <2>1 DEF LoggerWrites
    <3>2. G.msg \notin done /\ G.todo \in Seq(Instances)
      BY <3>1, CallTypes DEF L_Inv, Queued
    <3> QED
      BY <3>1, <3>2, OrderedWritten
  <2>2. CASE SelectMsg \/ SelectSignal \/ Drain \/ SignalDone
    <3>1. UNCHANGED <<handed, W>>
      BY <2>2 DEF SelectMsg, SelectSignal, Drain, SignalDone, TakeMsg, Panic, books
    <3> QED
      BY <1>2, <3>1
  <2> QED
    BY <1>7, <2>1, <2>2 DEF startLogger
<1> QED
  BY <1>3, <1>4, <1>5, <1>6, <1>7, <1>9 DEF Next, Write, Log, WriterGoesOn

\* What the invariant says of types, of the order and of a flush.
LEMMA LoggerPromises ==
  ASSUME L_Inv, Ordered
  PROVE  B_Inv /\ FlushedBefore
<1>1. B_TypeOK
  <2>1. \A i \in DOMAIN outputs : outputs[i].name \in Adapters /\ outputs[i].id \in 0..made
    <3>1. \A n, k \in Nat : n < k => n \in 0..k
      OBVIOUS
    <3>2. outputs \in Seq(Instances) /\ made \in Nat /\ \A i \in DOMAIN outputs : outputs[i].id < made
      BY DEF L_Inv, L_Types, OutputsDiffer
    <3> QED
      BY <3>1, <3>2, InstanceIds
  <2>2. wg \in 0..2
    BY DEF L_Inv, L_Types
  <2>3. accepted \subseteq Msgs /\ done \subseteq Msgs /\ Len(signalChan) <= 1
    BY DEF L_Inv, L_Types
  <2>4. /\ level \in Levels \cup {7} /\ init \in BOOLEAN /\ asynchronous \in BOOLEAN
        /\ Len(msgChan) <= msgChanLen /\ chan \in {"nil", "open", "closed"}
        /\ lock \in Controllers \cup {nobody}
    BY DEF L_Inv, L_Types
  <2> QED
    BY <2>1, <2>2, <2>3, <2>4 DEF B_TypeOK
<1>2. InOrder
  <2>1. ASSUME NEW i \in DOMAIN handed, NEW a \in DOMAIN handed[i], NEW b \in DOMAIN handed[i], a < b
        PROVE  handed[i][a] # handed[i][b]
    <3>1. IsInjective(handed[i]) /\ handed[i] \in Seq(Msgs)
      BY DEF L_Inv, L_Types, Handed
    <3>2. a # b
      BY <2>1, <3>1
    <3> QED
      BY <3>1, <3>2 DEF IsInjective
  <2> QED
    BY <2>1 DEF InOrder, Ordered
<1>3. PanicsOnlyAround
  BY DEF L_Inv
<1>4. FlushedBefore
  BY DEF L_Inv, Drained, Flushed, FlushedBefore, FlushDrains, At
<1> QED
  BY <1>1, <1>2, <1>3, <1>4 DEF B_Inv

\* The invariant holds throughout.
LEMMA LoggerKeeps == Spec => [](L_Inv /\ Ordered)
<1>1. Init => L_Inv /\ Ordered
  <2>1. ASSUME Init PROVE Ordered
    <3>1. \A i \in DOMAIN handed : handed[i] = <<>>
      BY <2>1 DEF Init
    <3>2. DOMAIN <<>> = {}
      OBVIOUS
    <3> QED
      BY <3>1, <3>2 DEF Ordered
  <2> QED
    BY <2>1, LoggerInit
<1>2. L_Inv /\ Ordered /\ [Next]_vars => (L_Inv /\ Ordered)'
  BY LoggerStep, OrderedStep
<1> QED
  BY <1>1, <1>2, PTL DEF Spec

\* The logger keeps its invariant whatever the writers and the controller do and
\* whatever the capacity of msgChan: an output gets a message once and after all
\* that had been logged before it, also when the mode changes in between, and the
\* program panics only while Async is not through or after Close (log.go:112-139,
\* 157-177, 289-297, 329-331, 453-467).
THEOREM LoggerInvariant == Spec => []B_Inv
<1>1. L_Inv /\ Ordered => B_Inv
  BY LoggerPromises
<1> QED
  BY <1>1, LoggerKeeps, PTL

\* When Flush, Close or Reset returns, in either mode, every message whose level
\* function had returned before the call is written, and the outputs there are
\* were flushed after they got it (log.go:437-448, 453-467, 477-492).
THEOREM FlushWritesAll == Spec => []FlushedBefore
<1>1. L_Inv /\ Ordered => FlushedBefore
  BY LoggerPromises
<1> QED
  BY <1>1, LoggerKeeps, PTL

=============================================================================
