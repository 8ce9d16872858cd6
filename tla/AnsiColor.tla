----------------------------- MODULE AnsiColor -----------------------------
(* The writer for the Windows console of the logging library (ansiColorWriter,
   color_windows.go): it takes the escape sequences ESC [ parameters m out of
   the text and sets the console's attributes instead.  A Write goes through
   its bytes one at a time and calls the console's writer with the text between
   two sequences; a sequence may begin in one Write and end in a later one.

   Bytes are numbers: a parameter stands for all its digits.  An attribute word
   is the set of its bits.                                                   *)
EXTENDS Integers, Sequences

CONSTANTS
    Params,       \* parameters that occur, from the codes of color_windows.go and unknown ones
    defaultAttr,  \* the console's attributes when the program starts
    TextBytes,    \* bound: the bytes of text
    MaxText,      \* bound: bytes of text between two sequences of a Write
    MaxParam      \* bound: bytes of the parameters of a sequence

VARIABLES
    mode,          \* DiscardNonColorEscSeq or OutputNonColorEscSeq
    console,       \* standard output is a console: "yes", "lost", "never"
    WAttributes,   \* its attributes
    state, paramStartBuf, paramBuf,
    call,          \* the Write in progress: see Idle
    meant          \* what is meant, to compare with: see Nothing

screen == <<mode, console, WAttributes>>
parsed == <<state, paramStartBuf, paramBuf>>
colorVars == <<mode, console, WAttributes, state, paramStartBuf, paramBuf, call, meant>>

firstCsiChar == -1
secondeCsiChar == -2
separatorChar == -3
sgrCode == -4
otherChar == -5
Bytes == Params \cup {firstCsiChar, secondeCsiChar, separatorChar, sgrCode, otherChar}
isParameterChar(b) == b = separatorChar \/ b \in Params

fgRGB == {"fgR", "fgG", "fgB"}
bgRGB == {"bgR", "bgG", "bgB"}
fgIntensity == {"fgI"}
bgIntensity == {"bgI"}
underscore == {"underscore"}
Bits == fgRGB \cup bgRGB \cup fgIntensity \cup bgIntensity \cup underscore \cup {"other"}

ASSUME ColorConstants == Params \subseteq Nat /\ defaultAttr \subseteq Bits

\* p: the bytes from first on; last: an index into them; text: bytes outside of
\* sequences since the last one; afterEsc: an ESC was the last byte of the Write before.
Idle == [pc |-> "idle", p |-> <<>>, last |-> 0, text |-> 0, afterEsc |-> FALSE]

\* seq: the bytes of the sequence that has begun; attr: the attributes asked for;
\* shown, wrote: what was to be output and what was, until they agree; owed: bytes
\* given to the Writes less the bytes they said they wrote; odd: since the writer
\* was last outside of sequences, an ESC has come that begins none, or a Write had
\* text before a sequence it did not end; failed: the console's writer has failed.
Nothing == [seq |-> <<>>, attr |-> defaultAttr, shown |-> <<>>, wrote |-> <<>>, owed |-> 0,
            odd |-> FALSE, failed |-> FALSE]

ColorInit ==
    /\ mode \in {"Discard", "Output"} /\ console \in {"yes", "never"}
    /\ WAttributes = defaultAttr
    /\ state = "outside" /\ paramStartBuf = <<>> /\ paramBuf = <<>>
    /\ call = Idle /\ meant = Nothing

----------------------------------------------------------------------------
(* Colors.                                                                   *)

\* The color 0 to 7 of the last digit of a code.
Color(digit, R, G, B) ==
    {b \in {R, G, B} : \/ b = R /\ digit % 2 = 1
                       \/ b = G /\ (digit \div 2) % 2 = 1
                       \/ b = B /\ digit \div 4 = 1}
Fg(digit) == Color(digit, "fgR", "fgG", "fgB")
Bg(digit) == Color(digit, "bgR", "bgG", "bgB")

foregroundCodes == (30..37) \cup {39} \cup (90..97)
backgroundCodes == (40..47) \cup {49} \cup (100..107)
colorMap == [c \in foregroundCodes \cup backgroundCodes |->
    CASE c \in 30..37   -> Fg(c - 30)
      [] c = 39         -> defaultAttr \cap fgRGB
      [] c \in 90..97   -> Fg(c - 90) \cup fgIntensity
      [] c \in 40..47   -> Bg(c - 40)
      [] c = 49         -> defaultAttr \cap bgRGB
      [] c \in 100..107 -> Bg(c - 100) \cup bgIntensity]

convertTextAttr(attr) ==
    [foregroundColor |-> attr \cap fgRGB, backgroundColor |-> attr \cap bgRGB,
     foregroundIntensity |-> attr \cap fgIntensity, backgroundIntensity |-> attr \cap bgIntensity,
     underscore |-> attr \cap underscore, otherAttributes |-> attr \cap {"other"}]
convertWinAttr(t) ==
    t.foregroundColor \cup t.backgroundColor \cup t.foregroundIntensity \cup t.backgroundIntensity
        \cup t.underscore \cup t.otherAttributes

\* One code: an unknown one has no effect.
ApplyCode(t, c) ==
    CASE c \in foregroundCodes -> [t EXCEPT !.foregroundColor = colorMap[c]]
      [] c \in backgroundCodes -> [t EXCEPT !.backgroundColor = colorMap[c]]
      [] c = 0  -> [convertTextAttr(defaultAttr) EXCEPT !.underscore = {}, !.otherAttributes = {}]
      [] c = 1  -> [t EXCEPT !.foregroundIntensity = fgIntensity]
      [] c = 21 -> [t EXCEPT !.foregroundIntensity = {}]
      [] c = 4  -> [t EXCEPT !.underscore = underscore]
      [] c = 24 -> [t EXCEPT !.underscore = {}]
      [] c = 5  -> [t EXCEPT !.backgroundIntensity = bgIntensity]
      [] c = 25 -> [t EXCEPT !.backgroundIntensity = {}]
      [] OTHER  -> t

\* The codes, where they stand; no parameter at all is a 0.  What is no parameter
\* between two separators is unknown: two would be one with more digits.
Codes(param) ==
    LET Alone(i) == /\ i = 1 \/ param[i - 1] = separatorChar
                    /\ i = Len(param) \/ param[i + 1] = separatorChar
    IN  IF param = <<>> THEN <<0>>
        ELSE [i \in DOMAIN param |-> IF Alone(i) THEN param[i] ELSE separatorChar]

Applied(attr, codes) ==
    LET t[n \in 0..Len(codes)] == IF n = 0 THEN attr ELSE ApplyCode(t[n - 1], codes[n])
    IN  t[Len(codes)]

\* All codes of a sequence are applied to the attributes taken apart once.
changeColor(attr, param) == convertWinAttr(Applied(convertTextAttr(attr), Codes(param)))

\* "noConsole", "changedColor" or "unknown".
parseEscapeSequence(command) ==
    IF console # "yes" /\ (console = "never" \/ command = sgrCode) THEN "noConsole"
    ELSE IF command = sgrCode THEN "changedColor" ELSE "unknown"

\* Is the sequence that ends with command output?
PassedOn(command) ==
    LET result == parseEscapeSequence(command)
    IN  result = "noConsole" \/ (mode = "Output" /\ result = "unknown")

----------------------------------------------------------------------------
(* What is meant, byte by byte: text is shown, a sequence that is not passed on
   is not, and its codes do what they would one sequence at a time, but for the
   light colors, which keep their intensity among the codes of their sequence. *)

seq == meant.seq
seqAfter(ch) ==
    CASE ch = firstCsiChar /\ Len(seq) <= 1    -> <<ch>>
      [] Len(seq) = 1 /\ ch = secondeCsiChar   -> Append(seq, ch)
      [] Len(seq) >= 2 /\ isParameterChar(ch)  -> Append(seq, ch)
      [] OTHER                                 -> <<>>

visible(ch) ==
    IF Len(seq) >= 2
    THEN IF ~isParameterChar(ch) /\ PassedOn(ch) THEN Append(seq, ch) ELSE <<>>
    ELSE CASE seqAfter(ch) = <<ch>> -> seq
           [] seqAfter(ch) = <<>>   -> Append(seq, ch)
           [] OTHER                 -> <<>>

light(c) == c \in (90..97) \cup (100..107)
separately(attr, codes) ==
    LET a[n \in 0..Len(codes)] ==
            IF n = 0 THEN attr ELSE convertWinAttr(ApplyCode(convertTextAttr(a[n - 1]), codes[n]))
    IN  IF \E i \in DOMAIN codes : light(codes[i])
        THEN convertWinAttr(Applied(convertTextAttr(attr), codes))
        ELSE a[Len(codes)]

\* Nothing is compared after a failed write or an odd ESC.
Compare(m) ==
    IF m.odd \/ m.failed THEN [m EXCEPT !.wrote = <<>>, !.shown = <<>>, !.owed = 0]
    ELSE IF m.wrote = m.shown THEN [m EXCEPT !.wrote = <<>>, !.shown = <<>>]
    ELSE m

\* With the byte ch, out was written and n bytes counted.
Means(ch, out, n) ==
    meant' = IF meant.failed THEN meant ELSE Compare([meant EXCEPT
        !.seq = seqAfter(ch),
        !.attr = IF Len(seq) >= 2 /\ ch = sgrCode /\ ~PassedOn(ch)
                 THEN separately(@, Codes(SubSeq(seq, 3, Len(seq)))) ELSE @,
        !.shown = @ \o visible(ch),
        !.wrote = @ \o out,
        !.owed = @ + 1 - n,
        !.odd = @ \/ (Len(seq) = 1 /\ ch # secondeCsiChar)])

----------------------------------------------------------------------------
(* Write.                                                                    *)

BeginWrite ==
    /\ call.pc = "idle"
    /\ IF mode = "Output"
       THEN state' = "outside" /\ paramStartBuf' = <<>> /\ paramBuf' = <<>>
       ELSE UNCHANGED parsed
    /\ call' = [Idle EXCEPT !.pc = "loop", !.afterEsc = state' = "first"]
    /\ meant' = IF state' = "outside" THEN [Nothing EXCEPT !.attr = WAttributes]
                ELSE [meant EXCEPT !.wrote = <<>>, !.shown = <<>>]
    /\ UNCHANGED screen

Text(ch) ==
    \/ state = "outside" /\ ch # firstCsiChar
    \/ state = "first" /\ ch # secondeCsiChar

Bounded(ch) ==
    /\ Len(paramStartBuf) <= 2
    /\ state = "second" => Len(paramBuf) < MaxParam
    /\ Text(ch) => call.text < MaxText /\ ch \in TextBytes \cup {firstCsiChar}

\* A byte that ends no sequence.
TakeByte(ch) ==
    /\ call.pc = "loop" /\ Bounded(ch)
    /\ state = "second" => isParameterChar(ch)
    /\ \/ /\ state = "outside" /\ ch = firstCsiChar
          /\ state' = "first" /\ paramStartBuf' = Append(paramStartBuf, ch)
       \/ state = "outside" /\ ch # firstCsiChar /\ UNCHANGED <<state, paramStartBuf>>
       \/ /\ state = "first" /\ ch = firstCsiChar
          /\ paramStartBuf' = Append(paramStartBuf, ch) /\ UNCHANGED state
       \/ /\ state = "first" /\ ch = secondeCsiChar
          /\ state' = "second" /\ paramStartBuf' = Append(paramStartBuf, ch)
       \/ /\ state = "first" /\ ch \notin {firstCsiChar, secondeCsiChar}
          /\ state' = "outside" /\ paramStartBuf' = <<>>
       \/ state = "second" /\ UNCHANGED <<state, paramStartBuf>>
    /\ paramBuf' = IF state = "second" THEN Append(paramBuf, ch) ELSE paramBuf
    /\ call' = [call EXCEPT
           !.p = Append(@, ch),
           !.last = IF state = "first" /\ ch = secondeCsiChar THEN Len(call.p) - 1 ELSE @,
           !.text = IF Text(ch) THEN @ + 1 ELSE @]
    /\ Means(ch, <<>>, 0)
    /\ UNCHANGED screen

\* The last byte of a sequence: the text before it is written, then the sequence
\* is passed on or carried out.
EndsSequence(ch) == call.pc = "loop" /\ state = "second" /\ ~isParameterChar(ch)
SequenceEnds(ch) ==
    /\ EndsSequence(ch) /\ call.last >= 0
    /\ LET text == SubSeq(call.p, 1, call.last)
           whole == paramStartBuf \o Append(paramBuf, ch)
       IN  Means(ch, IF PassedOn(ch) THEN text \o whole ELSE text, Len(text) + Len(whole))
    /\ WAttributes' = IF parseEscapeSequence(ch) = "changedColor"
                      THEN changeColor(WAttributes, paramBuf) ELSE WAttributes
    /\ state' = "outside" /\ paramStartBuf' = <<>> /\ paramBuf' = <<>>
    /\ call' = [call EXCEPT !.p = <<>>, !.last = 0, !.text = 0]
    /\ UNCHANGED <<mode, console>>

\* p[first:last] with a negative last.
Panics(ch) ==
    /\ EndsSequence(ch) /\ call.last < 0
    /\ call' = [call EXCEPT !.pc = "panicked"]
    /\ UNCHANGED <<screen, parsed, meant>>

\* The console's writer fails, at the text before the sequence or at either half
\* of one that is passed on: Write returns inside the sequence.
WriteFails(ch) ==
    /\ EndsSequence(ch) /\ call.last >= 0
    /\ Len(paramBuf) < MaxParam
    /\ \/ UNCHANGED <<paramStartBuf, paramBuf>>
       \/ PassedOn(ch) /\ paramStartBuf' = <<>> /\ paramBuf' = Append(paramBuf, ch)
       \/ PassedOn(ch) /\ paramStartBuf' = <<>> /\ paramBuf' = <<>>
    /\ call' = Idle /\ meant' = [Nothing EXCEPT !.failed = TRUE]
    /\ UNCHANGED <<screen, state>>

\* Mutant: what is left is written in both modes, also inside of a sequence.
EndWrite_Always ==
    /\ call.pc = "loop"
    /\ call' = Idle
    /\ \/ meant' = Compare([meant EXCEPT
              !.seq = IF mode = "Output" THEN <<>> ELSE @,
              !.shown = IF mode = "Output" THEN @ \o seq ELSE @,
              !.wrote = @ \o call.p,
              !.owed = @ - Len(call.p)])
       \/ meant' = [Nothing EXCEPT !.failed = TRUE]
    /\ UNCHANGED <<screen, parsed>>

\* The end of p: what is left is written, in the mode that discards only outside
\* of a sequence.
EndWrite ==
    /\ call.pc = "loop"
    /\ call' = Idle
    /\ LET writes == mode = "Output" \/ state = "outside"
           out == IF writes THEN call.p ELSE <<>>
       IN  \/ meant' = Compare([meant EXCEPT
                  !.seq = IF mode = "Output" THEN <<>> ELSE @,
                  !.shown = IF mode = "Output" THEN @ \o seq ELSE @,
                  !.wrote = @ \o out,
                  !.owed = @ - Len(out),
                  !.odd = @ \/ (~writes /\ call.text > 0)])
           \/ writes /\ meant' = [Nothing EXCEPT !.failed = TRUE]
    /\ UNCHANGED <<screen, parsed>>

\* The program gives its console up.
Detach ==
    /\ console = "yes" /\ call.pc = "idle"
    /\ console' = "lost"
    /\ UNCHANGED <<mode, WAttributes, parsed, call, meant>>

ColorNext ==
    \/ BeginWrite \/ EndWrite \/ Detach
    \/ \E ch \in Bytes : TakeByte(ch) \/ SequenceEnds(ch) \/ Panics(ch) \/ WriteFails(ch)

ColorSpec == ColorInit /\ [][ColorNext]_colorVars

----------------------------------------------------------------------------
(* Properties, between two Writes.                                           *)

Comparable == call.pc = "idle" /\ ~meant.failed /\ ~meant.odd

\* The console shows the text without the sequences that set its colors, however
\* the bytes are divided into Writes, as long as no ESC stands alone and no Write
\* has text before a sequence it leaves unfinished (color_windows.go:363-428;
\* logger.go:43-46 promises it for any division).
TextKept == Comparable => meant.wrote = meant.shown

\* The attributes are those that the sequences ask for, one code after the other,
\* wherever the bytes were divided (color_windows.go:260-309).
ColorsKept == call.pc = "idle" /\ ~meant.failed => WAttributes = meant.attr

\* The bytes of a sequence are counted in the Write that ends it, all the others
\* in theirs (color_windows.go:395-413, 422-425).
BytesCounted == Comparable => meant.owed = Len(seq)

\* Write can only panic when it continues a sequence of which the ESC was the last
\* byte of an earlier Write (color_windows.go:386, 395).
PanicsAfterEscOnly == call.pc = "panicked" => call.afterEsc

\* The writer, however the bytes are divided into Writes: text, attributes, counts
\* and its only panic (color_windows.go:363-428).
ColorInv == TextKept /\ ColorsKept /\ BytesCounted /\ PanicsAfterEscOnly

=============================================================================
