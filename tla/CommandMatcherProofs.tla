------------------------ MODULE CommandMatcherProofs ------------------------
(***************************************************************************)
(* Of CommandMatcher, for lines, buffers and answers of any length: the    *)
(* modem uses the ring buffer as RingBuffer says, so that the theorems of  *)
(* that hold of it; the three states of the matcher recognise an AT that   *)
(* ends a run of A's of odd length, and so, of the commands that the       *)
(* comment names, those that do not follow another A; and no answer is     *)
(* read without its echo.                                                  *)
(*                                                                         *)
(* The invariant says what the matcher knows of the characters it has      *)
(* matched (Knows): GOT_T that a command began, GOT_A that a run of A's of *)
(* odd length ends here.  A run has a start because the line has grown     *)
(* character by character (RunsStart), which takes the place of an         *)
(* induction over the line.                                                *)
(***************************************************************************)
EXTENDS CommandMatcher, RingBufferProofs

ModemTypes ==
    /\ CommandMatchState \in {"IDLE", "GOT_A", "GOT_T"}
    /\ ConnectCommand \in BOOLEAN /\ IgnoreNextChar \in BOOLEAN
    /\ call \in {"none", "next", "match", "answer"}
    /\ echoed \in BOOLEAN
    /\ line \in Seq(Characters)
    /\ answer \in {"none", "OK", "CONNECT"}

(* The A's of l from j to i are all that there are before and at i.        *)
Run(l, j, i) ==
    /\ \A k \in j .. i : l[k] = "A"
    /\ j = 1 \/ l[j - 1] # "A"

OddRun(l, i) == \E j \in 1 .. i : Run(l, j, i) /\ (i - j) % 2 = 0

RunsStart(l) == \A i \in 1 .. Len(l) : l[i] = "A" => \E j \in 1 .. i : Run(l, j, i)

(* The matcher's reading of the line: it has taken AT for a command at i,  *)
(* at some place, or with an A or D after the first one.                   *)
MatchesAt(l, i) == i < Len(l) /\ OddRun(l, i) /\ l[i + 1] = "T"

HasMatch(l) == \E i \in 1 .. Len(l) : MatchesAt(l, i)

MatchConnects(l) ==
    \E i \in 1 .. Len(l) - 2 :
       /\ MatchesAt(l, i)
       /\ \A j \in 1 .. i - 1 : ~MatchesAt(l, j)
       /\ l[i + 2] \in {"A", "D"}

(* It has among the first n characters, or takes this one first.           *)
MatchesIn(l, n) == \E i \in 1 .. n - 1 : MatchesAt(l, i)

First(l, i) == MatchesAt(l, i) /\ \A j \in 1 .. i - 1 : ~MatchesAt(l, j)

(* What the state of the matcher says of the first n characters of l.      *)
Knows(l, n) ==
    /\ CommandMatchState = "GOT_T" <=> MatchesIn(l, n)
    /\ CommandMatchState = "GOT_A" <=> ~MatchesIn(l, n) /\ n > 0 /\ OddRun(l, n)
    /\ CommandMatchState = "GOT_A" => ~ConnectCommand /\ ~IgnoreNextChar
    /\ CommandMatchState = "GOT_T" =>
          \E i \in 1 .. n - 1 :
             /\ First(l, i)
             /\ IgnoreNextChar <=> n > i + 1
             /\ ConnectCommand <=> n > i + 1 /\ l[i + 2] \in {"A", "D"}

RightAnswer(l) ==
    IF ~HasMatch(l) THEN "none" ELSE IF MatchConnects(l) THEN "CONNECT" ELSE "OK"

LineInv ==
    /\ RunsStart(line)
    /\ call = "answer" => Ended(line)
    /\ call = "match" =>
          line # <<>> /\ Knows(line, Len(line) - 1) /\ answer = "none"
    /\ call # "match" /\ ~Ended(line) =>
          Knows(line, Len(line)) /\ answer = "none"
    /\ call # "match" /\ Ended(line) =>
          CommandMatchState = "IDLE" /\ answer = RightAnswer(line)

(* Under the lock nobody reads during a call, and what had no room for the *)
(* echo has none for the answer.                                           *)
EchoInv ==
    mode = "locked" =>
       /\ call # "none" => reader = "idle"
       /\ call = "match" /\ ~echoed => writer = "idle" /\ Used = Size - 1
       /\ call = "answer" /\ ~echoed => writer = "idle" /\ toWrite = 0

ModemInv == IInv /\ ModemTypes /\ LineInv /\ EchoInv

----------------------------------------------------------------------------
(* The ring buffer.                                                        *)

(* A step of the modem is a step of the ring buffer, or nothing to it.     *)
LEMMA RingOrNothing == [ModemNext]_<<vars, modemVars>> => [Next]_vars
<1>1. ASSUME NEW c \in Characters, NextChar(c)
      PROVE  Next
  BY <1>1, CommandMatcherAssumption DEF NextChar, Next, Producer
<1>2. CASE Match
  <2>1. CASE MatchIdle \/ MatchGotA
    BY <2>1 DEF MatchIdle, MatchGotA
  <2>2. CASE MatchGotT
    <3>1. IF Connects THEN ConnectLength \in 1 .. MaxChunk ELSE OkLength \in 1 .. MaxChunk
      BY CommandMatcherAssumption
    <3>. QED
      BY <2>2, <3>1 DEF MatchGotT, Next, Producer
  <2>. QED
    BY <1>2, <2>1, <2>2 DEF Match
<1>3. CASE BeginCall \/ EndCall \/ Answered
  BY <1>3 DEF BeginCall, EndCall, Answered
<1>4. CASE (CopyIn \/ AdvanceTail \/ WrapTail) /\ UNCHANGED modemVars
  BY <1>4 DEF Next, Producer
<1>5. CASE Reads
  BY <1>5 DEF Reads, Next
<1>. QED
  BY <1>1, <1>2, <1>3, <1>4, <1>5 DEF ModemNext, QueueProcessWriteBytes

(* Writes and answers of the modem are calls that the ring buffer allows,  *)
(* each after the one before it has ended.                                 *)
THEOREM ModemUsesTheRing == ModemSpec => Spec
<1>1. ModemInit => Init
  BY DEF ModemInit
<1>. QED
  BY <1>1, RingOrNothing, PTL DEF ModemSpec, Spec

(* The pointers stay in their ranges when the modem is the producer.       *)
THEOREM ModemRingTypeCorrect ==
  ASSUME "unlocked" \notin Modes
  PROVE  ModemSpec => []RingTypeOK
BY ModemUsesTheRing, RingTypeCorrect, PTL

(* Echoes and answers are read in the order in which they were put.        *)
THEOREM ModemBytesInTheirOrder ==
  ASSUME "unlocked" \notin Modes
  PROVE  ModemSpec => []BytesDelivered
BY ModemUsesTheRing, BytesInTheirOrder, PTL

(* Between the modem and the reads is a lossy buffer of Size - 1 bytes.    *)
THEOREM ModemImplementsBuffer ==
  ASSUME "unlocked" \notin Modes
  PROVE  ModemSpec => ImplementsLossyBuffer
BY ModemUsesTheRing, RingImplementsBuffer, PTL

----------------------------------------------------------------------------
(* Lines.                                                                  *)

(* An odd run ends at an A that no odd run ends before.                    *)
LEMMA OddRunByOne ==
    ASSUME NEW l \in Seq(Characters), RunsStart(l), NEW n \in 1 .. Len(l)
    PROVE  OddRun(l, n) <=> l[n] = "A" /\ (n = 1 \/ ~OddRun(l, n - 1))
<1>1. ASSUME OddRun(l, n)
      PROVE  l[n] = "A" /\ (n = 1 \/ ~OddRun(l, n - 1))
  <2>1. PICK j \in 1 .. n : Run(l, j, n) /\ (n - j) % 2 = 0
    BY <1>1 DEF OddRun
  <2>2. l[n] = "A"
    BY <2>1 DEF Run
  <2>3. ASSUME n # 1, OddRun(l, n - 1)
        PROVE  FALSE
    <3>1. PICK i \in 1 .. n - 1 : Run(l, i, n - 1) /\ ((n - 1) - i) % 2 = 0
      BY <2>3 DEF OddRun
    <3>2. i = j
      <4>1. CASE i < j
        <5>1. j - 1 \in i .. n - 1 /\ j # 1
          BY <4>1
        <5>. QED
          BY <2>1, <3>1, <5>1 DEF Run
      <4>2. CASE j < i
        <5>1. i - 1 \in j .. n /\ i # 1
          BY <4>2
        <5>. QED
          BY <2>1, <3>1, <5>1 DEF Run
      <4>. QED
        BY <4>1, <4>2
    <3>. QED
      BY <2>1, <3>1, <3>2
  <2>. QED
    BY <2>2, <2>3
<1>2. ASSUME l[n] = "A", n = 1 \/ ~OddRun(l, n - 1)
      PROVE  OddRun(l, n)
  <2>1. PICK j \in 1 .. n : Run(l, j, n)
    BY <1>2 DEF RunsStart
  <2>2. CASE j = n
    BY <2>1, <2>2 DEF OddRun
  <2>3. CASE j # n
    <3>1. j \in 1 .. n - 1 /\ Run(l, j, n - 1)
      BY <2>1, <2>3 DEF Run
    <3>2. ((n - 1) - j) % 2 # 0
      BY <1>2, <3>1 DEF OddRun
    <3>3. (n - j) % 2 = 0
      BY <3>1, <3>2
    <3>. QED
      BY <2>1, <3>3 DEF OddRun
  <2>. QED
    BY <2>2, <2>3
<1>. QED
  BY <1>1, <1>2

(* What is said of the characters up to n is not about those that follow.  *)
LEMMA LongerLine ==
    ASSUME NEW l \in Seq(Characters), NEW c \in Characters, NEW n \in 0 .. Len(l)
    PROVE  /\ \A i \in 1 .. n : OddRun(Append(l, c), i) <=> OddRun(l, i)
           /\ \A i \in 1 .. n - 1 : MatchesAt(Append(l, c), i) <=> MatchesAt(l, i)
<1> DEFINE m == Append(l, c)
<1>1. m \in Seq(Characters) /\ Len(m) = Len(l) + 1 /\ \A k \in 1 .. n : m[k] = l[k]
  OBVIOUS
<1> HIDE DEF m
<1>2. ASSUME NEW i \in 1 .. n
      PROVE  OddRun(m, i) <=> OddRun(l, i)
  <2>1. \A j \in 1 .. i : Run(m, j, i) <=> Run(l, j, i)
    BY <1>1 DEF Run
  <2>. QED
    BY <2>1 DEF OddRun
<1>3. ASSUME NEW i \in 1 .. n - 1
      PROVE  MatchesAt(m, i) <=> MatchesAt(l, i)
  BY <1>1, <1>2 DEF MatchesAt
<1>. QED
  BY <1>2, <1>3 DEF m

(* A line that grows by a character.                                       *)
LEMMA RunsStartAppend ==
    ASSUME NEW l \in Seq(Characters), NEW c \in Characters, RunsStart(l)
    PROVE  RunsStart(Append(l, c))
<1> DEFINE m == Append(l, c)
<1>1. m \in Seq(Characters) /\ Len(m) = Len(l) + 1 /\ \A k \in 1 .. Len(l) : m[k] = l[k]
  OBVIOUS
<1> HIDE DEF m
<1>2. ASSUME NEW i \in 1 .. Len(l), m[i] = "A"
      PROVE  \E j \in 1 .. i : Run(m, j, i)
  <2>1. PICK j \in 1 .. i : Run(l, j, i)
    BY <1>1, <1>2 DEF RunsStart
  <2>2. Run(m, j, i)
    BY <1>1, <2>1 DEF Run
  <2>. QED
    BY <2>2
<1>3. ASSUME m[Len(m)] = "A"
      PROVE  \E j \in 1 .. Len(m) : Run(m, j, Len(m))
  <2>1. CASE Len(l) = 0 \/ m[Len(l)] # "A"
    <3>1. Len(m) \in 1 .. Len(m) /\ Run(m, Len(m), Len(m))
      BY <1>1, <1>3, <2>1 DEF Run
    <3>. QED
      BY <3>1
  <2>2. CASE Len(l) # 0 /\ m[Len(l)] = "A"
    <3>1. PICK j \in 1 .. Len(l) : Run(m, j, Len(l))
      BY <1>1, <1>2, <2>2
    <3>2. Run(m, j, Len(m))
      BY <1>1, <1>3, <3>1 DEF Run
    <3>. QED
      BY <1>1, <3>2
  <2>. QED
    BY <2>1, <2>2
<1>4. RunsStart(m)
  BY <1>1, <1>2, <1>3 DEF RunsStart
<1>. QED
  BY <1>4 DEF m

----------------------------------------------------------------------------
(* The matcher.                                                            *)

(* The state of the matcher after the character that it matches.           *)
LEMMA KnowsByOne ==
    ASSUME ModemTypes, ModemTypes', RunsStart(line), line # <<>>, UNCHANGED line,
           Knows(line, Len(line) - 1),
           \/ MatchIdle \/ MatchGotA
           \/ MatchGotT /\ currentCharacter # "CR"
    PROVE  Knows(line, Len(line))'
<1> DEFINE n == Len(line) - 1
           c == currentCharacter
<1>1. /\ line \in Seq(Characters) /\ Len(line) = n + 1 /\ n \in Nat /\ line[n + 1] = c
      /\ n > 0 => n \in 1 .. Len(line)
  BY DEF ModemTypes, currentCharacter
<1>2. MatchesIn(line, n + 1) <=> MatchesIn(line, n) \/ (n > 0 /\ OddRun(line, n) /\ c = "T")
  <2>1. MatchesIn(line, n + 1) <=> MatchesIn(line, n) \/ (n > 0 /\ MatchesAt(line, n))
    BY <1>1 DEF MatchesIn
  <2>2. n > 0 => (MatchesAt(line, n) <=> OddRun(line, n) /\ c = "T")
    BY <1>1 DEF MatchesAt
  <2>. QED
    BY <2>1, <2>2
<1>3. OddRun(line, n + 1) <=> c = "A" /\ (n = 0 \/ ~OddRun(line, n))
  <2>1. n + 1 \in 1 .. Len(line) /\ n + 1 - 1 = n
    BY <1>1
  <2>2. OddRun(line, n + 1) <=> line[n + 1] = "A" /\ (n + 1 = 1 \/ ~OddRun(line, n + 1 - 1))
    BY <1>1, <2>1, OddRunByOne
  <2>. QED
    BY <1>1, <2>1, <2>2
<1> HIDE DEF n, c
<1>4. CASE MatchIdle
  <2>1. ~MatchesIn(line, n) /\ ~(n > 0 /\ OddRun(line, n))
    BY <1>4 DEF MatchIdle, Knows, n
  <2>2. /\ c = "A" => CommandMatchState' = "GOT_A" /\ ~ConnectCommand' /\ ~IgnoreNextChar'
        /\ c # "A" => CommandMatchState' = "IDLE"
    BY <1>4 DEF MatchIdle, matchVars, c
  <2>3. ~MatchesIn(line, n + 1) /\ (OddRun(line, n + 1) <=> c = "A")
    BY <1>1, <1>2, <1>3, <2>1
  <2>. QED
    BY <1>1, <2>2, <2>3 DEF Knows, MatchesIn, OddRun, MatchesAt, Run
<1>5. CASE MatchGotA
  <2>1. /\ ~MatchesIn(line, n) /\ n > 0 /\ OddRun(line, n)
        /\ ~ConnectCommand /\ ~IgnoreNextChar
    BY <1>5 DEF MatchGotA, Knows, n
  <2>2. /\ CommandMatchState' = IF c = "T" THEN "GOT_T" ELSE "IDLE"
        /\ ~ConnectCommand' /\ ~IgnoreNextChar'
    BY <1>5, <2>1 DEF MatchGotA, c
  <2>3. (MatchesIn(line, n + 1) <=> c = "T") /\ ~OddRun(line, n + 1)
    BY <1>1, <1>2, <1>3, <2>1
  <2>4. c = "T" => First(line, n)
    BY <1>1, <2>1 DEF First, MatchesIn, MatchesAt
  <2>. QED
    BY <1>1, <2>1, <2>2, <2>3, <2>4 DEF Knows
<1>6. CASE MatchGotT /\ c # "CR"
  <2>1. PICK i \in 1 .. n - 1 :
           /\ First(line, i)
           /\ IgnoreNextChar <=> n > i + 1
           /\ ConnectCommand <=> n > i + 1 /\ line[i + 2] \in {"A", "D"}
    BY <1>6 DEF MatchGotT, Knows, n
  <2>2. /\ CommandMatchState' = "GOT_T" /\ IgnoreNextChar'
        /\ ConnectCommand' <=> ConnectCommand \/ (~IgnoreNextChar /\ c \in {"A", "D"})
    BY <1>6 DEF MatchGotT, Connects, matchVars, c
  <2>3. ConnectCommand' <=> line[i + 2] \in {"A", "D"}
    BY <1>1, <2>1, <2>2
  <2>4. i \in 1 .. n /\ n + 1 > i + 1
    BY <1>1, <2>1
  <2>5. MatchesIn(line, n + 1)
    BY <1>1, <2>1, <2>4 DEF MatchesIn, First
  <2>. QED
    BY <1>1, <2>1, <2>2, <2>3, <2>4, <2>5 DEF Knows
<1>. QED
  BY <1>4, <1>5, <1>6 DEF c

LEMMA HasMatchIn ==
    ASSUME NEW l \in Seq(Characters)
    PROVE  HasMatch(l) <=> MatchesIn(l, Len(l))
BY DEF HasMatch, MatchesIn, MatchesAt

(* What follows the first command decides.                                 *)
LEMMA FirstDecides ==
    ASSUME NEW l \in Seq(Characters), NEW i \in 1 .. Len(l) - 1, First(l, i)
    PROVE  MatchConnects(l) <=> Len(l) > i + 1 /\ l[i + 2] \in {"A", "D"}
<1>1. ASSUME MatchConnects(l)
      PROVE  Len(l) > i + 1 /\ l[i + 2] \in {"A", "D"}
  <2>1. PICK k \in 1 .. Len(l) - 2 : First(l, k) /\ l[k + 2] \in {"A", "D"}
    BY <1>1 DEF MatchConnects, First
  <2>2. ~(k < i) /\ ~(i < k)
    BY <2>1 DEF First
  <2>. QED
    BY <2>1, <2>2
<1>2. ASSUME Len(l) > i + 1, l[i + 2] \in {"A", "D"}
      PROVE  MatchConnects(l)
  <2>1. i \in 1 .. Len(l) - 2
    BY <1>2
  <2>. QED
    BY <1>2, <2>1 DEF MatchConnects, First
<1>. QED
  BY <1>1, <1>2

(* A carriage return that is not in GOT_T ends a line without a command.   *)
LEMMA EndsUnanswered ==
    ASSUME ModemTypes, ModemTypes', RunsStart(line), line # <<>>, UNCHANGED line,
           Knows(line, Len(line) - 1), MatchIdle \/ MatchGotA, currentCharacter = "CR"
    PROVE  CommandMatchState' = "IDLE" /\ RightAnswer(line) = "none"
<1>1. CommandMatchState' = "IDLE"
  BY DEF MatchIdle, MatchGotA, matchVars
<1>2. Knows(line, Len(line))'
  BY KnowsByOne
<1>3. ~HasMatch(line)
  BY <1>1, <1>2, HasMatchIn DEF Knows, ModemTypes
<1>. QED
  BY <1>1, <1>3 DEF RightAnswer

(* One in GOT_T is answered.                                               *)
LEMMA EndsAnswered ==
    ASSUME ModemTypes, line # <<>>, Knows(line, Len(line) - 1), MatchGotT,
           currentCharacter = "CR"
    PROVE  CommandMatchState' = "IDLE" /\ answer' = RightAnswer(line)
<1> DEFINE n == Len(line) - 1
<1>1. line \in Seq(Characters) /\ Len(line) = n + 1 /\ n \in Nat /\ line[n + 1] = "CR"
  BY DEF ModemTypes, currentCharacter
<1>2. PICK i \in 1 .. n - 1 :
         /\ First(line, i)
         /\ IgnoreNextChar <=> n > i + 1
         /\ ConnectCommand <=> n > i + 1 /\ line[i + 2] \in {"A", "D"}
  BY DEF MatchGotT, Knows, n
<1> HIDE DEF n
<1>3. CommandMatchState' = "IDLE" /\ answer' = IF Connects THEN "CONNECT" ELSE "OK"
  BY DEF MatchGotT
<1>4. Connects <=> ConnectCommand
  BY DEF Connects
<1>5. i \in 1 .. Len(line) - 1 /\ n + 1 > i + 1
  BY <1>1, <1>2
<1>6. HasMatch(line)
  BY <1>2, <1>5 DEF HasMatch, First
<1>7. MatchConnects(line) <=> line[i + 2] \in {"A", "D"}
  BY <1>1, <1>2, <1>5, FirstDecides
<1>8. i + 2 = n + 1 \/ n > i + 1
  BY <1>1, <1>2
<1>9. Connects <=> MatchConnects(line)
  BY <1>1, <1>2, <1>4, <1>7, <1>8
<1>. QED
  BY <1>3, <1>6, <1>9 DEF RightAnswer

----------------------------------------------------------------------------
(* Steps.                                                                  *)

(* The next character is not matched yet.                                  *)
LEMMA NextCharStep ==
    ASSUME IInv, ModemTypes, LineInv, EchoInv, NEW c \in Characters, NextChar(c)
    PROVE  ModemTypes' /\ LineInv' /\ EchoInv'
<1> DEFINE before == IF Ended(line) THEN <<>> ELSE line
<1>1. /\ call = "next" /\ call' = "match" /\ answer' = "none" /\ line' = Append(before, c)
      /\ echoed' = (toWrite' = 1) /\ Write(1)
      /\ UNCHANGED <<matchVars, CurrentlyConnected>>
  BY DEF NextChar
<1>2. before \in Seq(Characters) /\ RunsStart(before) /\ Knows(before, Len(before))
  <2>1. CASE Ended(line)
    <3>1. before = <<>> /\ CommandMatchState = "IDLE"
      BY <1>1, <2>1 DEF LineInv
    <3>2. <<>> \in Seq(Characters) /\ Len(<<>>) = 0
      OBVIOUS
    <3> HIDE DEF before
    <3>3. RunsStart(before) /\ ~MatchesIn(before, 0)
      BY <3>1, <3>2 DEF RunsStart, MatchesIn
    <3>. QED
      BY <3>1, <3>2, <3>3 DEF Knows
  <2>2. CASE ~Ended(line)
    BY <1>1, <2>2 DEF LineInv, ModemTypes
  <2>. QED
    BY <2>1, <2>2
<1> HIDE DEF before
<1>3. /\ line' \in Seq(Characters) /\ line' # <<>> /\ RunsStart(line')
      /\ Len(line') - 1 = Len(before)
      /\ \A k \in 1 .. Len(before) : line'[k] = before[k]
  BY <1>1, <1>2, RunsStartAppend
<1>4. Knows(line, Len(line) - 1)'
  <2> DEFINE n == Len(before)
  <2>1. n \in Nat /\ n \in 0 .. Len(before)
    BY <1>2
  <2>2. /\ \A i \in 1 .. n : OddRun(line', i) <=> OddRun(before, i)
        /\ \A i \in 1 .. n - 1 : MatchesAt(line', i) <=> MatchesAt(before, i)
    BY <1>1, <1>2, <2>1, LongerLine
  <2>3. MatchesIn(line', n) <=> MatchesIn(before, n)
    BY <2>2 DEF MatchesIn
  <2>4. n > 0 => (OddRun(line', n) <=> OddRun(before, n))
    BY <2>1, <2>2
  <2>5. \A i \in 1 .. n - 1 : First(line', i) <=> First(before, i)
    BY <2>1, <2>2 DEF First
  <2>6. \A i \in 1 .. n - 1 : n > i + 1 => line'[i + 2] = before[i + 2]
    BY <1>3, <2>1
  <2>7. Knows(line', n)
    <3>1. ASSUME NEW i \in 1 .. n - 1
          PROVE  n > i + 1 /\ line'[i + 2] \in {"A", "D"}
                    <=> n > i + 1 /\ before[i + 2] \in {"A", "D"}
      BY <2>6
    <3>. QED
      BY <1>2, <2>3, <2>4, <2>5, <3>1 DEF Knows
  <2>. QED
    BY <1>1, <1>3, <2>7 DEF Knows, matchVars
<1>5. ModemTypes'
  BY <1>1, <1>3 DEF ModemTypes, matchVars
<1>6. EchoInv'
  <2>1. AvailableSpace(head, tail) = Size - 1 - Used
    BY <1>1, CallsSeeNoEnd, SpaceIsWhatIsLeft DEF Write
  <2>2. Used \in 0 .. Size - 1 /\ Used' = Used
    BY <1>1 DEF IInv, Distance, Write, readerVars, Used
  <2>3. mode = "locked" => reader = "idle"
    BY <1>1 DEF EchoInv
  <2>4. ~echoed' => Used = Size - 1 /\ toWrite' = 0 /\ writer' = "idle"
    <3>1. /\ toWrite' = IF Size - 1 - Used < 1 THEN Size - 1 - Used ELSE 1
          /\ writer' = IF toWrite' = 0 THEN "idle" ELSE "copy"
      BY <1>1, <2>1 DEF Write, Least
    <3>2. ~echoed' => toWrite' # 1
      BY <1>1
    <3>. QED
      BY <2>2, <3>1, <3>2, RingBufferAssumption
  <2>5. mode' = mode /\ reader' = reader
    BY <1>1 DEF Write, readerVars
  <2>. QED
    BY <1>1, <2>2, <2>3, <2>4, <2>5 DEF EchoInv
<1>. QED
  BY <1>1, <1>3, <1>4, <1>5, <1>6 DEF LineInv

(* A match, with the answer if there is one.                               *)
LEMMA MatchStep ==
    ASSUME IInv, ModemTypes, LineInv, EchoInv, Match
    PROVE  ModemTypes' /\ LineInv' /\ EchoInv'
<1>1. /\ call = "match" /\ writer = "idle" /\ line # <<>> /\ RunsStart(line)
      /\ Knows(line, Len(line) - 1) /\ answer = "none" /\ line \in Seq(Characters)
  BY DEF Match, LineInv, ModemTypes
<1>2. Ended(line) <=> currentCharacter = "CR"
  BY <1>1 DEF Ended, currentCharacter
<1>3. CASE (MatchIdle \/ MatchGotA) \/ (MatchGotT /\ currentCharacter # "CR")
  <2>1. /\ call' = "next" /\ UNCHANGED <<vars, echoed, line, answer, CurrentlyConnected>>
    BY <1>3 DEF MatchIdle, MatchGotA, MatchGotT, lineVars
  <2>2. ModemTypes'
    BY <1>3, <2>1 DEF ModemTypes, MatchIdle, MatchGotA, MatchGotT, matchVars, Connects
  <2>3. Knows(line, Len(line))'
    BY <1>1, <1>3, <2>1, <2>2, KnowsByOne
  <2>4. Ended(line) => CommandMatchState' = "IDLE" /\ answer = RightAnswer(line)
    BY <1>1, <1>2, <1>3, <2>1, <2>2, EndsUnanswered
  <2>5. LineInv'
    BY <1>1, <2>1, <2>3, <2>4 DEF LineInv, Ended, RightAnswer
  <2>6. EchoInv'
    BY <1>1, <2>1 DEF EchoInv, vars, writerVars, readerVars, Used
  <2>. QED
    BY <2>2, <2>5, <2>6
<1>4. CASE MatchGotT /\ currentCharacter = "CR"
  <2>1. /\ call' = "answer" /\ UNCHANGED <<echoed, line>>
        /\ \E n \in 1 .. MaxChunk : Write(n)
    BY <1>4, CommandMatcherAssumption DEF MatchGotT
  <2>2. CommandMatchState' = "IDLE" /\ answer' = RightAnswer(line)
    BY <1>1, <1>4, EndsAnswered
  <2>3. ModemTypes'
    BY <1>4, <2>1, <2>2 DEF ModemTypes, MatchGotT, Connects
  <2>4. LineInv'
    BY <1>1, <1>2, <1>4, <2>1, <2>2 DEF LineInv, Ended, RightAnswer
  <2>5. EchoInv'
    <3>1. PICK n \in 1 .. MaxChunk : Write(n)
      BY <2>1
    <3>2. AvailableSpace(head, tail) = Size - 1 - Used
      BY <3>1, CallsSeeNoEnd, SpaceIsWhatIsLeft DEF Write
    <3>3. /\ toWrite' = Least(Size - 1 - Used, n)
          /\ writer' = IF toWrite' = 0 THEN "idle" ELSE "copy"
          /\ mode' = mode /\ reader' = reader
      BY <3>1, <3>2 DEF Write, readerVars
    <3>4. mode = "locked" /\ ~echoed => toWrite' = 0
      BY <1>1, <3>3, RingBufferAssumption DEF EchoInv, Least
    <3>5. mode = "locked" => reader = "idle"
      BY <3>1 DEF Write
    <3>. QED
      BY <2>1, <3>3, <3>4, <3>5 DEF EchoInv
  <2>. QED
    BY <2>3, <2>4, <2>5
<1>. QED
  BY <1>3, <1>4 DEF Match

(* The beginning and the end of a call, and of an answer.                  *)
LEMMA CallStep ==
    ASSUME ModemTypes, LineInv, EchoInv, BeginCall \/ EndCall \/ Answered
    PROVE  ModemTypes' /\ LineInv' /\ EchoInv'
<1>1. /\ UNCHANGED <<vars, matchVars, lineVars>>
      /\ call \in {"none", "next", "answer"} /\ call' \in {"none", "next"}
  BY DEF BeginCall, EndCall, Answered
<1>2. ModemTypes'
  BY <1>1 DEF ModemTypes, matchVars, lineVars
<1>3. LineInv'
  BY <1>1 DEF LineInv, Knows, RightAnswer, matchVars, lineVars
<1>4. mode = "locked" /\ call' # "none" => reader = "idle"
  BY DEF EchoInv, BeginCall, EndCall, Answered
<1>5. EchoInv'
  BY <1>1, <1>4 DEF EchoInv, vars, readerVars
<1>. QED
  BY <1>2, <1>3, <1>5

(* The copying of a write, and the reads, are nothing to the matcher.      *)
LEMMA CopyStep ==
    ASSUME IInv, ModemTypes, LineInv, EchoInv, UNCHANGED modemVars,
           CopyIn \/ AdvanceTail \/ WrapTail \/ (MayRead /\ Consumer)
    PROVE  ModemTypes' /\ LineInv' /\ EchoInv'
<1>1. ModemTypes' /\ LineInv'
  BY DEF ModemTypes, LineInv, Knows, RightAnswer, modemVars, matchVars, lineVars
<1>2. CASE CopyIn \/ AdvanceTail \/ WrapTail
  <2>1. writer # "idle" /\ mode' = mode /\ reader' = reader
    BY <1>2 DEF CopyIn, AdvanceTail, WrapTail, readerVars
  <2>. QED
    BY <1>1, <2>1 DEF EchoInv, modemVars, lineVars
<1>3. CASE MayRead /\ Consumer
  <2>1. mode' = mode /\ (mode = "locked" => call = "none")
    BY <1>3 DEF MayRead, Consumer, Read, CopyOut, AdvanceHead, WrapHead
  <2>. QED
    BY <1>1, <2>1 DEF EchoInv, modemVars
<1>. QED
  BY <1>2, <1>3

LEMMA ModemInvInit ==
    ASSUME "unlocked" \notin Modes, ModemInit
    PROVE  ModemInv
<1>1. IInv
  BY InitIInv DEF ModemInit
<1>2. ModemTypes
  <2>1. <<>> \in Seq(Characters)
    OBVIOUS
  <2>. QED
    BY <2>1 DEF ModemInit, ModemTypes
<1>3. LineInv
  <2>1. /\ line = <<>> /\ CommandMatchState = "IDLE" /\ call = "none" /\ answer = "none"
        /\ <<>> \in Seq(Characters) /\ Len(<<>>) = 0
    BY DEF ModemInit
  <2>2. RunsStart(line) /\ ~MatchesIn(line, 0) /\ ~Ended(line)
    BY <2>1 DEF RunsStart, MatchesIn, Ended
  <2>. QED
    BY <2>1, <2>2 DEF LineInv, Knows
<1>4. EchoInv
  BY DEF ModemInit, EchoInv
<1>. QED
  BY <1>1, <1>2, <1>3, <1>4 DEF ModemInv

LEMMA ModemInvNext == ModemInv /\ [ModemNext]_<<vars, modemVars>> => ModemInv'
<1>. SUFFICES ASSUME ModemInv, [ModemNext]_<<vars, modemVars>>
              PROVE  ModemInv'
  OBVIOUS
<1>1. IInv'
  BY RingOrNothing, NextIInv DEF ModemInv
<1>2. CASE UNCHANGED <<vars, modemVars>>
  BY <1>1, <1>2 DEF ModemInv, ModemTypes, LineInv, Knows, RightAnswer, EchoInv, Used, vars,
       writerVars, readerVars, modemVars, matchVars, lineVars
<1>3. CASE ModemNext
  BY <1>1, <1>3, NextCharStep, MatchStep, CallStep, CopyStep
  DEF ModemInv, ModemNext, QueueProcessWriteBytes, Reads
<1>. QED
  BY <1>2, <1>3

(* What the matcher knows, and what is in the buffer during a call, holds  *)
(* for all lines, buffers and answers.                                     *)
THEOREM ModemInductive ==
  ASSUME "unlocked" \notin Modes
  PROVE  ModemSpec => []ModemInv
<1>1. ModemInit => ModemInv
  BY ModemInvInit
<1>. QED
  BY <1>1, ModemInvNext, PTL DEF ModemSpec

(* What the matcher takes for a command is one, and it passes over none    *)
(* but those that follow another A.                                        *)
LEMMA MatchesCommands ==
    ASSUME NEW l \in Seq(Characters), NEW i \in 1 .. Len(l)
    PROVE  /\ MatchesAt(l, i) => BeginsAt(l, i)
           /\ Clear(l, i) => MatchesAt(l, i)
<1>1. MatchesAt(l, i) => BeginsAt(l, i)
  BY DEF MatchesAt, BeginsAt, OddRun, Run
<1>2. ASSUME Clear(l, i)
      PROVE  MatchesAt(l, i)
  <2>1. Run(l, i, i) /\ (i - i) % 2 = 0
    BY <1>2 DEF Clear, BeginsAt, Run
  <2>. QED
    BY <1>2, <2>1 DEF Clear, BeginsAt, MatchesAt, OddRun
<1>. QED
  BY <1>1, <1>2

(* The answer to a line that has ended is one that the comment allows.     *)
LEMMA RightAnswerIsRight ==
    ASSUME NEW l \in Seq(Characters)
    PROVE  /\ RightAnswer(l) # "none" => HasCommand(l)
           /\ RightAnswer(l) = "CONNECT" =>
                 \E i \in 1 .. Len(l) : BeginsAt(l, i) /\ ConnectsAt(l, i)
           /\ \A i \in 1 .. Len(l) :
                 /\ Clear(l, i) => RightAnswer(l) # "none"
                 /\ ClearFirst(l, i) =>
                       RightAnswer(l) = IF ConnectsAt(l, i) THEN "CONNECT" ELSE "OK"
<1>1. RightAnswer(l) # "none" => HasCommand(l)
  BY MatchesCommands DEF RightAnswer, HasMatch, HasCommand
<1>2. ASSUME RightAnswer(l) = "CONNECT"
      PROVE  \E i \in 1 .. Len(l) : BeginsAt(l, i) /\ ConnectsAt(l, i)
  <2>1. PICK i \in 1 .. Len(l) - 2 : MatchesAt(l, i) /\ l[i + 2] \in {"A", "D"}
    BY <1>2 DEF RightAnswer, MatchConnects
  <2>2. i \in 1 .. Len(l) /\ i + 1 < Len(l)
    BY <2>1
  <2>. QED
    BY <2>1, <2>2, MatchesCommands DEF ConnectsAt
<1>3. ASSUME NEW i \in 1 .. Len(l), Clear(l, i)
      PROVE  RightAnswer(l) # "none"
  BY <1>3, MatchesCommands DEF RightAnswer, HasMatch
<1>4. ASSUME NEW i \in 1 .. Len(l), ClearFirst(l, i)
      PROVE  RightAnswer(l) = IF ConnectsAt(l, i) THEN "CONNECT" ELSE "OK"
  <2>1. HasMatch(l) /\ i \in 1 .. Len(l) - 1
    BY <1>4, MatchesCommands DEF ClearFirst, Clear, BeginsAt, HasMatch
  <2>2. First(l, i)
    <3>1. MatchesAt(l, i)
      BY <1>4, MatchesCommands DEF ClearFirst
    <3>2. \A j \in 1 .. i - 1 : j \in 1 .. Len(l) /\ ~BeginsAt(l, j)
      BY <1>4 DEF ClearFirst
    <3>. QED
      BY <3>1, <3>2, MatchesCommands DEF First
  <2>3. MatchConnects(l) <=> ConnectsAt(l, i)
    BY <2>1, <2>2, FirstDecides DEF ConnectsAt
  <2>. QED
    BY <2>1, <2>3 DEF RightAnswer
<1>. QED
  BY <1>1, <1>2, <1>3, <1>4

(* A line of any length is answered at its carriage return only if AT is   *)
(* in it, and with CONNECT only if ATA or ATD is; an AT that follows no    *)
(* other A is answered, and what follows decides if it is the first of all.*)
THEOREM CommandsAreAnswered ==
  ASSUME "unlocked" \notin Modes
  PROVE  ModemSpec => []AnswersCommands
<1>1. ASSUME ModemInv
      PROVE  AnswersCommands
  <2>1. CASE call \in {"none", "next"} /\ Ended(line)
    <3>1. line \in Seq(Characters) /\ answer = RightAnswer(line)
      BY <1>1, <2>1 DEF ModemInv, ModemTypes, LineInv
    <3>. QED
      BY <2>1, <3>1, RightAnswerIsRight DEF AnswersCommands
  <2>2. CASE call \in {"none", "next"} /\ ~Ended(line)
    BY <1>1, <2>2 DEF ModemInv, LineInv, AnswersCommands
  <2>. QED
    BY <2>1, <2>2 DEF AnswersCommands
<1>2. ModemInv => AnswersCommands
  BY <1>1
<1>. QED
  BY <1>2, ModemInductive, PTL

(* Under the device lock no part of an answer is put into a buffer that    *)
(* has dropped the echo of the carriage return before it.                  *)
THEOREM EchoComesFirst ==
  ASSUME "unlocked" \notin Modes
  PROVE  ModemSpec => []AnswerFollowsItsEcho
<1>1. ModemInv => AnswerFollowsItsEcho
  <2>. SUFFICES ASSUME ModemInv, mode = "locked", call = "answer", toWrite > 0, ~echoed
                PROVE  FALSE
    BY DEF AnswerFollowsItsEcho
  <2>. QED
    BY DEF ModemInv, EchoInv
<1>. QED
  BY <1>1, ModemInductive, PTL

=============================================================================
