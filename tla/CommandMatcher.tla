--------------------------- MODULE CommandMatcher ---------------------------
(***************************************************************************)
(* The modem of QueueProcessWriteBytes, the producer of the ring buffer:   *)
(* it echoes the characters of a write into the buffer that reads are      *)
(* served from, looks for the commands AT, ATA and ATD among them, and     *)
(* answers a command at its carriage return.  The buffer drops what it has *)
(* no room for and reports success, so that echo or answer may be cut off. *)
(*                                                                         *)
(* The letters stand for both their cases.  A call is as long as one likes,*)
(* since nothing depends on where a write ends.                            *)
(***************************************************************************)
EXTENDS RingBuffer, Sequences

CONSTANTS
    Characters,     \* "A", "T", "D" and "CR" are those that matter
    ConnectLength,  \* of connectString
    OkLength,       \* of okString
    MaxLine         \* bound: the characters up to a carriage return

ASSUME CommandMatcherAssumption ==
    /\ {1, ConnectLength, OkLength} \subseteq 1 .. MaxChunk
    /\ MaxLine \in Nat

VARIABLES
    CommandMatchState,
    ConnectCommand,
    IgnoreNextChar,
    CurrentlyConnected,
    call,     \* "none", or where QueueProcessWriteBytes is
    echoed,   \* history: the last character was put into the buffer
    line,     \* history: the characters since the last carriage return
    answer    \* history: what the line was answered

matchVars == <<CommandMatchState, ConnectCommand, IgnoreNextChar>>
lineVars  == <<echoed, line, answer>>
modemVars == <<matchVars, CurrentlyConnected, call, lineVars>>

ModemInit ==
    /\ Init
    /\ CommandMatchState = "IDLE"
    /\ ConnectCommand = FALSE /\ IgnoreNextChar = FALSE
    /\ CurrentlyConnected = FALSE
    /\ call = "none"
    /\ echoed = TRUE /\ line = <<>> /\ answer = "none"

currentCharacter == line[Len(line)]

Ended(l) == l # <<>> /\ l[Len(l)] = "CR"

----------------------------------------------------------------------------

BeginCall ==
    /\ call = "none"
    /\ mode = "locked" => reader = "idle"
    /\ call' = "next"
    /\ UNCHANGED <<vars, matchVars, CurrentlyConnected, lineVars>>

(* Length = 0.                                                             *)
EndCall ==
    /\ call = "next"
    /\ call' = "none"
    /\ UNCHANGED <<vars, matchVars, CurrentlyConnected, lineVars>>

(* The next character that is not NUL goes into the buffer.                *)
NextChar(c) ==
    /\ call = "next"
    /\ LET before == IF Ended(line) THEN <<>> ELSE line IN
       /\ Len(before) < MaxLine
       /\ line' = Append(before, c)
    /\ Write(1)
    /\ echoed' = (toWrite' = 1)
    /\ answer' = "none"
    /\ call' = "match"
    /\ UNCHANGED <<matchVars, CurrentlyConnected>>

(* COMMAND_MATCH_STATE_IDLE and _GOT_A.                                    *)
MatchIdle ==
    /\ CommandMatchState = "IDLE"
    /\ IF currentCharacter = "A"
       THEN /\ CommandMatchState' = "GOT_A"
            /\ ConnectCommand' = FALSE /\ IgnoreNextChar' = FALSE
       ELSE UNCHANGED matchVars
    /\ call' = "next"
    /\ UNCHANGED <<vars, CurrentlyConnected, lineVars>>

MatchGotA ==
    /\ CommandMatchState = "GOT_A"
    /\ CommandMatchState' = IF currentCharacter = "T" THEN "GOT_T" ELSE "IDLE"
    /\ call' = "next"
    /\ UNCHANGED <<vars, ConnectCommand, IgnoreNextChar, CurrentlyConnected, lineVars>>

(* mutant: any later letter makes it a connect command.                    *)
AnyLetterConnects == ConnectCommand \/ currentCharacter \in {"A", "D"}

Connects == ConnectCommand \/ (~IgnoreNextChar /\ currentCharacter \in {"A", "D"})

(* COMMAND_MATCH_STATE_GOT_T: of the characters after AT the first decides,*)
(* and a carriage return is answered.                                      *)
MatchGotT ==
    /\ CommandMatchState = "GOT_T"
    /\ ConnectCommand' = Connects
    /\ IgnoreNextChar' = TRUE
    /\ IF currentCharacter = "CR"
       THEN /\ CommandMatchState' = "IDLE"
            /\ Write(IF Connects THEN ConnectLength ELSE OkLength)
            /\ answer' = IF Connects THEN "CONNECT" ELSE "OK"
            /\ call' = "answer"
       ELSE /\ call' = "next"
            /\ UNCHANGED <<vars, CommandMatchState, answer>>
    /\ UNCHANGED <<CurrentlyConnected, echoed, line>>

Match ==
    /\ call = "match" /\ writer = "idle"
    /\ MatchIdle \/ MatchGotA \/ MatchGotT

(* The end of the answer, whatever part of it there was room for.          *)
Answered ==
    /\ call = "answer" /\ writer = "idle"
    /\ CurrentlyConnected' = (CurrentlyConnected \/ answer = "CONNECT")
    /\ call' = "next"
    /\ UNCHANGED <<vars, matchVars, lineVars>>

----------------------------------------------------------------------------

QueueProcessWriteBytes ==
    \/ BeginCall \/ EndCall \/ Match \/ Answered
    \/ \E c \in Characters : NextChar(c)
    \/ (CopyIn \/ AdvanceTail \/ WrapTail) /\ UNCHANGED modemVars

(* mutant: the lock is only held while a character is written.             *)
MayReadBetween == TRUE

MayRead == mode = "locked" => call = "none"

Reads ==
    /\ MayRead
    /\ Consumer
    /\ UNCHANGED modemVars

ModemNext == QueueProcessWriteBytes \/ Reads

ModemSpec == ModemInit /\ [][ModemNext]_<<vars, modemVars>>

----------------------------------------------------------------------------

(* The characters AT at place i of the line, and ATA or ATD.               *)
BeginsAt(l, i) == i < Len(l) /\ l[i] = "A" /\ l[i + 1] = "T"
ConnectsAt(l, i) == i + 1 < Len(l) /\ l[i + 2] \in {"A", "D"}

HasCommand(l) == \E i \in 1 .. Len(l) : BeginsAt(l, i)

(* An AT without an A right before it, and one that is the first AT of all.*)
Clear(l, i)      == BeginsAt(l, i) /\ (i = 1 \/ l[i - 1] # "A")
ClearFirst(l, i) == Clear(l, i) /\ \A j \in 1 .. i - 1 : ~BeginsAt(l, j)

(* "looks for the sequences AT - ok, ATA - CONNECT, ATD<number> - CONNECT":*)
(* only the end of a line with AT in it is answered, and with CONNECT only *)
(* if ATA or ATD is in it; an AT that does not follow another A is         *)
(* answered, and if it is the line's first one what follows it decides     *)
(* which answer that is, whatever the buffer has dropped and however the   *)
(* line was split into writes.  Not every AT is answered, although the     *)
(* comment says nothing of an A before it: the second A of AAT ends the    *)
(* attempt of the first and begins none.                                   *)
AnswersCommands ==
    call \in {"none", "next"} =>
       /\ answer # "none" => Ended(line) /\ HasCommand(line)
       /\ answer = "CONNECT" =>
             \E i \in 1 .. Len(line) : BeginsAt(line, i) /\ ConnectsAt(line, i)
       /\ Ended(line) => \A i \in 1 .. Len(line) :
             /\ Clear(line, i) => answer # "none"
             /\ ClearFirst(line, i) =>
                   answer = IF ConnectsAt(line, i) THEN "CONNECT" ELSE "OK"

(* Under the device lock the reader of an answer has got the echo of its   *)
(* carriage return before: whoever frees room comes before or after both.  *)
AnswerFollowsItsEcho ==
    mode = "locked" /\ call = "answer" /\ toWrite > 0 => echoed

============================================================================
