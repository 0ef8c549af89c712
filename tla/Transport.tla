------------------------------- MODULE Transport -------------------------------
(***************************************************************************)
(* The receiving half of class Transport.  A reply is read off a TCP stream,  *)
(* which has no boundaries of its own and arrives in pieces: a line by        *)
(* readline(), and by readexactly() if the line is the length of a long       *)
(* message.                                                                *)
(*                                                                         *)
(* The stream is a sequence of units: the line feed, words, and numbers,     *)
(* each of which is a whole run of digits.  Every unit counts for one byte.  *)
(***************************************************************************)
EXTENDS Naturals, Sequences

CONSTANTS
    OK, ERROR, FINISHED, FAILED, NOTE,   \* the words that name a ReplyKind
    NL,           \* the line feed
    Words,        \* the units that are neither digits nor the line feed
    Texts,        \* the messages the server may send
    ShortLimit,   \* up to this length the server sends a message as a line
    MaxBody,      \* _MAX_BODY_BYTES
    MaxLine,      \* the limit of the StreamReader, 64 KiB
    LinkFaults    \* how the connection may go down

ReplyKind == {OK, ERROR, FINISHED, FAILED, NOTE}
Units == Nat \cup Words \cup {NL}

ASSUME UnitsAssumption ==
    /\ ReplyKind \subseteq Words
    /\ NL \notin Nat \cup Words
    /\ \A w \in Words : w \notin Nat

\* A message begins with a word and does not end with a line feed.
ASSUME TextsAssumption ==
    \A t \in Texts :
        t \in Seq(Units) /\ t # << >> /\ t[1] \in Words /\ t[Len(t)] # NL
ASSUME LimitsAssumption == ShortLimit \in Nat /\ MaxBody \in Nat /\ MaxLine \in Nat \ {0}
ASSUME LinkAssumption == LinkFaults \subseteq {"ended", "reset"}

VARIABLES
    stream,     \* what the server has written, from the beginning
    arrived,    \* how much of it has reached the buffer of the StreamReader
    at,         \* how much of it has been consumed
    link,       \* "up", "ended" after what has arrived, or "reset"
    reading,    \* where receive() is suspended: "line", "body", or "no"
    length,     \* the length of the body it reads
    outcome,    \* what the last receive() returned or raised
    sent,       \* the messages the server has written
    ends,       \* where each of them ends in the stream
    taken,      \* how many of them receive() has returned
    intact      \* no message was lost, refused half-way or cut

wireVars == <<stream, arrived, link, sent, ends>>
readVars == <<at, reading, length, outcome, taken, intact>>
transportVars == <<wireVars, readVars>>

-----------------------------------------------------------------------------
(* Messages *)

\* How a message travels: a short one as a line, another one behind its length,
\* which may count a line feed after the text.
Short(t) == Append(t, NL)
Long(body) == <<Len(body), NL>> \o body
IsShort(t) == Len(t) <= ShortLimit /\ \A i \in DOMAIN t : t[i] # NL
Frames(t) == IF IsShort(t) THEN {Short(t)} ELSE {Long(t), Long(Short(t))}

\* What may be refused: a line over the limit of lines, a body that is over that of
\* bodies with the line feed that its length may count.
OverLimit(t) == IF IsShort(t) THEN Len(t) > MaxLine ELSE Len(t) + 1 > MaxBody

Outcome(is, text) == [is |-> is, text |-> text]
Nothing == Outcome("nothing", << >>)
Raised == Outcome("raised", << >>)

\* Without the line feeds at its end.
Stripped(t) ==
    SubSeq(t, 1, CHOOSE n \in 0..Len(t) :
                    /\ \A i \in n + 1..Len(t) : t[i] = NL
                    /\ n = 0 \/ t[n] # NL)

\* A text that is empty or begins with no reply kind is refused.
Parsed(t) ==
    LET s == Stripped(t) IN
    IF s # << >> /\ s[1] \in ReplyKind THEN Outcome("reply", s) ELSE Raised

\* A line of digits only is the length of a body.
IsHeader(line) == Len(line) = 1 /\ line[1] \in Nat

-----------------------------------------------------------------------------
TransportInit ==
    /\ stream = << >> /\ arrived = 0 /\ link = "up" /\ sent = << >> /\ ends = << >>
    /\ at = 0 /\ reading = "no" /\ length = 0 /\ outcome = Nothing
    /\ taken = 0 /\ intact = TRUE

\* The server writes a message.
Sends(t) ==
    /\ link = "up"
    /\ \E f \in Frames(t) :
        /\ stream' = stream \o f
        /\ ends' = Append(ends, Len(stream) + Len(f))
    /\ sent' = Append(sent, t)
    /\ UNCHANGED <<arrived, link, readVars>>

\* Some of what is under way reaches the buffer, in pieces of any size.
Arrives ==
    /\ link = "up"
    /\ \E n \in arrived + 1..Len(stream) : arrived' = n
    /\ UNCHANGED <<stream, link, sent, ends, readVars>>

\* The server closes the connection, or it breaks; what has not arrived is lost.
GoesDown ==
    /\ link = "up"
    /\ \E fault \in LinkFaults : link' = fault
    /\ UNCHANGED <<stream, arrived, sent, ends, readVars>>

-----------------------------------------------------------------------------
(* _read_one *)

StartsReceive ==
    /\ reading = "no"
    /\ reading' = "line"
    /\ UNCHANGED <<wireVars, at, length, outcome, taken, intact>>

\* Where the line feeds in the buffer are, and the first of them.
LineFeeds == {p \in at + 1..arrived : stream[p] = NL}
EndsLine(p) == p \in LineFeeds /\ \A q \in LineFeeds : p <= q
LineTo(p) == SubSeq(stream, at + 1, p - 1)
FitsLine(p) == p - at - 1 <= MaxLine

\* receive() returns or raises with the whole of a message consumed.
Takes(result) ==
    /\ reading' = "no" /\ outcome' = result
    /\ taken' = IF intact THEN taken + 1 ELSE taken
    /\ UNCHANGED <<wireVars, length, intact>>

\* receive() returns or raises out of step with the messages.
Breaks(result) ==
    /\ reading' = "no" /\ outcome' = result
    /\ intact' = FALSE
    /\ UNCHANGED <<wireVars, length, taken>>

\* Mutant: the limit of a line is applied to bodies.
AcceptsAsLine(n) == n <= MaxLine

Accepts(n) == n <= MaxBody

ReadsHeader ==
    /\ reading = "line" /\ link # "reset"
    /\ \E p \in LineFeeds :
        /\ EndsLine(p) /\ FitsLine(p) /\ IsHeader(LineTo(p))
        /\ Accepts(LineTo(p)[1])
        /\ at' = p
        /\ length' = LineTo(p)[1]
    /\ reading' = "body"
    /\ UNCHANGED <<wireVars, outcome, taken, intact>>

\* A body over the limit is refused with its header consumed and itself unread.
RefusesBody ==
    /\ reading = "line" /\ link # "reset"
    /\ \E p \in LineFeeds :
        /\ EndsLine(p) /\ FitsLine(p) /\ IsHeader(LineTo(p))
        /\ ~Accepts(LineTo(p)[1])
        /\ at' = p
    /\ Breaks(Raised)

ReadsLine ==
    /\ reading = "line" /\ link # "reset"
    /\ \E p \in LineFeeds :
        /\ EndsLine(p) /\ FitsLine(p) /\ ~IsHeader(LineTo(p))
        /\ at' = p
        /\ Takes(Parsed(LineTo(p)))

\* readline() gives up on a line over its limit, and clears it or the buffer.
OverrunsLine ==
    /\ reading = "line" /\ link # "reset"
    /\ \/ \E p \in LineFeeds : EndsLine(p) /\ ~FitsLine(p) /\ at' = p
       \/ LineFeeds = {} /\ arrived - at > MaxLine /\ at' = arrived
    /\ Breaks(Raised)

\* Mutant: a part of the body is taken for the body.
BodyBegins == arrived > at

\* Mutant: the line feed that may follow a body is waited for.
BodyAndLineFeedArrived == arrived - at > length

BodyArrived == arrived - at >= length

ReadsBody ==
    /\ reading = "body" /\ link # "reset" /\ BodyArrived
    /\ at' = at + length
    /\ Takes(Parsed(SubSeq(stream, at + 1, at + length)))

\* At the end of the stream readline() returns what there is, which is taken for a
\* line; nothing at all, a length or a body cut short end in an exception.
ReachesEnd ==
    /\ link = "ended"
    /\ \/ /\ reading = "line" /\ LineFeeds = {} /\ arrived - at <= MaxLine
          /\ LET rest == SubSeq(stream, at + 1, arrived) IN
             Breaks(IF rest = << >> \/ IsHeader(rest) THEN Raised ELSE Parsed(rest))
       \/ /\ reading = "body" /\ ~BodyArrived
          /\ Breaks(Raised)
    /\ at' = arrived

\* A connection that was reset loses what the buffer holds.
MeetsReset ==
    /\ link = "reset" /\ reading # "no"
    /\ Breaks(Raised)
    /\ UNCHANGED at

\* The task that awaits receive() is cancelled: a header it has read is gone.
ReceiveCancelled ==
    /\ reading # "no"
    /\ reading' = "no"
    /\ intact' = (intact /\ reading = "line")
    /\ UNCHANGED <<wireVars, at, length, outcome, taken>>

Receives ==
    RefusesBody \/ ReadsLine \/ OverrunsLine \/ ReadsBody \/ ReachesEnd \/ MeetsReset

TransportNext ==
    \/ \E t \in Texts : Sends(t)
    \/ Arrives \/ GoesDown
    \/ StartsReceive \/ ReadsHeader \/ Receives \/ ReceiveCancelled

TransportSpec == TransportInit /\ [][TransportNext]_transportVars

-----------------------------------------------------------------------------
(* Properties *)

\* The type of every variable; what is consumed has arrived, what has arrived was
\* written.
TransportTypeOK ==
    /\ stream \in Seq(Units)
    /\ arrived \in 0..Len(stream) /\ at \in 0..arrived
    /\ link \in {"up"} \cup LinkFaults
    /\ reading \in {"no", "line", "body"} /\ length \in Nat
    /\ outcome \in [is : {"nothing", "raised", "reply"}, text : Seq(Units)]
    /\ sent \in Seq(Texts) /\ ends \in Seq(Nat) /\ Len(ends) = Len(sent)
    /\ taken \in 0..Len(sent) /\ intact \in BOOLEAN

\* receive() is a queue of messages: in whatever pieces the stream arrives, each
\* message comes out once, in order, as what it says, and nothing else does, until
\* the connection is lost, a message is over the limits or receive() is cancelled.
Messages == INSTANCE MessageStream WITH
    queue <- SubSeq(sent, taken + 1, Len(sent)), up <- link = "up"

ImplementsMessageStream == Messages!Spec

\* No message waits for the bytes of the next one: once all of its own have arrived,
\* the read that receive() is suspended in can go on.
Prompt ==
    intact /\ taken < Len(sent) /\ ends[taken + 1] <= arrived =>
        /\ reading = "line" => LineFeeds # {}
        /\ reading = "body" => BodyArrived

=============================================================================
