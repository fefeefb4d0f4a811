-------------------------- MODULE JSONMessageQueue --------------------------
(***************************************************************************)
(* json-message-queue/index.js: the class under every peer that cuts the   *)
(* stream of a socket into JSON messages.  It does not parse: it trims     *)
(* what it has, looks for "}{", hands each piece to the decoder and keeps  *)
(* the undecodable piece for the next data event.                          *)
(*                                                                         *)
(* Text is a sequence of kinds of characters.  The two braces ("open" and  *)
(* "close"), a space and the rest ("x") are told apart; "lead" and "tail"  *)
(* are the two bytes of a character that is not ASCII, and "junk" is       *)
(* U+FFFD, which toString makes of half of one.                            *)
(***************************************************************************)
EXTENDS Naturals, Sequences, FiniteSets, SequencesExt

CONSTANTS Texts,       \* what JSON.stringify makes of the messages of the peer
          Separators,  \* what the peer may write between two messages
          SendBound    \* bound: how many messages the peer sends

Kinds == {"open", "close", "space", "x", "lead", "tail", "junk"}

ASSUME QueueAssumption ==
    /\ Texts \subseteq Seq(Kinds) /\ Separators \subseteq Seq({"space"})
    /\ SendBound \in Nat

VARIABLES sent,           \* the messages the peer has sent
          wire,           \* what has still to arrive
          last_message,
          message_queue,
          dequeued        \* every current_message so far

vars == <<sent, wire, last_message, message_queue, dequeued>>

TypeOK ==
    /\ sent \in Seq(Texts)
    /\ wire \in Seq(Kinds)
    /\ last_message \in Seq(Kinds)
    /\ message_queue \in Seq(Seq(Kinds))
    /\ dequeued \in Seq(Seq(Kinds))

\* Mutant: last_message starts undefined, and "+=" makes a word of that.
InitUndefined ==
    /\ sent = <<>> /\ wire = <<>> /\ message_queue = <<>> /\ dequeued = <<>>
    /\ last_message = <<"undefined">>

Init ==
    /\ sent = <<>>
    /\ wire = <<>>
    /\ last_message = <<>>
    /\ message_queue = <<>>
    /\ dequeued = <<>>

-----------------------------------------------------------------------------
(* data.toString(): half of a character at either end is not one.          *)
DataText(data) ==
    [i \in 1 .. Len(data) |->
        IF \/ data[i] = "lead" /\ i = Len(data)
           \/ data[i] = "tail" /\ i = 1
        THEN "junk" ELSE data[i]]

Trim(s) ==
    LET solid == {i \in 1 .. Len(s) : s[i] # "space"}
    IN  IF solid = {} THEN <<>> ELSE SubSeq(s, Min(solid), Max(solid))

(* The default decoder, JSON.parse: the text is one object, whose braces   *)
(* match and close only at its end.                                        *)
Depth(s, i) ==
    Cardinality({j \in 1 .. i : s[j] = "open"}) - Cardinality({j \in 1 .. i : s[j] = "close"})

Decodes(s) ==
    /\ s # <<>>
    /\ s[1] = "open"
    /\ Depth(s, Len(s)) = 0
    /\ \A i \in 1 .. Len(s) - 1 : Depth(s, i) > 0

(* A set of positions in ascending order.                                  *)
Ascending(S) ==
    CHOOSE f \in [1 .. Cardinality(S) -> S] :
        \A i, j \in 1 .. Cardinality(S) : i < j => f[i] < f[j]

(* The text is split where spaces or nothing stand between a closing and   *)
(* an opening brace, and each piece gets its braces back.                  *)
\* Mutant: only braces that touch are a boundary.
Touching(s, j, i) == j + 1 = i /\ s[j] = "close" /\ s[i] = "open"

Boundary(s, j, i) ==
    /\ s[j] = "close" /\ s[i] = "open"
    /\ \A k \in j + 1 .. i - 1 : s[k] = "space"

Pieces(s) ==
    LET opens == {i \in 1 .. Len(s) : \E j \in 1 .. i - 1 : Boundary(s, j, i)}
        closes == {j \in 1 .. Len(s) : \E i \in j + 1 .. Len(s) : Boundary(s, j, i)}
        starts == Ascending({1} \cup opens)
        ends == Ascending({Len(s)} \cup closes)
    IN  [k \in 1 .. Len(starts) |-> SubSeq(s, starts[k], ends[k])]

(* The pieces the decoder takes.                                           *)
Decoded(pieces) ==
    LET good == Ascending({k \in 1 .. Len(pieces) : Decodes(pieces[k])})
    IN  [i \in 1 .. Len(good) |-> pieces[good[i]]]

(* What is kept of the undecodable pieces: the last one, without the       *)
(* braces the split took from it but with one at its front.                *)
Rest(pieces) ==
    LET bad == {k \in 1 .. Len(pieces) : ~Decodes(pieces[k])}
        k == Max(bad)
        piece == pieces[k]
        rest == SubSeq(piece, IF k = 1 THEN 1 ELSE 2,
                       IF k = Len(pieces) THEN Len(piece) ELSE Len(piece) - 1)
    IN  IF bad = {} THEN <<>>
        ELSE IF IsPrefix(<<"open">>, rest) THEN rest ELSE <<"open">> \o rest

\* Mutant: last_message is not emptied first.
MessageCompleteKeeps(data) ==
    LET msg == Trim(last_message \o DataText(data))
    IN  /\ last_message' = msg
        /\ message_queue' = IF msg = <<>> THEN message_queue
                            ELSE message_queue \o Decoded(Pieces(msg))

(* add_data and message_complete on one data event.                        *)
MessageComplete(data) ==
    LET msg == Trim(last_message \o DataText(data))
    IN  IF msg = <<>>
        THEN last_message' = <<>> /\ UNCHANGED message_queue
        ELSE /\ last_message' = Rest(Pieces(msg))
             /\ message_queue' = message_queue \o Decoded(Pieces(msg))

(* The transport cuts the stream anywhere.                                 *)
Data ==
    /\ \E n \in 1 .. Len(wire) :
          /\ MessageComplete(SubSeq(wire, 1, n))
          /\ wire' = SubSeq(wire, n + 1, Len(wire))
    /\ UNCHANGED <<sent, dequeued>>

(* dequeue takes the oldest message.                                       *)
Dequeue ==
    /\ message_queue # <<>>
    /\ dequeued' = Append(dequeued, Head(message_queue))
    /\ message_queue' = Tail(message_queue)
    /\ UNCHANGED <<sent, wire, last_message>>

(* The peer writes the text of a message.                                  *)
Send ==
    /\ Len(sent) < SendBound
    /\ \E text \in Texts, sep \in Separators :
          /\ sent' = Append(sent, text)
          /\ wire' = wire \o text \o sep
    /\ UNCHANGED <<last_message, message_queue, dequeued>>

Next == Data \/ Dequeue \/ Send

Spec == Init /\ [][Next]_vars

-----------------------------------------------------------------------------
Framed == dequeued \o message_queue

(* However the transport cuts the stream, what message_complete enqueues   *)
(* are the messages of the peer: each once, in order, and unchanged        *)
(* (README.md line 1043: the stream is parsed "into strings encoding       *)
(* objects, a string per object").                                         *)
FramesAreMessages == IsPrefix(Framed, sent)

(* A message is enqueued with its last character, not with data that comes *)
(* later: last_message is a proper part of the next message, and when all  *)
(* has arrived nothing is left in it.                                      *)
NothingHeldBack ==
    /\ IF Len(Framed) < Len(sent)
       THEN IsStrictPrefix(last_message, sent[Len(Framed) + 1])
       ELSE last_message = <<>>
    /\ wire = <<>> => Len(Framed) = Len(sent)

(* What is asked of the texts for that: those of objects, without a space, *)
(* a character that is not ASCII or "}{" in a string.  JSON has no "{{" at *)
(* the start of a text.  Others the code does change (README, section 3).  *)
PlainTexts ==
    \A t \in Texts :
        /\ Decodes(t) /\ t[2] # "open"
        /\ t \in Seq(Kinds \ {"space", "lead", "tail"})
        /\ \A i \in 1 .. Len(t) - 1 : ~(t[i] = "close" /\ t[i + 1] = "open")
=============================================================================
