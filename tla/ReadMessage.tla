----------------------------- MODULE ReadMessage -----------------------------
(***************************************************************************)
(* ReadMessage() of DotnetServer and DotnetClient: it reads from the TLS   *)
(* stream until what it decoded holds the marker <EOF>, or the stream ends.*)
(*                                                                         *)
(* The text is a sequence of UTF-8 bytes.  "a" is a character of one byte  *)
(* and "nul" one that the comparison of strings ignores.  A character of   *)
(* several bytes is a "lead" byte, any number of "mid" bytes and a last    *)
(* one, which tells what it is: one that is ignored, a combining one or    *)
(* any other.  "open" and "shut" are the two halves of the marker,         *)
(* wherever a read may cut it.  What is decoded is kept byte by byte: what *)
(* the decoder put out at each, a character or, in the middle of one,      *)
(* nothing.  "?" is the replacement character U+FFFD and "" nothing.       *)
(***************************************************************************)
EXTENDS Integers, Sequences

CONSTANTS
    Messages,  \* what the sender may send
    Capacity   \* buffer.Length

LastBytes == {"last", "ignored", "combining"}
Bytes == {"a", "nul", "open", "shut", "lead", "mid"} \union LastBytes
Characters == {"a", "open", "shut", "wide", "ignored", "combining", "?", ""}

(* The bytes that go on with a character.                                  *)
Rest == {"mid"} \union LastBytes

(* Every character of several bytes is whole.                              *)
Utf8(text) ==
    \A i \in DOMAIN text :
        /\ text[i] \in {"lead", "mid"}
              => i < Len(text) /\ text[i + 1] \in Rest
        /\ text[i] \in Rest => i > 1 /\ text[i - 1] \in {"lead", "mid"}

ASSUME ReadMessageAssumption ==
    /\ Messages \subseteq Seq(Bytes) /\ \A m \in Messages : Utf8(m)
    /\ Capacity \in Nat \ {0}

VARIABLES
    reader,      \* the program that reads: "server" or "client"
    message,     \* what the sender sends
    sent,        \* bytes of it that the stream can deliver
    end,         \* the sender's end: "open", "closed" or "broken"
    read,        \* bytes delivered by sslStream.Read()
    messageData, \* what was decoded, byte by byte
    at           \* "reading", "returned" or "threw"

sender == <<reader, message, sent, end>>
vars == <<sender, read, messageData, at>>

(* What the culture's comparison of strings skips.                         *)
Ignorable == {"", "ignored"}

(* Does a combining character join the one that ends at j?                 *)
Hidden(chars, j) ==
    \E m \in DOMAIN chars :
        /\ j < m /\ chars[m] = "combining"
        /\ \A k \in j + 1 .. m - 1 : chars[k] \in Ignorable

(* IndexOf("<EOF>") # -1.  The search follows the culture: it skips what   *)
(* is ignorable, and does not match a part of a combined character.        *)
HasMarker(chars) ==
    \E i, j \in DOMAIN chars :
        /\ i < j /\ chars[i] = "open" /\ chars[j] = "shut"
        /\ \A k \in i + 1 .. j - 1 : chars[k] \in Ignorable
        /\ ~Hidden(chars, j)

(* The text holds the marker's bytes.                                      *)
Marked(text) ==
    \E i \in DOMAIN text : i < Len(text) /\ text[i] = "open" /\ text[i + 1] = "shut"

TypeOK ==
    /\ reader \in {"server", "client"}
    /\ message \in Messages
    /\ sent \in 0 .. Len(message) /\ read \in 0 .. sent
    /\ end \in {"open", "closed", "broken"}
    /\ messageData \in Seq(Characters)
    /\ at \in {"reading", "returned", "threw"}

Init ==
    /\ reader \in {"server", "client"}
    /\ message \in Messages
    /\ sent = 0 /\ end = "open"
    /\ read = 0 /\ messageData = <<>> /\ at = "reading"

-----------------------------------------------------------------------------
(* The decoder.                                                            *)

(* A character is put out at its last byte.                                *)
Whole(byte) ==
    CASE byte \in {"lead", "mid"} -> ""
      [] byte = "last"            -> "wide"
      [] byte = "nul"             -> "ignored"
      [] OTHER                    -> byte

(* Nothing ignorable comes before, and nothing combining joins, a          *)
(* character that could end the marker.                                    *)
Plain(text) ==
    LET chars == [i \in 1 .. Len(text) |-> Whole(text[i])]
    IN  \A i \in 1 .. Len(text) :
            text[i] = "shut" =>
                ~Hidden(chars, i) /\ (i > 1 => chars[i - 1] # "ignored")

(* Does the character that byte i belongs to start in these bytes?         *)
LeadIn(bytes, i) ==
    \E j \in 1 .. i - 1 :
        bytes[j] = "lead" /\ \A k \in j + 1 .. i - 1 : bytes[k] = "mid"

-----------------------------------------------------------------------------
(* Mutants: plausible bugs, one for each property to catch.                *)

(* Mutant: the marker is looked for in what this read decoded.             *)
FinishedByLastRead(chars, count) ==
    count = 0 \/ HasMarker(SubSeq(chars, Len(messageData) + 1, Len(chars)))

(* Mutant: the loop goes on when the stream has ended.                     *)
FinishedByMarker(chars, count) == HasMarker(chars)

(* Mutant: what Read() returned is ignored, and all of the buffer decoded. *)
ReadPastEnd ==
    /\ at = "reading" /\ read < sent
    /\ read' = read + Capacity
    /\ messageData' = messageData \o [i \in 1 .. Capacity |-> "a"]
    /\ UNCHANGED <<sender, at>>

-----------------------------------------------------------------------------

(* What the decoder puts out for byte i of a read.  It is a new decoder    *)
(* for each read, so the start of a character that the read before this    *)
(* one ended in is lost, and each byte of the rest is an invalid one.      *)
Decoded(bytes, i) ==
    IF bytes[i] \in Rest /\ ~LeadIn(bytes, i) THEN "?" ELSE Whole(bytes[i])

Decode(bytes) == [i \in 1 .. Len(bytes) |-> Decoded(bytes, i)]

(* The loop ends with the marker or with an empty read.                    *)
Finished(chars, count) == HasMarker(chars) \/ count = 0

(* One turn of the loop, in which Read() delivers `count' bytes.           *)
Turn(count) ==
    LET chars == messageData \o Decode(SubSeq(message, read + 1, read + count))
    IN  /\ read' = read + count
        /\ messageData' = chars
        /\ at' = IF Finished(chars, count) THEN "returned" ELSE "reading"

ReadSome ==
    /\ at = "reading"
    /\ \E count \in 1 .. Capacity : read + count <= sent /\ Turn(count)
    /\ UNCHANGED sender

ReadEnd ==
    /\ at = "reading" /\ read = sent /\ end = "closed"
    /\ Turn(0)
    /\ UNCHANGED sender

(* An IOException leaves ReadMessage(): nothing came for the ReadTimeout,  *)
(* which only the server sets, or the connection broke, which may lose     *)
(* what was not read yet.                                                  *)
ReadThrows ==
    /\ at = "reading"
    /\ \/ reader = "server" /\ read = sent /\ end = "open"
       \/ end = "broken"
    /\ at' = "threw"
    /\ UNCHANGED <<sender, read, messageData>>

(* The sender writes the rest of the message in records of any size.       *)
SendSome ==
    /\ end = "open"
    /\ sent' \in sent + 1 .. Len(message)
    /\ UNCHANGED <<reader, message, end, read, messageData, at>>

(* It closes its end, when it is done or before, or the connection breaks. *)
SendEnd ==
    /\ end = "open" /\ end' \in {"closed", "broken"}
    /\ UNCHANGED <<reader, message, sent, read, messageData, at>>

Reader == ReadSome \/ ReadEnd \/ ReadThrows
Next == Reader \/ SendSome \/ SendEnd

Spec == Init /\ [][Next]_vars

(* The reader runs whenever Read() can return.  The sender may stop.       *)
FairSpec == Spec /\ WF_vars(Reader)

-----------------------------------------------------------------------------

(* The loop ends at the marker, however the reads cut it or the characters *)
(* around it, and only there or at the end of the stream: in a plain text  *)
(* the search that follows the culture finds the marker where it is, and a *)
(* character that is lost neither hides a marker nor makes one.            *)
EndsAtMarker ==
    Plain(message) =>
        LET marked == Marked(SubSeq(message, 1, read))
        IN  /\ at = "reading" => ~marked
            /\ at = "returned" => marked \/ (end = "closed" /\ read = sent)

(* ReadMessage() ends: the server's whatever the sender does, thanks to    *)
(* the timeout, the client's once the sender has ended or sent the marker  *)
(* of a plain text.                                                        *)
ReadMessageEnds ==
    (\/ reader = "server" \/ end # "open"
     \/ Plain(message) /\ Marked(SubSeq(message, 1, sent)))
        ~> at # "reading"

(* DotnetServer/Program.cs:110-111: the decoder is there for a character   *)
(* that spans two buffers, which it should therefore return.               *)
CharactersSurvive ==
    \A i \in DOMAIN messageData : messageData[i] = Whole(message[i])

=============================================================================
