-------------------------- MODULE ReadMessage_proofs --------------------------
(***************************************************************************)
(* Proofs about ReadMessage(), for every text, every size of the buffer    *)
(* and every way the reads cut the text.                                   *)
(***************************************************************************)
EXTENDS ReadMessage, SequenceTheorems, TLAPS

(* What byte b of the text has become.                                     *)
InPlace(c, b) == c = Whole(b) \/ (c = "?" /\ b \in Rest)

(* Each character of what was read is in its place, once.                  *)
CharactersInPlace ==
    /\ Len(messageData) = read
    /\ \A i \in 1 .. read : InPlace(messageData[i], message[i])

LEMMA InPlaceKinds ==
    ASSUME NEW b \in Bytes, NEW c, InPlace(c, b)
    PROVE  /\ c \in Characters
           /\ (c = "open" <=> b = "open") /\ (c = "shut" <=> b = "shut")
           /\ c = "" => b \in {"lead", "mid"}
           /\ c \in Ignorable \union {"combining"} => c = Whole(b)
BY DEF InPlace, Whole, Bytes, LastBytes, Rest, Characters, Ignorable

(* One read is decoded byte by byte.                                       *)
LEMMA DecodeInPlace ==
    ASSUME NEW bytes \in Seq(Bytes)
    PROVE  /\ Decode(bytes) \in Seq(Characters) /\ Len(Decode(bytes)) = Len(bytes)
           /\ \A i \in 1 .. Len(bytes) : InPlace(Decode(bytes)[i], bytes[i])
<1>1. Len(bytes) \in Nat /\ \A i \in 1 .. Len(bytes) : bytes[i] \in Bytes
  BY LenProperties, ElementOfSeq
<1>2. \A i \in 1 .. Len(bytes) : InPlace(Decoded(bytes, i), bytes[i])
  BY DEF Decoded, InPlace
<1>3. \A i \in 1 .. Len(bytes) : Decoded(bytes, i) \in Characters
  BY <1>1, <1>2, InPlaceKinds
<1> QED BY <1>1, <1>2, <1>3 DEF Decode

(* A lost character neither hides a marker nor makes one: the search finds *)
(* a marker in what is decoded from a part of a plain text just when that  *)
(* part holds its bytes.                                                   *)
LEMMA SameMarker ==
    ASSUME NEW text \in Seq(Bytes), Utf8(text), Plain(text), NEW n \in 0 .. Len(text),
           NEW chars \in Seq(Characters), Len(chars) = n,
           \A i \in 1 .. n : InPlace(chars[i], text[i])
    PROVE  HasMarker(chars) <=> Marked(SubSeq(text, 1, n))
<1> DEFINE part == SubSeq(text, 1, n)
           whole == [i \in 1 .. Len(text) |-> Whole(text[i])]
<1>1. /\ n \in Nat /\ Len(text) \in Nat /\ n <= Len(text) /\ Len(part) = n
      /\ DOMAIN chars = 1 .. n /\ DOMAIN part = 1 .. n
      /\ \A i \in 1 .. n : part[i] = text[i] /\ text[i] \in Bytes
  <2>1. Len(text) \in Nat /\ \A i \in 1 .. Len(text) : text[i] \in Bytes
    BY LenProperties, ElementOfSeq
  <2>2. /\ n \in Nat /\ n <= Len(text) /\ 1 .. n \subseteq 1 .. Len(text)
    BY <2>1
  <2>3. part \in Seq(Bytes) /\ Len(part) = n /\ \A i \in 1 .. n : part[i] = text[i]
    BY <2>1, <2>2
  <2> HIDE DEF part
  <2> QED BY <2>1, <2>2, <2>3, LenProperties
<1>2. \A i \in 1 .. Len(text) :
        text[i] = "shut" => ~Hidden(whole, i) /\ (i > 1 => whole[i - 1] # "ignored")
  BY DEF Plain
<1>3. /\ DOMAIN whole = 1 .. Len(text)
      /\ \A i \in 1 .. n : whole[i] = Whole(text[i])
  BY <1>1
<1> HIDE DEF part, whole
<1>4. \A i \in 1 .. n : /\ (chars[i] = "open" <=> part[i] = "open")
                        /\ (chars[i] = "shut" <=> part[i] = "shut")
                        /\ chars[i] = "" => text[i] \in {"lead", "mid"}
                        /\ chars[i] \in Ignorable \union {"combining"} => chars[i] = whole[i]
  BY <1>1, <1>3, InPlaceKinds
<1>5. ASSUME Marked(part) PROVE HasMarker(chars)
  <2>1. PICK i \in 1 .. n : i < n /\ part[i] = "open" /\ part[i + 1] = "shut"
    BY <1>1, <1>5 DEF Marked
  <2>2. i + 1 \in 1 .. n /\ i < i + 1 /\ i + 1 \in 1 .. Len(text) /\ i + 1 .. (i + 1) - 1 = {}
    BY <1>1, <2>1
  <2>3. ASSUME Hidden(chars, i + 1) PROVE FALSE
    <3>1. PICK m \in 1 .. n : /\ i + 1 < m /\ chars[m] = "combining"
                             /\ \A k \in (i + 1) + 1 .. m - 1 : chars[k] \in Ignorable
      BY <1>1, <2>3 DEF Hidden
    <3>2. \A k \in (i + 1) + 1 .. m - 1 : k \in 1 .. n
      BY <1>1, <2>2, <3>1
    <3>3. /\ m \in DOMAIN whole /\ whole[m] = "combining"
          /\ \A k \in (i + 1) + 1 .. m - 1 : whole[k] \in Ignorable
      <4>1. m \in 1 .. Len(text)
        BY <1>1
      <4> QED BY <1>3, <1>4, <3>1, <3>2, <4>1
    <3>4. Hidden(whole, i + 1)
      BY <3>1, <3>3 DEF Hidden
    <3>5. text[i + 1] = "shut"
      BY <1>1, <2>1, <2>2
    <3> QED BY <1>2, <2>2, <3>4, <3>5
  <2>4. chars[i] = "open" /\ chars[i + 1] = "shut"
    BY <1>4, <2>1, <2>2
  <2>5. \A k \in i + 1 .. (i + 1) - 1 : chars[k] \in Ignorable
    BY <2>2
  <2> QED BY <1>1, <2>2, <2>3, <2>4, <2>5 DEF HasMarker
<1>6. ASSUME HasMarker(chars) PROVE Marked(part)
  <2>1. PICK i \in 1 .. n, j \in 1 .. n :
           /\ i < j /\ chars[i] = "open" /\ chars[j] = "shut"
           /\ \A k \in i + 1 .. j - 1 : chars[k] \in Ignorable
    BY <1>1, <1>6 DEF HasMarker
  <2>2. text[j] = "shut" /\ j \in 1 .. Len(text)
    <3>1. part[j] = "shut" /\ part[j] = text[j]
      BY <1>1, <1>4, <2>1
    <3>2. j \in 1 .. Len(text)
      BY <1>1
    <3> QED BY <3>1, <3>2
  <2>3. ASSUME j # i + 1 PROVE FALSE
    <3>1. j - 1 \in i + 1 .. j - 1 /\ j - 1 \in 1 .. n /\ (j - 1) + 1 = j /\ j > 1
      <4>1. n \in Nat /\ i \in 1 .. n /\ j \in 1 .. n /\ i < j
        BY <1>1, <2>1
      <4> QED BY <2>3, <4>1
    <3>2. chars[j - 1] \in Ignorable /\ chars[j - 1] = whole[j - 1]
      BY <1>4, <2>1, <3>1
    <3>3. chars[j - 1] = ""
      BY <1>2, <2>2, <3>1, <3>2 DEF Ignorable
    <3>4. text[j - 1] \in {"lead", "mid"}
      BY <1>4, <3>1, <3>3
    <3>5. DOMAIN text = 1 .. Len(text) /\ j - 1 \in 1 .. Len(text)
      BY <1>1, <3>1
    <3>6. text[(j - 1) + 1] \in Rest
      BY <3>4, <3>5 DEF Utf8
    <3> QED BY <2>2, <3>1, <3>6 DEF Rest, LastBytes
  <2>4. i < n /\ i + 1 = j
    BY <1>1, <2>1, <2>3
  <2> QED BY <1>1, <1>4, <2>1, <2>4 DEF Marked
<1> QED BY <1>5, <1>6 DEF part

-----------------------------------------------------------------------------
(* The inductive invariant: the places of the characters tell what the     *)
(* marker's test sees.                                                     *)

Inv == TypeOK /\ CharactersInPlace /\ EndsAtMarker

LEMMA MessageType ==
    ASSUME TypeOK
    PROVE  /\ message \in Seq(Bytes) /\ Utf8(message) /\ Len(message) \in Nat
           /\ sent \in Nat /\ read \in Nat /\ read <= sent /\ sent <= Len(message)
<1>1. message \in Seq(Bytes) /\ Utf8(message)
  BY ReadMessageAssumption DEF TypeOK
<1> QED BY <1>1, LenProperties DEF TypeOK

LEMMA InitInv == Init => Inv
<1> SUFFICES ASSUME Init PROVE Inv
  OBVIOUS
<1>1. Len(message) \in Nat /\ message \in Seq(Bytes)
  BY ReadMessageAssumption, LenProperties DEF Init
<1>2. TypeOK
  BY <1>1 DEF Init, TypeOK
<1>3. CharactersInPlace
  BY DEF Init, CharactersInPlace
<1>4. ~Marked(SubSeq(message, 1, 0))
  BY <1>1 DEF Marked
<1> QED BY <1>2, <1>3, <1>4 DEF Init, Inv, EndsAtMarker

(* One turn of the loop decodes what it reads in its place, and sees the   *)
(* marker of a plain text just when it has been read.                      *)
LEMMA TurnKeeps ==
    ASSUME Inv, NEW n \in Nat, read + n <= sent, Turn(n), UNCHANGED sender
    PROVE  /\ TypeOK' /\ CharactersInPlace'
           /\ Plain(message) =>
                (HasMarker(messageData') <=> Marked(SubSeq(message', 1, read')))
<1> DEFINE bytes == SubSeq(message, read + 1, read + n)
           old == messageData
           new == Decode(bytes)
<1>1. /\ message \in Seq(Bytes) /\ Utf8(message) /\ Len(message) \in Nat
      /\ read \in Nat /\ sent \in Nat /\ sent <= Len(message) /\ read + n \in 0 .. sent
      /\ read' = read + n /\ messageData' = old \o new /\ UNCHANGED <<message, sent, end, reader>>
  BY MessageType DEF Inv, Turn, sender
<1>2. /\ bytes \in Seq(Bytes) /\ Len(bytes) = n
      /\ \A i \in 1 .. n : bytes[i] = message[read + i]
  <2>1. /\ read + n \in Nat /\ read + 1 >= 1 /\ read + n <= Len(message)
        /\ (read + n) - (read + 1) + 1 = n
    BY <1>1
  <2>2. \A i \in read + 1 .. read + n : message[i] \in Bytes
    BY <1>1, <2>1, ElementOfSeq
  <2>3. bytes = [i \in 1 .. n |-> message[read + i]]
    <3>1. \A i \in 1 .. n : i + (read + 1) - 1 = read + i
      BY <1>1
    <3> QED BY <1>1, <2>1, <3>1
  <2>4. \A i \in 1 .. n : read + i \in read + 1 .. read + n
    BY <1>1
  <2>5. \A i \in 1 .. n : message[read + i] \in Bytes
    BY <2>2, <2>4
  <2> HIDE DEF bytes
  <2> QED BY <2>3, <2>5
<1>3. /\ old \in Seq(Characters) /\ Len(old) = read
      /\ \A i \in 1 .. read : InPlace(old[i], message[i])
  BY DEF Inv, TypeOK, CharactersInPlace, InPlace
<1> HIDE DEF bytes
<1>4. /\ new \in Seq(Characters) /\ Len(new) = n
      /\ \A i \in 1 .. n : InPlace(new[i], message[read + i])
  BY <1>2, DecodeInPlace
<1> HIDE DEF old, new
<1>5. /\ old \o new \in Seq(Characters) /\ Len(old \o new) = read + n
      /\ \A i \in 1 .. read + n :
            (old \o new)[i] = IF i <= read THEN old[i] ELSE new[i - read]
  BY <1>3, <1>4, ConcatProperties
<1>6. ASSUME NEW i \in 1 .. read + n PROVE InPlace((old \o new)[i], message[i])
  <2>1. CASE i <= read
    BY <1>1, <1>3, <1>5, <2>1
  <2>2. CASE ~(i <= read)
    <3>1. i - read \in 1 .. n /\ read + (i - read) = i
      BY <1>1, <2>2
    <3> QED BY <1>4, <1>5, <2>2, <3>1
  <2> QED BY <2>1, <2>2
<1>7. TypeOK'
  <2>1. at' \in {"reading", "returned"}
    BY DEF Turn
  <2> QED BY <1>1, <1>5, <2>1 DEF Inv, TypeOK
<1>8. CharactersInPlace'
  BY <1>1, <1>5, <1>6 DEF CharactersInPlace, InPlace
<1>9. ASSUME Plain(message)
      PROVE  HasMarker(messageData') <=> Marked(SubSeq(message', 1, read'))
  <2>1. read + n \in 0 .. Len(message)
    BY <1>1
  <2> QED BY <1>1, <1>5, <1>6, <1>9, <2>1, SameMarker
<1> QED BY <1>7, <1>8, <1>9

LEMMA NextInv == Inv /\ [Next]_vars => Inv'
<1> SUFFICES ASSUME Inv, [Next]_vars PROVE Inv'
  OBVIOUS
<1>0. /\ sent \in Nat /\ read \in Nat /\ read <= sent /\ sent <= Len(message)
      /\ Len(message) \in Nat
  BY MessageType DEF Inv
<1>1. CASE ReadSome
  <2>1. PICK n \in 1 .. Capacity : read + n <= sent /\ Turn(n)
    BY <1>1 DEF ReadSome
  <2>2. n \in Nat /\ n # 0
    BY <2>1, ReadMessageAssumption
  <2>3. /\ TypeOK' /\ CharactersInPlace'
        /\ Plain(message) =>
             (HasMarker(messageData') <=> Marked(SubSeq(message', 1, read')))
    BY <1>1, <2>1, <2>2, TurnKeeps DEF ReadSome
  <2>4. at' = IF HasMarker(messageData') THEN "returned" ELSE "reading"
    BY <2>1, <2>2 DEF Turn, Finished
  <2>5. message' = message
    BY <1>1 DEF ReadSome, sender
  <2> QED BY <2>3, <2>4, <2>5 DEF Inv, EndsAtMarker
<1>2. CASE ReadEnd
  <2>1. Turn(0) /\ read + 0 <= sent /\ read = sent /\ end = "closed"
    BY <1>0, <1>2 DEF ReadEnd
  <2>2. TypeOK' /\ CharactersInPlace'
    BY <1>2, <2>1, TurnKeeps DEF ReadEnd
  <2>3. at' = "returned" /\ end' = "closed" /\ read' = sent'
    BY <1>0, <1>2, <2>1 DEF Turn, Finished, ReadEnd, sender
  <2> QED BY <2>2, <2>3 DEF Inv, EndsAtMarker
<1>3. CASE ReadThrows
  BY <1>3 DEF ReadThrows, sender, Inv, TypeOK, CharactersInPlace, EndsAtMarker
<1>4. CASE SendSome
  <2>1. TypeOK'
    BY <1>0, <1>4 DEF SendSome, Inv, TypeOK
  <2>2. CharactersInPlace' /\ EndsAtMarker'
    BY <1>4 DEF SendSome, Inv, CharactersInPlace, EndsAtMarker
  <2> QED BY <2>1, <2>2 DEF Inv
<1>5. CASE SendEnd
  BY <1>5 DEF SendEnd, Inv, TypeOK, CharactersInPlace, EndsAtMarker
<1>6. CASE UNCHANGED vars
  BY <1>6 DEF vars, sender, Inv, TypeOK, CharactersInPlace, EndsAtMarker
<1> QED BY <1>1, <1>2, <1>3, <1>4, <1>5, <1>6 DEF Next, Reader

LEMMA InvAlways == Spec => []Inv
BY InitInv, NextInv, PTL DEF Spec

(* ReadMessage() stays typed: it takes no byte that was not sent.          *)
THEOREM TypeCorrect == Spec => []TypeOK
<1>1. Inv => TypeOK
  BY DEF Inv
<1> QED BY <1>1, InvAlways, PTL

(* ReadMessage() returns at the marker or at the end of the stream, for    *)
(* every plain text in UTF-8 and wherever the reads cut it: the search     *)
(* finds no other marker, and the bytes lost at the edges of a read        *)
(* neither hide a marker nor make one.                                     *)
THEOREM EndsAtItsMarker == Spec => []EndsAtMarker
<1>1. Inv => EndsAtMarker
  BY DEF Inv
<1> QED BY <1>1, InvAlways, PTL

=============================================================================
