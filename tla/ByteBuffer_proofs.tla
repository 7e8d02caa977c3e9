-------------------------- MODULE ByteBuffer_proofs --------------------------
(***************************************************************************)
(* What the buffer operations preserve and what they leave in the buffer:  *)
(* the lemmas every proof about a stream rests on.                         *)
(***************************************************************************)
EXTENDS ByteBuffer, SequenceTheorems, TLAPS

GoodBuffer(b) == b \in ByteBuffers /\ WellFormed(b)

(* A span of n bytes is a sequence of n consecutive offsets.               *)
LEMMA SpanProperties ==
    ASSUME NEW from \in Nat, NEW n \in Nat
    PROVE  /\ Span(from, n) \in Seq(Nat)
           /\ Len(Span(from, n)) = n
           /\ \A i \in 1..n : Span(from, n)[i] = from + i
BY DEF Span

(* No bytes make the empty span.                                           *)
LEMMA SpanEmpty == ASSUME NEW from \in Nat PROVE Span(from, 0) = <<>>
<1>1. Span(from, 0) \in Seq(Nat) /\ Len(Span(from, 0)) = 0
  BY SpanProperties
<1> QED BY <1>1, EmptySeq

(* Adjacent spans make one.                                                *)
LEMMA SpanConcat ==
    ASSUME NEW from \in Nat, NEW n \in Nat, NEW m \in Nat
    PROVE  Span(from, n) \o Span(from + n, m) = Span(from, n + m)
<1> DEFINE s == Span(from, n)
           t == Span(from + n, m)
           u == Span(from, n + m)
<1>1. /\ s \in Seq(Nat) /\ Len(s) = n /\ \A i \in 1..n : s[i] = from + i
      /\ t \in Seq(Nat) /\ Len(t) = m /\ \A i \in 1..m : t[i] = from + n + i
      /\ u \in Seq(Nat) /\ Len(u) = n + m /\ \A i \in 1..n + m : u[i] = from + i
  <2>1. from + n \in Nat /\ n + m \in Nat
    OBVIOUS
  <2>2. s \in Seq(Nat) /\ Len(s) = n /\ \A i \in 1..n : s[i] = from + i
    BY SpanProperties
  <2>3. t \in Seq(Nat) /\ Len(t) = m /\ \A i \in 1..m : t[i] = from + n + i
    BY <2>1, SpanProperties
  <2>4. u \in Seq(Nat) /\ Len(u) = n + m /\ \A i \in 1..n + m : u[i] = from + i
    BY <2>1, SpanProperties
  <2> QED BY <2>2, <2>3, <2>4
<1>2. /\ s \o t \in Seq(Nat) /\ Len(s \o t) = n + m
      /\ \A i \in 1..n + m : (s \o t)[i] = IF i <= n THEN s[i] ELSE t[i - n]
  <2> HIDE DEF s, t, u
  <2> QED BY <1>1, ConcatProperties
<1> HIDE DEF s, t, u
<1>3. \A i \in 1..n + m : (s \o t)[i] = u[i]
  <2> TAKE i \in 1..n + m
  <2>1. CASE i <= n  BY <1>1, <1>2, <2>1
  <2>2. CASE ~(i <= n)
    <3>1. i - n \in 1..m  BY <2>2
    <3> QED BY <1>1, <1>2, <2>2, <3>1
  <2> QED BY <2>1, <2>2
<1>4. s \o t = u  BY <1>1, <1>2, <1>3, SeqEqual
<1> QED BY <1>4 DEF s, t, u

(* What follows the first k bytes of a span is a span.                     *)
LEMMA SpanDrop ==
    ASSUME NEW from \in Nat, NEW n \in Nat, NEW k \in 0..n
    PROVE  SubSeq(Span(from, n), k + 1, n) = Span(from + k, n - k)
<1> DEFINE s == Span(from, n)
           t == SubSeq(s, k + 1, n)
           u == Span(from + k, n - k)
<1>1. /\ s \in Seq(Nat) /\ Len(s) = n /\ \A i \in 1..n : s[i] = from + i
      /\ u \in Seq(Nat) /\ Len(u) = n - k
      /\ \A i \in 1..n - k : u[i] = from + k + i
  <2>1. from + k \in Nat /\ n - k \in Nat
    OBVIOUS
  <2>2. s \in Seq(Nat) /\ Len(s) = n /\ \A i \in 1..n : s[i] = from + i
    BY SpanProperties
  <2>3. /\ u \in Seq(Nat) /\ Len(u) = n - k
        /\ \A i \in 1..n - k : u[i] = from + k + i
    BY <2>1, SpanProperties
  <2> QED BY <2>2, <2>3
<1> HIDE DEF s, u
<1>2. \A i \in k + 1 .. n : s[i] \in Nat
  BY <1>1
<1>3. /\ t \in Seq(Nat)
      /\ Len(t) = n - k
      /\ \A i \in 1..n - k : t[i] = s[k + i]
  <2>1. /\ SubSeq(s, k + 1, n) \in Seq(Nat)
        /\ Len(SubSeq(s, k + 1, n)) = IF k + 1 <= n THEN n - (k + 1) + 1 ELSE 0
        /\ \A i \in 1..n - (k + 1) + 1 : SubSeq(s, k + 1, n)[i] = s[(k + 1) + i - 1]
    <3> k + 1 \in Int /\ n \in Int  OBVIOUS
    <3> QED BY <1>2, SubSeqProperties
  <2> QED BY <2>1
<1> HIDE DEF t
<1>4. \A i \in 1..n - k : t[i] = u[i]
  BY <1>1, <1>3
<1>5. t = u  BY <1>1, <1>3, <1>4, SeqEqual
<1> QED BY <1>5 DEF s, t, u

(* The first k bytes of a span are a span.                                 *)
LEMMA SpanTake ==
    ASSUME NEW from \in Nat, NEW n \in Nat, NEW k \in 0..n
    PROVE  SubSeq(Span(from, n), 1, k) = Span(from, k)
<1> DEFINE s == Span(from, n)
           t == SubSeq(s, 1, k)
           u == Span(from, k)
<1>1. /\ s \in Seq(Nat) /\ Len(s) = n /\ \A i \in 1..n : s[i] = from + i
      /\ u \in Seq(Nat) /\ Len(u) = k /\ \A i \in 1..k : u[i] = from + i
  <2>1. k \in Nat
    OBVIOUS
  <2>2. s \in Seq(Nat) /\ Len(s) = n /\ \A i \in 1..n : s[i] = from + i
    BY SpanProperties
  <2>3. u \in Seq(Nat) /\ Len(u) = k /\ \A i \in 1..k : u[i] = from + i
    BY <2>1, SpanProperties
  <2> QED BY <2>2, <2>3
<1> HIDE DEF s, u
<1>2. \A i \in 1..k : s[i] \in Nat
  BY <1>1
<1>3. t \in Seq(Nat) /\ Len(t) = k /\ \A i \in 1..k : t[i] = s[i]
  <2>1. /\ SubSeq(s, 1, k) \in Seq(Nat)
        /\ Len(SubSeq(s, 1, k)) = IF 1 <= k THEN k - 1 + 1 ELSE 0
        /\ \A i \in 1..k - 1 + 1 : SubSeq(s, 1, k)[i] = s[1 + i - 1]
    <3> 1 \in Int /\ k \in Int  OBVIOUS
    <3> QED BY <1>2, SubSeqProperties
  <2> QED BY <2>1
<1> HIDE DEF t
<1>4. \A i \in 1..k : t[i] = u[i]
  BY <1>1, <1>3
<1>5. t = u  BY <1>1, <1>3, <1>4, SeqEqual
<1> QED BY <1>5 DEF s, t, u

LEMMA SeqNatAssociative ==
    \A s, t, u \in Seq(Nat) : (s \o t) \o u = s \o (t \o u)
BY ConcatAssociative, SMT

(* A stream held in two parts is extended at its end.                      *)
LEMMA SpanExtend ==
    ASSUME NEW s \in Seq(Nat), NEW t \in Seq(Nat), NEW k \in Nat, NEW n \in Nat,
           s \o t = Span(0, k)
    PROVE  s \o (t \o Span(k, n)) = Span(0, k + n)
<1> DEFINE u == Span(k, n)
<1>1. u \in Seq(Nat)
  BY SpanProperties
<1>2. Span(0, k) \o Span(0 + k, n) = Span(0, k + n)
  BY SpanConcat
<1>3. 0 + k = k
  OBVIOUS
<1> HIDE DEF u
<1>4. (s \o t) \o u = s \o (t \o u)
  BY <1>1, SeqNatAssociative, Zenon
<1>5. s \o (t \o u) = Span(0, k) \o u
  BY <1>4, Zenon
<1> QED BY <1>2, <1>3, <1>5, Zenon DEF u

-----------------------------------------------------------------------------

(* A new buffer is empty and ready for put().                              *)
LEMMA AllocateGood ==
    ASSUME NEW n \in Nat
    PROVE  /\ GoodBuffer(Allocate(n)) /\ Fillable(Allocate(n))
           /\ Allocate(n).mem = <<>> /\ Remaining(Allocate(n)) = n
BY DEF Allocate, GoodBuffer, ByteBuffers, WellFormed, Fillable, Remaining

LEMMA RemainingNat ==
    ASSUME NEW b, GoodBuffer(b)
    PROVE  Remaining(b) \in Nat
BY DEF GoodBuffer, ByteBuffers, WellFormed, Remaining

(* flip() makes readable what lies below the position, and all there is    *)
(* when the buffer was being filled.                                       *)
LEMMA FlipGood ==
    ASSUME NEW b, GoodBuffer(b)
    PROVE  /\ GoodBuffer(Flip(b)) /\ Readable(Flip(b))
           /\ Flip(b).pos = 0 /\ Flip(b).lim = b.pos /\ Flip(b).cap = b.cap
           /\ Remaining(Flip(b)) = b.pos
           /\ Fillable(b) => Flip(b).mem = b.mem
<1> DEFINE m == SubSeq(b.mem, 1, b.pos)
<1>1. /\ b.mem \in Seq(Nat) /\ b.pos \in Nat /\ b.lim \in Nat /\ b.cap \in Nat
      /\ b.pos <= b.lim /\ b.lim <= b.cap /\ b.pos <= Len(b.mem) /\ Len(b.mem) \in Nat
  BY DEF GoodBuffer, ByteBuffers, WellFormed
<1>2. m \in Seq(Nat) /\ Len(m) = b.pos
  <2>1. \A i \in 1..b.pos : b.mem[i] \in Nat
    BY <1>1, ElementOfSeq
  <2> QED BY <1>1, <2>1, SubSeqProperties
<1>3. Fillable(b) => m = b.mem
  BY <1>1, SubSeqFull DEF Fillable
<1> HIDE DEF m
<1>4. Flip(b) = [mem |-> m, pos |-> 0, lim |-> b.pos, cap |-> b.cap]
  BY DEF Flip, m
<1> QED BY <1>1, <1>2, <1>3, <1>4
        DEF GoodBuffer, ByteBuffers, WellFormed, Readable, Remaining

(* What can be read is as long as remaining() says.                        *)
LEMMA UnreadProperties ==
    ASSUME NEW b, GoodBuffer(b), Readable(b)
    PROVE  Unread(b) \in Seq(Nat) /\ Len(Unread(b)) = Remaining(b)
<1>1. /\ b.mem \in Seq(Nat) /\ b.pos \in Nat /\ b.lim \in Nat
      /\ b.pos <= b.lim /\ b.lim = Len(b.mem)
  BY DEF GoodBuffer, ByteBuffers, WellFormed, Readable
<1>2. \A i \in b.pos + 1 .. b.lim : b.mem[i] \in Nat
  BY <1>1, ElementOfSeq
<1>3. /\ SubSeq(b.mem, b.pos + 1, b.lim) \in Seq(Nat)
      /\ Len(SubSeq(b.mem, b.pos + 1, b.lim)) =
            IF b.pos + 1 <= b.lim THEN b.lim - (b.pos + 1) + 1 ELSE 0
  <2> b.pos + 1 \in Int /\ b.lim \in Int  BY <1>1
  <2> QED BY <1>2, SubSeqProperties
<1> QED BY <1>1, <1>3 DEF Unread, Remaining

(* compact() keeps what was not read and makes the buffer ready for put(). *)
LEMMA CompactGood ==
    ASSUME NEW b, GoodBuffer(b), Readable(b)
    PROVE  /\ GoodBuffer(Compact(b)) /\ Fillable(Compact(b))
           /\ Compact(b).mem = Unread(b) /\ Compact(b).pos = Remaining(b)
           /\ Compact(b).cap = b.cap
<1>1. Unread(b) \in Seq(Nat) /\ Len(Unread(b)) = Remaining(b)
  BY UnreadProperties
<1> QED BY <1>1 DEF Compact, GoodBuffer, ByteBuffers, WellFormed, Fillable, Remaining

(* flip() and compact() with no get() between them change nothing.         *)
LEMMA CompactFlip ==
    ASSUME NEW b, GoodBuffer(b), Fillable(b)
    PROVE  Compact(Flip(b)) = b
<1>1. /\ b.mem \in Seq(Nat) /\ b.pos \in Nat
      /\ b.lim = b.cap /\ Len(b.mem) = b.pos
      /\ b = [mem |-> b.mem, pos |-> b.pos, lim |-> b.lim, cap |-> b.cap]
  BY DEF GoodBuffer, ByteBuffers, Fillable
<1>2. Flip(b) = [mem |-> b.mem, pos |-> 0, lim |-> b.pos, cap |-> b.cap]
  BY <1>1, SubSeqFull DEF Flip
<1>3. SubSeq(b.mem, 0 + 1, b.pos) = b.mem
  BY <1>1, SubSeqFull
<1> QED BY <1>1, <1>2, <1>3 DEF Compact, Unread, Remaining

(* put() of what fits stays below the limit, and appends to a buffer that  *)
(* is being filled.                                                        *)
LEMMA PutGood ==
    ASSUME NEW b, GoodBuffer(b), NEW bytes \in Seq(Nat), Len(bytes) <= Remaining(b)
    PROVE  /\ GoodBuffer(Put(b, bytes))
           /\ Put(b, bytes).pos = b.pos + Len(bytes)
           /\ Put(b, bytes).lim = b.lim /\ Put(b, bytes).cap = b.cap
           /\ Fillable(b) => /\ Fillable(Put(b, bytes))
                             /\ Put(b, bytes).mem = b.mem \o bytes
<1> DEFINE end == b.pos + Len(bytes)
           head == SubSeq(b.mem, 1, b.pos)
           tail == SubSeq(b.mem, end + 1, Len(b.mem))
<1>1. /\ b.mem \in Seq(Nat) /\ b.pos \in Nat /\ b.lim \in Nat /\ b.cap \in Nat
      /\ b.pos <= b.lim /\ b.lim <= b.cap /\ b.pos <= Len(b.mem)
      /\ Len(b.mem) <= b.lim /\ Len(b.mem) \in Nat
      /\ b = [mem |-> b.mem, pos |-> b.pos, lim |-> b.lim, cap |-> b.cap]
  BY DEF GoodBuffer, ByteBuffers, WellFormed
<1>2. Len(bytes) \in Nat /\ end \in Nat /\ end <= b.lim
  BY <1>1 DEF Remaining
<1>3. head \in Seq(Nat) /\ Len(head) = b.pos
  <2>1. \A i \in 1..b.pos : b.mem[i] \in Nat
    BY <1>1, ElementOfSeq
  <2> QED BY <1>1, <2>1, SubSeqProperties
<1>4. /\ tail \in Seq(Nat)
      /\ Len(tail) = IF end + 1 <= Len(b.mem) THEN Len(b.mem) - end ELSE 0
  <2>1. \A i \in end + 1 .. Len(b.mem) : b.mem[i] \in Nat
    BY <1>1, <1>2, ElementOfSeq
  <2>2. end + 1 \in Int /\ Len(b.mem) \in Int
    BY <1>1, <1>2
  <2>3. /\ SubSeq(b.mem, end + 1, Len(b.mem)) \in Seq(Nat)
        /\ Len(SubSeq(b.mem, end + 1, Len(b.mem))) =
              IF end + 1 <= Len(b.mem) THEN Len(b.mem) - (end + 1) + 1 ELSE 0
    <3> HIDE DEF end
    <3> QED BY <2>1, <2>2, SubSeqProperties
  <2> QED BY <1>1, <1>2, <2>3
<1> HIDE DEF head, tail
<1>5. /\ head \o bytes \in Seq(Nat) /\ Len(head \o bytes) = end
      /\ head \o bytes \o tail \in Seq(Nat)
      /\ Len(head \o bytes \o tail) = end + Len(tail)
  <2>1. head \o bytes \in Seq(Nat) /\ Len(head \o bytes) = Len(head) + Len(bytes)
    BY <1>3, ConcatProperties
  <2>2. /\ head \o bytes \o tail \in Seq(Nat)
        /\ Len(head \o bytes \o tail) = Len(head \o bytes) + Len(tail)
    BY <1>4, <2>1, ConcatProperties
  <2> QED BY <1>3, <2>1, <2>2
<1>6. Put(b, bytes) = [mem |-> head \o bytes \o tail, pos |-> end,
                       lim |-> b.lim, cap |-> b.cap]
  BY DEF Put, head, tail
<1>7. GoodBuffer(Put(b, bytes))
  <2> HIDE DEF end
  <2>1. Put(b, bytes) \in ByteBuffers
    BY <1>1, <1>2, <1>5, <1>6 DEF ByteBuffers
  <2>2. /\ Len(head \o bytes \o tail) <= b.lim
        /\ end <= Len(head \o bytes \o tail)
    <3>1. CASE end + 1 <= Len(b.mem)
      <4>1. Len(tail) = Len(b.mem) - end
        BY <1>4, <3>1
      <4>2. end + Len(tail) = Len(b.mem)
        BY <1>1, <1>2, <4>1
      <4> QED BY <1>1, <1>2, <1>5, <3>1, <4>2
    <3>2. CASE ~(end + 1 <= Len(b.mem))
      BY <1>1, <1>2, <1>4, <1>5, <3>2
    <3> QED BY <3>1, <3>2
  <2> QED BY <1>1, <1>2, <1>6, <2>1, <2>2 DEF GoodBuffer, WellFormed
<1>8. ASSUME Fillable(b)
      PROVE  head = b.mem /\ tail = <<>>
  <2>1. head = b.mem
    BY <1>1, <1>8, SubSeqFull DEF Fillable, head
  <2>2. tail = <<>>
    <3>1. end + 1 > Len(b.mem) /\ Len(b.mem) \in Int /\ end + 1 \in Int
      BY <1>1, <1>2, <1>8 DEF Fillable
    <3> HIDE DEF end
    <3> QED BY <3>1, SubSeqEmpty DEF tail
  <2> QED BY <2>1, <2>2
<1>9. ASSUME Fillable(b)
      PROVE  Fillable(Put(b, bytes)) /\ Put(b, bytes).mem = b.mem \o bytes
  <2>1. Put(b, bytes).mem = b.mem \o bytes
    BY <1>1, <1>5, <1>6, <1>8, <1>9, ConcatEmptySeq
  <2> QED BY <1>1, <1>5, <1>6, <1>8, <1>9, <2>1 DEF Fillable
<1>10. /\ Put(b, bytes).pos = b.pos + Len(bytes)
       /\ Put(b, bytes).lim = b.lim /\ Put(b, bytes).cap = b.cap
  BY <1>6
<1> QED BY <1>7, <1>9, <1>10

(* get() of n bytes leaves the rest of what could be read.                 *)
LEMMA SkipGood ==
    ASSUME NEW b, GoodBuffer(b), Readable(b), NEW n \in 0..Remaining(b)
    PROVE  /\ GoodBuffer(Skip(b, n)) /\ Readable(Skip(b, n))
           /\ Skip(b, n).mem = b.mem /\ Skip(b, n).cap = b.cap
           /\ Remaining(Skip(b, n)) = Remaining(b) - n
           /\ Unread(Skip(b, n)) = SubSeq(b.mem, b.pos + n + 1, b.lim)
<1>1. /\ b.mem \in Seq(Nat) /\ b.pos \in Nat /\ b.lim \in Nat /\ b.cap \in Nat
      /\ b.pos <= b.lim /\ b.lim <= b.cap /\ b.lim = Len(b.mem)
      /\ b = [mem |-> b.mem, pos |-> b.pos, lim |-> b.lim, cap |-> b.cap]
  BY DEF GoodBuffer, ByteBuffers, WellFormed, Readable
<1>2. n \in Nat /\ b.pos + n <= b.lim
  BY <1>1 DEF Remaining
<1>3. Skip(b, n) = [mem |-> b.mem, pos |-> b.pos + n, lim |-> b.lim, cap |-> b.cap]
  BY <1>1 DEF Skip
<1>4. /\ Skip(b, n) \in ByteBuffers
      /\ WellFormed(Skip(b, n)) /\ Readable(Skip(b, n))
  BY <1>1, <1>2, <1>3 DEF ByteBuffers, WellFormed, Readable
<1>5. Skip(b, n).mem = b.mem /\ Skip(b, n).cap = b.cap
  BY <1>3
<1>6. Remaining(Skip(b, n)) = Remaining(b) - n
  BY <1>1, <1>2, <1>3 DEF Remaining
<1>7. Unread(Skip(b, n)) = SubSeq(b.mem, b.pos + n + 1, b.lim)
  <2>1. Skip(b, n).mem = b.mem /\ Skip(b, n).pos = b.pos + n /\ Skip(b, n).lim = b.lim
    BY <1>3
  <2> QED BY <2>1, Zenon DEF Unread
<1> QED BY <1>4, <1>5, <1>6, <1>7 DEF GoodBuffer

(* What compact() keeps of a buffer that was being filled and of which     *)
(* wrap() or unwrap() took the first k bytes.                              *)
LEMMA CompactTaken ==
    ASSUME NEW b, GoodBuffer(b), Fillable(b), NEW k \in 0..b.pos
    PROVE  /\ Fillable(Compact(Skip(Flip(b), k)))
           /\ Compact(Skip(Flip(b), k)).mem = SubSeq(b.mem, k + 1, b.pos)
<1> DEFINE f == Flip(b)
           d == Skip(f, k)
<1>1. /\ GoodBuffer(f) /\ Readable(f) /\ f.mem = b.mem /\ f.pos = 0 /\ f.lim = b.pos
      /\ Remaining(f) = b.pos
  BY FlipGood
<1> HIDE DEF f
<1>2. /\ GoodBuffer(d) /\ Readable(d)
      /\ Unread(d) = SubSeq(f.mem, f.pos + k + 1, f.lim)
  BY <1>1, SkipGood
<1>3. f.pos + k + 1 = k + 1
  BY <1>1 DEF GoodBuffer, ByteBuffers
<1>4. Unread(d) = SubSeq(b.mem, k + 1, b.pos)
  BY <1>1, <1>2, <1>3
<1> HIDE DEF d
<1>5. Fillable(Compact(d)) /\ Compact(d).mem = Unread(d)
  BY <1>2, CompactGood
<1> QED BY <1>4, <1>5 DEF d, f

(* A sequence cut in two is the two parts put together.                    *)
LEMMA CutAt ==
    ASSUME NEW s \in Seq(Nat), NEW k \in 0..Len(s)
    PROVE  /\ SubSeq(s, 1, k) \in Seq(Nat) /\ SubSeq(s, k + 1, Len(s)) \in Seq(Nat)
           /\ SubSeq(s, 1, k) \o SubSeq(s, k + 1, Len(s)) = s
<1>1. \A i \in 1..Len(s) : s[i] \in Nat
  BY ElementOfSeq
<1>2. Len(s) \in Nat /\ k \in Nat /\ k <= Len(s)
  OBVIOUS
<1>3. SubSeq(s, 1, k) \in Seq(Nat)
  <2>1. \A i \in 1..k : s[i] \in Nat
    BY <1>1, <1>2
  <2>2. 1 \in Int /\ k \in Int
    BY <1>2
  <2> QED BY <2>1, <2>2, SubSeqProperties
<1>4. SubSeq(s, k + 1, Len(s)) \in Seq(Nat)
  <2>1. \A i \in k + 1 .. Len(s) : s[i] \in Nat
    BY <1>1, <1>2
  <2>2. k + 1 \in Int /\ Len(s) \in Int
    BY <1>2
  <2> QED BY <2>1, <2>2, SubSeqProperties
<1>5. SubSeq(s, 1, k) \o SubSeq(s, k + 1, Len(s)) = SubSeq(s, 1, Len(s))
  <2>1. 1 \in 1 .. Len(s) + 1 /\ k \in 1 - 1 .. Len(s) /\ Len(s) \in k .. Len(s)
    BY <1>2
  <2>2. SubSeq(s, 1, k) \o SubSeq(s, k + 1, Len(s)) = SubSeq(s, 1, Len(s))
    BY <2>1, ConcatAdjacentSubSeq, Zenon
  <2> QED BY <2>2
<1>6. SubSeq(s, 1, Len(s)) = s
  BY SubSeqFull
<1> QED BY <1>3, <1>4, <1>5, <1>6

=============================================================================
