-------------------------- MODULE SslEngine_proofs --------------------------
(***************************************************************************)
(* What one call of the engine may change: the lemmas that the invariants  *)
(* of the streams take from the engine's contract.                         *)
(***************************************************************************)
EXTENDS SslEngine, ByteBuffer_proofs

(* A byte range of a stream that the engine extends keeps the state typed. *)
LEMMA EngineFields ==
    ASSUME NEW e \in Engines
    PROVE  /\ e.step \in 0..Len(Script) /\ e.failed \in BOOLEAN
           /\ e.recs \in Nat /\ e.rxApp \in Nat /\ e.tx \in Nat
           /\ e.plain \in Seq(Nat)
           /\ e.out \in {"open", "closing", "closed"} /\ e.in \in {"open", "closed"}
BY DEF Engines

LEMMA NewEngineType == NewEngine \in Engines
<1>1. Len(Script) \in Nat
  BY EngineAssumption
<1> QED BY <1>1, EmptySeq DEF NewEngine, Engines

(* One handshake step done.                                                *)
LEMMA AdvanceProperties ==
    ASSUME NEW e \in Engines, Handshaking(e)
    PROVE  /\ Advance(e) \in Engines
           /\ Advance(e).failed = e.failed /\ Advance(e).out = e.out
           /\ Advance(e).recs = e.recs /\ Advance(e).rxApp = e.rxApp
           /\ Advance(e).tx = e.tx /\ Advance(e).plain = e.plain
<1>1. Len(Script) \in Nat
  BY EngineAssumption
<1>2. e.step + 1 \in 0..Len(Script)
  BY <1>1 DEF Handshaking, Engines
<1> QED BY <1>2 DEF Advance, Engines

(* A record produced.                                                      *)
LEMMA SentProperties ==
    ASSUME NEW e \in Engines
    PROVE  /\ Sent(e) \in Engines
           /\ Sent(e).step = e.step
           /\ Sent(e).failed = e.failed /\ Sent(e).out = e.out
           /\ Sent(e).recs = e.recs /\ Sent(e).rxApp = e.rxApp
           /\ Sent(e).tx = e.tx + RecLen /\ Sent(e).plain = e.plain
<1>1. e.tx + RecLen \in Nat
  BY EngineAssumption DEF Engines
<1> QED BY <1>1 DEF Sent, Engines

(* A fatal error keeps what was sent, carried and received.                *)
LEMMA FatalProperties ==
    ASSUME NEW e \in Engines, NEW f \in Fatal(e)
    PROVE  /\ f \in Engines /\ f.failed
           /\ f.out = "open" => e.out = "open"
           /\ f.recs = e.recs /\ f.rxApp = e.rxApp
           /\ f.tx = e.tx /\ f.plain = e.plain
<1>1. PICK o \in {"closing", "closed", e.out} :
         f = [[e EXCEPT !.in = "closed", !.out = o] EXCEPT !.failed = TRUE]
           /\ (o = "open" => e.out = "open")
  BY DEF Fatal, Abort
<1>2. o \in {"open", "closing", "closed"}
  BY <1>1, EngineFields
<1> QED BY <1>1, <1>2 DEF Engines

(* closeInbound() and closeOutbound() touch neither stream.                *)
LEMMA CloseInboundProperties ==
    ASSUME NEW e \in Engines, NEW r \in CloseInbound(e)
    PROVE  /\ r.engine \in Engines /\ r.engine.failed = e.failed
           /\ r.engine.out = "open" => e.out = "open"
           /\ r.engine.recs = e.recs /\ r.engine.rxApp = e.rxApp
           /\ r.engine.tx = e.tx /\ r.engine.plain = e.plain
<1>1. PICK o \in {"open", "closing", "closed"}, i \in {"open", "closed"} :
         r.engine = [e EXCEPT !.in = i, !.out = o] /\ (o = "open" => e.out = "open")
  <2>1. CASE e.in = "closed"
    <3>1. r.engine = e  BY <2>1 DEF CloseInbound
    <3>2. e = [e EXCEPT !.in = e.in, !.out = e.out]  BY DEF Engines
    <3> QED BY <3>1, <3>2, EngineFields
  <2>2. CASE e.in # "closed" /\ r.engine = [e EXCEPT !.in = "closed"]
    <3>1. [e EXCEPT !.in = "closed"] = [e EXCEPT !.in = "closed", !.out = e.out]
      BY DEF Engines
    <3> QED BY <2>2, <3>1, EngineFields
  <2>3. CASE e.in # "closed" /\ r.engine \in Abort(e)
    <3>1. PICK o \in {"closing", "closed", e.out} :
             r.engine = [e EXCEPT !.in = "closed", !.out = o]
               /\ (o = "open" => e.out = "open")
      BY <2>3 DEF Abort
    <3> QED BY <3>1, EngineFields
  <2>4. e.in # "closed" => \/ r.engine = [e EXCEPT !.in = "closed"]
                           \/ r.engine \in Abort(e)
    BY DEF CloseInbound
  <2> QED BY <2>1, <2>2, <2>3, <2>4
<1> QED BY <1>1 DEF Engines

LEMMA CloseOutboundProperties ==
    ASSUME NEW e \in Engines
    PROVE  /\ CloseOutbound(e) \in Engines /\ CloseOutbound(e).failed = e.failed
           /\ CloseOutbound(e).out # "open"
           /\ CloseOutbound(e).recs = e.recs /\ CloseOutbound(e).rxApp = e.rxApp
           /\ CloseOutbound(e).tx = e.tx /\ CloseOutbound(e).plain = e.plain
BY DEF CloseOutbound, Engines

(* Running the delegated tasks is one handshake step at most.              *)
LEMMA RunDelegatedTasksProperties ==
    ASSUME NEW e \in Engines
    PROVE  LET t == RunDelegatedTasks(e)
           IN  /\ t \in Engines /\ t.failed = e.failed /\ t.out = e.out
               /\ t.recs = e.recs /\ t.rxApp = e.rxApp
               /\ t.tx = e.tx /\ t.plain = e.plain
<1>1. Status(e) = "NEED_TASK" => Handshaking(e)
  BY DEF Status
<1> QED BY <1>1, AdvanceProperties DEF RunDelegatedTasks

-----------------------------------------------------------------------------

(* A record fits where the engine found a packet buffer's room.            *)
LEMMA RecordFits ==
    ASSUME NEW e, NEW dst, GoodBuffer(dst), ~(Remaining(dst) < PacketBufferSize(e))
    PROVE  RecLen <= Remaining(dst)
<1>1. RecLen \in Nat /\ RecLen <= PacketBufferSize(e) /\ PacketBufferSize(e) \in Nat
  BY EngineAssumption DEF PacketBufferSize
<1> QED BY <1>1, RemainingNat

(* Emitting a record appends it to a buffer that is being filled.          *)
LEMMA EmitGood ==
    ASSUME NEW e \in Engines, NEW dst, GoodBuffer(dst), RecLen <= Remaining(dst)
    PROVE  /\ GoodBuffer(Emit(e, dst))
           /\ Fillable(dst) => /\ Fillable(Emit(e, dst))
                               /\ Emit(e, dst).mem = dst.mem \o Span(e.tx, RecLen)
<1>1. RecLen \in Nat /\ e.tx \in Nat
  BY EngineAssumption, EngineFields
<1>2. Span(e.tx, RecLen) \in Seq(Nat) /\ Len(Span(e.tx, RecLen)) = RecLen
  BY <1>1, SpanProperties
<1> QED BY <1>2, PutGood DEF Emit

(* What wrap() may do to the outbound stream: it takes plaintext from the  *)
(* front of src, carries it in order, and appends one record to dst, or    *)
(* nothing.                                                                *)
WrapEffect(e, src, dst, r) ==
    /\ r.status \in {"OK", "CLOSED", "BUFFER_OVERFLOW", "SSLException"}
    /\ r.engine \in Engines
    /\ r.engine.recs = e.recs /\ r.engine.rxApp = e.rxApp
    /\ r.engine.out = "open" => e.out = "open"
    /\ e.failed => r.engine.failed
    /\ r.status = "SSLException" => r.engine.failed
    /\ r.status = "CLOSED" => r.engine.out # "open"
    /\ \/ r.src = src /\ r.engine.plain = e.plain
       \/ \E k \in 0..Remaining(src) :
             /\ r.src = Skip(src, k)
             /\ r.engine.plain = e.plain \o SubSeq(src.mem, src.pos + 1, src.pos + k)
    /\ \/ r.dst = dst /\ r.engine.tx = e.tx
       \/ /\ r.status \in {"OK", "CLOSED"}
          /\ RecLen <= Remaining(dst)
          /\ r.dst = Emit(e, dst) /\ r.engine.tx = e.tx + RecLen

LEMMA WrapHandshakeProperties ==
    ASSUME NEW e \in Engines, Handshaking(e), NEW src, NEW dst, GoodBuffer(dst),
           RecLen <= Remaining(dst), NEW r \in WrapHandshake(e, src, dst)
    PROVE  WrapEffect(e, src, dst, r)
<1>1. CASE Script[e.step + 1] # "NEED_WRAP"
  <2>1. r = Outcome("OK", Status(e), e, src, dst)
    BY <1>1 DEF WrapHandshake
  <2> QED BY <2>1 DEF Outcome, WrapEffect
<1>2. CASE Script[e.step + 1] = "NEED_WRAP"
  <2> DEFINE done == Advance(Sent(e))
  <2>1. /\ Sent(e) \in Engines /\ Handshaking(Sent(e))
        /\ Sent(e).failed = e.failed /\ Sent(e).out = e.out
        /\ Sent(e).recs = e.recs /\ Sent(e).rxApp = e.rxApp
        /\ Sent(e).tx = e.tx + RecLen /\ Sent(e).plain = e.plain
    BY SentProperties DEF Handshaking
  <2>2. /\ done \in Engines
        /\ done.failed = e.failed /\ done.out = e.out
        /\ done.recs = e.recs /\ done.rxApp = e.rxApp
        /\ done.tx = e.tx + RecLen /\ done.plain = e.plain
    BY <2>1, AdvanceProperties
  <2> HIDE DEF done
  <2>3. \/ r = Outcome("OK", StepStatus(done), done, src, Emit(e, dst))
        \/ \E f \in Fatal(e) : r = Outcome("SSLException", "NOT_HANDSHAKING", f, src, dst)
    BY <1>2 DEF WrapHandshake, done
  <2>4. CASE r = Outcome("OK", StepStatus(done), done, src, Emit(e, dst))
    BY <2>2, <2>4 DEF Outcome, WrapEffect
  <2>5. ASSUME NEW f \in Fatal(e),
               r = Outcome("SSLException", "NOT_HANDSHAKING", f, src, dst)
        PROVE  WrapEffect(e, src, dst, r)
    BY <2>5, FatalProperties DEF Outcome, WrapEffect
  <2> QED BY <2>3, <2>4, <2>5
<1> QED BY <1>1, <1>2

LEMMA WrapDataProperties ==
    ASSUME NEW e \in Engines, NEW src, GoodBuffer(src), Readable(src),
           NEW dst, GoodBuffer(dst), RecLen <= Remaining(dst),
           NEW r \in WrapData(e, src, dst)
    PROVE  WrapEffect(e, src, dst, r)
<1>1. CASE Fragment(src) = 0
  <2>1. r = Outcome("OK", "NOT_HANDSHAKING", e, src, dst)
    BY <1>1 DEF WrapData
  <2> QED BY <2>1 DEF Outcome, WrapEffect
<1>2. CASE Fragment(src) # 0
  <2> DEFINE k == Fragment(src)
             taken == SubSeq(src.mem, src.pos + 1, src.pos + k)
             after == [Sent(e) EXCEPT !.plain = @ \o taken]
  <2>1. k \in 0..Remaining(src)
    <3>1. Remaining(src) \in Nat /\ AppSize \in Nat
      BY RemainingNat, EngineAssumption
    <3> QED BY <3>1 DEF Fragment
  <2> HIDE DEF k
  <2>2. taken \in Seq(Nat)
    <3>1. /\ src.mem \in Seq(Nat) /\ src.pos \in Nat /\ src.lim \in Nat
          /\ src.lim = Len(src.mem) /\ k \in Nat /\ src.pos + k <= src.lim
      BY <2>1 DEF GoodBuffer, ByteBuffers, WellFormed, Readable, Remaining
    <3>2. \A i \in src.pos + 1 .. src.pos + k : src.mem[i] \in Nat
      BY <3>1, ElementOfSeq
    <3>3. src.pos + 1 \in Int /\ src.pos + k \in Int
      BY <3>1
    <3> QED BY <3>2, <3>3, SubSeqProperties
  <2> HIDE DEF taken
  <2>3. /\ Sent(e) \in Engines
        /\ Sent(e).failed = e.failed /\ Sent(e).out = e.out
        /\ Sent(e).recs = e.recs /\ Sent(e).rxApp = e.rxApp
        /\ Sent(e).tx = e.tx + RecLen /\ Sent(e).plain = e.plain
    BY SentProperties
  <2>4. e.plain \o taken \in Seq(Nat)
    BY <2>2, EngineFields, ConcatProperties
  <2>5. /\ after \in Engines
        /\ after.failed = e.failed /\ after.out = e.out
        /\ after.recs = e.recs /\ after.rxApp = e.rxApp
        /\ after.tx = e.tx + RecLen /\ after.plain = e.plain \o taken
    BY <2>3, <2>4 DEF Engines
  <2>6. r = Outcome("OK", "NOT_HANDSHAKING", after, Skip(src, k), Emit(e, dst))
    BY <1>2 DEF WrapData, k, taken
  <2> HIDE DEF after
  <2>7. \E j \in 0..Remaining(src) :
           /\ Skip(src, k) = Skip(src, j)
           /\ after.plain = e.plain \o SubSeq(src.mem, src.pos + 1, src.pos + j)
    BY <2>1, <2>5 DEF taken
  <2> QED BY <2>5, <2>6, <2>7 DEF Outcome, WrapEffect
<1> QED BY <1>1, <1>2

LEMMA WrapProperties ==
    ASSUME NEW e \in Engines, NEW src, GoodBuffer(src), Readable(src),
           NEW dst, GoodBuffer(dst), NEW r \in Wrap(e, src, dst)
    PROVE  WrapEffect(e, src, dst, r)
<1>1. CASE e.out = "closed"
  <2>1. r = Outcome("CLOSED", "NOT_HANDSHAKING", e, src, dst)
    BY <1>1 DEF Wrap
  <2> QED BY <1>1, <2>1 DEF Outcome, WrapEffect
<1>2. CASE e.out # "closed" /\ Remaining(dst) < PacketBufferSize(e)
  <2>1. r = Outcome("BUFFER_OVERFLOW", Status(e), e, src, dst)
    BY <1>2 DEF Wrap
  <2> QED BY <2>1 DEF Outcome, WrapEffect
<1>3. CASE e.out # "closed" /\ ~(Remaining(dst) < PacketBufferSize(e))
  <2>1. RecLen <= Remaining(dst)
    BY <1>3, RecordFits
  <2>2. CASE e.out = "closing"
    <3> DEFINE after == [Sent(e) EXCEPT !.out = "closed"]
    <3>1. r = Outcome("CLOSED", "NOT_HANDSHAKING", after, src, Emit(e, dst))
      BY <1>3, <2>2 DEF Wrap
    <3>2. /\ Sent(e) \in Engines /\ Sent(e).failed = e.failed
          /\ Sent(e).recs = e.recs /\ Sent(e).rxApp = e.rxApp
          /\ Sent(e).tx = e.tx + RecLen /\ Sent(e).plain = e.plain
      BY SentProperties
    <3>3. /\ after \in Engines /\ after.failed = e.failed /\ after.out = "closed"
          /\ after.recs = e.recs /\ after.rxApp = e.rxApp
          /\ after.tx = e.tx + RecLen /\ after.plain = e.plain
      BY <3>2 DEF Engines
    <3> HIDE DEF after
    <3> QED BY <2>1, <3>1, <3>3 DEF Outcome, WrapEffect
  <2>3. CASE e.out # "closing" /\ Handshaking(e)
    <3>1. r \in WrapHandshake(e, src, dst)
      BY <1>3, <2>3 DEF Wrap
    <3> QED BY <2>1, <2>3, <3>1, WrapHandshakeProperties
  <2>4. CASE e.out # "closing" /\ ~Handshaking(e)
    <3>1. r \in WrapData(e, src, dst)
      BY <1>3, <2>4 DEF Wrap
    <3> QED BY <2>1, <3>1, WrapDataProperties
  <2> QED BY <2>2, <2>3, <2>4
<1> QED BY <1>1, <1>2, <1>3

(* The buffers that wrap() leaves are good.                                *)
LEMMA WrapBuffersGood ==
    ASSUME NEW e \in Engines, NEW src, GoodBuffer(src), Readable(src),
           NEW dst, GoodBuffer(dst), NEW r, WrapEffect(e, src, dst, r)
    PROVE  GoodBuffer(r.src) /\ Readable(r.src) /\ GoodBuffer(r.dst)
<1>1. GoodBuffer(r.src) /\ Readable(r.src)
  BY SkipGood DEF WrapEffect
<1>2. GoodBuffer(r.dst)
  BY EmitGood DEF WrapEffect
<1> QED BY <1>1, <1>2

-----------------------------------------------------------------------------

(* What unwrap() may do to the inbound stream: it consumes one record from *)
(* the front of src, or none, and appends its plaintext to dst.            *)
UnwrapEffect(e, src, dst, r) ==
    /\ r.status \in {"OK", "CLOSED", "BUFFER_OVERFLOW", "BUFFER_UNDERFLOW",
                     "SSLException"}
    /\ r.engine \in Engines
    /\ r.engine.tx = e.tx /\ r.engine.plain = e.plain
    /\ r.engine.out = "open" => e.out = "open"
    /\ e.failed => r.engine.failed
    /\ r.status = "SSLException" => r.engine.failed
    /\ \/ r.src = src /\ r.engine.recs = e.recs
       \/ /\ RecLen <= Remaining(src)
          /\ r.src = Skip(src, RecLen)
          /\ r.engine.recs = e.recs + 1 \/ r.engine.failed
    /\ \/ r.dst = dst /\ r.engine.rxApp = e.rxApp
       \/ \E n \in 0..Remaining(dst) :
             r.dst = Put(dst, Span(e.rxApp, n)) /\ r.engine.rxApp = e.rxApp + n

LEMMA ConsumeProperties ==
    ASSUME NEW e \in Engines, NEW src, RecLen <= Remaining(src), NEW dst, GoodBuffer(dst),
           NEW rec \in Records, Acceptable(e, rec), NEW r \in Consume(e, src, dst, rec)
    PROVE  UnwrapEffect(e, src, dst, r)
<1> DEFINE got == [e EXCEPT !.recs = @ + 1]
           rest == Skip(src, RecLen)
<1>1. /\ got \in Engines /\ got.step = e.step
      /\ got.failed = e.failed /\ got.out = e.out
      /\ got.recs = e.recs + 1 /\ got.rxApp = e.rxApp
      /\ got.tx = e.tx /\ got.plain = e.plain
  BY DEF Engines
<1> HIDE DEF got
<1>2. CASE rec.kind = "handshake"
  <2>1. Handshaking(got)
    BY <1>1, <1>2 DEF Acceptable, Handshaking
  <2>2. /\ Advance(got) \in Engines
        /\ Advance(got).failed = e.failed /\ Advance(got).out = e.out
        /\ Advance(got).recs = e.recs + 1 /\ Advance(got).rxApp = e.rxApp
        /\ Advance(got).tx = e.tx /\ Advance(got).plain = e.plain
    BY <1>1, <2>1, AdvanceProperties
  <2>3. r = Outcome("OK", StepStatus(Advance(got)), Advance(got), rest, dst)
    BY <1>2 DEF Consume, got
  <2> QED BY <2>2, <2>3 DEF Outcome, UnwrapEffect
<1>3. CASE rec.kind = "close"
  <2>1. PICK o \in {e.out, IF e.out = "open" THEN "closing" ELSE e.out} :
           LET c == [got EXCEPT !.in = "closed", !.out = o]
           IN  r = Outcome("CLOSED", Status(c), c, rest, dst)
    BY <1>3 DEF Consume, got
  <2> DEFINE c == [got EXCEPT !.in = "closed", !.out = o]
  <2>2. o \in {"open", "closing", "closed"} /\ (o = "open" => e.out = "open")
    BY EngineFields
  <2>3. /\ c \in Engines /\ c.failed = e.failed /\ c.out = o
        /\ c.recs = e.recs + 1 /\ c.rxApp = e.rxApp
        /\ c.tx = e.tx /\ c.plain = e.plain
    BY <1>1, <2>2 DEF Engines
  <2>4. r = Outcome("CLOSED", Status(c), c, rest, dst)
    BY <2>1
  <2> HIDE DEF c
  <2> QED BY <2>2, <2>3, <2>4 DEF Outcome, UnwrapEffect
<1>4. CASE rec.kind \notin {"handshake", "close"} /\ Remaining(dst) < rec.len
  <2>1. r = Outcome("BUFFER_OVERFLOW", Status(e), e, src, dst)
    BY <1>4 DEF Consume
  <2> QED BY <2>1 DEF Outcome, UnwrapEffect
<1>5. CASE rec.kind \notin {"handshake", "close"} /\ ~(Remaining(dst) < rec.len)
  <2> DEFINE n == rec.len
             after == [got EXCEPT !.rxApp = @ + n]
  <2>1. AppSize \in Nat /\ n \in 0..AppSize /\ Remaining(dst) \in Nat
    BY RemainingNat, EngineAssumption DEF Records
  <2>2. n \in 0..Remaining(dst)
    BY <1>5, <2>1
  <2>3. /\ after \in Engines /\ after.failed = e.failed /\ after.out = e.out
        /\ after.recs = e.recs + 1 /\ after.rxApp = e.rxApp + n
        /\ after.tx = e.tx /\ after.plain = e.plain
    <3>1. got.rxApp + n \in Nat
      BY <1>1, <2>1, EngineFields
    <3> HIDE DEF n
    <3> QED BY <1>1, <3>1 DEF Engines
  <2>4. r = Outcome("OK", Status(e), after, rest, Put(dst, Span(e.rxApp, n)))
    BY <1>5 DEF Consume, got
  <2> HIDE DEF after, n
  <2> QED BY <2>2, <2>3, <2>4 DEF Outcome, UnwrapEffect
<1> QED BY <1>2, <1>3, <1>4, <1>5

LEMMA UnwrapProperties ==
    ASSUME NEW e \in Engines, NEW src, GoodBuffer(src), NEW dst, GoodBuffer(dst),
           NEW rec \in Records, NEW r \in Unwrap(e, src, dst, rec)
    PROVE  UnwrapEffect(e, src, dst, r)
<1>1. CASE e.in = "closed"
  <2>1. r = Outcome("CLOSED", Status(e), e, src, dst)
    BY <1>1 DEF Unwrap
  <2> QED BY <2>1 DEF Outcome, UnwrapEffect
<1>2. CASE e.in # "closed" /\ Status(e) \in {"NEED_WRAP", "NEED_TASK"}
  <2>1. r = Outcome("OK", Status(e), e, src, dst)
    BY <1>2 DEF Unwrap
  <2> QED BY <2>1 DEF Outcome, UnwrapEffect
<1>3. CASE /\ e.in # "closed" /\ Status(e) \notin {"NEED_WRAP", "NEED_TASK"}
           /\ Remaining(src) < RecLen
  <2>1. r = Outcome("BUFFER_UNDERFLOW", Status(e), e, src, dst)
    BY <1>3 DEF Unwrap
  <2> QED BY <2>1 DEF Outcome, UnwrapEffect
<1>4. CASE /\ e.in # "closed" /\ Status(e) \notin {"NEED_WRAP", "NEED_TASK"}
           /\ ~(Remaining(src) < RecLen)
  <2>1. RecLen <= Remaining(src)
    BY <1>4, RemainingNat, EngineAssumption
  <2>2. CASE InSequence(e, src) /\ Acceptable(e, rec)
    <3>1. r \in Consume(e, src, dst, rec)
      BY <1>4, <2>2 DEF Unwrap
    <3> QED BY <2>1, <2>2, <3>1, ConsumeProperties
  <2>3. CASE ~(InSequence(e, src) /\ Acceptable(e, rec))
    <3>1. PICK f \in Fatal(e), s \in {src, Skip(src, RecLen)} :
             r = Outcome("SSLException", "NOT_HANDSHAKING", f, s, dst)
      BY <1>4, <2>3 DEF Unwrap
    <3> QED BY <2>1, <3>1, FatalProperties DEF Outcome, UnwrapEffect
  <2> QED BY <2>2, <2>3
<1> QED BY <1>1, <1>2, <1>3, <1>4

(* The buffers that unwrap() leaves are good.                              *)
LEMMA UnwrapBuffersGood ==
    ASSUME NEW e \in Engines, NEW src, GoodBuffer(src), Readable(src),
           NEW dst, GoodBuffer(dst), NEW r, UnwrapEffect(e, src, dst, r)
    PROVE  GoodBuffer(r.src) /\ Readable(r.src) /\ GoodBuffer(r.dst)
<1>1. GoodBuffer(r.src) /\ Readable(r.src)
  <2>1. CASE r.src = src
    BY <2>1
  <2>2. CASE RecLen <= Remaining(src) /\ r.src = Skip(src, RecLen)
    <3>1. RecLen \in 0..Remaining(src)
      BY <2>2, RemainingNat, EngineAssumption
    <3> QED BY <2>2, <3>1, SkipGood
  <2> QED BY <2>1, <2>2 DEF UnwrapEffect
<1>2. GoodBuffer(r.dst)
  <2>1. ASSUME NEW n \in 0..Remaining(dst), r.dst = Put(dst, Span(e.rxApp, n))
        PROVE  GoodBuffer(r.dst)
    <3>1. n \in Nat /\ n <= Remaining(dst) /\ e.rxApp \in Nat
      BY RemainingNat, EngineFields
    <3>2. Span(e.rxApp, n) \in Seq(Nat) /\ Len(Span(e.rxApp, n)) = n
      BY <3>1, SpanProperties
    <3> QED BY <2>1, <3>1, <3>2, PutGood
  <2> QED BY <2>1 DEF UnwrapEffect
<1> QED BY <1>1, <1>2

(* The sequence new is old and the n bytes that follow offset `from'.      *)
Appended(new, old, from, n) == new = old \o Span(from, n)

(* The plaintext that unwrap() adds is the next of the peer's.             *)
LEMMA UnwrapPlaintext ==
    ASSUME NEW e \in Engines, NEW src, NEW dst, GoodBuffer(dst), Fillable(dst),
           NEW r, UnwrapEffect(e, src, dst, r)
    PROVE  /\ Fillable(r.dst)
           /\ r.engine.rxApp - e.rxApp \in Nat
           /\ Appended(r.dst.mem, dst.mem, e.rxApp, r.engine.rxApp - e.rxApp)
<1>1. e.rxApp \in Nat /\ dst.mem \in Seq(Nat)
  BY EngineFields DEF GoodBuffer, ByteBuffers
<1>2. CASE r.dst = dst /\ r.engine.rxApp = e.rxApp
  <2>1. r.engine.rxApp - e.rxApp = 0
    BY <1>1, <1>2
  <2>2. Span(e.rxApp, 0) = <<>>
    BY <1>1, SpanEmpty
  <2>3. dst.mem \o <<>> = dst.mem
    BY <1>1, ConcatEmptySeq
  <2>4. Appended(r.dst.mem, dst.mem, e.rxApp, r.engine.rxApp - e.rxApp)
    BY <1>2, <2>1, <2>2, <2>3, Zenon DEF Appended
  <2>5. Fillable(r.dst)
    BY <1>2, Zenon
  <2>6. r.engine.rxApp - e.rxApp \in Nat
    BY <2>1
  <2> QED BY <2>4, <2>5, <2>6, Zenon
<1>3. ASSUME NEW n \in 0..Remaining(dst),
             r.dst = Put(dst, Span(e.rxApp, n)), r.engine.rxApp = e.rxApp + n
      PROVE  /\ Fillable(r.dst)
             /\ r.engine.rxApp - e.rxApp \in Nat
             /\ Appended(r.dst.mem, dst.mem, e.rxApp, r.engine.rxApp - e.rxApp)
  <2>1. n \in Nat /\ n <= Remaining(dst)
    BY RemainingNat
  <2>2. Span(e.rxApp, n) \in Seq(Nat) /\ Len(Span(e.rxApp, n)) = n
    BY <1>1, <2>1, SpanProperties
  <2>3. Fillable(r.dst) /\ r.dst.mem = dst.mem \o Span(e.rxApp, n)
    BY <1>3, <2>1, <2>2, PutGood
  <2>4. r.engine.rxApp - e.rxApp = n
    BY <1>1, <1>3, <2>1
  <2> QED BY <2>1, <2>3, <2>4 DEF Appended
<1> QED BY <1>2, <1>3 DEF UnwrapEffect

-----------------------------------------------------------------------------
(* What one call does to the handshake and the two directions, and what it *)
(* then asks for.                                                          *)

(* A direction may be shut, and nothing else changes.                      *)
Shuts(e, f) ==
    /\ f.out # e.out => \/ e.out = "open" /\ f.out \in {"closing", "closed"}
                        \/ e.out = "closing" /\ f.out = "closed"
    /\ f.in # e.in => f.in = "closed"
    /\ f.step = e.step /\ f.plain = e.plain /\ f.rxApp = e.rxApp

(* One handshake step was done.                                            *)
Advanced(e, f) ==
    /\ Handshaking(e) /\ f.step = e.step + 1
    /\ f.out = e.out /\ f.in = e.in
    /\ f.plain = e.plain /\ f.rxApp = e.rxApp /\ f.failed = e.failed

(* A fatal error shuts both directions.                                    *)
Failed(e, f) ==
    /\ Shuts(e, f) /\ f.failed
    /\ f.in = "closed" /\ f.out # "open"
    /\ e.out # "open" => f.out = e.out

(* One direction carried application data.                                 *)
Carried(e, f) ==
    /\ ~Handshaking(e) /\ f.step = e.step
    /\ f.out = e.out /\ f.in = e.in /\ f.failed = e.failed

LEMMA SameShuts == ASSUME NEW e PROVE Shuts(e, e)
BY DEF Shuts

LEMMA AdvanceControl ==
    ASSUME NEW e \in Engines, Handshaking(e)
    PROVE  Advanced(e, Advance(e))
BY AdvanceProperties DEF Advance, Advanced, Engines

LEMMA FatalControl ==
    ASSUME NEW e \in Engines, NEW f \in Fatal(e)
    PROVE  Failed(e, f)
<1>1. PICK o \in IF e.out = "open" THEN {"closing", "closed"} ELSE {e.out} :
         f = [[e EXCEPT !.in = "closed", !.out = o] EXCEPT !.failed = TRUE]
  BY DEF Fatal, Abort
<1>2. /\ o # "open" /\ (e.out # "open" => o = e.out)
      /\ e.out = "open" => o \in {"closing", "closed"}
  BY <1>1
<1> QED BY <1>1, <1>2 DEF Engines, Failed, Shuts

(* What wrap() does while its outbound side is open: a handshake step that *)
(* is due, or application data.                                            *)
WrapControl(e, r) ==
    \/ r.status = "BUFFER_OVERFLOW" /\ r.engine = e /\ e.out # "closed"
    \/ r.status = "CLOSED" /\ r.engine = e /\ e.out = "closed"
    \/ /\ r.status = "CLOSED" /\ Shuts(e, r.engine) /\ r.engine.failed = e.failed
       /\ e.out = "closing" /\ r.engine.out = "closed" /\ r.engine.in = e.in
    \/ /\ r.status = "OK" /\ e.out = "open"
       /\ \/ r.engine = e /\ (Handshaking(e) => r.hs = Status(e))
          \/ Advanced(e, r.engine) /\ r.hs = StepStatus(r.engine)
          \/ Carried(e, r.engine) /\ r.engine.rxApp = e.rxApp
    \/ r.status = "SSLException" /\ e.out = "open" /\ Failed(e, r.engine)

LEMMA WrapControlProperties ==
    ASSUME NEW e \in Engines, NEW src, NEW dst, NEW r \in Wrap(e, src, dst)
    PROVE  WrapControl(e, r)
<1>0. /\ Sent(e) \in Engines /\ Sent(e).step = e.step
      /\ Sent(e).failed = e.failed /\ Sent(e).out = e.out /\ Sent(e).in = e.in
      /\ Sent(e).rxApp = e.rxApp /\ Sent(e).plain = e.plain
  BY SentProperties DEF Sent, Engines
<1>1. CASE e.out = "closed"
  <2>1. r = Outcome("CLOSED", "NOT_HANDSHAKING", e, src, dst)
    BY <1>1 DEF Wrap
  <2> QED BY <1>1, <2>1 DEF Outcome, WrapControl
<1>2. CASE e.out # "closed" /\ Remaining(dst) < PacketBufferSize(e)
  <2>1. r = Outcome("BUFFER_OVERFLOW", Status(e), e, src, dst)
    BY <1>2 DEF Wrap
  <2> QED BY <1>2, <2>1 DEF Outcome, WrapControl
<1>3. CASE e.out = "closing" /\ ~(Remaining(dst) < PacketBufferSize(e))
  <2> DEFINE after == [Sent(e) EXCEPT !.out = "closed"]
  <2>1. r = Outcome("CLOSED", "NOT_HANDSHAKING", after, src, Emit(e, dst))
    BY <1>3 DEF Wrap
  <2>2. /\ after.out = "closed" /\ after.in = e.in /\ after.failed = e.failed
        /\ after.step = e.step /\ after.plain = e.plain /\ after.rxApp = e.rxApp
    BY <1>0 DEF Engines
  <2> HIDE DEF after
  <2> QED BY <1>3, <2>1, <2>2 DEF Outcome, WrapControl, Shuts
<1>4. CASE /\ e.out \notin {"closing", "closed"} /\ Handshaking(e)
           /\ ~(Remaining(dst) < PacketBufferSize(e))
  <2> DEFINE done == Advance(Sent(e))
  <2>1. e.out = "open"
    BY <1>4, EngineFields
  <2>2. r \in WrapHandshake(e, src, dst)
    BY <1>4 DEF Wrap
  <2>3. Handshaking(Sent(e))
    BY <1>0, <1>4 DEF Handshaking
  <2>4. Advanced(Sent(e), done)
    BY <1>0, <2>3, AdvanceControl
  <2>5. Advanced(e, done)
    BY <1>0, <1>4, <2>4 DEF Advanced
  <2> HIDE DEF done
  <2>6. \/ r = Outcome("OK", Status(e), e, src, dst)
        \/ r = Outcome("OK", StepStatus(done), done, src, Emit(e, dst))
        \/ \E f \in Fatal(e) : r = Outcome("SSLException", "NOT_HANDSHAKING", f, src, dst)
    BY <2>2 DEF WrapHandshake, done
  <2> QED BY <2>1, <2>5, <2>6, FatalControl DEF Outcome, WrapControl
<1>5. CASE /\ e.out \notin {"closing", "closed"} /\ ~Handshaking(e)
           /\ ~(Remaining(dst) < PacketBufferSize(e))
  <2> DEFINE n == Fragment(src)
             after == [Sent(e) EXCEPT !.plain =
                          @ \o SubSeq(src.mem, src.pos + 1, src.pos + n)]
  <2>1. e.out = "open"
    BY <1>5, EngineFields
  <2>2. r \in WrapData(e, src, dst)
    BY <1>5 DEF Wrap
  <2>3. /\ after.out = e.out /\ after.in = e.in /\ after.failed = e.failed
        /\ after.step = e.step /\ after.rxApp = e.rxApp
    BY <1>0 DEF Engines
  <2>4. \/ r = Outcome("OK", "NOT_HANDSHAKING", e, src, dst)
        \/ r = Outcome("OK", "NOT_HANDSHAKING", after, Skip(src, n), Emit(e, dst))
    BY <2>2 DEF WrapData
  <2> HIDE DEF after
  <2> QED BY <1>5, <2>1, <2>3, <2>4 DEF Outcome, WrapControl, Carried
<1> QED BY <1>1, <1>2, <1>3, <1>4, <1>5

(* Once the outbound side is closing, wrap() closes it with one record, or *)
(* wants more room for it.                                                 *)
LEMMA WrapClosing ==
    ASSUME NEW e \in Engines, e.out = "closing", NEW src, NEW dst,
           NEW r \in Wrap(e, src, dst)
    PROVE  \/ r.status = "BUFFER_OVERFLOW" /\ r.engine = e
           \/ /\ r.status = "CLOSED" /\ r.dst = Emit(e, dst)
              /\ r.engine.tx = e.tx + RecLen
<1>1. CASE Remaining(dst) < PacketBufferSize(e)
  <2>1. r = Outcome("BUFFER_OVERFLOW", Status(e), e, src, dst)
    BY <1>1 DEF Wrap
  <2> QED BY <2>1 DEF Outcome
<1>2. CASE ~(Remaining(dst) < PacketBufferSize(e))
  <2>1. r = Outcome("CLOSED", "NOT_HANDSHAKING", [Sent(e) EXCEPT !.out = "closed"],
                    src, Emit(e, dst))
    BY <1>2 DEF Wrap
  <2>2. Sent(e) \in Engines /\ Sent(e).tx = e.tx + RecLen
    BY SentProperties DEF Sent, Engines
  <2>3. [Sent(e) EXCEPT !.out = "closed"].tx = e.tx + RecLen
    BY <2>2 DEF Engines
  <2> QED BY <2>1, <2>3 DEF Outcome
<1> QED BY <1>1, <1>2

(* What unwrap() does: nothing, where the engine does not want to read; a  *)
(* handshake step, application data, or the end of a direction.            *)
UnwrapControl(e, r) ==
    \/ r.status = "CLOSED" /\ r.engine = e /\ e.in = "closed"
    \/ /\ r.status = "OK" /\ r.engine = e /\ e.in = "open"
       /\ Status(e) \in {"NEED_WRAP", "NEED_TASK"} /\ r.hs = Status(e)
    \/ /\ r.status = "BUFFER_UNDERFLOW" /\ r.engine = e /\ e.in = "open"
       /\ Status(e) \notin {"NEED_WRAP", "NEED_TASK"}
    \/ r.status = "BUFFER_OVERFLOW" /\ r.engine = e /\ ~Handshaking(e)
    \/ /\ r.status = "OK" /\ e.in = "open"
       /\ \/ Advanced(e, r.engine) /\ r.hs = StepStatus(r.engine)
          \/ Carried(e, r.engine) /\ r.engine.plain = e.plain
    \/ /\ r.status = "CLOSED" /\ ~Handshaking(e)
       /\ Shuts(e, r.engine) /\ r.engine.failed = e.failed
       /\ r.engine.out \in {e.out, "closing"}
    \/ r.status = "SSLException" /\ Failed(e, r.engine)

LEMMA ConsumeControl ==
    ASSUME NEW e \in Engines, e.in = "open", NEW src, NEW dst, NEW rec \in Records,
           Acceptable(e, rec), NEW r \in Consume(e, src, dst, rec)
    PROVE  UnwrapControl(e, r)
<1> DEFINE got == [e EXCEPT !.recs = @ + 1]
           rest == Skip(src, RecLen)
<1>1. /\ got \in Engines /\ got.step = e.step
      /\ got.failed = e.failed /\ got.out = e.out /\ got.in = e.in
      /\ got.rxApp = e.rxApp /\ got.plain = e.plain
  BY DEF Engines
<1> HIDE DEF got
<1>2. CASE rec.kind = "handshake"
  <2>1. Handshaking(got) /\ Handshaking(e)
    BY <1>1, <1>2 DEF Acceptable, Handshaking
  <2>2. Advanced(got, Advance(got))
    BY <1>1, <2>1, AdvanceControl
  <2>3. Advanced(e, Advance(got))
    BY <1>1, <2>1, <2>2 DEF Advanced
  <2>4. r = Outcome("OK", StepStatus(Advance(got)), Advance(got), rest, dst)
    BY <1>2 DEF Consume, got
  <2> QED BY <2>3, <2>4 DEF Outcome, UnwrapControl
<1>3. CASE rec.kind = "close"
  <2>1. PICK o \in {e.out, IF e.out = "open" THEN "closing" ELSE e.out} :
           LET c == [got EXCEPT !.in = "closed", !.out = o]
           IN  r = Outcome("CLOSED", Status(c), c, rest, dst)
    BY <1>3 DEF Consume, got
  <2> DEFINE c == [got EXCEPT !.in = "closed", !.out = o]
  <2>2. o = e.out \/ (e.out = "open" /\ o = "closing")
    BY <2>1
  <2>3. /\ c.out = o /\ c.in = "closed" /\ c.failed = e.failed /\ c.step = e.step
        /\ c.plain = e.plain /\ c.rxApp = e.rxApp
    BY <1>1 DEF Engines
  <2>4. r = Outcome("CLOSED", Status(c), c, rest, dst)
    BY <2>1
  <2>5. ~Handshaking(e)
    BY <1>3 DEF Acceptable
  <2> HIDE DEF c
  <2> QED BY <2>2, <2>3, <2>4, <2>5 DEF Outcome, UnwrapControl, Shuts
<1>4. CASE rec.kind \notin {"handshake", "close"}
  <2> DEFINE after == [got EXCEPT !.rxApp = @ + rec.len]
  <2>1. ~Handshaking(e)
    BY <1>4 DEF Acceptable
  <2>2. /\ after.out = e.out /\ after.in = e.in /\ after.failed = e.failed
        /\ after.step = e.step /\ after.plain = e.plain
    BY <1>1 DEF Engines
  <2>3. \/ r = Outcome("BUFFER_OVERFLOW", Status(e), e, src, dst)
        \/ r = Outcome("OK", Status(e), after, rest, Put(dst, Span(e.rxApp, rec.len)))
    BY <1>4 DEF Consume, got
  <2> HIDE DEF after
  <2> QED BY <2>1, <2>2, <2>3 DEF Outcome, UnwrapControl, Carried
<1> QED BY <1>2, <1>3, <1>4

LEMMA UnwrapControlProperties ==
    ASSUME NEW e \in Engines, NEW src, NEW dst, NEW rec \in Records,
           NEW r \in Unwrap(e, src, dst, rec)
    PROVE  UnwrapControl(e, r)
<1>1. CASE e.in = "closed"
  <2>1. r = Outcome("CLOSED", Status(e), e, src, dst)
    BY <1>1 DEF Unwrap
  <2> QED BY <1>1, <2>1 DEF Outcome, UnwrapControl
<1>2. CASE e.in # "closed"
  <2>0. e.in = "open"
    BY <1>2, EngineFields
  <2>1. CASE Status(e) \in {"NEED_WRAP", "NEED_TASK"}
    <3>1. r = Outcome("OK", Status(e), e, src, dst)
      BY <1>2, <2>1 DEF Unwrap
    <3> QED BY <2>0, <2>1, <3>1 DEF Outcome, UnwrapControl
  <2>2. CASE Status(e) \notin {"NEED_WRAP", "NEED_TASK"} /\ Remaining(src) < RecLen
    <3>1. r = Outcome("BUFFER_UNDERFLOW", Status(e), e, src, dst)
      BY <1>2, <2>2 DEF Unwrap
    <3> QED BY <2>0, <2>2, <3>1 DEF Outcome, UnwrapControl
  <2>3. CASE /\ Status(e) \notin {"NEED_WRAP", "NEED_TASK"} /\ ~(Remaining(src) < RecLen)
             /\ InSequence(e, src) /\ Acceptable(e, rec)
    <3>1. r \in Consume(e, src, dst, rec)
      BY <1>2, <2>3 DEF Unwrap
    <3> QED BY <2>0, <2>3, <3>1, ConsumeControl
  <2>4. CASE /\ Status(e) \notin {"NEED_WRAP", "NEED_TASK"} /\ ~(Remaining(src) < RecLen)
             /\ ~(InSequence(e, src) /\ Acceptable(e, rec))
    <3>1. PICK f \in Fatal(e), s \in {src, Skip(src, RecLen)} :
             r = Outcome("SSLException", "NOT_HANDSHAKING", f, s, dst)
      BY <1>2, <2>4 DEF Unwrap
    <3>2. Failed(e, f)
      BY FatalControl
    <3> QED BY <3>1, <3>2 DEF Outcome, UnwrapControl
  <2> QED BY <2>1, <2>2, <2>3, <2>4
<1> QED BY <1>1, <1>2

(* The two half-closes and the delegated tasks.                            *)
LEMMA CloseOutboundControl ==
    ASSUME NEW e \in Engines
    PROVE  LET f == CloseOutbound(e)
           IN  /\ Shuts(e, f) /\ f.failed = e.failed /\ f.in = e.in
               /\ f.out = IF e.out = "open" THEN "closing" ELSE e.out
BY DEF CloseOutbound, Shuts, Engines

LEMMA CloseInboundControl ==
    ASSUME NEW e \in Engines, NEW r \in CloseInbound(e)
    PROVE  /\ Shuts(e, r.engine) /\ r.engine.failed = e.failed
           /\ r.engine.in = "closed"
           /\ e.out # "open" => r.engine.out = e.out
           /\ IF r.throws THEN r.engine.out # "open" ELSE r.engine.out = e.out
<1>1. CASE r = [throws |-> FALSE, engine |-> e] /\ e.in = "closed"
  BY <1>1, SameShuts
<1>2. CASE r = [throws |-> FALSE, engine |-> [e EXCEPT !.in = "closed"]]
  BY <1>2 DEF Shuts, Engines
<1>3. ASSUME NEW f \in Abort(e), r = [throws |-> TRUE, engine |-> f]
      PROVE  /\ Shuts(e, f) /\ f.failed = e.failed /\ f.in = "closed"
             /\ f.out # "open" /\ (e.out # "open" => f.out = e.out)
  <2>1. PICK o \in IF e.out = "open" THEN {"closing", "closed"} ELSE {e.out} :
           f = [e EXCEPT !.in = "closed", !.out = o]
    BY DEF Abort
  <2>2. /\ o # "open" /\ (e.out # "open" => o = e.out)
        /\ e.out = "open" => o \in {"closing", "closed"}
    BY <2>1
  <2> QED BY <2>1, <2>2 DEF Engines, Shuts
<1> QED BY <1>1, <1>2, <1>3 DEF CloseInbound

LEMMA RunDelegatedTasksControl ==
    ASSUME NEW e \in Engines
    PROVE  LET f == RunDelegatedTasks(e)
           IN  \/ f = e /\ Status(e) # "NEED_TASK"
               \/ Advanced(e, f) /\ e.in = "open" /\ e.out = "open"
<1>1. Status(e) = "NEED_TASK" => Handshaking(e) /\ e.in = "open" /\ e.out = "open"
  BY DEF Status
<1> QED BY <1>1, AdvanceControl DEF RunDelegatedTasks

-----------------------------------------------------------------------------
(* What one call takes, leaves and needs room for.                         *)

(* Both directions are open and the handshake is not done.                 *)
InHandshake(e) == e.in = "open" /\ e.out = "open" /\ Handshaking(e)

(* wrap(): it refuses a packet buffer without room, ends the outbound side *)
(* once, takes nothing in the handshake, and one record's worth after it.  *)
WrapCases(e, src, dst, r) ==
    /\ r.dst.cap = dst.cap
    /\ \/ /\ e.out = "closed" /\ r.status = "CLOSED"
          /\ r.hs = "NOT_HANDSHAKING" /\ r.engine = e /\ r.src = src
       \/ /\ e.out # "closed" /\ r.status = "BUFFER_OVERFLOW"
          /\ Remaining(dst) < PacketBufferSize(e)
          /\ r.engine = e /\ r.src = src /\ r.dst = dst
       \/ /\ e.out = "closing" /\ r.status = "CLOSED"
          /\ r.hs = "NOT_HANDSHAKING" /\ r.engine.out = "closed" /\ r.src = src
       \/ /\ e.out = "open" /\ r.status = "SSLException"
          /\ Failed(e, r.engine) /\ r.src = src
       \/ /\ e.out = "open" /\ r.status = "OK" /\ Handshaking(e)
          /\ r.src = src
          /\ \/ Script[e.step + 1] # "NEED_WRAP" /\ r.engine = e /\ r.hs = Status(e)
             \/ /\ Script[e.step + 1] = "NEED_WRAP"
                /\ Advanced(e, r.engine) /\ r.hs = StepStatus(r.engine)
       \/ /\ e.out = "open" /\ r.status = "OK" /\ ~Handshaking(e)
          /\ r.hs = "NOT_HANDSHAKING" /\ Carried(e, r.engine)
          /\ \/ Fragment(src) = 0 /\ r.src = src
             \/ r.src = Skip(src, Fragment(src))

LEMMA EmitCapacity == \A e, dst : Emit(e, dst).cap = dst.cap
BY DEF Emit, Put

LEMMA WrapCasesHold ==
    ASSUME NEW e \in Engines, NEW src, NEW dst, NEW r \in Wrap(e, src, dst)
    PROVE  WrapCases(e, src, dst, r)
<1>0. /\ Sent(e) \in Engines /\ Sent(e).step = e.step
      /\ Sent(e).failed = e.failed /\ Sent(e).out = e.out /\ Sent(e).in = e.in
      /\ Sent(e).rxApp = e.rxApp /\ Sent(e).plain = e.plain
  BY SentProperties DEF Sent, Engines
<1>1. CASE e.out = "closed"
  <2>1. r = Outcome("CLOSED", "NOT_HANDSHAKING", e, src, dst)
    BY <1>1 DEF Wrap
  <2> QED BY <1>1, <2>1 DEF Outcome, WrapCases
<1>2. CASE e.out # "closed" /\ Remaining(dst) < PacketBufferSize(e)
  <2>1. r = Outcome("BUFFER_OVERFLOW", Status(e), e, src, dst)
    BY <1>2 DEF Wrap
  <2> QED BY <1>2, <2>1 DEF Outcome, WrapCases
<1>3. CASE e.out = "closing" /\ ~(Remaining(dst) < PacketBufferSize(e))
  <2> DEFINE f == [Sent(e) EXCEPT !.out = "closed"]
  <2>1. r = Outcome("CLOSED", "NOT_HANDSHAKING", f, src, Emit(e, dst))
    BY <1>3 DEF Wrap
  <2>2. f.out = "closed"
    BY <1>0 DEF Engines
  <2> HIDE DEF f
  <2> QED BY <1>3, <2>1, <2>2, EmitCapacity DEF Outcome, WrapCases
<1>4. CASE e.out = "open" /\ ~(Remaining(dst) < PacketBufferSize(e)) /\ Handshaking(e)
  <2>1. r \in WrapHandshake(e, src, dst)
    BY <1>4 DEF Wrap
  <2>2. CASE Script[e.step + 1] # "NEED_WRAP"
    <3>1. r = Outcome("OK", Status(e), e, src, dst)
      BY <2>1, <2>2 DEF WrapHandshake
    <3> QED BY <1>4, <2>2, <3>1 DEF Outcome, WrapCases
  <2>3. CASE Script[e.step + 1] = "NEED_WRAP"
    <3> DEFINE done == Advance(Sent(e))
    <3>1. Advanced(e, done)
      <4>1. Handshaking(Sent(e))
        BY <1>0, <1>4 DEF Handshaking
      <4>2. Advanced(Sent(e), done)
        BY <1>0, <4>1, AdvanceControl
      <4> QED BY <1>0, <1>4, <4>2 DEF Advanced
    <3>2. \/ r = Outcome("OK", StepStatus(done), done, src, Emit(e, dst))
          \/ \E f \in Fatal(e) : r = Outcome("SSLException", "NOT_HANDSHAKING", f, src, dst)
      BY <2>1, <2>3 DEF WrapHandshake
    <3> HIDE DEF done
    <3>3. CASE r = Outcome("OK", StepStatus(done), done, src, Emit(e, dst))
      BY <1>4, <2>3, <3>1, <3>3, EmitCapacity DEF Outcome, WrapCases
    <3>4. ASSUME NEW f \in Fatal(e), r = Outcome("SSLException", "NOT_HANDSHAKING", f, src, dst)
          PROVE  WrapCases(e, src, dst, r)
      <4>1. Failed(e, f)
        BY <3>4, FatalControl
      <4> QED BY <1>4, <3>4, <4>1 DEF Outcome, WrapCases
    <3> QED BY <3>2, <3>3, <3>4
  <2> QED BY <2>2, <2>3
<1>5. CASE e.out = "open" /\ ~(Remaining(dst) < PacketBufferSize(e)) /\ ~Handshaking(e)
  <2> DEFINE after == [Sent(e) EXCEPT !.plain =
                          @ \o SubSeq(src.mem, src.pos + 1, src.pos + Fragment(src))]
  <2>1. r \in WrapData(e, src, dst)
    BY <1>5 DEF Wrap
  <2>2. /\ after.out = e.out /\ after.in = e.in /\ after.failed = e.failed
        /\ after.step = e.step
    BY <1>0 DEF Engines
  <2>3. \/ /\ Fragment(src) = 0 /\ r = Outcome("OK", "NOT_HANDSHAKING", e, src, dst)
        \/ r = Outcome("OK", "NOT_HANDSHAKING", after, Skip(src, Fragment(src)), Emit(e, dst))
    BY <2>1 DEF WrapData
  <2> HIDE DEF after
  <2> QED BY <1>5, <2>2, <2>3, EmitCapacity DEF Outcome, WrapCases, Carried
<1> QED BY <1>1, <1>2, <1>3, <1>4, <1>5, EngineFields

(* wrap() that has a record to make makes one.                             *)
LEMMA WrapEmits ==
    ASSUME NEW e \in Engines, e.out = "open", NEW src, NEW dst, NEW r \in Wrap(e, src, dst),
           r.status = "OK", Handshaking(e) => Script[e.step + 1] = "NEED_WRAP",
           ~Handshaking(e) => Fragment(src) # 0
    PROVE  r.engine.tx = e.tx + RecLen
<1>1. ~(Remaining(dst) < PacketBufferSize(e))
  <2>1. ASSUME Remaining(dst) < PacketBufferSize(e) PROVE FALSE
    <3>1. r = Outcome("BUFFER_OVERFLOW", Status(e), e, src, dst)
      BY <2>1 DEF Wrap
    <3> QED BY <3>1 DEF Outcome
  <2> QED BY <2>1
<1>2. Sent(e) \in Engines /\ Sent(e).step = e.step /\ Sent(e).tx = e.tx + RecLen
  BY SentProperties
<1>3. CASE Handshaking(e)
  <2> DEFINE done == Advance(Sent(e))
  <2>1. done.tx = e.tx + RecLen
    BY <1>2, <1>3, AdvanceProperties DEF Handshaking
  <2> HIDE DEF done
  <2>2. r \in WrapHandshake(e, src, dst)
    BY <1>1, <1>3 DEF Wrap
  <2>3. \/ r = Outcome("OK", StepStatus(done), done, src, Emit(e, dst))
        \/ \E f \in Fatal(e) : r = Outcome("SSLException", "NOT_HANDSHAKING", f, src, dst)
    BY <1>3, <2>2 DEF WrapHandshake, done
  <2>4. r = Outcome("OK", StepStatus(done), done, src, Emit(e, dst))
    BY <2>3 DEF Outcome
  <2> QED BY <2>1, <2>4 DEF Outcome
<1>4. CASE ~Handshaking(e)
  <2> DEFINE after == [Sent(e) EXCEPT !.plain =
                          @ \o SubSeq(src.mem, src.pos + 1, src.pos + Fragment(src))]
  <2>1. after.tx = e.tx + RecLen
    BY <1>2 DEF Engines
  <2>2. r \in WrapData(e, src, dst)
    BY <1>1, <1>4 DEF Wrap
  <2>3. r = Outcome("OK", "NOT_HANDSHAKING", after, Skip(src, Fragment(src)), Emit(e, dst))
    BY <1>4, <2>2 DEF WrapData
  <2> HIDE DEF after
  <2> QED BY <2>1, <2>3 DEF Outcome
<1> QED BY <1>3, <1>4

(* unwrap(): with the inbound side open and something to read, a part of a *)
(* record makes it wait and a whole one makes it go on; plaintext that     *)
(* does not fit is not taken.                                              *)
UnwrapCases(e, src, dst, r) ==
    /\ r.dst.cap = dst.cap
    /\ \/ r.dst = dst
       \/ e.in = "open" /\ ~Handshaking(e) /\ r.status = "OK"
    /\ \/ e.in = "closed" /\ r.status = "CLOSED" /\ r.hs = Status(e) /\ r.engine = e
       \/ /\ e.in = "open" /\ Status(e) \in {"NEED_WRAP", "NEED_TASK"}
          /\ r.status = "OK" /\ r.hs = Status(e) /\ r.engine = e
       \/ /\ e.in = "open" /\ Status(e) \notin {"NEED_WRAP", "NEED_TASK"}
          /\ Remaining(src) < RecLen
          /\ r.status = "BUFFER_UNDERFLOW" /\ r.engine = e /\ r.src = src
       \/ /\ e.in = "open" /\ Status(e) \notin {"NEED_WRAP", "NEED_TASK"}
          /\ ~(Remaining(src) < RecLen)
          /\ \/ r.status = "SSLException" /\ Failed(e, r.engine)
             \/ /\ r.status = "OK" /\ Handshaking(e)
                /\ Advanced(e, r.engine) /\ r.hs = StepStatus(r.engine)
             \/ /\ r.status = "CLOSED" /\ ~Handshaking(e) /\ Shuts(e, r.engine)
                /\ r.engine.in = "closed" /\ r.hs = Status(r.engine)
             \/ /\ r.status = "OK" /\ ~Handshaking(e) /\ Carried(e, r.engine)
                /\ r.hs = Status(r.engine)
             \/ /\ r.status = "BUFFER_OVERFLOW" /\ ~Handshaking(e)
                /\ Remaining(dst) < AppSize /\ r.engine = e

LEMMA UnwrapCasesHold ==
    ASSUME NEW e \in Engines, NEW src, NEW dst, GoodBuffer(dst), NEW rec \in Records,
           NEW r \in Unwrap(e, src, dst, rec)
    PROVE  UnwrapCases(e, src, dst, r)
<1>1. CASE e.in = "closed"
  <2>1. r = Outcome("CLOSED", Status(e), e, src, dst)
    BY <1>1 DEF Unwrap
  <2> QED BY <1>1, <2>1 DEF Outcome, UnwrapCases
<1>2. CASE e.in = "open" /\ Status(e) \in {"NEED_WRAP", "NEED_TASK"}
  <2>1. r = Outcome("OK", Status(e), e, src, dst)
    BY <1>2 DEF Unwrap
  <2> QED BY <1>2, <2>1 DEF Outcome, UnwrapCases
<1>3. CASE /\ e.in = "open" /\ Status(e) \notin {"NEED_WRAP", "NEED_TASK"}
           /\ Remaining(src) < RecLen
  <2>1. r = Outcome("BUFFER_UNDERFLOW", Status(e), e, src, dst)
    BY <1>3 DEF Unwrap
  <2> QED BY <1>3, <2>1 DEF Outcome, UnwrapCases
<1>4. CASE /\ e.in = "open" /\ Status(e) \notin {"NEED_WRAP", "NEED_TASK"}
           /\ ~(Remaining(src) < RecLen)
  <2>1. CASE r \in {Outcome("SSLException", "NOT_HANDSHAKING", f, s, dst) :
                       f \in Fatal(e), s \in {src, Skip(src, RecLen)}}
    <3>1. PICK f \in Fatal(e), s \in {src, Skip(src, RecLen)} :
             r = Outcome("SSLException", "NOT_HANDSHAKING", f, s, dst)
      BY <2>1
    <3>2. Failed(e, f)
      BY FatalControl
    <3> QED BY <1>4, <3>1, <3>2 DEF Outcome, UnwrapCases
  <2>2. CASE r \in Consume(e, src, dst, rec) /\ Acceptable(e, rec)
    <3> DEFINE got == [e EXCEPT !.recs = @ + 1]
               rest == Skip(src, RecLen)
    <3>1. /\ got \in Engines /\ got.step = e.step
          /\ got.failed = e.failed /\ got.out = e.out /\ got.in = e.in
          /\ got.rxApp = e.rxApp /\ got.plain = e.plain
      BY DEF Engines
    <3> HIDE DEF got
    <3>2. CASE rec.kind = "handshake"
      <4>1. Handshaking(got) /\ Handshaking(e)
        BY <2>2, <3>1, <3>2 DEF Acceptable, Handshaking
      <4>2. Advanced(got, Advance(got))
        BY <3>1, <4>1, AdvanceControl
      <4>3. Advanced(e, Advance(got))
        BY <3>1, <4>1, <4>2 DEF Advanced
      <4>4. r = Outcome("OK", StepStatus(Advance(got)), Advance(got), rest, dst)
        BY <2>2, <3>2 DEF Consume, got
      <4> QED BY <1>4, <4>1, <4>3, <4>4 DEF Outcome, UnwrapCases
    <3>3. CASE rec.kind = "close"
      <4>1. PICK o \in {e.out, IF e.out = "open" THEN "closing" ELSE e.out} :
               LET c == [got EXCEPT !.in = "closed", !.out = o]
               IN  r = Outcome("CLOSED", Status(c), c, rest, dst)
        BY <2>2, <3>3 DEF Consume, got
      <4> DEFINE c == [got EXCEPT !.in = "closed", !.out = o]
      <4>2. o = e.out \/ (e.out = "open" /\ o = "closing")
        BY <4>1
      <4>3. /\ c.out = o /\ c.in = "closed" /\ c.step = e.step
            /\ c.plain = e.plain /\ c.rxApp = e.rxApp
        BY <3>1 DEF Engines
      <4>4. r = Outcome("CLOSED", Status(c), c, rest, dst)
        BY <4>1
      <4>5. ~Handshaking(e)
        BY <2>2, <3>3 DEF Acceptable
      <4> HIDE DEF c
      <4> QED BY <1>4, <4>2, <4>3, <4>4, <4>5 DEF Outcome, UnwrapCases, Shuts
    <3>4. CASE rec.kind \notin {"handshake", "close"}
      <4> DEFINE after == [got EXCEPT !.rxApp = @ + rec.len]
                 out == Put(dst, Span(e.rxApp, rec.len))
      <4>1. ~Handshaking(e)
        BY <2>2, <3>4 DEF Acceptable
      <4>2. /\ after.out = e.out /\ after.in = e.in /\ after.failed = e.failed
            /\ after.step = e.step
        BY <3>1 DEF Engines
      <4>3. rec.len \in 0..AppSize /\ AppSize \in Nat
        BY EngineAssumption DEF Records
      <4>4. \/ Remaining(dst) < rec.len /\ r = Outcome("BUFFER_OVERFLOW", Status(e), e, src, dst)
            \/ r = Outcome("OK", Status(e), after, rest, out)
        BY <2>2, <3>4 DEF Consume, got
      <4>5. Status(after) = Status(e)
        BY <4>2 DEF Status, Handshaking
      <4>6. out.cap = dst.cap
        BY DEF Put
      <4>7. Remaining(dst) < rec.len => Remaining(dst) < AppSize
        BY <4>3, RemainingNat
      <4> HIDE DEF after, out
      <4> QED BY <1>4, <4>1, <4>2, <4>4, <4>5, <4>6, <4>7 DEF Outcome, UnwrapCases, Carried
    <3> QED BY <3>2, <3>3, <3>4
  <2> QED BY <1>4, <2>1, <2>2 DEF Unwrap
<1> QED BY <1>1, <1>2, <1>3, <1>4, EngineFields

=============================================================================
