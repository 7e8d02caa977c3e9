-------------------------- MODULE TlsStream_proofs --------------------------
(***************************************************************************)
(* What holds of both streams, for every handshake script, record and      *)
(* buffer size, stack limit and bound.                                     *)
(*                                                                         *)
(* The two streams make the same moves: they differ in what they do with   *)
(* an exception, with a delegated task and with a buffer that is replaced. *)
(* Move has a disjunct for every method and admits what either stream      *)
(* does there.  The lemmas of this module are about Move; SSLStream_proofs *)
(* and PalSslStream_proofs show that each step of their stream is one.     *)
(***************************************************************************)
EXTENDS TlsStream, SslEngine_proofs

OnTop(f) == stack # <<>> /\ Head(stack) = f

(* The method on top goes on, or an exception ends the call.               *)
GoesOn(callees, rest) == Calls(callees, rest) /\ call' = call
Ends == stack' = <<>> /\ call' \in {"threw", "aborted"}

(* What a handshake status calls for.                                      *)
CalleesOf(hs) ==
    CASE hs = "NEED_WRAP"   -> <<"doWrap">>
      [] hs = "NEED_UNWRAP" -> <<"doUnwrap">>
      [] hs = "NEED_TASK"   -> <<"runTasks">>
      [] OTHER              -> <<>>

Follows(hs, rest) == GoesOn(CalleesOf(hs), rest) \/ Ends

(* A buffer replaced by a larger one keeps its bytes, or the call ends.    *)
Regrown(new, old) ==
    /\ GoodBuffer(new)
    /\ Fillable(old) => Fillable(new) /\ new.mem = old.mem /\ new.pos = old.pos

Retries(new, old, callee, rest) ==
    \/ Regrown(new, old) /\ GoesOn(<<callee>>, <<rest>>)
    \/ GoodBuffer(new) /\ stack' = <<>> /\ call' = "aborted"

-----------------------------------------------------------------------------
(* The moves.                                                              *)

Drained(b) == Skip(Flip(b), Remaining(Flip(b)))

Flushed(b, hs, rest) ==
    \/ /\ outWire' = outWire \o Unread(Flip(b)) /\ netOut' = Compact(Drained(b))
       /\ Follows(hs, rest)
    \/ outWire' = outWire /\ netOut' = Drained(b) /\ Ends

WrapMoved(r) ==
    /\ engine' = r.engine
    /\ \/ /\ r.status = "SSLException"
          /\ appOut' = r.src /\ UNCHANGED <<netOut, outWire>>
          /\ GoesOn(<<>>, <<>>) \/ Ends
       \/ /\ r.status = "OK" /\ appOut' = Compact(r.src)
          /\ Flushed(r.dst, r.hs, <<"wrapRest">>)
       \/ /\ r.status = "CLOSED" /\ appOut' = Compact(r.src)
          /\ Flushed(r.dst, r.hs, <<"closeRest">>)
       \/ /\ r.status = "BUFFER_OVERFLOW" /\ appOut' = Compact(r.src)
          /\ UNCHANGED outWire
          /\ Retries(netOut', r.dst, "doWrap", "wrapOverflow")

WrapMove ==
    /\ OnTop("doWrap")
    /\ \E r \in Wrap(engine, Flip(appOut), netOut) : WrapMoved(r)
    /\ UNCHANGED <<peerVars, readIn, netIn, appIn, calls, accepted, received>>

(* The buffer that doUnwrap() flips: netIn as it was, or with count bytes  *)
(* more from the socket.                                                   *)
ReadInto(b) ==
    \/ b = netIn /\ readIn' = readIn
    \/ \E count \in Nat : /\ count <= Remaining(netIn)
                          /\ b = Put(netIn, Span(readIn, count))
                          /\ readIn' = readIn + count

UnwrapMoved(r) ==
    /\ engine' = r.engine
    /\ \/ /\ r.status = "SSLException" /\ netIn' = r.src /\ appIn' = r.dst
          /\ GoesOn(<<>>, <<>>) \/ Ends
       \/ /\ r.status = "OK" /\ netIn' = Compact(r.src) /\ appIn' = r.dst
          /\ Follows(r.hs, <<"ret">>)
       \/ /\ r.status = "CLOSED" /\ netIn' = Compact(r.src) /\ appIn' = r.dst
          /\ Follows(r.hs, <<"closeRest">>)
       \/ /\ r.status = "BUFFER_UNDERFLOW" /\ appIn' = r.dst
          /\ Retries(netIn', Compact(r.src), "doUnwrap", "unwrapUnderflow")
       \/ /\ r.status = "BUFFER_OVERFLOW" /\ netIn' = Compact(r.src)
          /\ Retries(appIn', r.dst, "doUnwrap", "unwrapOverflow")

UnwrapMove ==
    /\ OnTop("doUnwrap")
    /\ \E b : /\ ReadInto(b)
              /\ \E r \in Unwrap(engine, Flip(b), appIn, NextRecord) : UnwrapMoved(r)
    /\ UNCHANGED <<peerVars, outWire, appOut, netOut, calls, accepted, received>>

(* The end of the stream.                                                  *)
EndOfStreamMove ==
    /\ OnTop("doUnwrap")
    /\ \E r \in CloseInbound(engine) :
          /\ engine' = r.engine
          /\ \/ GoesOn(IF r.throws THEN <<>> ELSE <<"close">>, <<"ret">>)
             \/ Ends
    /\ UNCHANGED <<peerVars, wireVars, appOut, netOut, netIn, appIn,
                   calls, accepted, received>>

(* receive() has data, and is the last method or has others to return to;  *)
(* or it goes on to doUnwrap().                                            *)
ReceiveMove ==
    /\ OnTop("receive")
    /\ LET b == Flip(appIn)
       IN  \/ /\ Remaining(b) > 0
              /\ received' = received \o Unread(b)
              /\ appIn' = Compact(Skip(b, Remaining(b)))
              /\ \/ Len(stack) = 1 /\ stack' = <<>> /\ call' = "idle"
                 \/ GoesOn(<<>>, <<"ret">>)
           \/ /\ Remaining(b) = 0
              /\ appIn' = Compact(b) /\ UNCHANGED received
              /\ \E w \in {"receive", "receiveRest"} : GoesOn(<<"doUnwrap">>, <<w>>)
    /\ UNCHANGED <<peerVars, wireVars, engine, appOut, netOut, netIn, calls, accepted>>

CloseMove ==
    /\ OnTop("close")
    /\ engine' = CloseOutbound(engine)
    /\ Follows(Status(CloseOutbound(engine)), <<"ret">>)
    /\ UNCHANGED <<peerVars, wireVars, appOut, netOut, netIn, appIn,
                   calls, accepted, received>>

TasksMove ==
    /\ OnTop("runTasks")
    /\ engine' = RunDelegatedTasks(engine)
    /\ Follows(Status(RunDelegatedTasks(engine)), <<"ret">>)
    /\ UNCHANGED <<peerVars, wireVars, appOut, netOut, netIn, appIn,
                   calls, accepted, received>>

(* A suspended method makes its last call.                                 *)
RestMove ==
    /\ \/ OnTop("wrapRest") /\ GoesOn(IF appOut.pos > 0 THEN <<"doWrap">> ELSE <<>>, <<"ret">>)
       \/ OnTop("closeRest") /\ GoesOn(<<"close">>, <<"ret">>)
       \/ OnTop("receiveRest") /\ GoesOn(<<"receive">>, <<"ret">>)
    /\ UNCHANGED <<peerVars, wireVars, streamVars, calls, accepted, received>>

(* An exception, or an overflow of the stack.                              *)
EndMove ==
    /\ stack # <<>>
    /\ stack' = <<>> /\ call' \in {"threw", "aborted", "crashed"}
    /\ UNCHANGED <<peerVars, wireVars, streamVars, calls, accepted, received>>

-----------------------------------------------------------------------------
(* The caller's moves.                                                     *)

OpenMove ==
    /\ call = "new"
    /\ engine' = NewEngine
    /\ appOut' = Allocate(AppOutSize)
    /\ netOut' = Allocate(PacketBufferSize(NewEngine))
    /\ netIn'  = Allocate(PacketBufferSize(NewEngine))
    /\ appIn'  = Allocate(IF ApplicationBufferSize(NewEngine) > AppInSize
                          THEN ApplicationBufferSize(NewEngine) ELSE AppInSize)
    /\ \/ call' = "authenticate" /\ stack' = CalleesOf(Status(NewEngine)) \o <<"ret">>
       \/ Ends
    /\ UNCHANGED <<peerVars, wireVars, calls, accepted, received>>

SendMove(n) ==
    /\ Enter
    /\ \/ /\ n <= Remaining(appOut)
          /\ appOut' = Put(appOut, Span(accepted, n))
          /\ accepted' = accepted + n
          /\ stack' = <<"doWrap", "ret">> /\ call' = "send"
       \/ Ends /\ UNCHANGED <<appOut, accepted>>
    /\ UNCHANGED <<peerVars, wireVars, engine, netOut, netIn, appIn, received>>

AskMove ==
    /\ \/ Enter /\ call' = "receive" /\ stack' = <<"receive">>
       \/ Enter /\ call' = "close" /\ stack' = <<"close", "ret">>
       \/ call = "idle" /\ call' = "disposed" /\ UNCHANGED <<stack, calls>>
    /\ UNCHANGED <<peerVars, wireVars, streamVars, accepted, received>>

Move ==
    \/ WrapMove \/ UnwrapMove \/ EndOfStreamMove
    \/ ReceiveMove \/ CloseMove \/ TasksMove \/ RestMove \/ EndMove \/ Return
    \/ OpenMove \/ (\E n \in SendSizes : SendMove(n)) \/ AskMove
    \/ Peer \/ UNCHANGED vars

-----------------------------------------------------------------------------
(* The state's types, part by part.                                        *)

(* The type invariant names the buffers one by one below.                  *)
LEMMA BuffersGood ==
    TypeOK => /\ GoodBuffer(appOut) /\ GoodBuffer(netOut)
              /\ GoodBuffer(netIn) /\ GoodBuffer(appIn)
BY DEF TypeOK, GoodBuffer

LEMMA BufferSizes ==
    ASSUME NEW e
    PROVE  PacketBufferSize(e) \in Nat /\ ApplicationBufferSize(e) \in Nat
BY EngineAssumption DEF PacketBufferSize, ApplicationBufferSize

LEMMA CallsType ==
    ASSUME stack \in Seq(Frames), stack # <<>>,
           NEW callees \in Seq(Frames), NEW rest \in Seq(Frames)
    PROVE  callees \o rest \o Tail(stack) \in Seq(Frames)
<1>1. Tail(stack) \in Seq(Frames)
  BY HeadTailProperties
<1>2. callees \o rest \in Seq(Frames)
  BY ConcatProperties
<1> QED BY <1>1, <1>2, ConcatProperties

LEMMA FrameSeqs == <<>> \in Seq(Frames) /\ \A f \in Frames : <<f>> \in Seq(Frames)
BY DEF Frames

LEMMA NextRecordType == TypeOK => NextRecord \in Records
<1> SUFFICES ASSUME TypeOK PROVE NextRecord \in Records
  OBVIOUS
<1>1. log \in Seq(Records) /\ engine.recs \in Nat /\ AppSize \in Nat
  BY EngineFields, EngineAssumption DEF TypeOK, TransportTypeOK
<1>2. CASE engine.recs < Len(log)
  <2>1. engine.recs + 1 \in 1..Len(log)
    BY <1>1, <1>2
  <2>2. log[engine.recs + 1] \in Records
    BY <1>1, <2>1, ElementOfSeq
  <2> QED BY <1>2, <2>2 DEF NextRecord
<1>3. CASE ~(engine.recs < Len(log))
  BY <1>1, <1>3 DEF NextRecord, Records
<1> QED BY <1>2, <1>3

(* The parts of TypeOK', as the steps below prove them.                    *)
LEMMA TypeOKPrime ==
    ASSUME TransportTypeOK', engine' \in Engines,
           GoodBuffer(appOut'), GoodBuffer(netOut'),
           GoodBuffer(netIn'), GoodBuffer(appIn'),
           stack' \in Seq(Frames), call' \in Running \cup Stopped,
           calls' \in 0..MaxCalls, accepted' \in Nat, received' \in Seq(Nat)
    PROVE  TypeOK'
BY DEF TypeOK, GoodBuffer

LEMMA InitTypeOK == Init => TypeOK
<1> SUFFICES ASSUME Init PROVE TypeOK
  OBVIOUS
<1>1. TransportTypeOK
  <2>1. Len(Script) \in Nat
    BY EngineAssumption
  <2>2. 0 \in 0..Len(Script)
    BY <2>1
  <2>3. <<>> \in Seq(Records) /\ <<>> \in Seq(Nat)
    BY EmptySeq
  <2> QED BY <2>2, <2>3 DEF Init, TransportInit, TransportTypeOK
<1>2. engine \in Engines
  BY NewEngineType DEF Init
<1>3. GoodBuffer(Allocate(0))
  BY AllocateGood
<1>4. 0 \in 0..MaxCalls
  BY TlsStreamAssumption
<1> QED BY <1>1, <1>2, <1>3, <1>4, EmptySeq
        DEF Init, TypeOK, GoodBuffer, Stopped

LEMMA PeerTypeOK == TypeOK /\ Peer => TypeOK'
<1> SUFFICES ASSUME TypeOK, Peer PROVE TypeOK'
  OBVIOUS
<1>1. UNCHANGED <<streamVars, stack, callerVars, wireVars>>
  BY DEF Peer, PeerStep, PeerHandshake, PeerSend, PeerFin, PeerReset
<1>2. log \in Seq(Records) /\ AppSize \in Nat /\ peerStep \in 0..Len(Script) /\ Len(Script) \in Nat
  BY EngineAssumption DEF TypeOK, TransportTypeOK
<1>3. PeerRecords \subseteq Records /\ [kind |-> "handshake", len |-> 0] \in Records
  BY <1>2 DEF PeerRecords, Records
<1>4. log' \in Seq(Records) /\ peerStep' \in 0..Len(Script)
      /\ fin' \in BOOLEAN /\ reset' \in BOOLEAN
  <2> USE DEF TypeOK, TransportTypeOK
  <2>1. \A rec \in Records : Append(log, rec) \in Seq(Records)
    BY <1>2, AppendProperties
  <2>2. CASE PeerHandshake
    <3>1. peerStep' = peerStep + 1 /\ peerStep < Len(Script)
      BY <2>2 DEF PeerHandshake
    <3>2. peerStep' \in 0..Len(Script)
      BY <1>2, <3>1
    <3>3. log' \in Seq(Records)
      BY <1>2, <1>3, <2>1, <2>2 DEF PeerHandshake
    <3> QED BY <2>2, <3>2, <3>3 DEF PeerHandshake
  <2>3. ASSUME NEW rec \in PeerRecords, PeerSend(rec)
        PROVE  <1>4
    BY <1>2, <1>3, <2>1, <2>3 DEF PeerSend
  <2>4. CASE PeerFin
    BY <1>2, <2>4 DEF PeerFin
  <2>5. CASE PeerReset
    BY <1>2, <2>5 DEF PeerReset
  <2> QED BY <2>2, <2>3, <2>4, <2>5 DEF Peer, PeerStep
<1>5. TransportTypeOK'
  BY <1>1, <1>4 DEF TypeOK, TransportTypeOK, wireVars
<1> QED BY <1>1, <1>5, BuffersGood, TypeOKPrime DEF TypeOK, streamVars, callerVars

LEMMA CalleesOfType == ASSUME NEW hs PROVE CalleesOf(hs) \in Seq(Frames)
<1>1. \A f \in Frames : <<f>> \in Seq(Frames)
  OBVIOUS
<1>2. <<>> \in Seq(Frames) /\ {"doWrap", "doUnwrap", "runTasks"} \subseteq Frames
  BY DEF Frames
<1> QED BY <1>1, <1>2 DEF CalleesOf

(* A method that goes on leaves a stack of frames.                         *)
LEMMA GoesOnType ==
    ASSUME TypeOK, stack # <<>>, NEW c \in Seq(Frames), NEW d \in Seq(Frames), GoesOn(c, d)
    PROVE  stack' \in Seq(Frames) /\ call' = call
BY CallsType DEF GoesOn, Calls, TypeOK

LEMMA EndsType ==
    ASSUME Ends
    PROVE  stack' \in Seq(Frames) /\ call' \in Running \cup Stopped
BY FrameSeqs DEF Ends, Stopped

(* Every frame that a move pushes is one.                                  *)
LEMMA PushedFrames ==
    {<<>>, <<"doWrap">>, <<"doUnwrap">>, <<"close">>, <<"receive">>, <<"receiveRest">>,
     <<"wrapRest">>, <<"closeRest">>, <<"ret">>,
     <<"wrapOverflow">>, <<"unwrapOverflow">>, <<"unwrapUnderflow">>} \subseteq Seq(Frames)
BY FrameSeqs DEF Frames, Resting

LEMMA JoinedFrames ==
    /\ <<>> \o <<"ret">> = <<"ret">>
    /\ \A f \in {"doWrap", "doUnwrap", "runTasks"} : <<f>> \o <<"ret">> = <<f, "ret">>
<1>1. <<"ret">> \in Seq(Frames) /\ Len(<<"ret">>) = 1
  BY PushedFrames
<1>2. ASSUME NEW f \in {"doWrap", "doUnwrap", "runTasks"}
      PROVE  <<f>> \o <<"ret">> = <<f, "ret">>
  <2>1. f \in Frames /\ "ret" \in Frames
    BY DEF Frames, Resting
  <2>2. <<f>> \in Seq(Frames) /\ <<f, "ret">> \in Seq(Frames) /\ Len(<<f, "ret">>) = 2
    BY <2>1
  <2>3. /\ <<f>> \o <<"ret">> \in Seq(Frames) /\ Len(<<f>> \o <<"ret">>) = 2
        /\ \A i \in 1..2 : (<<f>> \o <<"ret">>)[i] = IF i <= 1 THEN f ELSE "ret"
    BY <1>1, <2>2, ConcatProperties
  <2>4. \A i \in 1..2 : <<f, "ret">>[i] = IF i <= 1 THEN f ELSE "ret"
    OBVIOUS
  <2> DEFINE u == <<f>> \o <<"ret">>
             v == <<f, "ret">>
  <2>5. u \in Seq(Frames) /\ v \in Seq(Frames) /\ Len(u) = 2 /\ Len(v) = 2
    BY <2>2, <2>3
  <2>6. \A i \in 1..Len(u) : u[i] = v[i]
    BY <2>3, <2>4, <2>5
  <2> HIDE DEF u, v
  <2>7. u = v
    BY <2>5, <2>6, SeqEqual
  <2> QED BY <2>7 DEF u, v
<1> QED BY <1>1, <1>2, ConcatEmptySeq

-----------------------------------------------------------------------------
(* What wrap() and unwrap() hand back.                                     *)

LEMMA WrapMoveEffect ==
    ASSUME TypeOK, WrapMove
    PROVE  \E r : /\ WrapEffect(engine, Flip(appOut), netOut, r)
                  /\ WrapControl(engine, r)
                  /\ GoodBuffer(r.src) /\ Readable(r.src) /\ GoodBuffer(r.dst)
                  /\ WrapMoved(r)
<1>1. engine \in Engines /\ GoodBuffer(Flip(appOut)) /\ Readable(Flip(appOut))
      /\ GoodBuffer(netOut)
  BY BuffersGood, FlipGood DEF TypeOK
<1>2. PICK r \in Wrap(engine, Flip(appOut), netOut) : WrapMoved(r)
  BY DEF WrapMove
<1>3. WrapEffect(engine, Flip(appOut), netOut, r) /\ WrapControl(engine, r)
  BY <1>1, WrapProperties, WrapControlProperties
<1>4. GoodBuffer(r.src) /\ Readable(r.src) /\ GoodBuffer(r.dst)
  BY <1>1, <1>3, WrapBuffersGood
<1> QED BY <1>2, <1>3, <1>4

LEMMA ReadIntoGood ==
    ASSUME TypeOK, NEW b, ReadInto(b)
    PROVE  GoodBuffer(b) /\ readIn' \in Nat
<1>1. GoodBuffer(netIn) /\ readIn \in Nat
  BY BuffersGood DEF TypeOK, TransportTypeOK
<1>2. ASSUME NEW count \in Nat, count <= Remaining(netIn)
      PROVE  GoodBuffer(Put(netIn, Span(readIn, count)))
  <2>1. Span(readIn, count) \in Seq(Nat) /\ Len(Span(readIn, count)) = count
    BY <1>1, SpanProperties
  <2> QED BY <1>1, <1>2, <2>1, PutGood
<1> QED BY <1>1, <1>2 DEF ReadInto

LEMMA UnwrapMoveEffect ==
    ASSUME TypeOK, UnwrapMove
    PROVE  \E b, r : /\ ReadInto(b) /\ GoodBuffer(b)
                     /\ UnwrapEffect(engine, Flip(b), appIn, r)
                     /\ UnwrapControl(engine, r)
                     /\ GoodBuffer(r.src) /\ Readable(r.src) /\ GoodBuffer(r.dst)
                     /\ UnwrapMoved(r)
<1>1. engine \in Engines /\ GoodBuffer(appIn) /\ NextRecord \in Records
  BY BuffersGood, NextRecordType DEF TypeOK
<1>2. PICK b : /\ ReadInto(b)
               /\ \E r \in Unwrap(engine, Flip(b), appIn, NextRecord) : UnwrapMoved(r)
  BY DEF UnwrapMove
<1>3. PICK r \in Unwrap(engine, Flip(b), appIn, NextRecord) : UnwrapMoved(r)
  BY <1>2
<1>4. GoodBuffer(b) /\ GoodBuffer(Flip(b)) /\ Readable(Flip(b))
  BY <1>2, ReadIntoGood, FlipGood
<1>5. UnwrapEffect(engine, Flip(b), appIn, r) /\ UnwrapControl(engine, r)
  BY <1>1, <1>4, UnwrapProperties, UnwrapControlProperties
<1>6. GoodBuffer(r.src) /\ Readable(r.src) /\ GoodBuffer(r.dst)
  BY <1>1, <1>4, <1>5, UnwrapBuffersGood
<1> QED BY <1>2, <1>3, <1>4, <1>5, <1>6

(* flush() empties the buffer, on to the wire or not.                      *)
LEMMA DrainedGood ==
    ASSUME NEW b, GoodBuffer(b)
    PROVE  /\ GoodBuffer(Drained(b))
           /\ GoodBuffer(Compact(Drained(b))) /\ Fillable(Compact(Drained(b)))
           /\ Compact(Drained(b)).pos = 0
           /\ Unread(Flip(b)) \in Seq(Nat)
<1> DEFINE out == Flip(b)
<1>1. GoodBuffer(out) /\ Readable(out)
  BY FlipGood
<1>2. Remaining(out) \in Nat /\ Unread(out) \in Seq(Nat)
  BY <1>1, RemainingNat, UnreadProperties
<1> HIDE DEF out
<1> DEFINE d == Skip(out, Remaining(out))
<1>3. GoodBuffer(d) /\ Readable(d) /\ Remaining(d) = 0
  BY <1>1, <1>2, SkipGood
<1> HIDE DEF d
<1>4. GoodBuffer(Compact(d)) /\ Fillable(Compact(d)) /\ Compact(d).pos = 0
  BY <1>3, CompactGood
<1> QED BY <1>2, <1>3, <1>4 DEF Drained, out, d

-----------------------------------------------------------------------------
(* Type correctness.                                                       *)

LEMMA WrapMoveTypeOK == TypeOK /\ WrapMove => TypeOK'
<1> SUFFICES ASSUME TypeOK, WrapMove PROVE TypeOK'
  OBVIOUS
<1>1. PICK r : /\ WrapEffect(engine, Flip(appOut), netOut, r)
               /\ GoodBuffer(r.src) /\ Readable(r.src) /\ GoodBuffer(r.dst)
               /\ WrapMoved(r)
  BY WrapMoveEffect
<1>2. engine' \in Engines
  BY <1>1 DEF WrapMoved, WrapEffect
<1>3. /\ UNCHANGED <<peerVars, readIn, netIn, appIn, calls, accepted, received>>
      /\ stack # <<>> /\ outWire \in Seq(Nat) /\ call \in Running \cup Stopped
  BY DEF WrapMove, OnTop, TypeOK, TransportTypeOK
<1>4. GoodBuffer(Compact(r.src))
  BY <1>1, CompactGood
<1>5. ASSUME NEW c \in Seq(Frames), NEW d \in Seq(Frames), GoesOn(c, d) \/ Ends
      PROVE  stack' \in Seq(Frames) /\ call' \in Running \cup Stopped
  BY <1>3, <1>5, GoesOnType, EndsType
<1>6. /\ GoodBuffer(appOut') /\ GoodBuffer(netOut') /\ outWire' \in Seq(Nat)
      /\ stack' \in Seq(Frames) /\ call' \in Running \cup Stopped
  <2>1. CASE r.status = "SSLException"
    <3>1. appOut' = r.src /\ UNCHANGED <<netOut, outWire>> /\ (GoesOn(<<>>, <<>>) \/ Ends)
      BY <1>1, <2>1 DEF WrapMoved
    <3> QED BY <1>1, <1>3, <1>5, <3>1, PushedFrames, BuffersGood
  <2>2. ASSUME NEW rest, <<rest>> \in Seq(Frames), Flushed(r.dst, r.hs, <<rest>>)
        PROVE  /\ GoodBuffer(netOut') /\ outWire' \in Seq(Nat)
               /\ stack' \in Seq(Frames) /\ call' \in Running \cup Stopped
    <3>1. outWire \o Unread(Flip(r.dst)) \in Seq(Nat)
      BY <1>1, <1>3, DrainedGood, ConcatProperties
    <3>2. GoodBuffer(netOut') /\ outWire' \in Seq(Nat)
      BY <1>1, <1>3, <2>2, <3>1, DrainedGood DEF Flushed
    <3>3. GoesOn(CalleesOf(r.hs), <<rest>>) \/ Ends
      BY <2>2 DEF Flushed, Follows
    <3> QED BY <1>5, <2>2, <3>2, <3>3, CalleesOfType
  <2>3. CASE r.status = "OK"
    BY <1>1, <1>4, <2>2, <2>3, PushedFrames DEF WrapMoved
  <2>4. CASE r.status = "CLOSED"
    BY <1>1, <1>4, <2>2, <2>4, PushedFrames DEF WrapMoved
  <2>5. CASE r.status = "BUFFER_OVERFLOW"
    <3>1. /\ appOut' = Compact(r.src) /\ outWire' = outWire
          /\ Retries(netOut', r.dst, "doWrap", "wrapOverflow")
      BY <1>1, <2>5 DEF WrapMoved
    <3>2. GoodBuffer(netOut') /\ (GoesOn(<<"doWrap">>, <<"wrapOverflow">>) \/ Ends)
      BY <3>1 DEF Retries, Regrown, Ends
    <3> QED BY <1>3, <1>4, <1>5, <3>1, <3>2, PushedFrames
  <2> QED BY <1>1, <2>1, <2>3, <2>4, <2>5 DEF WrapMoved
<1>7. TransportTypeOK'
  BY <1>3, <1>6 DEF TypeOK, TransportTypeOK, peerVars
<1> QED BY <1>2, <1>3, <1>6, <1>7, BuffersGood, TypeOKPrime DEF TypeOK

LEMMA UnwrapMoveTypeOK == TypeOK /\ UnwrapMove => TypeOK'
<1> SUFFICES ASSUME TypeOK, UnwrapMove PROVE TypeOK'
  OBVIOUS
<1>1. PICK b, r : /\ ReadInto(b)
                  /\ UnwrapEffect(engine, Flip(b), appIn, r)
                  /\ GoodBuffer(r.src) /\ Readable(r.src) /\ GoodBuffer(r.dst)
                  /\ UnwrapMoved(r)
  BY UnwrapMoveEffect
<1>2. engine' \in Engines
  BY <1>1 DEF UnwrapMoved, UnwrapEffect
<1>3. /\ UNCHANGED <<peerVars, outWire, appOut, netOut, calls, accepted, received>>
      /\ stack # <<>> /\ call \in Running \cup Stopped /\ readIn' \in Nat
  BY <1>1, ReadIntoGood DEF UnwrapMove, OnTop, TypeOK
<1>4. GoodBuffer(Compact(r.src))
  BY <1>1, CompactGood
<1>5. ASSUME NEW c \in Seq(Frames), NEW d \in Seq(Frames), GoesOn(c, d) \/ Ends
      PROVE  stack' \in Seq(Frames) /\ call' \in Running \cup Stopped
  BY <1>3, <1>5, GoesOnType, EndsType
<1>6. /\ GoodBuffer(netIn') /\ GoodBuffer(appIn')
      /\ stack' \in Seq(Frames) /\ call' \in Running \cup Stopped
  <2>1. CASE r.status = "SSLException"
    <3>1. netIn' = r.src /\ appIn' = r.dst /\ (GoesOn(<<>>, <<>>) \/ Ends)
      BY <1>1, <2>1 DEF UnwrapMoved
    <3> QED BY <1>1, <1>5, <3>1, PushedFrames
  <2>2. CASE r.status \in {"OK", "CLOSED"}
    <3>1. PICK rest \in {"ret", "closeRest"} :
             netIn' = Compact(r.src) /\ appIn' = r.dst /\ Follows(r.hs, <<rest>>)
      BY <1>1, <2>2 DEF UnwrapMoved
    <3>2. GoesOn(CalleesOf(r.hs), <<rest>>) \/ Ends
      BY <3>1 DEF Follows
    <3>3. <<rest>> \in Seq(Frames)
      BY PushedFrames
    <3> QED BY <1>1, <1>4, <1>5, <3>1, <3>2, <3>3, CalleesOfType
  <2>3. CASE r.status = "BUFFER_UNDERFLOW"
    <3>1. appIn' = r.dst /\ Retries(netIn', Compact(r.src), "doUnwrap", "unwrapUnderflow")
      BY <1>1, <2>3 DEF UnwrapMoved
    <3>2. GoodBuffer(netIn') /\ (GoesOn(<<"doUnwrap">>, <<"unwrapUnderflow">>) \/ Ends)
      BY <3>1 DEF Retries, Regrown, Ends
    <3> QED BY <1>1, <1>5, <3>1, <3>2, PushedFrames
  <2>4. CASE r.status = "BUFFER_OVERFLOW"
    <3>1. netIn' = Compact(r.src) /\ Retries(appIn', r.dst, "doUnwrap", "unwrapOverflow")
      BY <1>1, <2>4 DEF UnwrapMoved
    <3>2. GoodBuffer(appIn') /\ (GoesOn(<<"doUnwrap">>, <<"unwrapOverflow">>) \/ Ends)
      BY <3>1 DEF Retries, Regrown, Ends
    <3> QED BY <1>4, <1>5, <3>1, <3>2, PushedFrames
  <2> QED BY <1>1, <2>1, <2>2, <2>3, <2>4 DEF UnwrapMoved
<1>7. TransportTypeOK'
  BY <1>3 DEF TypeOK, TransportTypeOK, peerVars
<1> QED BY <1>2, <1>3, <1>6, <1>7, BuffersGood, TypeOKPrime DEF TypeOK

LEMMA ReceiveMoveTypeOK == TypeOK /\ ReceiveMove => TypeOK'
<1> SUFFICES ASSUME TypeOK, ReceiveMove PROVE TypeOK'
  OBVIOUS
<1> DEFINE b == Flip(appIn)
<1>1. GoodBuffer(b) /\ Readable(b) /\ Remaining(b) \in Nat
  BY BuffersGood, FlipGood, RemainingNat
<1>2. /\ UNCHANGED <<peerVars, wireVars, engine, appOut, netOut, netIn, calls, accepted>>
      /\ stack # <<>> /\ call \in Running \cup Stopped
  BY DEF ReceiveMove, OnTop, TypeOK
<1>3. \/ /\ received' = received \o Unread(b)
         /\ appIn' = Compact(Skip(b, Remaining(b)))
         /\ \/ stack' = <<>> /\ call' = "idle"
            \/ GoesOn(<<>>, <<"ret">>)
      \/ /\ appIn' = Compact(b) /\ UNCHANGED received
         /\ \E w \in {"receive", "receiveRest"} : GoesOn(<<"doUnwrap">>, <<w>>)
  BY DEF ReceiveMove
<1> HIDE DEF b
<1>4. GoodBuffer(appIn')
  BY <1>1, <1>3, SkipGood, CompactGood
<1>5. received' \in Seq(Nat)
  <2>1. received \o Unread(b) \in Seq(Nat)
    BY <1>1, UnreadProperties, ConcatProperties DEF TypeOK
  <2> QED BY <1>3, <2>1 DEF TypeOK
<1>6. stack' \in Seq(Frames) /\ call' \in Running \cup Stopped
  <2>1. \A w \in {"receive", "receiveRest"} : <<w>> \in Seq(Frames)
    BY PushedFrames
  <2>2. \A c, d \in Seq(Frames) : GoesOn(c, d) => stack' \in Seq(Frames) /\ call' = call
    BY <1>2, GoesOnType
  <2>3. <<>> \in Seq(Frames) /\ <<"ret">> \in Seq(Frames) /\ <<"doUnwrap">> \in Seq(Frames)
    BY PushedFrames
  <2>4. "idle" \in Stopped
    BY DEF Stopped
  <2> QED BY <1>2, <1>3, <2>1, <2>2, <2>3, <2>4, Zenon
<1>7. TransportTypeOK'
  BY <1>2 DEF TypeOK, TransportTypeOK, peerVars, wireVars
<1> QED BY <1>2, <1>4, <1>5, <1>6, <1>7, BuffersGood, TypeOKPrime DEF TypeOK

(* The moves that touch no buffer.                                         *)
LEMMA StackMoveTypeOK ==
    TypeOK /\ (EndOfStreamMove \/ CloseMove \/ TasksMove \/ RestMove \/ EndMove \/ Return)
        => TypeOK'
<1> SUFFICES ASSUME TypeOK,
                    EndOfStreamMove \/ CloseMove \/ TasksMove \/ RestMove \/ EndMove \/ Return
             PROVE  TypeOK'
  OBVIOUS
<1>1. /\ UNCHANGED <<peerVars, wireVars, appOut, netOut, netIn, appIn,
                     calls, accepted, received>>
      /\ call \in Running \cup Stopped
  BY DEF EndOfStreamMove, CloseMove, TasksMove, RestMove, EndMove, Return,
         streamVars, TypeOK
<1>2. engine' \in Engines
  BY CloseInboundProperties, CloseOutboundProperties, RunDelegatedTasksProperties
     DEF EndOfStreamMove, CloseMove, TasksMove, RestMove, EndMove, Return,
         TypeOK, streamVars
<1>3. stack' \in Seq(Frames) /\ call' \in Running \cup Stopped
  <2>1. ASSUME stack # <<>>, NEW c \in Seq(Frames), NEW d \in Seq(Frames), GoesOn(c, d) \/ Ends
        PROVE  stack' \in Seq(Frames) /\ call' \in Running \cup Stopped
    BY <1>1, <2>1, GoesOnType, EndsType
  <2>2. CASE EndOfStreamMove \/ CloseMove \/ TasksMove \/ RestMove
    <3>1. stack # <<>>
      BY <2>2 DEF EndOfStreamMove, CloseMove, TasksMove, RestMove, OnTop
    <3>2. (\E c, d \in Seq(Frames) : GoesOn(c, d)) \/ Ends
      BY <2>2, PushedFrames, CalleesOfType
         DEF EndOfStreamMove, CloseMove, TasksMove, RestMove, Follows
    <3>3. <<>> \in Seq(Frames)
      BY PushedFrames
    <3> QED BY <2>1, <3>1, <3>2, <3>3
  <2>3. CASE EndMove
    BY <2>3, PushedFrames DEF EndMove, Stopped
  <2>4. CASE Return
    BY <1>1, <2>4, HeadTailProperties DEF Return, TypeOK, Stopped
  <2> QED BY <2>2, <2>3, <2>4
<1>4. TransportTypeOK'
  BY <1>1 DEF TypeOK, TransportTypeOK, peerVars, wireVars
<1> QED BY <1>1, <1>2, <1>3, <1>4, BuffersGood, TypeOKPrime DEF TypeOK

(* The buffers that a new stream allocates.                                *)
LEMMA NewBuffers ==
    ASSUME OpenMove
    PROVE  /\ GoodBuffer(appOut') /\ Fillable(appOut') /\ appOut'.mem = <<>>
           /\ GoodBuffer(netOut') /\ Fillable(netOut') /\ netOut'.mem = <<>>
           /\ GoodBuffer(netIn') /\ Fillable(netIn') /\ netIn'.mem = <<>>
           /\ GoodBuffer(appIn') /\ Fillable(appIn') /\ appIn'.mem = <<>>
           /\ appOut'.pos = 0 /\ netOut'.pos = 0
<1>1. ASSUME NEW n \in Nat
      PROVE  /\ GoodBuffer(Allocate(n)) /\ Fillable(Allocate(n)) /\ Allocate(n).mem = <<>>
             /\ Allocate(n).pos = 0
  BY AllocateGood DEF Allocate
<1>2. AppOutSize \in Nat /\ AppInSize \in Nat /\ PacketBufferSize(NewEngine) \in Nat
      /\ ApplicationBufferSize(NewEngine) \in Nat
  BY BufferSizes, TlsStreamAssumption
<1>3. \E n \in Nat : appIn' = Allocate(n)
  BY <1>2 DEF OpenMove
<1> QED BY <1>1, <1>2, <1>3 DEF OpenMove

LEMMA CallerMoveTypeOK ==
    TypeOK /\ (OpenMove \/ (\E n \in SendSizes : SendMove(n)) \/ AskMove) => TypeOK'
<1> SUFFICES ASSUME TypeOK, OpenMove \/ (\E n \in SendSizes : SendMove(n)) \/ AskMove
             PROVE  TypeOK'
  OBVIOUS
<1> USE BuffersGood DEF TypeOK
<1>1. CASE OpenMove
  <2>1. CalleesOf(Status(NewEngine)) \o <<"ret">> \in Seq(Frames)
    BY CalleesOfType, PushedFrames, ConcatProperties
  <2>2. stack' \in Seq(Frames) /\ call' \in Running \cup Stopped
    BY <1>1, <2>1, EndsType DEF OpenMove, Running
  <2>3. TransportTypeOK'
    BY <1>1 DEF OpenMove, TransportTypeOK, peerVars, wireVars
  <2>4. /\ engine' = NewEngine /\ UNCHANGED <<calls, accepted, received>>
    BY <1>1 DEF OpenMove
  <2> QED BY <1>1, <2>2, <2>3, <2>4, NewBuffers, NewEngineType, TypeOKPrime
<1>2. ASSUME Enter PROVE calls' \in 0..MaxCalls
  BY <1>2, TlsStreamAssumption DEF Enter
<1>3. ASSUME NEW n \in SendSizes, SendMove(n) PROVE TypeOK'
  <2>1. n \in Nat /\ accepted + n \in Nat
    BY TlsStreamAssumption
  <2>2. ASSUME n <= Remaining(appOut)
        PROVE  GoodBuffer(Put(appOut, Span(accepted, n)))
    <3>1. Span(accepted, n) \in Seq(Nat) /\ Len(Span(accepted, n)) = n
      BY <2>1, SpanProperties
    <3> QED BY <2>2, <3>1, PutGood
  <2>3. GoodBuffer(appOut') /\ accepted' \in Nat
    BY <1>3, <2>1, <2>2 DEF SendMove
  <2>4. stack' \in Seq(Frames) /\ call' \in Running \cup Stopped
    <3>1. <<"doWrap", "ret">> \in Seq(Frames)
      BY DEF Frames, Resting
    <3> QED BY <1>3, <3>1, EndsType DEF SendMove, Running
  <2>5. TransportTypeOK'
    BY <1>3 DEF SendMove, TransportTypeOK, peerVars, wireVars
  <2> QED BY <1>2, <1>3, <2>3, <2>4, <2>5, TypeOKPrime DEF SendMove
<1>4. CASE AskMove
  <2>1. stack' \in Seq(Frames) /\ call' \in Running \cup Stopped
    <3>1. <<"receive">> \in Seq(Frames) /\ <<"close", "ret">> \in Seq(Frames)
      BY DEF Frames, Resting
    <3> QED BY <1>4, <3>1 DEF AskMove, Running, Stopped
  <2>2. TransportTypeOK'
    BY <1>4 DEF AskMove, TransportTypeOK, peerVars, wireVars
  <2>3. calls' \in 0..MaxCalls
    BY <1>2, <1>4 DEF AskMove
  <2> QED BY <1>4, <2>1, <2>2, <2>3, TypeOKPrime DEF AskMove, streamVars
<1> QED BY <1>1, <1>3, <1>4

LEMMA MoveTypeOK == TypeOK /\ Move => TypeOK'
<1> SUFFICES ASSUME TypeOK, Move PROVE TypeOK'
  OBVIOUS
<1>1. CASE UNCHANGED vars
  BY <1>1 DEF TypeOK, TransportTypeOK, vars, peerVars, wireVars, streamVars, callerVars
<1> QED BY <1>1, WrapMoveTypeOK, UnwrapMoveTypeOK, ReceiveMoveTypeOK, StackMoveTypeOK,
           CallerMoveTypeOK, PeerTypeOK DEF Move

-----------------------------------------------------------------------------
(* The frames of the stack, as a set.                                      *)

LEMMA RangeOne == Range(<<>>) = {} /\ \A f : Range(<<f>>) = {f}
BY DEF Range

LEMMA RangeTwo == \A f, g : Range(<<f, g>>) = {f, g}
BY DEF Range

LEMMA RangeHead ==
    ASSUME NEW s \in Seq(Frames), s # <<>>
    PROVE  Range(s) = {Head(s)} \cup Range(Tail(s))
<1>1. /\ Len(s) \in Nat \ {0} /\ Head(s) = s[1]
      /\ Tail(s) \in Seq(Frames) /\ Len(Tail(s)) = Len(s) - 1
      /\ \A i \in 1..Len(Tail(s)) : Tail(s)[i] = s[i + 1]
  BY HeadTailProperties, EmptySeq
<1>2. /\ Range(s) = {s[i] : i \in 1..Len(s)}
      /\ Range(Tail(s)) = {Tail(s)[i] : i \in 1..Len(Tail(s))}
  BY <1>1, RangeEquality
<1> DEFINE n == Len(s)
           t == Tail(s)
<1>3. ASSUME NEW x \in Range(s) PROVE x = s[1] \/ x \in Range(t)
  <2>1. PICK i \in 1..n : x = s[i]
    BY <1>2
  <2>2. i # 1 => i - 1 \in 1..Len(t) /\ (i - 1) + 1 = i
    BY <1>1
  <2>3. i # 1 => x = t[i - 1]
    BY <1>1, <2>1, <2>2
  <2> QED BY <1>2, <2>1, <2>2, <2>3
<1>4. ASSUME NEW x \in Range(t) PROVE x \in Range(s)
  <2>1. PICK i \in 1..Len(t) : x = t[i]
    BY <1>2
  <2>2. i + 1 \in 1..n /\ x = s[i + 1]
    BY <1>1, <2>1
  <2> QED BY <1>2, <2>2
<1>5. s[1] \in Range(s)
  BY <1>1, <1>2
<1> QED BY <1>1, <1>3, <1>4, <1>5

LEMMA RangeGoesOn ==
    ASSUME TypeOK, stack # <<>>, NEW c \in Seq(Frames), NEW d \in Seq(Frames), GoesOn(c, d)
    PROVE  /\ Range(stack') = Range(c) \cup Range(d) \cup Range(Tail(stack))
           /\ Range(stack) = {Head(stack)} \cup Range(Tail(stack))
<1>1. stack \in Seq(Frames) /\ Tail(stack) \in Seq(Frames) /\ c \o d \in Seq(Frames)
  BY HeadTailProperties, ConcatProperties DEF TypeOK
<1>2. Range(c \o d) = Range(c) \cup Range(d)
  BY RangeConcatenation
<1>3. Range((c \o d) \o Tail(stack)) = Range(c \o d) \cup Range(Tail(stack))
  BY <1>1, RangeConcatenation
<1>4. stack' = (c \o d) \o Tail(stack)
  BY DEF GoesOn, Calls
<1> QED BY <1>1, <1>2, <1>3, <1>4, RangeHead

LEMMA LastFrame ==
    ASSUME NEW s \in Seq(Frames), Len(s) = 1
    PROVE  Tail(s) = <<>> /\ Range(s) = {Head(s)}
<1>1. s # <<>>
  BY EmptySeq
<1>2. Tail(s) \in Seq(Frames) /\ Len(Tail(s)) = 0
  BY <1>1, HeadTailProperties
<1>3. Tail(s) = <<>>
  BY <1>2, EmptySeq
<1> QED BY <1>1, <1>3, RangeHead, RangeOne

-----------------------------------------------------------------------------
(* The shapes of the stack.                                                *)

(* The method on top returns, resumes as w, or calls f and waits as w.     *)
Pops == stack # <<>> /\ Calls(<<>>, <<>>)
Turns(w) == stack # <<>> /\ Calls(<<>>, <<w>>)
CallsOn(f, w) == stack # <<>> /\ Calls(<<f>>, <<w>>)

LEMMA StackShapes ==
    ASSUME NEW s \in Seq(Frames), s # <<>>
    PROVE  /\ LET r == <<>> \o <<>> \o Tail(s)
              IN  Len(r) = Len(s) - 1 /\ \A i \in 1..Len(r) : r[i] = s[i + 1]
           /\ \A w \in Frames :
                 LET r == <<>> \o <<w>> \o Tail(s)
                 IN  Len(r) = Len(s) /\ r[1] = w /\ \A i \in 2..Len(r) : r[i] = s[i]
           /\ \A f, w \in Frames :
                 LET r == <<f>> \o <<w>> \o Tail(s)
                 IN  /\ Len(r) = Len(s) + 1 /\ r[1] = f /\ r[2] = w
                     /\ \A i \in 3..Len(r) : r[i] = s[i - 1]
<1> DEFINE t == Tail(s)
           n == Len(s)
<1>1. /\ t \in Seq(Frames) /\ Len(t) = n - 1 /\ n \in Nat \ {0}
      /\ \A i \in 1..n - 1 : t[i] = s[i + 1]
  BY HeadTailProperties, EmptySeq
<1> HIDE DEF t, n
<1>2. <<>> \o <<>> \o t = t
  BY <1>1, ConcatEmptySeq, EmptySeq
<1>3. ASSUME NEW w \in Frames
      PROVE  LET r == <<>> \o <<w>> \o t
             IN  Len(r) = n /\ r[1] = w /\ \A i \in 2..Len(r) : r[i] = s[i]
  <2>1. <<w>> \in Seq(Frames) /\ <<>> \o <<w>> = <<w>>
    BY ConcatEmptySeq
  <2>2. /\ Len(<<w>> \o t) = n
        /\ \A i \in 1..n : (<<w>> \o t)[i] = IF i <= 1 THEN w ELSE t[i - 1]
    BY <1>1, <2>1, ConcatProperties
  <2>3. ASSUME NEW i \in 2..n PROVE (<<w>> \o t)[i] = s[i]
    <3>1. i \in 1..n /\ ~(i <= 1) /\ i - 1 \in 1..n - 1 /\ (i - 1) + 1 = i
      BY <1>1
    <3> QED BY <1>1, <2>2, <3>1
  <2>4. (<<w>> \o t)[1] = w
    BY <1>1, <2>2
  <2> QED BY <2>1, <2>2, <2>3, <2>4
<1>4. ASSUME NEW f \in Frames, NEW w \in Frames
      PROVE  LET r == <<f>> \o <<w>> \o t
             IN  /\ Len(r) = n + 1 /\ r[1] = f /\ r[2] = w
                 /\ \A i \in 3..Len(r) : r[i] = s[i - 1]
  <2> DEFINE c == <<f>> \o <<w>>
  <2>1. c \in Seq(Frames) /\ Len(c) = 2 /\ c[1] = f /\ c[2] = w
    BY ConcatProperties
  <2> HIDE DEF c
  <2>2. /\ Len(c \o t) = n + 1
        /\ \A i \in 1..n + 1 : (c \o t)[i] = IF i <= 2 THEN c[i] ELSE t[i - 2]
    <3>1. /\ Len(c \o t) = Len(c) + Len(t)
          /\ \A i \in 1..Len(c) + Len(t) :
                (c \o t)[i] = IF i <= Len(c) THEN c[i] ELSE t[i - Len(c)]
      BY <1>1, <2>1, ConcatProperties
    <3>2. Len(c) + Len(t) = n + 1
      BY <1>1, <2>1
    <3> QED BY <2>1, <3>1, <3>2, Zenon
  <2>3. ASSUME NEW i \in 3..n + 1 PROVE (c \o t)[i] = s[i - 1]
    <3>1. i \in 1..n + 1 /\ ~(i <= 2) /\ i - 2 \in 1..n - 1 /\ (i - 2) + 1 = i - 1
      BY <1>1
    <3> QED BY <1>1, <2>2, <3>1
  <2>4. (c \o t)[1] = f /\ (c \o t)[2] = w
    BY <1>1, <2>1, <2>2
  <2> QED BY <2>2, <2>3, <2>4 DEF c
<1> QED BY <1>1, <1>2, <1>3, <1>4 DEF t, n

(* The next stack, by its indices.                                         *)
LEMMA ShapeOf ==
    ASSUME TypeOK
    PROVE  /\ Len(stack) \in Nat /\ (stack # <<>> => Len(stack) > 0 /\ stack[1] = Head(stack))
           /\ Pops => /\ Len(stack') = Len(stack) - 1
                      /\ \A i \in 1..Len(stack') : stack'[i] = stack[i + 1]
           /\ \A w \in Frames :
                 Turns(w) => /\ Len(stack') = Len(stack) /\ stack'[1] = w
                             /\ \A i \in 2..Len(stack') : stack'[i] = stack[i]
           /\ \A f, w \in Frames :
                 CallsOn(f, w) => /\ Len(stack') = Len(stack) + 1
                                  /\ stack'[1] = f /\ stack'[2] = w
                                  /\ \A i \in 3..Len(stack') : stack'[i] = stack[i - 1]
<1>1. stack \in Seq(Frames) /\ Len(stack) \in Nat
  BY LenProperties DEF TypeOK
<1>2. stack # <<>> => Len(stack) > 0 /\ stack[1] = Head(stack)
  BY <1>1, HeadTailProperties, EmptySeq
<1>3. CASE stack = <<>>
  BY <1>1, <1>3 DEF Pops, Turns, CallsOn
<1>4. CASE stack # <<>>
  BY <1>1, <1>2, <1>4, StackShapes DEF Pops, Turns, CallsOn, Calls
<1> QED BY <1>3, <1>4

-----------------------------------------------------------------------------
(* Control: the inductive invariant behind the safety theorems.            *)

ReceiveFrames == {"receive", "receiveRest"}
InnerFrames == Frames \ ReceiveFrames

(* receive() is never called by a private method.                          *)
ReceiveLow(s) ==
    \A i, j \in 1..Len(s) : i < j /\ s[i] \in ReceiveFrames => s[j] = "ret"

OnlyReturns(s) == Range(s) \subseteq {"ret"}
Receives(s) == Range(s) \cap ReceiveFrames # {}

(* Frames wait on the stack only while a call is being executed; receive() *)
(* is among them until it has its data; before the handshake nothing has   *)
(* happened to the stream; and an engine that failed sends nothing more.   *)
Control ==
    /\ stack # <<>> => call \in Running
    /\ ReceiveLow(stack)
    /\ Receives(stack) => call = "receive"
    /\ call = "receive" => OnlyReturns(stack) \/ Receives(stack)
    /\ call = "new" => /\ engine = NewEngine
                       /\ accepted = 0 /\ received = <<>>
                       /\ readIn = 0 /\ outWire = <<>>
                       /\ appOut.pos = 0 /\ netOut.pos = 0
    /\ engine.failed => engine.out # "open"

(* What a move does to the stack.                                          *)
InnerStep ==
    /\ stack # <<>> /\ Head(stack) \notin ReceiveFrames
    /\ \E c, d \in Seq(InnerFrames) : GoesOn(c, d)

ReceiveStack ==
    \/ OnTop("receive") /\ \E w \in ReceiveFrames : GoesOn(<<"doUnwrap">>, <<w>>)
    \/ OnTop("receive") /\ GoesOn(<<>>, <<"ret">>)
    \/ OnTop("receiveRest") /\ GoesOn(<<"receive">>, <<"ret">>)

EndStep == stack # <<>> /\ stack' = <<>> /\ call' \in Stopped \ {"new"}

CallStep ==
    /\ call \in {"new", "idle"}
    /\ \/ stack' = <<>> /\ call' \in Stopped \ {"new"}
       \/ call' = "disposed" /\ stack' = stack
       \/ call' = "authenticate" /\ stack' = CalleesOf(Status(NewEngine)) \o <<"ret">>
       \/ call' = "send" /\ stack' = <<"doWrap", "ret">>
       \/ call' = "receive" /\ stack' = <<"receive">>
       \/ call' = "close" /\ stack' = <<"close", "ret">>

LEMMA InnerPushed ==
    /\ {<<>>, <<"doWrap">>, <<"doUnwrap">>, <<"close">>, <<"wrapRest">>, <<"closeRest">>,
        <<"ret">>, <<"wrapOverflow">>, <<"unwrapOverflow">>, <<"unwrapUnderflow">>}
            \subseteq Seq(InnerFrames)
    /\ \A hs : CalleesOf(hs) \in Seq(InnerFrames)
<1>1. <<>> \in Seq(InnerFrames) /\ \A f \in InnerFrames : <<f>> \in Seq(InnerFrames)
  OBVIOUS
<1>2. {"doWrap", "doUnwrap", "close", "runTasks", "wrapRest", "closeRest", "ret",
       "wrapOverflow", "unwrapOverflow", "unwrapUnderflow"} \subseteq InnerFrames
  BY DEF InnerFrames, ReceiveFrames, Frames, Resting
<1> QED BY <1>1, <1>2 DEF CalleesOf

LEMMA MoveStack ==
    ASSUME TypeOK, Move
    PROVE  InnerStep \/ ReceiveStack \/ EndStep \/ CallStep \/ (stack' = stack /\ call' = call)
<1>1. ASSUME NEW f, f \notin ReceiveFrames, OnTop(f),
             NEW c \in Seq(InnerFrames), NEW d \in Seq(InnerFrames), GoesOn(c, d) \/ Ends
      PROVE  InnerStep \/ EndStep
  BY <1>1 DEF InnerStep, EndStep, OnTop, Ends, Stopped
<1>2. CASE WrapMove
  <2>1. PICK r : WrapMoved(r)
    BY <1>2 DEF WrapMove
  <2>2. \E c, d \in Seq(InnerFrames) : GoesOn(c, d) \/ Ends
    BY <2>1, InnerPushed DEF WrapMoved, Flushed, Follows, Retries, Ends
  <2> QED BY <1>1, <1>2, <2>2 DEF WrapMove, ReceiveFrames
<1>3. CASE UnwrapMove
  <2>1. PICK r : UnwrapMoved(r)
    BY <1>3 DEF UnwrapMove
  <2>2. \E c, d \in Seq(InnerFrames) : GoesOn(c, d) \/ Ends
    BY <2>1, InnerPushed DEF UnwrapMoved, Follows, Retries, Ends
  <2> QED BY <1>1, <1>3, <2>2 DEF UnwrapMove, ReceiveFrames
<1>4. CASE EndOfStreamMove
  <2>1. \E c, d \in Seq(InnerFrames) : GoesOn(c, d) \/ Ends
    BY <1>4, InnerPushed DEF EndOfStreamMove
  <2> QED BY <1>1, <1>4, <2>1 DEF EndOfStreamMove, ReceiveFrames
<1>5. CASE CloseMove \/ TasksMove
  <2>1. \E c, d \in Seq(InnerFrames) : GoesOn(c, d) \/ Ends
    BY <1>5, InnerPushed DEF CloseMove, TasksMove, Follows
  <2> QED BY <1>1, <1>5, <2>1 DEF CloseMove, TasksMove, ReceiveFrames
<1>6. CASE RestMove
  <2>1. CASE OnTop("receiveRest") /\ GoesOn(<<"receive">>, <<"ret">>)
    BY <2>1 DEF ReceiveStack
  <2>2. CASE \E f \in {"wrapRest", "closeRest"} :
                OnTop(f) /\ \E c, d \in Seq(InnerFrames) : GoesOn(c, d)
    BY <1>1, <2>2 DEF ReceiveFrames
  <2>3. \/ OnTop("receiveRest") /\ GoesOn(<<"receive">>, <<"ret">>)
        \/ \E f \in {"wrapRest", "closeRest"} :
              OnTop(f) /\ \E c, d \in Seq(InnerFrames) : GoesOn(c, d)
    BY <1>6, InnerPushed DEF RestMove
  <2> QED BY <2>1, <2>2, <2>3
<1>7. CASE ReceiveMove
  BY <1>7 DEF ReceiveMove, ReceiveStack, EndStep, OnTop, Stopped, ReceiveFrames
<1>8. CASE EndMove
  BY <1>8 DEF EndMove, EndStep, Stopped
<1>9. CASE Return
  <2>1. stack \in Seq(Frames) /\ stack # <<>> /\ Tail(stack) \in Seq(Frames)
    BY <1>9, HeadTailProperties DEF Return, TypeOK
  <2>2. CASE Len(stack) = 1
    BY <1>9, <2>1, <2>2, LastFrame DEF Return, EndStep, Stopped
  <2>3. CASE Len(stack) # 1
    <3>1. <<>> \o <<>> \o Tail(stack) = Tail(stack)
      BY <2>1, ConcatEmptySeq
    <3>2. GoesOn(<<>>, <<>>)
      BY <1>9, <2>3, <3>1 DEF Return, GoesOn, Calls
    <3>3. Head(stack) \notin ReceiveFrames
      BY <1>9 DEF Return, Resting, ReceiveFrames
    <3> QED BY <2>1, <3>2, <3>3, InnerPushed DEF InnerStep
  <2> QED BY <2>2, <2>3
<1>10. CASE OpenMove
  BY <1>10 DEF OpenMove, CallStep, Ends, Stopped
<1>11. CASE (\E n \in SendSizes : SendMove(n)) \/ AskMove
  BY <1>11 DEF SendMove, AskMove, Enter, CallStep, Ends, Stopped
<1>12. CASE Peer \/ UNCHANGED vars
  BY <1>12 DEF Peer, vars, callerVars
<1> QED BY <1>2, <1>3, <1>4, <1>5, <1>6, <1>7, <1>8, <1>9, <1>10, <1>11, <1>12 DEF Move

(* Where receive() may stand.                                              *)
LEMMA ReceiveLowCalls ==
    ASSUME NEW s \in Seq(Frames), s # <<>>, ReceiveLow(s),
           NEW c \in Seq(InnerFrames), NEW d \in Seq(InnerFrames)
    PROVE  ReceiveLow(c \o d \o Tail(s))
<1> DEFINE cd == c \o d
           t == Tail(s)
           n == Len(cd)
           m == Len(t)
<1>1. cd \in Seq(InnerFrames) /\ n \in Nat
  BY ConcatProperties, LenProperties
<1>2. t \in Seq(Frames) /\ m = Len(s) - 1 /\ m \in Nat /\ \A i \in 1..m : t[i] = s[i + 1]
  BY HeadTailProperties, LenProperties
<1>3. cd \in Seq(Frames)
  BY <1>1, SeqMonotonic DEF InnerFrames
<1>4. \A i \in 1..n : cd[i] \notin ReceiveFrames
  BY <1>1, ElementOfSeq DEF InnerFrames
<1> HIDE DEF cd, t
<1>5. /\ Len(cd \o t) = n + m
      /\ \A i \in 1..n + m : (cd \o t)[i] = IF i <= n THEN cd[i] ELSE t[i - n]
  BY <1>2, <1>3, ConcatProperties
<1> HIDE DEF n, m
<1>6. ASSUME NEW i \in 1..n + m, NEW j \in 1..n + m, i < j,
             (cd \o t)[i] \in ReceiveFrames
      PROVE  (cd \o t)[j] = "ret"
  <2>1. ~(i <= n)
    <3>1. CASE i <= n
      <4>1. i \in 1..n /\ (cd \o t)[i] = cd[i]
        BY <1>1, <1>2, <1>5, <1>6, <3>1
      <4> QED BY <1>4, <1>6, <4>1
    <3> QED BY <3>1
  <2>2. i - n \in 1..m /\ j - n \in 1..m /\ ~(j <= n)
    BY <1>1, <1>2, <1>6, <2>1
  <2>3. (cd \o t)[i] = s[(i - n) + 1] /\ (cd \o t)[j] = s[(j - n) + 1]
    BY <1>2, <1>5, <2>1, <2>2
  <2>4. /\ (i - n) + 1 \in 1..Len(s) /\ (j - n) + 1 \in 1..Len(s)
        /\ (i - n) + 1 < (j - n) + 1
    <3>1. Len(s) = m + 1
      <4>1. Len(s) \in Nat
        BY LenProperties
      <4> QED BY <1>2, <4>1
    <3> QED BY <1>1, <1>2, <1>6, <2>2, <3>1
  <2> QED BY <1>6, <2>3, <2>4 DEF ReceiveLow
<1> QED BY <1>5, <1>6 DEF ReceiveLow, cd, t

LEMMA ReceiveLowOnTop ==
    ASSUME NEW s \in Seq(Frames), s # <<>>, ReceiveLow(s), Head(s) \in ReceiveFrames
    PROVE  Tail(s) \in Seq({"ret"}) /\ OnlyReturns(Tail(s))
<1> DEFINE t == Tail(s)
           m == Len(t)
<1>1. /\ t \in Seq(Frames) /\ m = Len(s) - 1 /\ m \in Nat /\ Len(s) \in Nat
      /\ \A i \in 1..m : t[i] = s[i + 1]
      /\ Head(s) = s[1]
  BY HeadTailProperties, LenProperties
<1> HIDE DEF t, m
<1>2. ASSUME NEW i \in 1..m PROVE t[i] = "ret"
  <2>1. 1 \in 1..Len(s) /\ i + 1 \in 1..Len(s) /\ 1 < i + 1
    BY <1>1
  <2> QED BY <1>1, <2>1 DEF ReceiveLow
<1>3. t \in Seq({"ret"})
  <2>1. t \in Seq(Frames) /\ \A i \in 1..Len(t) : t[i] \in {"ret"}
    BY <1>1, <1>2 DEF m
  <2> QED BY <2>1, SeqDef, LenProperties
<1>4. Range(t) \subseteq {"ret"}
  BY <1>3, RangeOfSeq
<1> QED BY <1>3, <1>4 DEF OnlyReturns, t

LEMMA ReceiveLowBuilt ==
    ASSUME NEW c \in Seq(InnerFrames), NEW w \in Frames, NEW t \in Seq({"ret"})
    PROVE  ReceiveLow(c \o <<w>> \o t)
<1> DEFINE cw == c \o <<w>>
           n == Len(c)
           m == Len(t)
<1>1. /\ c \in Seq(Frames) /\ <<w>> \in Seq(Frames) /\ Len(<<w>>) = 1
      /\ t \in Seq(Frames) /\ n \in Nat /\ m \in Nat
  BY SeqMonotonic, LenProperties DEF InnerFrames, Frames, Resting
<1>2. /\ cw \in Seq(Frames) /\ Len(cw) = n + 1
      /\ \A i \in 1..n + 1 : i <= n => cw[i] = c[i]
  BY <1>1, ConcatProperties
<1> HIDE DEF cw
<1>3. /\ Len(cw \o t) = n + 1 + m
      /\ \A i \in 1..n + 1 + m :
            (cw \o t)[i] = IF i <= n + 1 THEN cw[i] ELSE t[i - (n + 1)]
  <2>1. /\ Len(cw \o t) = Len(cw) + Len(t)
        /\ \A i \in 1..Len(cw) + Len(t) :
              (cw \o t)[i] = IF i <= Len(cw) THEN cw[i] ELSE t[i - Len(cw)]
    BY <1>1, <1>2, ConcatProperties
  <2> QED BY <1>2, <2>1, Zenon
<1>4. \A i \in 1..n : c[i] \notin ReceiveFrames
  BY ElementOfSeq DEF InnerFrames
<1>5. \A i \in 1..m : t[i] = "ret"
  BY ElementOfSeq
<1> HIDE DEF n, m
<1>6. ASSUME NEW i \in 1..n + 1 + m, NEW j \in 1..n + 1 + m, i < j,
             (cw \o t)[i] \in ReceiveFrames
      PROVE  (cw \o t)[j] = "ret"
  <2>1. CASE i <= n
    <3>1. i \in 1..n /\ i \in 1..n + 1 /\ i <= n + 1
      BY <1>1, <1>6, <2>1
    <3>2. (cw \o t)[i] = c[i]
      BY <1>2, <1>3, <2>1, <3>1
    <3> QED BY <1>4, <1>6, <3>1, <3>2
  <2>2. CASE ~(i <= n)
    <3>1. ~(j <= n + 1) /\ j - (n + 1) \in 1..m
      BY <1>1, <1>6, <2>2
    <3> QED BY <1>3, <1>5, <1>6, <3>1
  <2> QED BY <2>1, <2>2
<1> QED BY <1>3, <1>6 DEF ReceiveLow, cw

(* Control is kept by the three kinds of move that run a method ...        *)
LEMMA InnerStepControl ==
    ASSUME TypeOK, Control, InnerStep
    PROVE  /\ call' = call /\ call \in Running
           /\ ReceiveLow(stack')
           /\ Receives(stack') <=> Receives(stack)
           /\ OnlyReturns(stack) => OnlyReturns(Tail(stack)) /\ Head(stack) = "ret"
<1>1. stack # <<>> /\ stack \in Seq(Frames) /\ Head(stack) \notin ReceiveFrames
  BY DEF InnerStep, TypeOK
<1>2. PICK c \in Seq(InnerFrames), d \in Seq(InnerFrames) : GoesOn(c, d)
  BY DEF InnerStep
<1>3. c \in Seq(Frames) /\ d \in Seq(Frames)
  BY SeqMonotonic DEF InnerFrames
<1>4. /\ Range(stack') = Range(c) \cup Range(d) \cup Range(Tail(stack))
      /\ Range(stack) = {Head(stack)} \cup Range(Tail(stack))
  BY <1>1, <1>2, <1>3, RangeGoesOn
<1>5. Range(c) \cap ReceiveFrames = {} /\ Range(d) \cap ReceiveFrames = {}
  BY RangeOfSeq DEF InnerFrames
<1>6. ReceiveLow(stack')
  <2>1. ReceiveLow(c \o d \o Tail(stack))
    BY <1>1, ReceiveLowCalls DEF Control
  <2> QED BY <1>2, <2>1 DEF GoesOn, Calls
<1>7. Receives(stack') <=> Receives(stack)
  BY <1>1, <1>4, <1>5 DEF Receives
<1>8. OnlyReturns(stack) => OnlyReturns(Tail(stack)) /\ Head(stack) = "ret"
  BY <1>4 DEF OnlyReturns
<1> QED BY <1>1, <1>2, <1>6, <1>7, <1>8 DEF Control, GoesOn

(* ... or receive(), which has its data when only returns are left.        *)
LEMMA ReceiveStackControl ==
    ASSUME TypeOK, Control, ReceiveStack
    PROVE  /\ call' = call /\ call = "receive"
           /\ ReceiveLow(stack')
           /\ Receives(stack)
           /\ \/ OnTop("receive") /\ GoesOn(<<>>, <<"ret">>) /\ OnlyReturns(stack')
              \/ ~(OnTop("receive") /\ GoesOn(<<>>, <<"ret">>)) /\ Receives(stack')
<1>1. stack # <<>> /\ stack \in Seq(Frames) /\ Head(stack) \in ReceiveFrames
  BY DEF ReceiveStack, OnTop, TypeOK, ReceiveFrames
<1>2. Tail(stack) \in Seq({"ret"}) /\ OnlyReturns(Tail(stack)) /\ Tail(stack) \in Seq(Frames)
  BY <1>1, ReceiveLowOnTop, HeadTailProperties DEF Control
<1>3. Receives(stack)
  BY <1>1, RangeHead DEF Receives
<1>4. call = "receive"
  BY <1>3 DEF Control
<1>5. ASSUME NEW c \in Seq(InnerFrames), NEW w \in Frames, GoesOn(c, <<w>>)
      PROVE  /\ call' = call /\ ReceiveLow(stack')
             /\ Range(stack') = Range(c) \cup {w} \cup Range(Tail(stack))
  <2>1. c \in Seq(Frames) /\ <<w>> \in Seq(Frames)
    BY SeqMonotonic DEF InnerFrames
  <2>2. Range(stack') = Range(c) \cup Range(<<w>>) \cup Range(Tail(stack))
    BY <1>1, <1>5, <2>1, RangeGoesOn
  <2>3. ReceiveLow(c \o <<w>> \o Tail(stack))
    BY <1>2, ReceiveLowBuilt
  <2> QED BY <1>5, <2>2, <2>3, RangeOne DEF GoesOn, Calls
<1>6. CASE OnTop("receive") /\ \E w \in ReceiveFrames : GoesOn(<<"doUnwrap">>, <<w>>)
  <2>1. PICK w \in ReceiveFrames : GoesOn(<<"doUnwrap">>, <<w>>)
    BY <1>6
  <2>2. w \in Frames /\ <<"doUnwrap">> \in Seq(InnerFrames)
    BY InnerPushed DEF ReceiveFrames, Frames
  <2>3. call' = call /\ ReceiveLow(stack') /\ w \in Range(stack')
    BY <1>5, <2>1, <2>2
  <2>4. Receives(stack')
    BY <2>3 DEF Receives
  <2>5. ~GoesOn(<<>>, <<"ret">>)
    <3>1. SUFFICES ASSUME GoesOn(<<>>, <<"ret">>) PROVE FALSE
      OBVIOUS
    <3>2. "ret" \in Frames /\ <<>> \in Seq(InnerFrames)
      BY InnerPushed DEF Frames, Resting
    <3>3. Range(stack') = Range(<<>>) \cup {"ret"} \cup Range(Tail(stack))
      BY <1>5, <3>1, <3>2
    <3> QED BY <1>2, <2>4, <3>3, RangeOne DEF Receives, OnlyReturns, ReceiveFrames
  <2> QED BY <1>3, <1>4, <2>3, <2>4, <2>5
<1>7. CASE OnTop("receive") /\ GoesOn(<<>>, <<"ret">>)
  <2>1. "ret" \in Frames /\ <<>> \in Seq(InnerFrames)
    BY InnerPushed DEF Frames, Resting
  <2>2. /\ call' = call /\ ReceiveLow(stack')
        /\ Range(stack') = Range(<<>>) \cup {"ret"} \cup Range(Tail(stack))
    BY <1>5, <1>7, <2>1
  <2>3. OnlyReturns(stack')
    BY <1>2, <2>2, RangeOne DEF OnlyReturns
  <2> QED BY <1>3, <1>4, <1>7, <2>2, <2>3
<1>8. CASE OnTop("receiveRest") /\ GoesOn(<<"receive">>, <<"ret">>)
  <2>1. stack' = <<"receive">> \o <<"ret">> \o Tail(stack) /\ call' = call
    BY <1>8 DEF GoesOn, Calls
  <2> DEFINE r == <<"ret">> \o Tail(stack)
  <2>2. r \in Seq({"ret"})
    <3>1. <<"ret">> \in Seq({"ret"})
      OBVIOUS
    <3> QED BY <1>2, <3>1, ConcatProperties
  <2>3. ReceiveLow(<<>> \o <<"receive">> \o r)
    <3>1. "receive" \in Frames /\ <<>> \in Seq(InnerFrames)
      BY InnerPushed DEF Frames
    <3> HIDE DEF r
    <3> QED BY <2>2, <3>1, ReceiveLowBuilt
  <2>4. stack' = <<>> \o <<"receive">> \o r
    <3>1. /\ <<"receive">> \in Seq(Frames) /\ <<"ret">> \in Seq(Frames)
          /\ r \in Seq(Frames)
      <4>1. r \in Seq(Frames)
        BY <2>2, SeqMonotonic DEF Frames, Resting
      <4> QED BY <4>1, PushedFrames
    <3>2. <<>> \o <<"receive">> = <<"receive">>
      BY <3>1, ConcatEmptySeq
    <3>3. <<"receive">> \o <<"ret">> \o Tail(stack) = <<"receive">> \o r
      BY <1>2, <3>1, ConcatAssociative
    <3> QED BY <2>1, <3>2, <3>3, Zenon
  <2>5. Receives(stack')
    <3>1. <<"receive">> \in Seq(Frames) /\ <<"ret">> \in Seq(Frames)
      BY PushedFrames
    <3>2. Range(stack') = Range(<<"receive">>) \cup Range(<<"ret">>) \cup Range(Tail(stack))
      BY <1>1, <1>8, <3>1, RangeGoesOn
    <3> QED BY <3>2, RangeOne DEF Receives, ReceiveFrames
  <2>6. ReceiveLow(stack')
    BY <2>3, <2>4, Zenon
  <2>7. ~OnTop("receive")
    BY <1>8 DEF OnTop
  <2> QED BY <1>3, <1>4, <2>1, <2>5, <2>6, <2>7
<1> QED BY <1>6, <1>7, <1>8 DEF ReceiveStack

(* How the engine may change, in any move but the first.                   *)
EngineMoves(e, f) ==
    Shuts(e, f) \/ Advanced(e, f) \/ Carried(e, f)

LEMMA MoveEngine ==
    ASSUME TypeOK, Move, ~OpenMove
    PROVE  /\ EngineMoves(engine, engine')
           /\ engine.failed => engine'.failed
           /\ engine'.failed => engine.failed \/ engine'.out # "open"
<1>1. engine \in Engines
  BY DEF TypeOK
<1>2. CASE engine' = engine
  BY <1>1, <1>2, SameShuts DEF EngineMoves
<1>3. CASE WrapMove
  <2>1. PICK r : WrapControl(engine, r) /\ engine' = r.engine
    BY <1>3, WrapMoveEffect DEF WrapMoved
  <2> QED BY <2>1, SameShuts DEF WrapControl, EngineMoves, Advanced, Carried, Failed
<1>4. CASE UnwrapMove
  <2>1. PICK r : UnwrapControl(engine, r) /\ engine' = r.engine
    BY <1>4, UnwrapMoveEffect DEF UnwrapMoved
  <2> QED BY <2>1, SameShuts DEF UnwrapControl, EngineMoves, Advanced, Carried, Failed
<1>5. CASE EndOfStreamMove
  <2>1. PICK r \in CloseInbound(engine) : engine' = r.engine
    BY <1>5 DEF EndOfStreamMove
  <2> QED BY <1>1, <2>1, CloseInboundControl DEF EngineMoves
<1>6. CASE CloseMove
  <2>1. engine' = CloseOutbound(engine)
    BY <1>6 DEF CloseMove
  <2> QED BY <1>1, <2>1, CloseOutboundControl DEF EngineMoves
<1>7. CASE TasksMove
  <2>1. engine' = RunDelegatedTasks(engine)
    BY <1>7 DEF TasksMove
  <2>2. engine' = engine \/ Advanced(engine, engine')
    BY <1>1, <2>1, RunDelegatedTasksControl
  <2> QED BY <1>2, <2>2 DEF EngineMoves, Advanced
<1>8. ReceiveMove \/ RestMove \/ EndMove \/ Return \/ (\E n \in SendSizes : SendMove(n))
        \/ AskMove \/ Peer \/ UNCHANGED vars => engine' = engine
  BY DEF ReceiveMove, RestMove, EndMove, Return, SendMove, AskMove, Peer, vars, streamVars
<1> QED BY <1>2, <1>3, <1>4, <1>5, <1>6, <1>7, <1>8 DEF Move

LEMMA FailedShutStep ==
    ASSUME TypeOK, Control, Move
    PROVE  engine'.failed => engine'.out # "open"
<1>1. CASE OpenMove
  BY <1>1 DEF OpenMove, NewEngine
<1>2. CASE ~OpenMove
  BY <1>2, MoveEngine DEF Control, EngineMoves, Shuts, Advanced, Carried
<1> QED BY <1>1, <1>2

(* Only OpenMove leaves the state in which nothing was called.             *)
LEMMA NewStays ==
    ASSUME TypeOK, Control, Move, call' = "new"
    PROVE  /\ UNCHANGED <<engine, accepted, received, readIn, outWire, appOut, netOut>>
           /\ call = "new"
<1>1. stack # <<>> => call \in Running
  BY DEF Control
<1>2. call = "new" /\ stack = <<>>
  <2>1. CASE InnerStep
    BY <2>1, InnerStepControl, <1>1 DEF Running
  <2>2. CASE ReceiveStack
    BY <2>2, ReceiveStackControl DEF Running
  <2>3. CASE EndStep \/ CallStep
    BY <2>3 DEF EndStep, CallStep, Stopped
  <2>4. CASE stack' = stack /\ call' = call
    BY <1>1, <2>4 DEF Running
  <2> QED BY <2>1, <2>2, <2>3, <2>4, MoveStack
<1>3. Peer \/ UNCHANGED vars
  BY <1>2 DEF Move, WrapMove, UnwrapMove, EndOfStreamMove, ReceiveMove, CloseMove, TasksMove,
         RestMove, EndMove, Return, OpenMove, SendMove, AskMove, Enter, OnTop, Ends
<1> QED BY <1>2, <1>3 DEF Peer, PeerStep, PeerHandshake, PeerSend, PeerFin, PeerReset,
                          vars, streamVars, callerVars, wireVars

LEMMA InitControl == Init => Control
BY RangeOne DEF Init, TransportInit, Control, ReceiveLow, Receives, NewEngine, Allocate

LEMMA MoveControl == TypeOK /\ Control /\ Move => Control'
<1> SUFFICES ASSUME TypeOK, Control, Move PROVE Control'
  OBVIOUS
<1>1. /\ stack' # <<>> => call' \in Running
      /\ ReceiveLow(stack')
      /\ Receives(stack') => call' = "receive"
      /\ call' = "receive" => OnlyReturns(stack') \/ Receives(stack')
  <2>0. ReceiveLow(<<>>) /\ ~Receives(<<>>) /\ OnlyReturns(<<>>)
    BY RangeOne DEF ReceiveLow, Receives, OnlyReturns
  <2>1. CASE InnerStep
    <3>1. /\ call' = call /\ call \in Running /\ ReceiveLow(stack')
          /\ Receives(stack') <=> Receives(stack)
          /\ OnlyReturns(stack) => OnlyReturns(Tail(stack)) /\ Head(stack) = "ret"
      BY <2>1, InnerStepControl
    <3>2. ASSUME call = "receive", ~Receives(stack) PROVE OnlyReturns(stack')
      <4>1. OnlyReturns(Tail(stack)) /\ Head(stack) = "ret" /\ stack # <<>>
        BY <2>1, <3>1, <3>2 DEF Control, InnerStep
      <4>2. stack' \in {Tail(stack), stack, <<>>}
        BY <3>2, <4>1 DEF Move, WrapMove, UnwrapMove, EndOfStreamMove, ReceiveMove,
             CloseMove, TasksMove, RestMove, EndMove, Return, OpenMove, SendMove, AskMove,
             Enter, Peer, OnTop, vars
      <4>3. OnlyReturns(stack)
        BY <3>2 DEF Control
      <4> QED BY <2>0, <4>1, <4>2, <4>3
    <3> QED BY <3>1, <3>2 DEF Control
  <2>2. CASE ReceiveStack
    BY <2>2, ReceiveStackControl DEF Running
  <2>3. CASE EndStep
    BY <2>0, <2>3 DEF EndStep, Stopped
  <2>4. CASE CallStep
    <3>1. stack = <<>>
      BY <2>4 DEF CallStep, Control, Running
    <3>2. CASE call' = "authenticate" /\ stack' = CalleesOf(Status(NewEngine)) \o <<"ret">>
      <4> DEFINE c == CalleesOf(Status(NewEngine))
      <4>1. c \in Seq(InnerFrames) /\ c \in Seq(Frames) /\ <<"ret">> \in Seq(Frames)
        BY InnerPushed, CalleesOfType, PushedFrames
      <4> HIDE DEF c
      <4>2. ReceiveLow(c \o <<"ret">> \o <<>>)
        <5>1. "ret" \in Frames /\ <<>> \in Seq({"ret"})
          BY DEF Frames, Resting
        <5> QED BY <4>1, <5>1, ReceiveLowBuilt
      <4>3. stack' = c \o <<"ret">> \o <<>>
        <5>1. c \o <<"ret">> \in Seq(Frames)
          BY <4>1, ConcatProperties
        <5>2. (c \o <<"ret">>) \o <<>> = c \o <<"ret">>
          BY <5>1, ConcatEmptySeq
        <5> QED BY <3>2, <5>2, Zenon DEF c
      <4>4. Range(stack') = Range(c) \cup {"ret"}
        <5>1. Range(c \o <<"ret">>) = Range(c) \cup Range(<<"ret">>)
          BY <4>1, RangeConcatenation
        <5> QED BY <3>2, <5>1, RangeOne DEF c
      <4>5. ~Receives(stack')
        <5>1. Range(c) \cap ReceiveFrames = {}
          BY <4>1, RangeOfSeq DEF InnerFrames
        <5> QED BY <4>4, <5>1 DEF Receives, ReceiveFrames
      <4>6. ReceiveLow(stack')
        BY <4>2, <4>3, Zenon
      <4> QED BY <3>2, <4>5, <4>6 DEF Running
    <3>3. /\ ReceiveLow(<<"doWrap", "ret">>) /\ ReceiveLow(<<"receive">>)
          /\ ReceiveLow(<<"close", "ret">>)
      BY DEF ReceiveLow, ReceiveFrames
    <3>4. /\ Range(<<"doWrap", "ret">>) = {"doWrap", "ret"}
          /\ Range(<<"close", "ret">>) = {"close", "ret"}
      BY RangeTwo
    <3> QED BY <2>0, <2>4, <3>1, <3>2, <3>3, <3>4, RangeOne
            DEF CallStep, Running, Stopped, Receives, ReceiveFrames
  <2>5. CASE stack' = stack /\ call' = call
    BY <2>5 DEF Control
  <2> QED BY <2>1, <2>2, <2>3, <2>4, <2>5, MoveStack
<1>2. call' = "new" => /\ engine' = NewEngine
                       /\ accepted' = 0 /\ received' = <<>>
                       /\ readIn' = 0 /\ outWire' = <<>>
                       /\ appOut'.pos = 0 /\ netOut'.pos = 0
  BY NewStays DEF Control
<1> QED BY <1>1, <1>2, FailedShutStep DEF Control

-----------------------------------------------------------------------------
(* Frame lemmas: what each group of moves leaves alone.                    *)

(* The engine sent, carried, consumed and produced nothing.                *)
EngineKept ==
    /\ engine'.tx = engine.tx /\ engine'.plain = engine.plain
    /\ engine'.recs = engine.recs /\ engine'.rxApp = engine.rxApp
    /\ engine'.failed = engine.failed

QuietMove ==
    \/ EndOfStreamMove \/ CloseMove \/ TasksMove \/ RestMove \/ EndMove \/ Return
    \/ AskMove \/ Peer \/ UNCHANGED vars

LEMMA QuietFrame ==
    ASSUME TypeOK, QuietMove
    PROVE  /\ UNCHANGED <<wireVars, appOut, netOut, netIn, appIn, accepted, received>>
           /\ EngineKept
<1>1. UNCHANGED <<wireVars, appOut, netOut, netIn, appIn, accepted, received>>
  BY DEF QuietMove, EndOfStreamMove, CloseMove, TasksMove, RestMove, EndMove, Return,
         AskMove, Peer, PeerStep, PeerHandshake, PeerSend, PeerFin, PeerReset,
         vars, streamVars, callerVars
<1>2. engine \in Engines
  BY DEF TypeOK
<1>3. CASE CloseMove
  <2>1. engine' = CloseOutbound(engine)
    BY <1>3 DEF CloseMove
  <2> QED BY <1>1, <1>2, <2>1, CloseOutboundProperties DEF EngineKept
<1>4. CASE TasksMove
  <2>1. engine' = RunDelegatedTasks(engine)
    BY <1>4 DEF TasksMove
  <2> QED BY <1>1, <1>2, <2>1, RunDelegatedTasksProperties DEF EngineKept
<1>5. CASE EndOfStreamMove
  <2>1. PICK r \in CloseInbound(engine) : engine' = r.engine
    BY <1>5 DEF EndOfStreamMove
  <2> QED BY <1>1, <1>2, <2>1, CloseInboundProperties DEF EngineKept
<1>6. CASE ~CloseMove /\ ~TasksMove /\ ~EndOfStreamMove
  <2>1. engine' = engine
    BY <1>6 DEF QuietMove, RestMove, EndMove, Return, AskMove, Peer, vars, streamVars
  <2> QED BY <1>1, <2>1 DEF EngineKept
<1> QED BY <1>3, <1>4, <1>5, <1>6

LEMMA MoveCases ==
    Move => \/ QuietMove \/ OpenMove \/ (\E n \in SendSizes : SendMove(n))
            \/ ReceiveMove \/ WrapMove \/ UnwrapMove
BY DEF Move, QuietMove

(* doWrap() does not touch the inbound stream.                             *)
LEMMA WrapFrame ==
    ASSUME TypeOK, WrapMove
    PROVE  /\ UNCHANGED <<readIn, netIn, appIn, accepted, received>>
           /\ engine'.recs = engine.recs /\ engine'.rxApp = engine.rxApp
<1>1. PICK r : WrapEffect(engine, Flip(appOut), netOut, r) /\ engine' = r.engine
  BY WrapMoveEffect DEF WrapMoved
<1> QED BY <1>1 DEF WrapMove, WrapEffect

(* doUnwrap() does not touch the outbound stream.                          *)
LEMMA UnwrapFrame ==
    ASSUME TypeOK, UnwrapMove
    PROVE  /\ UNCHANGED <<outWire, appOut, netOut, accepted, received>>
           /\ engine'.tx = engine.tx /\ engine'.plain = engine.plain
<1>1. PICK b, r : UnwrapEffect(engine, Flip(b), appIn, r) /\ engine' = r.engine
  BY UnwrapMoveEffect DEF UnwrapMoved
<1> QED BY <1>1 DEF UnwrapMove, UnwrapEffect

(* A stream that has ended is not used again.                              *)
LEMMA StoppedStays ==
    ASSUME TypeOK, Control, Move, call \notin Running \cup {"new", "idle"}
    PROVE  call' = call
<1>1. stack = <<>>
  BY DEF Control
<1>2. ~InnerStep /\ ~ReceiveStack /\ ~EndStep /\ ~CallStep
  BY <1>1 DEF InnerStep, ReceiveStack, OnTop, EndStep, CallStep
<1> QED BY <1>2, MoveStack

-----------------------------------------------------------------------------
(* Inbound plaintext.                                                      *)

(* What the call that receive() makes finds in appIn, when it has data.    *)
LEMMA TakeAll ==
    ASSUME NEW b, GoodBuffer(b), Fillable(b)
    PROVE  LET f == Flip(b)
               c == Compact(Skip(f, Remaining(f)))
           IN  /\ Unread(f) = b.mem
               /\ Fillable(c) /\ c.mem = <<>>
<1> DEFINE f == Flip(b)
           d == Skip(f, Remaining(f))
<1>1. GoodBuffer(f) /\ Readable(f) /\ f.pos = 0 /\ f.lim = b.pos /\ f.mem = b.mem
  BY FlipGood
<1>2. Unread(f) = b.mem
  <2>1. b.mem \in Seq(Nat) /\ Len(b.mem) = b.pos
    BY DEF GoodBuffer, ByteBuffers, Fillable
  <2>2. SubSeq(b.mem, 0 + 1, b.pos) = b.mem
    BY <2>1, SubSeqFull
  <2> QED BY <1>1, <2>2 DEF Unread
<1>3. Remaining(f) \in Nat
  BY <1>1, RemainingNat
<1> HIDE DEF f
<1>4. GoodBuffer(d) /\ Readable(d) /\ Remaining(d) = 0
  BY <1>1, <1>3, SkipGood
<1> HIDE DEF d
<1>5. Unread(d) = <<>>
  <2>1. Unread(d) \in Seq(Nat) /\ Len(Unread(d)) = 0
    BY <1>4, UnreadProperties
  <2> QED BY <2>1, EmptySeq
<1>6. Fillable(Compact(d)) /\ Compact(d).mem = <<>>
  BY <1>4, <1>5, CompactGood
<1> QED BY <1>2, <1>6 DEF f, d

(* Of a stream whose process was not aborted: only then can a buffer have  *)
(* been replaced by one that its bytes do not fit.                         *)
Delivering == call # "aborted" => DeliveredInOrder

LEMMA DeliveringStep == TypeOK /\ Control /\ Delivering /\ Move => Delivering'
<1> SUFFICES ASSUME TypeOK, Control, Delivering, Move, call' # "aborted"
             PROVE  DeliveredInOrder'
  BY DEF Delivering
<1>0. /\ GoodBuffer(appIn) /\ Fillable(appIn)
      /\ appIn.mem \in Seq(Nat) /\ received \in Seq(Nat) /\ engine.rxApp \in Nat
      /\ received \o appIn.mem = Span(0, engine.rxApp)
  <2>1. call # "aborted"
    BY StoppedStays DEF Running
  <2> QED BY <2>1, BuffersGood, EngineFields
          DEF Delivering, DeliveredInOrder, TypeOK, GoodBuffer, ByteBuffers
<1>1. CASE UNCHANGED <<appIn, received>> /\ engine'.rxApp = engine.rxApp
  BY <1>0, <1>1 DEF DeliveredInOrder
<1>2. CASE QuietMove
  BY <1>1, <1>2, QuietFrame DEF EngineKept
<1>3. CASE WrapMove
  BY <1>1, <1>3, WrapFrame
<1>4. CASE \E n \in SendSizes : SendMove(n)
  BY <1>1, <1>4 DEF SendMove
<1>5. CASE OpenMove
  <2>1. received' = <<>> /\ engine'.rxApp = 0
    BY <1>5 DEF OpenMove, Control, NewEngine
  <2>2. <<>> \o <<>> = <<>> /\ Span(0, 0) = <<>>
    BY SpanEmpty, EmptySeq, ConcatEmptySeq
  <2> QED BY <1>5, <2>1, <2>2, NewBuffers DEF DeliveredInOrder
<1>6. CASE ReceiveMove
  <2> DEFINE b == Flip(appIn)
             c == Compact(Skip(b, Remaining(b)))
  <2>1. \/ received' = received \o Unread(b) /\ appIn' = c
        \/ received' = received /\ appIn' = Compact(b)
    BY <1>6 DEF ReceiveMove
  <2>2. engine' = engine
    BY <1>6 DEF ReceiveMove
  <2>3. Unread(b) = appIn.mem /\ Fillable(c) /\ c.mem = <<>>
    BY <1>0, TakeAll
  <2>4. Compact(b) = appIn
    BY <1>0, CompactFlip
  <2> HIDE DEF b, c
  <2>5. CASE received' = received \o Unread(b) /\ appIn' = c
    <3>1. received' = Span(0, engine.rxApp)
      BY <1>0, <2>3, <2>5
    <3>2. received' \o <<>> = received'
      BY <1>0, <3>1, SpanProperties, ConcatEmptySeq
    <3> QED BY <2>2, <2>3, <2>5, <3>1, <3>2 DEF DeliveredInOrder
  <2>6. CASE received' = received /\ appIn' = Compact(b)
    BY <1>1, <2>2, <2>4, <2>6
  <2> QED BY <2>1, <2>5, <2>6
<1>7. CASE UnwrapMove
  <2>1. PICK b, r : /\ GoodBuffer(b) /\ UnwrapEffect(engine, Flip(b), appIn, r)
                    /\ GoodBuffer(r.dst) /\ UnwrapMoved(r)
    BY <1>7, UnwrapMoveEffect
  <2> DEFINE src == Flip(b)
             n == r.engine.rxApp - engine.rxApp
  <2>2. engine \in Engines /\ UnwrapEffect(engine, src, appIn, r)
    BY <2>1 DEF TypeOK
  <2> HIDE DEF src
  <2>3. /\ Fillable(r.dst) /\ n \in Nat
        /\ r.dst.mem = appIn.mem \o Span(engine.rxApp, n)
    <3>1. /\ Fillable(r.dst) /\ r.engine.rxApp - engine.rxApp \in Nat
          /\ Appended(r.dst.mem, appIn.mem, engine.rxApp, r.engine.rxApp - engine.rxApp)
      BY <1>0, <2>2, UnwrapPlaintext, Zenon
    <3> QED BY <3>1 DEF Appended
  <2>4. r.engine.rxApp = engine.rxApp + n
    <3>1. r.engine.rxApp \in Nat
      BY <2>1, EngineFields DEF UnwrapEffect
    <3> QED BY <1>0, <3>1
  <2> HIDE DEF n
  <2>5. engine' = r.engine /\ (appIn' = r.dst \/ Regrown(appIn', r.dst))
    <3>1. ASSUME Retries(appIn', r.dst, "doUnwrap", "unwrapOverflow")
          PROVE  Regrown(appIn', r.dst)
      BY <3>1 DEF Retries
    <3> QED BY <2>1, <3>1 DEF UnwrapMoved
  <2>6. Fillable(appIn') /\ appIn'.mem = r.dst.mem
    BY <2>3, <2>5 DEF Regrown
  <2>7. received' = received
    BY <1>7, UnwrapFrame
  <2>8. received \o (appIn.mem \o Span(engine.rxApp, n)) = Span(0, engine.rxApp + n)
    <3> DEFINE mem == appIn.mem
               rx == engine.rxApp
    <3>1. /\ received \in Seq(Nat) /\ mem \in Seq(Nat) /\ rx \in Nat
          /\ received \o mem = Span(0, rx)
      BY <1>0
    <3> HIDE DEF mem, rx
    <3>2. received \o (mem \o Span(rx, n)) = Span(0, rx + n)
      BY <2>3, <3>1, SpanExtend
    <3> QED BY <3>2 DEF mem, rx
  <2> QED BY <2>3, <2>4, <2>5, <2>6, <2>7, <2>8 DEF DeliveredInOrder
<1> QED BY <1>2, <1>3, <1>4, <1>5, <1>6, <1>7, MoveCases

LEMMA InitDelivering == Init => Delivering
<1> SUFFICES ASSUME Init PROVE DeliveredInOrder
  BY DEF Delivering
<1>1. Fillable(appIn) /\ appIn.mem = <<>> /\ received = <<>> /\ engine.rxApp = 0
  BY AllocateGood DEF Init, NewEngine
<1>2. <<>> \o <<>> = <<>> /\ Span(0, 0) = <<>>
  BY SpanEmpty, EmptySeq, ConcatEmptySeq
<1> QED BY <1>1, <1>2 DEF DeliveredInOrder

-----------------------------------------------------------------------------
(* Records on the wire.                                                    *)

(* What flip() makes readable of a buffer that was being filled.           *)
LEMMA UnreadFlip ==
    ASSUME NEW b, GoodBuffer(b), Fillable(b)
    PROVE  Unread(Flip(b)) = b.mem
<1>1. Flip(b).mem = b.mem /\ Flip(b).pos = 0 /\ Flip(b).lim = b.pos
  BY FlipGood
<1>2. b.mem \in Seq(Nat) /\ Len(b.mem) = b.pos
  BY DEF GoodBuffer, ByteBuffers, Fillable
<1>3. SubSeq(b.mem, 0 + 1, b.pos) = b.mem
  BY <1>2, SubSeqFull
<1> QED BY <1>1, <1>3 DEF Unread

(* A buffer with nothing below its position holds nothing.                 *)
LEMMA NothingBelow ==
    ASSUME NEW b, GoodBuffer(b), Fillable(b), b.pos = 0
    PROVE  b.mem = <<>>
<1>1. b.mem \in Seq(Nat) /\ Len(b.mem) = 0
  BY DEF GoodBuffer, ByteBuffers, Fillable
<1> QED BY <1>1, EmptySeq

(* The bytes that doWrap() has in netOut before it flushes or retries are  *)
(* those the engine has just put there.                                    *)
LEMMA WrapAppends ==
    ASSUME TypeOK, Fillable(netOut), netOut.pos = 0, NEW src, NEW r,
           WrapEffect(engine, src, netOut, r), outWire = Span(0, engine.tx)
    PROVE  /\ Fillable(r.dst)
           /\ outWire \o r.dst.mem = Span(0, r.engine.tx)
           /\ r.status \notin {"OK", "CLOSED"} =>
                 r.dst = netOut /\ r.engine.tx = engine.tx
<1>0. /\ GoodBuffer(netOut) /\ engine \in Engines /\ engine.tx \in Nat /\ RecLen \in Nat
      /\ netOut.mem = <<>>
  BY BuffersGood, EngineFields, NothingBelow, EngineAssumption DEF TypeOK
<1>1. CASE r.dst = netOut /\ r.engine.tx = engine.tx
  <2>1. Span(0, engine.tx) \o <<>> = Span(0, engine.tx)
    BY <1>0, SpanProperties, ConcatEmptySeq
  <2> QED BY <1>0, <1>1, <2>1
<1>2. CASE /\ r.status \in {"OK", "CLOSED"} /\ RecLen <= Remaining(netOut)
           /\ r.dst = Emit(engine, netOut) /\ r.engine.tx = engine.tx + RecLen
  <2> DEFINE rec == Span(engine.tx, RecLen)
  <2>1. Fillable(r.dst) /\ r.dst.mem = netOut.mem \o rec
    BY <1>0, <1>2, EmitGood
  <2>2. rec \in Seq(Nat)
    BY <1>0, SpanProperties
  <2>3. Span(0, engine.tx) \o Span(0 + engine.tx, RecLen) = Span(0, engine.tx + RecLen)
    <3> DEFINE tx == engine.tx
    <3>1. tx \in Nat /\ RecLen \in Nat /\ 0 \in Nat
      BY <1>0
    <3> HIDE DEF tx
    <3>2. Span(0, tx) \o Span(0 + tx, RecLen) = Span(0, tx + RecLen)
      BY <3>1, SpanConcat
    <3> QED BY <3>2 DEF tx
  <2>4. 0 + engine.tx = engine.tx
    BY <1>0
  <2>5. Span(0, engine.tx) \o rec = Span(0, engine.tx + RecLen)
    BY <2>3, <2>4
  <2> HIDE DEF rec
  <2>6. <<>> \o rec = rec
    BY <2>2, ConcatEmptySeq
  <2> QED BY <1>0, <1>2, <2>1, <2>5, <2>6
<1> QED BY <1>1, <1>2 DEF WrapEffect

(* What wrap() made is on the wire, or the write has failed and ended the  *)
(* call; or nothing was made.                                              *)
LEMMA WrapWrites ==
    ASSUME TypeOK, Fillable(netOut), netOut.pos = 0, outWire = Span(0, engine.tx),
           NEW r, WrapEffect(engine, Flip(appOut), netOut, r),
           GoodBuffer(r.dst), WrapMoved(r)
    PROVE  \/ /\ outWire' = Span(0, engine'.tx)
              /\ (Fillable(netOut') /\ netOut'.pos = 0) \/ call' = "aborted"
           \/ /\ outWire' = outWire /\ Ends
              /\ engine'.tx \in {engine.tx, engine.tx + RecLen}
<1>1. engine' = r.engine
  BY DEF WrapMoved
<1>2. /\ Fillable(r.dst) /\ outWire \o r.dst.mem = Span(0, r.engine.tx)
      /\ r.status \notin {"OK", "CLOSED"} => r.dst = netOut /\ r.engine.tx = engine.tx
  BY WrapAppends
<1>3. CASE r.status = "SSLException"
  BY <1>1, <1>2, <1>3 DEF WrapMoved
<1>4. CASE r.status = "BUFFER_OVERFLOW"
  <2>1. outWire' = outWire /\ (Regrown(netOut', netOut) \/ call' = "aborted")
    BY <1>2, <1>4 DEF WrapMoved, Retries
  <2> QED BY <1>1, <1>2, <1>4, <2>1 DEF Regrown
<1>5. CASE r.status \in {"OK", "CLOSED"}
  <2>1. \E rest : Flushed(r.dst, r.hs, rest)
    BY <1>5 DEF WrapMoved
  <2>2. \/ outWire' = outWire \o Unread(Flip(r.dst)) /\ netOut' = Compact(Drained(r.dst))
        \/ outWire' = outWire /\ Ends
    BY <2>1 DEF Flushed
  <2>3. Unread(Flip(r.dst)) = r.dst.mem
    BY <1>2, UnreadFlip
  <2>4. r.engine.tx \in {engine.tx, engine.tx + RecLen}
    BY DEF WrapEffect
  <2> QED BY <1>1, <1>2, <2>2, <2>3, <2>4, DrainedGood
<1> QED BY <1>3, <1>4, <1>5 DEF WrapMoved

LEMMA WrittenStep ==
    TypeOK /\ Control /\ WrittenInOrder /\ Move => WrittenInOrder'
<1> SUFFICES ASSUME TypeOK, Control, WrittenInOrder, Move PROVE WrittenInOrder'
  OBVIOUS
<1>0. GoodBuffer(netOut) /\ engine.tx \in Nat /\ RecLen \in Nat
  BY BuffersGood, EngineFields, EngineAssumption DEF TypeOK
<1>1. CASE UNCHANGED <<outWire, netOut>> /\ engine'.tx = engine.tx
  <2>1. call' \notin {"threw", "aborted"} => call \notin {"threw", "aborted"}
    BY StoppedStays DEF Running
  <2> QED BY <1>1, <2>1 DEF WrittenInOrder
<1>2. CASE QuietMove
  BY <1>1, <1>2, QuietFrame DEF EngineKept, wireVars
<1>3. CASE OpenMove
  <2>1. outWire' = <<>> /\ engine'.tx = 0
    BY <1>3 DEF OpenMove, Control, NewEngine, wireVars
  <2> QED BY <1>3, <2>1, NewBuffers, SpanEmpty DEF WrittenInOrder
<1>4. CASE (\E n \in SendSizes : SendMove(n)) \/ ReceiveMove
  BY <1>1, <1>4 DEF SendMove, ReceiveMove, wireVars
<1>5. CASE UnwrapMove
  BY <1>1, <1>5, UnwrapFrame
<1>6. CASE WrapMove
  <2>1. PICK r : /\ WrapEffect(engine, Flip(appOut), netOut, r)
                 /\ GoodBuffer(r.dst) /\ WrapMoved(r)
    BY <1>6, WrapMoveEffect
  <2>2. Fillable(netOut) /\ netOut.pos = 0 /\ outWire = Span(0, engine.tx)
    <3>1. stack # <<>>
      BY <1>6 DEF WrapMove, OnTop
    <3>2. call \notin {"threw", "aborted"}
      BY <3>1 DEF Control, Running
    <3> QED BY <3>2 DEF WrittenInOrder
  <2>3. \/ /\ outWire' = Span(0, engine'.tx)
           /\ (Fillable(netOut') /\ netOut'.pos = 0) \/ call' = "aborted"
        \/ /\ outWire' = outWire /\ Ends
           /\ engine'.tx \in {engine.tx, engine.tx + RecLen}
    BY <2>1, <2>2, WrapWrites
  <2>4. CASE outWire' = Span(0, engine'.tx)
    <3>1. (Fillable(netOut') /\ netOut'.pos = 0) \/ call' \in {"threw", "aborted"}
      BY <2>3 DEF Ends
    <3> QED BY <2>4, <3>1 DEF WrittenInOrder
  <2>5. CASE outWire' = outWire /\ Ends /\ engine'.tx \in {engine.tx, engine.tx + RecLen}
    <3>1. engine'.tx = engine.tx \/ engine'.tx - RecLen = engine.tx
      BY <1>0, <2>5
    <3> QED BY <2>2, <2>5, <3>1 DEF WrittenInOrder, Ends
  <2> QED BY <2>3, <2>4, <2>5
<1> QED BY <1>2, <1>3, <1>4, <1>5, <1>6, MoveCases

LEMMA InitWritten == Init => WrittenInOrder
<1> SUFFICES ASSUME Init PROVE WrittenInOrder
  OBVIOUS
<1>1. Fillable(netOut) /\ netOut.pos = 0 /\ outWire = <<>> /\ engine.tx = 0
  BY AllocateGood DEF Init, TransportInit, NewEngine, Allocate
<1> QED BY <1>1, SpanEmpty DEF WrittenInOrder

-----------------------------------------------------------------------------
(* Outbound plaintext.                                                     *)

(* What wrap() took from a buffer that was being filled is what it added   *)
(* to the plaintext it has encrypted, and compact() keeps the rest.        *)
LEMMA WrapTakes ==
    ASSUME NEW e \in Engines, NEW b, GoodBuffer(b), Fillable(b), NEW dst, NEW r,
           WrapEffect(e, Flip(b), dst, r)
    PROVE  /\ Fillable(Compact(r.src))
           /\ r.engine.plain \o Compact(r.src).mem = e.plain \o b.mem
<1>0. /\ e.plain \in Seq(Nat) /\ b.mem \in Seq(Nat) /\ b.pos \in Nat /\ Len(b.mem) = b.pos
      /\ Remaining(Flip(b)) = b.pos /\ Flip(b).mem = b.mem /\ Flip(b).pos = 0
  BY EngineFields, FlipGood DEF GoodBuffer, ByteBuffers, Fillable
<1>1. CASE r.src = Flip(b) /\ r.engine.plain = e.plain
  BY <1>1, CompactFlip
<1>2. ASSUME NEW k \in 0..b.pos, r.src = Skip(Flip(b), k),
             r.engine.plain = e.plain \o SubSeq(b.mem, 1, k)
      PROVE  /\ Fillable(Compact(r.src))
             /\ r.engine.plain \o Compact(r.src).mem = e.plain \o b.mem
  <2> DEFINE taken == SubSeq(b.mem, 1, k)
             rest == SubSeq(b.mem, k + 1, b.pos)
             plain == e.plain
  <2>1. Fillable(Compact(r.src)) /\ Compact(r.src).mem = rest
    BY <1>2, CompactTaken
  <2>2. taken \in Seq(Nat) /\ rest \in Seq(Nat) /\ taken \o rest = b.mem
    BY <1>0, CutAt
  <2>3. plain \in Seq(Nat) /\ r.engine.plain = plain \o taken
    BY <1>0, <1>2
  <2> HIDE DEF taken, rest, plain
  <2>4. (plain \o taken) \o rest = plain \o (taken \o rest)
    BY <2>2, <2>3, SeqNatAssociative, Zenon
  <2>5. r.engine.plain \o Compact(r.src).mem = plain \o b.mem
    BY <2>1, <2>2, <2>3, <2>4
  <2> QED BY <2>1, <2>5 DEF plain
<1>3. \/ r.src = Flip(b) /\ r.engine.plain = e.plain
      \/ \E k \in 0..b.pos : /\ r.src = Skip(Flip(b), k)
                             /\ r.engine.plain = e.plain \o SubSeq(b.mem, 1, k)
  <2>1. \A k \in 0..b.pos : 0 + 1 = 1 /\ 0 + k = k
    BY <1>0
  <2> QED BY <1>0, <2>1 DEF WrapEffect
<1> QED BY <1>1, <1>2, <1>3

LEMMA OutboundStep ==
    TypeOK /\ Control /\ OutboundInOrder /\ Move => OutboundInOrder'
<1> SUFFICES ASSUME TypeOK, Control, OutboundInOrder, Move, ~engine'.failed
             PROVE  Fillable(appOut') /\ engine'.plain \o appOut'.mem = Span(0, accepted')
  BY DEF OutboundInOrder
<1>1. CASE OpenMove
  <2>1. engine'.plain = <<>> /\ accepted' = 0
    BY <1>1 DEF OpenMove, Control, NewEngine
  <2>2. <<>> \o <<>> = <<>> /\ Span(0, 0) = <<>>
    BY SpanEmpty, EmptySeq, ConcatEmptySeq
  <2> QED BY <1>1, <2>1, <2>2, NewBuffers
<1>2. CASE ~OpenMove
  <2>0. /\ Fillable(appOut) /\ engine.plain \o appOut.mem = Span(0, accepted)
        /\ GoodBuffer(appOut) /\ engine \in Engines /\ engine.plain \in Seq(Nat)
        /\ appOut.mem \in Seq(Nat) /\ accepted \in Nat
    BY <1>2, MoveEngine, BuffersGood, EngineFields
       DEF OutboundInOrder, TypeOK, GoodBuffer, ByteBuffers
  <2>1. CASE UNCHANGED <<appOut, accepted>> /\ engine'.plain = engine.plain
    BY <2>0, <2>1
  <2>2. CASE QuietMove
    BY <2>1, <2>2, QuietFrame DEF EngineKept
  <2>3. CASE ReceiveMove
    BY <2>1, <2>3 DEF ReceiveMove
  <2>4. CASE UnwrapMove
    BY <2>1, <2>4, UnwrapFrame
  <2>5. ASSUME NEW n \in SendSizes, SendMove(n)
        PROVE  Fillable(appOut') /\ engine'.plain \o appOut'.mem = Span(0, accepted')
    <3>1. CASE UNCHANGED <<appOut, accepted>>
      BY <2>1, <2>5, <3>1 DEF SendMove
    <3>2. CASE /\ n <= Remaining(appOut) /\ appOut' = Put(appOut, Span(accepted, n))
               /\ accepted' = accepted + n
      <4>1. n \in Nat /\ engine' = engine
        BY <2>5, TlsStreamAssumption DEF SendMove
      <4>2. Span(accepted, n) \in Seq(Nat) /\ Len(Span(accepted, n)) = n
        BY <2>0, <4>1, SpanProperties
      <4>3. Fillable(appOut') /\ appOut'.mem = appOut.mem \o Span(accepted, n)
        BY <2>0, <3>2, <4>1, <4>2, PutGood
      <4> DEFINE plain == engine.plain
                 mem == appOut.mem
      <4>4. plain \in Seq(Nat) /\ mem \in Seq(Nat) /\ plain \o mem = Span(0, accepted)
        BY <2>0
      <4> HIDE DEF plain, mem
      <4>5. plain \o (mem \o Span(accepted, n)) = Span(0, accepted + n)
        BY <2>0, <4>1, <4>4, SpanExtend
      <4> QED BY <3>2, <4>1, <4>3, <4>5 DEF plain, mem
    <3> QED BY <2>5, <3>1, <3>2 DEF SendMove
  <2>6. CASE WrapMove
    <3>1. PICK r : /\ WrapEffect(engine, Flip(appOut), netOut, r)
                   /\ WrapControl(engine, r) /\ WrapMoved(r)
      BY <2>6, WrapMoveEffect
    <3>2. engine' = r.engine /\ r.status # "SSLException"
      BY <3>1 DEF WrapMoved, WrapControl, Failed
    <3>3. appOut' = Compact(r.src)
      BY <3>1, <3>2 DEF WrapMoved
    <3>4. accepted' = accepted
      BY <2>6, WrapFrame
    <3>5. /\ Fillable(Compact(r.src))
          /\ r.engine.plain \o Compact(r.src).mem = engine.plain \o appOut.mem
      BY <2>0, <3>1, WrapTakes
    <3> QED BY <2>0, <3>2, <3>3, <3>4, <3>5
  <2> QED BY <1>2, <2>2, <2>3, <2>4, <2>5, <2>6, MoveCases
<1> QED BY <1>1, <1>2

LEMMA InitOutbound == Init => OutboundInOrder
<1> SUFFICES ASSUME Init PROVE OutboundInOrder
  OBVIOUS
<1>1. Fillable(appOut) /\ appOut.mem = <<>> /\ accepted = 0 /\ engine.plain = <<>>
  BY AllocateGood DEF Init, NewEngine
<1>2. <<>> \o <<>> = <<>> /\ Span(0, 0) = <<>>
  BY SpanEmpty, EmptySeq, ConcatEmptySeq
<1> QED BY <1>1, <1>2 DEF OutboundInOrder

-----------------------------------------------------------------------------
(* Inbound records.                                                        *)

(* Where the record the engine expects starts in the stream.               *)
NextAt == engine.recs * RecLen

(* InboundInOrder, and what makes it inductive: the engine has consumed no *)
(* more than was read.                                                     *)
InboundInv ==
    ~engine.failed /\ call # "aborted" =>
        /\ Fillable(netIn) /\ NextAt <= readIn
        /\ netIn.mem = Span(NextAt, readIn - NextAt)

LEMMA NextAtType == ASSUME TypeOK PROVE NextAt \in Nat /\ readIn \in Nat /\ RecLen \in Nat
<1>1. engine.recs \in Nat /\ RecLen \in Nat /\ readIn \in Nat
  BY EngineFields, EngineAssumption DEF TypeOK, TransportTypeOK
<1>2. engine.recs * RecLen \in Nat
  BY <1>1
<1> QED BY <1>1, <1>2 DEF NextAt

(* The next bytes of a stream appended to a part of it.                    *)
LEMMA SpanFollow ==
    ASSUME NEW from \in Nat, NEW to \in Nat, from <= to, NEW n \in Nat
    PROVE  Span(from, to - from) \o Span(to, n) = Span(from, to + n - from)
<1> DEFINE k == to - from
<1>1. k \in Nat /\ from + k = to /\ k + n = to + n - from
  OBVIOUS
<1> HIDE DEF k
<1>2. Span(from, k) \o Span(from + k, n) = Span(from, k + n)
  BY <1>1, SpanConcat
<1> QED BY <1>1, <1>2 DEF k

(* A buffer that holds the bytes of a stream between two offsets.          *)
Holds(b, from, to) == Fillable(b) /\ from <= to /\ b.mem = Span(from, to - from)

(* compact() of such a buffer, after the first k bytes were taken.         *)
LEMMA HoldsTaken ==
    ASSUME NEW from \in Nat, NEW to \in Nat, NEW b, GoodBuffer(b), Holds(b, from, to),
           NEW k \in Nat, k <= b.pos
    PROVE  Holds(Compact(Skip(Flip(b), k)), from + k, to)
<1> DEFINE n == to - from
<1>1. n \in Nat /\ from + k \in Nat /\ b.mem = Span(from, n) /\ Fillable(b) /\ from <= to
  BY DEF Holds
<1>2. b.pos = n
  <2>1. Len(Span(from, n)) = n
    BY <1>1, SpanProperties
  <2> HIDE DEF n
  <2> QED BY <1>1, <2>1 DEF Fillable
<1>3. n - k = to - (from + k) /\ k \in 0..n
  BY <1>1, <1>2
<1> HIDE DEF n
<1>4. /\ Fillable(Compact(Skip(Flip(b), k)))
      /\ Compact(Skip(Flip(b), k)).mem = SubSeq(b.mem, k + 1, b.pos)
  BY <1>1, <1>2, <1>3, CompactTaken
<1>5. SubSeq(Span(from, n), k + 1, n) = Span(from + k, n - k)
  BY <1>1, <1>3, SpanDrop
<1>6. from + k <= to
  BY <1>1, <1>3 DEF n
<1> QED BY <1>1, <1>2, <1>3, <1>4, <1>5, <1>6 DEF Holds

(* The bytes that doUnwrap() flips.                                        *)
LEMMA ReadAppends ==
    ASSUME NEW from \in Nat, NEW to \in Nat, NEW b, GoodBuffer(b), Holds(b, from, to),
           NEW n \in Nat, n <= Remaining(b)
    PROVE  Holds(Put(b, Span(to, n)), from, to + n)
<1>1. Span(to, n) \in Seq(Nat) /\ Len(Span(to, n)) = n
  BY SpanProperties
<1>2. Fillable(Put(b, Span(to, n))) /\ Put(b, Span(to, n)).mem = b.mem \o Span(to, n)
  BY <1>1, PutGood DEF Holds
<1>3. Span(from, to - from) \o Span(to, n) = Span(from, to + n - from)
  BY SpanFollow DEF Holds
<1>4. from <= to + n
  BY DEF Holds
<1> QED BY <1>2, <1>3, <1>4 DEF Holds

LEMMA InboundUnwrap ==
    ASSUME TypeOK, ~engine.failed, call # "aborted", InboundInv, UnwrapMove,
           ~engine'.failed, call' # "aborted"
    PROVE  Holds(netIn', engine'.recs * RecLen, readIn')
<1>0. /\ NextAt \in Nat /\ readIn \in Nat /\ RecLen \in Nat /\ engine.recs \in Nat
      /\ GoodBuffer(netIn) /\ Holds(netIn, NextAt, readIn)
  BY NextAtType, EngineFields, BuffersGood DEF TypeOK, InboundInv, Holds
<1>1. PICK b, r : /\ ReadInto(b) /\ GoodBuffer(b)
                  /\ UnwrapEffect(engine, Flip(b), appIn, r)
                  /\ GoodBuffer(r.src) /\ Readable(r.src)
                  /\ UnwrapMoved(r)
  BY UnwrapMoveEffect
<1>2. Holds(b, NextAt, readIn') /\ readIn' \in Nat
  BY <1>0, <1>1, ReadAppends DEF ReadInto
<1>3. engine' = r.engine /\ ~r.engine.failed
  BY <1>1 DEF UnwrapMoved
<1>4. Holds(Compact(r.src), r.engine.recs * RecLen, readIn')
  <2>1. CASE r.src = Flip(b) /\ r.engine.recs = engine.recs
    <3>1. Compact(r.src) = b
      BY <1>1, <1>2, <2>1, CompactFlip DEF Holds
    <3> QED BY <1>2, <2>1, <3>1 DEF NextAt
  <2>2. CASE RecLen <= Remaining(Flip(b)) /\ r.src = Skip(Flip(b), RecLen)
             /\ r.engine.recs = engine.recs + 1
    <3>1. RecLen <= b.pos
      BY <1>1, <2>2, FlipGood
    <3>2. Holds(Compact(r.src), NextAt + RecLen, readIn')
      BY <1>0, <1>1, <1>2, <2>2, <3>1, HoldsTaken
    <3>3. (engine.recs + 1) * RecLen = engine.recs * RecLen + RecLen
      BY <1>0
    <3> QED BY <2>2, <3>2, <3>3 DEF NextAt
  <2> QED BY <1>1, <1>3, <2>1, <2>2 DEF UnwrapEffect
<1>5. netIn' = Compact(r.src) \/ Regrown(netIn', Compact(r.src))
  <2>1. r.status # "SSLException"
    BY <1>1, <1>3 DEF UnwrapEffect
  <2>2. ASSUME Retries(netIn', Compact(r.src), "doUnwrap", "unwrapUnderflow")
        PROVE  Regrown(netIn', Compact(r.src))
    BY <2>2 DEF Retries
  <2> QED BY <1>1, <2>1, <2>2 DEF UnwrapMoved
<1>6. Fillable(Compact(r.src))
  BY <1>1, CompactGood
<1>7. Fillable(netIn') /\ netIn'.mem = Compact(r.src).mem
  BY <1>5, <1>6 DEF Regrown
<1> QED BY <1>3, <1>4, <1>7 DEF Holds

LEMMA InboundStep == TypeOK /\ Control /\ InboundInv /\ Move => InboundInv'
<1> SUFFICES ASSUME TypeOK, Control, InboundInv, Move, ~engine'.failed, call' # "aborted"
             PROVE  Holds(netIn', engine'.recs * RecLen, readIn')
  BY DEF InboundInv, Holds, NextAt
<1>1. CASE OpenMove
  <2>1. engine'.recs = 0 /\ readIn' = 0
    BY <1>1 DEF OpenMove, Control, NewEngine, wireVars
  <2>2. 0 * RecLen = 0 /\ 0 - 0 = 0 /\ 0 <= 0
    BY EngineAssumption
  <2>3. Span(0, 0) = <<>>
    BY SpanEmpty
  <2> QED BY <1>1, <2>1, <2>2, <2>3, NewBuffers DEF Holds
<1>2. CASE ~OpenMove
  <2>0. ~engine.failed /\ call # "aborted" /\ Holds(netIn, NextAt, readIn)
    <3>1. call # "aborted"
      BY StoppedStays DEF Running
    <3> QED BY <1>2, <3>1, MoveEngine DEF InboundInv, Holds
  <2>1. CASE UNCHANGED <<netIn, readIn>> /\ engine'.recs = engine.recs
    BY <2>0, <2>1 DEF NextAt
  <2>2. CASE QuietMove
    BY <2>1, <2>2, QuietFrame DEF EngineKept, wireVars
  <2>3. CASE ReceiveMove \/ (\E n \in SendSizes : SendMove(n))
    BY <2>1, <2>3 DEF ReceiveMove, SendMove, wireVars
  <2>4. CASE WrapMove
    BY <2>1, <2>4, WrapFrame
  <2>5. CASE UnwrapMove
    BY <2>0, <2>5, InboundUnwrap
  <2> QED BY <1>2, <2>2, <2>3, <2>4, <2>5, MoveCases
<1> QED BY <1>1, <1>2

(* Where only whole records were read, none is held in part.               *)
LEMMA MultiplesApart ==
    ASSUME NEW m \in Int, NEW n \in Nat, m * n > 0
    PROVE  ~(m * n < n)
<1>1. CASE m <= 0
  <2>1. 0 - m \in Nat
    BY <1>1
  <2>2. (0 - m) * n \in Nat
    BY <2>1
  <2>3. (0 - m) * n = 0 - m * n
    OBVIOUS
  <2> QED BY <2>2, <2>3
<1>2. CASE m >= 1
  <2>1. m - 1 \in Nat
    BY <1>2
  <2>2. (m - 1) * n \in Nat
    BY <2>1
  <2>3. (m - 1) * n = m * n - n
    OBVIOUS
  <2> QED BY <2>2, <2>3
<1> QED BY <1>1, <1>2

LEMMA WholeApart ==
    ASSUME NEW m \in Nat, NEW x \in Nat, x % RecLen = 0, m * RecLen < x
    PROVE  x - m * RecLen >= RecLen
<1> DEFINE d == x \div RecLen
<1>1. RecLen \in Nat \ {0}
  BY EngineAssumption
<1>2. d \in Int /\ x = d * RecLen
  BY <1>1
<1> HIDE DEF d
<1>3. d - m \in Int /\ (d - m) * RecLen = x - m * RecLen /\ m * RecLen \in Nat
  BY <1>1, <1>2
<1>4. (d - m) * RecLen > 0
  BY <1>1, <1>3
<1>5. ~((d - m) * RecLen < RecLen)
  BY <1>1, <1>3, <1>4, MultiplesApart
<1> QED BY <1>1, <1>3, <1>5

LEMMA WholeRecordsOnly ==
    ASSUME TypeOK, InboundInv, ~engine.failed, call # "aborted", readIn % RecLen = 0
    PROVE  /\ netIn.pos = readIn - NextAt /\ Holds(netIn, NextAt, readIn)
           /\ netIn.pos = 0 \/ netIn.pos >= RecLen
<1>1. /\ engine.recs \in Nat /\ readIn \in Nat /\ NextAt \in Nat /\ RecLen \in Nat
  BY NextAtType, EngineFields DEF TypeOK
<1>2. Holds(netIn, NextAt, readIn) /\ netIn.pos = readIn - NextAt /\ netIn.pos \in Nat
  <2>1. Fillable(netIn) /\ NextAt <= readIn /\ netIn.mem = Span(NextAt, readIn - NextAt)
    BY DEF InboundInv
  <2>2. Len(Span(NextAt, readIn - NextAt)) = readIn - NextAt /\ readIn - NextAt \in Nat
    <3>1. readIn - NextAt \in Nat
      BY <1>1, <2>1
    <3> QED BY <1>1, <3>1, SpanProperties
  <2> QED BY <1>1, <2>1, <2>2 DEF Fillable, Holds
<1>3. ASSUME netIn.pos > 0 PROVE netIn.pos >= RecLen
  <2>1. engine.recs * RecLen < readIn
    BY <1>1, <1>2, <1>3 DEF NextAt
  <2>2. readIn - engine.recs * RecLen >= RecLen
    BY <1>1, <2>1, WholeApart
  <2> QED BY <1>2, <2>2 DEF NextAt
<1> QED BY <1>1, <1>2, <1>3

LEMMA InitInbound == Init => InboundInv
<1> SUFFICES ASSUME Init PROVE Holds(netIn, NextAt, readIn)
  BY DEF InboundInv, Holds
<1>1. Fillable(netIn) /\ netIn.mem = <<>> /\ readIn = 0 /\ engine.recs = 0
  BY AllocateGood DEF Init, NewEngine, TransportInit
<1>2. 0 * RecLen = 0 /\ 0 - 0 = 0 /\ 0 <= 0
  BY EngineAssumption
<1>3. Span(0, 0) = <<>>
  BY SpanEmpty
<1> QED BY <1>1, <1>2, <1>3 DEF Holds, NextAt

-----------------------------------------------------------------------------
(* The duties of the suspended methods: what is still to be done is asked  *)
(* for by a frame of the stack, so it is done when the stack is empty.     *)

(* Method f, on top, is replaced by the frames `pushed'.                   *)
Runs(f, pushed) ==
    /\ OnTop(f) /\ call' = call
    /\ \E below : /\ Range(stack) = {f} \cup below
                  /\ Range(stack') = pushed \cup below

LEMMA GoesOnRuns ==
    ASSUME TypeOK, NEW f, OnTop(f),
           NEW c \in Seq(Frames), NEW d \in Seq(Frames), GoesOn(c, d)
    PROVE  Runs(f, Range(c) \cup Range(d))
<1>1. stack # <<>> /\ Head(stack) = f
  BY DEF OnTop
<1>2. /\ Range(stack') = (Range(c) \cup Range(d)) \cup Range(Tail(stack))
      /\ Range(stack) = {f} \cup Range(Tail(stack))
  BY <1>1, RangeGoesOn
<1> QED BY <1>2 DEF Runs, GoesOn

LEMMA FollowsRuns ==
    ASSUME TypeOK, NEW f, OnTop(f), NEW hs, NEW g \in {"ret", "wrapRest", "closeRest"},
           Follows(hs, <<g>>)
    PROVE  Ends \/ Runs(f, Range(CalleesOf(hs)) \cup {g})
<1>1. CalleesOf(hs) \in Seq(Frames) /\ <<g>> \in Seq(Frames)
  BY CalleesOfType, PushedFrames
<1>2. Ends \/ Runs(f, Range(CalleesOf(hs)) \cup Range(<<g>>))
  BY <1>1, GoesOnRuns DEF Follows
<1> QED BY <1>2, RangeOne

LEMMA RetriesRuns ==
    ASSUME TypeOK, NEW f \in {"doWrap", "doUnwrap"}, OnTop(f), NEW new, NEW old,
           NEW g \in Resting, Retries(new, old, f, g)
    PROVE  Ends \/ Runs(f, {f, g})
<1>1. <<f>> \in Seq(Frames) /\ <<g>> \in Seq(Frames)
  BY FrameSeqs DEF Frames
<1>2. CASE GoesOn(<<f>>, <<g>>)
  <2>1. Runs(f, Range(<<f>>) \cup Range(<<g>>))
    BY <1>1, <1>2, GoesOnRuns
  <2>2. Range(<<f>>) \cup Range(<<g>>) = {f, g}
    BY RangeOne
  <2> QED BY <2>1, <2>2
<1> QED BY <1>2 DEF Retries, Ends

(* What each private method leaves to be done.                             *)
LEMMA WrapRuns ==
    ASSUME TypeOK, WrapMove
    PROVE  \E r : /\ WrapControl(engine, r) /\ engine' = r.engine
                  /\ \/ Ends
                     \/ r.status = "SSLException" /\ Runs("doWrap", {})
                     \/ r.status = "OK" /\ Runs("doWrap", Range(CalleesOf(r.hs)) \cup {"wrapRest"})
                     \/ /\ r.status = "CLOSED"
                        /\ Runs("doWrap", Range(CalleesOf(r.hs)) \cup {"closeRest"})
                     \/ /\ r.status = "BUFFER_OVERFLOW"
                        /\ Runs("doWrap", {"doWrap", "wrapOverflow"})
<1>1. PICK r : WrapControl(engine, r) /\ WrapMoved(r)
  BY WrapMoveEffect
<1>2. OnTop("doWrap")
  BY DEF WrapMove
<1>3. engine' = r.engine
  BY <1>1 DEF WrapMoved
<1>4. CASE r.status = "SSLException" /\ (GoesOn(<<>>, <<>>) \/ Ends)
  <2>1. GoesOn(<<>>, <<>>) => Runs("doWrap", Range(<<>>) \cup Range(<<>>))
    BY <1>2, GoesOnRuns, PushedFrames
  <2> QED BY <1>1, <1>3, <1>4, <2>1, RangeOne
<1>5. CASE r.status = "OK" /\ (Follows(r.hs, <<"wrapRest">>) \/ Ends)
  <2>1. Ends \/ Runs("doWrap", Range(CalleesOf(r.hs)) \cup {"wrapRest"})
    BY <1>2, <1>5, FollowsRuns
  <2> QED BY <1>1, <1>3, <1>5, <2>1
<1>6. CASE r.status = "CLOSED" /\ (Follows(r.hs, <<"closeRest">>) \/ Ends)
  <2>1. Ends \/ Runs("doWrap", Range(CalleesOf(r.hs)) \cup {"closeRest"})
    BY <1>2, <1>6, FollowsRuns
  <2> QED BY <1>1, <1>3, <1>6, <2>1
<1>7. CASE r.status = "BUFFER_OVERFLOW" /\ Retries(netOut', r.dst, "doWrap", "wrapOverflow")
  <2>1. "wrapOverflow" \in Resting
    BY DEF Resting
  <2>2. Ends \/ Runs("doWrap", {"doWrap", "wrapOverflow"})
    BY <1>2, <1>7, <2>1, RetriesRuns
  <2> QED BY <1>1, <1>3, <1>7, <2>2
<1> QED BY <1>1, <1>4, <1>5, <1>6, <1>7 DEF WrapMoved, Flushed

LEMMA UnwrapRuns ==
    ASSUME TypeOK, UnwrapMove
    PROVE  \E r : /\ UnwrapControl(engine, r) /\ engine' = r.engine
                  /\ \/ Ends
                     \/ r.status = "SSLException" /\ Runs("doUnwrap", {})
                     \/ r.status = "OK" /\ Runs("doUnwrap", Range(CalleesOf(r.hs)) \cup {"ret"})
                     \/ /\ r.status = "CLOSED"
                        /\ Runs("doUnwrap", Range(CalleesOf(r.hs)) \cup {"closeRest"})
                     \/ /\ r.status = "BUFFER_UNDERFLOW"
                        /\ Runs("doUnwrap", {"doUnwrap", "unwrapUnderflow"})
                     \/ /\ r.status = "BUFFER_OVERFLOW"
                        /\ Runs("doUnwrap", {"doUnwrap", "unwrapOverflow"})
<1>1. PICK r : UnwrapControl(engine, r) /\ UnwrapMoved(r)
  BY UnwrapMoveEffect
<1>2. OnTop("doUnwrap")
  BY DEF UnwrapMove
<1>3. engine' = r.engine
  BY <1>1 DEF UnwrapMoved
<1>4. CASE r.status = "SSLException" /\ (GoesOn(<<>>, <<>>) \/ Ends)
  <2>1. GoesOn(<<>>, <<>>) => Runs("doUnwrap", Range(<<>>) \cup Range(<<>>))
    BY <1>2, GoesOnRuns, PushedFrames
  <2> QED BY <1>1, <1>3, <1>4, <2>1, RangeOne
<1>5. CASE r.status = "OK" /\ Follows(r.hs, <<"ret">>)
  <2>1. Ends \/ Runs("doUnwrap", Range(CalleesOf(r.hs)) \cup {"ret"})
    BY <1>2, <1>5, FollowsRuns
  <2> QED BY <1>1, <1>3, <1>5, <2>1
<1>6. CASE r.status = "CLOSED" /\ Follows(r.hs, <<"closeRest">>)
  <2>1. Ends \/ Runs("doUnwrap", Range(CalleesOf(r.hs)) \cup {"closeRest"})
    BY <1>2, <1>6, FollowsRuns
  <2> QED BY <1>1, <1>3, <1>6, <2>1
<1>7. CASE /\ r.status = "BUFFER_UNDERFLOW"
           /\ Retries(netIn', Compact(r.src), "doUnwrap", "unwrapUnderflow")
  <2>1. "unwrapUnderflow" \in Resting
    BY DEF Resting
  <2>2. Ends \/ Runs("doUnwrap", {"doUnwrap", "unwrapUnderflow"})
    BY <1>2, <1>7, <2>1, RetriesRuns
  <2> QED BY <1>1, <1>3, <1>7, <2>2
<1>8. CASE r.status = "BUFFER_OVERFLOW" /\ Retries(appIn', r.dst, "doUnwrap", "unwrapOverflow")
  <2>1. "unwrapOverflow" \in Resting
    BY DEF Resting
  <2>2. Ends \/ Runs("doUnwrap", {"doUnwrap", "unwrapOverflow"})
    BY <1>2, <1>8, <2>1, RetriesRuns
  <2> QED BY <1>1, <1>3, <1>8, <2>2
<1> QED BY <1>1, <1>4, <1>5, <1>6, <1>7, <1>8 DEF UnwrapMoved

(* A call that returns leaves no frame behind.                             *)
Finishes == call' = "idle" /\ \E f \in Resting \cup {"receive"} : Range(stack) = {f}

LEMMA OtherRuns ==
    ASSUME TypeOK
    PROVE  /\ EndOfStreamMove =>
                \E r \in CloseInbound(engine) :
                   /\ engine' = r.engine
                   /\ Ends \/ Runs("doUnwrap", (IF r.throws THEN {} ELSE {"close"}) \cup {"ret"})
           /\ CloseMove =>
                \/ Ends
                \/ Runs("close", Range(CalleesOf(Status(CloseOutbound(engine)))) \cup {"ret"})
           /\ TasksMove =>
                \/ Ends
                \/ Runs("runTasks", Range(CalleesOf(Status(RunDelegatedTasks(engine)))) \cup {"ret"})
           /\ RestMove =>
                \/ Runs("wrapRest", (IF appOut.pos > 0 THEN {"doWrap"} ELSE {}) \cup {"ret"})
                \/ Runs("closeRest", {"close", "ret"})
                \/ Runs("receiveRest", {"receive", "ret"})
           /\ ReceiveMove => Finishes \/ \E pushed : Runs("receive", pushed)
           /\ Return => Finishes \/ \E f \in Resting : Runs(f, {})
<1>0. /\ <<>> \in Seq(Frames) /\ <<"doWrap">> \in Seq(Frames) /\ <<"close">> \in Seq(Frames)
      /\ <<"ret">> \in Seq(Frames) /\ <<"receive">> \in Seq(Frames)
      /\ <<"doUnwrap">> \in Seq(Frames) /\ <<"receiveRest">> \in Seq(Frames)
  BY PushedFrames
<1>1. ASSUME EndOfStreamMove
      PROVE  \E r \in CloseInbound(engine) :
                /\ engine' = r.engine
                /\ Ends \/ Runs("doUnwrap", (IF r.throws THEN {} ELSE {"close"}) \cup {"ret"})
  <2>1. PICK r \in CloseInbound(engine) :
           /\ engine' = r.engine
           /\ GoesOn(IF r.throws THEN <<>> ELSE <<"close">>, <<"ret">>) \/ Ends
    BY <1>1 DEF EndOfStreamMove
  <2> DEFINE c == IF r.throws THEN <<>> ELSE <<"close">>
  <2>2. c \in Seq(Frames) /\ Range(c) = IF r.throws THEN {} ELSE {"close"}
    BY <1>0, RangeOne
  <2>3. OnTop("doUnwrap")
    BY <1>1 DEF EndOfStreamMove
  <2> HIDE DEF c
  <2>4. GoesOn(c, <<"ret">>) => Runs("doUnwrap", Range(c) \cup Range(<<"ret">>))
    BY <1>0, <2>2, <2>3, GoesOnRuns
  <2>5. GoesOn(c, <<"ret">>) \/ Ends
    BY <2>1 DEF c
  <2> QED BY <2>1, <2>2, <2>4, <2>5, RangeOne
<1>2. ASSUME CloseMove
      PROVE  \/ Ends
             \/ Runs("close", Range(CalleesOf(Status(CloseOutbound(engine)))) \cup {"ret"})
  BY <1>2, FollowsRuns DEF CloseMove
<1>3. ASSUME TasksMove
      PROVE  \/ Ends
             \/ Runs("runTasks", Range(CalleesOf(Status(RunDelegatedTasks(engine)))) \cup {"ret"})
  BY <1>3, FollowsRuns DEF TasksMove
<1>4. ASSUME RestMove
      PROVE  \/ Runs("wrapRest", (IF appOut.pos > 0 THEN {"doWrap"} ELSE {}) \cup {"ret"})
             \/ Runs("closeRest", {"close", "ret"})
             \/ Runs("receiveRest", {"receive", "ret"})
  <2> DEFINE c == IF appOut.pos > 0 THEN <<"doWrap">> ELSE <<>>
  <2>1. c \in Seq(Frames) /\ Range(c) = IF appOut.pos > 0 THEN {"doWrap"} ELSE {}
    BY <1>0, RangeOne
  <2>2. \/ OnTop("wrapRest") /\ GoesOn(c, <<"ret">>)
        \/ OnTop("closeRest") /\ GoesOn(<<"close">>, <<"ret">>)
        \/ OnTop("receiveRest") /\ GoesOn(<<"receive">>, <<"ret">>)
    BY <1>4 DEF RestMove
  <2> HIDE DEF c
  <2>3. OnTop("wrapRest") /\ GoesOn(c, <<"ret">>)
            => Runs("wrapRest", Range(c) \cup Range(<<"ret">>))
    BY <1>0, <2>1, GoesOnRuns
  <2>4. OnTop("closeRest") /\ GoesOn(<<"close">>, <<"ret">>)
            => Runs("closeRest", Range(<<"close">>) \cup Range(<<"ret">>))
    BY <1>0, GoesOnRuns
  <2>5. OnTop("receiveRest") /\ GoesOn(<<"receive">>, <<"ret">>)
            => Runs("receiveRest", Range(<<"receive">>) \cup Range(<<"ret">>))
    BY <1>0, GoesOnRuns
  <2>6. /\ Range(<<"close">>) \cup Range(<<"ret">>) = {"close", "ret"}
        /\ Range(<<"receive">>) \cup Range(<<"ret">>) = {"receive", "ret"}
        /\ Range(<<"ret">>) = {"ret"}
    BY RangeOne
  <2>7. CASE OnTop("wrapRest") /\ GoesOn(c, <<"ret">>)
    BY <2>1, <2>3, <2>6, <2>7
  <2>8. CASE OnTop("closeRest") /\ GoesOn(<<"close">>, <<"ret">>)
    BY <2>4, <2>6, <2>8, Zenon
  <2>9. CASE OnTop("receiveRest") /\ GoesOn(<<"receive">>, <<"ret">>)
    BY <2>5, <2>6, <2>9, Zenon
  <2> QED BY <2>2, <2>7, <2>8, <2>9
<1>5. ASSUME NEW f \in Frames, OnTop(f), Len(stack) = 1 PROVE Range(stack) = {f}
  BY <1>5, LastFrame DEF OnTop, TypeOK
<1>6. ASSUME ReceiveMove PROVE Finishes \/ \E pushed : Runs("receive", pushed)
  <2>1. OnTop("receive")
    BY <1>6 DEF ReceiveMove
  <2>2. CASE Len(stack) = 1 /\ call' = "idle"
    BY <1>5, <2>1, <2>2 DEF Finishes, Frames
  <2>3. CASE \E c, d \in Seq(Frames) : GoesOn(c, d)
    BY <2>1, <2>3, GoesOnRuns
  <2>4. \/ Len(stack) = 1 /\ call' = "idle"
        \/ \E c, d \in Seq(Frames) : GoesOn(c, d)
    BY <1>0, <1>6 DEF ReceiveMove
  <2> QED BY <2>2, <2>3, <2>4
<1>7. ASSUME Return PROVE Finishes \/ \E f \in Resting : Runs(f, {})
  <2>1. PICK f \in Resting : OnTop(f)
    BY <1>7 DEF Return, OnTop
  <2>2. CASE Len(stack) = 1
    BY <1>5, <1>7, <2>1, <2>2 DEF Finishes, Frames, Return
  <2>3. CASE Len(stack) # 1
    <3>1. Range(stack) = {f} \cup Range(Tail(stack)) /\ stack' = Tail(stack) /\ call' = call
      BY <1>7, <2>1, <2>3, RangeHead DEF Return, OnTop, TypeOK
    <3>2. Range(stack') = {} \cup Range(Tail(stack))
      BY <3>1
    <3> QED BY <2>1, <3>1, <3>2 DEF Runs
  <2> QED BY <2>2, <2>3
<1> QED BY <1>1, <1>2, <1>3, <1>4, <1>6, <1>7

(* Plaintext that waits has a frame that will wrap it.                     *)
SendDuty ==
    call \in Running \cup {"idle", "disposed"} /\ engine.out = "open" /\ appOut.pos > 0
        => {"doWrap", "wrapRest"} \cap Range(stack) # {}

(* During close(), the close_notify is written or has a frame that will    *)
(* wrap it.                                                                *)
CloseDuty ==
    call = "close" => \/ engine.out = "closed"
                      \/ "close" \in Range(stack)
                      \/ engine.out = "closing" /\ "doWrap" \in Range(stack)

(* The handshake is complete, or the engine was given up.                  *)
Settled(e) == ~Handshaking(e) \/ (e.in = "closed" /\ e.out # "open")

(* Until then AuthenticateAsClient() has a frame for what the engine needs *)
(* next, or is about to close.                                             *)
Pending(e, frames) ==
    /\ e.in = "open" /\ e.out = "open"
    /\ Range(CalleesOf(Status(e))) \subseteq frames
    /\ {"close", "closeRest"} \cap frames = {}

HandshakeDuty ==
    call \in Running \cup {"idle"} =>
        \/ Settled(engine)
        \/ /\ call = "authenticate"
           /\ \/ Pending(engine, Range(stack))
              \/ engine.in = "closed" /\ engine.out = "open" /\ OnTop("close")

Duties == SendDuty /\ CloseDuty /\ HandshakeDuty

LEMMA RunsKeeps ==
    ASSUME NEW f, NEW p, Runs(f, p), NEW g \in Range(stack), g # f
    PROVE  g \in Range(stack')
BY DEF Runs

LEMMA OutboundShuts ==
    ASSUME TypeOK, Move, ~OpenMove
    PROVE  engine'.out = engine.out \/ (engine.out = "open" /\ engine'.out \in {"closing", "closed"})
              \/ (engine.out = "closing" /\ engine'.out = "closed")
BY MoveEngine DEF EngineMoves, Shuts, Advanced, Carried

LEMMA SendDutyStep ==
    ASSUME TypeOK, Control, SendDuty, Move
    PROVE  SendDuty'
<1> SUFFICES ASSUME call' \in Running \cup {"idle", "disposed"},
                    engine'.out = "open", appOut'.pos > 0
             PROVE  {"doWrap", "wrapRest"} \cap Range(stack') # {}
  BY DEF SendDuty
<1>0. ~Ends
  BY DEF Ends, Running
<1>1. CASE OpenMove
  BY <1>1, NewBuffers, <1>0 DEF OpenMove
<1>2. CASE \E n \in SendSizes : SendMove(n)
  <2>1. stack' = <<"doWrap", "ret">>
    BY <1>0, <1>2 DEF SendMove
  <2> QED BY <2>1, RangeTwo
<1>3. CASE WrapMove
  <2>1. PICK r : /\ WrapControl(engine, r) /\ engine' = r.engine
                 /\ \/ Ends
                    \/ r.status = "SSLException" /\ Runs("doWrap", {})
                    \/ /\ r.status = "OK"
                       /\ Runs("doWrap", Range(CalleesOf(r.hs)) \cup {"wrapRest"})
                    \/ /\ r.status = "CLOSED"
                       /\ Runs("doWrap", Range(CalleesOf(r.hs)) \cup {"closeRest"})
                    \/ /\ r.status = "BUFFER_OVERFLOW"
                       /\ Runs("doWrap", {"doWrap", "wrapOverflow"})
    BY <1>3, WrapRuns
  <2>2. r.status \notin {"SSLException", "CLOSED"}
    BY <2>1 DEF WrapControl, Failed
  <2>3. \/ Runs("doWrap", Range(CalleesOf(r.hs)) \cup {"wrapRest"})
        \/ Runs("doWrap", {"doWrap", "wrapOverflow"})
    BY <1>0, <2>1, <2>2
  <2> QED BY <2>3 DEF Runs
<1>4. CASE ~OpenMove /\ ~(\E n \in SendSizes : SendMove(n)) /\ ~WrapMove
  <2>1. engine.out = "open"
    BY <1>4, OutboundShuts
  <2>2. appOut' = appOut
    BY <1>4 DEF Move, UnwrapMove, EndOfStreamMove, ReceiveMove, CloseMove, TasksMove,
                RestMove, EndMove, Return, AskMove, Peer, vars, streamVars
  <2>3. CASE call \in {"new", "idle"}
    <3>1. stack = <<>>
      BY <2>3 DEF Control, Running
    <3>2. call = "new"
      BY <2>1, <2>2, <2>3, <3>1, RangeOne DEF SendDuty
    <3> QED BY <2>2, <3>2 DEF Control, TypeOK
  <2>4. CASE call \notin {"new", "idle"} /\ call' = call /\ stack' = stack
    BY <2>1, <2>2, <2>4 DEF SendDuty
  <2>5. CASE call \notin {"new", "idle"} /\ stack # <<>>
    <3>1. call \in Running
      BY <2>5 DEF Control
    <3>2. PICK g \in {"doWrap", "wrapRest"} : g \in Range(stack)
      BY <2>1, <2>2, <3>1 DEF SendDuty
    <3>3. ASSUME NEW f, NEW p, f \notin {"doWrap", "wrapRest"}, Runs(f, p)
          PROVE  g \in Range(stack')
      BY <3>2, <3>3, RunsKeeps
    <3>4. ~Finishes
      BY <3>2 DEF Finishes, Resting
    <3>5. CASE UnwrapMove
      <4>1. \E p : Runs("doUnwrap", p)
        BY <1>0, <3>5, UnwrapRuns
      <4> QED BY <3>2, <3>3, <4>1
    <3>6. CASE EndOfStreamMove \/ CloseMove \/ TasksMove \/ ReceiveMove \/ Return
      <4>1. \E f \in {"doUnwrap", "close", "runTasks", "receive"} \cup Resting :
               \E p : Runs(f, p)
        BY <1>0, <3>4, <3>6, OtherRuns
      <4> QED BY <3>2, <3>3, <4>1 DEF Resting
    <3>7. CASE RestMove
      <4>1. CASE Runs("wrapRest", (IF appOut.pos > 0 THEN {"doWrap"} ELSE {}) \cup {"ret"})
        BY <2>2, <4>1 DEF Runs
      <4>2. CASE \E f \in {"closeRest", "receiveRest"} : \E p : Runs(f, p)
        BY <3>2, <3>3, <4>2
      <4> QED BY <3>7, <4>1, <4>2, OtherRuns
    <3>8. CASE EndMove \/ AskMove
      BY <2>5, <3>8 DEF EndMove, AskMove, Enter, Running
    <3>9. CASE Peer \/ UNCHANGED vars
      <4>1. stack' = stack
        BY <3>9 DEF Peer, vars
      <4> QED BY <3>2, <4>1
    <3> QED BY <1>4, <3>5, <3>6, <3>7, <3>8, <3>9 DEF Move
  <2>6. CASE call \notin {"new", "idle"} /\ stack = <<>>
    <3>1. call' = call /\ stack' = stack
      BY <1>4, <2>6 DEF Move, UnwrapMove, EndOfStreamMove, ReceiveMove, CloseMove, TasksMove,
             RestMove, EndMove, Return, AskMove, Enter, Peer, OnTop, vars, callerVars
    <3> QED BY <2>4, <2>6, <3>1
  <2> QED BY <2>3, <2>5, <2>6
<1> QED BY <1>1, <1>2, <1>3, <1>4

LEMMA CloseDutyStep ==
    ASSUME TypeOK, Control, CloseDuty, Move
    PROVE  CloseDuty'
<1> SUFFICES ASSUME call' = "close", engine'.out # "closed"
             PROVE  \/ "close" \in Range(stack')
                    \/ engine'.out = "closing" /\ "doWrap" \in Range(stack')
  BY DEF CloseDuty
<1>0. ~Ends /\ ~Finishes /\ ~OpenMove
  BY DEF Ends, Finishes, OpenMove
<1>1. CASE call # "close"
  <2>1. stack' = <<"close", "ret">>
    BY <1>0, <1>1, MoveStack, InnerStepControl, ReceiveStackControl DEF EndStep, CallStep, Stopped
  <2> QED BY <2>1, RangeTwo
<1>2. CASE call = "close"
  <2>0. engine.out # "closed" /\ engine'.out \in {engine.out, "closing"}
    BY <1>0, OutboundShuts, EngineFields DEF TypeOK
  <2>1. \/ "close" \in Range(stack)
        \/ engine.out = "closing" /\ engine'.out = "closing" /\ "doWrap" \in Range(stack)
    BY <1>2, <2>0 DEF CloseDuty
  <2>2. ASSUME NEW f, NEW p, f \notin {"close", "doWrap"}, Runs(f, p)
        PROVE  \/ "close" \in Range(stack')
               \/ engine'.out = "closing" /\ "doWrap" \in Range(stack')
    BY <2>1, <2>2, RunsKeeps
  <2>3. CASE WrapMove
    <3>1. PICK r : /\ WrapControl(engine, r) /\ engine' = r.engine
                   /\ \/ r.status = "SSLException" /\ Runs("doWrap", {})
                      \/ /\ r.status = "OK"
                         /\ Runs("doWrap", Range(CalleesOf(r.hs)) \cup {"wrapRest"})
                      \/ /\ r.status = "CLOSED"
                         /\ Runs("doWrap", Range(CalleesOf(r.hs)) \cup {"closeRest"})
                      \/ /\ r.status = "BUFFER_OVERFLOW"
                         /\ Runs("doWrap", {"doWrap", "wrapOverflow"})
      BY <1>0, <2>3, WrapRuns
    <3>2. CASE "close" \in Range(stack)
      <4>1. \E p : Runs("doWrap", p)
        BY <3>1
      <4> QED BY <3>2, <4>1, RunsKeeps
    <3>3. CASE engine.out = "closing" /\ engine'.out = "closing"
      <4>1. r.status = "BUFFER_OVERFLOW"
        BY <3>1, <3>3 DEF WrapControl
      <4>2. Runs("doWrap", {"doWrap", "wrapOverflow"})
        BY <3>1, <4>1
      <4> QED BY <3>3, <4>2 DEF Runs
    <3> QED BY <2>1, <3>2, <3>3
  <2>4. CASE CloseMove
    <3>1. engine' = CloseOutbound(engine)
          /\ Runs("close", Range(CalleesOf(Status(engine'))) \cup {"ret"})
      BY <1>0, <2>4, OtherRuns DEF CloseMove
    <3>2. engine'.out = "closing"
      BY <2>0, <3>1, CloseOutboundControl, EngineFields DEF TypeOK
    <3>3. Status(engine') = "NEED_WRAP"
      BY <3>2 DEF Status
    <3>4. CalleesOf(Status(engine')) = <<"doWrap">>
      BY <3>3 DEF CalleesOf
    <3> QED BY <3>1, <3>2, <3>4, RangeOne DEF Runs
  <2>5. CASE UnwrapMove
    <3>1. \E p : Runs("doUnwrap", p)
      BY <1>0, <2>5, UnwrapRuns
    <3> QED BY <2>2, <3>1
  <2>6. CASE EndOfStreamMove \/ TasksMove \/ ReceiveMove \/ Return \/ RestMove
    <3>1. \E f \in {"doUnwrap", "runTasks", "receive", "wrapRest", "closeRest", "receiveRest"}
                      \cup Resting :
             \E p : Runs(f, p)
      BY <1>0, <2>6, OtherRuns
    <3> QED BY <2>2, <3>1 DEF Resting
  <2>7. CASE EndMove \/ AskMove \/ (\E n \in SendSizes : SendMove(n))
    BY <1>2, <2>7 DEF EndMove, AskMove, SendMove, Enter
  <2>8. CASE Peer \/ UNCHANGED vars
    <3>1. stack' = stack
      BY <2>8 DEF Peer, vars
    <3> QED BY <2>1, <3>1
  <2> QED BY <1>0, <2>3, <2>4, <2>5, <2>6, <2>7, <2>8 DEF Move
<1> QED BY <1>1, <1>2

(* The engine in the middle of a handshake needs exactly one method.       *)
LEMMA HandshakeNeedsOne ==
    ASSUME NEW e \in Engines, Handshaking(e), e.in = "open", e.out = "open"
    PROVE  \E f \in {"doWrap", "doUnwrap", "runTasks"} : Range(CalleesOf(Status(e))) = {f}
<1>1. Script \in Seq(HandshakeNeeds) /\ e.step + 1 \in 1..Len(Script)
  <2>1. e.step \in 0..Len(Script) /\ Len(Script) \in Nat
    BY EngineAssumption, LenProperties DEF Engines
  <2> QED BY <2>1, EngineAssumption DEF Handshaking
<1>2. Status(e) \in HandshakeNeeds
  BY <1>1, ElementOfSeq DEF Status
<1> QED BY <1>2, RangeOne DEF HandshakeNeeds, CalleesOf

LEMMA SettledStays ==
    ASSUME TypeOK, Move, ~OpenMove, Settled(engine)
    PROVE  Settled(engine')
<1>1. Len(Script) \in Nat /\ engine.step \in 0..Len(Script)
  BY EngineAssumption, LenProperties DEF TypeOK, Engines
<1> QED BY <1>1, MoveEngine, EngineFields DEF TypeOK, Settled, EngineMoves, Shuts, Advanced, Carried,
       Handshaking

(* What is pushed after a step of the handshake is what the engine needs.  *)
LEMMA PendingRuns ==
    ASSUME NEW e, NEW f \in Engines, NEW hs, f.in = "open", f.out = "open",
           Handshaking(f) => hs = Status(f),
           {"close", "closeRest"} \cap Range(stack) = {},
           NEW m, NEW g \in {"ret", "wrapRest"}, Runs(m, Range(CalleesOf(hs)) \cup {g})
    PROVE  Settled(f) \/ Pending(f, Range(stack'))
<1> SUFFICES ASSUME Handshaking(f) PROVE Pending(f, Range(stack'))
  BY DEF Settled
<1>1. hs = Status(f)
  OBVIOUS
<1>2. \E h \in {"doWrap", "doUnwrap", "runTasks"} : Range(CalleesOf(hs)) = {h}
  BY <1>1, HandshakeNeedsOne
<1> QED BY <1>1, <1>2 DEF Pending, Runs

LEMMA PendingStep ==
    ASSUME TypeOK, Control, Move, ~OpenMove, call = "authenticate", ~Ends,
           ~Peer, ~UNCHANGED vars, ~Settled(engine), Pending(engine, Range(stack))
    PROVE  \/ call' = "crashed"
           \/ Settled(engine')
           \/ Pending(engine', Range(stack'))
           \/ engine'.in = "closed" /\ engine'.out = "open" /\ OnTop("close")'
<1>1. /\ engine \in Engines /\ engine.in = "open" /\ engine.out = "open" /\ Handshaking(engine)
      /\ {"close", "closeRest"} \cap Range(stack) = {}
      /\ Range(CalleesOf(Status(engine))) \subseteq Range(stack)
  BY DEF TypeOK, Pending, Settled
<1>2. engine' \in Engines
  BY MoveTypeOK DEF TypeOK
<1>3. PICK h \in {"doWrap", "doUnwrap", "runTasks"} : Range(CalleesOf(Status(engine))) = {h}
  BY <1>1, HandshakeNeedsOne
<1>4. h \in Range(stack)
  BY <1>1, <1>3
<1>5. ASSUME NEW f, NEW p, Runs(f, p), engine' = engine, h \in p \/ f # h,
             {"close", "closeRest"} \cap p = {}
      PROVE  Pending(engine', Range(stack'))
  BY <1>1, <1>3, <1>4, <1>5 DEF Runs, Pending
<1>6. ~Finishes
  BY <1>4 DEF Finishes, Resting
<1>7. CASE WrapMove
  <2>1. PICK r : /\ WrapControl(engine, r) /\ engine' = r.engine
                 /\ \/ r.status = "SSLException" /\ Runs("doWrap", {})
                    \/ /\ r.status = "OK"
                       /\ Runs("doWrap", Range(CalleesOf(r.hs)) \cup {"wrapRest"})
                    \/ /\ r.status = "CLOSED"
                       /\ Runs("doWrap", Range(CalleesOf(r.hs)) \cup {"closeRest"})
                    \/ /\ r.status = "BUFFER_OVERFLOW"
                       /\ Runs("doWrap", {"doWrap", "wrapOverflow"})
    BY <1>7, WrapRuns
  <2>2. CASE r.status = "SSLException"
    BY <2>1, <2>2 DEF WrapControl, Failed, Settled
  <2>3. CASE r.status = "OK"
    <3>1. /\ engine'.in = "open" /\ engine'.out = "open"
          /\ Handshaking(engine') => r.hs = Status(engine')
      BY <1>1, <2>1, <2>3 DEF WrapControl, Advanced, Carried, StepStatus
    <3>2. Runs("doWrap", Range(CalleesOf(r.hs)) \cup {"wrapRest"})
      BY <2>1, <2>3
    <3> QED BY <1>1, <1>2, <3>1, <3>2, PendingRuns
  <2>4. CASE r.status = "BUFFER_OVERFLOW"
    <3>1. engine' = engine /\ Runs("doWrap", {"doWrap", "wrapOverflow"})
      BY <2>1, <2>4 DEF WrapControl
    <3> QED BY <1>5, <3>1
  <2>5. r.status # "CLOSED"
    BY <1>1, <2>1 DEF WrapControl
  <2> QED BY <2>1, <2>2, <2>3, <2>4, <2>5
<1>8. CASE UnwrapMove
  <2>1. PICK r : /\ UnwrapControl(engine, r) /\ engine' = r.engine
                 /\ \/ r.status = "SSLException" /\ Runs("doUnwrap", {})
                    \/ /\ r.status = "OK"
                       /\ Runs("doUnwrap", Range(CalleesOf(r.hs)) \cup {"ret"})
                    \/ /\ r.status = "CLOSED"
                       /\ Runs("doUnwrap", Range(CalleesOf(r.hs)) \cup {"closeRest"})
                    \/ /\ r.status = "BUFFER_UNDERFLOW"
                       /\ Runs("doUnwrap", {"doUnwrap", "unwrapUnderflow"})
                    \/ /\ r.status = "BUFFER_OVERFLOW"
                       /\ Runs("doUnwrap", {"doUnwrap", "unwrapOverflow"})
    BY <1>8, UnwrapRuns
  <2>2. CASE r.status = "SSLException"
    BY <2>1, <2>2 DEF UnwrapControl, Failed, Settled
  <2>3. CASE r.status = "OK"
    <3>1. /\ engine'.in = "open" /\ engine'.out = "open"
          /\ Handshaking(engine') => r.hs = Status(engine')
      BY <1>1, <2>1, <2>3 DEF UnwrapControl, Advanced, Carried, StepStatus
    <3>2. Runs("doUnwrap", Range(CalleesOf(r.hs)) \cup {"ret"})
      BY <2>1, <2>3
    <3> QED BY <1>1, <1>2, <3>1, <3>2, PendingRuns
  <2>4. CASE r.status \in {"BUFFER_UNDERFLOW", "BUFFER_OVERFLOW"}
    <3>1. /\ engine' = engine
          /\ \/ Runs("doUnwrap", {"doUnwrap", "unwrapUnderflow"})
             \/ Runs("doUnwrap", {"doUnwrap", "unwrapOverflow"})
      BY <1>1, <2>1, <2>4 DEF UnwrapControl
    <3> QED BY <1>5, <3>1
  <2>5. r.status # "CLOSED"
    BY <1>1, <2>1 DEF UnwrapControl
  <2> QED BY <2>1, <2>2, <2>3, <2>4, <2>5
<1>9. CASE EndOfStreamMove
  <2>1. PICK r \in CloseInbound(engine) :
           engine' = r.engine /\ GoesOn(IF r.throws THEN <<>> ELSE <<"close">>, <<"ret">>)
    BY <1>9 DEF EndOfStreamMove
  <2>2. r.engine.in = "closed" /\ IF r.throws THEN r.engine.out # "open"
                                              ELSE r.engine.out = "open"
    BY <1>1, CloseInboundControl
  <2>3. CASE r.throws
    BY <2>1, <2>2, <2>3 DEF Settled
  <2>4. CASE ~r.throws
    <3>1. stack' = <<"close">> \o <<"ret">> \o Tail(stack)
      BY <2>1, <2>4 DEF GoesOn, Calls
    <3>2. stack \in Seq(Frames) /\ stack # <<>>
      BY <1>9 DEF TypeOK, EndOfStreamMove, OnTop
    <3>3. Head(stack') = "close" /\ stack' # <<>>
      <4> DEFINE t == Tail(stack)
      <4>1. t \in Seq(Frames)
        BY <3>2, HeadTailProperties
      <4> HIDE DEF t
      <4>2. Head(<<"close">> \o <<"ret">> \o t) = "close" /\ <<"close">> \o <<"ret">> \o t # <<>>
        BY <4>1
      <4> QED BY <3>1, <4>2 DEF t
    <3> QED BY <2>1, <2>2, <2>4, <3>3 DEF OnTop
  <2> QED BY <2>3, <2>4
<1>10. CASE TasksMove
  <2>1. engine' = RunDelegatedTasks(engine)
    BY <1>10 DEF TasksMove
  <2>2. Runs("runTasks", Range(CalleesOf(Status(engine'))) \cup {"ret"})
    BY <1>10, <2>1, OtherRuns
  <2>3. engine'.in = "open" /\ engine'.out = "open"
    BY <1>1, <2>1, RunDelegatedTasksControl DEF Advanced
  <2> QED BY <1>1, <1>2, <2>2, <2>3, PendingRuns
<1>11. CASE RestMove
  <2>1. engine' = engine
    BY <1>11 DEF RestMove, streamVars
  <2>2. "receiveRest" \notin Range(stack)
    BY DEF Control, Receives, ReceiveFrames
  <2>3. \A f, p : Runs(f, p) => f \in Range(stack)
    BY DEF Runs
  <2>4. Runs("wrapRest", (IF appOut.pos > 0 THEN {"doWrap"} ELSE {}) \cup {"ret"})
    BY <1>1, <1>11, <2>2, <2>3, OtherRuns
  <2> QED BY <1>5, <2>1, <2>4
<1>12. CASE CloseMove \/ ReceiveMove
  <2>1. {"close", "receive"} \cap Range(stack) # {}
    BY <1>12, RangeHead DEF CloseMove, ReceiveMove, OnTop, TypeOK
  <2> QED BY <1>1, <2>1 DEF Control, Receives, ReceiveFrames
<1>13. CASE Return
  <2>1. engine' = engine
    BY <1>13 DEF Return, streamVars
  <2>2. \E f \in Resting : Runs(f, {})
    BY <1>6, <1>13, OtherRuns
  <2> QED BY <1>5, <2>1, <2>2 DEF Resting
<1>14. EndMove => call' = "crashed"
  BY DEF EndMove, Ends
<1>15. ~(\E n \in SendSizes : SendMove(n)) /\ ~AskMove
  BY DEF SendMove, AskMove, Enter
<1> QED BY <1>7, <1>8, <1>9, <1>10, <1>11, <1>12, <1>13, <1>14, <1>15 DEF Move

LEMMA HandshakeDutyStep ==
    ASSUME TypeOK, Control, HandshakeDuty, Move
    PROVE  HandshakeDuty'
<1> SUFFICES ASSUME call' \in Running \cup {"idle"}, ~Settled(engine')
             PROVE  /\ call' = "authenticate"
                    /\ \/ Pending(engine', Range(stack'))
                       \/ engine'.in = "closed" /\ engine'.out = "open" /\ OnTop("close")'
  BY DEF HandshakeDuty, Pending
<1>0. ~Ends /\ call' # "crashed"
  BY DEF Ends, Running
<1>1. CASE OpenMove
  <2>1. /\ engine' = NewEngine /\ call' = "authenticate"
        /\ stack' = CalleesOf(Status(NewEngine)) \o <<"ret">>
    BY <1>0, <1>1 DEF OpenMove
  <2>2. CalleesOf(Status(NewEngine)) \in Seq(Frames) /\ <<"ret">> \in Seq(Frames)
    BY CalleesOfType, PushedFrames
  <2> DEFINE c == CalleesOf(Status(NewEngine))
  <2>3. Range(stack') = Range(c) \cup {"ret"}
    <3> HIDE DEF c
    <3>1. c \in Seq(Frames) /\ stack' = c \o <<"ret">>
      BY <2>1, <2>2 DEF c
    <3>2. Range(c \o <<"ret">>) = Range(c) \cup Range(<<"ret">>)
      BY <2>2, <3>1, RangeConcatenation
    <3> QED BY <3>1, <3>2, RangeOne
  <2>4. engine' \in Engines /\ engine'.in = "open" /\ engine'.out = "open" /\ Handshaking(engine')
    BY <2>1, NewEngineType DEF NewEngine, Settled
  <2>5. \E f \in {"doWrap", "doUnwrap", "runTasks"} : Range(CalleesOf(Status(engine'))) = {f}
    BY <2>4, HandshakeNeedsOne
  <2> QED BY <2>1, <2>3, <2>4, <2>5 DEF Pending
<1>2. CASE ~OpenMove
  <2>1. ~Settled(engine)
    BY <1>2, SettledStays
  <2>2. call \in Running \cup {"idle"}
    <3>1. call # "new"
      BY <1>2, <1>0 DEF Move, WrapMove, UnwrapMove, EndOfStreamMove, ReceiveMove, CloseMove,
             TasksMove, RestMove, EndMove, Return, SendMove, AskMove, Enter, Peer, OnTop, vars,
             callerVars, Control, Running
    <3> QED BY <3>1, StoppedStays
  <2>3. /\ call = "authenticate"
        /\ \/ Pending(engine, Range(stack))
           \/ engine.in = "closed" /\ engine.out = "open" /\ OnTop("close")
    BY <2>1, <2>2 DEF HandshakeDuty
  <2>4. call' \in {"authenticate", "idle"}
    BY <1>0, <2>3, MoveStack, InnerStepControl, ReceiveStackControl, StoppedStays
       DEF EndStep, CallStep, Running, Stopped
  <2>5. CASE Pending(engine, Range(stack)) /\ ~Peer /\ ~UNCHANGED vars
    <3>1. \/ Pending(engine', Range(stack'))
          \/ engine'.in = "closed" /\ engine'.out = "open" /\ OnTop("close")'
      BY <1>0, <1>2, <2>1, <2>3, <2>5, PendingStep
    <3>2. stack' # <<>>
      <4>1. engine' \in Engines
        BY MoveTypeOK DEF TypeOK
      <4>2. Pending(engine', Range(stack')) => Range(stack') # {}
        BY <4>1, HandshakeNeedsOne DEF Pending, Settled
      <4> QED BY <3>1, <4>2, RangeOne DEF OnTop
    <3>3. call' # "idle"
      BY <3>2, MoveControl DEF Control, Running
    <3> QED BY <2>4, <3>1, <3>3
  <2>6. CASE OnTop("close") /\ engine.in = "closed" /\ engine.out = "open" /\ ~Peer /\ ~UNCHANGED vars
    <3>1. CloseMove
      BY <1>0, <1>2, <2>3, <2>6 DEF Move, WrapMove, UnwrapMove, EndOfStreamMove, ReceiveMove,
             TasksMove, RestMove, EndMove, Return, Resting, SendMove, AskMove, Enter, Peer,
             OnTop, vars, Ends
    <3>2. engine'.in = "closed" /\ engine'.out = "closing"
      BY <2>6, <3>1, CloseOutboundControl DEF CloseMove, TypeOK
    <3> QED BY <3>2 DEF Settled
  <2>7. CASE Peer \/ UNCHANGED vars
    <3>1. engine' = engine /\ stack' = stack /\ call' = call
      BY <2>7 DEF Peer, vars, streamVars, callerVars
    <3> QED BY <2>3, <3>1 DEF OnTop
  <2> QED BY <2>3, <2>5, <2>6, <2>7
<1> QED BY <1>1, <1>2

-----------------------------------------------------------------------------
(* The refinement: every move is a step of SecureStream, or leaves it be.  *)

(* What SecureStream calls use.                                            *)
Using == IF call = "receive" /\ \A i \in DOMAIN stack : stack[i] = "ret"
         THEN "delivered" ELSE call

UseOf(s, c) == IF c = "receive" /\ OnlyReturns(s) THEN "delivered" ELSE c

LEMMA UsingCases ==
    ASSUME NEW s \in Seq(Frames)
    PROVE  OnlyReturns(s) <=> \A i \in DOMAIN s : s[i] = "ret"
<1>1. Range(s) = {s[i] : i \in DOMAIN s}
  BY DEF Range
<1> QED BY <1>1 DEF OnlyReturns

LEMMA UsingIs ==
    ASSUME TypeOK, Move
    PROVE  Using = UseOf(stack, call) /\ Using' = UseOf(stack', call')
<1>1. stack \in Seq(Frames) /\ stack' \in Seq(Frames)
  BY MoveTypeOK DEF TypeOK
<1> QED BY <1>1, UsingCases DEF Using, UseOf

LEMMA UsingType ==
    ASSUME NEW s, NEW c
    PROVE  /\ c \in Running => UseOf(s, c) \in Promise!Busy
           /\ c \notin Running => UseOf(s, c) = c
           /\ Receives(s) => UseOf(s, c) = c
BY DEF UseOf, Running, Promise!Busy, Receives, ReceiveFrames, OnlyReturns

(* A method of a call in progress may end the stream; the call goes on     *)
(* otherwise, and receive() is still without data.                         *)
LEMMA UsingWorks ==
    ASSUME TypeOK, Control, Move, stack # <<>>, call' # "idle", call' # "disposed",
           ReceiveMove => appIn.pos = 0
    PROVE  Using \in Promise!Busy /\ Using' \in {Using} \cup Promise!Over
<1>1. call \in Running /\ TypeOK' /\ Control'
  BY MoveTypeOK, MoveControl DEF Control
<1>2. Using \in Promise!Busy /\ Using = UseOf(stack, call) /\ Using' = UseOf(stack', call')
  BY <1>1, UsingType, UsingIs
<1>3. CASE InnerStep
  <2>1. call' = call /\ (Receives(stack') <=> Receives(stack))
    BY <1>3, InnerStepControl
  <2>2. call = "receive" => (OnlyReturns(stack') <=> OnlyReturns(stack))
    BY <1>1, <2>1 DEF Control, OnlyReturns, Receives, ReceiveFrames
  <2> QED BY <1>2, <2>1, <2>2 DEF UseOf
<1>4. CASE ReceiveStack
  <2>1. call' = call /\ Receives(stack)
    BY <1>4, ReceiveStackControl
  <2>2. Receives(stack')
    <3>1. CASE OnTop("receive") /\ GoesOn(<<>>, <<"ret">>)
      <4>1. OnlyReturns(stack')
        BY <1>4, <3>1, ReceiveStackControl
      <4>2. stack' # stack
        BY <2>1, <4>1 DEF Receives, OnlyReturns, ReceiveFrames
      <4>3. ReceiveMove
        BY <3>1, <1>1, <4>2 DEF Move, WrapMove, UnwrapMove, EndOfStreamMove, CloseMove, TasksMove,
               RestMove, EndMove, Return, Resting, OpenMove, SendMove, AskMove, Enter, Peer, OnTop,
               GoesOn, Running, vars, callerVars
      <4>4. PICK w \in {"receive", "receiveRest"} : GoesOn(<<"doUnwrap">>, <<w>>)
        <5>1. Remaining(Flip(appIn)) = 0
          <6>1. GoodBuffer(appIn) /\ appIn.pos = 0
            BY <4>3, BuffersGood
          <6> QED BY <6>1 DEF Flip, Remaining
        <5> QED BY <4>3, <5>1 DEF ReceiveMove
      <4>5. <<"doUnwrap">> \in Seq(Frames) /\ <<w>> \in Seq(Frames)
        BY PushedFrames
      <4>6. w \in Range(stack')
        <5>1. Range(stack') = Range(<<"doUnwrap">>) \cup Range(<<w>>) \cup Range(Tail(stack))
          BY <4>4, <4>5, RangeGoesOn
        <5>2. Range(<<w>>) = {w}
          BY RangeOne
        <5> QED BY <5>1, <5>2
      <4> QED BY <4>6 DEF Receives, ReceiveFrames
    <3>2. CASE ~(OnTop("receive") /\ GoesOn(<<>>, <<"ret">>))
      BY <1>4, <3>2, ReceiveStackControl
    <3> QED BY <3>1, <3>2
  <2>3. Using = call /\ Using' = call'
    BY <1>2, <2>1, <2>2, UsingType
  <2> QED BY <1>2, <2>1, <2>3
<1>5. CASE EndStep
  <2>1. call' \in {"threw", "aborted", "crashed"}
    BY <1>5 DEF EndStep, Stopped
  <2>2. Using' = call'
    BY <1>2, <2>1, UsingType DEF Running
  <2> QED BY <1>2, <2>1, <2>2 DEF Promise!Over
<1>6. CASE CallStep
  BY <1>1, <1>6 DEF CallStep, Running
<1>7. CASE stack' = stack /\ call' = call
  BY <1>2, <1>7 DEF Using
<1> QED BY <1>3, <1>4, <1>5, <1>6, <1>7, MoveStack

(* A prefix of what was accepted is a span from its start.                 *)
LEMMA SpanPrefix ==
    ASSUME NEW s \in Seq(Nat), NEW t \in Seq(Nat), NEW k \in Nat, s \o t = Span(0, k)
    PROVE  s = Span(0, Len(s)) /\ Len(s) <= k
<1> DEFINE n == Len(s)
<1>1. n \in Nat /\ Len(t) \in Nat
  BY LenProperties
<1>2. Len(s \o t) = n + Len(t) /\ \A i \in 1..n : (s \o t)[i] = s[i]
  <2>1. /\ Len(s \o t) = Len(s) + Len(t)
        /\ \A i \in 1..Len(s) + Len(t) :
              (s \o t)[i] = IF i <= Len(s) THEN s[i] ELSE t[i - Len(s)]
    BY ConcatProperties
  <2> HIDE DEF n
  <2>2. \A i \in 1..n : i \in 1..n + Len(t) /\ i <= n
    BY <1>1
  <2>3. Len(s) = n
    BY DEF n
  <2> QED BY <2>1, <2>2, <2>3
<1>3. Len(Span(0, k)) = k /\ \A i \in 1..k : Span(0, k)[i] = 0 + i
  BY SpanProperties
<1>4. n <= k
  <2>1. Len(s \o t) = k
    BY <1>3, Zenon
  <2> HIDE DEF n
  <2> QED BY <1>1, <1>2, <2>1
<1>5. /\ Span(0, n) \in Seq(Nat) /\ Len(Span(0, n)) = n
      /\ \A i \in 1..n : Span(0, n)[i] = 0 + i
  BY <1>1, SpanProperties
<1>6. \A i \in 1..n : s[i] = 0 + i
  <2>1. \A i \in 1..n : Span(0, k)[i] = s[i]
    BY <1>2, Zenon
  <2>2. \A i \in 1..n : i \in 1..k
    <3> HIDE DEF n
    <3> QED BY <1>1, <1>4
  <2> QED BY <1>3, <2>1, <2>2
<1>7. s = Span(0, n)
  <2>1. \A i \in 1..n : s[i] = Span(0, n)[i]
    BY <1>5, <1>6
  <2> QED BY <1>5, <2>1, SeqEqual
<1> QED BY <1>4, <1>7

LEMMA Transmitting ==
    ASSUME TypeOK, Control, OutboundInOrder, Move, WrapMove,
           ~Handshaking(engine), engine.out = "open", Carried(engine, engine'),
           engine'.plain # engine.plain
    PROVE  \E n \in Len(engine.plain) + 1 .. accepted : engine'.plain = Span(0, n)
<1>1. engine \in Engines /\ engine' \in Engines /\ accepted \in Nat /\ TypeOK'
  BY MoveTypeOK DEF TypeOK
<1>2. ~engine'.failed /\ accepted' = accepted
  BY DEF Control, Carried, WrapMove
<1>3. OutboundInOrder'
  BY OutboundStep
<1>4. engine'.plain \o appOut'.mem = Span(0, accepted)
  BY <1>2, <1>3 DEF OutboundInOrder
<1>5. engine'.plain \in Seq(Nat) /\ engine.plain \in Seq(Nat) /\ appOut'.mem \in Seq(Nat)
  BY <1>1 DEF Engines, TypeOK, ByteBuffers
<1> DEFINE s == engine'.plain
           t == appOut'.mem
           p == engine.plain
<1>6. s = Span(0, Len(s)) /\ Len(s) <= accepted
  <2>1. s \in Seq(Nat) /\ t \in Seq(Nat) /\ s \o t = Span(0, accepted)
    BY <1>4, <1>5
  <2> HIDE DEF s, t
  <2> QED BY <1>1, <2>1, SpanPrefix
<1>7. Len(s) > Len(p)
  <2>1. PICK r : WrapEffect(engine, Flip(appOut), netOut, r) /\ engine' = r.engine
    BY WrapMoveEffect DEF WrapMoved
  <2>2. PICK k \in 0..Remaining(Flip(appOut)) :
           s = p \o SubSeq(Flip(appOut).mem, Flip(appOut).pos + 1, Flip(appOut).pos + k)
    BY <2>1 DEF WrapEffect
  <2> DEFINE f == Flip(appOut)
             q == SubSeq(f.mem, f.pos + 1, f.pos + k)
  <2>3. q \in Seq(Nat)
    <3>1. GoodBuffer(f) /\ Readable(f)
      BY BuffersGood, FlipGood
    <3>2. k \in 0..Remaining(f)
      OBVIOUS
    <3> HIDE DEF f
    <3>3. /\ f.mem \in Seq(Nat) /\ f.pos \in Nat /\ k \in Nat
          /\ Len(f.mem) \in Nat /\ f.pos + k <= Len(f.mem)
      BY <3>1, <3>2 DEF GoodBuffer, ByteBuffers, WellFormed, Readable, Remaining
    <3>4. \A i \in f.pos + 1 .. f.pos + k : f.mem[i] \in Nat
      BY <3>3, ElementOfSeq
    <3>5. f.pos + 1 \in Int /\ f.pos + k \in Int
      BY <3>3
    <3> QED BY <3>4, <3>5, SubSeqProperties
  <2>4. q # <<>>
    <3>1. p \o <<>> = p
      BY <1>5, ConcatEmptySeq
    <3> HIDE DEF q
    <3>2. s = p \o q
      BY <2>2 DEF q
    <3>3. s # p
      OBVIOUS
    <3> QED BY <3>1, <3>2, <3>3, Zenon
  <2>5. Len(q) \in Nat /\ Len(q) # 0
    BY <2>3, <2>4, EmptySeq, LenProperties
  <2>6. Len(s) = Len(p) + Len(q)
    <3>1. s = p \o q
      BY <2>2
    <3> HIDE DEF s, p, q
    <3>2. p \in Seq(Nat)
      BY <1>5 DEF p
    <3>3. Len(p \o q) = Len(p) + Len(q)
      BY <2>3, <3>2, ConcatProperties
    <3> QED BY <3>1, <3>3, Zenon
  <2>7. Len(p) \in Nat
    BY <1>5, LenProperties
  <2> HIDE DEF s, p, q
  <2> QED BY <2>5, <2>6, <2>7
<1>8. Len(s) \in Nat /\ Len(p) \in Nat
  BY <1>5, LenProperties
<1>9. Len(s) \in Len(p) + 1 .. accepted
  BY <1>1, <1>6, <1>7, <1>8
<1> QED BY <1>6, <1>9

(* What a method does to the engine is a change of the two channels.       *)
LEMMA ShutsIsShut ==
    ASSUME Shuts(engine, engine')
    PROVE  Promise!Shut
BY DEF Shuts, Promise!Shut, Handshaking

LEMMA AdvancedIsSecure ==
    ASSUME TypeOK, HandshakeDuty, call \in Running, Advanced(engine, engine'),
           engine.in = "open" \/ (engine.out = "open" /\ ~OnTop("close"))
    PROVE  Promise!Secure \/ Promise!Shut
<1>1. engine.in = "open" /\ engine.out = "open"
  BY DEF HandshakeDuty, Settled, Pending, Advanced
<1>2. CASE Handshaking(engine')
  BY <1>2 DEF Promise!Shut, Advanced
<1>3. CASE ~Handshaking(engine')
  BY <1>1, <1>3 DEF Promise!Secure, Advanced
<1> QED BY <1>2, <1>3

LEMMA ChannelsStep ==
    ASSUME TypeOK, Control, HandshakeDuty, OutboundInOrder, Move, call \in Running
    PROVE  Promise!Secure \/ Promise!Transmit \/ Promise!Arrive \/ Promise!Shut
<1>0. ~OpenMove
  BY DEF OpenMove, Running
<1>1. CASE Shuts(engine, engine')
  BY <1>1, ShutsIsShut
<1>2. CASE WrapMove /\ ~Shuts(engine, engine')
  <2>1. PICK r : WrapControl(engine, r) /\ engine' = r.engine
    BY <1>2, WrapMoveEffect DEF WrapMoved
  <2>2. engine.out = "open" /\ (Advanced(engine, engine') \/ Carried(engine, engine'))
    BY <1>2, <2>1, SameShuts DEF WrapControl, Failed
  <2>3. engine'.rxApp = engine.rxApp /\ ~OnTop("close")
    BY <1>2, WrapFrame DEF WrapMove, OnTop
  <2>4. CASE Advanced(engine, engine')
    BY <2>2, <2>3, <2>4, AdvancedIsSecure
  <2>5. CASE Carried(engine, engine')
    <3>1. engine'.plain # engine.plain
      BY <1>2, <2>3, <2>5 DEF Shuts, Carried
    <3>2. \E n \in Len(engine.plain) + 1 .. accepted : engine'.plain = Span(0, n)
      BY <1>2, <2>2, <2>5, <3>1, Transmitting DEF Carried
    <3> QED BY <2>2, <2>3, <2>5, <3>2 DEF Carried, Handshaking, Promise!Transmit, Promise!Span, Span
  <2> QED BY <2>2, <2>4, <2>5
<1>3. CASE UnwrapMove /\ ~Shuts(engine, engine')
  <2>1. PICK r : UnwrapControl(engine, r) /\ engine' = r.engine
    BY <1>3, UnwrapMoveEffect DEF UnwrapMoved
  <2>2. engine.in = "open" /\ (Advanced(engine, engine') \/ Carried(engine, engine'))
    BY <1>3, <2>1, SameShuts DEF UnwrapControl, Failed
  <2>3. CASE Advanced(engine, engine')
    BY <2>2, <2>3, AdvancedIsSecure
  <2>4. CASE Carried(engine, engine')
    <3>1. engine'.plain = engine.plain
      BY <1>3, UnwrapFrame
    <3>2. engine'.rxApp # engine.rxApp
      BY <1>3, <2>4, <3>1 DEF Shuts, Carried
    <3>3. engine'.rxApp \in Nat /\ engine.rxApp \in Nat /\ engine'.rxApp >= engine.rxApp
      <4>1. PICK q : \E b : UnwrapEffect(engine, Flip(b), appIn, q) /\ engine' = q.engine
        BY <1>3, UnwrapMoveEffect DEF UnwrapMoved
      <4>2. engine \in Engines /\ engine' \in Engines
        BY MoveTypeOK DEF TypeOK
      <4>3. engine.rxApp \in Nat /\ engine'.rxApp \in Nat
        BY <4>2, EngineFields
      <4>4. Remaining(appIn) \in Nat
        BY BuffersGood, RemainingNat
      <4> QED BY <4>1, <4>3, <4>4 DEF UnwrapEffect
    <3> QED BY <2>2, <2>4, <3>1, <3>2, <3>3 DEF Carried, Handshaking, Promise!Arrive
  <2> QED BY <2>2, <2>3, <2>4
<1>4. CASE TasksMove
  <2>1. engine' = RunDelegatedTasks(engine)
    BY <1>4 DEF TasksMove
  <2>2. \/ engine' = engine
        \/ Advanced(engine, engine') /\ engine.in = "open"
    BY <2>1, RunDelegatedTasksControl DEF TypeOK
  <2> QED BY <1>1, <2>2, SameShuts, AdvancedIsSecure
<1>5. CASE CloseMove \/ EndOfStreamMove
  <2>1. Shuts(engine, engine')
    BY <1>5, CloseOutboundControl, CloseInboundControl DEF CloseMove, EndOfStreamMove, TypeOK
  <2> QED BY <1>1, <2>1
<1>6. CASE engine' = engine
  BY <1>1, <1>6, SameShuts
<1>7. ReceiveMove \/ RestMove \/ EndMove \/ Return \/ (\E n \in SendSizes : SendMove(n))
        \/ AskMove \/ Peer \/ UNCHANGED vars => engine' = engine
  BY DEF ReceiveMove, RestMove, EndMove, Return, SendMove, AskMove, Peer, vars, streamVars
<1> QED BY <1>0, <1>1, <1>2, <1>3, <1>4, <1>5, <1>6, <1>7 DEF Move

(* What a call owes is done when no frame is left for it.                  *)
LEMMA ReturnsDone ==
    ASSUME TypeOK, Control, Duties, OutboundInOrder, Finishes
    PROVE  Promise!MayReturn
<1>1. PICK f \in Resting \cup {"receive"} : Range(stack) = {f}
  BY DEF Finishes
<1>2. stack # <<>> /\ call \in Running
  BY <1>1, RangeOne DEF Control
<1>3. engine \in Engines
  BY DEF TypeOK
<1>4. Settled(engine)
  <2>1. SUFFICES ASSUME ~Settled(engine) PROVE FALSE
    OBVIOUS
  <2>2. ~Pending(engine, Range(stack))
    <3>1. SUFFICES ASSUME Pending(engine, Range(stack)) PROVE FALSE
      OBVIOUS
    <3>2. \E g \in {"doWrap", "doUnwrap", "runTasks"} : Range(CalleesOf(Status(engine))) = {g}
      BY <1>3, <2>1, <3>1, HandshakeNeedsOne DEF Pending, Settled
    <3> QED BY <1>1, <3>1, <3>2 DEF Pending, Resting
  <2>3. ~OnTop("close")
    BY <1>1, <1>2, RangeHead DEF OnTop, Resting, TypeOK
  <2> QED BY <1>2, <2>1, <2>2, <2>3 DEF Duties, HandshakeDuty
<1>5. engine.out = "open" => Len(engine.plain) = accepted
  <2>1. SUFFICES ASSUME engine.out = "open" PROVE Len(engine.plain) = accepted
    OBVIOUS
  <2>2. GoodBuffer(appOut) /\ appOut.pos \in Nat
    BY BuffersGood DEF GoodBuffer, ByteBuffers
  <2>3. appOut.pos = 0
    BY <1>1, <1>2, <2>1, <2>2 DEF Duties, SendDuty, Resting
  <2>4. Fillable(appOut) /\ engine.plain \o appOut.mem = Span(0, accepted)
    BY <2>1 DEF Control, OutboundInOrder
  <2>5. appOut.mem = <<>>
    BY <2>2, <2>3, <2>4, NothingBelow
  <2>6. engine.plain \in Seq(Nat) /\ accepted \in Nat
    BY <1>3, EngineFields DEF TypeOK
  <2>7. engine.plain = Span(0, accepted)
    <3>1. engine.plain \o <<>> = engine.plain
      BY <2>6, ConcatEmptySeq
    <3> QED BY <2>4, <2>5, <3>1, Zenon
  <2>8. Len(Span(0, accepted)) = accepted
    BY <2>6, SpanProperties
  <2> QED BY <2>7, <2>8, Zenon
<1>6. call = "close" => engine.out = "closed"
  BY <1>1 DEF Duties, CloseDuty, Resting
<1> QED BY <1>4, <1>5, <1>6 DEF Settled, Promise!MayReturn

(* receive() hands over all that was decrypted and not yet returned.       *)
LEMMA ReceiveDelivers ==
    ASSUME TypeOK, Control, Duties, Delivering, OutboundInOrder, ReceiveMove, appIn.pos # 0
    PROVE  Promise!Deliver
<1> DEFINE b == Flip(appIn)
<1>1. /\ OnTop("receive") /\ stack \in Seq(Frames) /\ Receives(stack)
      /\ call = "receive" /\ Using = "receive"
  <2>1. OnTop("receive") /\ stack \in Seq(Frames)
    BY DEF ReceiveMove, TypeOK
  <2>2. Receives(stack)
    BY <2>1, RangeHead DEF OnTop, Receives, ReceiveFrames
  <2>3. ~OnlyReturns(stack) /\ call = "receive"
    BY <2>2 DEF Control, Receives, ReceiveFrames, OnlyReturns
  <2>4. Using = "receive"
    BY <2>1, <2>3, UsingCases DEF Using
  <2> QED BY <2>1, <2>2, <2>3, <2>4
<1>2. GoodBuffer(appIn) /\ Fillable(appIn) /\ received \o appIn.mem = Span(0, engine.rxApp)
  BY <1>1, BuffersGood DEF Delivering, DeliveredInOrder
<1>3. Remaining(b) = appIn.pos /\ Unread(b) = appIn.mem
  BY <1>2, FlipGood, UnreadFlip
<1>4. appIn.pos \in Nat /\ Len(appIn.mem) = appIn.pos /\ appIn.mem \in Seq(Nat)
  BY <1>2 DEF GoodBuffer, ByteBuffers, Fillable
<1>5. /\ received' = received \o Unread(b)
      /\ \/ Len(stack) = 1 /\ stack' = <<>> /\ call' = "idle"
         \/ GoesOn(<<>>, <<"ret">>)
  <2>1. Remaining(b) > 0
    BY <1>3, <1>4
  <2> HIDE DEF b
  <2>2. Remaining(b) # 0
    BY <2>1
  <2> QED BY <2>1, <2>2 DEF ReceiveMove, b
<1>6. UNCHANGED <<engine, accepted>>
  BY DEF ReceiveMove
<1>7. received' = Span(0, engine.rxApp)
  <2> HIDE DEF b
  <2> QED BY <1>2, <1>3, <1>5, Zenon
<1>8. Len(received) < engine.rxApp
  <2> DEFINE m == appIn.mem
  <2>1. received \in Seq(Nat) /\ engine.rxApp \in Nat
    BY EngineFields DEF TypeOK
  <2>2. m \in Seq(Nat) /\ Len(m) \in Nat /\ Len(m) > 0 /\ received \o m = Span(0, engine.rxApp)
    BY <1>2, <1>4
  <2> HIDE DEF m
  <2>3. Len(received \o m) = Len(received) + Len(m)
    BY <2>1, <2>2, ConcatProperties
  <2>4. Len(Span(0, engine.rxApp)) = engine.rxApp
    BY <2>1, SpanProperties
  <2>5. engine.rxApp = Len(received) + Len(m)
    BY <2>2, <2>3, <2>4, Zenon
  <2>6. Len(received) \in Nat
    BY <2>1, LenProperties
  <2> QED BY <2>2, <2>5, <2>6
<1>9. CASE Len(stack) = 1 /\ stack' = <<>> /\ call' = "idle"
  <2>1. Range(stack) = {"receive"}
    BY <1>1, <1>9, LastFrame DEF OnTop
  <2>2. Promise!MayReturn
    BY <1>9, <2>1, ReturnsDone DEF Finishes
  <2>3. Using' = "idle"
    BY <1>9 DEF Using
  <2> QED BY <1>1, <1>6, <1>7, <1>8, <2>2, <2>3
          DEF Promise!Deliver, Promise!channels, Promise!Span, Span, Using
<1>10. CASE GoesOn(<<>>, <<"ret">>)
  <2>1. ReceiveStack
    BY <1>1, <1>10 DEF ReceiveStack
  <2>2. OnlyReturns(stack') /\ call' = "receive"
    BY <1>1, <1>10, <2>1, ReceiveStackControl
  <2>3. stack' \in Seq(Frames)
    BY ReceiveMoveTypeOK DEF TypeOK
  <2>4. Using' = "delivered"
    BY <2>2, <2>3, UsingCases DEF Using
  <2> QED BY <1>1, <1>6, <1>7, <1>8, <2>4
          DEF Promise!Deliver, Promise!channels, Promise!Span, Span, Using
<1> QED BY <1>5, <1>9, <1>10

LEMMA ReturnReturns ==
    ASSUME TypeOK, Control, Duties, OutboundInOrder, Return, Finishes
    PROVE  Promise!Return
<1>1. PICK f \in Resting : OnTop(f)
  BY DEF Return, OnTop
<1>2. stack \in Seq(Frames) /\ stack # <<>> /\ call \in Running
  BY <1>1 DEF TypeOK, OnTop, Control
<1>3. ~Receives(stack)
  <2>1. f \in Range(stack) /\ f \notin ReceiveFrames
    BY <1>1, <1>2, RangeHead DEF OnTop, Resting, ReceiveFrames
  <2>2. PICK g : Range(stack) = {g}
    BY DEF Finishes
  <2> QED BY <2>1, <2>2 DEF Receives
<1>4. call = "receive" => OnlyReturns(stack)
  BY <1>3 DEF Control
<1>5. Using \in Promise!Busy \ {"receive"}
  BY <1>2, <1>4, UsingCases DEF Using, Running, Promise!Busy
<1>6. Using' = "idle"
  BY DEF Finishes, Using
<1>7. Promise!MayReturn
  BY ReturnsDone
<1>8. UNCHANGED <<engine, accepted, received>>
  BY DEF Return, streamVars
<1> QED BY <1>5, <1>6, <1>7, <1>8 DEF Promise!Return, Promise!channels, Using

LEMMA CallCalls ==
    ASSUME TypeOK, Control, OpenMove \/ (\E n \in SendSizes : SendMove(n)) \/ AskMove
    PROVE  Promise!Call
<1>1. call \in {"new", "idle"}
  BY DEF OpenMove, SendMove, AskMove, Enter
<1>2. Using = call
  BY <1>1 DEF Using
<1>3. CASE OpenMove
  <2>1. engine' = engine /\ UNCHANGED <<accepted, received>>
    BY <1>3 DEF OpenMove, Control
  <2>2. call' \in {"authenticate", "threw", "aborted"} /\ Using' = call'
    BY <1>3 DEF OpenMove, Ends, Using
  <2>3. call = "new"
    BY <1>3 DEF OpenMove
  <2> QED BY <1>2, <2>1, <2>2, <2>3
          DEF Promise!Call, Promise!channels, Promise!Over, Using
<1>4. CASE \E n \in SendSizes : SendMove(n)
  <2>1. PICK n \in SendSizes : SendMove(n)
    BY <1>4
  <2>2. call = "idle" /\ UNCHANGED <<engine, received>>
    BY <2>1 DEF SendMove, Enter
  <2>3. \/ call' = "send" /\ accepted' = accepted + n
        \/ call' \in {"threw", "aborted"} /\ accepted' = accepted
    BY <2>1 DEF SendMove, Ends
  <2>4. Using' = call'
    BY <2>3 DEF Using
  <2>5. CASE call' = "send" /\ accepted' = accepted + n
    BY <1>2, <2>2, <2>4, <2>5 DEF Promise!Call, Promise!channels, Using
  <2>6. CASE call' \in {"threw", "aborted"} /\ accepted' = accepted
    BY <1>2, <2>2, <2>4, <2>6 DEF Promise!Call, Promise!channels, Promise!Over, Using
  <2> QED BY <2>3, <2>5, <2>6
<1>5. CASE AskMove
  <2>1. call = "idle" /\ UNCHANGED <<engine, accepted, received>>
    BY <1>5 DEF AskMove, Enter, streamVars
  <2>2. \/ call' = "receive" /\ stack' = <<"receive">>
        \/ call' \in {"close", "disposed"}
    BY <1>5 DEF AskMove
  <2>3. Using' = call'
    <3>1. CASE call' = "receive" /\ stack' = <<"receive">>
      <4>1. <<"receive">> \in Seq(Frames) /\ ~OnlyReturns(<<"receive">>)
        BY PushedFrames, RangeOne DEF OnlyReturns
      <4> QED BY <3>1, <4>1, UsingCases DEF Using
    <3>2. CASE call' \in {"close", "disposed"}
      BY <3>2 DEF Using
    <3> QED BY <2>2, <3>1, <3>2
  <2> QED BY <1>2, <2>1, <2>2, <2>3
          DEF Promise!Call, Promise!channels, Promise!Over, Using
<1> QED BY <1>3, <1>4, <1>5

(* Any other method works on the channels, or ends the stream.             *)
LEMMA OthersWork ==
    ASSUME TypeOK, Control, Duties, OutboundInOrder, Move, stack # <<>>, ~Finishes,
           ReceiveMove => appIn.pos = 0
    PROVE  Promise!Work
<1>1. call \in Running
  BY DEF Control
<1>2. ~OpenMove /\ ~(\E n \in SendSizes : SendMove(n)) /\ ~AskMove
  BY <1>1 DEF OpenMove, SendMove, AskMove, Enter, Running
<1>3. call' # "disposed" /\ call' # "idle"
  <2>1. CASE ReceiveMove \/ Return
    <3>1. \E f, p : Runs(f, p)
      BY <2>1, OtherRuns
    <3> QED BY <1>1, <3>1 DEF Runs, Running
  <2>2. CASE WrapMove
    <3>1. Ends \/ \E p : Runs("doWrap", p)
      BY <2>2, WrapRuns
    <3> QED BY <1>1, <3>1 DEF Runs, Running, Ends
  <2>3. CASE UnwrapMove
    <3>1. Ends \/ \E p : Runs("doUnwrap", p)
      BY <2>3, UnwrapRuns
    <3> QED BY <1>1, <3>1 DEF Runs, Running, Ends
  <2>4. CASE EndOfStreamMove \/ CloseMove \/ TasksMove \/ RestMove
    <3>1. Ends \/ \E f, p : Runs(f, p)
      BY <2>4, OtherRuns
    <3> QED BY <1>1, <3>1 DEF Runs, Running, Ends
  <2>5. CASE EndMove \/ Peer \/ UNCHANGED vars
    BY <1>1, <2>5 DEF EndMove, Peer, vars, callerVars, Running
  <2> QED BY <1>2, <2>1, <2>2, <2>3, <2>4, <2>5 DEF Move
<1>4. Using \in Promise!Busy /\ Using' \in {Using} \cup Promise!Over
  BY <1>3, UsingWorks
<1>5. Promise!Secure \/ Promise!Transmit \/ Promise!Arrive \/ Promise!Shut
  BY <1>1, ChannelsStep DEF Duties
<1>6. accepted' = accepted
  BY <1>2 DEF Move, WrapMove, UnwrapMove, EndOfStreamMove, ReceiveMove, CloseMove, TasksMove,
         RestMove, EndMove, Return, Peer, vars, callerVars
<1>7. received' = received
  <2>1. CASE ReceiveMove
    <3>1. GoodBuffer(appIn) /\ appIn.pos = 0
      BY <2>1, BuffersGood
    <3>2. ~(Remaining(Flip(appIn)) > 0)
      BY <3>1, FlipGood
    <3> QED BY <2>1, <3>2 DEF ReceiveMove
  <2>2. CASE ~ReceiveMove
    BY <1>2, <2>2 DEF Move, WrapMove, UnwrapMove, EndOfStreamMove, CloseMove, TasksMove,
           RestMove, EndMove, Return, Peer, vars, callerVars
  <2> QED BY <2>1, <2>2
<1> QED BY <1>4, <1>5, <1>6, <1>7 DEF Promise!Work, Using

LEMMA MovePromise ==
    ASSUME TypeOK, Control, Duties, Delivering, OutboundInOrder, Move
    PROVE  Promise!Next \/ UNCHANGED Promise!vars
<1>1. CASE Peer \/ UNCHANGED vars
  <2>1. UNCHANGED <<engine, stack, call, accepted, received>>
    BY <1>1 DEF Peer, vars, streamVars, callerVars
  <2> QED BY <2>1 DEF Promise!vars, Promise!calls, Promise!channels
<1>2. CASE OpenMove \/ (\E n \in SendSizes : SendMove(n)) \/ AskMove
  BY <1>2, CallCalls DEF Promise!Next
<1>3. CASE ReceiveMove /\ appIn.pos # 0
  BY <1>3, ReceiveDelivers DEF Promise!Next
<1>4. CASE Return /\ Finishes
  BY <1>4, ReturnReturns DEF Promise!Next
<1>5. CASE /\ ~(Peer \/ UNCHANGED vars)
           /\ ~(OpenMove \/ (\E n \in SendSizes : SendMove(n)) \/ AskMove)
           /\ ~(ReceiveMove /\ appIn.pos # 0) /\ ~(Return /\ Finishes)
  <2>1. stack # <<>>
    BY <1>5 DEF Move, WrapMove, UnwrapMove, EndOfStreamMove, ReceiveMove, CloseMove, TasksMove,
           RestMove, EndMove, Return, OnTop
  <2>2. ~Finishes
    <3>1. SUFFICES ASSUME Finishes PROVE FALSE
      OBVIOUS
    <3>2. call \in Running /\ call' = "idle"
      BY <2>1, <3>1 DEF Control, Finishes
    <3>3. ~Ends /\ ~EndMove /\ \A f, p : ~Runs(f, p)
      BY <3>2 DEF Ends, EndMove, Runs, Running
    <3>4. ~WrapMove /\ ~UnwrapMove
      BY <3>3, WrapRuns, UnwrapRuns
    <3>5. ~EndOfStreamMove /\ ~CloseMove /\ ~TasksMove /\ ~RestMove
      BY <3>3, OtherRuns
    <3>6. ~(ReceiveMove /\ appIn.pos = 0)
      <4>1. SUFFICES ASSUME ReceiveMove, appIn.pos = 0 PROVE FALSE
        OBVIOUS
      <4>2. ~(Remaining(Flip(appIn)) > 0)
        BY <4>1, BuffersGood, FlipGood
      <4> QED BY <3>2, <4>1, <4>2 DEF ReceiveMove, GoesOn, Running
    <3> QED BY <1>5, <3>1, <3>3, <3>4, <3>5, <3>6 DEF Move
  <2> QED BY <1>5, <2>1, <2>2, OthersWork DEF Promise!Next
<1> QED BY <1>1, <1>2, <1>3, <1>4, <1>5

LEMMA InitPromise == Init => Promise!Init
BY DEF Init, NewEngine, Promise!Init

LEMMA InitDuties == Init => Duties
BY DEF Init, Duties, SendDuty, CloseDuty, HandshakeDuty, Running

LEMMA DutiesStep == TypeOK /\ Control /\ Duties /\ Move => Duties'
BY SendDutyStep, CloseDutyStep, HandshakeDutyStep DEF Duties

(* A call of close() that returns has closed the outbound side.            *)
LEMMA CloseReturns ==
    ASSUME TypeOK, Control, Duties, Move, call = "close", call' = "idle"
    PROVE  engine'.out = "closed"
<1>1. ~Ends /\ ~EndMove /\ ~OpenMove /\ ~AskMove /\ \A f, p : ~Runs(f, p)
  BY DEF Ends, EndMove, OpenMove, AskMove, Enter, Runs
<1>2. ~WrapMove /\ ~UnwrapMove /\ ~EndOfStreamMove /\ ~CloseMove /\ ~TasksMove /\ ~RestMove
  BY <1>1, WrapRuns, UnwrapRuns, OtherRuns
<1>3. ReceiveMove \/ Return
  BY <1>1, <1>2 DEF Move, SendMove, Enter, Peer, vars, callerVars
<1>4. engine' = engine
  BY <1>3 DEF ReceiveMove, Return, streamVars
<1>5. Finishes
  BY <1>1, <1>3, OtherRuns
<1> QED BY <1>4, <1>5 DEF Finishes, Resting, Duties, CloseDuty

(* close() marks the engine before anything else can happen to it.         *)
ClosesFirst == call = "close" /\ engine.out = "open" => OnTop("close")

LEMMA ClosesFirstStep ==
    ASSUME TypeOK, Control, ClosesFirst, Move
    PROVE  ClosesFirst'
<1> SUFFICES ASSUME call' = "close", engine'.out = "open" PROVE OnTop("close")'
  BY DEF ClosesFirst
<1>1. ~Ends /\ ~OpenMove /\ ~EndMove
  BY DEF Ends, OpenMove, EndMove
<1>2. CASE call # "close"
  <2>1. stack' = <<"close", "ret">>
    BY <1>1, <1>2, MoveStack, InnerStepControl, ReceiveStackControl DEF EndStep, CallStep, Stopped
  <2> QED BY <2>1 DEF OnTop
<1>3. CASE call = "close"
  <2>1. engine.out = "open" /\ OnTop("close")
    BY <1>1, <1>3, OutboundShuts DEF ClosesFirst
  <2>2. ~CloseMove
    <3>1. engine \in Engines
      BY DEF TypeOK
    <3> QED BY <2>1, <3>1, CloseOutboundControl DEF CloseMove
  <2>3. stack' = stack
    BY <1>1, <1>3, <2>1, <2>2
       DEF Move, WrapMove, UnwrapMove, EndOfStreamMove, ReceiveMove, TasksMove, RestMove, Return,
           SendMove, AskMove, Enter, OnTop, Resting, Peer, vars
  <2> QED BY <2>1, <2>3 DEF OnTop
<1> QED BY <1>2, <1>3

(* While it runs, the outbound side closes only with a record written.     *)
LEMMA CloseWrites ==
    ASSUME TypeOK, Control, WrittenInOrder, ClosesFirst, Move, call = "close",
           engine.out # "closed", engine'.out = "closed"
    PROVE  call' \in {"threw", "aborted"} \/ outWire' = outWire \o Span(engine.tx, RecLen)
<1>0. engine \in Engines /\ ~OpenMove
  BY DEF TypeOK, OpenMove
<1>1. engine.out = "closing"
  <2>1. SUFFICES ASSUME engine.out = "open" PROVE FALSE
    BY <1>0, EngineFields DEF Engines
  <2>2. OnTop("close")
    BY <2>1 DEF ClosesFirst
  <2>3. CASE CloseMove
    BY <1>0, <2>1, <2>3, CloseOutboundControl DEF CloseMove
  <2>4. CASE ~CloseMove
    <3>1. engine' = engine
      BY <1>0, <2>2, <2>4
         DEF Move, WrapMove, UnwrapMove, EndOfStreamMove, ReceiveMove, TasksMove, RestMove, Return,
             EndMove, SendMove, AskMove, Enter, OnTop, Resting, Peer, vars, streamVars
    <3> QED BY <2>1, <3>1
  <2> QED BY <2>3, <2>4
<1>2. WrapMove
  <2>1. ~UnwrapMove
    <3>1. SUFFICES ASSUME UnwrapMove PROVE FALSE
      OBVIOUS
    <3>2. PICK r : UnwrapControl(engine, r) /\ engine' = r.engine
      BY <3>1, UnwrapMoveEffect DEF UnwrapMoved
    <3> QED BY <1>1, <3>2 DEF UnwrapControl, Advanced, Carried, Failed
  <2>2. ~EndOfStreamMove
    <3>1. SUFFICES ASSUME EndOfStreamMove PROVE FALSE
      OBVIOUS
    <3>2. PICK r \in CloseInbound(engine) : engine' = r.engine
      BY <3>1 DEF EndOfStreamMove
    <3> QED BY <1>0, <1>1, <3>2, CloseInboundControl
  <2>3. ~CloseMove
    BY <1>0, <1>1, CloseOutboundControl DEF CloseMove
  <2>4. ~TasksMove
    <3>1. SUFFICES ASSUME TasksMove PROVE FALSE
      OBVIOUS
    <3>2. engine' = RunDelegatedTasks(engine)
      BY <3>1 DEF TasksMove
    <3> QED BY <1>0, <1>1, <3>2, RunDelegatedTasksControl
  <2> QED BY <1>0, <1>1, <2>1, <2>2, <2>3, <2>4
          DEF Move, ReceiveMove, RestMove, EndMove, Return, SendMove, AskMove, Peer, vars,
              streamVars
<1>3. call \notin {"threw", "aborted"}
  OBVIOUS
<1>4. Fillable(netOut) /\ netOut.pos = 0 /\ GoodBuffer(netOut)
  BY <1>3, BuffersGood DEF WrittenInOrder
<1>5. PICK r \in Wrap(engine, Flip(appOut), netOut) : WrapMoved(r)
  BY <1>2 DEF WrapMove
<1>6. r.status = "CLOSED" /\ r.dst = Emit(engine, netOut)
  <2>1. engine' = r.engine
    BY <1>5 DEF WrapMoved
  <2> QED BY <1>0, <1>1, <1>5, <2>1, WrapClosing
<1>7. CASE Ends
  BY <1>7 DEF Ends
<1>8. CASE ~Ends
  <2>1. outWire' = outWire \o Unread(Flip(r.dst))
    BY <1>5, <1>6, <1>8 DEF WrapMoved, Flushed
  <2>2. Unread(Flip(r.dst)) = Span(engine.tx, RecLen)
    <3>1. RecLen <= Remaining(netOut)
      <4>1. ~(Remaining(netOut) < PacketBufferSize(engine))
        BY <1>1, <1>5, <1>6 DEF Wrap, Outcome
      <4> QED BY <1>0, <1>4, <4>1, RecordFits
    <3>2. GoodBuffer(r.dst) /\ Fillable(r.dst) /\ r.dst.mem = netOut.mem \o Span(engine.tx, RecLen)
      BY <1>0, <1>4, <1>6, <3>1, EmitGood
    <3>3. netOut.mem = <<>>
      BY <1>4, NothingBelow
    <3>4. Span(engine.tx, RecLen) \in Seq(Nat)
      BY <1>0, SpanProperties, EngineAssumption, EngineFields
    <3>5. <<>> \o Span(engine.tx, RecLen) = Span(engine.tx, RecLen)
      BY <3>4, ConcatEmptySeq
    <3> QED BY <3>2, <3>3, <3>5, UnreadFlip
  <2> QED BY <2>1, <2>2
<1> QED BY <1>7, <1>8

-----------------------------------------------------------------------------
(* The inductive invariant of both streams.                                *)

Safe ==
    /\ TypeOK /\ Control /\ Duties
    /\ Delivering /\ WrittenInOrder /\ OutboundInOrder /\ InboundInv

LEMMA InitSafe == Init => Safe
BY InitTypeOK, InitControl, InitDuties, InitDelivering, InitWritten, InitOutbound, InitInbound
   DEF Safe

LEMMA SafeStep == Safe /\ Move => Safe'
BY MoveTypeOK, MoveControl, DutiesStep, DeliveringStep, WrittenStep, OutboundStep, InboundStep
   DEF Safe

LEMMA SafeIsSafe == Safe => NothingLeftBehind /\ AuthenticateSettles
<1>1. ASSUME Safe, call \in {"idle", "disposed"}, engine.out = "open" PROVE appOut.pos = 0
  <2>1. stack = <<>>
    BY <1>1 DEF Safe, Control, Running
  <2>2. appOut.pos \in Nat
    BY <1>1 DEF Safe, TypeOK, ByteBuffers
  <2> QED BY <1>1, <2>1, <2>2, RangeOne DEF Safe, Duties, SendDuty
<1>2. ASSUME Safe, call = "idle" PROVE Settled(engine)
  BY <1>2 DEF Safe, Duties, HandshakeDuty
<1> QED BY <1>1, <1>2 DEF NothingLeftBehind, AuthenticateSettles, Settled

LEMMA SafePromise == Safe /\ Move => Promise!Next \/ UNCHANGED Promise!vars
BY MovePromise DEF Safe

=============================================================================
