------------------------ MODULE PalSslStream_proofs ------------------------
(***************************************************************************)
(* Theorems about PalSslStream, for every handshake script, record and     *)
(* buffer size, stack limit and bound, and for either read callback.  As   *)
(* for SSLStream, every step is a Move of TlsStream_proofs.                *)
(***************************************************************************)
EXTENDS NativeReferences, TlsStream_proofs, FiniteSetTheorems

-----------------------------------------------------------------------------
(* Every step is a move.                                                   *)

(* ensureRemaining() keeps the bytes of a buffer that is being filled, or  *)
(* the process aborts.                                                     *)
LEMMA EnsureRemainingRetries ==
    ASSUME NEW old, GoodBuffer(old), NEW n \in Nat, NEW callee, NEW rest,
           Retry(old, n, callee, rest)
    PROVE  Retries(ensureRemaining(old, n), old, callee, rest)
<1>0. old.pos \in Nat /\ Remaining(old) \in Nat
  BY RemainingNat DEF GoodBuffer, ByteBuffers
<1> DEFINE new == Allocate(Remaining(old) + n)
<1>1. CASE Remaining(old) >= n
  <2>1. ensureRemaining(old, n) = old
    BY <1>1 DEF ensureRemaining
  <2>2. Fits(old, n)
    BY <1>0, <1>1 DEF Fits
  <2> QED BY <2>1, <2>2 DEF Retry, Retries, Regrown, GoesOn
<1>2. CASE ~(Remaining(old) >= n)
  <2>0. Remaining(old) < n
    BY <1>0, <1>2
  <2>1. /\ GoodBuffer(new) /\ Fillable(new) /\ new.mem = <<>>
        /\ Remaining(new) = Remaining(old) + n /\ new.pos = 0
    <3>1. Remaining(old) + n \in Nat
      BY <1>0
    <3> QED BY <3>1, AllocateGood DEF Allocate
  <2> HIDE DEF new
  <2>2. CASE Fits(old, n)
    <3> DEFINE full == Flip(old)
               b == Put(new, Unread(full))
    <3>1. /\ GoodBuffer(full) /\ Readable(full) /\ Remaining(full) = old.pos
          /\ Fillable(old) => full.mem = old.mem
          /\ full.pos = 0 /\ full.lim = old.pos
      BY FlipGood
    <3>2. Unread(full) \in Seq(Nat) /\ Len(Unread(full)) = old.pos
      BY <3>1, UnreadProperties
    <3>3. Len(Unread(full)) <= Remaining(new)
      BY <2>0, <2>1, <2>2, <3>2 DEF Fits
    <3>4. ASSUME Fillable(old) PROVE Unread(full) = old.mem
      <4>1. /\ old.mem \in Seq(Nat) /\ Len(old.mem) = old.pos
            /\ full.mem = old.mem /\ full.pos = 0 /\ full.lim = old.pos
        BY <3>1, <3>4 DEF Fillable, GoodBuffer, ByteBuffers
      <4>2. SubSeq(old.mem, 0 + 1, old.pos) = old.mem
        BY <4>1, SubSeqFull
      <4> QED BY <4>1, <4>2 DEF Unread
    <3>5. ensureRemaining(old, n) = b
      BY <1>2, <2>2 DEF ensureRemaining, new
    <3> HIDE DEF full
    <3>6. /\ GoodBuffer(b) /\ Fillable(b)
          /\ b.pos = new.pos + Len(Unread(full))
          /\ b.mem = new.mem \o Unread(full)
      BY <2>1, <3>2, <3>3, PutGood
    <3>7. b.mem = Unread(full) /\ b.pos = old.pos
      BY <1>0, <2>1, <3>2, <3>6, ConcatEmptySeq
    <3> HIDE DEF b
    <3>8. Regrown(b, old)
      BY <3>4, <3>6, <3>7 DEF Regrown
    <3> QED BY <2>2, <3>5, <3>8 DEF Retry, Retries, GoesOn
  <2>3. CASE ~Fits(old, n)
    <3>1. ensureRemaining(old, n) = new
      BY <1>2, <2>3 DEF ensureRemaining, new
    <3> QED BY <2>1, <2>3, <3>1 DEF Retry, Retries, Aborts
  <2> QED BY <2>2, <2>3
<1> QED BY <1>1, <1>2

LEMMA AbortsEnds == Aborts => Ends
BY DEF Aborts, Ends

LEMMA CheckHandshakeStatus ==
    ASSUME NEW hs, NEW rest, checkHandshakeStatus(hs, rest)
    PROVE  Follows(hs, rest)
BY AbortsEnds DEF checkHandshakeStatus, Callees, CalleesOf, Follows, GoesOn

LEMMA FlushIsFlushed ==
    ASSUME NEW b, NEW hs, NEW rest, flush(b, hs, rest)
    PROVE  Flushed(b, hs, rest)
BY CheckHandshakeStatus, AbortsEnds DEF flush, Flushed, Drained

LEMMA doWrapIsMove == TypeOK /\ doWrap => WrapMove
<1> SUFFICES ASSUME TypeOK, doWrap PROVE WrapMove
  OBVIOUS
<1>1. PICK r \in Wrap(engine, Flip(appOut), netOut) :
         /\ engine' = r.engine
         /\ \/ /\ r.status = "SSLException"
               /\ appOut' = r.src /\ Aborts
               /\ UNCHANGED <<netOut, outWire>>
            \/ /\ r.status = "OK" /\ Wrapped(r)
               /\ flush(r.dst, r.hs, <<"wrapRest">>)
            \/ /\ r.status = "CLOSED" /\ Wrapped(r)
               /\ flush(r.dst, r.hs, <<"closeRest">>)
            \/ /\ r.status = "BUFFER_OVERFLOW" /\ Wrapped(r)
               /\ netOut' = ensureRemaining(r.dst, PacketBufferSize(r.engine))
               /\ Retry(r.dst, PacketBufferSize(r.engine), "doWrap", "wrapOverflow")
               /\ UNCHANGED outWire
  BY DEF doWrap
<1>2. /\ OnTop("doWrap")
      /\ UNCHANGED <<peerVars, readIn, netIn, appIn, calls, accepted, received>>
  BY DEF doWrap, Top, OnTop
<1>3. /\ engine \in Engines /\ GoodBuffer(netOut)
      /\ GoodBuffer(Flip(appOut)) /\ Readable(Flip(appOut))
  BY BuffersGood, FlipGood DEF TypeOK
<1>4. GoodBuffer(r.dst)
  BY <1>3, WrapProperties, WrapBuffersGood
<1>5. WrapMoved(r)
  BY <1>1, <1>4, AbortsEnds, FlushIsFlushed, BufferSizes, EnsureRemainingRetries
     DEF Wrapped, WrapMoved
<1> QED BY <1>2, <1>5 DEF WrapMove

LEMMA UnwrappedIsMoved ==
    ASSUME TypeOK, NEW b, GoodBuffer(b), NEW r \in Unwrap(engine, Flip(b), appIn, NextRecord),
           Unwrapped(b, r)
    PROVE  UnwrapMoved(r)
<1>1. /\ engine \in Engines /\ GoodBuffer(appIn) /\ NextRecord \in Records
      /\ GoodBuffer(Flip(b)) /\ Readable(Flip(b))
  BY BuffersGood, FlipGood, NextRecordType DEF TypeOK
<1>2. GoodBuffer(r.src) /\ Readable(r.src) /\ GoodBuffer(r.dst)
  BY <1>1, UnwrapProperties, UnwrapBuffersGood
<1>3. GoodBuffer(Compact(r.src))
  BY <1>2, CompactGood
<1> QED BY <1>2, <1>3, CheckHandshakeStatus, AbortsEnds, BufferSizes, EnsureRemainingRetries
        DEF Unwrapped, UnwrapMoved

LEMMA doUnwrapIsMove == TypeOK /\ (UnwrapBuffered \/ ReadAndUnwrap) => UnwrapMove
<1> SUFFICES ASSUME TypeOK, UnwrapBuffered \/ ReadAndUnwrap PROVE UnwrapMove
  OBVIOUS
<1>1. /\ OnTop("doUnwrap")
      /\ UNCHANGED <<peerVars, outWire, appOut, netOut, calls, accepted, received>>
  BY DEF UnwrapBuffered, ReadAndUnwrap, Top, OnTop, wireVars
<1>2. ASSUME NEW b, ReadInto(b),
             \E r \in Unwrap(engine, Flip(b), appIn, NextRecord) : Unwrapped(b, r)
      PROVE  UnwrapMove
  <2>1. PICK r \in Unwrap(engine, Flip(b), appIn, NextRecord) : Unwrapped(b, r)
    BY <1>2
  <2>2. UnwrapMoved(r)
    BY <1>2, <2>1, ReadIntoGood, UnwrappedIsMoved
  <2> QED BY <1>1, <1>2, <2>1, <2>2 DEF UnwrapMove
<1>3. CASE UnwrapBuffered
  <2>1. ReadInto(netIn)
    BY <1>3 DEF UnwrapBuffered, ReadInto, wireVars
  <2> QED BY <1>2, <1>3, <2>1 DEF UnwrapBuffered
<1>4. CASE ReadAndUnwrap
  <2>1. PICK count \in ReadCounts(netIn.lim) :
           /\ readIn' = readIn + count
           /\ \E r \in Unwrap(engine, Flip(Put(netIn, Span(readIn, count))), appIn, NextRecord) :
                 Unwrapped(Put(netIn, Span(readIn, count)), r)
    BY <1>4 DEF ReadAndUnwrap
  <2>2. netIn.pos = 0 /\ netIn.lim \in Nat
    BY <1>4, BuffersGood DEF ReadAndUnwrap, MustRead, GoodBuffer, ByteBuffers
  <2>3. count \in Nat /\ count <= Remaining(netIn)
    BY <2>1, <2>2 DEF ReadCounts, Remaining
  <2>4. ReadInto(Put(netIn, Span(readIn, count)))
    BY <2>1, <2>3 DEF ReadInto
  <2> QED BY <1>2, <2>1, <2>4
<1> QED BY <1>3, <1>4

LEMMA NextIsMove == TypeOK /\ [Next]_vars => Move
<1> SUFFICES ASSUME TypeOK, [Next]_vars PROVE Move
  OBVIOUS
<1>1. CASE ReadStep
  BY <1>1 DEF ReadStep, Top, OnTop, GoesOn, ReceiveMove, Move
<1>2. CASE doWrap
  BY <1>2, doWrapIsMove DEF Move
<1>3. CASE UnwrapBuffered \/ ReadAndUnwrap
  BY <1>3, doUnwrapIsMove DEF Move
<1>4. CASE handleEndOfStream
  <2>1. OnTop("doUnwrap") /\ stack # <<>>
    BY <1>4 DEF handleEndOfStream, Top, OnTop
  <2>2. CASE EofThrows /\ Aborts /\ UNCHANGED engine
    BY <1>4, <2>1, <2>2 DEF handleEndOfStream, Aborts, streamVars, EndMove, Move
  <2>3. CASE \E r \in CloseInbound(engine) :
                /\ engine' = r.engine
                /\ \/ r.throws /\ Aborts
                   \/ ~r.throws /\ Calls(<<"close">>, <<"ret">>) /\ UNCHANGED call
    BY <1>4, <2>1, <2>3, AbortsEnds DEF handleEndOfStream, GoesOn, EndOfStreamMove, Move
  <2> QED BY <1>4, <2>2, <2>3 DEF handleEndOfStream
<1>5. CASE WrapRest \/ CloseRest \/ ReadAgain
  BY <1>5 DEF WrapRest, CloseRest, ReadAgain, Top, OnTop, GoesOn, callerVars, RestMove, Move
<1>6. CASE close
  BY <1>6, CheckHandshakeStatus DEF close, Top, OnTop, CloseMove, Move
<1>7. CASE ReadThrows \/ StackOverflow
  <2>1. StackOverflow => stack # <<>>
    <3>1. Len(<<>>) = 0 /\ StackLimit \in Nat
      BY TlsStreamAssumption
    <3>2. StackOverflow => Len(stack) > StackLimit
      BY DEF StackOverflow
    <3>3. ~(0 > StackLimit)
      BY <3>1
    <3> QED BY <3>1, <3>2, <3>3
  <2> QED BY <1>7, <2>1 DEF ReadThrows, StackOverflow, Top, Aborts, EndMove, Move
<1>8. CASE Return
  BY <1>8 DEF Move
<1>9. CASE Create
  BY <1>9, AbortsEnds DEF Create, Callees, CalleesOf, OpenMove, Move
<1>10. CASE \E n \in SendSizes : Write(n)
  BY <1>10, AbortsEnds DEF Write, SendMove, Move
<1>11. CASE Read \/ Dispose
  BY <1>11 DEF Read, Dispose, AskMove, Move
<1>12. CASE Peer \/ UNCHANGED vars
  BY <1>12 DEF Move
<1> QED BY <1>1, <1>2, <1>3, <1>4, <1>5, <1>6, <1>7, <1>8, <1>9, <1>10, <1>11, <1>12
        DEF Next, StreamStep, Caller

LEMMA SafeAlways == Spec => []Safe /\ [][Safe /\ Move]_vars
<1>1. Safe /\ [Next]_vars => Safe' /\ [Safe /\ Move]_vars
  BY NextIsMove, SafeStep DEF Safe
<1> QED BY <1>1, InitSafe, PTL DEF Spec

-----------------------------------------------------------------------------

(* Every variable keeps its type, and the position of every buffer stays   *)
(* within its limit, its limit within its capacity, and below what was     *)
(* written, up to the abort and in the state it leaves.                    *)
THEOREM TypeCorrect == Spec => []TypeOK
<1>1. Safe => TypeOK
  BY DEF Safe
<1> QED BY <1>1, SafeAlways, PTL

(* Read returns the peer's plaintext in order, without loss and without    *)
(* repetition, for as long as the process lives.  The abort of a put()     *)
(* that does not fit, in ensureRemaining, leaves a buffer half made.       *)
THEOREM Delivered == Spec => [](call # "aborted" => DeliveredInOrder)
<1>1. Safe => (call # "aborted" => DeliveredInOrder)
  BY DEF Safe, Delivering
<1> QED BY <1>1, SafeAlways, PTL

(* No record waits in netOutBuffer between two steps: flush() writes each  *)
(* before the status it came with is acted upon.                           *)
THEOREM Written == Spec => []WrittenInOrder
<1>1. Safe => WrittenInOrder
  BY DEF Safe
<1> QED BY <1>1, SafeAlways, PTL

(* What Write takes is encrypted in order and exactly once, through every  *)
(* retry of wrap() and every growth of netOutBuffer.                       *)
THEOREM Outbound == Spec => []OutboundInOrder
<1>1. Safe => OutboundInOrder
  BY DEF Safe
<1> QED BY <1>1, SafeAlways, PTL

(* Every byte that the read callback delivered is decrypted or waits in    *)
(* netInBuffer, once and in order, for as long as the process lives.       *)
THEOREM Inbound == Spec => [](call # "aborted" => InboundInOrder)
<1>1. Safe => (call # "aborted" => InboundInOrder)
  BY DEF Safe, InboundInv, InboundInOrder, NextAt
<1> QED BY <1>1, SafeAlways, PTL

(* When a call has returned, nothing that Write took is left in            *)
(* appOutBuffer while the engine still accepts it.                         *)
THEOREM NothingLeft == Spec => []NothingLeftBehind
<1>1. Safe => NothingLeftBehind
  BY SafeIsSafe
<1> QED BY <1>1, SafeAlways, PTL

(* A call returns with the handshake complete or with the engine closed.   *)
THEOREM Settles == Spec => []AuthenticateSettles
<1>1. Safe => AuthenticateSettles
  BY SafeIsSafe
<1> QED BY <1>1, SafeAlways, PTL

(* pal_sslstream.c implements SecureStream, in whatever order its          *)
(* functions are called and up to the abort that every failure ends in.    *)
THEOREM PromiseKept == Spec => KeepsPromise
<1>1. Init => Promise!Init
  BY InitPromise
<1>2. [Safe /\ Move]_vars => [Promise!Next]_(Promise!vars)
  <2>1. CASE Safe /\ Move
    BY <2>1, SafePromise
  <2>2. CASE UNCHANGED vars
    <3>1. UNCHANGED <<engine, stack, call, accepted, received>>
      BY <2>2 DEF vars, streamVars, callerVars
    <3> QED BY <3>1 DEF Promise!vars, Promise!calls, Promise!channels
  <2> QED BY <2>1, <2>2
<1> QED BY <1>1, <1>2, SafeAlways, PTL DEF Spec, KeepsPromise, Promise!Spec

-----------------------------------------------------------------------------
(* Where nothing fails, the process survives.                              *)

(* The peer plays the protocol, sends no empty record (for each of which   *)
(* Read nests once more) and stays; reads return whole records; wrap()     *)
(* does not throw; the engine delegates no task; and a message fits        *)
(* appOutBuffer.                                                           *)
Smooth ==
    /\ ~WrapFaults /\ ~Fragmented /\ PeerMay \subseteq {"app"}
    /\ \A i \in DOMAIN Script : Script[i] # "NEED_TASK"
    /\ \A n \in SendSizes : n <= AppOutSize

(* The stack that the recursion needs: a frame for every step of the       *)
(* handshake, three for Read, one for every full record of what Write can  *)
(* take and one more when the session asks for a larger packet buffer than *)
(* the handshake did.                                                      *)
Growth == IF InitPacketSize < PacketSize THEN 1 ELSE 0
EnoughStack ==
    /\ StackLimit >= Len(Script) + 1
    /\ StackLimit >= 3
    /\ AppOutSize <= (StackLimit - 1 - Growth) * AppSize

(* Nothing was closed, and nothing went wrong.                             *)
Peace ==
    /\ engine.out = "open" /\ engine.in = "open" /\ ~fin /\ ~reset
    /\ call \notin {"threw", "aborted", "crashed"}

(* The peer's handshake records come first, and the engine and the peer    *)
(* are agreed on how many there are.                                       *)
Flights(n) == Cardinality({i \in 1..n : Script[i] = "NEED_UNWRAP"})

PeerAgrees ==
    /\ Len(log) >= Flights(peerStep)
    /\ \A i \in 1..Len(log) :
          IF i <= Flights(peerStep) THEN log[i].kind = "handshake"
          ELSE log[i].kind = "app" /\ log[i].len > 0 /\ peerStep = Len(Script)

EngineAgrees ==
    /\ engine.recs >= Flights(engine.step)
    /\ Handshaking(engine) => engine.recs = Flights(engine.step)

(* Records arrive whole, and no more of them than were sent.               *)
Whole == readIn % RecLen = 0 /\ readIn <= Arrived

(* In the handshake the function on top is the one that the engine needs,  *)
(* no plaintext waits, nor does any where doUnwrap() begins.               *)
Asked ==
    call # "new" /\ Handshaking(engine) =>
        \/ OnTop("doWrap") /\ Script[engine.step + 1] = "NEED_WRAP"
        \/ OnTop("doUnwrap") /\ Script[engine.step + 1] = "NEED_UNWRAP"

Slim ==
    /\ call # "new" => netOut.cap >= InitPacketSize /\ appOut.cap = AppOutSize
    /\ Handshaking(engine) => appOut.pos = 0 /\ appIn.pos = 0
    /\ OnTop("doUnwrap") => appIn.pos = 0

(* Where the functions below the top of stack s wait when p bytes are in   *)
(* appOut and a in appIn: those of an unfinished doWrap() have nothing     *)
(* left to wrap, and a Read that called doUnwrap() is the only one and     *)
(* finds the data it waits for.                                            *)
Suspends == {"wrapRest", "receiveRest", "ret", "wrapOverflow", "unwrapOverflow"}
Waiting(s, p, a) ==
    /\ \A i \in 2..Len(s) :
          /\ s[i] \in Suspends
          /\ s[i] = "wrapRest" => p = 0
          /\ s[i] = "receiveRest" => i = Len(s) /\ (Head(s) = "doUnwrap" \/ a > 0)
    /\ s # <<>> =>
          /\ Head(s) \in Suspends \cup {"doWrap", "doUnwrap", "receive"}
          /\ Head(s) = "receiveRest" => Len(s) = 1 /\ a > 0
          /\ Head(s) = "receive" => Len(s) = 1 \/ a > 0
Waits == Waiting(stack, appOut.pos, appIn.pos)

(* A buffer that is still too small for the session overflows once.        *)
Short(b, n) == IF b.cap < n THEN 1 ELSE 0

(* The frames that function f needs on top, its own included, for engine e *)
(* when o more overflows of netOut and a of appIn can happen and p bytes   *)
(* wait in appOut.                                                         *)
WrapAffords(e, o, p, k) ==
    IF Handshaking(e) THEN k >= Len(Script) - e.step
    ELSE k >= 1 + o /\ p <= (k - o) * AppSize

Affords(f, e, o, a, p, k) ==
    /\ k >= 1
    /\ f = "doWrap" => WrapAffords(e, o, p, k)
    /\ f = "wrapRest" /\ p > 0 => ~Handshaking(e) /\ WrapAffords(e, o, p, k - 1)
    /\ f = "doUnwrap" => k >= IF Handshaking(e) THEN Len(Script) - e.step ELSE 1 + a

Room(s) == StackLimit - (Len(s) - 1)
Deep ==
    stack # <<>> =>
        Affords(Head(stack), engine, Short(netOut, PacketSize), Short(appIn, AppSize),
                appOut.pos, Room(stack))

Course == Peace /\ EngineAgrees /\ Asked /\ Slim /\ Waits /\ Deep
Calm == Safe /\ PeerAgrees /\ Whole /\ Course

LEMMA ScriptAsks ==
    ASSUME Smooth, NEW e \in Engines, e.in = "open", e.out = "open"
    PROVE  /\ Handshaking(e) => /\ e.step + 1 \in 1..Len(Script)
                                /\ Script[e.step + 1] \in {"NEED_WRAP", "NEED_UNWRAP"}
                                /\ Status(e) = Script[e.step + 1]
           /\ ~Handshaking(e) => Status(e) = "NOT_HANDSHAKING"
           /\ Handshaking(e) \/ e.step = Len(Script)
<1>1. Script \in Seq(HandshakeNeeds) /\ Len(Script) \in Nat /\ e.step \in 0..Len(Script)
  BY EngineAssumption, LenProperties DEF Engines
<1>2. Handshaking(e) => e.step + 1 \in 1..Len(Script)
  BY <1>1 DEF Handshaking
<1>3. ASSUME NEW i \in 1..Len(Script) PROVE Script[i] \in {"NEED_WRAP", "NEED_UNWRAP"}
  <2>1. Script[i] \in HandshakeNeeds /\ Script[i] # "NEED_TASK"
    BY <1>1, <1>3, ElementOfSeq DEF Smooth
  <2> QED BY <2>1 DEF HandshakeNeeds
<1> QED BY <1>1, <1>2, <1>3 DEF Status, Handshaking

(* The number of records that the peer's half of the handshake takes.      *)
LEMMA FlightsGrow ==
    /\ Flights(0) = 0
    /\ \A n \in Nat : Flights(n) \in Nat
    /\ \A n \in Nat : Flights(n + 1) =
                         IF Script[n + 1] = "NEED_UNWRAP" THEN Flights(n) + 1 ELSE Flights(n)
    /\ \A m, n \in Nat : m <= n => Flights(m) <= Flights(n)
<1> DEFINE F(n) == {i \in 1..n : Script[i] = "NEED_UNWRAP"}
<1>1. ASSUME NEW n \in Nat PROVE IsFiniteSet(F(n)) /\ Flights(n) \in Nat
  <2>1. IsFiniteSet(1..n) /\ F(n) \in SUBSET (1..n)
    BY FS_Interval
  <2>2. IsFiniteSet(F(n))
    BY <2>1, FS_Subset
  <2> QED BY <2>2, FS_CardinalityType DEF Flights
<1>2. Flights(0) = 0
  <2>1. F(0) = {}
    OBVIOUS
  <2> QED BY <2>1, FS_EmptySet DEF Flights
<1>3. ASSUME NEW n \in Nat
      PROVE  Flights(n + 1) = IF Script[n + 1] = "NEED_UNWRAP" THEN Flights(n) + 1 ELSE Flights(n)
  <2>1. n + 1 \notin F(n)
    OBVIOUS
  <2>2. CASE Script[n + 1] = "NEED_UNWRAP"
    <3>1. F(n + 1) = F(n) \cup {n + 1}
      BY <2>2
    <3>2. Cardinality(F(n) \cup {n + 1}) = Cardinality(F(n)) + 1
      BY <1>1, <2>1, FS_AddElement
    <3> QED BY <2>2, <3>1, <3>2 DEF Flights
  <2>3. CASE Script[n + 1] # "NEED_UNWRAP"
    <3>1. F(n + 1) = F(n)
      BY <2>3
    <3> QED BY <2>3, <3>1 DEF Flights
  <2> QED BY <2>2, <2>3
<1>4. ASSUME NEW m \in Nat, NEW n \in Nat, m <= n PROVE Flights(m) <= Flights(n)
  <2>1. F(m) \in SUBSET F(n)
    BY <1>4
  <2> QED BY <1>1, <2>1, FS_Subset DEF Flights
<1> QED BY <1>1, <1>2, <1>3, <1>4

(* The next stack, from its top.                                           *)
LEMMA RoomNext ==
    ASSUME TypeOK, TypeOK', stack # <<>>
    PROVE  /\ Len(stack) \in Nat \ {0} /\ Room(stack) \in Int /\ Head(stack) = stack[1]
           /\ Pops => /\ Room(stack') = Room(stack) + 1
                      /\ stack' # <<>> => 2 \in 2..Len(stack) /\ Head(stack') = stack[2]
           /\ \A w \in Frames :
                 Turns(w) => stack' # <<>> /\ Head(stack') = w /\ Room(stack') = Room(stack)
           /\ \A f, w \in Frames :
                 CallsOn(f, w) => /\ stack' # <<>> /\ Head(stack') = f
                                  /\ Room(stack') = Room(stack) - 1
<1>1. /\ stack \in Seq(Frames) /\ stack' \in Seq(Frames) /\ StackLimit \in Nat
      /\ Len(stack) \in Nat /\ Len(stack) > 0 /\ Head(stack) = stack[1]
  BY ShapeOf, TlsStreamAssumption DEF TypeOK
<1>2. stack' # <<>> => Len(stack') \in Nat /\ Len(stack') > 0 /\ Head(stack') = stack'[1]
  BY <1>1, HeadTailProperties, EmptySeq
<1>3. Len(stack') \in Nat \ {0} => stack' # <<>>
  OBVIOUS
<1>4. ASSUME Pops
      PROVE  /\ Room(stack') = Room(stack) + 1
             /\ stack' # <<>> => 2 \in 2..Len(stack) /\ Head(stack') = stack[2]
  <2>1. Len(stack') = Len(stack) - 1 /\ \A i \in 1..Len(stack') : stack'[i] = stack[i + 1]
    BY <1>4, ShapeOf
  <2>2. ASSUME stack' # <<>> PROVE 2 \in 2..Len(stack) /\ stack'[1] = stack[2]
    <3>1. 1 \in 1..Len(stack') /\ 1 + 1 = 2 /\ 2 \in 2..Len(stack)
      BY <1>1, <1>2, <2>1, <2>2
    <3> QED BY <2>1, <3>1
  <2> QED BY <1>1, <1>2, <2>1, <2>2 DEF Room
<1>5. ASSUME NEW w \in Frames, Turns(w)
      PROVE  stack' # <<>> /\ Head(stack') = w /\ Room(stack') = Room(stack)
  <2>1. Len(stack') = Len(stack) /\ stack'[1] = w
    BY <1>5, ShapeOf
  <2> QED BY <1>1, <1>2, <1>3, <2>1 DEF Room
<1>6. ASSUME NEW f \in Frames, NEW w \in Frames, CallsOn(f, w)
      PROVE  stack' # <<>> /\ Head(stack') = f /\ Room(stack') = Room(stack) - 1
  <2>1. Len(stack') = Len(stack) + 1 /\ stack'[1] = f
    BY <1>6, ShapeOf
  <2>2. Len(stack') \in Nat \ {0}
    BY <1>1, <2>1
  <2> QED BY <1>1, <1>2, <1>3, <2>1, <2>2 DEF Room
<1> QED BY <1>1, <1>4, <1>5, <1>6 DEF Room

LEMMA WaitingPops ==
    ASSUME TypeOK, TypeOK', stack # <<>>, Waits, Pops, Head(stack) # "doUnwrap"
    PROVE  /\ Waiting(stack', appOut.pos, appIn.pos)
           /\ stack' # <<>> => /\ Head(stack') \in Suspends
                               /\ Head(stack') = "wrapRest" => appOut.pos = 0
<1>1. /\ Len(stack) \in Nat /\ Len(stack') = Len(stack) - 1
      /\ \A i \in 1..Len(stack') : stack'[i] = stack[i + 1]
      /\ stack' # <<>> => 2 \in 2..Len(stack) /\ Head(stack') = stack[2]
  BY ShapeOf, RoomNext
<1>2. \A i \in 2..Len(stack) :
         /\ stack[i] \in Suspends
         /\ stack[i] = "wrapRest" => appOut.pos = 0
         /\ stack[i] = "receiveRest" => i = Len(stack) /\ appIn.pos > 0
  BY DEF Waits, Waiting
<1>3. \A i \in 2..Len(stack') :
         /\ i + 1 \in 2..Len(stack) /\ stack'[i] = stack[i + 1]
         /\ i + 1 = Len(stack) => i = Len(stack')
  BY <1>1
<1>4. stack' # <<>> => /\ Head(stack') \in Suspends
                       /\ Head(stack') = "wrapRest" => appOut.pos = 0
                       /\ Head(stack') = "receiveRest" => Len(stack') = 1 /\ appIn.pos > 0
  <2>1. Len(stack') = Len(stack) - 1
    BY <1>1
  <2>2. 2 = Len(stack) => Len(stack') = 1
    BY <2>1
  <2> QED BY <1>1, <1>2, <2>2
<1>5. "receive" \notin Suspends
  BY DEF Suspends
<1> QED BY <1>2, <1>3, <1>4, <1>5 DEF Waiting

LEMMA WaitingTurns ==
    ASSUME TypeOK, TypeOK', stack # <<>>, Waits, NEW w \in {"wrapRest", "ret"}, Turns(w),
           NEW p, NEW a, appOut.pos = 0 => p = 0,
           (\E i \in 2..Len(stack) : stack[i] = "receiveRest") => a > 0
    PROVE  Waiting(stack', p, a)
<1>1. w \in Frames
  BY DEF Frames, Resting
<1>2. /\ Len(stack') = Len(stack) /\ \A i \in 2..Len(stack') : stack'[i] = stack[i]
      /\ stack' # <<>> /\ Head(stack') = w
  BY <1>1, ShapeOf, RoomNext
<1>3. \A i \in 2..Len(stack') :
         /\ stack'[i] \in Suspends
         /\ stack'[i] = "wrapRest" => p = 0
         /\ stack'[i] = "receiveRest" => i = Len(stack') /\ a > 0
  BY <1>2 DEF Waits, Waiting
<1> QED BY <1>2, <1>3 DEF Waiting, Suspends

LEMMA WaitingCalls ==
    ASSUME TypeOK, TypeOK', stack # <<>>, Waits,
           NEW f \in {"doWrap", "doUnwrap", "receive"}, NEW w \in Suspends, CallsOn(f, w),
           NEW p, NEW a, appOut.pos = 0 => p = 0,
           w = "wrapRest" => p = 0,
           w = "receiveRest" => Len(stack) = 1 /\ f = "doUnwrap",
           f = "receive" => a > 0,
           (\E i \in 2..Len(stack) : stack[i] = "receiveRest") => f = "doUnwrap" \/ a > 0
    PROVE  Waiting(stack', p, a)
<1>1. f \in Frames /\ w \in Frames
  BY DEF Frames, Resting, Suspends
<1>2. /\ Len(stack) \in Nat \ {0} /\ Len(stack') = Len(stack) + 1 /\ stack'[2] = w
      /\ \A i \in 3..Len(stack') : stack'[i] = stack[i - 1]
      /\ stack' # <<>> /\ Head(stack') = f
  BY <1>1, ShapeOf, RoomNext
<1>3. ASSUME NEW i \in 2..Len(stack')
      PROVE  /\ stack'[i] \in Suspends
             /\ stack'[i] = "wrapRest" => p = 0
             /\ stack'[i] = "receiveRest" => i = Len(stack') /\ (f = "doUnwrap" \/ a > 0)
  <2>1. CASE i = 2
    BY <1>2, <2>1
  <2>2. CASE i # 2
    <3>1. i \in 3..Len(stack') /\ i - 1 \in 2..Len(stack)
          /\ (i - 1 = Len(stack) => i = Len(stack'))
      BY <1>2, <2>2
    <3>2. stack'[i] = stack[i - 1]
      BY <1>2, <3>1
    <3>3. /\ stack[i - 1] \in Suspends
          /\ stack[i - 1] = "wrapRest" => appOut.pos = 0
          /\ stack[i - 1] = "receiveRest" => i - 1 = Len(stack)
      BY <3>1 DEF Waits, Waiting
    <3> QED BY <3>1, <3>2, <3>3
  <2> QED BY <2>1, <2>2
<1> QED BY <1>2, <1>3 DEF Waiting, Suspends

(* After wrap() or unwrap() the function on top goes on as w, under what   *)
(* the engine asks for.                                                    *)
LEMMA Landing ==
    ASSUME Smooth, NEW e \in Engines, e.in = "open", e.out = "open", stack # <<>>, NEW w,
           NEW hs \in {Status(e), StepStatus(e)}, checkHandshakeStatus(hs, <<w>>)
    PROVE  /\ call' = call
           /\ Handshaking(e) =>
                 \/ CallsOn("doWrap", w) /\ Script[e.step + 1] = "NEED_WRAP"
                 \/ CallsOn("doUnwrap", w) /\ Script[e.step + 1] = "NEED_UNWRAP"
           /\ ~Handshaking(e) => Turns(w)
<1>1. Handshaking(e) => hs = Script[e.step + 1] /\ hs \in {"NEED_WRAP", "NEED_UNWRAP"}
  BY ScriptAsks DEF StepStatus
<1>2. ~Handshaking(e) => hs \in {"NOT_HANDSHAKING", "FINISHED"}
  BY ScriptAsks DEF StepStatus
<1> QED BY <1>1, <1>2 DEF checkHandshakeStatus, Callees, CallsOn, Turns

(* Without faults an open engine does not fail in wrap(), and it has room  *)
(* for the record when it does not ask for more.                           *)
LEMMA WrapQuiet ==
    ASSUME ~WrapFaults, NEW e, e.out = "open", NEW src, NEW dst, NEW r \in Wrap(e, src, dst)
    PROVE  /\ r.status # "SSLException"
           /\ r.status = "OK" => ~(Remaining(dst) < PacketBufferSize(e))
<1>1. CASE Remaining(dst) < PacketBufferSize(e)
  <2>1. r = Outcome("BUFFER_OVERFLOW", Status(e), e, src, dst)
    BY <1>1 DEF Wrap
  <2> QED BY <2>1 DEF Outcome
<1>2. CASE ~(Remaining(dst) < PacketBufferSize(e)) /\ Handshaking(e)
  <2>1. r \in WrapHandshake(e, src, dst)
    BY <1>2 DEF Wrap
  <2>2. {x \in Fatal(e) : WrapFaults} = {}
    OBVIOUS
  <2>3. \E hs, f, d : r = Outcome("OK", hs, f, src, d)
    BY <2>1, <2>2, Zenon DEF WrapHandshake
  <2> QED BY <1>2, <2>3 DEF Outcome
<1>3. CASE ~(Remaining(dst) < PacketBufferSize(e)) /\ ~Handshaking(e)
  <2>1. r \in WrapData(e, src, dst)
    BY <1>3 DEF Wrap
  <2>2. \E f, s, d : r = Outcome("OK", "NOT_HANDSHAKING", f, s, d)
    BY <2>1, Zenon DEF WrapData
  <2> QED BY <1>3, <2>2 DEF Outcome
<1> QED BY <1>1, <1>2, <1>3

(* An empty buffer that is replaced gets the room that was asked for.      *)
LEMMA EnsureRemainingEmpty ==
    ASSUME NEW old, GoodBuffer(old), Fillable(old), old.pos = 0, NEW n \in Nat
    PROVE  LET b == ensureRemaining(old, n)
           IN  Fits(old, n) /\ b.cap >= old.cap /\ b.cap >= n /\ b.pos = 0
<1>1. old.cap \in Nat /\ Remaining(old) = old.cap
  BY DEF GoodBuffer, ByteBuffers, Fillable, Remaining
<1>2. Fits(old, n)
  BY <1>1 DEF Fits
<1>3. CASE Remaining(old) >= n
  BY <1>1, <1>2, <1>3 DEF ensureRemaining
<1>4. CASE ~(Remaining(old) >= n)
  <2>1. Len(Unread(Flip(old))) = 0
    BY FlipGood, UnreadProperties
  <2>2. ensureRemaining(old, n) = Put(Allocate(Remaining(old) + n), Unread(Flip(old)))
    BY <1>2, <1>4 DEF ensureRemaining
  <2>3. /\ ensureRemaining(old, n).cap = Remaining(old) + n
        /\ ensureRemaining(old, n).pos = 0
    BY <2>1, <2>2 DEF Put, Allocate
  <2> QED BY <1>1, <1>2, <2>3
<1> QED BY <1>3, <1>4

(* What holds while a function runs.                                       *)
LEMMA RunningCalm ==
    ASSUME Calm, stack # <<>>
    PROVE  /\ TypeOK /\ engine \in Engines /\ engine.out = "open" /\ engine.in = "open"
           /\ ~engine.failed /\ call # "aborted"
           /\ call \in Running /\ ~reset /\ ~fin
           /\ Fillable(netOut) /\ netOut.pos = 0 /\ Remaining(netOut) = netOut.cap
           /\ netOut.cap \in Nat /\ netOut.cap >= InitPacketSize
           /\ Fillable(appIn) /\ appIn.cap \in Nat /\ appIn.pos \in Nat
           /\ appOut.cap = AppOutSize /\ appOut.pos \in Nat
           /\ InboundInv
<1>1. call \in Running /\ call \notin {"new", "threw", "aborted"}
  BY DEF Calm, Safe, Control, Running
<1>2. /\ Fillable(netOut) /\ netOut.pos = 0 /\ Fillable(appIn) /\ InboundInv
  BY <1>1 DEF Calm, Safe, WrittenInOrder, Delivering, DeliveredInOrder
<1>3. /\ netOut.cap \in Nat /\ appIn.cap \in Nat /\ appIn.pos \in Nat /\ appOut.pos \in Nat
      /\ TypeOK /\ engine \in Engines
  BY BuffersGood DEF Calm, Safe, TypeOK, GoodBuffer, ByteBuffers
<1>4. engine.out = "open" /\ engine.in = "open" /\ ~reset /\ ~fin /\ ~engine.failed
  BY <1>3, EngineFields DEF Calm, Course, Safe, Peace, Control, TransportTypeOK
<1>5. netOut.cap >= InitPacketSize /\ appOut.cap = AppOutSize
  BY <1>1 DEF Calm, Course, Slim
<1> QED BY <1>1, <1>2, <1>3, <1>4, <1>5 DEF Fillable, Remaining

(* doWrap() does the handshake step that is due, or makes room, or wraps a *)
(* record of plaintext.                                                    *)
LEMMA WrapGoes ==
    ASSUME Smooth, Calm, doWrap
    PROVE  /\ engine'.in = "open" /\ engine'.out = "open" /\ engine'.recs = engine.recs
           /\ appOut'.cap = appOut.cap /\ netOut'.cap >= netOut.cap
           /\ \/ /\ Handshaking(engine) /\ Script[engine.step + 1] = "NEED_WRAP"
                 /\ engine'.step = engine.step + 1 /\ appOut'.pos = appOut.pos
                 /\ engine'.tx = engine.tx + RecLen
                 /\ checkHandshakeStatus(StepStatus(engine'), <<"wrapRest">>)
              \/ /\ ~Handshaking(engine) /\ call' = call
                 /\ \/ /\ engine' = engine /\ appOut'.pos = appOut.pos
                       /\ netOut.cap < PacketSize /\ netOut'.cap >= PacketSize
                       /\ CallsOn("doWrap", "wrapOverflow")
                    \/ /\ engine'.step = engine.step /\ netOut.cap >= PacketSize
                       /\ appOut.pos > 0 => engine'.tx = engine.tx + RecLen
                       /\ appOut'.pos = IF appOut.pos <= AppSize THEN 0 ELSE appOut.pos - AppSize
                       /\ Turns("wrapRest")
<1>0. /\ stack # <<>> /\ GoodBuffer(appOut) /\ GoodBuffer(netOut)
      /\ GoodBuffer(Flip(appOut)) /\ Readable(Flip(appOut))
      /\ Remaining(Flip(appOut)) = appOut.pos /\ Flip(appOut).cap = appOut.cap
      /\ Flip(appOut).pos = 0
  BY BuffersGood, FlipGood DEF doWrap, Top, Calm, Safe
<1>1. PICK r \in Wrap(engine, Flip(appOut), netOut) :
         /\ engine' = r.engine
         /\ \/ /\ r.status = "SSLException"
               /\ appOut' = r.src /\ Aborts
               /\ UNCHANGED <<netOut, outWire>>
            \/ /\ r.status = "OK" /\ Wrapped(r)
               /\ flush(r.dst, r.hs, <<"wrapRest">>)
            \/ /\ r.status = "CLOSED" /\ Wrapped(r)
               /\ flush(r.dst, r.hs, <<"closeRest">>)
            \/ /\ r.status = "BUFFER_OVERFLOW" /\ Wrapped(r)
               /\ netOut' = ensureRemaining(r.dst, PacketBufferSize(r.engine))
               /\ Retry(r.dst, PacketBufferSize(r.engine), "doWrap", "wrapOverflow")
               /\ UNCHANGED outWire
  BY DEF doWrap
<1>2. /\ WrapCases(engine, Flip(appOut), netOut, r) /\ r.engine.recs = engine.recs
      /\ r.status # "SSLException"
      /\ r.status = "OK" => ~(netOut.cap < PacketBufferSize(engine))
  BY <1>0, <1>1, RunningCalm, WrapCasesHold, WrapProperties, WrapQuiet DEF WrapEffect, Smooth
<1>3. GoodBuffer(r.src) /\ Readable(r.src) /\ GoodBuffer(r.dst)
  BY <1>0, <1>1, RunningCalm, WrapProperties, WrapBuffersGood
<1>4. /\ Compact(r.src).pos = Remaining(r.src) /\ Compact(r.src).cap = r.src.cap
      /\ r.status # "SSLException" => appOut' = Compact(r.src)
  BY <1>1, <1>3, CompactGood DEF Wrapped
<1>5. /\ Fragment(Flip(appOut)) = IF appOut.pos < AppSize THEN appOut.pos ELSE AppSize
      /\ appOut.pos \in Nat /\ appOut.cap \in Nat /\ netOut.cap \in Nat
      /\ AppSize \in Nat \ {0} /\ PacketSize \in Nat /\ InitPacketSize \in Nat
  BY <1>0, EngineAssumption DEF Fragment, GoodBuffer, ByteBuffers
<1>6. r.src = Skip(Flip(appOut), Fragment(Flip(appOut))) =>
          /\ Remaining(r.src) = appOut.pos - Fragment(Flip(appOut))
          /\ r.src.cap = appOut.cap
  <2>1. Fragment(Flip(appOut)) \in 0..Remaining(Flip(appOut))
    BY <1>0, <1>5
  <2> QED BY <1>0, <2>1, SkipGood
<1>7. appOut'.cap = appOut.cap
  BY <1>0, <1>2, <1>4, <1>6 DEF WrapCases
<1>8. CASE r.status = "BUFFER_OVERFLOW"
  <2>1. /\ Remaining(netOut) < PacketBufferSize(engine)
        /\ r.engine = engine /\ r.src = Flip(appOut) /\ r.dst = netOut
    BY <1>2, <1>8 DEF WrapCases
  <2>2. ~Handshaking(engine) /\ PacketBufferSize(engine) = PacketSize /\ netOut.cap < PacketSize
    BY <1>0, <1>5, <2>1, RunningCalm DEF PacketBufferSize
  <2>3. /\ netOut' = ensureRemaining(netOut, PacketSize)
        /\ Retry(netOut, PacketSize, "doWrap", "wrapOverflow")
    BY <1>1, <1>8, <2>1, <2>2
  <2>4. Fits(netOut, PacketSize) /\ netOut'.cap >= netOut.cap /\ netOut'.cap >= PacketSize
    BY <1>0, <1>5, <2>3, RunningCalm, EnsureRemainingEmpty
  <2>5. CallsOn("doWrap", "wrapOverflow") /\ call' = call
    BY <1>0, <2>3, <2>4 DEF Retry, CallsOn
  <2>6. appOut'.pos = appOut.pos /\ engine' = engine
    BY <1>0, <1>1, <1>4, <1>8, <2>1
  <2> QED BY <1>0, <1>1, <1>2, <1>7, <2>2, <2>4, <2>5, <2>6, RunningCalm
<1>9. CASE r.status = "OK"
  <2>1. netOut' = Compact(Skip(Flip(r.dst), Remaining(Flip(r.dst))))
        /\ checkHandshakeStatus(r.hs, <<"wrapRest">>)
    BY <1>0, <1>1, <1>9, RunningCalm DEF flush
  <2>2. netOut'.cap = netOut.cap
    BY <1>2, <2>1 DEF WrapCases, Compact, Skip, Flip
  <2>3. netOut'.cap >= netOut.cap
    BY <1>5, <2>2
  <2>4. CASE Handshaking(engine)
    <3>1. Script[engine.step + 1] = "NEED_WRAP"
      BY <1>0, <2>4, RunningCalm DEF Calm, Course, Asked, OnTop, doWrap, Top, Running
    <3>2. Advanced(engine, r.engine) /\ r.hs = StepStatus(r.engine) /\ r.src = Flip(appOut)
      BY <1>2, <1>9, <2>4, <3>1 DEF WrapCases
    <3>3. engine'.tx = engine.tx + RecLen
      BY <1>0, <1>1, <1>9, <2>4, <3>1, RunningCalm, WrapEmits
    <3> QED BY <1>0, <1>1, <1>2, <1>4, <1>7, <1>9, <2>1, <2>3, <2>4, <3>1, <3>2, <3>3, RunningCalm
            DEF Advanced
  <2>5. CASE ~Handshaking(engine)
    <3>1. /\ r.hs = "NOT_HANDSHAKING" /\ Carried(engine, r.engine)
          /\ \/ Fragment(Flip(appOut)) = 0 /\ r.src = Flip(appOut)
             \/ r.src = Skip(Flip(appOut), Fragment(Flip(appOut)))
      BY <1>2, <1>9, <2>5 DEF WrapCases
    <3>2. Remaining(r.src) = appOut.pos - Fragment(Flip(appOut))
      BY <1>0, <1>5, <1>6, <3>1
    <3>3. appOut'.pos = IF appOut.pos <= AppSize THEN 0 ELSE appOut.pos - AppSize
      BY <1>4, <1>5, <1>9, <3>2
    <3>4. Turns("wrapRest") /\ call' = call
      BY <1>0, <2>1, <3>1 DEF checkHandshakeStatus, Callees, Turns
    <3>5. netOut.cap >= PacketSize
      BY <1>2, <1>5, <1>9, <2>5 DEF PacketBufferSize
    <3>6. /\ engine'.in = "open" /\ engine'.out = "open" /\ engine'.step = engine.step
          /\ engine'.recs = engine.recs
      BY <1>0, <1>1, <1>2, <3>1, RunningCalm DEF Carried
    <3>7. ASSUME appOut.pos > 0 PROVE engine'.tx = engine.tx + RecLen
      <4>1. Fragment(Flip(appOut)) # 0
        BY <1>5, <3>7
      <4> QED BY <1>0, <1>1, <1>9, <2>5, <4>1, RunningCalm, WrapEmits
    <3> QED BY <1>7, <2>3, <2>5, <3>3, <3>4, <3>5, <3>6, <3>7
  <2> QED BY <2>4, <2>5
<1>10. r.status # "CLOSED"
  BY <1>0, <1>2, RunningCalm DEF WrapCases
<1> QED BY <1>1, <1>2, <1>8, <1>9, <1>10

(* A record that is due, and all there, is taken as soon as it fits.       *)
LEMMA UnwrapQuiet ==
    ASSUME NEW e \in Engines, e.in = "open", e.out = "open",
           Status(e) \notin {"NEED_WRAP", "NEED_TASK"},
           NEW src, RecLen <= Remaining(src), InSequence(e, src), NEW dst,
           NEW rec, rec.kind \in {"handshake", "app"}, Acceptable(e, rec),
           Remaining(src) \in Nat, NEW r \in Unwrap(e, src, dst, rec)
    PROVE  \/ /\ rec.kind = "handshake" /\ r.status = "OK" /\ r.dst = dst
              /\ r.engine.step = e.step + 1 /\ r.engine.recs = e.recs + 1
              /\ r.engine.in = "open" /\ r.engine.out = "open"
              /\ r.hs = StepStatus(r.engine)
           \/ /\ rec.kind = "app" /\ r.status = "BUFFER_OVERFLOW"
              /\ Remaining(dst) < rec.len /\ r.engine = e /\ r.dst = dst
           \/ /\ rec.kind = "app" /\ r.status = "OK" /\ r.hs = Status(e)
              /\ ~(Remaining(dst) < rec.len) /\ r.dst = Put(dst, Span(e.rxApp, rec.len))
              /\ r.engine.step = e.step /\ r.engine.recs = e.recs + 1
              /\ r.engine.in = "open" /\ r.engine.out = "open"
<1> DEFINE got == [e EXCEPT !.recs = @ + 1]
<1>1. /\ got \in Engines /\ got.step = e.step /\ got.recs = e.recs + 1
      /\ got.out = "open" /\ got.in = "open"
  BY DEF Engines
<1>2. r \in Consume(e, src, dst, rec)
  <2>1. ~(Remaining(src) < RecLen)
    BY EngineAssumption
  <2> QED BY <2>1 DEF Unwrap
<1>3. CASE rec.kind = "handshake"
  <2>1. r = Outcome("OK", StepStatus(Advance(got)), Advance(got), Skip(src, RecLen), dst)
    BY <1>2, <1>3 DEF Consume
  <2> HIDE DEF got
  <2>2. Advance(got).step = e.step + 1 /\ Advance(got).recs = e.recs + 1
        /\ Advance(got).in = "open" /\ Advance(got).out = "open"
    BY <1>1 DEF Advance, Engines
  <2> QED BY <1>3, <2>1, <2>2 DEF Outcome
<1>4. CASE rec.kind = "app" /\ Remaining(dst) < rec.len
  <2>1. r = Outcome("BUFFER_OVERFLOW", Status(e), e, src, dst)
    BY <1>2, <1>4 DEF Consume
  <2> QED BY <1>4, <2>1 DEF Outcome
<1>5. CASE rec.kind = "app" /\ ~(Remaining(dst) < rec.len)
  <2> DEFINE after == [got EXCEPT !.rxApp = @ + rec.len]
  <2>1. r = Outcome("OK", Status(e), after, Skip(src, RecLen), Put(dst, Span(e.rxApp, rec.len)))
    BY <1>2, <1>5 DEF Consume
  <2>2. /\ after.step = e.step /\ after.recs = e.recs + 1
        /\ after.in = "open" /\ after.out = "open"
    BY <1>1 DEF Engines
  <2> HIDE DEF after
  <2> QED BY <1>5, <2>1, <2>2 DEF Outcome
<1> QED BY <1>3, <1>4, <1>5

(* m whole records in less room than k of them are no more than k.         *)
LEMMA RecordsWithin ==
    ASSUME NEW m \in Nat, NEW k \in Nat, m * RecLen + RecLen <= k * RecLen
    PROVE  m < k
<1>1. RecLen \in Nat \ {0}
  BY EngineAssumption
<1>2. CASE k <= m
  <2>1. m - k \in Nat
    BY <1>2
  <2>2. (m - k) * RecLen \in Nat
    BY <1>1, <2>1
  <2>3. (m - k) * RecLen = m * RecLen - k * RecLen /\ m * RecLen \in Nat /\ k * RecLen \in Nat
    BY <1>1
  <2> QED BY <1>1, <2>2, <2>3
<1> QED BY <1>2

(* Where doUnwrap() has something to unwrap, the engine and the peer are   *)
(* agreed on what comes next.                                              *)
LEMMA NextIsDue ==
    ASSUME Smooth, Calm, OnTop("doUnwrap"),
           NEW n \in Nat, n % RecLen = 0, NextAt < n, n <= Arrived
    PROVE  /\ NextRecord \in Records /\ Acceptable(engine, NextRecord)
           /\ Status(engine) \notin {"NEED_WRAP", "NEED_TASK"}
           /\ Handshaking(engine) => /\ NextRecord.kind = "handshake"
                                     /\ Script[engine.step + 1] = "NEED_UNWRAP"
           /\ ~Handshaking(engine) => NextRecord.kind = "app" /\ NextRecord.len > 0
<1>0. stack # <<>> /\ NextRecord \in Records
  BY NextRecordType DEF OnTop, Calm, Safe
<1>1. /\ engine.step \in Nat /\ engine.step <= Len(Script) /\ peerStep \in Nat
      /\ peerStep <= Len(Script) /\ Len(Script) \in Nat /\ engine.recs \in Nat
      /\ Len(log) \in Nat
  <2>1. engine \in Engines /\ peerStep \in 0..Len(Script) /\ log \in Seq(Records)
    BY DEF Calm, Safe, TypeOK, TransportTypeOK
  <2>2. Len(Script) \in Nat
    BY EngineAssumption, LenProperties
  <2> QED BY <2>1, <2>2, EngineFields, LenProperties
<1>2. engine.recs < Len(log)
  <2>1. n - engine.recs * RecLen >= RecLen
    BY <1>1, WholeApart DEF NextAt
  <2>2. NextAt \in Nat /\ RecLen \in Nat /\ Len(log) * RecLen \in Nat
    BY <1>1, EngineAssumption, NextAtType DEF Calm, Safe
  <2>3. engine.recs * RecLen + RecLen <= Len(log) * RecLen
    BY <2>1, <2>2 DEF NextAt, Arrived
  <2> QED BY <1>1, <2>3, RecordsWithin
<1>3. NextRecord = log[engine.recs + 1] /\ engine.recs + 1 \in 1..Len(log)
  BY <1>1, <1>2 DEF NextRecord
<1>4. Flights(engine.step) \in Nat /\ Flights(peerStep) \in Nat /\ Flights(Len(Script)) \in Nat
      /\ Flights(peerStep) <= Flights(Len(Script))
  BY <1>1, FlightsGrow
<1>5. IF engine.recs + 1 <= Flights(peerStep) THEN NextRecord.kind = "handshake"
      ELSE NextRecord.kind = "app" /\ NextRecord.len > 0 /\ peerStep = Len(Script)
  BY <1>3 DEF Calm, PeerAgrees
<1>6. CASE Handshaking(engine)
  <2>1. Script[engine.step + 1] = "NEED_UNWRAP" /\ engine.recs = Flights(engine.step)
    BY <1>0, <1>6, RunningCalm DEF Calm, Course, Asked, EngineAgrees, OnTop, Running
  <2>2. Flights(engine.step + 1) = engine.recs + 1
    BY <1>1, <2>1, FlightsGrow
  <2>3. engine.step + 1 <= Len(Script)
    BY <1>1, <1>6 DEF Handshaking
  <2>4. engine.recs + 1 <= Flights(Len(Script))
    <3>1. engine.step + 1 \in Nat
      BY <1>1
    <3>2. Flights(engine.step + 1) <= Flights(Len(Script))
      BY <1>1, <2>3, <3>1, FlightsGrow
    <3> QED BY <2>2, <3>2
  <2>5. NextRecord.kind = "handshake"
    BY <1>5, <2>4
  <2>6. Status(engine) = "NEED_UNWRAP"
    BY <1>0, <1>6, <2>1, RunningCalm, ScriptAsks
  <2> QED BY <1>0, <1>6, <2>1, <2>5, <2>6 DEF Acceptable
<1>7. CASE ~Handshaking(engine)
  <2>1. engine.step = Len(Script) /\ engine.recs >= Flights(Len(Script))
    BY <1>1, <1>7 DEF Handshaking, Calm, Course, EngineAgrees
  <2>2. ~(engine.recs + 1 <= Flights(peerStep))
    BY <1>1, <1>4, <2>1
  <2>3. NextRecord.kind = "app" /\ NextRecord.len > 0
    BY <1>5, <2>2
  <2>4. Status(engine) = "NOT_HANDSHAKING"
    BY <1>0, <1>7, RunningCalm, ScriptAsks
  <2> QED BY <1>0, <1>7, <2>3, <2>4 DEF Acceptable
<1> QED BY <1>6, <1>7

(* doUnwrap() takes the record that is due, or makes room for it.          *)
UnwrapGoing ==
    /\ engine'.in = "open" /\ engine'.out = "open" /\ appIn'.cap >= appIn.cap
    /\ \/ /\ Handshaking(engine) /\ Script[engine.step + 1] = "NEED_UNWRAP"
          /\ engine'.step = engine.step + 1 /\ engine'.recs = engine.recs + 1
          /\ appIn' = appIn
          /\ checkHandshakeStatus(StepStatus(engine'), <<"ret">>)
       \/ /\ ~Handshaking(engine) /\ call' = call
          /\ \/ /\ engine' = engine /\ appIn'.pos = 0
                /\ appIn.cap < AppSize /\ appIn'.cap >= AppSize
                /\ CallsOn("doUnwrap", "unwrapOverflow")
             \/ /\ engine'.step = engine.step /\ engine'.recs = engine.recs + 1
                /\ appIn'.pos > 0 /\ appIn'.cap = appIn.cap /\ Turns("ret")

LEMMA UnwrappedGoes ==
    ASSUME Smooth, Calm, OnTop("doUnwrap"),
           NEW n \in Nat, n % RecLen = 0, NextAt < n, n <= Arrived,
           NEW b, GoodBuffer(b), Holds(b, NextAt, n),
           NEW r \in Unwrap(engine, Flip(b), appIn, NextRecord), Unwrapped(b, r)
    PROVE  UnwrapGoing
<1>0. /\ stack # <<>> /\ GoodBuffer(appIn) /\ appIn.pos = 0 /\ Remaining(appIn) = appIn.cap
      /\ Fillable(appIn) /\ appIn.cap \in Nat
      /\ AppSize \in Nat /\ NextAt \in Nat /\ RecLen \in Nat
  <2>1. stack # <<>> /\ appIn.pos = 0
    BY DEF OnTop, Calm, Course, Slim
  <2>2. Fillable(appIn) /\ appIn.cap \in Nat /\ TypeOK
    BY <2>1, RunningCalm
  <2> QED BY <2>1, <2>2, BuffersGood, NextAtType, EngineAssumption DEF Fillable, Remaining
<1>1. /\ NextRecord \in Records /\ Acceptable(engine, NextRecord)
      /\ Status(engine) \notin {"NEED_WRAP", "NEED_TASK"}
      /\ Handshaking(engine) => /\ NextRecord.kind = "handshake"
                                /\ Script[engine.step + 1] = "NEED_UNWRAP"
      /\ ~Handshaking(engine) => NextRecord.kind = "app" /\ NextRecord.len > 0
  BY NextIsDue
<1>2. b.mem = Span(NextAt, n - NextAt) /\ n - NextAt \in Nat /\ b.pos = n - NextAt
  <2>1. n - NextAt \in Nat
    BY <1>0
  <2>2. Len(Span(NextAt, n - NextAt)) = n - NextAt
    BY <1>0, <2>1, SpanProperties
  <2> QED BY <2>1, <2>2 DEF Holds, Fillable
<1>3. RecLen <= n - NextAt
  BY <1>0, RunningCalm, EngineFields, WholeApart DEF NextAt
<1>4. /\ Remaining(Flip(b)) = n - NextAt /\ Flip(b).pos = 0 /\ Flip(b).mem = b.mem
  BY <1>2, FlipGood DEF Holds
<1>5. InSequence(engine, Flip(b))
  <2>1. RecLen \in 0..(n - NextAt)
    BY <1>0, <1>2, <1>3
  <2>2. SubSeq(Span(NextAt, n - NextAt), 1, RecLen) = Span(NextAt, RecLen)
    BY <1>0, <1>2, <2>1, SpanTake
  <2>3. Flip(b).pos + 1 = 1 /\ Flip(b).pos + RecLen = RecLen
    BY <1>0, <1>4
  <2> QED BY <1>2, <1>4, <2>2, <2>3 DEF InSequence, NextAt
<1>6. \/ /\ NextRecord.kind = "handshake" /\ r.status = "OK" /\ r.dst = appIn
         /\ r.engine.step = engine.step + 1 /\ r.engine.recs = engine.recs + 1
         /\ r.engine.in = "open" /\ r.engine.out = "open"
         /\ r.hs = StepStatus(r.engine)
      \/ /\ NextRecord.kind = "app" /\ r.status = "BUFFER_OVERFLOW"
         /\ Remaining(appIn) < NextRecord.len /\ r.engine = engine /\ r.dst = appIn
      \/ /\ NextRecord.kind = "app" /\ r.status = "OK" /\ r.hs = Status(engine)
         /\ ~(Remaining(appIn) < NextRecord.len)
         /\ r.dst = Put(appIn, Span(engine.rxApp, NextRecord.len))
         /\ r.engine.step = engine.step /\ r.engine.recs = engine.recs + 1
         /\ r.engine.in = "open" /\ r.engine.out = "open"
  <2>1. NextRecord.kind \in {"handshake", "app"}
    BY <1>1
  <2> QED BY <1>0, <1>1, <1>2, <1>3, <1>4, <1>5, <2>1, RunningCalm, UnwrapQuiet
<1>7. engine' = r.engine
  BY DEF Unwrapped
<1>8. CASE NextRecord.kind = "handshake"
  <2>1. /\ Handshaking(engine) /\ r.status = "OK"
    BY <1>1, <1>6, <1>8
  <2>2. appIn' = appIn /\ checkHandshakeStatus(StepStatus(engine'), <<"ret">>)
    BY <1>6, <1>7, <1>8, <2>1 DEF Unwrapped
  <2> QED BY <1>0, <1>1, <1>6, <1>7, <1>8, <2>1, <2>2 DEF UnwrapGoing
<1>9. CASE NextRecord.kind = "app" /\ r.status = "BUFFER_OVERFLOW"
  <2>1. ~Handshaking(engine) /\ appIn.cap < AppSize /\ r.dst = appIn /\ r.engine = engine
    <3>1. NextRecord.len \in 0..AppSize
      BY <1>1 DEF Records
    <3> QED BY <1>0, <1>1, <1>6, <1>9, <3>1
  <2>2. /\ appIn' = ensureRemaining(appIn, AppSize)
        /\ Retry(appIn, AppSize, "doUnwrap", "unwrapOverflow")
    BY <1>9, <2>1 DEF Unwrapped, ApplicationBufferSize
  <2>3. /\ Fits(appIn, AppSize) /\ appIn'.cap >= appIn.cap /\ appIn'.cap >= AppSize
        /\ appIn'.pos = 0
    BY <1>0, <2>2, EnsureRemainingEmpty
  <2>4. CallsOn("doUnwrap", "unwrapOverflow") /\ call' = call
    BY <1>0, <2>2, <2>3 DEF Retry, CallsOn
  <2> QED BY <1>0, <1>7, <2>1, <2>3, <2>4, RunningCalm DEF UnwrapGoing
<1>10. CASE NextRecord.kind = "app" /\ r.status = "OK"
  <2>1. /\ ~Handshaking(engine) /\ r.hs = Status(engine)
        /\ ~(Remaining(appIn) < NextRecord.len)
        /\ r.dst = Put(appIn, Span(engine.rxApp, NextRecord.len))
        /\ r.engine.step = engine.step /\ r.engine.recs = engine.recs + 1
        /\ r.engine.in = "open" /\ r.engine.out = "open"
    BY <1>1, <1>6, <1>10
  <2>2. appIn' = r.dst /\ checkHandshakeStatus(r.hs, <<"ret">>)
    BY <1>10 DEF Unwrapped
  <2>3. Status(engine) = "NOT_HANDSHAKING"
    BY <1>0, <2>1, RunningCalm, ScriptAsks
  <2>4. Turns("ret") /\ call' = call
    BY <1>0, <2>1, <2>2, <2>3 DEF checkHandshakeStatus, Callees, Turns
  <2>5. appIn'.pos > 0 /\ appIn'.cap = appIn.cap
    <3>1. NextRecord.len \in Nat /\ NextRecord.len > 0 /\ engine.rxApp \in Nat
      <4>1. NextRecord.len \in 0..AppSize
        BY <1>1 DEF Records
      <4> QED BY <1>0, <1>1, <1>10, <2>1, <4>1, RunningCalm, EngineFields
    <3>2. Len(Span(engine.rxApp, NextRecord.len)) = NextRecord.len
      BY <3>1, SpanProperties
    <3> QED BY <1>0, <2>1, <2>2, <3>1, <3>2 DEF Put
  <2> QED BY <1>0, <1>7, <2>1, <2>4, <2>5 DEF UnwrapGoing
<1> QED BY <1>6, <1>8, <1>9, <1>10

LEMMA UnwrapGoes ==
    ASSUME Smooth, Calm, UnwrapBuffered \/ ReadAndUnwrap
    PROVE  UnwrapGoing /\ Whole'
<1>0. /\ OnTop("doUnwrap") /\ stack # <<>> /\ TypeOK /\ GoodBuffer(netIn)
      /\ RecLen \in Nat \ {0} /\ NextAt \in Nat /\ readIn \in Nat
      /\ readIn % RecLen = 0 /\ readIn <= Arrived
  <2>1. OnTop("doUnwrap") /\ stack # <<>>
    BY DEF UnwrapBuffered, ReadAndUnwrap, Top, OnTop
  <2> QED BY <2>1, RunningCalm, BuffersGood, NextAtType, EngineAssumption DEF Calm, Whole
<1>1. /\ netIn.pos = readIn - NextAt /\ Holds(netIn, NextAt, readIn)
      /\ netIn.pos = 0 \/ netIn.pos >= RecLen
  BY <1>0, RunningCalm, WholeRecordsOnly
<1>2. CASE UnwrapBuffered
  <2>1. NextAt < readIn
    BY <1>0, <1>1, <1>2 DEF UnwrapBuffered, MustRead
  <2>2. UnwrapGoing
    BY <1>0, <1>1, <1>2, <2>1, UnwrappedGoes DEF UnwrapBuffered
  <2> QED BY <1>0, <1>2, <2>2 DEF UnwrapBuffered, Whole, Arrived, peerVars, wireVars
<1>3. CASE ReadAndUnwrap
  <2>1. PICK count \in ReadCounts(netIn.lim) :
           /\ readIn' = readIn + count
           /\ \E r \in Unwrap(engine, Flip(Put(netIn, Span(readIn, count))), appIn, NextRecord) :
                 Unwrapped(Put(netIn, Span(readIn, count)), r)
    BY <1>3 DEF ReadAndUnwrap
  <2>2. /\ netIn.pos = 0 /\ count \in Nat \ {0} /\ count <= Remaining(netIn)
        /\ readIn + count <= Arrived /\ (readIn + count) % RecLen = 0
    <3>1. netIn.pos = 0 /\ netIn.lim \in Nat
      BY <1>0, <1>3 DEF ReadAndUnwrap, MustRead, GoodBuffer, ByteBuffers
    <3>2. /\ count \in 1..netIn.lim /\ readIn + count <= Arrived
          /\ Fragmented \/ (readIn + count) % RecLen = 0
      BY <2>1 DEF ReadCounts
    <3> QED BY <3>1, <3>2 DEF Remaining, Smooth
  <2> DEFINE b == Put(netIn, Span(readIn, count))
  <2>3. GoodBuffer(b)
    <3>1. Span(readIn, count) \in Seq(Nat) /\ Len(Span(readIn, count)) = count
      BY <1>0, <2>2, SpanProperties
    <3> QED BY <1>0, <2>2, <3>1, PutGood
  <2>4. Holds(b, NextAt, readIn + count)
    BY <1>0, <1>1, <2>2, ReadAppends
  <2>5. readIn + count \in Nat /\ NextAt < readIn + count
    BY <1>0, <1>1, <2>2
  <2> HIDE DEF b
  <2>6. \E r \in Unwrap(engine, Flip(b), appIn, NextRecord) : Unwrapped(b, r)
    BY <2>1 DEF b
  <2>7. UnwrapGoing
    BY <1>0, <2>2, <2>3, <2>4, <2>5, <2>6, UnwrappedGoes
  <2>8. Arrived' = Arrived
    BY <1>3 DEF ReadAndUnwrap, Arrived, peerVars
  <2> QED BY <2>1, <2>2, <2>7, <2>8 DEF Whole
<1> QED BY <1>2, <1>3

(* Only the functions that drive the engine run during the handshake, and  *)
(* no Read waits then.                                                     *)
LEMMA HandshakeAlone ==
    ASSUME Calm, stack # <<>>, Handshaking(engine)
    PROVE  /\ Head(stack) \in {"doWrap", "doUnwrap"}
           /\ appOut.pos = 0 /\ appIn.pos = 0
           /\ \A i \in 2..Len(stack) : stack[i] # "receiveRest"
<1>1. call \in Running /\ engine.in = "open" /\ engine.out = "open" /\ TypeOK
  BY RunningCalm
<1>2. call = "authenticate"
  BY <1>1 DEF Calm, Safe, Duties, HandshakeDuty, Settled
<1>3. ~Receives(stack)
  BY <1>2 DEF Calm, Safe, Control
<1>4. ASSUME NEW i \in 2..Len(stack), stack[i] = "receiveRest" PROVE FALSE
  <2>1. stack \in Seq(Frames) /\ i \in 1..Len(stack)
    BY <1>1 DEF TypeOK
  <2>2. stack[i] \in Range(stack)
    BY <2>1, RangeEquality DEF Range
  <2> QED BY <1>3, <1>4, <2>2 DEF Receives, ReceiveFrames
<1> QED BY <1>1, <1>4 DEF Calm, Course, Asked, Slim, OnTop, Running

(* What the function on top can afford.                                    *)
LEMMA RoomNow ==
    ASSUME Calm, stack # <<>>
    PROVE  /\ Affords(Head(stack), engine, Short(netOut, PacketSize), Short(appIn, AppSize),
                      appOut.pos, Room(stack))
           /\ Room(stack) \in Int /\ Room(stack) >= 1
           /\ engine.step \in Nat /\ Len(Script) \in Nat
           /\ PacketSize \in Nat /\ AppSize \in Nat \ {0}
<1>1. TypeOK /\ engine \in Engines
  BY RunningCalm
<1>2. Room(stack) \in Int
  <2>1. Len(stack) \in Nat /\ StackLimit \in Nat
    BY <1>1, ShapeOf, TlsStreamAssumption
  <2> QED BY <2>1 DEF Room
<1>3. engine.step \in Nat /\ Len(Script) \in Nat
  <2>1. Len(Script) \in Nat
    BY EngineAssumption, LenProperties
  <2> QED BY <1>1, <2>1, EngineFields
<1> QED BY <1>2, <1>3, EngineAssumption DEF Calm, Course, Deep, Affords

(* After a step of the handshake the function that the next one needs is   *)
(* called, or the handshake is done.                                       *)
LEMMA HandshakeCourse ==
    ASSUME Smooth, Calm, TypeOK', stack # <<>>, Handshaking(engine),
           engine'.in = "open", engine'.out = "open", engine'.step = engine.step + 1,
           EngineAgrees', appOut'.pos = appOut.pos, appOut'.cap = appOut.cap,
           netOut'.cap >= netOut.cap, appIn'.pos = appIn.pos, UNCHANGED <<fin, reset>>,
           NEW w \in {"wrapRest", "ret"}, checkHandshakeStatus(StepStatus(engine'), <<w>>)
    PROVE  Course'
<1>0. /\ TypeOK /\ call \in Running /\ engine' \in Engines /\ w \in Frames /\ w \in Suspends
      /\ appOut'.pos = 0 /\ appIn'.pos = 0 /\ ~fin' /\ ~reset'
  BY RunningCalm, HandshakeAlone DEF TypeOK, Frames, Resting, Suspends
<1>1. /\ call' = call
      /\ Handshaking(engine') =>
            \/ CallsOn("doWrap", w) /\ Script[engine'.step + 1] = "NEED_WRAP"
            \/ CallsOn("doUnwrap", w) /\ Script[engine'.step + 1] = "NEED_UNWRAP"
      /\ ~Handshaking(engine') => Turns(w)
  BY <1>0, Landing
<1>2. Peace' /\ call' # "new"
  BY <1>0, <1>1 DEF Peace, Running
<1>3. netOut'.cap >= InitPacketSize /\ appOut'.cap = AppOutSize
  <2>1. netOut'.cap \in Nat /\ netOut.cap \in Nat /\ InitPacketSize \in Nat
    BY <1>0, EngineAssumption DEF TypeOK, ByteBuffers
  <2> QED BY <2>1, RunningCalm
<1>4. Slim'
  BY <1>0, <1>3 DEF Slim
<1>5. Room(stack) >= Len(Script) - engine.step /\ Room(stack) \in Int /\ Room(stack) >= 1
  BY RoomNow, HandshakeAlone DEF Affords, WrapAffords
<1>6. CASE Handshaking(engine')
  <2>1. PICK f \in {"doWrap", "doUnwrap"} :
           /\ CallsOn(f, w)
           /\ Script[engine'.step + 1] = IF f = "doWrap" THEN "NEED_WRAP" ELSE "NEED_UNWRAP"
    BY <1>1, <1>6
  <2>2. stack' # <<>> /\ Head(stack') = f /\ Room(stack') = Room(stack) - 1
    <3>1. f \in Frames
      BY <2>1 DEF Frames
    <3> QED BY <1>0, <2>1, <3>1, RoomNext
  <2>3. Asked'
    BY <2>1, <2>2 DEF Asked, OnTop
  <2>4. Waits'
    <3>1. Waits
      BY DEF Calm, Course
    <3> QED BY <1>0, <2>1, <3>1, HandshakeAlone, WaitingCalls DEF Waits
  <2>5. Deep'
    <3>1. Room(stack') >= Len(Script) - engine'.step /\ Room(stack') >= 1
      <4>1. engine'.step < Len(Script)
        BY <1>6 DEF Handshaking
      <4> QED BY <1>5, <2>2, <4>1, RoomNow
    <3> QED BY <1>6, <2>1, <2>2, <3>1 DEF Deep, Affords, WrapAffords
  <2> QED BY <1>2, <1>4, <2>3, <2>4, <2>5 DEF Course
<1>7. CASE ~Handshaking(engine')
  <2>1. stack' # <<>> /\ Head(stack') = w /\ Room(stack') = Room(stack)
    BY <1>0, <1>1, <1>7, RoomNext
  <2>2. Asked'
    BY <1>7 DEF Asked
  <2>3. Waits'
    <3>1. Waits
      BY DEF Calm, Course
    <3> QED BY <1>0, <1>1, <1>7, <3>1, HandshakeAlone, WaitingTurns DEF Waits
  <2>4. Deep'
    BY <1>0, <1>5, <2>1 DEF Deep, Affords
  <2> QED BY <1>2, <1>4, <2>2, <2>3, <2>4 DEF Course
<1> QED BY <1>6, <1>7

LEMMA ShortIs ==
    ASSUME NEW b, NEW c, NEW n, b.cap \in Nat, c.cap \in Nat, n \in Nat, c.cap >= b.cap
    PROVE  /\ Short(b, n) \in {0, 1} /\ Short(c, n) \in {0, 1} /\ Short(c, n) <= Short(b, n)
           /\ b.cap < n => Short(b, n) = 1
           /\ c.cap >= n => Short(c, n) = 0
BY DEF Short

LEMMA doWrapCourse == Smooth /\ Calm /\ TypeOK' /\ doWrap => Course'
<1> SUFFICES ASSUME Smooth, Calm, TypeOK', doWrap PROVE Course'
  OBVIOUS
<1>0. /\ stack # <<>> /\ Head(stack) = "doWrap"
      /\ UNCHANGED <<fin, reset, appIn>> /\ TypeOK /\ Waits /\ EngineAgrees
      /\ engine.in = "open" /\ engine.out = "open" /\ call \in Running
      /\ appOut.cap = AppOutSize /\ appOut.pos \in Nat /\ appIn.cap \in Nat
      /\ netOut.cap \in Nat /\ netOut'.cap \in Nat
      /\ netOut.cap >= InitPacketSize /\ InitPacketSize \in Nat
  <2>1. stack # <<>> /\ Head(stack) = "doWrap" /\ UNCHANGED <<fin, reset, appIn>>
    BY DEF doWrap, Top, peerVars
  <2> QED BY <2>1, RunningCalm, EngineAssumption DEF TypeOK, ByteBuffers, Calm, Course
<1>1. /\ engine'.in = "open" /\ engine'.out = "open" /\ engine'.recs = engine.recs
      /\ appOut'.cap = appOut.cap /\ netOut'.cap >= netOut.cap
  BY WrapGoes
<1>2. CASE Handshaking(engine)
  <2>1. /\ Script[engine.step + 1] = "NEED_WRAP" /\ engine'.step = engine.step + 1
        /\ appOut'.pos = appOut.pos
        /\ checkHandshakeStatus(StepStatus(engine'), <<"wrapRest">>)
    BY <1>2, WrapGoes
  <2>2. EngineAgrees'
    <3>1. engine.recs = Flights(engine.step)
      BY <1>0, <1>2 DEF EngineAgrees
    <3>2. Flights(engine.step + 1) = Flights(engine.step) /\ Flights(engine.step) \in Nat
      BY <1>0, <2>1, RoomNow, FlightsGrow
    <3> QED BY <1>1, <2>1, <3>1, <3>2 DEF EngineAgrees
  <2> QED BY <1>0, <1>1, <1>2, <2>1, <2>2, HandshakeCourse
<1>3. CASE ~Handshaking(engine)
  <2> DEFINE k == Room(stack)
             o == Short(netOut, PacketSize)
             q == Short(netOut', PacketSize)
  <2>1. call' = call /\ engine'.step = engine.step /\ ~Handshaking(engine')
    BY <1>3, WrapGoes DEF Handshaking
  <2>2. Peace' /\ EngineAgrees' /\ Asked'
    BY <1>0, <1>1, <1>3, <2>1 DEF Calm, Course, Peace, EngineAgrees, Asked
  <2>3. netOut'.cap >= InitPacketSize
    BY <1>0, <1>1
  <2>4. /\ k \in Int /\ k >= 1 + o /\ appOut.pos <= (k - o) * AppSize
        /\ AppSize \in Nat \ {0} /\ PacketSize \in Nat
    BY <1>0, <1>3, RoomNow DEF Affords, WrapAffords
  <2>5. /\ o \in {0, 1} /\ q \in {0, 1} /\ q <= o
        /\ netOut.cap < PacketSize => o = 1
        /\ netOut'.cap >= PacketSize => q = 0
    BY <1>0, <1>1, <2>4, ShortIs
  <2>6. \A i \in 2..Len(stack) : stack[i] = "receiveRest" => appIn.pos > 0
    BY <1>0 DEF Waits, Waiting
  <2>7. CASE /\ appOut'.pos = appOut.pos
             /\ netOut.cap < PacketSize /\ netOut'.cap >= PacketSize
             /\ CallsOn("doWrap", "wrapOverflow")
    <3>1. stack' # <<>> /\ Head(stack') = "doWrap" /\ Room(stack') = k - 1
      BY <1>0, <2>7, RoomNext DEF Frames, Resting
    <3>2. Waits'
      BY <1>0, <2>6, <2>7, WaitingCalls DEF Waits, Suspends
    <3>3. Slim'
      BY <1>0, <1>1, <2>1, <2>3, <3>1 DEF Slim, OnTop
    <3>4. Deep'
      <4>1. k - 1 >= 1 + q /\ (k - 1) - q = k - o
        BY <2>4, <2>5, <2>7
      <4> HIDE DEF k, o, q
      <4>2. WrapAffords(engine', q, appOut'.pos, k - 1)
        BY <2>1, <2>4, <2>7, <4>1 DEF WrapAffords
      <4>3. Affords("doWrap", engine', q, Short(appIn', AppSize), appOut'.pos, k - 1)
        BY <2>4, <2>5, <4>1, <4>2 DEF Affords
      <4> QED BY <3>1, <4>3 DEF Deep, q
    <3> QED BY <2>2, <3>2, <3>3, <3>4 DEF Course
  <2>8. CASE /\ netOut.cap >= PacketSize
             /\ appOut'.pos = IF appOut.pos <= AppSize THEN 0 ELSE appOut.pos - AppSize
             /\ Turns("wrapRest")
    <3>1. stack' # <<>> /\ Head(stack') = "wrapRest" /\ Room(stack') = k
      BY <1>0, <2>8, RoomNext DEF Frames, Resting
    <3>2. Waits'
      <4>1. appOut.pos = 0 => appOut'.pos = 0
        BY <1>0, <2>4, <2>8
      <4> QED BY <1>0, <2>6, <2>8, <4>1, WaitingTurns DEF Waits
    <3>3. Slim'
      BY <1>0, <1>1, <2>1, <2>3, <3>1 DEF Slim, OnTop
    <3>4. Deep'
      <4>1. o = 0 /\ q = 0
        BY <1>0, <2>4, <2>5, <2>8 DEF Short
      <4>2. ASSUME appOut'.pos > 0 PROVE WrapAffords(engine', q, appOut'.pos, k - 1)
        <5>1. appOut'.pos = appOut.pos - AppSize /\ appOut.pos > AppSize
          BY <1>0, <2>4, <2>8, <4>2
        <5> HIDE DEF k, o, q
        <5>2. k - 1 \in Int /\ (k - 1) * AppSize = k * AppSize - AppSize
          BY <2>4
        <5>3. appOut'.pos <= (k - 1) * AppSize
          BY <1>0, <2>4, <4>1, <5>1, <5>2
        <5>4. k # 1
          <6>1. 1 * AppSize = AppSize
            BY <2>4
          <6> QED BY <1>0, <2>4, <4>1, <5>1, <6>1
        <5> QED BY <2>1, <2>4, <4>1, <5>2, <5>3, <5>4 DEF WrapAffords
      <4> HIDE DEF k, o, q
      <4>3. Affords("wrapRest", engine', q, Short(appIn', AppSize), appOut'.pos, k)
        BY <2>1, <2>4, <4>1, <4>2 DEF Affords
      <4> QED BY <3>1, <4>3 DEF Deep, q, k
    <3> QED BY <2>2, <3>2, <3>3, <3>4 DEF Course
  <2> QED BY <1>3, <2>7, <2>8, WrapGoes
<1> QED BY <1>2, <1>3

LEMMA doUnwrapCourse ==
    Smooth /\ Calm /\ TypeOK' /\ (UnwrapBuffered \/ ReadAndUnwrap) => Course'
<1> SUFFICES ASSUME Smooth, Calm, TypeOK', UnwrapBuffered \/ ReadAndUnwrap PROVE Course'
  OBVIOUS
<1>0. /\ stack # <<>> /\ Head(stack) = "doUnwrap" /\ OnTop("doUnwrap")
      /\ UNCHANGED <<fin, reset, appOut, netOut>> /\ TypeOK /\ Waits /\ EngineAgrees
      /\ engine.in = "open" /\ engine.out = "open" /\ call \in Running
      /\ appIn.cap \in Nat /\ appIn'.cap \in Nat /\ netOut.cap \in Nat
  <2>1. /\ stack # <<>> /\ Head(stack) = "doUnwrap" /\ OnTop("doUnwrap")
        /\ UNCHANGED <<fin, reset, appOut, netOut>>
    BY DEF UnwrapBuffered, ReadAndUnwrap, Top, OnTop, peerVars
  <2> QED BY <2>1, RunningCalm DEF TypeOK, ByteBuffers, Calm, Course
<1>1. UnwrapGoing
  BY UnwrapGoes
<1>2. CASE Handshaking(engine)
  <2>1. /\ Script[engine.step + 1] = "NEED_UNWRAP" /\ engine'.step = engine.step + 1
        /\ engine'.recs = engine.recs + 1 /\ appIn' = appIn
        /\ checkHandshakeStatus(StepStatus(engine'), <<"ret">>)
    BY <1>1, <1>2 DEF UnwrapGoing
  <2>2. EngineAgrees'
    <3>1. engine.recs = Flights(engine.step)
      BY <1>0, <1>2 DEF EngineAgrees
    <3>2. Flights(engine.step + 1) = Flights(engine.step) + 1 /\ Flights(engine.step) \in Nat
      BY <1>0, <2>1, RoomNow, FlightsGrow
    <3> QED BY <1>1, <2>1, <3>1, <3>2 DEF EngineAgrees
  <2>3. netOut'.cap >= netOut.cap
    BY <1>0
  <2> QED BY <1>0, <1>1, <1>2, <2>1, <2>2, <2>3, HandshakeCourse DEF UnwrapGoing
<1>3. CASE ~Handshaking(engine)
  <2> DEFINE k == Room(stack)
             a == Short(appIn, AppSize)
             b == Short(appIn', AppSize)
  <2>1. /\ call' = call /\ engine'.step = engine.step /\ ~Handshaking(engine')
        /\ engine'.in = "open" /\ engine'.out = "open" /\ appIn'.cap >= appIn.cap
    BY <1>1, <1>3 DEF UnwrapGoing, Handshaking
  <2>2. Peace' /\ Asked'
    BY <1>0, <2>1 DEF Calm, Course, Peace, Asked
  <2>3. EngineAgrees'
    <3>1. engine'.recs = engine.recs \/ engine'.recs = engine.recs + 1
      BY <1>1, <1>3 DEF UnwrapGoing
    <3>2. engine.recs \in Nat /\ Flights(engine.step) \in Nat
      BY <1>0, RunningCalm, EngineFields, RoomNow, FlightsGrow
    <3> QED BY <1>0, <2>1, <3>1, <3>2 DEF EngineAgrees
  <2>4. k \in Int /\ k >= 1 + a /\ AppSize \in Nat
    BY <1>0, <1>3, RoomNow DEF Affords
  <2>5. /\ a \in {0, 1} /\ b \in {0, 1} /\ b <= a
        /\ appIn.cap < AppSize => a = 1
        /\ appIn'.cap >= AppSize => b = 0
    BY <1>0, <2>1, <2>4, ShortIs
  <2>6. Slim' <=> (OnTop("doUnwrap")' => appIn'.pos = 0)
    BY <1>0, <2>1 DEF Slim, Calm, Course, Running
  <2>7. CASE /\ appIn'.pos = 0 /\ appIn.cap < AppSize /\ appIn'.cap >= AppSize
             /\ CallsOn("doUnwrap", "unwrapOverflow")
    <3>1. stack' # <<>> /\ Head(stack') = "doUnwrap" /\ Room(stack') = k - 1
      BY <1>0, <2>7, RoomNext DEF Frames, Resting
    <3>2. Waits'
      BY <1>0, <2>7, WaitingCalls DEF Waits, Suspends
    <3>3. Slim'
      BY <2>6, <2>7
    <3>4. Deep'
      <4> HIDE DEF k, a, b
      <4>1. Affords("doUnwrap", engine', Short(netOut', PacketSize), b, appOut'.pos, k - 1)
        BY <2>1, <2>4, <2>5, <2>7 DEF Affords
      <4> QED BY <3>1, <4>1 DEF Deep, b
    <3> QED BY <2>2, <2>3, <3>2, <3>3, <3>4 DEF Course
  <2>8. CASE appIn'.pos > 0 /\ Turns("ret")
    <3>1. stack' # <<>> /\ Head(stack') = "ret" /\ Room(stack') = k
      BY <1>0, <2>8, RoomNext DEF Frames, Resting
    <3>2. Waits'
      BY <1>0, <2>8, WaitingTurns DEF Waits
    <3>3. Slim'
      BY <2>6, <3>1 DEF OnTop
    <3>4. Deep'
      <4> HIDE DEF k, a, b
      <4>1. k >= 1
        BY <2>4, <2>5
      <4> QED BY <3>1, <4>1 DEF Deep, Affords
    <3> QED BY <2>2, <2>3, <3>2, <3>3, <3>4 DEF Course
  <2> QED BY <1>1, <1>3, <2>7, <2>8 DEF UnwrapGoing
<1> QED BY <1>2, <1>3

(* Outside the handshake a step that leaves the engine alone keeps most of *)
(* the course.                                                             *)
LEMMA CourseKept ==
    ASSUME Calm, ~Handshaking(engine), UNCHANGED <<engine, fin, reset>>,
           call' \notin {"new", "threw", "aborted", "crashed"},
           netOut'.cap >= InitPacketSize, appOut'.cap = AppOutSize,
           OnTop("doUnwrap")' => appIn'.pos = 0, Waits', Deep'
    PROVE  Course'
BY DEF Calm, Course, Peace, EngineAgrees, Asked, Slim

(* The other functions go on with what is there.                           *)
LEMMA OthersCourse ==
    Smooth /\ EnoughStack /\ Calm /\ TypeOK' /\ (ReadStep \/ ReadAgain \/ WrapRest \/ Return)
        => Course'
<1> SUFFICES ASSUME Smooth, EnoughStack, Calm, TypeOK',
                    ReadStep \/ ReadAgain \/ WrapRest \/ Return
             PROVE  Course'
  OBVIOUS
<1>0. /\ stack # <<>> /\ Head(stack) \in {"receive", "receiveRest", "wrapRest"} \cup Resting
      /\ UNCHANGED <<engine, fin, reset, netOut, appOut>>
  BY DEF ReadStep, ReadAgain, WrapRest, Return, Top, peerVars, streamVars
<1>1. /\ TypeOK /\ call \in Running /\ ~Handshaking(engine)
      /\ netOut'.cap >= InitPacketSize /\ appOut'.cap = AppOutSize
      /\ appIn.pos \in Nat /\ appOut.pos \in Nat /\ Waits
  BY <1>0, RunningCalm, HandshakeAlone DEF Resting, Calm, Course
<1>2. /\ Room(stack) \in Int /\ Room(stack) >= 1 /\ AppSize \in Nat
      /\ Affords(Head(stack), engine, Short(netOut, PacketSize), Short(appIn, AppSize),
                 appOut.pos, Room(stack))
  BY <1>0, RoomNow
<1>3. \A i \in 2..Len(stack) : stack[i] = "receiveRest" => appIn.pos > 0
  BY <1>0, <1>1 DEF Waits, Waiting, Resting
<1>4. Len(stack) = 1 => Room(stack) = StackLimit /\ StackLimit >= 3 /\ StackLimit \in Nat
  BY TlsStreamAssumption DEF Room, EnoughStack
<1>5. CASE ReadStep /\ appIn.pos > 0
  <2>1. /\ Head(stack) = "receive" /\ Turns("ret") /\ call' = call
    <3>1. Remaining(Flip(appIn)) = appIn.pos
      BY <1>1, BuffersGood, FlipGood
    <3> QED BY <1>0, <1>5, <3>1 DEF ReadStep, Top, Turns
  <2>2. stack' # <<>> /\ Head(stack') = "ret" /\ Room(stack') = Room(stack)
    BY <1>0, <1>1, <2>1, RoomNext DEF Frames, Resting
  <2>3. \A i \in 2..Len(stack) : stack[i] # "receiveRest"
    <3>1. stack[1] = "receive" /\ Len(stack) \in Nat /\ Len(stack) > 0
      BY <1>0, <1>1, <2>1, ShapeOf
    <3>2. \A i \in 2..Len(stack) : 1 \in 1..Len(stack) /\ i \in 1..Len(stack) /\ 1 < i
      BY <3>1
    <3>3. \A i, j \in 1..Len(stack) : i < j /\ stack[i] \in ReceiveFrames => stack[j] = "ret"
      BY DEF Calm, Safe, Control, ReceiveLow
    <3>4. \A i \in 2..Len(stack) : stack[i] = "ret"
      BY <3>1, <3>2, <3>3 DEF ReceiveFrames
    <3> QED BY <3>4
  <2>4. Waits'
    BY <1>0, <1>1, <2>1, <2>3, WaitingTurns DEF Waits
  <2>5. Deep'
    BY <1>2, <2>2 DEF Deep, Affords
  <2> QED BY <1>0, <1>1, <2>1, <2>2, <2>4, <2>5, CourseKept DEF OnTop, Running
<1>6. CASE ReadStep /\ appIn.pos = 0
  <2>1. /\ Head(stack) = "receive" /\ CallsOn("doUnwrap", "receiveRest") /\ call' = call
        /\ appIn' = Compact(Flip(appIn))
    <3>1. Remaining(Flip(appIn)) = appIn.pos
      BY <1>1, BuffersGood, FlipGood
    <3> QED BY <1>0, <1>6, <3>1 DEF ReadStep, Top, CallsOn
  <2>2. appIn'.pos = 0 /\ appIn'.cap = appIn.cap
    BY <1>1, <1>6, <2>1, BuffersGood, FlipGood, CompactGood
  <2>3. stack' # <<>> /\ Head(stack') = "doUnwrap" /\ Room(stack') = Room(stack) - 1
    BY <1>0, <1>1, <2>1, RoomNext DEF Frames, Resting
  <2>4. Len(stack) = 1
    BY <1>0, <1>1, <1>6, <2>1 DEF Waits, Waiting
  <2>5. Waits'
    BY <1>0, <1>1, <2>1, <2>4, WaitingCalls DEF Waits, Suspends
  <2>6. Deep'
    <3>1. Short(appIn', AppSize) \in {0, 1}
      BY DEF Short
    <3>2. Room(stack') >= 1 + Short(appIn', AppSize)
      BY <1>4, <2>3, <2>4, <3>1
    <3>3. Room(stack') >= 1
      BY <1>4, <2>3, <2>4
    <3> QED BY <1>0, <1>1, <2>3, <3>2, <3>3 DEF Deep, Affords
  <2> QED BY <1>0, <1>1, <2>1, <2>2, <2>5, <2>6, CourseKept DEF Running
<1>7. CASE ReadAgain
  <2>1. /\ Head(stack) = "receiveRest" /\ CallsOn("receive", "ret") /\ call' = call
        /\ appIn' = appIn
    BY <1>0, <1>7 DEF ReadAgain, Top, CallsOn, streamVars, callerVars
  <2>2. stack' # <<>> /\ Head(stack') = "receive" /\ Room(stack') = Room(stack) - 1
    BY <1>0, <1>1, <2>1, RoomNext DEF Frames, Resting
  <2>3. Len(stack) = 1 /\ appIn.pos > 0
    BY <1>0, <1>1, <2>1 DEF Waits, Waiting
  <2>4. Waits'
    BY <1>0, <1>1, <2>1, <2>3, WaitingCalls DEF Waits, Suspends
  <2>5. Deep'
    <3>1. Room(stack') >= 1
      BY <1>4, <2>2, <2>3
    <3> QED BY <2>2, <3>1 DEF Deep, Affords
  <2> QED BY <1>0, <1>1, <2>1, <2>2, <2>4, <2>5, CourseKept DEF OnTop, Running
<1>8. CASE WrapRest
  <2>1. /\ Head(stack) = "wrapRest" /\ call' = call /\ appIn' = appIn
        /\ IF appOut.pos > 0 THEN CallsOn("doWrap", "ret") ELSE Turns("ret")
    BY <1>0, <1>8 DEF WrapRest, Top, CallsOn, Turns, streamVars, callerVars
  <2>2. CASE appOut.pos > 0
    <3>1. stack' # <<>> /\ Head(stack') = "doWrap" /\ Room(stack') = Room(stack) - 1
      BY <1>0, <1>1, <2>1, <2>2, RoomNext DEF Frames, Resting
    <3>2. Waits'
      BY <1>0, <1>1, <1>3, <2>1, <2>2, WaitingCalls DEF Waits, Suspends
    <3>3. Deep'
      <4>1. Short(netOut, PacketSize) \in {0, 1}
        BY DEF Short
      <4>2. WrapAffords(engine, Short(netOut, PacketSize), appOut.pos, Room(stack) - 1)
        BY <1>2, <2>1, <2>2 DEF Affords
      <4>3. Room(stack) - 1 >= 1
        BY <1>1, <1>2, <4>1, <4>2 DEF WrapAffords
      <4> QED BY <1>0, <3>1, <4>2, <4>3 DEF Deep, Affords
    <3> QED BY <1>0, <1>1, <2>1, <3>1, <3>2, <3>3, CourseKept DEF OnTop, Running
  <2>3. CASE ~(appOut.pos > 0)
    <3>1. stack' # <<>> /\ Head(stack') = "ret" /\ Room(stack') = Room(stack)
      BY <1>0, <1>1, <2>1, <2>3, RoomNext DEF Frames, Resting
    <3>2. Waits'
      BY <1>0, <1>1, <1>3, <2>1, <2>3, WaitingTurns DEF Waits
    <3>3. Deep'
      BY <1>2, <3>1 DEF Deep, Affords
    <3> QED BY <1>0, <1>1, <2>1, <3>1, <3>2, <3>3, CourseKept DEF OnTop, Running
  <2> QED BY <2>2, <2>3
<1>9. CASE Return
  <2>1. /\ Head(stack) # "doUnwrap" /\ Pops /\ appIn' = appIn
        /\ call' \in {"idle", call}
    <3>1. stack' = <<>> \o <<>> \o Tail(stack)
      <4>1. Tail(stack) \in Seq(Frames) /\ <<>> \in Seq(Frames)
        BY <1>0, <1>1, HeadTailProperties, PushedFrames DEF TypeOK
      <4>2. <<>> \o <<>> = <<>> /\ <<>> \o Tail(stack) = Tail(stack)
        BY <4>1, ConcatEmptySeq
      <4> QED BY <1>9, <4>2 DEF Return
    <3> QED BY <1>0, <1>9, <3>1 DEF Return, Pops, Calls, Resting, streamVars
  <2>2. /\ Waiting(stack', appOut.pos, appIn.pos)
        /\ stack' # <<>> => /\ Head(stack') \in Suspends
                            /\ Head(stack') = "wrapRest" => appOut.pos = 0
    BY <1>0, <1>1, <2>1, WaitingPops
  <2>3. Waits'
    BY <1>0, <2>1, <2>2 DEF Waits
  <2>4. stack' # <<>> => Room(stack') >= 1
    BY <1>0, <1>1, <1>2, <2>1, RoomNext
  <2>5. Deep'
    BY <1>0, <1>1, <2>2, <2>4 DEF Deep, Affords, Suspends
  <2>6. ~OnTop("doUnwrap")'
    BY <2>2 DEF OnTop, Suspends
  <2> QED BY <1>0, <1>1, <2>1, <2>3, <2>5, <2>6, CourseKept DEF Running
<1> QED BY <1>1, <1>5, <1>6, <1>7, <1>8, <1>9

LEMMA LastOrBefore ==
    ASSUME NEW n \in Nat, NEW i \in 1..(n + 1)
    PROVE  i \in 1..n \/ i = n + 1
OBVIOUS

(* The peer keeps to the protocol, and what it sends comes whole.          *)
LEMMA PeerKeepsOn ==
    ASSUME Smooth, Calm, TypeOK', Peer
    PROVE  PeerAgrees' /\ Whole' /\ UNCHANGED <<fin, reset>>
<1>1. /\ UNCHANGED <<streamVars, stack, callerVars>> /\ UNCHANGED wireVars
      /\ PeerStep
  BY DEF Peer, PeerStep, PeerHandshake, PeerSend, PeerFin, PeerReset
<1>2. /\ log \in Seq(Records) /\ Len(log) \in Nat /\ peerStep \in 0..Len(Script)
      /\ Len(Script) \in Nat /\ peerStep \in Nat /\ readIn \in Nat /\ RecLen \in Nat
      /\ \A n \in Nat : Flights(n) \in Nat
  BY EngineAssumption, LenProperties, FlightsGrow DEF Calm, Safe, TypeOK, TransportTypeOK
<1>3. /\ Len(log) >= Flights(peerStep)
      /\ \A i \in 1..Len(log) :
            IF i <= Flights(peerStep) THEN log[i].kind = "handshake"
            ELSE log[i].kind = "app" /\ log[i].len > 0 /\ peerStep = Len(Script)
  BY DEF Calm, PeerAgrees
<1>4. ASSUME NEW rec \in Records, log' = Append(log, rec)
      PROVE  /\ Len(log') = Len(log) + 1 /\ log'[Len(log) + 1] = rec
             /\ \A i \in 1..Len(log) : log'[i] = log[i]
             /\ Whole'
  <2>1. /\ Len(log') = Len(log) + 1 /\ log'[Len(log) + 1] = rec
        /\ \A i \in 1..Len(log) : log'[i] = log[i]
    BY <1>2, <1>4, AppendProperties
  <2>2. (Len(log) + 1) * RecLen = Len(log) * RecLen + RecLen
    BY <1>2
  <2>3. Len(log) * RecLen \in Nat
    BY <1>2
  <2>4. readIn' <= Arrived'
    BY <1>1, <1>2, <2>1, <2>2, <2>3 DEF Calm, Whole, Arrived, wireVars
  <2> QED BY <1>1, <2>1, <2>4 DEF Calm, Whole, wireVars
<1>5. CASE PeerHandshake
  <2>1. /\ peerStep < Len(Script) /\ peerStep' = peerStep + 1 /\ UNCHANGED <<fin, reset>>
        /\ log' = IF Script[peerStep + 1] = "NEED_UNWRAP"
                  THEN Append(log, [kind |-> "handshake", len |-> 0]) ELSE log
    BY <1>5 DEF PeerHandshake
  <2>2. Len(log) = Flights(peerStep) /\ \A i \in 1..Len(log) : log[i].kind = "handshake"
    <3>1. ASSUME NEW i \in 1..Len(log)
          PROVE  i <= Flights(peerStep) /\ log[i].kind = "handshake"
      <4>1. peerStep # Len(Script)
        BY <1>2, <2>1
      <4> QED BY <1>3, <4>1
    <3>2. Len(log) <= Flights(peerStep)
      <4>1. CASE Len(log) = 0
        BY <1>2, <4>1
      <4>2. CASE Len(log) # 0
        <5>1. Len(log) \in 1..Len(log)
          BY <1>2, <4>2
        <5> QED BY <3>1, <5>1
      <4> QED BY <4>1, <4>2
    <3> QED BY <1>2, <1>3, <3>1, <3>2
  <2>3. CASE Script[peerStep + 1] = "NEED_UNWRAP"
    <3> DEFINE rec == [kind |-> "handshake", len |-> 0]
    <3>1. rec \in Records /\ rec.kind = "handshake"
      BY EngineAssumption DEF Records
    <3> HIDE DEF rec
    <3>2. log' = Append(log, rec)
      BY <2>1, <2>3 DEF rec
    <3>3. Flights(peerStep') = Len(log')
      BY <1>2, <1>4, <2>1, <2>2, <2>3, <3>1, <3>2, FlightsGrow
    <3>4. ASSUME NEW i \in 1..Len(log') PROVE log'[i].kind = "handshake"
      <4>1. /\ Len(log') = Len(log) + 1 /\ log'[Len(log) + 1] = rec
            /\ \A j \in 1..Len(log) : log'[j] = log[j]
        BY <1>4, <3>1, <3>2
      <4>2. i \in 1..Len(log) \/ i = Len(log) + 1
        BY <1>2, <4>1, LastOrBefore
      <4> QED BY <2>2, <3>1, <4>1, <4>2
    <3>5. Len(log') \in Nat
      BY <1>2, <1>4, <3>1, <3>2
    <3>6. PeerAgrees'
      BY <3>3, <3>4, <3>5 DEF PeerAgrees
    <3> QED BY <1>4, <2>1, <3>1, <3>2, <3>6
  <2>4. CASE Script[peerStep + 1] # "NEED_UNWRAP"
    <3>1. log' = log /\ Flights(peerStep') = Len(log')
      BY <1>2, <2>1, <2>2, <2>4, FlightsGrow
    <3>2. PeerAgrees'
      <4>1. \A i \in 1..Len(log') : i <= Flights(peerStep') /\ log'[i].kind = "handshake"
        BY <1>2, <2>2, <3>1
      <4>2. Len(log') >= Flights(peerStep')
        BY <1>2, <3>1
      <4> QED BY <4>1, <4>2 DEF PeerAgrees
    <3>3. Whole'
      BY <1>1, <3>1 DEF Calm, Whole, Arrived, wireVars
    <3> QED BY <2>1, <3>2, <3>3
  <2> QED BY <2>3, <2>4
<1>6. CASE \E rec \in PeerRecords : PeerSend(rec)
  <2>1. PICK rec \in PeerRecords : PeerSend(rec)
    BY <1>6
  <2>2. /\ rec.kind = "app" /\ peerStep = Len(Script) /\ log' = Append(log, rec)
        /\ peerStep' = peerStep /\ UNCHANGED <<fin, reset>>
    BY <2>1 DEF PeerSend, Smooth
  <2>3. rec \in Records /\ rec.len > 0
    <3>1. rec.len # 0
      BY <2>1, <2>2 DEF PeerSend, Smooth
    <3>2. rec \in [kind : {"app"}, len : 0..AppSize]
      BY <2>1, <2>2 DEF PeerRecords
    <3>3. rec \in Records
      BY <3>2 DEF Records
    <3>4. rec.len \in Nat
      BY <3>2, EngineAssumption
    <3> QED BY <3>1, <3>3, <3>4
  <2>4. PeerAgrees'
    <3>1. Len(log') = Len(log) + 1 /\ Flights(peerStep') = Flights(peerStep)
      BY <1>4, <2>2, <2>3
    <3>2. ASSUME NEW i \in 1..Len(log')
          PROVE  IF i <= Flights(peerStep) THEN log'[i].kind = "handshake"
                 ELSE log'[i].kind = "app" /\ log'[i].len > 0 /\ peerStep' = Len(Script)
      <4>1. CASE i \in 1..Len(log)
        BY <1>3, <1>4, <2>2, <2>3, <4>1
      <4>2. CASE i = Len(log) + 1
        <5>1. log'[i] = rec
          BY <1>4, <2>2, <2>3, <4>2
        <5>2. Flights(peerStep) \in Nat
          BY <1>2
        <5>3. ~(i <= Flights(peerStep))
          BY <1>2, <1>3, <4>2, <5>2
        <5> QED BY <2>2, <2>3, <5>1, <5>3
      <4>3. i \in 1..Len(log) \/ i = Len(log) + 1
        BY <1>2, <3>1, LastOrBefore
      <4> QED BY <4>1, <4>2, <4>3
    <3>3. Len(log') >= Flights(peerStep')
      BY <1>2, <1>3, <3>1
    <3> QED BY <3>1, <3>2, <3>3 DEF PeerAgrees
  <2> QED BY <1>4, <2>2, <2>3, <2>4
<1>7. ~PeerFin /\ ~PeerReset
  BY DEF PeerFin, PeerReset, Smooth
<1> QED BY <1>1, <1>5, <1>6, <1>7 DEF PeerStep

LEMMA PeerCourse == Smooth /\ Calm /\ TypeOK' /\ (Peer \/ UNCHANGED vars) => Course'
<1> SUFFICES ASSUME Smooth, Calm, TypeOK', Peer \/ UNCHANGED vars PROVE Course'
  OBVIOUS
<1>1. UNCHANGED <<engine, appOut, netOut, appIn, stack, call, fin, reset>>
  BY PeerKeepsOn DEF Peer, vars, streamVars, callerVars, peerVars
<1> QED BY <1>1 DEF Calm, Course, Peace, EngineAgrees, Asked, Slim, Waits, Deep, OnTop

(* The stack that a public function starts with.                           *)
LEMMA FreshStack ==
    ASSUME EnoughStack
    PROVE  /\ \A f \in Frames : <<f>> # <<>> /\ Head(<<f>>) = f /\ Len(<<f>>) = 1
           /\ \A f, w \in Frames : /\ <<f, w>> # <<>> /\ Head(<<f, w>>) = f
                                   /\ Len(<<f, w>>) = 2 /\ <<f, w>>[2] = w
           /\ \A f \in Frames : Room(<<f>>) = StackLimit
           /\ \A f, w \in Frames : Room(<<f, w>>) = StackLimit - 1
           /\ StackLimit \in Nat /\ StackLimit >= 3
BY TlsStreamAssumption DEF EnoughStack, Room

LEMMA CreateCourse == Smooth /\ EnoughStack /\ Calm /\ TypeOK' /\ Create => Course'
<1> SUFFICES ASSUME Smooth, EnoughStack, Calm, TypeOK', Create PROVE Course'
  OBVIOUS
<1>1. /\ call = "new" /\ engine' = NewEngine
      /\ appOut' = Allocate(AppOutSize)
      /\ netOut' = Allocate(PacketBufferSize(NewEngine))
      /\ appIn'.pos = 0
      /\ \/ Status(NewEngine) = "NEED_TASK" /\ Aborts
         \/ /\ Status(NewEngine) # "NEED_TASK" /\ call' = "authenticate"
            /\ stack' = Callees(Status(NewEngine)) \o <<"ret">>
      /\ UNCHANGED <<fin, reset>> /\ ~fin /\ ~reset
  BY DEF Create, Allocate, peerVars, Calm, Course, Peace
<1>2. /\ NewEngine \in Engines /\ NewEngine.in = "open" /\ NewEngine.out = "open"
      /\ NewEngine.step = 0 /\ NewEngine.recs = 0 /\ Len(Script) \in Nat
  BY NewEngineType, EngineAssumption, LenProperties DEF NewEngine
<1>3. EngineAgrees'
  BY <1>1, <1>2, FlightsGrow DEF EngineAgrees
<1>4. /\ Status(NewEngine) # "NEED_TASK"
      /\ Handshaking(NewEngine) => /\ Status(NewEngine) \in {"NEED_WRAP", "NEED_UNWRAP"}
                                   /\ Status(NewEngine) = Script[NewEngine.step + 1]
      /\ ~Handshaking(NewEngine) => Status(NewEngine) = "NOT_HANDSHAKING"
  BY <1>2, ScriptAsks
<1>5. Peace'
  BY <1>1, <1>2, <1>4 DEF Peace
<1>6. Slim'
  <2>1. PacketBufferSize(NewEngine) >= InitPacketSize
    BY EngineAssumption DEF PacketBufferSize
  <2> QED BY <1>1, <2>1 DEF Slim, Allocate
<1>7. appOut'.pos = 0
  BY <1>1 DEF Allocate
<1>8. CASE Handshaking(NewEngine)
  <2>1. PICK f \in {"doWrap", "doUnwrap"} :
           /\ stack' = <<f, "ret">>
           /\ Script[NewEngine.step + 1] = IF f = "doWrap" THEN "NEED_WRAP" ELSE "NEED_UNWRAP"
    BY <1>1, <1>4, <1>8, JoinedFrames DEF Callees
  <2>2. /\ stack' # <<>> /\ Head(stack') = f /\ Len(stack') = 2 /\ stack'[2] = "ret"
        /\ Room(stack') = StackLimit - 1 /\ StackLimit - 1 >= Len(Script)
        /\ StackLimit - 1 >= 1
    <3>1. f \in Frames /\ "ret" \in Frames
      BY DEF Frames, Resting
    <3>2. /\ <<f, "ret">> # <<>> /\ Head(<<f, "ret">>) = f /\ Len(<<f, "ret">>) = 2
          /\ <<f, "ret">>[2] = "ret" /\ Room(<<f, "ret">>) = StackLimit - 1
          /\ StackLimit \in Nat /\ StackLimit >= 3
      BY <3>1, FreshStack
    <3>3. StackLimit - 1 >= Len(Script) /\ StackLimit - 1 >= 1
      BY <1>2, <3>2 DEF EnoughStack
    <3> QED BY <2>1, <3>2, <3>3
  <2>3. Asked'
    BY <1>1, <2>1, <2>2 DEF Asked, OnTop
  <2>4. Waits'
    BY <2>1, <2>2 DEF Waits, Waiting, Suspends
  <2>5. Deep'
    BY <1>1, <1>2, <1>8, <2>1, <2>2 DEF Deep, Affords, WrapAffords
  <2> QED BY <1>3, <1>5, <1>6, <2>3, <2>4, <2>5 DEF Course
<1>9. CASE ~Handshaking(NewEngine)
  <2>1. stack' = <<"ret">>
    BY <1>1, <1>4, <1>9, JoinedFrames DEF Callees
  <2>2. /\ stack' # <<>> /\ Head(stack') = "ret" /\ Len(stack') = 1
        /\ Room(stack') = StackLimit /\ StackLimit >= 1
    BY <2>1, FreshStack DEF Frames, Resting
  <2>3. Asked'
    BY <1>1, <1>9 DEF Asked
  <2>4. Waits'
    BY <2>2 DEF Waits, Waiting, Suspends
  <2>5. Deep'
    BY <2>2 DEF Deep, Affords
  <2> QED BY <1>3, <1>5, <1>6, <2>3, <2>4, <2>5 DEF Course
<1> QED BY <1>8, <1>9

LEMMA CallsCourse ==
    Smooth /\ EnoughStack /\ Calm /\ TypeOK' /\ ((\E n \in SendSizes : Write(n)) \/ Read \/ Dispose)
        => Course'
<1> SUFFICES ASSUME Smooth, EnoughStack, Calm, TypeOK',
                    (\E n \in SendSizes : Write(n)) \/ Read \/ Dispose
             PROVE  Course'
  OBVIOUS
<1>1. /\ call = "idle" /\ UNCHANGED <<engine, fin, reset, netOut, appIn>>
  BY DEF Write, Read, Dispose, Enter, peerVars, streamVars
<1>2. /\ stack = <<>> /\ ~Handshaking(engine) /\ engine.out = "open" /\ ~engine.failed
      /\ TypeOK /\ netOut.cap >= InitPacketSize /\ appOut.cap = AppOutSize
  <2>1. engine.failed \in BOOLEAN
    BY EngineFields DEF Calm, Safe, TypeOK
  <2> QED BY <1>1, <2>1 DEF Calm, Course, Asked, Slim, OnTop, Peace, Safe, Control, Running
<1>3. appOut.pos = 0 /\ Fillable(appOut)
  BY <1>1, <1>2, SafeIsSafe DEF Calm, Safe, NothingLeftBehind, OutboundInOrder
<1>4. CASE \E n \in SendSizes : Write(n)
  <2>1. PICK n \in SendSizes : Write(n)
    BY <1>4
  <2>2. n \in Nat /\ n <= AppOutSize /\ AppOutSize \in Nat
    BY TlsStreamAssumption DEF Smooth
  <2>3. Remaining(appOut) = AppOutSize
    BY <1>2, <1>3, <2>2 DEF Fillable, Remaining
  <2>4. /\ appOut' = Put(appOut, Span(accepted, n)) /\ call' = "send"
        /\ stack' = <<"doWrap", "ret">>
    BY <2>1, <2>2, <2>3 DEF Write
  <2>5. appOut'.pos = n /\ appOut'.cap = AppOutSize
    <3>1. Len(Span(accepted, n)) = n
      BY <1>2, <2>2, SpanProperties DEF TypeOK
    <3> QED BY <1>2, <1>3, <2>2, <2>4, <3>1 DEF Put
  <2>6. /\ stack' # <<>> /\ Head(stack') = "doWrap" /\ Len(stack') = 2 /\ stack'[2] = "ret"
        /\ Room(stack') = StackLimit - 1 /\ StackLimit \in Nat /\ StackLimit >= 3
    BY <2>4, FreshStack DEF Frames, Resting
  <2>7. Waits'
    BY <2>6 DEF Waits, Waiting, Suspends
  <2>8. Deep'
    <3> DEFINE o == Short(netOut, PacketSize)
               k == StackLimit - 1
    <3>1. /\ AppSize \in Nat /\ PacketSize \in Nat /\ InitPacketSize \in Nat
          /\ InitPacketSize <= PacketSize /\ netOut.cap \in Nat /\ k \in Nat /\ k >= 2
      BY <1>2, <2>6, EngineAssumption DEF TypeOK, ByteBuffers
    <3>2. o \in {0, 1} /\ Growth \in {0, 1} /\ o <= Growth
      BY <1>2, <3>1 DEF Short, Growth
    <3>3. n <= (k - Growth) * AppSize
      BY <2>2, <3>1, <3>2 DEF EnoughStack
    <3> HIDE DEF o, k
    <3>4. n <= (k - o) * AppSize
      <4>1. CASE o = Growth
        BY <3>3, <4>1
      <4>2. CASE o # Growth
        <5>1. o = 0 /\ Growth = 1
          BY <3>2, <4>2
        <5>2. (k - 1) * AppSize = k * AppSize - AppSize /\ k - 0 = k /\ k * AppSize \in Nat
          BY <3>1
        <5>3. (k - 1) * AppSize \in Nat
          <6>1. k - 1 \in Nat
            BY <3>1
          <6> QED BY <3>1, <6>1
        <5> QED BY <2>2, <3>1, <3>3, <5>1, <5>2, <5>3
      <4> QED BY <4>1, <4>2
    <3>5. WrapAffords(engine, o, n, k)
      BY <1>2, <3>1, <3>2, <3>4 DEF WrapAffords
    <3>6. Affords("doWrap", engine, o, Short(appIn, AppSize), n, k)
      BY <3>1, <3>5 DEF Affords
    <3> QED BY <1>1, <2>5, <2>6, <3>6 DEF Deep, o, k
  <2> QED BY <1>1, <1>2, <2>4, <2>5, <2>6, <2>7, <2>8, CourseKept DEF OnTop
<1>5. CASE Read
  <2>1. stack' = <<"receive">> /\ call' = "receive" /\ UNCHANGED appOut
    BY <1>5 DEF Read, streamVars
  <2>2. /\ stack' # <<>> /\ Head(stack') = "receive" /\ Len(stack') = 1
        /\ Room(stack') = StackLimit /\ StackLimit >= 1
    BY <2>1, FreshStack DEF Frames
  <2>3. Waits'
    BY <2>2 DEF Waits, Waiting, Suspends
  <2>4. Deep'
    BY <2>2 DEF Deep, Affords
  <2> QED BY <1>1, <1>2, <2>1, <2>2, <2>3, <2>4, CourseKept DEF OnTop
<1>6. CASE Dispose
  <2>1. stack' = <<>> /\ call' = "disposed" /\ UNCHANGED appOut
    BY <1>2, <1>6 DEF Dispose, streamVars
  <2>2. Waits' /\ Deep'
    <3>1. Len(stack') = 0
      BY <2>1
    <3> QED BY <2>1, <3>1 DEF Waits, Waiting, Deep
  <2> QED BY <1>1, <1>2, <2>1, <2>2, CourseKept DEF OnTop
<1> QED BY <1>4, <1>5, <1>6

(* Nothing else can happen: the functions that end the process, or close   *)
(* the stream, have no cause to.                                           *)
LEMMA NothingEnds ==
    ASSUME Smooth, Calm
    PROVE  ~(handleEndOfStream \/ ReadThrows \/ close \/ CloseRest \/ StackOverflow)
<1>1. ~handleEndOfStream /\ ~ReadThrows
  BY DEF handleEndOfStream, ReadThrows, EndOfStream, Calm, Course, Peace
<1>2. ~close /\ ~CloseRest
  BY DEF close, CloseRest, Top, Calm, Course, Waits, Waiting, Suspends
<1>3. ~StackOverflow
  <2>1. ASSUME StackOverflow PROVE FALSE
    <3>1. Len(stack) > StackLimit /\ stack \in Seq(Frames) /\ StackLimit \in Nat
      BY <2>1, TlsStreamAssumption DEF StackOverflow, Calm, Safe, TypeOK
    <3>2. Len(stack) \in Nat /\ stack # <<>>
      <4>1. Len(stack) \in Nat /\ Len(<<>>) = 0
        BY <3>1, LenProperties
      <4>2. Len(stack) # 0
        BY <3>1, <4>1
      <4> QED BY <4>1, <4>2
    <3>3. Room(stack) >= 1
      BY <3>2, RoomNow
    <3> QED BY <3>1, <3>2, <3>3 DEF Room
  <2> QED BY <2>1
<1> QED BY <1>1, <1>2, <1>3

LEMMA CalmStep == Smooth /\ EnoughStack /\ Calm /\ [Next]_vars => Calm'
<1> SUFFICES ASSUME Smooth, EnoughStack, Calm, [Next]_vars PROVE Calm'
  OBVIOUS
<1>1. Safe' /\ TypeOK'
  <2>1. Safe'
    BY NextIsMove, SafeStep DEF Calm, Safe
  <2> QED BY <2>1 DEF Safe
<1>2. CASE Peer
  BY <1>1, <1>2, PeerKeepsOn, PeerCourse DEF Calm
<1>3. CASE UNCHANGED vars
  BY <1>1, <1>3, PeerCourse DEF Calm, PeerAgrees, Whole, Arrived, vars, peerVars, wireVars
<1>4. CASE UnwrapBuffered \/ ReadAndUnwrap
  <2>1. UNCHANGED peerVars
    BY <1>4 DEF UnwrapBuffered, ReadAndUnwrap
  <2> QED BY <1>1, <1>4, <2>1, UnwrapGoes, doUnwrapCourse DEF Calm, PeerAgrees, peerVars
<1>5. CASE doWrap \/ ReadStep \/ ReadAgain \/ WrapRest \/ Return
  <2>1. UNCHANGED peerVars /\ readIn' = readIn
    BY <1>5 DEF doWrap, ReadStep, ReadAgain, WrapRest, Return, wireVars
  <2>2. Course'
    BY <1>1, <1>5, doWrapCourse, OthersCourse
  <2> QED BY <1>1, <2>1, <2>2 DEF Calm, PeerAgrees, Whole, Arrived, peerVars
<1>6. CASE Caller
  <2>1. UNCHANGED peerVars /\ readIn' = readIn
    BY <1>6 DEF Caller, Create, Write, Read, Dispose, wireVars
  <2>2. Course'
    BY <1>1, <1>6, CreateCourse, CallsCourse DEF Caller
  <2> QED BY <1>1, <2>1, <2>2 DEF Calm, PeerAgrees, Whole, Arrived, peerVars
<1> QED BY <1>2, <1>3, <1>4, <1>5, <1>6, NothingEnds DEF Next, StreamStep

LEMMA InitCalm == Smooth /\ Init => Calm
<1> SUFFICES ASSUME Smooth, Init PROVE Calm
  OBVIOUS
<1>1. /\ log = <<>> /\ peerStep = 0 /\ ~fin /\ ~reset /\ readIn = 0
      /\ engine = NewEngine /\ appOut.pos = 0 /\ appIn.pos = 0
      /\ stack = <<>> /\ call = "new"
  BY DEF Init, TransportInit, Allocate
<1>2. Len(log) = 0 /\ Len(stack) = 0
  BY <1>1
<1>3. /\ engine.out = "open" /\ engine.in = "open" /\ engine.step = 0 /\ engine.recs = 0
  BY <1>1 DEF NewEngine
<1>4. PeerAgrees /\ EngineAgrees
  BY <1>1, <1>2, <1>3, FlightsGrow DEF PeerAgrees, EngineAgrees
<1>5. Whole
  <2>1. RecLen \in Nat \ {0}
    BY EngineAssumption
  <2>2. 0 % RecLen = 0 /\ 0 * RecLen = 0
    BY <2>1
  <2> QED BY <1>1, <1>2, <2>2 DEF Whole, Arrived
<1>6. Course
  BY <1>1, <1>2, <1>3, <1>4 DEF Course, Peace, Asked, Slim, Waits, Waiting, Deep, OnTop
<1> QED BY <1>4, <1>5, <1>6, InitSafe DEF Calm

(* With a peer that plays the protocol, whole records and messages that    *)
(* fit, the process survives every order of calls, if the stack holds a    *)
(* frame for each step of the handshake and for each record of a message:  *)
(* no assertion of pal_sslstream.c fails, no exception is left pending,    *)
(* and no recursion runs out of frames.                                    *)
THEOREM NeverStopped == Smooth /\ EnoughStack => (Spec => []NeverStops)
<1> SUFFICES ASSUME Smooth, EnoughStack PROVE Spec => []NeverStops
  OBVIOUS
<1>1. Init => Calm
  BY InitCalm
<1>2. Calm /\ [Next]_vars => Calm'
  BY CalmStep
<1>3. Calm => NeverStops
  BY DEF Calm, Course, Peace, NeverStops
<1> QED BY <1>1, <1>2, <1>3, PTL DEF Spec

-----------------------------------------------------------------------------
(* Where nothing fails, the local references of a call stay within a bound. *)

(* What may still be left besides what the engine and the caller account   *)
(* for: one by a Read that waits, and one by each buffer that is too small.*)
Owes == IF Receives(stack) THEN 1 ELSE 0
Spare == Owes + Short(netOut, PacketSize) + Short(appIn, AppSize)

(* The references that neither a call nor a record that was read explains. *)
Due == locals + Spare - Base - engine.recs - calls
Bounded == \E written \in Nat : engine.tx = written * RecLen /\ Due <= 2 * written + 2

(* After the handshake doWrap() runs only when there is plaintext to wrap, *)
(* so that each record it pays for with two references is written.         *)
Loaded == OnTop("doWrap") /\ ~Handshaking(engine) => appOut.pos > 0

Counted == locals \in Int /\ (call = "new" => locals = 1) /\ Bounded /\ Loaded

LEMMA DueSum ==
    ASSUME NEW l \in Int, NEW b \in {1, 3, 4}, NEW o \in {0, 1}, NEW n \in {0, 1},
           NEW a \in {0, 1}, NEW r \in Nat, NEW c \in Nat
    PROVE  o + n + a \in 0..3 /\ l + (o + n + a) - b - r - c \in Int
OBVIOUS

DueTyped ==
    /\ Due \in Int /\ Spare \in 0..3 /\ Base \in {1, 3, 4}
    /\ Owes \in {0, 1} /\ Short(netOut, PacketSize) \in {0, 1}
    /\ Short(appIn, AppSize) \in {0, 1}
    /\ engine.recs \in Nat /\ calls \in Nat /\ engine.tx \in Nat
    /\ netOut.cap \in Nat /\ appIn.cap \in Nat
    /\ PacketSize \in Nat /\ AppSize \in Nat \ {0} /\ RecLen \in Nat \ {0}

LEMMA DueType == TypeOK /\ locals \in Int => DueTyped
<1> SUFFICES ASSUME TypeOK, locals \in Int PROVE DueTyped
  OBVIOUS
<1>1. engine.recs \in Nat /\ calls \in Nat /\ engine.tx \in Nat
  BY EngineFields DEF TypeOK
<1>2. Base \in {1, 3, 4} /\ Owes \in {0, 1}
  BY DEF Base, Owes
<1>3. Short(netOut, PacketSize) \in {0, 1} /\ Short(appIn, AppSize) \in {0, 1}
  BY DEF Short
<1>4. netOut.cap \in Nat /\ appIn.cap \in Nat
  BY BuffersGood DEF TypeOK, GoodBuffer, ByteBuffers
<1>5. Spare \in 0..3 /\ Due \in Int
  BY <1>1, <1>2, <1>3, DueSum DEF Due, Spare
<1> QED BY <1>1, <1>2, <1>3, <1>4, <1>5, EngineAssumption DEF DueTyped

LEMMA DueTypes ==
    ASSUME TypeOK, TypeOK', locals \in Int, locals' \in Int
    PROVE  DueTyped /\ DueTyped'
<1>1. (TypeOK /\ locals \in Int => DueTyped)'
  BY DueType, PTL
<1> QED BY <1>1, DueType

(* The sums of two states compare as their parts do.                       *)
LEMMA LessSum ==
    ASSUME NEW l \in Int, NEW m \in Int, NEW b \in Int, NEW e \in Int,
           NEW s \in Int, NEW t \in Int, NEW r \in Int, NEW q \in Int,
           NEW c \in Int, NEW d \in Int, NEW k \in Int,
           m - e + t + r + c <= l - b + s + k + q + d
    PROVE  m + t - e - q - d <= l + s - b - r - c + k
OBVIOUS

(* What a step adds: a reference or two, or as much as some buffer, the    *)
(* wait of Read or the return of Create had spare, or the call it counts.  *)
LEMMA GrowsSum ==
    ASSUME NEW l \in Int, NEW m \in Int, NEW b \in Int, NEW e \in Int,
           NEW s \in Int, NEW t \in Int, NEW r \in Int, NEW q \in Int,
           NEW c \in Int, NEW d \in Int, NEW k \in Nat,
           q = r,
           \/ d = c /\ e = b /\ t <= s /\ m <= l + k
           \/ d = c /\ t <= s /\ m - e = l - b
           \/ d = c /\ e = b /\ m + t <= l + s
           \/ m = l /\ e = b /\ c + t <= d + s
    PROVE  m - e + t + r + c <= l - b + s + k + q + d
OBVIOUS

LEMMA SpareParts ==
    ASSUME NEW l \in Int, NEW m \in Int, NEW o \in Int, NEW p \in Int,
           NEW n \in Int, NEW a \in Int, m + p <= l + o
    PROVE  m + (p + n + a) <= l + (o + n + a)
OBVIOUS

Grows(k) == locals' - Base' + Spare' + engine.recs + calls
                <= locals - Base + Spare + k + engine'.recs + calls'

DueInts ==
    /\ Base \in Int /\ Base' \in Int /\ Spare \in Int /\ Spare' \in Int
    /\ Owes \in Int /\ Owes' \in Int /\ locals \in Int /\ locals' \in Int
    /\ engine.recs \in Int /\ engine'.recs \in Int /\ calls \in Int /\ calls' \in Int
    /\ Short(netOut, PacketSize) \in Int /\ Short(appIn, AppSize) \in Int

LEMMA DueNumbers ==
    ASSUME DueTyped, DueTyped', locals \in Int, locals' \in Int
    PROVE  DueInts
BY DEF DueTyped, DueInts

LEMMA DueLess ==
    ASSUME DueTyped, DueTyped', locals \in Int, locals' \in Int, NEW k \in Int, Grows(k)
    PROVE  Due' <= Due + k
BY DueNumbers, LessSum DEF DueInts, Grows, Due

LEMMA GrowsBy ==
    ASSUME DueTyped, DueTyped', locals \in Int, locals' \in Int, NEW k \in Nat,
           engine'.recs = engine.recs,
           \/ calls' = calls /\ Base' = Base /\ Spare' <= Spare /\ locals' <= locals + k
           \/ calls' = calls /\ Spare' <= Spare /\ locals' - Base' = locals - Base
           \/ calls' = calls /\ Base' = Base /\ locals' + Spare' <= locals + Spare
           \/ locals' = locals /\ Base' = Base /\ calls + Spare' <= calls' + Spare
    PROVE  Grows(k)
<1>1. DueInts
  BY DueNumbers
<1> DEFINE Sums(l, m, b, e, s, t, r, q, c, d) ==
      /\ q = r
      /\ \/ d = c /\ e = b /\ t <= s /\ m <= l + k
         \/ d = c /\ t <= s /\ m - e = l - b
         \/ d = c /\ e = b /\ m + t <= l + s
         \/ m = l /\ e = b /\ c + t <= d + s
      => m - e + t + r + c <= l - b + s + k + q + d
<1>2. \A l, m, b, e, s, t, r, q, c, d \in Int : Sums(l, m, b, e, s, t, r, q, c, d)
  BY GrowsSum
<1> HIDE DEF Sums
<1>3. Sums(locals, locals', Base, Base', Spare, Spare', engine.recs, engine'.recs, calls, calls')
  BY <1>1, <1>2, Zenon DEF DueInts
<1> QED BY <1>3, Zenon DEF Sums, Grows

(* While no buffer grows, Spare changes as Owes does.                      *)
LEMMA SpareSum ==
    ASSUME DueTyped, DueTyped', locals \in Int, locals' \in Int,
           NEW l \in Int, NEW m \in Int,
           Short(netOut', PacketSize) = Short(netOut, PacketSize),
           Short(appIn', AppSize) = Short(appIn, AppSize),
           m + Owes' <= l + Owes
    PROVE  m + Spare' <= l + Spare
<1>1. Spare' = Owes' + Short(netOut, PacketSize) + Short(appIn, AppSize)
  BY DEF Spare
<1>2. m + (Owes' + Short(netOut, PacketSize) + Short(appIn, AppSize))
          <= l + (Owes + Short(netOut, PacketSize) + Short(appIn, AppSize))
  BY DueNumbers, SpareParts, Zenon DEF DueInts
<1> QED BY <1>1, <1>2, Zenon DEF Spare

(* A step that writes m records may leave two references for each.         *)
LEMMA DuePaid ==
    ASSUME TypeOK, TypeOK', locals \in Int, locals' \in Int, Bounded, NEW m \in {0, 1},
           m = 0 => engine'.tx = engine.tx, m = 1 => engine'.tx = engine.tx + RecLen,
           Due' <= Due + 2 * m
    PROVE  Bounded'
<1>1. Due \in Int /\ Due' \in Int /\ RecLen \in Nat
  BY DueTypes DEF DueTyped
<1>2. PICK written \in Nat : engine.tx = written * RecLen /\ Due <= 2 * written + 2
  BY DEF Bounded
<1>3. engine'.tx = (written + m) * RecLen
  BY <1>1, <1>2
<1>4. written + m \in Nat /\ Due' <= 2 * (written + m) + 2
  BY <1>1, <1>2
<1> QED BY <1>3, <1>4 DEF Bounded

(* No private method calls Read.                                           *)
LEMMA OwesNoMore ==
    ASSUME Calm, [Next]_vars, stack # <<>>
    PROVE  Receives(stack') => Receives(stack)
<1>1. TypeOK /\ Control /\ Move /\ call \in Running
  BY NextIsMove DEF Calm, Safe, Control
<1>2. CASE InnerStep
  BY <1>1, <1>2, InnerStepControl
<1>3. CASE ReceiveStack
  BY <1>1, <1>3, ReceiveStackControl
<1>4. CASE EndStep
  BY <1>4, RangeOne DEF EndStep, Receives
<1> QED BY <1>1, <1>2, <1>3, <1>4, MoveStack DEF CallStep, Running

LEMMA WrapCounted ==
    ASSUME Smooth, Calm, Calm', Counted, WrapLeaves
    PROVE  Counted'
<1>0. /\ doWrap /\ stack # <<>> /\ OnTop("doWrap") /\ TypeOK /\ TypeOK'
      /\ UNCHANGED <<appIn, calls>> /\ locals \in Int /\ Bounded /\ Loaded
      /\ call \in Running
  <2>1. doWrap /\ stack # <<>> /\ OnTop("doWrap") /\ UNCHANGED <<appIn, calls>>
    BY DEF WrapLeaves, doWrap, Top, OnTop
  <2> QED BY <2>1, RunningCalm DEF Counted, Calm, Safe
<1>1. locals' = locals + (IF WrapOverflows THEN 1 ELSE 2)
  BY DEF WrapLeaves, Leaves
<1>t. locals' \in Int /\ DueTyped /\ DueTyped'
  <2>1. locals' \in Int
    BY <1>0, <1>1
  <2> QED BY <1>0, <2>1, DueTypes
<1>2. Receives(stack') => Receives(stack)
  BY <1>0, OwesNoMore DEF Next, StreamStep
<1>3. engine'.recs = engine.recs /\ netOut'.cap >= netOut.cap
  BY <1>0, WrapGoes
<1>4. /\ Short(netOut', PacketSize) <= Short(netOut, PacketSize)
      /\ netOut.cap < PacketSize => Short(netOut, PacketSize) = 1
      /\ netOut'.cap >= PacketSize => Short(netOut', PacketSize) = 0
  BY <1>3, <1>t, ShortIs DEF DueTyped
<1>5. Owes' <= Owes /\ Short(appIn', AppSize) = Short(appIn, AppSize)
  BY <1>0, <1>2 DEF Owes, Short
<1>6. ASSUME call' = call, Loaded',
             \/ engine'.tx = engine.tx + RecLen
             \/ /\ WrapOverflows /\ engine'.tx = engine.tx
                /\ Short(netOut', PacketSize) = 0 /\ Short(netOut, PacketSize) = 1
      PROVE  Counted'
  <2>1. Base' = Base /\ calls' = calls /\ call' # "new"
    BY <1>0, <1>6 DEF Base, Running
  <2>2. CASE engine'.tx = engine.tx + RecLen
    <3>1. Spare' <= Spare /\ locals' <= locals + 2
      BY <1>0, <1>1, <1>4, <1>5, <1>t DEF DueTyped, Spare
    <3>2. Due' <= Due + 2 * 1
      <4>a. Grows(2)
        BY <1>0, <1>3, <1>t, <2>1, <3>1, GrowsBy
      <4>b. Due' <= Due + 2
        BY <1>0, <1>t, <4>a, DueLess
      <4> QED BY <1>t, <4>b DEF DueTyped
    <3>3. Bounded'
      BY <1>0, <1>t, <2>2, <3>2, DuePaid
    <3> QED BY <1>6, <1>t, <2>1, <3>3 DEF Counted
  <2>3. CASE /\ WrapOverflows /\ engine'.tx = engine.tx
             /\ Short(netOut', PacketSize) = 0 /\ Short(netOut, PacketSize) = 1
    <3>1. Spare' <= Spare - 1 /\ locals' = locals + 1
      BY <1>0, <1>1, <1>4, <1>5, <1>t, <2>3 DEF DueTyped, Spare
    <3>2. Due' <= Due + 2 * 0
      <4>a. Grows(0)
        BY <1>0, <1>3, <1>t, <2>1, <3>1 DEF DueTyped, Grows
      <4>b. Due' <= Due + 0
        BY <1>0, <1>t, <4>a, DueLess
      <4> QED BY <1>t, <4>b DEF DueTyped
    <3>3. Bounded'
      BY <1>0, <1>t, <2>3, <3>2, DuePaid
    <3> QED BY <1>6, <1>t, <2>1, <3>3 DEF Counted
  <2> QED BY <1>6, <2>2, <2>3
<1>7. CASE Handshaking(engine)
  <2>1. /\ engine'.tx = engine.tx + RecLen /\ engine'.in = "open" /\ engine'.out = "open"
        /\ checkHandshakeStatus(StepStatus(engine'), <<"wrapRest">>)
    BY <1>0, <1>7, WrapGoes
  <2>2. call' = call /\ (~Handshaking(engine') => Turns("wrapRest"))
    <3>1. engine' \in Engines
      BY <1>0 DEF TypeOK
    <3> QED BY <1>0, <2>1, <3>1, Landing
  <2>3. Loaded'
    <3>1. Turns("wrapRest") => Head(stack') = "wrapRest"
      BY <1>0, RoomNext DEF Frames
    <3> QED BY <2>2, <3>1 DEF Loaded, OnTop
  <2> QED BY <1>6, <2>1, <2>2, <2>3
<1>8. CASE ~Handshaking(engine)
  <2>1. appOut.pos > 0 /\ call' = call
    BY <1>0, <1>8, WrapGoes DEF Loaded
  <2>2. CASE /\ engine' = engine /\ appOut'.pos = appOut.pos
             /\ netOut.cap < PacketSize /\ netOut'.cap >= PacketSize
             /\ CallsOn("doWrap", "wrapOverflow")
    <3>1. WrapOverflows
      BY <2>2 DEF WrapOverflows, CallsOn
    <3>2. Loaded'
      BY <2>1, <2>2 DEF Loaded
    <3> QED BY <1>4, <1>6, <2>1, <2>2, <3>1, <3>2
  <2>3. CASE /\ appOut.pos > 0 => engine'.tx = engine.tx + RecLen
             /\ Turns("wrapRest")
    <3>1. Head(stack') = "wrapRest"
      BY <1>0, <2>3, RoomNext DEF Frames
    <3>2. Loaded'
      BY <3>1 DEF Loaded, OnTop
    <3> QED BY <1>6, <2>1, <2>3, <3>2
  <2> QED BY <1>0, <1>8, <2>2, <2>3, WrapGoes
<1> QED BY <1>7, <1>8

(* A record that is taken, or a buffer that grows, pays for its reference. *)
LEMMA UnwrapCounted ==
    ASSUME Smooth, Calm, Calm', Counted, UnwrapLeaves
    PROVE  Counted'
<1>0. /\ UnwrapBuffered \/ ReadAndUnwrap
      /\ stack # <<>> /\ OnTop("doUnwrap") /\ TypeOK /\ TypeOK'
      /\ UNCHANGED <<netOut, calls>> /\ locals \in Int /\ Bounded
      /\ call \in Running /\ locals' = locals + 1 /\ locals' \in Int
  <2>1. UnwrapBuffered \/ ReadAndUnwrap
    BY NothingEnds DEF UnwrapLeaves
  <2>2. stack # <<>> /\ OnTop("doUnwrap") /\ UNCHANGED <<netOut, calls>>
    BY <2>1 DEF UnwrapBuffered, ReadAndUnwrap, Top, OnTop
  <2>3. locals \in Int /\ locals' = locals + 1
    BY DEF UnwrapLeaves, Leaves, Counted
  <2> QED BY <2>1, <2>2, <2>3, RunningCalm DEF Counted, Calm, Safe
<1>t. DueTyped /\ DueTyped'
  BY <1>0, DueTypes
<1>1. Receives(stack') => Receives(stack)
  BY <1>0, OwesNoMore DEF Next, StreamStep
<1>2. engine'.tx = engine.tx
  BY <1>0, doUnwrapIsMove, UnwrapMoveEffect DEF UnwrapEffect, UnwrapMoved
<1>3. UnwrapGoing
  BY <1>0, UnwrapGoes
<1>4. /\ Owes' <= Owes /\ Short(netOut', PacketSize) = Short(netOut, PacketSize)
      /\ Short(appIn', AppSize) <= Short(appIn, AppSize)
      /\ appIn.cap < AppSize => Short(appIn, AppSize) = 1
      /\ appIn'.cap >= AppSize => Short(appIn', AppSize) = 0
  <2>1. appIn'.cap >= appIn.cap
    BY <1>3 DEF UnwrapGoing
  <2>2. Owes' <= Owes
    BY <1>1 DEF Owes
  <2>3. Short(netOut', PacketSize) = Short(netOut, PacketSize)
    BY <1>0
  <2> QED BY <1>t, <2>1, <2>2, <2>3, ShortIs DEF DueTyped
<1>5. ASSUME call' = call, Loaded',
             \/ engine'.recs = engine.recs + 1
             \/ /\ engine' = engine
                /\ Short(appIn', AppSize) = 0 /\ Short(appIn, AppSize) = 1
      PROVE  Counted'
  <2>1. Base' = Base /\ calls' = calls /\ call' # "new"
    BY <1>0, <1>5 DEF Base, Running
  <2>2. CASE engine'.recs = engine.recs + 1
    <3>1. Spare' <= Spare
      BY <1>4, <1>t DEF DueTyped, Spare
    <3>2. Due' <= Due + 2 * 0
      <4>a. Grows(0)
        BY <1>0, <1>t, <2>1, <2>2, <3>1 DEF DueTyped, Grows
      <4>b. Due' <= Due + 0
        BY <1>0, <1>t, <4>a, DueLess
      <4> QED BY <1>t, <4>b DEF DueTyped
    <3>3. Bounded'
      BY <1>0, <1>2, <3>2, DuePaid
    <3> QED BY <1>0, <1>5, <2>1, <3>3 DEF Counted
  <2>3. CASE /\ engine' = engine
             /\ Short(appIn', AppSize) = 0 /\ Short(appIn, AppSize) = 1
    <3>1. Spare' <= Spare - 1
      BY <1>4, <1>t, <2>3 DEF DueTyped, Spare
    <3>2. Due' <= Due + 2 * 0
      <4>a. Grows(0)
        BY <1>0, <1>t, <2>1, <2>3, <3>1 DEF DueTyped, Grows
      <4>b. Due' <= Due + 0
        BY <1>0, <1>t, <4>a, DueLess
      <4> QED BY <1>t, <4>b DEF DueTyped
    <3>3. Bounded'
      BY <1>0, <1>2, <3>2, DuePaid
    <3> QED BY <1>0, <1>5, <2>1, <3>3 DEF Counted
  <2> QED BY <1>5, <2>2, <2>3
<1>6. CASE Handshaking(engine)
  <2>1. /\ engine'.recs = engine.recs + 1 /\ engine'.in = "open" /\ engine'.out = "open"
        /\ checkHandshakeStatus(StepStatus(engine'), <<"ret">>)
    BY <1>3, <1>6 DEF UnwrapGoing
  <2>2. call' = call /\ (~Handshaking(engine') => Turns("ret"))
    <3>1. engine' \in Engines
      BY <1>0 DEF TypeOK
    <3> QED BY <1>0, <2>1, <3>1, Landing
  <2>3. Loaded'
    <3>1. Turns("ret") => Head(stack') = "ret"
      BY <1>0, RoomNext DEF Frames, Resting
    <3> QED BY <2>2, <3>1 DEF Loaded, OnTop
  <2> QED BY <1>5, <2>1, <2>2, <2>3
<1>7. CASE ~Handshaking(engine)
  <2>1. call' = call
    BY <1>3, <1>7 DEF UnwrapGoing
  <2>2. CASE /\ engine' = engine /\ appIn.cap < AppSize /\ appIn'.cap >= AppSize
             /\ CallsOn("doUnwrap", "unwrapOverflow")
    <3>1. Head(stack') = "doUnwrap"
      BY <1>0, <2>2, RoomNext DEF Frames, Resting
    <3>2. Loaded'
      BY <3>1 DEF Loaded, OnTop
    <3> QED BY <1>4, <1>5, <2>1, <2>2, <3>2
  <2>3. CASE engine'.recs = engine.recs + 1 /\ Turns("ret")
    <3>1. Head(stack') = "ret"
      BY <1>0, <2>3, RoomNext DEF Frames, Resting
    <3>2. Loaded'
      BY <3>1 DEF Loaded, OnTop
    <3> QED BY <1>5, <2>1, <2>3, <3>2
  <2> QED BY <1>3, <1>7, <2>2, <2>3 DEF UnwrapGoing
<1> QED BY <1>6, <1>7

(* Read leaves its reference when it has its data, and waits no more.      *)
LEMMA ReadCounted ==
    ASSUME Smooth, Calm, Calm', Counted, ReadLeaves
    PROVE  Counted'
<1>0. /\ ReadStep /\ stack # <<>> /\ OnTop("receive") /\ TypeOK /\ TypeOK' /\ Control
      /\ UNCHANGED <<engine, netOut, call, calls>> /\ locals \in Int /\ Bounded
      /\ call \in Running /\ GoodBuffer(appIn)
      /\ locals' = locals + (IF received' # received THEN 1 ELSE 0) /\ locals' \in Int
  <2>1. /\ ReadStep /\ stack # <<>> /\ OnTop("receive")
        /\ UNCHANGED <<engine, netOut, call, calls>>
    BY DEF ReadLeaves, ReadStep, Top, OnTop
  <2>2. locals \in Int /\ locals' = locals + (IF received' # received THEN 1 ELSE 0)
    BY DEF ReadLeaves, Leaves, Counted
  <2> QED BY <2>1, <2>2, RunningCalm, BuffersGood DEF Counted, Calm, Safe
<1>t. DueTyped /\ DueTyped'
  BY <1>0, DueTypes
<1>1. Receives(stack) /\ (Receives(stack') => Receives(stack))
  <2>1. Receives(stack)
    BY <1>0, RangeHead DEF Receives, ReceiveFrames, OnTop, TypeOK
  <2> QED BY <2>1
<1>2. appIn'.cap = appIn.cap
  <2>1. Flip(appIn).cap = appIn.cap
    BY DEF Flip
  <2> QED BY <1>0, <2>1 DEF ReadStep, Compact, Skip
<1>3. \/ received' = received
      \/ ~Receives(stack')
  <2>1. ASSUME received' # received PROVE GoesOn(<<>>, <<"ret">>)
    BY <1>0, <2>1 DEF ReadStep, GoesOn
  <2>2. GoesOn(<<>>, <<"ret">>) => OnlyReturns(stack')
    BY <1>0, ReceiveStackControl DEF ReceiveStack
  <2>3. OnlyReturns(stack') => ~Receives(stack')
    BY DEF OnlyReturns, Receives, ReceiveFrames
  <2> QED BY <2>1, <2>2, <2>3
<1>4. /\ Short(netOut', PacketSize) = Short(netOut, PacketSize)
      /\ Short(appIn', AppSize) = Short(appIn, AppSize)
      /\ Base' = Base /\ engine'.recs = engine.recs /\ calls' = calls
  BY <1>0, <1>2 DEF Short, Base
<1>5. Due' <= Due + 2 * 0
  <2>1. locals' + Owes' <= locals + Owes
    BY <1>0, <1>1, <1>3 DEF Owes
  <2>2. locals' + Spare' <= locals + Spare
    BY <1>0, <1>4, <1>t, <2>1, SpareSum
  <2>3. Grows(0)
    BY <1>0, <1>4, <1>t, <2>2, GrowsBy
  <2>4. Due' <= Due + 0
    BY <1>0, <1>t, <2>3, DueLess
  <2> QED BY <1>t, <2>4 DEF DueTyped
<1>6. Bounded'
  BY <1>0, <1>5, DuePaid
<1>7. Loaded'
  <2>1. Turns("ret") \/ CallsOn("doUnwrap", "receiveRest")
    BY <1>0 DEF ReadStep, Turns, CallsOn
  <2>2. Head(stack') \in {"ret", "doUnwrap"}
    BY <1>0, <2>1, RoomNext DEF Frames, Resting
  <2> QED BY <2>2 DEF Loaded, OnTop
<1> QED BY <1>0, <1>6, <1>7 DEF Counted, Running

LEMMA ReturnCounted ==
    ASSUME Smooth, Calm, Calm', Counted, ReturnLeaves
    PROVE  Counted'
<1>0. /\ Return /\ stack # <<>> /\ Head(stack) \in Resting /\ TypeOK /\ TypeOK' /\ Waits
      /\ UNCHANGED <<engine, netOut, appIn, appOut, calls>> /\ locals \in Int /\ Bounded
      /\ call \in Running /\ call' \in {call, "idle"}
      /\ locals' = IF call = "authenticate" /\ call' = "idle" THEN locals - 1 ELSE locals
      /\ locals' \in Int
  <2>1. /\ Return /\ stack # <<>> /\ Head(stack) \in Resting /\ call' \in {call, "idle"}
        /\ UNCHANGED <<engine, netOut, appIn, appOut, calls>>
    BY DEF ReturnLeaves, Return, streamVars
  <2>2. /\ locals \in Int
        /\ locals' = IF call = "authenticate" /\ call' = "idle" THEN locals - 1 ELSE locals
    BY DEF ReturnLeaves, Counted
  <2> QED BY <2>1, <2>2, RunningCalm DEF Counted, Calm, Safe, Course
<1>t. DueTyped /\ DueTyped'
  BY <1>0, DueTypes
<1>1. Receives(stack') => Receives(stack)
  BY <1>0, OwesNoMore DEF Next, StreamStep
<1>2. locals' - Base' = locals - Base
  BY <1>0 DEF Base, Running
<1>3. Spare' <= Spare
  <2>1. Owes' <= Owes
    BY <1>1 DEF Owes
  <2>2. /\ Short(netOut', PacketSize) = Short(netOut, PacketSize)
        /\ Short(appIn', AppSize) = Short(appIn, AppSize)
    BY <1>0
  <2> QED BY <1>t, <2>1, <2>2 DEF DueTyped, Spare
<1>4. Due' <= Due + 2 * 0
  <2>a. Grows(0)
    BY <1>0, <1>2, <1>3, <1>t, GrowsBy
  <2>b. Due' <= Due + 0
    BY <1>0, <1>t, <2>a, DueLess
  <2> QED BY <1>t, <2>b DEF DueTyped
<1>5. Bounded'
  BY <1>0, <1>4, DuePaid
<1>6. Loaded'
  <2>1. Pops
    <3>1. Tail(stack) \in Seq(Frames) /\ <<>> \in Seq(Frames)
      BY <1>0, HeadTailProperties, PushedFrames DEF TypeOK
    <3>2. <<>> \o <<>> = <<>> /\ <<>> \o Tail(stack) = Tail(stack)
      BY <3>1, ConcatEmptySeq
    <3> QED BY <1>0, <3>2 DEF Return, Pops, Calls
  <2>2. stack' # <<>> => Head(stack') \in Suspends
    BY <1>0, <2>1, WaitingPops DEF Resting
  <2> QED BY <2>2 DEF Loaded, OnTop, Suspends
<1> QED BY <1>0, <1>5, <1>6 DEF Counted, Running

LEMMA CreateCounted ==
    ASSUME Smooth, Calm, Calm', Counted, CreateLeaves
    PROVE  Counted'
<1>1. /\ call = "new" /\ engine' = NewEngine /\ calls' = calls /\ locals' = 4
      /\ \/ Status(NewEngine) = "NEED_TASK" /\ Aborts
         \/ /\ Status(NewEngine) # "NEED_TASK" /\ call' = "authenticate"
            /\ stack' = Callees(Status(NewEngine)) \o <<"ret">>
  BY DEF CreateLeaves, Create, Leaves, Counted
<1>2. /\ NewEngine \in Engines /\ NewEngine.in = "open" /\ NewEngine.out = "open"
      /\ NewEngine.tx = 0 /\ NewEngine.recs = 0
  BY NewEngineType DEF NewEngine
<1>3. /\ call' = "authenticate" /\ stack' = Callees(Status(NewEngine)) \o <<"ret">>
      /\ ~Handshaking(NewEngine) => Status(NewEngine) = "NOT_HANDSHAKING"
  BY <1>1, <1>2, ScriptAsks
<1>4. Loaded'
  <2>1. CASE ~Handshaking(NewEngine)
    <3>1. stack' = <<"ret">>
      BY <1>3, <2>1, JoinedFrames DEF Callees
    <3> QED BY <3>1 DEF Loaded, OnTop
  <2>2. CASE Handshaking(NewEngine)
    BY <1>1, <2>2 DEF Loaded
  <2> QED BY <2>1, <2>2
<1>5. Bounded'
  <2>1. ~Receives(stack')
    BY <1>3 DEF Calm, Safe, Control
  <2>2. calls \in Nat /\ RecLen \in Nat
    BY EngineAssumption DEF Calm, Safe, TypeOK
  <2>3. /\ Short(netOut', PacketSize) \in {0, 1} /\ Short(appIn', AppSize) \in {0, 1}
        /\ Owes' = 0 /\ Base' = 4
    BY <1>3, <2>1 DEF Short, Owes, Base
  <2>4. engine'.tx = 0 * RecLen /\ engine'.recs = 0
    BY <1>1, <1>2, <2>2
  <2>5. Due' <= 2 * 0 + 2
    BY <1>1, <2>2, <2>3, <2>4 DEF Due, Spare
  <2> QED BY <2>4, <2>5 DEF Bounded
<1> QED BY <1>1, <1>3, <1>4, <1>5 DEF Counted

LEMMA OthersCounted ==
    ASSUME Smooth, Calm, Calm', Counted, OthersLeave
    PROVE  Counted'
<1>0. /\ locals' = locals /\ locals \in Int /\ Bounded /\ TypeOK /\ TypeOK'
      /\ locals' \in Int /\ stack # <<>> => call \in Running
      /\ \/ ReadAgain \/ WrapRest \/ (\E n \in SendSizes : Write(n))
         \/ Read \/ Dispose \/ Peer
  BY NothingEnds DEF OthersLeave, Counted, Calm, Safe, Control
<1>t. DueTyped /\ DueTyped'
  BY <1>0, DueTypes
<1>1. ASSUME UNCHANGED <<engine, netOut, appIn>>, Base' = Base, calls + Owes' <= calls' + Owes,
             call' = "new" => call = "new", Loaded'
      PROVE  Counted'
  <2>1. calls + Spare' <= calls' + Spare
    <3>1. /\ Short(netOut', PacketSize) = Short(netOut, PacketSize)
          /\ Short(appIn', AppSize) = Short(appIn, AppSize)
      BY <1>1
    <3>2. calls \in Int /\ calls' \in Int
      BY <1>t DEF DueTyped
    <3> QED BY <1>0, <1>1, <1>t, <3>1, <3>2, SpareSum
  <2>2. Due' <= Due + 2 * 0
    <3>a. Grows(0)
      BY <1>0, <1>1, <1>t, <2>1, GrowsBy
    <3>b. Due' <= Due + 0
      BY <1>0, <1>t, <3>a, DueLess
    <3> QED BY <1>t, <3>b DEF DueTyped
  <2>3. Bounded'
    BY <1>0, <1>1, <2>2, DuePaid
  <2> QED BY <1>0, <1>1, <2>3 DEF Counted
<1>2. CASE ReadAgain \/ WrapRest
  <2>1. /\ stack # <<>> /\ UNCHANGED <<engine, netOut, appIn, appOut, call, calls>>
        /\ Head(stack) \in {"receiveRest", "wrapRest"}
    BY <1>2 DEF ReadAgain, WrapRest, Top, streamVars, callerVars
  <2>2. Receives(stack') => Receives(stack)
    BY <1>2, <2>1, OwesNoMore DEF Next, StreamStep
  <2>3. calls + Owes' <= calls' + Owes /\ Base' = Base
    BY <1>t, <2>1, <2>2 DEF DueTyped, Owes, Base
  <2>4. Loaded'
    <3>1. \/ CallsOn("receive", "ret") \/ Turns("ret")
          \/ CallsOn("doWrap", "ret") /\ appOut.pos > 0
      BY <1>2, <2>1 DEF ReadAgain, WrapRest, CallsOn, Turns
    <3>2. Head(stack') \in {"receive", "ret"} \/ appOut'.pos > 0
      BY <1>0, <2>1, <3>1, RoomNext DEF Frames, Resting
    <3> QED BY <3>2 DEF Loaded, OnTop
  <2> QED BY <1>0, <1>1, <2>1, <2>3, <2>4 DEF Running
<1>3. CASE (\E n \in SendSizes : Write(n)) \/ Read
  <2>1. /\ call = "idle" /\ calls' = calls + 1 /\ UNCHANGED <<engine, netOut, appIn>>
        /\ call' \in {"send", "receive", "aborted"}
    BY <1>3 DEF Write, Read, Enter, Aborts, streamVars
  <2>2. calls + Owes' <= calls' + Owes /\ Base' = Base
    BY <1>t, <2>1 DEF DueTyped, Owes, Base
  <2>3. Loaded'
    <3>1. ASSUME NEW n \in SendSizes, Write(n) PROVE appOut'.pos > 0
      <4>1. n \in Nat \ {0} /\ accepted \in Nat
        BY <1>0, TlsStreamAssumption DEF TypeOK
      <4>2. call' # "aborted"
        BY DEF Calm, Course, Peace
      <4>3. appOut' = Put(appOut, Span(accepted, n))
        BY <3>1, <4>2 DEF Write, Aborts
      <4>4. appOut.pos \in Nat /\ Len(Span(accepted, n)) = n
        BY <1>0, <4>1, BuffersGood, SpanProperties DEF GoodBuffer, ByteBuffers
      <4> QED BY <4>1, <4>3, <4>4 DEF Put
    <3>2. ASSUME Read PROVE Head(stack') = "receive"
      BY <3>2 DEF Read
    <3> QED BY <1>3, <3>1, <3>2 DEF Loaded, OnTop
  <2> QED BY <1>1, <2>1, <2>2, <2>3
<1>4. CASE Dispose
  <2>1. /\ call = "idle" /\ call' = "disposed"
        /\ UNCHANGED <<engine, netOut, appIn, stack, calls>>
    BY <1>4 DEF Dispose, streamVars
  <2>2. stack' = <<>>
    BY <1>0, <2>1 DEF Running
  <2>3. calls + Owes' <= calls' + Owes /\ Base' = Base /\ Loaded'
    BY <1>t, <2>1, <2>2 DEF DueTyped, Owes, Base, Loaded, OnTop
  <2> QED BY <1>1, <2>1, <2>3
<1>5. CASE Peer
  <2>1. UNCHANGED <<engine, netOut, appIn, appOut, stack, call, calls>>
    BY <1>5 DEF Peer, streamVars, callerVars
  <2>2. calls + Owes' <= calls' + Owes /\ Base' = Base /\ Loaded'
    BY <1>t, <2>1 DEF DueTyped, Owes, Base, Loaded, OnTop, Counted
  <2> QED BY <1>1, <2>1, <2>2
<1> QED BY <1>0, <1>2, <1>3, <1>4, <1>5

LEMMA CountedStep ==
    Smooth /\ EnoughStack /\ Calm /\ Counted /\ [RefNext]_refVars => Calm' /\ Counted'
<1> SUFFICES ASSUME Smooth, EnoughStack, Calm, Counted, [RefNext]_refVars
             PROVE  Calm' /\ Counted'
  OBVIOUS
<1>1. [Next]_vars
  BY DEF RefNext, refVars, CreateLeaves, ReturnLeaves, WrapLeaves, UnwrapLeaves, ReadLeaves,
         OthersLeave, Next, StreamStep, Caller
<1>2. Calm'
  BY <1>1, CalmStep
<1>3. CASE RefNext
  BY <1>2, <1>3, CreateCounted, ReturnCounted, WrapCounted, UnwrapCounted, ReadCounted,
     OthersCounted DEF RefNext
<1>4. CASE UNCHANGED refVars
  <2>1. UNCHANGED <<engine, netOut, appIn, appOut, stack, call, calls, locals>>
    BY <1>4 DEF refVars, vars, streamVars, callerVars
  <2> QED BY <1>2, <2>1 DEF Counted, Bounded, Due, Spare, Owes, Base, Loaded, OnTop
<1> QED BY <1>2, <1>3, <1>4

LEMMA InitCounted == Smooth /\ RefInit => Calm /\ Counted
<1> SUFFICES ASSUME Smooth, RefInit PROVE Calm /\ Counted
  OBVIOUS
<1>1. Calm /\ locals = 1 /\ engine = NewEngine /\ stack = <<>> /\ call = "new" /\ calls = 0
  BY InitCalm DEF RefInit, Init
<1>2. engine.tx = 0 /\ engine.recs = 0 /\ ~Receives(stack)
  BY <1>1, RangeOne DEF NewEngine, Receives
<1>3. /\ Short(netOut, PacketSize) \in {0, 1} /\ Short(appIn, AppSize) \in {0, 1}
      /\ Owes = 0 /\ Base = 1
  BY <1>1, <1>2 DEF Short, Owes, Base
<1>4. Due <= 2 * 0 + 2 /\ engine.tx = 0 * RecLen
  <2>1. RecLen \in Nat
    BY EngineAssumption
  <2> QED BY <1>1, <1>2, <1>3, <2>1 DEF Due, Spare
<1>5. Bounded
  BY <1>4 DEF Bounded
<1> QED BY <1>1, <1>5 DEF Counted, Loaded, OnTop

LEMMA CountedBounds == Calm /\ Counted => LocalsBounded
<1> SUFFICES ASSUME Calm, Counted PROVE LocalsBounded
  OBVIOUS
<1>1. /\ locals \in Int /\ Base \in Int /\ engine.recs \in Nat /\ calls \in Nat
      /\ engine.tx \in Nat /\ RecLen \in Nat \ {0} /\ Spare \in Nat
  <2>1. DueTyped
    BY DueType DEF Calm, Safe, Counted
  <2> QED BY <2>1 DEF DueTyped, Counted
<1>2. PICK written \in Nat : engine.tx = written * RecLen /\ Due <= 2 * written + 2
  BY DEF Counted, Bounded
<1>3. written <= engine.tx
  <2>1. RecLen - 1 \in Nat
    BY <1>1
  <2>2. written * (RecLen - 1) \in Nat
    BY <2>1
  <2>3. written * RecLen = written * (RecLen - 1) + written
    BY <1>1
  <2> QED BY <1>2, <2>2, <2>3
<1>4. locals <= Base + 2 * written + engine.recs + calls + 2
  BY <1>1, <1>2 DEF Due
<1> QED BY <1>1, <1>2, <1>3, <1>4 DEF LocalsBounded

(* With a peer that plays the protocol, whole records and messages that    *)
(* fit, a call of SSLStreamNative() leaves no more local references than   *)
(* two for each record it writes, one for each that it reads, one for each *)
(* call and six: neither the depth of the recursion nor its retries add to *)
(* them.  They grow with the conversation all the same, and are not held   *)
(* to the 16 that JNI gives room for.                                      *)
THEOREM LocalsAreBounded == Smooth /\ EnoughStack => (RefSpec => []LocalsBounded)
<1> SUFFICES ASSUME Smooth, EnoughStack PROVE RefSpec => []LocalsBounded
  OBVIOUS
<1>1. RefInit => Calm /\ Counted
  BY InitCounted
<1>2. (Calm /\ Counted) /\ [RefNext]_refVars => (Calm /\ Counted)'
  BY CountedStep
<1>3. Calm /\ Counted => LocalsBounded
  BY CountedBounds
<1> QED BY <1>1, <1>2, <1>3, PTL DEF RefSpec

=============================================================================
