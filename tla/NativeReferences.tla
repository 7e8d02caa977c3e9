-------------------------- MODULE NativeReferences --------------------------
(***************************************************************************)
(* The local references of one call of SSLStreamNative().  JNI frees them  *)
(* when the native method returns to Java, and gives room for 16 of them   *)
(* unless more are asked for, which the code does not do.  Most of those   *)
(* that pal_sslstream.c makes it deletes at once; this module counts the   *)
(* ones it leaves behind, while the stream of PalSslStream runs.           *)
(***************************************************************************)
EXTENDS PalSslStream

VARIABLE locals \* local references that the call has left so far

refVars == <<vars, locals>>

(* ToGRef() deletes inputStream and outputStream, thisObj is left.         *)
RefInit == Init /\ locals = 1

-----------------------------------------------------------------------------

Leaves(n) == locals' = locals + n

(* tlsVerStr, trustAllCertsObj and certManagersArray; tlsVerStr is deleted *)
(* when checkHandshakeStatus() is back.                                    *)
CreateLeaves == Create /\ Leaves(3)
ReturnLeaves ==
    /\ Return
    /\ locals' = IF call = "authenticate" /\ call' = "idle" THEN locals - 1 ELSE locals

(* sslEngineResult, and data of flush() unless netOutBuffer was too small. *)
WrapOverflows == Calls(<<"doWrap">>, <<"wrapOverflow">>)
WrapLeaves == doWrap /\ Leaves(IF WrapOverflows THEN 1 ELSE 2)

(* sslEngineResult, or tmp at the end of the stream.                       *)
UnwrapLeaves ==
    /\ UnwrapBuffered \/ ReadAndUnwrap \/ handleEndOfStream
    /\ Leaves(1)

(* data, when there is some.                                               *)
ReadLeaves == ReadStep /\ Leaves(IF received' # received THEN 1 ELSE 0)

(* The others delete what they make.                                       *)
OthersLeave ==
    /\ \/ ReadAgain \/ WrapRest \/ ReadThrows \/ close \/ CloseRest \/ StackOverflow
       \/ \E n \in SendSizes : Write(n)
       \/ Read \/ Dispose \/ Peer
    /\ UNCHANGED locals

RefNext ==
    \/ CreateLeaves \/ ReturnLeaves
    \/ WrapLeaves \/ UnwrapLeaves \/ ReadLeaves
    \/ OthersLeave

RefSpec == RefInit /\ [][RefNext]_refVars
FairRefSpec == RefSpec /\ WF_vars(StreamStep) /\ WF_vars(PeerAnswers)

-----------------------------------------------------------------------------

(* What Create has left, while it runs and when it has returned.           *)
Base == CASE call = "new" -> 1 [] call = "authenticate" -> 4 [] OTHER -> 3

(* Part of a record waits in netInBuffer.                                  *)
Split == netIn.pos % RecLen # 0

(* The references pile up with the records, two for each one written and   *)
(* one for each one read, one for each call, and one for each of the two   *)
(* buffers that may have to grow, once; neither the depth of the recursion *)
(* nor its retries add to them.  When someone breaks off there is no such  *)
(* bound: at the end of the stream Read and doUnwrap() leave one for each  *)
(* read, until the stack ends; nor when a record was split, which          *)
(* doUnwrap() retries as long.                                             *)
LocalsBounded ==
    \/ BrokenOff \/ Split
    \/ \E written \in 0..engine.tx :
          /\ engine.tx = written * RecLen
          /\ locals <= Base + 2 * written + engine.recs + calls + 2

=============================================================================
