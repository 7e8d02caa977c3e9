----------------------------- MODULE ByteBuffer -----------------------------
(***************************************************************************)
(* java.nio.ByteBuffer as the stream classes use it.  The library is not   *)
(* part of the repository: these operators model the calls that            *)
(* SSLStream.java and pal_sslstream.c make on their four buffers.          *)
(*                                                                         *)
(* A byte is its offset in the stream it belongs to (1, 2, 3, ...), so     *)
(* that "no byte lost, repeated or reordered" says that a buffer holds a   *)
(* Span.  "mem" keeps the bytes below the limit that were written; bytes   *)
(* above it can never be read again, because both flip and compact forget  *)
(* them, so they are not represented.                                      *)
(***************************************************************************)
EXTENDS Integers, Sequences

ByteBuffers == [mem : Seq(Nat), pos : Nat, lim : Nat, cap : Nat]

(* The n bytes that follow offset `from' in a stream.                      *)
Span(from, n) == [i \in 1..n |-> from + i]

(* What the position, limit and capacity of a Java buffer always satisfy.  *)
WellFormed(b) ==
    /\ b.pos <= b.lim
    /\ b.lim <= b.cap
    /\ b.pos <= Len(b.mem)
    /\ Len(b.mem) <= b.lim

(* Every byte between position and limit was written: get() is meaningful. *)
Readable(b) == b.lim = Len(b.mem)

(* The buffer is ready for put(): everything written lies below position.  *)
Fillable(b) == b.lim = b.cap /\ Len(b.mem) = b.pos

Allocate(n) == [mem |-> <<>>, pos |-> 0, lim |-> n, cap |-> n]

Remaining(b) == b.lim - b.pos

Unread(b) == SubSeq(b.mem, b.pos + 1, b.lim)

Flip(b) == [mem |-> SubSeq(b.mem, 1, b.pos),
            pos |-> 0, lim |-> b.pos, cap |-> b.cap]

Compact(b) == [mem |-> Unread(b),
               pos |-> Remaining(b), lim |-> b.cap, cap |-> b.cap]

(* put(bytes), defined when Len(bytes) <= Remaining(b); otherwise the call *)
(* throws BufferOverflowException and leaves b as it was.                  *)
Put(b, bytes) ==
    LET end == b.pos + Len(bytes)
    IN  [mem |-> SubSeq(b.mem, 1, b.pos) \o bytes
                     \o SubSeq(b.mem, end + 1, Len(b.mem)),
         pos |-> end, lim |-> b.lim, cap |-> b.cap]

(* get(byte[n]): the caller takes SubSeq(Unread(b), 1, n).                 *)
Skip(b, n) == [b EXCEPT !.pos = @ + n]

=============================================================================
