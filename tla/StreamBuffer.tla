---------------------------- MODULE StreamBuffer ----------------------------
(***************************************************************************)
(* The FIFO between two streaming accelerators (stream_buffer.cc/.hh): one *)
(* writes to its port streamIn, the other reads from streamOut.  A buffer  *)
(* is the sequence of the bytes in it.  tvalid() tells the master port     *)
(* whether a packet can be taken; the panics of readStream() and           *)
(* writeStream() are reached only by a packet for which it is false.       *)
(***************************************************************************)
EXTENDS Integers, Sequences

CONSTANT BufferSize    \* fifoSize, in bytes

ASSUME BufferAssumption == BufferSize \in Nat \ {0}

CanReadStream(b, len) == Len(b) >= len

\* Mutant: one byte too many.
CanWriteOneMore(b, len) == Len(b) + len <= BufferSize + 1

CanWriteStream(b, len) == Len(b) + len <= BufferSize

\* streamRead() returns the first bytes; streamWrite() appends.
ReadFromStream(b, len) == SubSeq(b, 1, len)
ReadStream(b, len) == SubSeq(b, len + 1, Len(b))
WriteStream(b, bytes) == b \o bytes
=============================================================================
