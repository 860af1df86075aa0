------------------------------ MODULE HlsStream ------------------------------
(***************************************************************************)
(* The hls::stream FIFOs that connect the processes of top.cpp.  A stream  *)
(* is the sequence of the words written and not yet read.  write() blocks  *)
(* while the FIFO holds its depth; read() is called by the code only after *)
(* empty() returned false.                                                 *)
(***************************************************************************)
EXTENDS Integers, Sequences

(* Mutant: a write that does not wait for room. *)
WriteAnyway(stream, depth) == Len(stream) < depth + 1

(* A write to the stream can complete. *)
CanWrite(stream, depth) == Len(stream) < depth

(* The contents a stream of words of W can have. *)
IsStream(stream, W, depth) == stream \in Seq(W) /\ Len(stream) =< depth

(* The same for an array of streams. *)
IsBus(bus, Ids, W, depth) ==
  bus \in [Ids -> Seq(W)] /\ \A i \in Ids : Len(bus[i]) =< depth
=============================================================================
