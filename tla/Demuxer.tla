------------------------------ MODULE Demuxer ------------------------------
(***************************************************************************)
(* The demuxer of demuxer.hpp: each word of the feed is written to all the *)
(* blocks, one after the other.  A block whose stream is full holds the    *)
(* word back from the ones after it, and the next word back from all.      *)
(***************************************************************************)
EXTENDS HlsStream

CONSTANTS OutputCount, StreamDepth  \* positive

VARIABLES
  nxbus_in, nxbus_outputs,
  demux_word,  \* the word read, while it is being written
  demux_at     \* the output it is written to next; OutputCount when done

demuxerVars == <<demux_word, demux_at>>

Outputs == 0..(OutputCount - 1)

LocalInit == demux_word = <<>> /\ demux_at = OutputCount

ReadWord ==
  /\ demux_at = OutputCount /\ nxbus_in # <<>>
  /\ demux_word' = <<Head(nxbus_in)>> /\ nxbus_in' = Tail(nxbus_in)
  /\ demux_at' = 0
  /\ UNCHANGED nxbus_outputs

(* Mutant: an output that is full does not get the word. *)
WriteOrDrop ==
  /\ demux_at \in Outputs
  /\ nxbus_outputs' = IF CanWrite(nxbus_outputs[demux_at], StreamDepth)
                      THEN [nxbus_outputs EXCEPT ![demux_at] = Append(@, demux_word[1])]
                      ELSE nxbus_outputs
  /\ demux_at' = demux_at + 1
  /\ demux_word' = IF demux_at' = OutputCount THEN <<>> ELSE demux_word
  /\ UNCHANGED nxbus_in

WriteNext ==
  /\ demux_at \in Outputs
  /\ CanWrite(nxbus_outputs[demux_at], StreamDepth)
  /\ nxbus_outputs' = [nxbus_outputs EXCEPT ![demux_at] = Append(@, demux_word[1])]
  /\ demux_at' = demux_at + 1
  /\ demux_word' = IF demux_at' = OutputCount THEN <<>> ELSE demux_word
  /\ UNCHANGED nxbus_in

p_demux == ReadWord \/ WriteNext
=============================================================================
