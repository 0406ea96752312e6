-------------------------- MODULE MCStreamPipeline --------------------------
(***************************************************************************)
(* An instance of StreamPipeline: two stages, three frames of two bytes    *)
(* read, two of three bytes written, to the same place.                    *)
(***************************************************************************)
EXTENDS StreamPipeline

PerDir(r, w) == [d \in Dirs |-> IF d = "rd" THEN r ELSE w]

MCFrameSize == PerDir(2, 3)
MCNumFrames == PerDir(3, 2)
MCFrameBuffSize == PerDir(2, 1)
MCIntFrames == PerDir(1, 2)
MCBase == PerDir(0, 20)
MCInSize == <<1, 2>>
MCOutSize == <<2, 1>>
=============================================================================
