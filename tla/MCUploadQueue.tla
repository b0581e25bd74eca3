---------------------------- MODULE MCUploadQueue ----------------------------
(* Instances of UploadQueue for TLC: chunk bodies are a short and a long    *)
(* one, so that a retry may carry another body and the byte budget may be   *)
(* reached before the count or after it.                                    *)
EXTENDS UploadQueue

CONSTANTS short, long

MCChunk == {short, long}
MCSize == [c \in MCChunk |-> IF c = short THEN 1 ELSE 3]
==============================================================================
