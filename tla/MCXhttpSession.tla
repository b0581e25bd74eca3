--------------------------- MODULE MCXhttpSession ---------------------------
(* Instances of XhttpSession for TLC.  A POST is a pair of its sequence     *)
(* number and which try it is, so a retry is another POST of that number.   *)
EXTENDS XhttpSession

CONSTANTS MaxChunk,  \* sequence numbers are 0..MaxChunk
          Tries      \* POSTs the client sends, as <<number, try>> pairs

MCChunk == 0..MaxChunk
MCSize == [c \in MCChunk |-> 1]
MCPostSeq == [p \in Tries |-> p[1]]

\* A window of four chunks with one retry, sent without waiting for answers.
Concurrent == {<<0, 1>>, <<0, 2>>, <<1, 1>>, <<2, 1>>, <<3, 1>>}
Four == {<<0, 1>>, <<1, 1>>, <<2, 1>>, <<3, 1>>}
Two == {<<0, 1>>, <<1, 1>>}
One == {<<0, 1>>}
=============================================================================
