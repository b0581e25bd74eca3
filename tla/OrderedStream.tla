---------------------------- MODULE OrderedStream ----------------------------
(***************************************************************************)
(* What the uplink reassembly promises, without its budgets or its buffer: *)
(* the client's chunks are accepted at most once each, in any order, and   *)
(* what has been delivered is at every moment the longest contiguous       *)
(* prefix of what has been accepted.                                       *)
(***************************************************************************)
EXTENDS Naturals, Sequences

CONSTANTS Seqs,    \* the sequence numbers a client may use
          Chunk    \* the chunk bodies it may send

VARIABLES accepted,   \* partial function: sequence number -> accepted chunk
          delivered   \* the chunks handed to the socket owner, in order

vars == <<accepted, delivered>>

\* The delivered sequence d is a prefix of the stream f, and nothing more of f could be
\* delivered.
LongestPrefix(d, f) ==
    /\ \A i \in 1..Len(d) : (i - 1) \in DOMAIN f /\ d[i] = f[i - 1]
    /\ Len(d) \notin DOMAIN f

Init == accepted = <<>> /\ delivered = <<>>

\* Chunk c numbered s is taken, and everything it completes is delivered.
Accept(s, c) ==
    /\ s \notin DOMAIN accepted
    /\ accepted' = [t \in DOMAIN accepted \cup {s} |->
                       IF t = s THEN c ELSE accepted[t]]
    /\ delivered' \in Seq(Chunk)
    /\ LongestPrefix(delivered', accepted')

Next == \E s \in Seqs, c \in Chunk : Accept(s, c)

Spec == Init /\ [][Next]_vars
==============================================================================
