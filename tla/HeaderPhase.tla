----------------------------- MODULE HeaderPhase -----------------------------
(***************************************************************************)
(* The phase that assembles a session's protocol header: header_phase in   *)
(* own_session (durable.rs) with the deadlines of deadlines.rs.  Time is   *)
(* counted in units of 1/Res second, because the code measures elapsed     *)
(* time in milliseconds and hands whole seconds to the deadline.           *)
(***************************************************************************)
EXTENDS Integers

CONSTANTS Res,         \* time units in a second
          First,       \* FIRST_CHUNK_SECS
          Later,       \* NEXT_CHUNK_SECS
          Total,       \* TOTAL_BUDGET_SECS
          MaxHeader,   \* MAX_HEADER_BYTES
          ChunkSizes   \* bytes a chunk may carry; 0 is an empty POST body

ASSUME TimeAssumption ==
    /\ Res \in Nat \ {0}
    /\ First \in Nat \ {0} /\ Later \in Nat \ {0} /\ Total \in Nat \ {0}
ASSUME SizeAssumption == MaxHeader \in Nat /\ ChunkSizes \subseteq Nat

VARIABLES elapsed,   \* units since the phase started
          waitEnd,   \* when the timer of the current wait fires
          len,       \* header bytes so far
          lastChunk, \* history: when the last chunk arrived, 0 before any did
          status     \* "waiting", "complete" (header parsed) or "refused"

headerVars == <<elapsed, waitEnd, len, lastChunk, status>>

\* mutant: the remaining budget no longer clamps the wait for a chunk
BugUnclamped(empty, t) ==
    IF t \div Res >= Total THEN 0 ELSE IF empty THEN First ELSE Later

\* mutant: every chunk gets the bound of the first one
BugFlatTimer(empty, t) ==
    LET remaining == Total - t \div Res
    IN  IF t \div Res >= Total THEN 0
        ELSE IF First <= remaining THEN First ELSE remaining

\* header_deadline: whole seconds to wait, 0 when the budget is spent.
HeaderDeadline(empty, t) ==
    LET remaining == Total - t \div Res
        perChunk  == IF empty THEN First ELSE Later
    IN  IF t \div Res >= Total THEN 0
        ELSE IF perChunk <= remaining THEN perChunk ELSE remaining

HeaderTypeOK ==
    /\ elapsed \in Nat /\ waitEnd \in Nat /\ lastChunk \in Nat
    /\ lastChunk <= elapsed /\ elapsed <= waitEnd
    /\ len \in 0..MaxHeader
    /\ status \in {"waiting", "complete", "refused"}

HeaderInit ==
    /\ elapsed = 0
    /\ len = 0
    /\ lastChunk = 0
    /\ waitEnd = Res * HeaderDeadline(TRUE, 0)
    /\ status = "waiting"

HeaderTick ==
    /\ status = "waiting" /\ elapsed < waitEnd
    /\ elapsed' = elapsed + 1
    /\ UNCHANGED <<waitEnd, len, lastChunk, status>>

\* The timer wins the race: no chunk came in time.
TimeOut ==
    /\ status = "waiting" /\ elapsed = waitEnd
    /\ status' = "refused"
    /\ UNCHANGED <<elapsed, waitEnd, len, lastChunk>>

\* A chunk of n bytes arrives and is appended.
Arrive(n) ==
    /\ status = "waiting"
    /\ lastChunk' = elapsed
    /\ UNCHANGED elapsed

FitsHeader(n) == len + n <= MaxHeader

\* The header grew past its limit, or no enabled protocol can match it.
Reject ==
    \E n \in ChunkSizes :
       /\ Arrive(n)
       /\ len' = IF FitsHeader(n) THEN len + n ELSE len
       /\ status' = "refused"
       /\ UNCHANGED waitEnd

\* The header parses; an empty one never does.
Complete ==
    \E n \in ChunkSizes :
       /\ Arrive(n) /\ FitsHeader(n) /\ len + n > 0
       /\ len' = len + n
       /\ status' = "complete"
       /\ UNCHANGED waitEnd

\* A valid prefix: wait for more, if any of the budget is left.
Incomplete ==
    \E n \in ChunkSizes :
       /\ Arrive(n) /\ FitsHeader(n)
       /\ len' = len + n
       /\ LET wait == HeaderDeadline(len' = 0, elapsed)
          IN  IF wait = 0
              THEN status' = "refused" /\ UNCHANGED waitEnd
              ELSE UNCHANGED status /\ waitEnd' = elapsed + Res * wait

HeaderNext == HeaderTick \/ TimeOut \/ Reject \/ Complete \/ Incomplete

HeaderSpec == HeaderInit /\ [][HeaderNext]_headerVars
-----------------------------------------------------------------------------
(***************************************************************************)
(* Arriving chunks never extend the whole phase: however the bytes are     *)
(* dripped, it is over less than one second after its budget.  The second  *)
(* is what truncating the elapsed time to whole seconds costs.             *)
(***************************************************************************)
PhaseBounded == elapsed < Res * (Total + 1) /\ waitEnd < Res * (Total + 1)

(***************************************************************************)
(* A client that goes silent after sending header bytes is given up within *)
(* NEXT_CHUNK_SECS of its last chunk, and within FIRST_CHUNK_SECS when all *)
(* it sent was empty.                                                      *)
(***************************************************************************)
SilenceBounded ==
    status = "waiting" =>
        elapsed - lastChunk <= Res * (IF len > 0 THEN Later ELSE First)
=============================================================================
