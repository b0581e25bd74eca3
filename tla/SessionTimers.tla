---------------------------- MODULE SessionTimers ----------------------------
(***************************************************************************)
(* The clocks of a session one after the other, as own_session             *)
(* (durable.rs) runs them: the header phase with its deadlines, joined     *)
(* with two reads of the key-value store; the checks and the dials, each   *)
(* with a timer of its own; the payload that came with the header, written *)
(* with no clock at all; then the relays under the supervisor.             *)
(***************************************************************************)
EXTENDS Supervisor, HeaderPhase

CONSTANTS MaxCandidates,   \* candidates of a dial plan
          MaxPieces        \* pieces the leading payload decodes to

ASSUME DialAssumption == MaxCandidates \in Nat \ {0} /\ MaxPieces \in Nat

VARIABLES stage,   \* where own_session is; "over" and "aborted" are its ends
          loads,   \* the reads of the store that have not answered
          todo     \* candidates left to try, then pieces left to write

stageVars == <<stage, loads, todo>>

sessionVars == <<headerVars, vars, stageVars>>

SessionInit ==
    /\ HeaderInit /\ Init
    /\ stage = "joining"
    /\ loads = {"settings", "state"}
    /\ todo = 0

\* The header loop waits, takes a chunk or gives up.
Assemble == HeaderNext /\ UNCHANGED <<vars, stageVars>>

\* The store answers, or fails, which counts as nothing known.
LoadAnswers ==
    /\ \E k \in loads : loads' = loads \ {k}
    /\ UNCHANGED <<headerVars, vars, stage, todo>>

\* join3: nothing goes on before the header phase and both reads are done.
Joined == stage = "joining" /\ status # "waiting" /\ loads = {}

\* No header, or one that the second reading or a check behind it refuses.
RefuseSession ==
    /\ Joined
    /\ stage' = "over"
    /\ UNCHANGED <<headerVars, vars, loads, todo>>

\* The body mode cannot be framed: own_session returns past its finalizer.
Abandon ==
    /\ Joined /\ status = "complete"
    /\ stage' = "aborted"
    /\ UNCHANGED <<headerVars, vars, loads, todo>>

StartDials ==
    /\ Joined /\ status = "complete"
    /\ stage' = "dialing"
    /\ todo' \in 1..MaxCandidates
    /\ UNCHANGED <<headerVars, vars, loads>>

\* mutant: the candidate with nothing to fall back to is dialled with no timer
BugSingleUnbounded ==
    /\ stage = "dialing" /\ todo > 1
    /\ todo' = todo - 1
    /\ UNCHANGED <<headerVars, vars, stage, loads>>

\* A candidate is refused, fails its handshake or runs into its timer.
CandidateFails ==
    /\ stage = "dialing"
    /\ todo' = todo - 1
    /\ stage' = IF todo = 1 THEN "over" ELSE stage
    /\ UNCHANGED <<headerVars, vars, loads>>

\* A candidate answers, and the leading payload is decoded: into pieces to
\* write first, into none, or not at all.
Connected ==
    /\ stage = "dialing"
    /\ \/ \E n \in 1..MaxPieces : stage' = "leading" /\ todo' = n
       \/ stage' \in {"relaying", "over"} /\ todo' = 0
    /\ UNCHANGED <<headerVars, vars, loads>>

\* The destination takes one piece, or the write fails.
LeadingWrite ==
    /\ stage = "leading"
    /\ todo' = todo - 1
    /\ stage' \in {"over", IF todo = 1 THEN "relaying" ELSE stage}
    /\ UNCHANGED <<headerVars, vars, loads>>

\* The supervised relays.
Relay ==
    /\ stage = "relaying" /\ Next
    /\ stage' = IF decision' = "EndSession" THEN "over" ELSE stage
    /\ UNCHANGED <<headerVars, loads, todo>>

SessionNext ==
    \/ Assemble \/ LoadAnswers
    \/ RefuseSession \/ Abandon \/ StartDials
    \/ CandidateFails \/ Connected \/ LeadingWrite
    \/ Relay

(***************************************************************************)
(* Timers fire: those of the header phase, of a handshake and of the       *)
(* supervisor; and what the task does without waiting for anyone it does.  *)
(* Nothing is assumed of the store, of the client or of a destination.     *)
(***************************************************************************)
SessionSpec ==
    /\ SessionInit /\ [][SessionNext]_sessionVars
    /\ WF_sessionVars(HeaderTick /\ UNCHANGED <<vars, stageVars>>)
    /\ WF_sessionVars(TimeOut /\ UNCHANGED <<vars, stageVars>>)
    /\ WF_sessionVars(RefuseSession \/ Abandon \/ StartDials)
    /\ WF_sessionVars(CandidateFails)
    /\ WF_sessionVars(TimerTick /\ Relay)
-----------------------------------------------------------------------------
(***************************************************************************)
(* Where own_session waits with no clock of its own: for a read of the     *)
(* store after the header phase is over, and for a destination that does   *)
(* not take the leading payload, before there is a supervisor.             *)
(***************************************************************************)
AwaitsStore == stage = "joining" /\ status # "waiting" /\ loads # {}

AwaitsLeadingWrite == stage = "leading"

(***************************************************************************)
(* A session that stops moving bytes for good is over, whichever phase it  *)
(* is in: given up by a deadline of the header phase, after its last       *)
(* handshake timed out, or by the idle timer (deadlines.rs, connect.rs,    *)
(* supervise.rs).  The exceptions are named, and there are three: it stays *)
(* where no clock runs, waiting for the store or in its leading write, or  *)
(* it was abandoned without the finalizer that ends a session.             *)
(***************************************************************************)
SilenceEnds ==
    <>[][~(UpBytes \/ DownBytes)]_sessionVars
        => \/ <>(stage \in {"over", "aborted"})
           \/ <>[]AwaitsStore
           \/ <>[]AwaitsLeadingWrite

(***************************************************************************)
(* The supervisor takes over a session whose header is complete and whose  *)
(* settings are loaded, with nothing on its clock of the time that took,   *)
(* and its verdict is the end of the relays.                               *)
(***************************************************************************)
HandOver ==
    /\ stage \in {"joining", "dialing", "leading", "relaying", "over", "aborted"}
    /\ stage \in {"dialing", "leading"} => todo \in Nat \ {0}
    /\ stage \notin {"joining", "over"} => status = "complete" /\ loads = {}
    /\ stage \notin {"relaying", "over"} =>
          sup = NewSupervisor /\ decision = "Continue" /\ silence = 0
    /\ stage = "relaying" => decision # "EndSession"
==============================================================================
