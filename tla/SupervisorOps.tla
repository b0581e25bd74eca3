--------------------------- MODULE SupervisorOps ---------------------------
(***************************************************************************)
(* The teardown table of one session as a pure function:                   *)
(* src/src/transport/xhttp/supervise.rs.  A supervisor is a record with    *)
(* the fields of struct Supervisor; an event gives the supervisor          *)
(* afterwards and a decision.                                              *)
(***************************************************************************)
EXTENDS Naturals

CONSTANT IdleTimeout   \* IDLE_TIMEOUT_SECS

ASSUME IdleTimeoutAssumption == IdleTimeout \in Nat \ {0}

\* The reasons of DownExit that let the other direction wind down.
WindDown == {"Eof", "ReadError", "EncodeFailed"}

Bytes == {"UpBytes", "DownBytes"}

Event == Bytes \cup {"UpDone", "Poisoned", "TimerTick", "ReceiverGone"} \cup WindDown

NewSupervisor ==
    [up_done |-> FALSE, down_done |-> FALSE, active |-> FALSE, idle_secs |-> 0]

\* mutant: the tick that sees an active second does not consume the mark
BugMarkNeverConsumed(s, e) ==
    CASE e \in Bytes -> [s EXCEPT !.active = TRUE, !.idle_secs = 0]
      [] e = "TimerTick" /\ s.active -> [s EXCEPT !.idle_secs = 0]
      [] e = "TimerTick" /\ ~s.active -> [s EXCEPT !.idle_secs = @ + 1]
      [] e = "UpDone" -> [s EXCEPT !.up_done = TRUE]
      [] e \in WindDown \cup {"ReceiverGone"} -> [s EXCEPT !.down_done = TRUE]
      [] OTHER -> s

\* mutant: only bytes towards the destination count as activity
BugDownBytesIgnored(s, e) ==
    CASE e = "UpBytes" -> [s EXCEPT !.active = TRUE, !.idle_secs = 0]
      [] e = "TimerTick" /\ s.active -> [s EXCEPT !.active = FALSE, !.idle_secs = 0]
      [] e = "TimerTick" /\ ~s.active -> [s EXCEPT !.idle_secs = @ + 1]
      [] e = "UpDone" -> [s EXCEPT !.up_done = TRUE]
      [] e \in WindDown \cup {"ReceiverGone"} -> [s EXCEPT !.down_done = TRUE]
      [] OTHER -> s

\* Supervisor::on, the state it leaves.
After(s, e) ==
    CASE e \in Bytes -> [s EXCEPT !.active = TRUE, !.idle_secs = 0]
      [] e = "TimerTick" /\ s.active -> [s EXCEPT !.active = FALSE, !.idle_secs = 0]
      [] e = "TimerTick" /\ ~s.active -> [s EXCEPT !.idle_secs = @ + 1]
      [] e = "UpDone" -> [s EXCEPT !.up_done = TRUE]
      [] e \in WindDown \cup {"ReceiverGone"} -> [s EXCEPT !.down_done = TRUE]
      [] OTHER -> s

\* mutant: the second pump to finish no longer ends the session
BugLastPumpContinues(s, e) ==
    IF \/ e \in {"Poisoned", "ReceiverGone"}
       \/ e = "TimerTick" /\ ~s.active /\ s.idle_secs + 1 >= IdleTimeout
    THEN "EndSession"
    ELSE IF e \in WindDown THEN "CloseUpstream" ELSE "Continue"

\* mutant: a finished downlink closes the upstream even when it is gone
BugClosesGoneUpstream(s, e) ==
    IF \/ e \in {"Poisoned", "ReceiverGone"}
       \/ e = "TimerTick" /\ ~s.active /\ s.idle_secs + 1 >= IdleTimeout
       \/ e = "UpDone" /\ s.down_done
    THEN "EndSession"
    ELSE IF e \in WindDown THEN "CloseUpstream" ELSE "Continue"

\* Supervisor::on, the decision.
Decision(s, e) ==
    IF \/ e \in {"Poisoned", "ReceiverGone"}
       \/ e = "TimerTick" /\ ~s.active /\ s.idle_secs + 1 >= IdleTimeout
       \/ e = "UpDone" /\ s.down_done
       \/ e \in WindDown /\ s.up_done
    THEN "EndSession"
    ELSE IF e \in WindDown THEN "CloseUpstream" ELSE "Continue"
=============================================================================
