----------------------------- MODULE Supervisor -----------------------------
(***************************************************************************)
(* The supervisor driven by every sequence of events the two pumps and the *)
(* one-second timer can produce: bytes in either direction while the pump  *)
(* that reports them runs, one completion per pump, and ticks.             *)
(* (supervise.rs; the loop that feeds it is own_session in durable.rs.)    *)
(***************************************************************************)
EXTENDS SupervisorOps

VARIABLES sup,       \* the Supervisor
          decision,  \* its last decision
          pumps,     \* the pumps that still run: a subset of {"up", "down"}
          silence    \* history: ticks since bytes last moved, up to IdleTimeout + 1

vars == <<sup, decision, pumps, silence>>

TypeOK ==
    /\ sup \in [up_done : BOOLEAN, down_done : BOOLEAN, active : BOOLEAN,
                idle_secs : 0..IdleTimeout]
    /\ decision \in {"Continue", "CloseUpstream", "EndSession"}
    /\ pumps \subseteq {"up", "down"}
    /\ silence \in Nat

Init ==
    /\ sup = NewSupervisor
    /\ decision = "Continue"
    /\ pumps = {"up", "down"}
    /\ silence = 0

\* The owner folds one event and leaves its loop on EndSession.
On(e) ==
    /\ decision # "EndSession"
    /\ sup' = After(sup, e)
    /\ decision' = Decision(sup, e)

UpBytes   == "up" \in pumps /\ On("UpBytes") /\ silence' = 0 /\ UNCHANGED pumps
DownBytes == "down" \in pumps /\ On("DownBytes") /\ silence' = 0 /\ UNCHANGED pumps

\* silence stops counting past the timeout.
TimerTick ==
    /\ On("TimerTick")
    /\ silence' = IF silence <= IdleTimeout THEN silence + 1 ELSE silence
    /\ UNCHANGED pumps

Poisoned  == "up" \in pumps /\ On("Poisoned") /\ UNCHANGED <<pumps, silence>>

UpDone ==
    "up" \in pumps /\ On("UpDone") /\ pumps' = pumps \ {"up"} /\ UNCHANGED silence

DownDone ==
    /\ "down" \in pumps
    /\ \E e \in WindDown \cup {"ReceiverGone"} : On(e)
    /\ pumps' = pumps \ {"down"}
    /\ UNCHANGED silence

Next == UpBytes \/ DownBytes \/ TimerTick \/ Poisoned \/ UpDone \/ DownDone

Spec == Init /\ [][Next]_vars
-----------------------------------------------------------------------------
(***************************************************************************)
(* A session that is moving bytes is never killed by the timer, and a      *)
(* silent one does not outlive the timeout by more than the one tick that  *)
(* the activity mark absorbs.  The counter is cleared twice, by the bytes  *)
(* and again by the tick that consumes the mark, so the two must agree.    *)
(***************************************************************************)
OnlySilenceIsKilled ==
    /\ decision = "EndSession" /\ sup.idle_secs = IdleTimeout
          => silence >= IdleTimeout
    /\ decision # "EndSession" => silence <= IdleTimeout

(***************************************************************************)
(* No pump is waited for that has already finished: the session is ended   *)
(* by the completion of its last pump, in whichever order the two finish,  *)
(* and the two flags of the supervisor never disagree with the pumps.      *)
(***************************************************************************)
EndsWithTheLastPump ==
    /\ pumps = {} => decision = "EndSession"
    /\ sup.up_done <=> "up" \notin pumps
    /\ sup.down_done <=> "down" \notin pumps

(***************************************************************************)
(* Closing the upstream is asked for at most once, by the downlink that    *)
(* finished first, and only while there is an upstream left to close.      *)
(***************************************************************************)
CloseUpstreamOnce ==
    [][decision' = "CloseUpstream" => "up" \in pumps' /\ ~sup.down_done]_vars
=============================================================================
