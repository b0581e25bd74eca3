------------------------- MODULE SessionTimersProofs -------------------------
(***************************************************************************)
(* Proofs about the two clocks of a session, for every clock resolution,   *)
(* every deadline, every size limit, every set of chunk sizes and every    *)
(* idle timeout.                                                           *)
(*                                                                         *)
(* The header phase is a matter of arithmetic: a wait computed at time t   *)
(* is at most Total - (t \div Res) whole seconds, so it fires before       *)
(* Total + 1 seconds whatever t is; and the time since the last chunk is   *)
(* bounded by the wait that chunk started.                                 *)
(*                                                                         *)
(* In the relays the idle counter is not the silence: the tick that        *)
(* consumes the activity mark is a tick of silence the counter does not    *)
(* see.  The invariant says how far the two can be apart, and that the     *)
(* counter of a session that goes on is below the timeout.                 *)
(*                                                                         *)
(* A session runs them one after the other, with reads, dials and writes   *)
(* in between: each clock, seen by itself, behaves as its own              *)
(* specification says (SessionRunsBothClocks), so that what is proved of a *)
(* clock holds of the session; and the second starts from nothing, after   *)
(* the first is done (HandOver).                                           *)
(***************************************************************************)
EXTENDS SessionTimers, TLAPS

-----------------------------------------------------------------------------
(* The supervisor. *)

CounterTracksSilence ==
    /\ sup.idle_secs <= silence
    /\ silence <= sup.idle_secs + 1
    /\ sup.active => sup.idle_secs = 0 /\ silence = 0
    /\ decision # "EndSession" => sup.idle_secs < IdleTimeout

IInv == TypeOK /\ CounterTracksSilence /\ EndsWithTheLastPump

\* The invariant holds at the start.
LEMMA InitInv == Init => IInv
  BY IdleTimeoutAssumption
     DEF Init, NewSupervisor, IInv, TypeOK, CounterTracksSilence, EndsWithTheLastPump

(***************************************************************************)
(* What one event does to the record, field by field.                      *)
(***************************************************************************)
LEMMA AfterFacts ==
  ASSUME TypeOK, NEW e \in Event, On(e)
  PROVE  /\ sup' \in [up_done : BOOLEAN, down_done : BOOLEAN, active : BOOLEAN,
                      idle_secs : Nat]
         /\ sup'.up_done <=> (sup.up_done \/ e = "UpDone")
         /\ sup'.down_done <=> (sup.down_done \/ e \in WindDown \cup {"ReceiverGone"})
         /\ sup'.active <=> ((sup.active /\ e # "TimerTick") \/ e \in Bytes)
         /\ sup'.idle_secs = IF e \in Bytes THEN 0
                             ELSE IF e # "TimerTick" THEN sup.idle_secs
                             ELSE IF sup.active THEN 0 ELSE sup.idle_secs + 1
<1>. sup \in [up_done : BOOLEAN, down_done : BOOLEAN, active : BOOLEAN, idle_secs : Nat]
  BY IdleTimeoutAssumption DEF TypeOK
<1>1. CASE e \in Bytes
  <2>1. e # "TimerTick" /\ e # "UpDone" /\ e \notin WindDown \cup {"ReceiverGone"}
    BY <1>1 DEF Bytes, WindDown
  <2>2. sup' = [sup EXCEPT !.active = TRUE, !.idle_secs = 0]
    BY <1>1, <2>1 DEF On, After
  <2>. QED
    BY <1>1, <2>1, <2>2
<1>2. CASE e = "TimerTick"
  <2>1. e \notin Bytes /\ e \notin WindDown \cup {"ReceiverGone"}
    BY <1>2 DEF Bytes, WindDown
  <2>2. CASE sup.active
    <3>1. sup' = [sup EXCEPT !.active = FALSE, !.idle_secs = 0]
      BY <1>2, <2>1, <2>2 DEF On, After
    <3>. QED
      BY <1>2, <2>1, <2>2, <3>1
  <2>3. CASE ~sup.active
    <3>1. sup' = [sup EXCEPT !.idle_secs = @ + 1]
      BY <1>2, <2>1, <2>3 DEF On, After
    <3>. QED
      BY <1>2, <2>1, <2>3, <3>1
  <2>. QED
    BY <2>2, <2>3
<1>3. CASE e = "UpDone"
  <2>1. sup' = [sup EXCEPT !.up_done = TRUE]
    BY <1>3 DEF On, After, Bytes, WindDown
  <2>. QED
    BY <1>3, <2>1 DEF Bytes, WindDown
<1>4. CASE e \in WindDown \cup {"ReceiverGone"}
  <2>1. sup' = [sup EXCEPT !.down_done = TRUE]
    BY <1>4 DEF On, After, Bytes, WindDown
  <2>. QED
    BY <1>4, <2>1 DEF Bytes, WindDown
<1>5. CASE e = "Poisoned"
  <2>1. sup' = sup
    BY <1>5 DEF On, After, Bytes, WindDown
  <2>. QED
    BY <1>5, <2>1 DEF Bytes, WindDown
<1>. QED
  BY <1>1, <1>2, <1>3, <1>4, <1>5 DEF Event

\* Every step keeps it.
LEMMA NextInv == IInv /\ [Next]_vars => IInv'
<1>. SUFFICES ASSUME IInv, [Next]_vars PROVE IInv'
  OBVIOUS
<1>1. CASE UpBytes
  BY <1>1, AfterFacts, IdleTimeoutAssumption
     DEF IInv, TypeOK, CounterTracksSilence, EndsWithTheLastPump, UpBytes, On,
         Decision, Event, Bytes, WindDown
<1>2. CASE DownBytes
  BY <1>2, AfterFacts, IdleTimeoutAssumption
     DEF IInv, TypeOK, CounterTracksSilence, EndsWithTheLastPump, DownBytes, On,
         Decision, Event, Bytes, WindDown
<1>3. CASE TimerTick
  BY <1>3, AfterFacts, IdleTimeoutAssumption
     DEF IInv, TypeOK, CounterTracksSilence, EndsWithTheLastPump, TimerTick, On,
         Decision, Event, Bytes, WindDown
<1>4. CASE Poisoned
  BY <1>4, AfterFacts, IdleTimeoutAssumption
     DEF IInv, TypeOK, CounterTracksSilence, EndsWithTheLastPump, Poisoned, On,
         Decision, Event, Bytes, WindDown
<1>5. CASE UpDone
  BY <1>5, AfterFacts, IdleTimeoutAssumption
     DEF IInv, TypeOK, CounterTracksSilence, EndsWithTheLastPump, UpDone, On,
         Decision, Event, Bytes, WindDown
<1>6. CASE DownDone
  BY <1>6, AfterFacts, IdleTimeoutAssumption
     DEF IInv, TypeOK, CounterTracksSilence, EndsWithTheLastPump, DownDone, On,
         Decision, Event, Bytes, WindDown
<1>7. CASE UNCHANGED vars
  BY <1>7 DEF vars, IInv, TypeOK, CounterTracksSilence, EndsWithTheLastPump
<1>. QED
  BY <1>1, <1>2, <1>3, <1>4, <1>5, <1>6, <1>7 DEF Next

(***************************************************************************)
(* Type correctness; in particular the counter never passes the timeout.   *)
(***************************************************************************)
THEOREM TypeCorrect == Spec => []TypeOK
<1>1. IInv => TypeOK
  BY DEF IInv
<1>. QED
  BY <1>1, InitInv, NextInv, PTL DEF Spec

(***************************************************************************)
(* The timer ends a session only after a full timeout of silence, and no   *)
(* session is silent for longer than that without being ended.             *)
(***************************************************************************)
THEOREM KillsOnlySilence == Spec => []OnlySilenceIsKilled
<1>1. IInv => OnlySilenceIsKilled
  BY IdleTimeoutAssumption DEF IInv, TypeOK, CounterTracksSilence, OnlySilenceIsKilled
<1>. QED
  BY <1>1, InitInv, NextInv, PTL DEF Spec

(***************************************************************************)
(* The last pump to finish ends the session, in whichever order.           *)
(***************************************************************************)
THEOREM LastPumpEnds == Spec => []EndsWithTheLastPump
<1>1. IInv => EndsWithTheLastPump
  BY DEF IInv
<1>. QED
  BY <1>1, InitInv, NextInv, PTL DEF Spec

(***************************************************************************)
(* The upstream is asked to close at most once, and only while it runs.    *)
(***************************************************************************)
THEOREM ClosesUpstreamOnce == Spec => CloseUpstreamOnce
<1>1. IInv /\ [Next]_vars => [decision' = "CloseUpstream" => "up" \in pumps' /\ ~sup.down_done]_vars
  <2>. SUFFICES ASSUME IInv, Next, decision' = "CloseUpstream"
                PROVE  "up" \in pumps' /\ ~sup.down_done
    OBVIOUS
  <2>1. CASE UpBytes \/ DownBytes \/ TimerTick \/ Poisoned \/ UpDone
    BY <2>1 DEF UpBytes, DownBytes, TimerTick, Poisoned, UpDone, On, Decision, WindDown
  <2>2. CASE DownDone
    BY <2>2 DEF DownDone, On, Decision, WindDown, IInv, EndsWithTheLastPump
  <2>. QED
    BY <2>1, <2>2 DEF Next
<1>. QED
  BY <1>1, InitInv, NextInv, PTL DEF Spec, CloseUpstreamOnce

-----------------------------------------------------------------------------
(* The header phase. *)

WaitBounded ==
    status = "waiting" =>
        waitEnd - lastChunk <= Res * (IF len > 0 THEN Later ELSE First)

HeaderIInv == HeaderTypeOK /\ PhaseBounded /\ WaitBounded

(***************************************************************************)
(* Multiplying by the clock resolution is monotonic.                       *)
(***************************************************************************)
LEMMA TimesRes ==
  ASSUME NEW a \in Int, NEW b \in Int, a <= b
  PROVE  /\ Res * a \in Int
         /\ Res * a <= Res * b
         /\ a >= 0 => Res * a >= 0
<1>1. Res \in Nat /\ b - a \in Nat
  BY TimeAssumption
<1>2. Res * (b - a) >= 0
  BY <1>1
<1>3. Res * (b - a) = Res * b - Res * a
  BY <1>1
<1>. QED
  BY <1>1, <1>2, <1>3

\* Whole seconds are behind the clock by less than one second.
LEMMA WholeSeconds ==
  ASSUME NEW t \in Nat
  PROVE  /\ t \div Res \in Nat
         /\ Res * (t \div Res) <= t
         /\ t < Res * (t \div Res) + Res
<1>1. Res \in Nat \ {0}
  BY TimeAssumption
<1>. QED
  BY <1>1, Z3

(***************************************************************************)
(* The wait header_deadline grants never exceeds its per-chunk bound, and  *)
(* it fires before the second after the budget.                            *)
(***************************************************************************)
LEMMA DeadlineFacts ==
  ASSUME NEW empty \in BOOLEAN, NEW t \in Nat
  PROVE  /\ HeaderDeadline(empty, t) \in Nat
         /\ Res * HeaderDeadline(empty, t) \in Nat
         /\ Res * HeaderDeadline(empty, t) <= Res * (IF empty THEN First ELSE Later)
         /\ HeaderDeadline(empty, t) > 0
              => t + Res * HeaderDeadline(empty, t) < Res * (Total + 1)
<1>. DEFINE q == t \div Res
            w == HeaderDeadline(empty, t)
            per == IF empty THEN First ELSE Later
<1>1. q \in Nat /\ t < Res * q + Res
  BY WholeSeconds
<1>2. per \in Nat /\ Total \in Nat /\ Res \in Nat
  BY TimeAssumption
<1>3. w \in Nat /\ w <= per /\ (w > 0 => w <= Total - q)
  <2>. HIDE DEF q
  <2>1. w = IF q >= Total THEN 0 ELSE IF per <= Total - q THEN per ELSE Total - q
    BY DEF HeaderDeadline, q
  <2>. QED
    BY <1>1, <1>2, <2>1
<1>. HIDE DEF q, w, per
<1>4. Res * w \in Nat /\ Res * w <= Res * per
  BY <1>2, <1>3, TimesRes
<1>5. ASSUME w > 0 PROVE t + Res * w < Res * (Total + 1)
  <2>1. Res * w <= Res * (Total - q)
    BY <1>1, <1>2, <1>3, <1>5, TimesRes
  <2>2. Res * (Total - q) = Res * Total - Res * q
    BY <1>1, <1>2
  <2>3. Res * (Total + 1) = Res * Total + Res
    BY <1>2
  <2>4. Res * w \in Int /\ Res * Total \in Int /\ Res * q \in Int
    BY <1>1, <1>2, <1>3
  <2>. QED
    BY <1>1, <1>2, <2>1, <2>2, <2>3, <2>4
<1>. QED
  BY <1>3, <1>4, <1>5 DEF w, per

\* The invariant of the header phase holds at the start.
LEMMA HeaderInitInv == HeaderInit => HeaderIInv
<1>. SUFFICES ASSUME HeaderInit PROVE HeaderIInv
  OBVIOUS
<1>. DEFINE limit == Res * (Total + 1)
            wait == HeaderDeadline(TRUE, 0)
            bound == Res * First
<1>0. elapsed = 0 /\ len = 0 /\ lastChunk = 0 /\ status = "waiting"
  BY DEF HeaderInit
<1>1. Total \in Nat /\ First \in Nat /\ Res \in Nat \ {0} /\ MaxHeader \in Nat
  BY TimeAssumption, SizeAssumption
<1>2. /\ wait \in Nat /\ waitEnd = Res * wait /\ waitEnd \in Nat /\ waitEnd <= bound
      /\ wait > 0 => 0 + waitEnd < limit
  BY DeadlineFacts DEF HeaderInit
<1>3. limit > 0 /\ limit \in Nat
  <2>1. limit = Res * Total + Res
    BY <1>1
  <2>2. Res * Total \in Int /\ Res * Total >= 0
    BY <1>1, TimesRes
  <2>. HIDE DEF limit
  <2>. QED
    BY <1>1, <2>1, <2>2
<1>4. Res * 0 = 0
  BY <1>1
<1>5. waitEnd < limit
  <2>1. CASE wait = 0
    <3>. HIDE DEF limit
    <3>1. waitEnd = 0
      BY <1>2, <1>4, <2>1
    <3>. QED
      BY <1>3, <3>1
  <2>2. CASE wait > 0
    <3>. HIDE DEF limit, wait
    <3>. QED
      BY <1>2, <1>3, <2>2
  <2>. HIDE DEF limit, wait
  <2>. QED
    BY <1>2, <2>1, <2>2
<1>6. HeaderTypeOK
  <2>1. waitEnd \in Nat /\ MaxHeader \in Nat
    BY <1>1, <1>2
  <2>2. elapsed \in Nat /\ lastChunk \in Nat /\ lastChunk <= elapsed /\ elapsed <= waitEnd /\ len \in 0..MaxHeader
    BY <1>0, <2>1
  <2>3. status \in {"waiting", "complete", "refused"}
    BY <1>0
  <2>. QED
    BY <2>1, <2>2, <2>3 DEF HeaderTypeOK
<1>7. PhaseBounded
  <2>1. elapsed < limit
    <3>. HIDE DEF limit
    <3>. QED
      BY <1>0, <1>3
  <2>. QED
    BY <1>5, <2>1 DEF PhaseBounded
<1>8. WaitBounded
  <2>1. waitEnd - lastChunk <= bound
    <3>1. waitEnd \in Nat /\ waitEnd <= bound
      BY <1>2
    <3>. HIDE DEF bound
    <3>. QED
      BY <1>0, <3>1
  <2>2. ~(len > 0)
    BY <1>0
  <2>. QED
    BY <2>1, <2>2 DEF WaitBounded
<1>. QED
  BY <1>6, <1>7, <1>8 DEF HeaderIInv

(***************************************************************************)
(* A chunk that leaves the header incomplete restarts the wait inside the  *)
(* budget.                                                                 *)
(***************************************************************************)
LEMMA IncompleteStep == HeaderIInv /\ Incomplete => HeaderIInv'
<1>. SUFFICES ASSUME HeaderIInv, NEW n \in ChunkSizes, Arrive(n), FitsHeader(n), len' = len + n,
                     LET wait == HeaderDeadline(len' = 0, elapsed)
                     IN  IF wait = 0
                         THEN status' = "refused" /\ UNCHANGED waitEnd
                         ELSE UNCHANGED status /\ waitEnd' = elapsed + Res * wait
              PROVE  HeaderIInv'
  BY DEF Incomplete
<1>. DEFINE wait == HeaderDeadline(len' = 0, elapsed)
<1>1. /\ len \in Nat /\ n \in Nat /\ len' \in 0..MaxHeader /\ elapsed \in Nat
      /\ status = "waiting" /\ lastChunk' = elapsed /\ elapsed' = elapsed
      /\ waitEnd \in Nat /\ elapsed <= waitEnd
      /\ elapsed < Res * (Total + 1) /\ waitEnd < Res * (Total + 1)
  BY SizeAssumption DEF HeaderIInv, HeaderTypeOK, PhaseBounded, Arrive, FitsHeader
<1>2. (len' = 0) \in BOOLEAN
  OBVIOUS
<1>3. /\ wait \in Nat /\ Res * wait \in Nat
      /\ Res * wait <= Res * (IF len' = 0 THEN First ELSE Later)
      /\ wait > 0 => elapsed + Res * wait < Res * (Total + 1)
  BY <1>1, <1>2, DeadlineFacts
<1>4. \/ status' = "refused" /\ waitEnd' = waitEnd
      \/ wait > 0 /\ status' = status /\ waitEnd' = elapsed + Res * wait
  BY <1>3
<1>. HIDE DEF wait
<1>5. CASE status' = "refused" /\ waitEnd' = waitEnd
  BY <1>1, <1>5 DEF HeaderIInv, HeaderTypeOK, PhaseBounded, WaitBounded
<1>6. CASE wait > 0 /\ status' = status /\ waitEnd' = elapsed + Res * wait
  <2>1. waitEnd' \in Nat /\ elapsed <= waitEnd' /\ waitEnd' - lastChunk' = Res * wait
    BY <1>1, <1>3, <1>6
  <2>2. waitEnd' < Res * (Total + 1)
    BY <1>3, <1>6
  <2>3. (IF len' = 0 THEN First ELSE Later) = (IF len' > 0 THEN Later ELSE First)
    BY <1>1
  <2>4. HeaderTypeOK' /\ PhaseBounded'
    BY <1>1, <1>6, <2>1, <2>2 DEF HeaderTypeOK, PhaseBounded
  <2>5. WaitBounded'
    BY <1>3, <2>1, <2>3 DEF WaitBounded
  <2>. QED
    BY <2>4, <2>5 DEF HeaderIInv
<1>. QED
  BY <1>4, <1>5, <1>6

\* Every step keeps it.
LEMMA HeaderNextInv == HeaderIInv /\ [HeaderNext]_headerVars => HeaderIInv'
<1>. SUFFICES ASSUME HeaderIInv, [HeaderNext]_headerVars PROVE HeaderIInv'
  OBVIOUS
<1>1. CASE HeaderTick
  <2>1. HeaderTypeOK'
    BY <1>1 DEF HeaderTick, HeaderIInv, HeaderTypeOK
  <2>2. PhaseBounded'
    <3>. DEFINE limit == Res * (Total + 1)
    <3>1. limit \in Int /\ waitEnd < limit /\ waitEnd \in Nat /\ elapsed \in Nat
      BY TimeAssumption DEF HeaderIInv, HeaderTypeOK, PhaseBounded
    <3>2. elapsed' = elapsed + 1 /\ elapsed < waitEnd /\ waitEnd' = waitEnd
      BY <1>1 DEF HeaderTick
    <3>. HIDE DEF limit
    <3>3. elapsed' < limit /\ waitEnd' < limit
      BY <3>1, <3>2
    <3>. QED
      BY <3>3 DEF limit, PhaseBounded
  <2>3. WaitBounded'
    BY <1>1 DEF HeaderTick, HeaderIInv, WaitBounded
  <2>. QED
    BY <2>1, <2>2, <2>3 DEF HeaderIInv
<1>2. CASE TimeOut
  BY <1>2 DEF TimeOut, HeaderIInv, HeaderTypeOK, PhaseBounded, WaitBounded
<1>3. CASE Reject
  BY <1>3, SizeAssumption DEF Reject, Arrive, FitsHeader, HeaderIInv, HeaderTypeOK, PhaseBounded, WaitBounded
<1>4. CASE Complete
  BY <1>4, SizeAssumption DEF Complete, Arrive, FitsHeader, HeaderIInv, HeaderTypeOK, PhaseBounded, WaitBounded
<1>5. CASE Incomplete
  BY <1>5, IncompleteStep
<1>6. CASE UNCHANGED headerVars
  BY <1>6 DEF headerVars, HeaderIInv, HeaderTypeOK, PhaseBounded, WaitBounded
<1>. QED
  BY <1>1, <1>2, <1>3, <1>4, <1>5, <1>6 DEF HeaderNext

(***************************************************************************)
(* Type correctness, the bound on the header's size included.              *)
(***************************************************************************)
THEOREM HeaderTypeCorrect == HeaderSpec => []HeaderTypeOK
<1>1. HeaderIInv => HeaderTypeOK
  BY DEF HeaderIInv
<1>. QED
  BY <1>1, HeaderInitInv, HeaderNextInv, PTL DEF HeaderSpec

(***************************************************************************)
(* However the header is dripped, the phase is over less than one second   *)
(* after its budget.                                                       *)
(***************************************************************************)
THEOREM PhaseIsBounded == HeaderSpec => []PhaseBounded
<1>1. HeaderIInv => PhaseBounded
  BY DEF HeaderIInv
<1>. QED
  BY <1>1, HeaderInitInv, HeaderNextInv, PTL DEF HeaderSpec

(***************************************************************************)
(* A silent client is given up within the bound of its last chunk.         *)
(***************************************************************************)
THEOREM SilenceIsBounded == HeaderSpec => []SilenceBounded
<1>1. HeaderIInv => SilenceBounded
  <2>. SUFFICES ASSUME HeaderIInv, status = "waiting"
                PROVE  elapsed - lastChunk <= Res * (IF len > 0 THEN Later ELSE First)
    BY DEF SilenceBounded
  <2>. DEFINE bound == Res * (IF len > 0 THEN Later ELSE First)
  <2>1. waitEnd - lastChunk <= bound /\ elapsed <= waitEnd
    BY DEF HeaderIInv, WaitBounded, HeaderTypeOK
  <2>2. bound \in Int /\ waitEnd \in Nat /\ elapsed \in Nat /\ lastChunk \in Nat
    BY TimeAssumption DEF HeaderIInv, HeaderTypeOK
  <2>. HIDE DEF bound
  <2>3. elapsed - lastChunk <= bound
    BY <2>1, <2>2
  <2>. QED
    BY <2>3 DEF bound
<1>. QED
  BY <1>1, HeaderInitInv, HeaderNextInv, PTL DEF HeaderSpec

-----------------------------------------------------------------------------
(* The session. *)

(***************************************************************************)
(* A step of the session is a step of one clock that leaves the other as   *)
(* it is, or of neither: the session implements the specification of each. *)
(***************************************************************************)
THEOREM SessionRunsBothClocks == SessionSpec => Spec /\ HeaderSpec
<1>1. SessionInit => Init /\ HeaderInit
  BY DEF SessionInit
<1>2. [SessionNext]_sessionVars => [Next]_vars /\ [HeaderNext]_headerVars
  BY DEF SessionNext, sessionVars, Assemble, LoadAnswers, RefuseSession, Abandon, StartDials,
         CandidateFails, Connected, LeadingWrite, Relay
<1>. QED
  BY <1>1, <1>2, PTL DEF SessionSpec, Spec, HeaderSpec

(***************************************************************************)
(* What each clock guarantees, the session guarantees.                     *)
(***************************************************************************)
THEOREM SessionTimersSafe ==
  SessionSpec => /\ [](TypeOK /\ OnlySilenceIsKilled /\ EndsWithTheLastPump)
                 /\ [](HeaderTypeOK /\ PhaseBounded /\ SilenceBounded)
                 /\ CloseUpstreamOnce
BY SessionRunsBothClocks, TypeCorrect, KillsOnlySilence, LastPumpEnds, ClosesUpstreamOnce,
   HeaderTypeCorrect, PhaseIsBounded, SilenceIsBounded, PTL

\* Every step of the session keeps the hand-over.
LEMMA HandOverStep == HandOver /\ [SessionNext]_sessionVars => HandOver'
<1>. SUFFICES ASSUME HandOver, [SessionNext]_sessionVars PROVE HandOver'
  OBVIOUS
<1>1. CASE Assemble
  <2>1. status = "waiting" /\ UNCHANGED <<vars, stageVars>>
    BY <1>1 DEF Assemble, HeaderNext, HeaderTick, TimeOut, Reject, Complete, Incomplete, Arrive
  <2>2. stage \in {"joining", "over"}
    BY <2>1 DEF HandOver
  <2>. QED
    BY <2>1, <2>2 DEF HandOver, vars, stageVars
<1>2. CASE LoadAnswers
  BY <1>2 DEF LoadAnswers, HandOver, headerVars, vars
<1>3. CASE RefuseSession \/ Abandon \/ StartDials
  BY <1>3, DialAssumption
     DEF RefuseSession, Abandon, StartDials, Joined, HandOver, headerVars, vars
<1>4. CASE CandidateFails \/ LeadingWrite
  <2>1. UNCHANGED <<status, loads, sup, decision, silence>>
    BY <1>4 DEF CandidateFails, LeadingWrite, headerVars, vars
  <2>2. todo \in Nat \ {0} /\ todo' = todo - 1 /\ decision = "Continue"
    BY <1>4 DEF CandidateFails, LeadingWrite, HandOver
  <2>3. todo # 1 => todo' \in Nat \ {0}
    BY <2>2
  <2>. QED
    BY <1>4, <2>1, <2>2, <2>3 DEF CandidateFails, LeadingWrite, HandOver
<1>5. CASE Connected
  BY <1>5, DialAssumption DEF Connected, HandOver, headerVars, vars
<1>6. CASE Relay
  BY <1>6 DEF Relay, HandOver, headerVars
<1>7. CASE UNCHANGED sessionVars
  BY <1>7 DEF sessionVars, stageVars, vars, headerVars, HandOver
<1>. QED
  BY <1>1, <1>2, <1>3, <1>4, <1>5, <1>6, <1>7 DEF SessionNext

(***************************************************************************)
(* Nothing of the time a session takes to be established, however long the *)
(* store, the dials and the leading write take, is counted as idle, and    *)
(* the relays go on exactly until the supervisor ends them.                *)
(***************************************************************************)
THEOREM SupervisorTakesOver == SessionSpec => []HandOver
<1>1. SessionInit => HandOver
  BY DEF SessionInit, Init, HandOver
<1>. QED
  BY <1>1, HandOverStep, PTL DEF SessionSpec
==============================================================================
