------------------------------ MODULE Outbound ------------------------------
(***************************************************************************)
(* Sessions that dial out and share one last-known-good preference through *)
(* the key-value store: the establishment and the finalizer of own_session *)
(* in src/src/transport/xhttp/durable.rs around open_with_plan_tracked of  *)
(* src/src/relay/connect.rs.                                               *)
(*                                                                         *)
(* Every session runs in an object of its own; nothing orders the reads    *)
(* and writes of different sessions.  A refused session touches nothing    *)
(* and is not modelled.                                                    *)
(***************************************************************************)
EXTENDS OutboundOps

CONSTANTS Sessions,
          Targets,   \* what clients ask for
          Configs,   \* the outbound settings a session may load
          Start,     \* the clock when the deployment is new
          MaxTime,   \* model bound: the clock stops there
          KvFails    \* whether reads and writes of the store may fail

ASSUME SessionAssumption ==
    /\ Targets \subseteq Target
    /\ Configs \subseteq [mode : {"Off", "ProxyIp", "Nat64"}, candidates : Seq(Host),
                          limit : Nat]
    /\ Start \in Nat /\ MaxTime \in Nat /\ Start >= Debounce /\ Start > 0
    /\ KvFails \in BOOLEAN

VARIABLES now,
          stored,   \* the document under KV_KEY
          sess,     \* the sessions
          carried   \* history: keys of the routes that won a session's handshake

vars == <<now, stored, sess, carried>>

\* One session: the state it loaded, its plan, the candidate it is at, the first one that
\* failed (0: none), and the document it is about to write.
Unstarted(t, cfg) ==
    [pc |-> "idle", logical |-> t, cfg |-> cfg, known |-> NothingKnown, plan |-> <<>>,
     idx |-> 1, first_failed |-> 0, doc |-> NothingKnown]

Key == Host \X Nat
State == [preferred : Key \cup {NoRoute}, updated_at : Nat]

TypeOK ==
    /\ now \in Nat /\ stored \in State
    /\ \A s \in Sessions :
          LET x == sess[s]
          IN  /\ x.pc \in {"idle", "loaded", "dialing", "relaying", "failed", "writing",
                           "done"}
              /\ x.logical \in Targets /\ x.cfg \in Configs
              /\ x.known \in State /\ x.doc \in State
              /\ x.plan \in Seq(Target)
              /\ x.idx \in 1..(Len(x.plan) + 1) /\ x.first_failed \in 0..(x.idx - 1)
    /\ carried \subseteq Key

Init ==
    /\ now = Start
    /\ stored = NothingKnown
    /\ sess \in [Sessions -> {Unstarted(t, cfg) : t \in Targets, cfg \in Configs}]
    /\ carried = {}

Tick ==
    /\ now < MaxTime
    /\ now' = now + 1
    /\ UNCHANGED <<stored, sess, carried>>

\* The state read that is joined with the wait for the header.
Load(s) ==
    /\ sess[s].pc = "idle"
    /\ \E read \in {stored} \cup (IF KvFails THEN {NothingKnown} ELSE {}) :
          sess' = [sess EXCEPT ![s] = [@ EXCEPT !.pc = "loaded", !.known = read]]
    /\ UNCHANGED <<now, stored, carried>>

\* The header is complete: resolve and order.
PlanRoutes(s) ==
    /\ sess[s].pc = "loaded"
    /\ LET plan == OrderPlan(Resolve(sess[s].cfg, sess[s].logical), sess[s].known, now)
       IN  sess' = [sess EXCEPT ![s] = [@ EXCEPT !.pc = "dialing", !.plan = plan]]
    /\ UNCHANGED <<now, stored, carried>>

Candidate(s) == sess[s].plan[sess[s].idx]

HandshakeSucceeds(s) ==
    /\ sess[s].pc = "dialing" /\ "handshook" \in Outcomes(Candidate(s))
    /\ sess' = [sess EXCEPT ![s] = [@ EXCEPT !.pc = "relaying"]]
    /\ UNCHANGED <<now, stored, carried>>

\* Refused, failed or timed out: the next candidate, or the last error.
CandidateFails(s) ==
    /\ sess[s].pc = "dialing" /\ Outcomes(Candidate(s)) \ {"handshook"} # {}
    /\ LET x == sess[s]
       IN  sess' = [sess EXCEPT ![s] = [@ EXCEPT
              !.idx = x.idx + 1,
              !.first_failed = IF Len(x.plan) > 1 /\ x.first_failed = 0 THEN x.idx
                               ELSE x.first_failed,
              !.pc = IF x.idx = Len(x.plan) THEN "failed" ELSE "dialing"]]
    /\ UNCHANGED <<now, stored, carried>>

KeyAt(x, i) == IF i = 0 THEN NoRoute ELSE CandidateKey(x.plan[i])

\* mutant: the candidate after the winner is credited
BugCreditsNext(x) ==
    LET i == IF x.idx = Len(x.plan) THEN x.idx ELSE x.idx + 1
    IN  [winner |-> KeyAt(x, i), direct |-> x.plan[i] = x.logical,
         first_failed |-> KeyAt(x, x.first_failed)]

\* The verdict of a session that won its socket.
Won(x) ==
    [winner |-> KeyAt(x, x.idx), direct |-> x.plan[x.idx] = x.logical,
     first_failed |-> KeyAt(x, x.first_failed)]

\* The session ends; its finalizer decides about the preference it had loaded.
SettleWon(s) ==
    /\ sess[s].pc = "relaying"
    /\ LET x == sess[s]
           act == ActionAfterWin(x.known, Won(x), now)
           doc == IF act = "Record" THEN [preferred |-> Won(x).winner, updated_at |-> now]
                  ELSE NothingKnown
       IN  /\ sess' = [sess EXCEPT ![s] = [@ EXCEPT
                  !.pc = IF act = "Keep" THEN "done" ELSE "writing", !.doc = doc]]
           /\ carried' = carried \cup {CandidateKey(Candidate(s))}
    /\ UNCHANGED <<now, stored>>

\* No candidate connected: an existing preference is cleared.
SettleFailed(s) ==
    /\ sess[s].pc = "failed"
    /\ sess' = [sess EXCEPT ![s] = [@ EXCEPT
          !.pc = IF sess[s].known.preferred # NoRoute THEN "writing" ELSE "done"]]
    /\ UNCHANGED <<now, stored, carried>>

\* write_lkg; its errors are ignored.
Write(s) ==
    /\ sess[s].pc = "writing"
    /\ stored' \in {sess[s].doc} \cup (IF KvFails THEN {stored} ELSE {})
    /\ sess' = [sess EXCEPT ![s] = [@ EXCEPT !.pc = "done"]]
    /\ UNCHANGED <<now, carried>>

Session(s) ==
    \/ Load(s) \/ PlanRoutes(s) \/ HandshakeSucceeds(s) \/ CandidateFails(s)
    \/ SettleWon(s) \/ SettleFailed(s) \/ Write(s)

Next == Tick \/ \E s \in Sessions : Session(s)

Spec == Init /\ [][Next]_vars
-----------------------------------------------------------------------------
Planned(s) == sess[s].plan # <<>>

Resolved(s) == Resolve(sess[s].cfg, sess[s].logical)

(***************************************************************************)
(* outbound_state.rs: order_plan "may only move a candidate to the front;  *)
(* it never drops, duplicates, or rewrites one".  Whatever preference was  *)
(* loaded, the plan is the resolved one with one candidate moved, a        *)
(* session gives up only past the last of them, and the dials stay bounded *)
(* whatever limit is configured.                                           *)
(***************************************************************************)
EveryRouteTried ==
    \A s \in Sessions : Planned(s) =>
       /\ \E n \in DOMAIN Resolved(s) :
             /\ sess[s].plan[1] = Resolved(s)[n]
             /\ Tail(sess[s].plan) = RemoveAt(Resolved(s), n)
       /\ Len(sess[s].plan) <= MaxAttempts + 1
       /\ sess[s].pc = "failed" => sess[s].idx = Len(Resolved(s)) + 1

(***************************************************************************)
(* outbound_state.rs: what is remembered is a candidate "that actually     *)
(* carried a session", and not merely one that was tried.                  *)
(***************************************************************************)
RememberedRouteCarried == stored.preferred \in carried \cup {NoRoute}

(***************************************************************************)
(* outbound_state.rs: a preference that "failed first this session" is     *)
(* "demoted immediately": the session replaces or clears it, also when a   *)
(* proxy won inside the debounce window.                                   *)
(***************************************************************************)
FailedPreferenceDemoted ==
    [][\A s \in Sessions :
          LET x == sess[s]
          IN  /\ x.pc = "relaying" /\ sess'[s].pc # "relaying"
              /\ x.first_failed # 0 /\ KeyAt(x, x.first_failed) = x.known.preferred
              => /\ sess'[s].pc = "writing"
                 /\ sess'[s].doc.preferred # x.known.preferred]_vars
=============================================================================
