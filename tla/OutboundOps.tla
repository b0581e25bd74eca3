----------------------------- MODULE OutboundOps -----------------------------
(***************************************************************************)
(* Outbound routing as values: the dial plan of a session                  *)
(* (src/src/relay/outbound.rs), its reordering by the last-known-good      *)
(* preference, and what a finished session does to that preference         *)
(* (src/src/relay/outbound_state.rs).                                      *)
(*                                                                         *)
(* A target is a record of a host and a port.  Hosts are spellings: Canon  *)
(* maps each to the one that keys are made from.                           *)
(***************************************************************************)
EXTENDS Naturals, FiniteSets, SequencesExt

CONSTANTS Host,         \* host names and addresses, and Blank
          Canon,        \* Canon[h]: h in lower case, or canonical as an IP
          V4,           \* the hosts that are IPv4 literals
          Nat64Of,      \* Nat64Of[h]: the address synthesised for h \in V4
          Blank,        \* a candidate that is empty once trimmed
          Refused,      \* literal addresses the runtime will not dial
          MaxAttempts,  \* MAX_PROXY_ATTEMPTS
          TTL,          \* HEALTH_TTL_SECS
          Debounce      \* WRITE_DEBOUNCE_SECS

ASSUME HostAssumption ==
    /\ Blank \in Host /\ V4 \subseteq Host /\ Refused \subseteq Host
    /\ Canon \in [Host -> Host] /\ Nat64Of \in [V4 -> Host]
ASSUME LimitAssumption ==
    MaxAttempts \in Nat \ {0} /\ TTL \in Nat /\ Debounce \in Nat

Target == [host : Host, port : Nat]

\* is_locally_rejectable, negated
Permitted(t) == t.port # 25 /\ t.host \notin Refused

CandidateKey(t) == <<Canon[t.host], t.port>>

NoRoute == <<>>   \* the absence of a preferred candidate

NothingKnown == [preferred |-> NoRoute, updated_at |-> 0]

\* saturating_sub
Since(now, t) == IF now > t THEN now - t ELSE 0
-----------------------------------------------------------------------------
(* connect.rs *)

\* What an attempt comes to (open, then verify_or_timeout): a target the runtime will not
\* dial fails before a socket exists, any other handshakes, fails, or takes too long.
Outcomes(t) ==
    IF Permitted(t) THEN {"handshook", "failed", "timed out"} ELSE {"forbidden"}
-----------------------------------------------------------------------------
(* outbound.rs: a configuration is a mode, candidate hosts and a limit.  The *)
(* prefixes and the address they synthesise are folded into Nat64Of.         *)

Default == [mode |-> "Off", candidates |-> <<>>, limit |-> 3]

\* from_settings_json: whatever cannot be read is the default.
FromSettings(doc) == IF doc.readable THEN doc.outbound ELSE Default

\* validate_proxy_candidate: neither blank nor an address that is rejected at once.
UsableCandidate(h) == h # Blank /\ Permitted([host |-> h, port |-> 443])

\* api::validate_outbound: what the panel saves.  The limit is not looked at; the cap on
\* the number of entries is left out.
ValidOutbound(cfg) ==
    /\ \A i \in DOMAIN cfg.candidates : UsableCandidate(cfg.candidates[i])
    /\ cfg.mode = "ProxyIp" => cfg.candidates # <<>>

Attempts(cfg) ==
    CASE cfg.limit < 1           -> 1
      [] cfg.limit > MaxAttempts -> MaxAttempts
      [] OTHER                   -> cfg.limit

\* The first few candidates, without the blank ones.
ProxyHosts(cfg) ==
    LET tried == SubSeq(cfg.candidates, 1,
                        IF Attempts(cfg) <= Len(cfg.candidates)
                        THEN Attempts(cfg) ELSE Len(cfg.candidates))
    IN  FlattenSeq([i \in DOMAIN tried |-> IF tried[i] = Blank THEN <<>> ELSE <<tried[i]>>])

\* OutboundConfig::resolve: the direct route always comes first.
Resolve(cfg, t) ==
    LET via(hosts) == [i \in 1..Len(hosts) |-> [host |-> hosts[i], port |-> t.port]]
    IN  CASE cfg.mode = "ProxyIp"               -> <<t>> \o via(ProxyHosts(cfg))
          [] cfg.mode = "Nat64" /\ t.host \in V4 -> <<t>> \o via(<<Nat64Of[t.host]>>)
          [] OTHER                               -> <<t>>
-----------------------------------------------------------------------------
(* outbound_state.rs *)

\* preferred_fresh
IsFresh(known, now) ==
    /\ known.preferred # NoRoute /\ known.updated_at # 0
    /\ Since(now, known.updated_at) <= TTL

\* The position of the first candidate with key k, 0 if there is none.
PositionOf(candidates, k) ==
    LET at == {i \in DOMAIN candidates : CandidateKey(candidates[i]) = k}
    IN  IF at = {} THEN 0 ELSE CHOOSE i \in at : \A j \in at : i <= j

\* mutant: the first candidate is overwritten instead of moved back
BugReplacesFirst(candidates, n) == [candidates EXCEPT ![1] = candidates[n]]

\* Candidate n moved to the front, the others keeping their order.
MovedToFront(candidates, n) ==
    [i \in DOMAIN candidates |->
        IF i = 1 THEN candidates[n]
        ELSE IF i <= n THEN candidates[i - 1] ELSE candidates[i]]

\* order_plan
OrderPlan(candidates, known, now) ==
    LET n == PositionOf(candidates, known.preferred)
    IN  IF IsFresh(known, now) /\ n > 0 THEN MovedToFront(candidates, n)
        ELSE candidates

\* should_record_key
ShouldRecord(key, known, now) ==
    known.preferred # key /\ Since(now, known.updated_at) >= Debounce

\* mutant: a proxy win that is not recorded keeps a preference that failed
BugDebounceKeeps(known, won, now) ==
    IF ~won.direct
    THEN IF ShouldRecord(won.winner, known, now) THEN "Record" ELSE "Keep"
    ELSE IF known.preferred # NoRoute /\ known.preferred = won.first_failed
         THEN "Clear" ELSE "Keep"

(***************************************************************************)
(* lkg_on_session_result for a session that won: winner and first_failed   *)
(* are keys, known is the state the session loaded when it started.        *)
(***************************************************************************)
ActionAfterWin(known, won, now) ==
    IF ~won.direct /\ ShouldRecord(won.winner, known, now) THEN "Record"
    ELSE IF known.preferred # NoRoute /\ known.preferred = won.first_failed
         THEN "Clear" ELSE "Keep"
=============================================================================
