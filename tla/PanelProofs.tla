------------------------------ MODULE PanelProofs ------------------------------
(***************************************************************************)
(* Proofs about the panel: the way in (Dispatch), what a save replaces     *)
(* (PanelStore) and the editor (PanelEditor).                              *)
(*                                                                         *)
(* The way in, for prefixes, paths and passwords of any kind: prefixes     *)
(* that do not shadow one another own disjoint paths, and a session ends.  *)
(*                                                                         *)
(* The store, for every set of tabs, every initial document and every size *)
(* of the revision, and for saves that overlap, reads that fail and        *)
(* documents without nodes. As long as the revision counts the writes for  *)
(* a tab, it is puts - base writes behind the stored one (InStep, without  *)
(* a modulus because fewer than RevSpace writes lie between); and a save   *)
(* decided on the document that is still stored expected the revision of   *)
(* that one (ExpectsStored). A write leaves no tab in either of the states *)
(* that speak of the stored document, so both are inductive.               *)
(*                                                                         *)
(* The editor, for every list of connections it starts from, every text    *)
(* typed, every client looked at and any number of edits. The invariant is *)
(* the type: an edit makes a node of a node (ApplyType). Everything else   *)
(* the runs check follows from it, state by state.                         *)
(*   - What blocks a node is written as one predicate per rule (Blocks);   *)
(*     a choice then changes one part, and only the rules about that part. *)
(*   - A document is a flattened sequence of outbounds, each there or not  *)
(*     (Short); Picks says where its elements come from, so that a count   *)
(*     is a bijection and a tag has one origin.                            *)
(*   - UniqueTags and FlattenSeq are recursive functions: that they have a *)
(*     solution, and what it is, is shown by the least counterexample.     *)
(***************************************************************************)
EXTENDS Dispatch, PanelStore, PanelEditor, SequenceTheorems, FiniteSetTheorems,
        WellFoundedInduction, TLAPS

-----------------------------------------------------------------------------
(* Prefixes.                                                               *)

\* The four names of the prefixes.
LEMMA Names == Range(RouteNames) = {"xhttp", "panel", "subscription", "websocket"}
  <1>1. DOMAIN RouteNames = {1, 2, 3, 4}
    BY DEF RouteNames
  <1> QED BY <1>1 DEF Range, RouteNames

\* Two prefixes of one path: the shorter is a prefix of the longer.
LEMMA OneWithinTheOther ==
    ASSUME NEW path \in Paths, NEW a \in Paths, NEW b \in Paths,
           Covers(a, path), Covers(b, path)
    PROVE  Covers(a, b) \/ Covers(b, a)
  <1>1. Len(a) \in Nat /\ Len(b) \in Nat /\ Len(path) \in Nat
    BY DEF Paths
  <1>2. CASE Len(a) <= Len(b)
    BY <1>1, <1>2 DEF Covers, StartsWith
  <1>3. CASE Len(b) <= Len(a)
    BY <1>1, <1>3 DEF Covers, StartsWith
  <1> QED BY <1>1, <1>2, <1>3

\* Without a conflict, two prefixes that cover each other are one.
LEMMA NoConflict ==
    ASSUME NEW prefixes, ~ShadowingConflict(prefixes),
           NEW a \in Range(RouteNames), NEW b \in Range(RouteNames), a # b
    PROVE  ~Covers(prefixes[a], prefixes[b])
  <1>1. PICK i \in DOMAIN RouteNames : RouteNames[i] = a
    BY DEF Range
  <1>2. PICK j \in DOMAIN RouteNames : RouteNames[j] = b
    BY DEF Range
  <1>3. i \in Int /\ j \in Int /\ i # j
    BY <1>1, <1>2 DEF RouteNames
  <1>4. CASE i < j
    BY <1>1, <1>2, <1>4 DEF ShadowingConflict, Shadows
  <1>5. CASE j < i
    BY <1>1, <1>2, <1>5 DEF ShadowingConflict, Shadows
  <1> QED BY <1>3, <1>4, <1>5

\* The same for the path of a request.
LEMMA OneOwner ==
    ASSUME NEW prefixes \in [Range(RouteNames) -> Paths], ~ShadowingConflict(prefixes),
           NEW path \in Paths,
           NEW a \in Range(RouteNames), NEW b \in Range(RouteNames),
           Covers(prefixes[a], path), Covers(prefixes[b], path)
    PROVE  a = b
  <1>1. prefixes[a] \in Paths /\ prefixes[b] \in Paths
    OBVIOUS
  <1>2. Covers(prefixes[a], prefixes[b]) \/ Covers(prefixes[b], prefixes[a])
    BY <1>1, OneWithinTheOther
  <1> QED BY <1>2, NoConflict

-----------------------------------------------------------------------------
(* The answers.                                                            *)

Destinations == {"panel", "subscription", "xhttp", "connect probe", "websocket", "duplex probe",
                 "decoy"}

\* The router sends every request somewhere.
LEMMA RouteIsOne ==
    ASSUME NEW method, NEW path, NEW upgrade, NEW prefixes
    PROVE  Route(method, path, upgrade, prefixes).route \in Destinations
  <1>1. CASE upgrade
    BY <1>1 DEF Route, To, Destinations
  <1>2. CASE ~upgrade /\ Covers(prefixes.panel, path)
    BY <1>2 DEF Route, To, Destinations
  <1>3. CASE ~upgrade /\ ~Covers(prefixes.panel, path) /\ Covers(prefixes.subscription, path)
    BY <1>3 DEF Route, To, Destinations
  <1>4. CASE ~upgrade /\ ~Covers(prefixes.panel, path) /\ ~Covers(prefixes.subscription, path)
    BY <1>4 DEF Route, To, Destinations
  <1> QED BY <1>1, <1>2, <1>3, <1>4

\* An answer of the panel that is not public needs a token that verifies.
LEMMA GrantVerifies ==
    ASSUME NEW request, NEW prefixes, NEW token, NEW secret, NEW time,
           NEW answer, answer = Response(request, prefixes, token, secret, time),
           answer.kind = "panel", ~IsPublic(answer.about[1])
    PROVE  Verifies(token, secret, time)
  <1> DEFINE to == Route(request.method, request.path, request.upgrade, prefixes)
  <1>1. CASE to.route = "panel"
    <2>1. answer = Panel(Api(request.method, to.rest), token, secret, time)
      BY <1>1 DEF Response, Respond
    <2> DEFINE api == Api(request.method, to.rest)
    <2>2. answer \in {Decoy, Answer("refused", <<>>)} \/ answer = Answer("panel", <<api>>)
      BY <2>1 DEF Panel
    <2>3. answer = Answer("panel", <<api>>)
      BY <2>2 DEF Decoy, Answer
    <2>4. answer.about[1] = api
      BY <2>3 DEF Answer
    <2>5. ASSUME secret = "" \/ api = "unknown"
          PROVE  FALSE
      <3>1. Panel(api, token, secret, time) = Decoy
        BY <2>5 DEF Panel
      <3> QED BY <2>1, <3>1 DEF Decoy, Answer
    <2>6. ASSUME ~(secret = "" \/ api = "unknown"), ~IsPublic(api), ~Verifies(token, secret, time)
          PROVE  FALSE
      <3>1. Panel(api, token, secret, time) = Answer("refused", <<>>)
        BY <2>6 DEF Panel
      <3> QED BY <2>1, <3>1 DEF Answer
    <2>7. ~IsPublic(api)
      BY <2>4 DEF IsPublic
    <2> QED BY <2>5, <2>6, <2>7
  <1>2. CASE to.route = "subscription"
    <2>1. answer = Subscription(to.rest)
      BY <1>2 DEF Response, Respond
    <2> QED BY <2>1 DEF Subscription, Decoy, Answer
  <1>3. CASE to.route = "xhttp"
    <2>1. answer = XhttpRequest(to.class)
      BY <1>3 DEF Response, Respond
    <2>2. XhttpRequest(to.class).kind # "panel"
      BY DEF XhttpRequest, Decoy, Answer
    <2> QED BY <2>1, <2>2
  <1>4. CASE to.route \in {"connect probe", "websocket", "duplex probe", "decoy"}
    <2>1. answer \in {ConnectProbe, Answer(to.route, <<>>), Decoy}
      BY <1>4 DEF Response, Respond
    <2>2. ConnectProbe.kind # "panel" /\ Decoy.kind # "panel" /\ Answer(to.route, <<>>).kind = to.route
      BY DEF ConnectProbe, Answer, Decoy
    <2> QED BY <1>4, <2>1, <2>2
  <1>5. to.route \in Destinations
    BY RouteIsOne
  <1> HIDE DEF to
  <1> QED BY <1>1, <1>2, <1>3, <1>4, <1>5 DEF Destinations

-----------------------------------------------------------------------------
(* The specification.                                                      *)

\* What is stored nowhere but holds all the same: a token has a login behind it, and the
\* session that was let in last has one that had not ended.
TokensFromLogins ==
    \A token \in tokens :
        \E login \in logins : /\ login.under = token.key /\ login.under # ""
                             /\ token.expiry = login.at + SessionSecs /\ login.at <= now

IInv == TypeOK /\ TokensFromLogins /\ OnlyLiveSessions

\* Hence the invariant holds of every behaviour.
LEMMA Inductive == Spec => []IInv
  <1>a. SessionSecs \in Nat \ {0} /\ MaxNow \in Nat
    BY DispatchAssumption
  <1>1. Init => IInv
    <2> SUFFICES ASSUME Init PROVE IInv
      OBVIOUS
    <2>1. granted.token = NoToken /\ granted.at = 0
      BY DEF Init, NoGrant
    <2>2. TypeOK
      BY <1>a, <2>1 DEF Init, TypeOK
    <2> QED BY <2>2 DEF Init, IInv, TokensFromLogins, OnlyLiveSessions
  <1>2. IInv /\ [Next]_vars => IInv'
    <2> SUFFICES ASSUME IInv, [Next]_vars PROVE IInv'
      OBVIOUS
    <2>1. ASSUME NEW request \in Requests, NEW typed \in Passwords, Login(request, typed)
          PROVE  IInv'
      <3> DEFINE login == [under |-> typed, at |-> now]
                 token == Issue(password, now)
      <3>1. /\ tokens' = tokens \cup {token} /\ logins' = logins \cup {login}
            /\ typed = password /\ typed # ""
            /\ UNCHANGED <<routes, password, now, granted>>
        BY <2>1 DEF Login
      <3>2. token = [expiry |-> now + SessionSecs, key |-> password]
        BY DEF Issue
      <3>3. TypeOK'
        <4>1. now \in Nat /\ password \in Passwords
          BY <1>a DEF IInv, TypeOK
        <4>2. token \in [expiry : Nat, key : Passwords]
          BY <1>a, <3>2, <4>1
        <4>3. login \in [under : Passwords, at : Nat]
          BY <4>1
        <4> HIDE DEF token, login
        <4> QED BY <3>1, <4>2, <4>3 DEF IInv, TypeOK
      <3>4. TokensFromLogins'
        <4>1. now \in Nat
          BY <1>a DEF IInv, TypeOK
        <4>2. login.under = password /\ login.at = now /\ login.under # ""
          BY <3>1
        <4>3. token.key = password /\ token.expiry = now + SessionSecs
          BY <3>2
        <4>4. login \in logins' /\ now <= now
          <5>1. login \in logins'
            BY <3>1, Zenon
          <5>2. now <= now
            BY <4>1
          <5> QED BY <5>1, <5>2
        <4> HIDE DEF token, login
        <4>5. TokensFromLogins /\ now' = now /\ tokens' = tokens \cup {token} /\ logins \subseteq logins'
          BY <3>1 DEF IInv
        <4> SUFFICES ASSUME NEW t \in tokens'
                     PROVE  \E l \in logins' : /\ l.under = t.key /\ l.under # ""
                                               /\ t.expiry = l.at + SessionSecs /\ l.at <= now
          BY <4>5 DEF TokensFromLogins
        <4>6. CASE t = token
          BY <4>2, <4>3, <4>4, <4>6
        <4>7. CASE t \in tokens
          BY <4>5, <4>7 DEF TokensFromLogins
        <4> QED BY <4>5, <4>6, <4>7
      <3>5. OnlyLiveSessions'
        BY <3>1 DEF IInv, OnlyLiveSessions
      <3> QED BY <3>3, <3>4, <3>5 DEF IInv
    <2>2. ASSUME NEW request \in Requests, NEW token \in tokens \cup {NoToken},
                 Enter(request, token)
          PROVE  IInv'
      <3>1. /\ granted' = [token |-> token, under |-> password, at |-> now]
            /\ UNCHANGED <<routes, password, now, tokens, logins>>
        BY <2>2 DEF Enter
      <3>2. Verifies(token, password, now)
        BY <2>2, GrantVerifies DEF Enter
      <3>3. PICK login \in logins : /\ login.under = token.key /\ login.under # ""
                                   /\ token.expiry = login.at + SessionSecs /\ login.at <= now
        BY <3>2 DEF Verifies, IInv, TokensFromLogins
      <3>4. login.at \in Nat /\ now \in Nat
        BY <1>a DEF IInv, TypeOK
      <3>5. login.under = password /\ login.at <= now /\ now < login.at + SessionSecs
        BY <1>a, <3>2, <3>3, <3>4 DEF Verifies
      <3>6. TypeOK'
        BY <3>1 DEF IInv, TypeOK
      <3>7. TokensFromLogins'
        BY <3>1 DEF IInv, TokensFromLogins
      <3>8. OnlyLiveSessions'
        BY <3>1, <3>3, <3>5 DEF OnlyLiveSessions
      <3> QED BY <3>6, <3>7, <3>8 DEF IInv
    <2>3. CASE ChangePassword
      BY <2>3 DEF ChangePassword, IInv, TypeOK, TokensFromLogins, OnlyLiveSessions
    <2>4. CASE Tick
      <3>1. TypeOK'
        BY <1>a, <2>4 DEF Tick, IInv, TypeOK
      <3>2. \A login \in logins : login.at <= now => login.at <= now'
        BY <2>4 DEF Tick, IInv, TypeOK
      <3>3. TokensFromLogins'
        BY <2>4, <3>2 DEF Tick, IInv, TokensFromLogins
      <3>4. OnlyLiveSessions'
        BY <2>4 DEF Tick, IInv, OnlyLiveSessions
      <3> QED BY <3>1, <3>3, <3>4 DEF IInv
    <2>5. CASE UNCHANGED vars
      BY <2>5 DEF vars, IInv, TypeOK, TokensFromLogins, OnlyLiveSessions
    <2> QED BY <2>1, <2>2, <2>3, <2>4, <2>5 DEF Next
  <1> QED BY <1>1, <1>2, PTL DEF Spec

\* The clock, the tokens and what was let in keep their types.
THEOREM TypeCorrect == Spec => []TypeOK
  <1>1. IInv => TypeOK
    BY DEF IInv
  <1> QED BY <1>1, Inductive, PTL

\* Whatever the passwords and the length of a session: whoever the panel lets in has
\* logged in with the present password, and less than a session ago (auth.rs:6-17).
THEOREM SessionsEnd == Spec => []OnlyLiveSessions
  <1>1. IInv => OnlyLiveSessions
    BY DEF IInv
  <1> QED BY <1>1, Inductive, PTL

\* Prefixes without a conflict share no path, however long (router.rs:62-68).
THEOREM PrefixesApart == Spec => []OneOwnerPerPath
  <1> USE DispatchAssumption
  <1>1. TypeOK => OneOwnerPerPath
    <2> SUFFICES ASSUME TypeOK, ~ShadowingConflict(routes), NEW request \in Requests,
                        NEW a \in Range(RouteNames), NEW b \in Range(RouteNames),
                        Covers(routes[a], request.path), Covers(routes[b], request.path)
                 PROVE  a = b
      BY DEF OneOwnerPerPath
    <2>1. routes \in [Range(RouteNames) -> Paths] /\ request.path \in Paths
      BY DEF TypeOK
    <2> QED BY <2>1, OneOwner
  <1> QED BY <1>1, TypeCorrect, PTL

\* Without a password, nothing tells a deployment from one without a panel prefix
\* (serve.rs:143-146).
THEOREM PanelClosed == Spec => []NoPasswordNoPanel
  <1> USE DispatchAssumption
  <1>1. TypeOK => NoPasswordNoPanel
    <2> SUFFICES ASSUME TypeOK, ~ShadowingConflict(routes), NEW request \in Requests,
                        NEW token \in tokens \cup {NoToken}
                 PROVE  Response(request, routes, token, "", now)
                          = Response(request, [routes EXCEPT !.panel = <<>>], token, password, now)
      BY DEF NoPasswordNoPanel
    <2> DEFINE other == [routes EXCEPT !.panel = <<>>]
               path == request.path
               to == Route(request.method, path, request.upgrade, routes)
               too == Route(request.method, path, request.upgrade, other)
    <2>0. /\ routes \in [Range(RouteNames) -> Paths] /\ path \in Paths
          /\ request.upgrade \in BOOLEAN
      BY DEF TypeOK
    <2>1. /\ other.xhttp = routes.xhttp /\ other.websocket = routes.websocket
          /\ other.subscription = routes.subscription /\ other.panel = <<>>
      BY <2>0, Names
    <2>2. ~Covers(other.panel, path)
      BY <2>1 DEF Covers
    <2>3. CASE request.upgrade \/ ~Covers(routes.panel, path)
      <3>1. to = too
        BY <2>1, <2>2, <2>3 DEF Route
      <3>2. to.route # "panel"
        BY <2>3 DEF Route, To
      <3> HIDE DEF to, too
      <3>3. Respond(to, request.method, token, "", now)
              = Respond(to, request.method, token, password, now)
        <4>1. to.route \in Destinations
          BY RouteIsOne DEF to
        <4>2. CASE to.route = "subscription"
          BY <4>2 DEF Respond
        <4>3. CASE to.route = "xhttp"
          BY <4>3 DEF Respond
        <4>4. CASE to.route = "connect probe"
          BY <4>4 DEF Respond
        <4>5. CASE to.route \in {"websocket", "duplex probe"}
          BY <4>5 DEF Respond
        <4>6. CASE to.route = "decoy"
          BY <4>6 DEF Respond
        <4> QED BY <3>2, <4>1, <4>2, <4>3, <4>4, <4>5, <4>6 DEF Destinations
      <3> QED BY <3>1, <3>3 DEF Response, to, too
    <2>4. CASE ~request.upgrade /\ Covers(routes.panel, path)
      <3>1. ~Covers(routes.subscription, path) /\ ~Covers(routes.xhttp, path)
        BY <2>0, <2>4, OneOwner, Names
      <3>2. to.route = "panel"
        BY <2>4 DEF Route, To
      <3>3. Response(request, routes, token, "", now) = Decoy
        BY <3>2 DEF Response, Respond, Panel
      <3>4. Classify(request.method, path, other.xhttp) = Unaddressed("not ours")
        BY <2>1, <3>1 DEF Classify
      <3>5. too.route = "decoy"
        BY <2>1, <2>2, <2>4, <3>1, <3>4 DEF Route, To
      <3>6. Response(request, other, token, password, now) = Decoy
        BY <3>5 DEF Response, Respond
      <3> QED BY <3>3, <3>6
    <2> QED BY <2>3, <2>4
  <1> QED BY <1>1, TypeCorrect, PTL

-----------------------------------------------------------------------------
(* The store.                                                              *)


\* The document stored is the last one written.
TypeInv == StoreTypeOK /\ kv.id = puts

\* A tab holds the revision of the document it was shown for as long as that
\* one is stored, and while revisions count the writes, is as many writes behind
\* as its revision says, or that and one full circle.
InStep(t) ==
    /\ tab[t].base = puts => tab[t].rev = Shown(kv).rev
    /\ RevsCount(t) =>
         \/ tab[t].rev + (puts - tab[t].base) = Shown(kv).rev
         \/ tab[t].rev + (puts - tab[t].base) = Shown(kv).rev + RevSpace

\* A save decided on the document that is still stored expected its revision.
ExpectsStored(t) ==
    tab[t].pc = "putting" /\ tab[t].compared = puts /\ t \notin OldClients
       => tab[t].rev = Shown(kv).rev

PageInv(t) ==
    /\ tab[t].base <= puts /\ tab[t].compared <= puts
    /\ tab[t].pc # "new" => InStep(t)
    /\ ExpectsStored(t)

StoreIInv == TypeInv /\ \A t \in Tabs : PageInv(t)

(***************************************************************************)
(* The next revision is the successor, or zero past the largest.           *)
(***************************************************************************)
LEMMA NextRevFacts ==
  ASSUME NEW r \in 0..(RevSpace - 1)
  PROVE  /\ NextRev(r) \in 0..(RevSpace - 1)
         /\ NextRev(r) = IF r + 1 = RevSpace THEN 0 ELSE r + 1
<1>1. RevSpace \in Nat /\ RevSpace > 0 /\ r \in Nat /\ r < RevSpace
  BY StoreAssumption
<1>2. CASE r + 1 = RevSpace
  <2>1. RevSpace % RevSpace = 0
    BY <1>1
  <2>. QED
    BY <1>1, <1>2, <2>1 DEF NextRev
<1>3. CASE r + 1 < RevSpace
  <2>1. (r + 1) % RevSpace = r + 1
    BY <1>1, <1>3
  <2>. QED
    BY <1>1, <1>3, <2>1 DEF NextRev
<1>. QED
  BY <1>1, <1>2, <1>3

(***************************************************************************)
(* What a document is shown as, and what a failed read is.                 *)
(***************************************************************************)
LEMMA ShownFacts ==
  ASSUME NEW x \in Doc, x.id \in 0..MaxPuts
  PROVE  /\ Shown(x).rev \in 0..(RevSpace - 1)
         /\ Shown(x).base \in {x.id, Derived}
<1>1. RevSpace \in Nat \ {0} /\ x.rev \in 0..(RevSpace - 1)
  BY StoreAssumption DEF Doc
<1>. QED
  BY <1>1 DEF Shown, ServedAsStored

\* A failed read is shown as settings that stand in for the document.
LEMMA FailedFacts == Shown(Failed).rev = 0 /\ Shown(Failed).base = Derived
<1>1. Failed.nodes = FALSE /\ Failed.id = -1
  BY DEF Failed, NoDoc, Derived
<1>2. ~ServedAsStored(Failed)
  BY <1>1 DEF ServedAsStored
<1>. QED
  BY <1>1, <1>2 DEF Shown, Derived

\* Either read yields a revision, and the stored document or none.
LEMMA ReadFacts ==
  ASSUME TypeInv, NEW x \in Reads
  PROVE  /\ Shown(x).rev \in 0..(RevSpace - 1)
         /\ Shown(x).base = Derived \/ (x = kv /\ Shown(x).base = puts)
         /\ Shown(x).base \in Derived..MaxPuts /\ Shown(x).base <= puts
<1>1. /\ RevSpace \in Nat \ {0} /\ MaxPuts \in Nat /\ puts \in 0..MaxPuts
      /\ kv \in Doc /\ kv.id = puts
  BY StoreAssumption DEF TypeInv, StoreTypeOK
<1>2. CASE x = kv
  <2>1. Shown(x).rev \in 0..(RevSpace - 1) /\ Shown(x).base \in {puts, Derived}
    BY <1>1, <1>2, ShownFacts
  <2>. QED
    BY <1>1, <1>2, <2>1 DEF Derived
<1>3. CASE x = Failed
  BY <1>1, <1>3, FailedFacts DEF Derived
<1>. QED
  BY <1>2, <1>3 DEF Reads

(***************************************************************************)
(* The type invariant holds at the start and is kept by every step.        *)
(***************************************************************************)
LEMMA TypeInit == StoreInit => TypeInv
<1>. SUFFICES ASSUME StoreInit PROVE TypeInv
  OBVIOUS
<1>1. RevSpace \in Nat \ {0} /\ MaxPuts \in Nat /\ kv \in Doc /\ kv.id = 0
  BY StoreAssumption DEF StoreInit
<1>2. 0 \in 0..(RevSpace - 1) /\ 0 \in 0..MaxPuts /\ 0 \in Derived..MaxPuts
  BY <1>1 DEF Derived
<1>3. TRUE \in BOOLEAN
  OBVIOUS
<1>4. [pc |-> "new", rev |-> 0, base |-> 0, counted |-> TRUE, compared |-> 0,
       new_rev |-> 0] \in Tab
  BY <1>2, <1>3, Zenon DEF Tab
<1>5. tab \in [Tabs -> Tab]
  BY <1>4 DEF StoreInit
<1>. QED
  BY <1>1, <1>2, <1>5 DEF StoreInit, TypeInv, StoreTypeOK

\* A page back from a save has a page's type.
LEMMA BackType ==
  ASSUME NEW page \in Tab
  PROVE  /\ Back(page) \in Tab
         /\ Back(page).pc = "open" /\ Back(page).compared = 0
         /\ Back(page).base = page.base /\ Back(page).rev = page.rev
         /\ Back(page).counted = page.counted
<1>1. 0 \in 0..(RevSpace - 1) /\ 0 \in Derived..MaxPuts
  BY StoreAssumption DEF Derived
<1>. QED
  BY <1>1 DEF Tab, Back

\* A page whose history of the writes is brought up to date is a page.
LEMMA CountedType ==
  ASSUME NEW page \in Tab, NEW counts \in BOOLEAN
  PROVE  [page EXCEPT !.counted = @ /\ counts] \in Tab
BY DEF Tab

\* What a write leaves in a tab: the tab that made it is open again, the others are
\* as they were, but for the history.
LEMMA PutTab ==
  ASSUME TypeInv, NEW t \in Tabs, Put(t), NEW u \in Tabs
  PROVE  /\ tab' \in [Tabs -> Tab]
         /\ tab'[u].base = tab[u].base /\ tab'[u].rev = tab[u].rev
         /\ tab'[u].compared \in {tab[u].compared, 0}
         /\ tab'[u].pc = tab[u].pc \/ (tab'[u].pc = "open" /\ tab[u].pc = "putting")
         /\ tab'[u].counted =>
              tab[u].counted /\ Shown(kv').rev = NextRev(Shown(kv).rev)
<1>. DEFINE counts == Shown(kv').rev = NextRev(Shown(kv).rev)
            after(v) == [tab[v] EXCEPT !.counted = @ /\ counts]
<1>1. tab \in [Tabs -> Tab]
  BY DEF TypeInv, StoreTypeOK
<1>2. /\ tab' = [v \in Tabs |-> IF v = t THEN Back(after(v)) ELSE after(v)]
      /\ tab[t].pc = "putting"
  BY Zenon DEF Put
<1>3. counts \in BOOLEAN
  OBVIOUS
<1>4. ASSUME NEW v \in Tabs
      PROVE  /\ after(v) \in Tab /\ Back(after(v)) \in Tab
             /\ after(v).base = tab[v].base /\ after(v).rev = tab[v].rev
             /\ after(v).compared = tab[v].compared /\ after(v).pc = tab[v].pc
             /\ after(v).counted => tab[v].counted /\ counts
  <2>1. tab[v] \in Tab
    BY <1>1
  <2>. HIDE DEF counts
  <2>2. after(v) \in Tab
    BY <1>3, <2>1, CountedType
  <2>3. Back(after(v)) \in Tab
    BY <2>2, BackType
  <2>. QED
    BY <1>3, <2>1, <2>2, <2>3 DEF Tab
<1>. HIDE DEF counts, after
<1>5. tab' \in [Tabs -> Tab]
  BY <1>2, <1>4
<1>6. CASE u = t
  <2>1. tab'[u] = Back(after(u))
    BY <1>2, <1>6
  <2>. QED
    BY <1>2, <1>4, <1>5, <1>6, <2>1, BackType DEF counts
<1>7. CASE u # t
  <2>1. tab'[u] = after(u)
    BY <1>2, <1>7
  <2>. QED
    BY <1>4, <1>5, <2>1 DEF counts
<1>. QED
  BY <1>6, <1>7

\* Every step keeps the types.
LEMMA TypeStep == TypeInv /\ [StoreNext]_storeVars => TypeInv'
<1>. SUFFICES ASSUME TypeInv, [StoreNext]_storeVars PROVE TypeInv'
  OBVIOUS
<1>0. /\ RevSpace \in Nat \ {0} /\ MaxPuts \in Nat /\ kv \in Doc /\ kv.id = puts
      /\ puts \in 0..MaxPuts
  BY StoreAssumption DEF TypeInv, StoreTypeOK
<1>t. tab \in [Tabs -> Tab] /\ puts \in Nat
  BY DEF TypeInv, StoreTypeOK
<1>1. ASSUME NEW t \in Tabs, Open(t) PROVE TypeInv'
  <2>1. PICK x \in Reads :
           tab' = [tab EXCEPT ![t] = [@ EXCEPT !.pc = "open", !.rev = Shown(x).rev,
                                               !.base = Shown(x).base, !.counted = TRUE]]
    BY <1>1, Zenon DEF Open
  <2>2. Shown(x).rev \in 0..(RevSpace - 1) /\ Shown(x).base \in Derived..MaxPuts
    BY ReadFacts
  <2>3. [tab[t] EXCEPT !.pc = "open", !.rev = Shown(x).rev,
                       !.base = Shown(x).base, !.counted = TRUE] \in Tab
    BY <1>t, <2>2 DEF Tab
  <2>4. tab' \in [Tabs -> Tab]
    BY <1>t, <2>1, <2>3
  <2>. QED
    BY <1>0, <1>1, <2>4 DEF Open, TypeInv, StoreTypeOK
<1>2. ASSUME NEW t \in Tabs, Save(t) PROVE TypeInv'
  <2>1. PICK x \in Reads :
           tab' = [tab EXCEPT ![t] = [@ EXCEPT !.pc = "putting",
                                               !.compared = Shown(x).base,
                                               !.new_rev = NextRev(Shown(x).rev)]]
    BY <1>2, Zenon DEF Save
  <2>2. /\ NextRev(Shown(x).rev) \in 0..(RevSpace - 1)
        /\ Shown(x).base \in Derived..MaxPuts
    BY ReadFacts, NextRevFacts
  <2>4. [tab[t] EXCEPT !.pc = "putting", !.compared = Shown(x).base,
                       !.new_rev = NextRev(Shown(x).rev)] \in Tab
    BY <1>t, <2>2 DEF Tab
  <2>5. tab' \in [Tabs -> Tab]
    BY <1>t, <2>1, <2>4
  <2>. QED
    BY <1>0, <1>2, <2>5 DEF Save, TypeInv, StoreTypeOK
<1>3. ASSUME NEW t \in Tabs, NEW x \in Reads, Refuse(t, x) PROVE TypeInv'
  <2>1. [tab[t] EXCEPT !.pc = "refused"] \in Tab
    BY <1>t DEF Tab
  <2>2. tab' \in [Tabs -> Tab]
    BY <1>3, <1>t, <2>1 DEF Refuse
  <2>. QED
    BY <1>0, <1>3, <2>2 DEF Refuse, TypeInv, StoreTypeOK
<1>4. ASSUME NEW t \in Tabs, Put(t) PROVE TypeInv'
  <2>1. puts' \in 0..MaxPuts /\ puts' \in Nat /\ VERSION \in Nat
    BY <1>0, <1>4 DEF Put, VERSION
  <2>2. tab[t] \in Tab
    BY <1>t
  <2>3. tab[t].new_rev \in 0..(RevSpace - 1)
    BY <2>2 DEF Tab
  <2>4. kv' \in Doc /\ kv'.id = puts'
    <3>1. PICK n \in BOOLEAN : kv' = [id |-> puts', version |-> VERSION, nodes |-> n,
                                      rev |-> tab[t].new_rev]
      BY <1>4 DEF Put
    <3>. QED
      BY <2>1, <2>3, <3>1, Zenon DEF Doc
  <2>6. tab' \in [Tabs -> Tab]
    BY <1>4, PutTab
  <2>. QED
    BY <2>1, <2>4, <2>6 DEF TypeInv, StoreTypeOK
<1>5. ASSUME NEW t \in Tabs, PutFails(t) PROVE TypeInv'
  <2>1. Back(tab[t]) \in Tab
    BY <1>t, BackType
  <2>2. tab' \in [Tabs -> Tab]
    BY <1>5, <1>t, <2>1 DEF PutFails
  <2>. QED
    BY <1>0, <1>5, <2>2 DEF PutFails, TypeInv, StoreTypeOK
<1>6. CASE UNCHANGED storeVars
  BY <1>6 DEF storeVars, TypeInv, StoreTypeOK
<1>. QED
  BY <1>1, <1>2, <1>3, <1>4, <1>5, <1>6 DEF StoreNext

(***************************************************************************)
(* The state of the panel is well formed, whatever overlaps or fails.      *)
(***************************************************************************)
THEOREM StoreTypeCorrect == StoreSpec => []StoreTypeOK
<1>1. TypeInv => StoreTypeOK
  BY DEF TypeInv
<1>. QED
  BY TypeInit, TypeStep, <1>1, PTL DEF StoreSpec

\* No tab has been shown anything at the start.
LEMMA StoreIInvInit == StoreInit => StoreIInv
<1>. SUFFICES ASSUME StoreInit PROVE StoreIInv
  OBVIOUS
<1>1. ASSUME NEW t \in Tabs PROVE PageInv(t)
  <2>1. tab[t].pc = "new" /\ tab[t].base = 0 /\ tab[t].compared = 0 /\ puts = 0
    BY DEF StoreInit
  <2>. QED
    BY <2>1 DEF PageInv, ExpectsStored
<1>. QED
  BY <1>1, TypeInit DEF StoreIInv

(***************************************************************************)
(* A page that is (re)opened is shown the stored document, or settings     *)
(* that stand in for it.                                                   *)
(***************************************************************************)
LEMMA OpenKeeps ==
  ASSUME StoreIInv, NEW t \in Tabs, Open(t), NEW u \in Tabs
  PROVE  PageInv(u)'
<1>1. /\ RevSpace \in Nat \ {0} /\ MaxPuts \in Nat /\ puts \in 0..MaxPuts
      /\ kv \in Doc /\ kv.id = puts /\ tab \in [Tabs -> Tab] /\ PageInv(u) /\ TypeInv
      /\ UNCHANGED <<kv, puts>>
  BY StoreAssumption DEF StoreIInv, TypeInv, StoreTypeOK, Open
<1>2. PICK x \in Reads :
         tab' = [tab EXCEPT ![t] = [@ EXCEPT !.pc = "open", !.rev = Shown(x).rev,
                                             !.base = Shown(x).base, !.counted = TRUE]]
  BY Zenon DEF Open
<1>3. CASE u # t
  BY <1>1, <1>2, <1>3 DEF PageInv, InStep, ExpectsStored, RevsCount
<1>4. CASE u = t
  <2>1. /\ tab'[u].pc = "open" /\ tab'[u].rev = Shown(x).rev
        /\ tab'[u].base = Shown(x).base /\ tab'[u].compared = tab[u].compared
    BY <1>1, <1>2, <1>4 DEF Tab
  <2>2. /\ Shown(x).base = Derived \/ (x = kv /\ Shown(x).base = puts)
        /\ Shown(x).base <= puts /\ Shown(x).rev \in 0..(RevSpace - 1)
    BY <1>1, ReadFacts
  <2>3. InStep(u)'
    <3>1. CASE Shown(x).base = Derived
      BY <1>1, <2>1, <3>1 DEF InStep, RevsCount, Derived
    <3>2. CASE x = kv /\ Shown(x).base = puts
      BY <1>1, <2>1, <2>2, <3>2 DEF InStep
    <3>. QED
      BY <2>2, <3>1, <3>2
  <2>4. ExpectsStored(u)'
    BY <2>1 DEF ExpectsStored
  <2>. QED
    BY <1>1, <2>1, <2>2, <2>3, <2>4 DEF PageInv
<1>. QED
  BY <1>3, <1>4

(***************************************************************************)
(* A save compares the revision it expects with the one it read.           *)
(***************************************************************************)
LEMMA SaveKeeps ==
  ASSUME StoreIInv, NEW t \in Tabs, Save(t), NEW u \in Tabs
  PROVE  PageInv(u)'
<1>1. /\ RevSpace \in Nat \ {0} /\ MaxPuts \in Nat /\ puts \in 0..MaxPuts
      /\ kv \in Doc /\ kv.id = puts /\ tab \in [Tabs -> Tab] /\ PageInv(u) /\ TypeInv
      /\ UNCHANGED <<kv, puts>> /\ tab[t].pc \in {"open", "refused"}
  BY StoreAssumption DEF StoreIInv, TypeInv, StoreTypeOK, Save
<1>2. PICK x \in Reads :
         /\ MayReplace(t, Shown(x).rev)
         /\ tab' = [tab EXCEPT ![t] = [@ EXCEPT !.pc = "putting",
                                                !.compared = Shown(x).base,
                                                !.new_rev = NextRev(Shown(x).rev)]]
  BY Zenon DEF Save
<1>3. CASE u # t
  BY <1>1, <1>2, <1>3 DEF PageInv, InStep, ExpectsStored, RevsCount
<1>4. CASE u = t
  <2>1. /\ tab'[u].pc = "putting" /\ tab'[u].rev = tab[u].rev
        /\ tab'[u].base = tab[u].base /\ tab'[u].compared = Shown(x).base
        /\ tab'[u].counted = tab[u].counted
    BY <1>1, <1>2, <1>4 DEF Tab
  <2>2. /\ Shown(x).base = Derived \/ (x = kv /\ Shown(x).base = puts)
        /\ Shown(x).base <= puts
    BY <1>1, ReadFacts
  <2>3. ExpectsStored(u)'
    <3>1. CASE Shown(x).base = Derived
      BY <1>1, <2>1, <3>1 DEF ExpectsStored, Derived
    <3>2. CASE x = kv
      BY <1>1, <1>2, <1>4, <2>1, <3>2 DEF ExpectsStored, MayReplace
    <3>. QED
      BY <2>2, <3>1, <3>2
  <2>4. InStep(u)'
    BY <1>1, <1>4, <2>1 DEF PageInv, InStep, RevsCount
  <2>. QED
    BY <1>1, <2>1, <2>2, <2>3, <2>4 DEF PageInv
<1>. QED
  BY <1>3, <1>4

(***************************************************************************)
(* A refusal, and a write that fails, leave the tab what it was shown.     *)
(***************************************************************************)
LEMMA RefusalKeeps ==
  ASSUME StoreIInv, NEW t \in Tabs, (\E x \in Reads : Refuse(t, x)) \/ PutFails(t),
         NEW u \in Tabs
  PROVE  PageInv(u)'
<1>1. /\ puts \in Nat /\ tab \in [Tabs -> Tab] /\ PageInv(u) /\ UNCHANGED <<kv, puts>>
  BY DEF StoreIInv, TypeInv, StoreTypeOK, Refuse, PutFails
<1>2. /\ tab'[u].pc = tab[u].pc
            \/ (tab'[u].pc \in {"open", "refused"} /\ tab[u].pc # "new")
      /\ tab'[u].rev = tab[u].rev /\ tab'[u].base = tab[u].base
      /\ tab'[u].counted = tab[u].counted
      /\ tab'[u].compared \in {tab[u].compared, 0}
      /\ tab'[u].compared = tab[u].compared \/ tab'[u].pc = "open"
  <2>1. CASE \E x \in Reads : Refuse(t, x)
    BY <1>1, <2>1 DEF Refuse, Tab
  <2>2. CASE PutFails(t)
    <3>1. tab[t] \in Tab /\ tab' = [tab EXCEPT ![t] = Back(tab[t])]
             /\ tab[t].pc = "putting"
      BY <1>1, <2>2 DEF PutFails
    <3>2. CASE u = t
      BY <1>1, <3>1, <3>2, BackType
    <3>3. CASE u # t
      BY <1>1, <3>1, <3>3
    <3>. QED
      BY <3>2, <3>3
  <2>. QED
    BY <2>1, <2>2
<1>3. InStep(u) => InStep(u)'
  BY <1>1, <1>2 DEF InStep, RevsCount
<1>4. ExpectsStored(u)'
  BY <1>1, <1>2 DEF PageInv, ExpectsStored
<1>. QED
  BY <1>1, <1>2, <1>3, <1>4 DEF PageInv

(***************************************************************************)
(* A write leaves every tab one more write behind, and none on the stored  *)
(* document.                                                               *)
(***************************************************************************)
LEMMA PutKeeps ==
  ASSUME StoreIInv, TypeInv', NEW t \in Tabs, Put(t), NEW u \in Tabs
  PROVE  PageInv(u)'
<1>. DEFINE S == Shown(kv).rev
<1>1. /\ RevSpace \in Nat \ {0} /\ MaxPuts \in Nat /\ puts \in 0..MaxPuts
      /\ kv \in Doc /\ kv.id = puts /\ kv'.id = puts' /\ puts' = puts + 1
      /\ tab[u] \in Tab /\ PageInv(u) /\ TypeInv
  BY StoreAssumption DEF StoreIInv, TypeInv, StoreTypeOK, Put
<1>2. S \in 0..(RevSpace - 1)
  BY <1>1, ShownFacts
<1>3. NextRev(S) = IF S + 1 = RevSpace THEN 0 ELSE S + 1
  BY <1>2, NextRevFacts
<1>4. /\ tab'[u].base = tab[u].base /\ tab'[u].rev = tab[u].rev
      /\ tab'[u].compared \in {tab[u].compared, 0}
      /\ tab'[u].pc = tab[u].pc \/ (tab'[u].pc = "open" /\ tab[u].pc = "putting")
      /\ tab'[u].counted => tab[u].counted /\ Shown(kv').rev = NextRev(S)
  BY <1>1, PutTab
<1>5. /\ tab[u].base \in Derived..MaxPuts /\ tab[u].rev \in 0..(RevSpace - 1)
      /\ tab[u].compared \in Derived..MaxPuts
      /\ tab[u].base <= puts /\ tab[u].compared <= puts
  BY <1>1 DEF Tab, PageInv
<1>6. tab'[u].base < puts' /\ tab'[u].compared < puts'
  BY <1>1, <1>4, <1>5 DEF Derived
<1>7. ASSUME tab'[u].pc # "new", RevsCount(u)'
      PROVE  \/ tab'[u].rev + (puts' - tab'[u].base) = Shown(kv').rev
             \/ tab'[u].rev + (puts' - tab'[u].base) = Shown(kv').rev + RevSpace
  <2>1. /\ tab[u].pc # "new" /\ tab[u].counted /\ Shown(kv').rev = NextRev(S)
        /\ tab[u].base # Derived /\ puts' < tab[u].base + RevSpace
    BY <1>1, <1>4, <1>7 DEF RevsCount
  <2>2. RevsCount(u)
    BY <1>1, <1>5, <2>1 DEF RevsCount, Derived
  <2>3. \/ tab[u].rev + (puts - tab[u].base) = S
        \/ tab[u].rev + (puts - tab[u].base) = S + RevSpace
    BY <1>1, <2>1, <2>2 DEF PageInv, InStep
  <2>4. ASSUME NEW r \in 0..(RevSpace - 1), NEW b \in Int, b <= puts,
               puts' < b + RevSpace,
               r + (puts - b) = S \/ r + (puts - b) = S + RevSpace
        PROVE  \/ r + (puts' - b) = NextRev(S)
               \/ r + (puts' - b) = NextRev(S) + RevSpace
    <3>. HIDE DEF S
    <3>. QED
      BY <1>1, <1>2, <1>3, <2>4
  <2>5. tab[u].base \in Int
    BY <1>1, <1>5 DEF Derived
  <2>. QED
    BY <1>4, <1>5, <2>1, <2>3, <2>4, <2>5
<1>8. InStep(u)' \/ tab'[u].pc = "new"
  BY <1>1, <1>5, <1>6, <1>7 DEF InStep, Derived
<1>9. ExpectsStored(u)'
  BY <1>1, <1>4, <1>5, <1>6 DEF ExpectsStored, Derived
<1>. QED
  BY <1>1, <1>4, <1>5, <1>6, <1>8, <1>9 DEF PageInv, Derived

\* Every step keeps the invariant.
LEMMA StoreStep == StoreIInv /\ [StoreNext]_storeVars => StoreIInv'
<1>. SUFFICES ASSUME StoreIInv, [StoreNext]_storeVars PROVE StoreIInv'
  OBVIOUS
<1>1. TypeInv'
  BY TypeStep DEF StoreIInv
<1>2. ASSUME NEW u \in Tabs PROVE PageInv(u)'
  <2>1. CASE \E t \in Tabs : Open(t)
    BY <2>1, OpenKeeps
  <2>2. CASE \E t \in Tabs : Save(t)
    BY <2>2, SaveKeeps
  <2>3. CASE \E t \in Tabs : (\E x \in Reads : Refuse(t, x)) \/ PutFails(t)
    BY <2>3, RefusalKeeps
  <2>4. CASE \E t \in Tabs : Put(t)
    BY <1>1, <2>4, PutKeeps
  <2>5. CASE UNCHANGED storeVars
    BY <2>5 DEF storeVars, StoreIInv, PageInv, InStep, ExpectsStored, RevsCount
  <2>. QED
    BY <2>1, <2>2, <2>3, <2>4, <2>5 DEF StoreNext
<1>. QED
  BY <1>1, <1>2 DEF StoreIInv

\* Hence it holds of every behaviour.
LEMMA StoreInductive == StoreSpec => []StoreIInv
BY StoreIInvInit, StoreStep, PTL DEF StoreSpec

(***************************************************************************)
(* Fewer writes than revisions lie between a tab and the stored document.  *)
(***************************************************************************)
LEMMA IdentifiesDoc == StoreIInv => RevIdentifiesDoc
<1>. SUFFICES ASSUME StoreIInv, NEW t \in Tabs, tab[t].pc # "new", RevsCount(t),
                     tab[t].rev = Shown(kv).rev
              PROVE  tab[t].base = kv.id
  BY DEF RevIdentifiesDoc
<1>1. /\ RevSpace \in Nat \ {0} /\ MaxPuts \in Nat /\ puts \in 0..MaxPuts
      /\ kv.id = puts /\ tab[t] \in Tab /\ PageInv(t)
  BY StoreAssumption DEF StoreIInv, TypeInv, StoreTypeOK
<1>2. /\ tab[t].base \in Int /\ tab[t].rev \in 0..(RevSpace - 1)
      /\ tab[t].base <= puts
  BY <1>1 DEF Tab, PageInv, Derived
<1>3. /\ \/ tab[t].rev + (puts - tab[t].base) = tab[t].rev
         \/ tab[t].rev + (puts - tab[t].base) = tab[t].rev + RevSpace
      /\ puts < tab[t].base + RevSpace
  BY <1>1 DEF PageInv, InStep, RevsCount
<1>4. ASSUME NEW b \in Int, NEW r \in 0..(RevSpace - 1), puts < b + RevSpace,
             r + (puts - b) = r \/ r + (puts - b) = r + RevSpace
      PROVE  b = puts
  BY <1>1, <1>4
<1>. QED
  BY <1>1, <1>2, <1>3, <1>4

(***************************************************************************)
(* While revisions count the writes for a tab, holding the stored revision *)
(* is having been shown the stored document, also after the revision has   *)
(* wrapped, and whatever overlaps or fails elsewhere.                      *)
(***************************************************************************)
THEOREM RevisionIdentifiesDocument == StoreSpec => []RevIdentifiesDoc
BY StoreInductive, IdentifiesDoc, PTL

(***************************************************************************)
(* A save that says what it expects, and was compared with the document it *)
(* replaces, replaces the one its tab was shown, while revisions count.    *)
(***************************************************************************)
THEOREM OverwritesNothingUnseen == StoreSpec => NoSilentOverwrite
<1>1. StoreIInv /\ [StoreNext]_storeVars =>
         [\A t \in Tabs \ OldClients :
             Put(t) /\ RevsCount(t) /\ tab[t].compared = kv.id
                => kv.id = tab[t].base]_storeVars
  <2>1. ASSUME StoreIInv, NEW t \in Tabs \ OldClients, Put(t), RevsCount(t),
               tab[t].compared = kv.id
        PROVE  kv.id = tab[t].base
    <3>1. PageInv(t) /\ kv.id = puts /\ tab[t].pc = "putting"
      BY <2>1 DEF StoreIInv, TypeInv, Put
    <3>2. tab[t].rev = Shown(kv).rev
      BY <2>1, <3>1 DEF PageInv, ExpectsStored
    <3>3. RevIdentifiesDoc
      BY <2>1, IdentifiesDoc
    <3>. QED
      BY <2>1, <3>1, <3>2, <3>3 DEF RevIdentifiesDoc
  <2>. QED
    BY <2>1
<1>. QED
  BY <1>1, StoreInductive, PTL DEF StoreSpec, NoSilentOverwrite

(***************************************************************************)
(* A save compared with the stored document is refused only when its tab   *)
(* was shown another one: the stored document was written since.           *)
(***************************************************************************)
THEOREM RefusesOnlyChanged == StoreSpec => RefusedOnlyWhenChanged
<1>1. StoreIInv /\ [StoreNext]_storeVars =>
         [\A t \in Tabs : Refuse(t, kv) => kv.id # tab[t].base]_storeVars
  <2>1. ASSUME StoreIInv, NEW t \in Tabs, Refuse(t, kv), kv.id = tab[t].base
        PROVE  FALSE
    <3>1. /\ PageInv(t) /\ kv.id = puts
          /\ tab[t].pc \in {"open", "refused"} /\ tab[t].rev # Shown(kv).rev
      BY <2>1 DEF StoreIInv, TypeInv, Refuse, MayReplace
    <3>2. InStep(t)
      BY <3>1 DEF PageInv
    <3>. QED
      BY <2>1, <3>1, <3>2 DEF InStep
  <2>. QED
    BY <2>1
<1>. QED
  BY <1>1, StoreInductive, PTL DEF StoreSpec, RefusedOnlyWhenChanged

-----------------------------------------------------------------------------
(* The editor: types of nodes.                                             *)

\* What may be put in a field.
Fits(field, value) ==
    /\ field \in TextFields => value \in IF field = "tag" THEN Tags
                                         ELSE IF field \in {"uuid", "password"} THEN Secrets
                                         ELSE Strings
    /\ field \in Selects => value \in Options[field]
    /\ field \in {"mux", "allow_insecure"} => value \in BOOLEAN

\* The parts of a node, one at a time.
LEMMA NodeParts ==
    ASSUME NEW n \in Nodes
    PROVE  /\ n.tag \in Tags /\ n.address \in Strings /\ n.protocol \in Protocols
           /\ n.transport \in Transports /\ n.security \in Securities
           /\ n.mux \in BOOLEAN /\ n.via \in Tags /\ n.served \in BOOLEAN
           /\ n = [tag |-> n.tag, address |-> n.address, protocol |-> n.protocol,
                   transport |-> n.transport, security |-> n.security, mux |-> n.mux,
                   via |-> n.via, served |-> n.served]
BY DEF Nodes

\* Replacing a part by one of its kind.
LEMMA NodeWith ==
    ASSUME NEW n \in Nodes
    PROVE  /\ \A x \in Tags : [n EXCEPT !.tag = x] \in Nodes
           /\ \A x \in Strings : [n EXCEPT !.address = x] \in Nodes
           /\ \A x \in Protocols : [n EXCEPT !.protocol = x] \in Nodes
           /\ \A x \in Transports : [n EXCEPT !.transport = x] \in Nodes
           /\ \A x \in Securities : [n EXCEPT !.security = x] \in Nodes
           /\ \A x \in BOOLEAN : [n EXCEPT !.mux = x] \in Nodes
BY DEF Nodes

\* The kinds of each part, and what comes with them: of the protocol, ...
LEMMA ProtocolParts ==
    ASSUME NEW p \in Protocols
    PROVE  /\ p.kind \in {"vless", "vmess", "trojan", "shadowsocks"} /\ p.secret \in Secrets
           /\ p.kind = "vless" => p.flow \in Flows /\ p = Vless(p.secret, p.flow)
           /\ p.kind = "vmess" => p.cipher \in Ciphers /\ p = Vmess(p.secret, p.cipher)
           /\ p.kind = "trojan" => p = Trojan(p.secret)
           /\ p.kind = "shadowsocks" =>
                p.method \in Methods /\ p = Shadowsocks(p.method, p.secret)
BY DEF Protocols, Vless, Vmess, Trojan, Shadowsocks

\* ... of the transport, ...
LEMMA TransportParts ==
    ASSUME NEW t \in Transports
    PROVE  /\ t.kind \in {"xhttp", "web-socket", "grpc", "http-upgrade", "raw"}
           /\ t.kind = "xhttp" =>
                t.host \in Strings /\ t.mode \in Modes /\ t = Xhttp(t.mode, t.host)
           /\ t.kind \in {"web-socket", "http-upgrade"} =>
                t.host \in Strings /\ t = Transport(t.kind, t.host)
           /\ t.kind \in {"grpc", "raw"} => t = Hostless(t.kind)
BY DEF Transports, Xhttp, Transport, Hostless

\* ... and of the security.
LEMMA SecurityParts ==
    ASSUME NEW s \in Securities
    PROVE  /\ s.kind \in {"none", "tls", "reality"}
           /\ s.kind = "none" => s = NoSecurity
           /\ s.kind = "tls" =>
                /\ s.sni \in Strings /\ s.fingerprint \in Strings /\ s.insecure \in BOOLEAN
                /\ s = Tls(s.sni, s.fingerprint, s.insecure)
           /\ s.kind = "reality" =>
                /\ s.server_name \in Strings /\ s.fingerprint \in Strings
                /\ s.public_key \in Strings
                /\ s = Reality(s.server_name, s.fingerprint, s.public_key)
BY DEF Securities, NoSecurity, Tls, Reality

\* A change of protocol makes a protocol, ...
LEMMA WithProtocolType ==
    ASSUME NEW n \in Nodes, NEW kind \in {"vless", "vmess", "trojan", "shadowsocks"}
    PROVE  WithProtocol(n, kind) \in Protocols
<1>1. n.protocol.secret \in Secrets
  BY NodeParts, ProtocolParts
<1>2. /\ "none" \in Flows /\ "auto" \in Ciphers /\ "blake3-aes256-gcm" \in Methods
  BY DEF Flows, Ciphers, Methods, Blake3
<1>. QED
  BY <1>1, <1>2 DEF WithProtocol, Protocols, Vless, Vmess, Trojan, Shadowsocks

\* ... one of transport a transport, ...
LEMMA WithTransportType ==
    ASSUME NEW n \in Nodes, NEW kind \in {"xhttp", "web-socket", "grpc", "http-upgrade", "raw"}
    PROVE  WithTransport(n, kind) \in Transports
<1>0. n.transport \in Transports
  BY NodeParts
<1>1. HasHost(n.transport) => n.transport.host \in Strings
  <2>1. n.transport.kind = "xhttp" => n.transport.host \in Strings
    BY <1>0, TransportParts
  <2>2. n.transport.kind \in {"web-socket", "http-upgrade"} => n.transport.host \in Strings
    BY <1>0, TransportParts
  <2>. QED
    BY <2>1, <2>2 DEF HasHost
<1>2. "packet-up" \in Modes /\ Absent \in Strings
  BY DEF Modes, Strings
<1>. QED
  BY <1>1, <1>2 DEF WithTransport, Transports, Xhttp, Transport, Hostless

\* ... and one of security a security.
LEMMA WithSecurityType ==
    ASSUME NEW n \in Nodes, NEW kind \in {"tls", "reality", "none"}
    PROVE  WithSecurity(n, kind) \in Securities
<1>. DEFINE sni == CASE n.security.kind = "tls"     -> n.security.sni
                     [] n.security.kind = "reality" -> n.security.server_name
                     [] n.security.kind = "none"    -> n.address
<1>0. n.security \in Securities /\ n.address \in Strings
  BY NodeParts
<1>1. sni \in Strings
  <2>1. CASE n.security.kind = "tls"
    BY <1>0, <2>1, SecurityParts
  <2>2. CASE n.security.kind = "reality"
    BY <1>0, <2>2, SecurityParts
  <2>3. CASE n.security.kind = "none"
    BY <1>0, <2>3
  <2>4. n.security.kind \in {"none", "tls", "reality"}
    BY <1>0, SecurityParts
  <2>. HIDE DEF sni
  <2>. QED
    BY <2>1, <2>2, <2>3, <2>4
<1>2. Absent \in Strings /\ Empty \in Strings
  BY DEF Strings, Empty
<1>. HIDE DEF sni
<1>3. Tls(sni, Absent, FALSE) \in Securities
  BY <1>1, <1>2 DEF Securities, Tls
<1>4. Reality(IF sni = Absent THEN Empty ELSE sni, Absent, Empty) \in Securities
  BY <1>1, <1>2 DEF Securities, Reality
<1>5. NoSecurity \in Securities
  BY DEF Securities, NoSecurity
<1>. QED
  BY <1>3, <1>4, <1>5 DEF WithSecurity, sni

\* Setting a field of a protocol that has it keeps it a protocol.
LEMMA ProtocolWith ==
    ASSUME NEW p \in Protocols
    PROVE  /\ \A x \in Secrets : [p EXCEPT !.secret = x] \in Protocols
           /\ \A x \in Flows : "flow" \in DOMAIN p => [p EXCEPT !.flow = x] \in Protocols
           /\ \A x \in Ciphers : "cipher" \in DOMAIN p => [p EXCEPT !.cipher = x] \in Protocols
           /\ \A x \in Methods : "method" \in DOMAIN p => [p EXCEPT !.method = x] \in Protocols
BY DEF Protocols

\* The same of a transport, ...
LEMMA TransportWith ==
    ASSUME NEW t \in Transports
    PROVE  /\ \A x \in Modes : "mode" \in DOMAIN t => [t EXCEPT !.mode = x] \in Transports
           /\ \A x \in Strings : "host" \in DOMAIN t => [t EXCEPT !.host = x] \in Transports
BY DEF Transports

\* ... and of a security.
LEMMA SecurityWith ==
    ASSUME NEW s \in Securities
    PROVE  /\ \A x \in Strings :
                /\ "sni" \in DOMAIN s => [s EXCEPT !.sni = x] \in Securities
                /\ "fingerprint" \in DOMAIN s => [s EXCEPT !.fingerprint = x] \in Securities
                /\ "server_name" \in DOMAIN s => [s EXCEPT !.server_name = x] \in Securities
                /\ "public_key" \in DOMAIN s => [s EXCEPT !.public_key = x] \in Securities
           /\ \A x \in BOOLEAN : "insecure" \in DOMAIN s => [s EXCEPT !.insecure = x] \in Securities
BY DEF Securities

\* What WithPart makes of a node.
LEMMA WithPartIs ==
    ASSUME NEW n \in Nodes, NEW field, NEW x
    PROVE  /\ WithPart(n, "protocol", field, x) =
                IF field \in DOMAIN n.protocol
                THEN [n EXCEPT !.protocol = [n.protocol EXCEPT ![field] = x]] ELSE n
           /\ WithPart(n, "transport", field, x) =
                IF field \in DOMAIN n.transport
                THEN [n EXCEPT !.transport = [n.transport EXCEPT ![field] = x]] ELSE n
           /\ WithPart(n, "security", field, x) =
                IF field \in DOMAIN n.security
                THEN [n EXCEPT !.security = [n.security EXCEPT ![field] = x]] ELSE n
BY DEF WithPart, Nodes

\* The selects, and what they offer.
LEMMA SelectFacts ==
    /\ Selects = {"protocol", "flow", "cipher", "method", "transport", "xhttp_mode", "security",
                  "fingerprint"}
    /\ Options["protocol"] = {"vless", "vmess", "trojan", "shadowsocks"}
    /\ Options["flow"] = Flows /\ Options["cipher"] = Ciphers /\ Options["method"] = Methods
    /\ Options["transport"] = {"xhttp", "web-socket", "grpc", "http-upgrade", "raw"}
    /\ Options["xhttp_mode"] = Modes
    /\ Options["security"] = {"tls", "reality", "none"}
    /\ Options["fingerprint"] =
         {Empty, "chrome", "firefox", "safari", "edge", "ios", "android", "random"}
BY DEF Selects, Options

\* The fields there are.
EditFields == TextFields \cup Selects \cup {"mux", "allow_insecure"}

\* What an edit of each field does.
LEMMA ApplyIs ==
    ASSUME NEW n, NEW x
    PROVE  /\ Apply(n, "tag", x) = [n EXCEPT !.tag = [x EXCEPT !.pad = FALSE]]
           /\ Apply(n, "address", x) = [n EXCEPT !.address = x]
           /\ Apply(n, "protocol", x) = [n EXCEPT !.protocol = WithProtocol(n, x)]
           /\ \A field \in {"uuid", "password"} :
                Apply(n, field, x) =
                  IF field = SecretField(n)
                  THEN [n EXCEPT !.protocol = [n.protocol EXCEPT !.secret = x]] ELSE n
           /\ \A field \in {"flow", "cipher", "method"} :
                Apply(n, field, x) = WithPart(n, "protocol", field, x)
           /\ Apply(n, "transport", x) = [n EXCEPT !.transport = WithTransport(n, x)]
           /\ Apply(n, "xhttp_mode", x) = WithPart(n, "transport", "mode", x)
           /\ Apply(n, "host", x) = WithPart(n, "transport", "host", OptionalText(x))
           /\ Apply(n, "security", x) = [n EXCEPT !.security = WithSecurity(n, x)]
           /\ \A field \in {"sni", "fingerprint"} :
                Apply(n, field, x) = WithPart(n, "security", field, OptionalText(x))
           /\ \A field \in {"server_name", "public_key"} :
                Apply(n, field, x) = WithPart(n, "security", field, x)
           /\ Apply(n, "allow_insecure", x) = WithPart(n, "security", "insecure", x)
           /\ Apply(n, "mux", x) = [n EXCEPT !.mux = x]
BY DEF Apply, SecretField

\* An optional text is a text.
LEMMA OptionalType == \A x \in Strings : OptionalText(x) \in Strings
BY DEF OptionalText, Strings

\* An edit makes a node of a node.
LEMMA ApplyType ==
    ASSUME NEW n \in Nodes, NEW field \in EditFields, NEW x, Fits(field, x)
    PROVE  Apply(n, field, x) \in Nodes
<1>0. /\ n.protocol \in Protocols /\ n.transport \in Transports /\ n.security \in Securities
  BY NodeParts
<1>1. CASE field = "tag"
  <2>1. x \in Tags
    BY <1>1 DEF Fits, TextFields
  <2>. DEFINE tag == [x EXCEPT !.pad = FALSE]
  <2>2. tag \in Tags
    BY <2>1, Zenon DEF Tags
  <2>3. Apply(n, field, x) = [n EXCEPT !.tag = tag]
    BY <1>1, ApplyIs
  <2>. HIDE DEF tag
  <2>. QED
    BY <2>2, <2>3, NodeWith
<1>2. CASE field = "address"
  BY <1>2, NodeWith, ApplyIs DEF Fits, TextFields
<1>3. CASE field = "protocol"
  <2>1. x \in {"vless", "vmess", "trojan", "shadowsocks"}
    BY <1>3, SelectFacts DEF Fits
  <2>. QED
    BY <1>3, <2>1, WithProtocolType, NodeWith, ApplyIs
<1>4. CASE field \in {"uuid", "password"}
  <2>1. x \in Secrets
    BY <1>4 DEF Fits, TextFields
  <2>2. [n.protocol EXCEPT !.secret = x] \in Protocols
    BY <1>0, <2>1, ProtocolWith
  <2>. QED
    BY <1>4, <2>2, NodeWith, ApplyIs
<1>5. CASE field \in {"flow", "cipher", "method"}
  <2>1. field \in DOMAIN n.protocol => [n.protocol EXCEPT ![field] = x] \in Protocols
    <3>1. CASE field = "flow"
      BY <1>0, <3>1, ProtocolWith, SelectFacts DEF Fits
    <3>2. CASE field = "cipher"
      BY <1>0, <3>2, ProtocolWith, SelectFacts DEF Fits
    <3>3. CASE field = "method"
      BY <1>0, <3>3, ProtocolWith, SelectFacts DEF Fits
    <3>. QED
      BY <1>5, <3>1, <3>2, <3>3
  <2>2. Apply(n, field, x) = WithPart(n, "protocol", field, x)
    BY <1>5, ApplyIs
  <2>3. \/ Apply(n, field, x) = n
        \/ /\ field \in DOMAIN n.protocol
           /\ Apply(n, field, x) = [n EXCEPT !.protocol = [n.protocol EXCEPT ![field] = x]]
    BY <2>2, WithPartIs
  <2>. DEFINE p == [n.protocol EXCEPT ![field] = x]
  <2>4. field \in DOMAIN n.protocol =>
          p \in Protocols /\ Apply(n, field, x) = [n EXCEPT !.protocol = p]
    BY <2>1, <2>2, WithPartIs
  <2>. HIDE DEF p
  <2>. QED
    BY <2>3, <2>4, NodeWith
<1>6. CASE field = "transport"
  <2>1. x \in {"xhttp", "web-socket", "grpc", "http-upgrade", "raw"}
    BY <1>6, SelectFacts DEF Fits
  <2>. QED
    BY <1>6, <2>1, WithTransportType, NodeWith, ApplyIs
<1>7. CASE field = "xhttp_mode"
  <2>1. x \in Modes
    BY <1>7, SelectFacts DEF Fits
  <2>2. "mode" \in DOMAIN n.transport => [n.transport EXCEPT !["mode"] = x] \in Transports
    BY <1>0, <2>1, TransportWith
  <2>. QED
    BY <1>7, <2>2, WithPartIs, NodeWith, ApplyIs
<1>8. CASE field = "host"
  <2>1. OptionalText(x) \in Strings
    BY <1>8, OptionalType DEF Fits, TextFields
  <2>2. "host" \in DOMAIN n.transport =>
          [n.transport EXCEPT !["host"] = OptionalText(x)] \in Transports
    BY <1>0, <2>1, TransportWith
  <2>. QED
    BY <1>8, <2>2, WithPartIs, NodeWith, ApplyIs
<1>9. CASE field = "security"
  <2>1. x \in {"tls", "reality", "none"}
    BY <1>9, SelectFacts DEF Fits
  <2>. QED
    BY <1>9, <2>1, WithSecurityType, NodeWith, ApplyIs
<1>10. CASE field \in {"sni", "fingerprint"}
  <2>1. OptionalText(x) \in Strings
    <3>1. field = "sni" => x \in Strings
      BY DEF Fits, TextFields
    <3>2. field = "fingerprint" => x \in Strings
      BY SelectFacts DEF Fits, Strings, Empty
    <3>. QED
      BY <1>10, <3>1, <3>2, OptionalType
  <2>2. field \in DOMAIN n.security =>
          [n.security EXCEPT ![field] = OptionalText(x)] \in Securities
    <3>1. CASE field = "sni"
      BY <1>0, <2>1, <3>1, SecurityWith
    <3>2. CASE field = "fingerprint"
      BY <1>0, <2>1, <3>2, SecurityWith
    <3>. QED
      BY <1>10, <3>1, <3>2
  <2>. QED
    BY <1>10, <2>2, WithPartIs, NodeWith, ApplyIs
<1>11. CASE field \in {"server_name", "public_key"}
  <2>1. x \in Strings
    BY <1>11 DEF Fits, TextFields
  <2>2. field \in DOMAIN n.security => [n.security EXCEPT ![field] = x] \in Securities
    <3>1. CASE field = "server_name"
      BY <1>0, <2>1, <3>1, SecurityWith
    <3>2. CASE field = "public_key"
      BY <1>0, <2>1, <3>2, SecurityWith
    <3>. QED
      BY <1>11, <3>1, <3>2
  <2>. QED
    BY <1>11, <2>2, WithPartIs, NodeWith, ApplyIs
<1>12. CASE field = "allow_insecure"
  <2>1. "insecure" \in DOMAIN n.security =>
          [n.security EXCEPT !["insecure"] = x] \in Securities
    BY <1>0, <1>12, SecurityWith DEF Fits
  <2>. QED
    BY <1>12, <2>1, WithPartIs, NodeWith, ApplyIs
<1>13. CASE field = "mux"
  BY <1>13, NodeWith, ApplyIs DEF Fits
<1>. QED
  BY <1>1, <1>2, <1>3, <1>4, <1>5, <1>6, <1>7, <1>8, <1>9, <1>10, <1>11, <1>12, <1>13,
     SelectFacts DEF EditFields, TextFields

-----------------------------------------------------------------------------
(* The editor's state.                                                     *)

\* What the page can post fits its field.
LEMMA PostedFits ==
    /\ \A field \in Selects : \A n, c, e : \A x \in Offered(n, field, c, e) :
          field \in EditFields /\ Fits(field, x)
    /\ \A field \in DOMAIN Texts : \A x \in Texts[field] : field \in EditFields /\ Fits(field, x)
    /\ \A x \in BOOLEAN : \A field \in {"mux", "allow_insecure"} :
          field \in EditFields /\ Fits(field, x)
<1>1. \A field \in EditFields :
        /\ field \in TextFields => field \notin Selects /\ field \notin {"mux", "allow_insecure"}
        /\ field \in Selects => field \notin TextFields /\ field \notin {"mux", "allow_insecure"}
        /\ field \in {"mux", "allow_insecure"} => field \notin TextFields /\ field \notin Selects
  BY SelectFacts DEF TextFields
<1>2. ASSUME NEW field \in Selects, NEW n, NEW c, NEW e, NEW x \in Offered(n, field, c, e)
      PROVE  field \in EditFields /\ Fits(field, x)
  BY <1>1 DEF Offered, EditFields, Fits
<1>3. ASSUME NEW field \in DOMAIN Texts, NEW x \in Texts[field]
      PROVE  field \in EditFields /\ Fits(field, x)
  BY <1>1, EditorAssumption DEF EditFields, Fits
<1>4. ASSUME NEW x \in BOOLEAN, NEW field \in {"mux", "allow_insecure"}
      PROVE  field \in EditFields /\ Fits(field, x)
  BY <1>1, <1>4 DEF EditFields, Fits
<1>. QED
  BY <1>2, <1>3, <1>4

\* A step replaces the open node by an edited one, or none.
LEMMA StepEdits ==
    ASSUME EditorTypeOK, EditorNext
    PROVE  /\ client' \in Targets /\ enhanced' = enhanced
           /\ \/ nodes' = nodes /\ edits' = edits
              \/ \E field \in EditFields : \E x :
                    /\ Fits(field, x) /\ edits < MaxEdits /\ edits' = edits + 1
                    /\ nodes' = [nodes EXCEPT ![Len(nodes)] = Apply(node, field, x)]
                    /\ field = "tag" => x \in Texts["tag"] /\ "tag" \in DOMAIN Texts
<1>0. client \in Targets
  BY DEF EditorTypeOK
<1>1. CASE Choose
  <2>0. PICK field \in Selects \cap Controls(node) :
          \E x \in Offered(node, field, client, enhanced) : Edit(field, x)
    BY <1>1 DEF Choose
  <2>1. PICK x \in Offered(node, field, client, enhanced) : Edit(field, x)
    BY <2>0
  <2>2. field \in EditFields /\ Fits(field, x) /\ field # "tag"
    BY <2>1, PostedFits, SelectFacts
  <2>. QED
    BY <1>0, <2>1, <2>2 DEF Edit
<1>2. CASE Type
  <2>0. PICK field \in DOMAIN Texts : \E x \in Texts[field] : Edit(field, x)
    BY <1>2 DEF Type
  <2>1. PICK x \in Texts[field] : Edit(field, x)
    BY <2>0
  <2>2. field \in EditFields /\ Fits(field, x)
    BY <2>1, PostedFits
  <2>. QED
    BY <1>0, <2>1, <2>2 DEF Edit
<1>3. CASE Toggle
  <2>1. PICK field \in {"mux", "allow_insecure"}, x \in BOOLEAN : Edit(field, x)
    <3>1. CASE Edit("mux", ~node.mux)
      BY <3>1
    <3>2. CASE Edit("allow_insecure", ~node.security.insecure)
      BY <3>2
    <3>. QED
      BY <1>3, <3>1, <3>2 DEF Toggle
  <2>2. field \in EditFields /\ Fits(field, x) /\ field # "tag"
    BY <2>1, PostedFits
  <2>. QED
    BY <1>0, <2>1, <2>2 DEF Edit
<1>4. CASE SwitchClient
  BY <1>4 DEF SwitchClient
<1>. QED
  BY <1>1, <1>2, <1>3, <1>4 DEF EditorNext

\* The open node is a node.
LEMMA OpenIsNode ==
    ASSUME EditorTypeOK
    PROVE  /\ Len(nodes) \in 1..Len(nodes) /\ node \in Nodes /\ nodes \in Seq(Nodes)
           /\ client \in Clients /\ enhanced \in BOOLEAN
<1>1. nodes \in Seq(Nodes) /\ nodes # <<>> /\ client \in Clients
  BY EditorAssumption DEF EditorTypeOK
<1>2. Len(nodes) \in Nat /\ Len(nodes) # 0
  BY <1>1
<1>. QED
  BY <1>1, <1>2 DEF EditorTypeOK, node

\* The nodes stay nodes, whatever is typed, picked or toggled.
THEOREM EditorTypeCorrect == EditorSpec => []EditorTypeOK
<1>1. EditorInit => EditorTypeOK
  BY EditorAssumption DEF EditorInit, EditorTypeOK
<1>2. EditorTypeOK /\ [EditorNext]_editorVars => EditorTypeOK'
  <2>. SUFFICES ASSUME EditorTypeOK, [EditorNext]_editorVars PROVE EditorTypeOK'
    OBVIOUS
  <2>1. CASE UNCHANGED editorVars
    BY <2>1 DEF EditorTypeOK, editorVars
  <2>2. CASE EditorNext
    <3>1. CASE nodes' = nodes /\ edits' = edits
      BY <2>2, <3>1, StepEdits DEF EditorTypeOK
    <3>2. ASSUME NEW field \in EditFields, NEW x, Fits(field, x), edits < MaxEdits,
                 edits' = edits + 1, nodes' = [nodes EXCEPT ![Len(nodes)] = Apply(node, field, x)]
          PROVE  EditorTypeOK'
      <4>1. Apply(node, field, x) \in Nodes
        BY <3>2, OpenIsNode, ApplyType
      <4>2. nodes' \in Seq(Nodes) /\ Len(nodes') = Len(nodes) /\ nodes' # <<>>
        BY <3>2, <4>1, OpenIsNode
      <4>3. edits' \in 0..MaxEdits
        BY <3>2, EditorAssumption DEF EditorTypeOK
      <4>. QED
        BY <2>2, <4>2, <4>3, StepEdits DEF EditorTypeOK
    <3>. QED
      BY <2>2, <3>1, <3>2, StepEdits
  <2>. QED
    BY <2>1, <2>2
<1>. QED
  BY <1>1, <1>2, PTL DEF EditorSpec

-----------------------------------------------------------------------------
(* Flattening sequences of at most one element.                            *)

\* A nonempty set of naturals has a least element.
LEMMA LeastNumber ==
    ASSUME NEW T \in SUBSET Nat, T # {}
    PROVE  \E x \in T : \A y \in T : x <= y
<1>1. PICK x \in T : \A y \in T : <<y, x>> \notin OpToRel(<, Nat)
  BY WFMin, NatLessThanWellFounded, Zenon
<1>2. \A y \in T : ~(y < x)
  BY <1>1, Zenon DEF OpToRel
<1>. QED
  BY <1>2

\* The recursion of FlattenSeq has a solution of every length.
LEMMA FlattenSolved ==
    ASSUME NEW ss, NEW n \in Nat
    PROVE  \E g : g = [i \in 1..n |-> IF i = 1 THEN ss[i] ELSE g[i - 1] \o ss[i]]
<1>. DEFINE Upto(k, g) == g = [i \in 1..k |-> IF i = 1 THEN ss[i] ELSE g[i - 1] \o ss[i]]
            T == {k \in Nat : ~\E g : Upto(k, g)}
<1>0. SUFFICES ASSUME T # {} PROVE FALSE
  <2>. HIDE DEF Upto
  <2>1. n \notin T
    BY <1>0
  <2>2. \E g : Upto(n, g)
    BY <2>1
  <2>. QED
    BY <2>2 DEF Upto
<1>1. PICK k \in T : \A j \in T : k <= j
  <2>. HIDE DEF Upto
  <2>1. T \in SUBSET Nat
    OBVIOUS
  <2>. HIDE DEF T
  <2>. QED
    BY <1>0, <2>1, LeastNumber
<1>2. k \in Nat /\ ~\E g : Upto(k, g)
  <2>. HIDE DEF Upto
  <2>. QED
    BY <1>1
<1>3. k # 0
  <2>1. Upto(0, <<>>)
    OBVIOUS
  <2>. HIDE DEF Upto
  <2>. QED
    BY <1>2, <2>1
<1>4. PICK g : Upto(k - 1, g)
  <2>1. k - 1 \in Nat /\ ~(k <= k - 1)
    BY <1>2, <1>3
  <2>. HIDE DEF Upto
  <2>. QED
    BY <1>1, <2>1
<1>. DEFINE h == [i \in 1..k |-> IF i = k THEN (IF i = 1 THEN ss[i] ELSE g[i - 1] \o ss[i])
                                 ELSE g[i]]
<1>5. ASSUME NEW i \in 1..k
      PROVE  h[i] = IF i = 1 THEN ss[i] ELSE h[i - 1] \o ss[i]
  <2>1. i \in Nat /\ i >= 1 /\ i <= k
    BY <1>2
  <2>2. i # 1 => i - 1 \in 1..k /\ i - 1 # k
    BY <1>2, <2>1
  <2>3. i # 1 => h[i - 1] = g[i - 1]
    BY <2>2
  <2>4. CASE i = k
    BY <2>3, <2>4
  <2>5. CASE i # k
    <3>1. i \in 1..(k - 1)
      BY <1>2, <2>1, <2>5
    <3>2. g[i] = IF i = 1 THEN ss[i] ELSE g[i - 1] \o ss[i]
      BY <1>4, <3>1
    <3>3. h[i] = g[i]
      BY <2>5
    <3>. HIDE DEF h, Upto
    <3>. QED
      BY <2>3, <3>2, <3>3
  <2>. QED
    BY <2>4, <2>5
<1>6. Upto(k, h)
  <2>1. h = [i \in 1..k |-> h[i]]
    OBVIOUS
  <2>. HIDE DEF h
  <2>. QED
    BY <1>5, <2>1
<1>. HIDE DEF Upto, h
<1>. QED
  BY <1>2, <1>6

\* Sequences of at most one element.
Short(n, ss) == ss = [i \in 1..n |-> ss[i]]
                /\ \A i \in 1..n : ss[i] = <<>> \/ ss[i] = <<ss[i][1]>>

\* Where the elements of a flattened sequence come from.
Picks(n, ss, s, pos) ==
    /\ s \in Seq({ss[i][1] : i \in 1..n}) /\ pos \in [1..Len(s) -> 1..n]
    /\ \A j \in 1..Len(s) : ss[pos[j]] = <<s[j]>>
    /\ \A j, k \in 1..Len(s) : j < k => pos[j] < pos[k]
    /\ \A i \in 1..n : ss[i] = <<>> \/ \E j \in 1..Len(s) : pos[j] = i

\* One more sequence, with nothing in it or one element.
LEMMA PicksMore ==
    ASSUME NEW ss, NEW n \in Nat, NEW s, NEW pos, Picks(n, ss, s, pos),
           ss[n + 1] = <<>> \/ ss[n + 1] = <<ss[n + 1][1]>>
    PROVE  \E at : Picks(n + 1, ss, s \o ss[n + 1], at)
<1>. DEFINE A(m) == {ss[i][1] : i \in 1..m}
            len == Len(s)
<1>0. /\ s \in Seq(A(n)) /\ pos \in [1..len -> 1..n]
      /\ \A j \in 1..len : ss[pos[j]] = <<s[j]>>
      /\ \A j, k \in 1..len : j < k => pos[j] < pos[k]
      /\ \A i \in 1..n : ss[i] = <<>> \/ \E j \in 1..len : pos[j] = i
      /\ len \in Nat
  BY DEF Picks
<1>1. A(n) \subseteq A(n + 1) /\ ss[n + 1][1] \in A(n + 1) /\ 1..n \subseteq 1..(n + 1)
  OBVIOUS
<1>2. s \in Seq(A(n + 1)) /\ s = [j \in 1..len |-> s[j]]
  <2>. HIDE DEF A
  <2>. QED
    BY <1>0, <1>1
<1>3. CASE ss[n + 1] = <<>>
  <2>1. s \o ss[n + 1] = s
    <3>. HIDE DEF A
    <3>. QED
      BY <1>2, <1>3, ConcatEmptySeq
  <2>2. pos \in [1..len -> 1..(n + 1)]
    BY <1>0, <1>1
  <2>3. \A i \in 1..(n + 1) : ss[i] = <<>> \/ \E j \in 1..len : pos[j] = i
    <3>1. \A i \in 1..(n + 1) : i \in 1..n \/ i = n + 1
      OBVIOUS
    <3>. QED
      BY <1>0, <1>3, <3>1
  <2>4. Picks(n + 1, ss, s, pos)
    BY <1>0, <1>2, <2>2, <2>3 DEF Picks
  <2>. QED
    BY <2>1, <2>4
<1>4. CASE ss[n + 1] = <<ss[n + 1][1]>>
  <2>. DEFINE x == ss[n + 1][1]
              t == Append(s, x)
              at == [j \in 1..(len + 1) |-> IF j = len + 1 THEN n + 1 ELSE pos[j]]
  <2>1. s \o ss[n + 1] = t
    <3>1. \A e \in A(n + 1) : s \o <<e>> = Append(s, e)
      <4>. HIDE DEF A
      <4>. QED
        BY <1>2, AppendIsConcat
    <3>2. s \o <<x>> = Append(s, x)
      <4>. HIDE DEF A
      <4>. QED
        BY <1>1, <3>1
    <3>. QED
      BY <1>4, <3>2
  <2>2. /\ t \in Seq(A(n + 1)) /\ Len(t) = len + 1
        /\ \A j \in 1..(len + 1) : t[j] = IF j = len + 1 THEN x ELSE s[j]
    <3>1. \A e \in A(n + 1) :
            /\ Append(s, e) \in Seq(A(n + 1)) /\ Len(Append(s, e)) = len + 1
            /\ \A j \in 1..(len + 1) :
                  Append(s, e)[j] = IF j = len + 1 THEN e ELSE s[j]
      <4>. HIDE DEF A
      <4>. QED
        BY <1>0, <1>2, AppendProperties
    <3>. HIDE DEF A
    <3>. QED
      BY <1>1, <3>1
  <2>3. at \in [1..(len + 1) -> 1..(n + 1)]
    <3>1. \A j \in 1..(len + 1) : j = len + 1 \/ j \in 1..len
      BY <1>0
    <3>2. \A j \in 1..len : pos[j] \in 1..(n + 1)
      BY <1>0
    <3>3. n + 1 \in 1..(n + 1)
      OBVIOUS
    <3>4. \A j \in 1..(len + 1) : at[j] \in 1..(n + 1)
      <4>. HIDE DEF A
      <4>. QED
        BY <3>1, <3>2, <3>3
    <3>. QED
      BY <3>4
  <2>4. ASSUME NEW j \in 1..(len + 1) PROVE ss[at[j]] = <<t[j]>>
    <3>1. CASE j = len + 1
      BY <1>4, <2>2, <3>1
    <3>2. CASE j # len + 1
      <4>1. j \in 1..len
        BY <1>0, <3>2
      <4>2. at[j] = pos[j] /\ t[j] = s[j]
        BY <2>2, <3>2
      <4>. QED
        BY <1>0, <4>1, <4>2
    <3>. QED
      BY <3>1, <3>2
  <2>5. ASSUME NEW j \in 1..(len + 1), NEW k \in 1..(len + 1), j < k PROVE at[j] < at[k]
    <3>1. j \in 1..len /\ j # len + 1
      BY <1>0, <2>5
    <3>2. at[j] = pos[j] /\ pos[j] \in 1..n
      BY <1>0, <3>1
    <3>3. CASE k = len + 1
      BY <3>2, <3>3
    <3>4. CASE k # len + 1
      <4>1. k \in 1..len
        BY <1>0, <3>4
      <4>. QED
        BY <1>0, <2>5, <3>1, <3>2, <3>4, <4>1
    <3>. QED
      BY <3>3, <3>4
  <2>6. ASSUME NEW i \in 1..(n + 1)
        PROVE  ss[i] = <<>> \/ \E j \in 1..(len + 1) : at[j] = i
    <3>1. CASE i = n + 1
      <4>1. len + 1 \in 1..(len + 1) /\ at[len + 1] = n + 1
        BY <1>0
      <4>. QED
        BY <3>1, <4>1
    <3>2. CASE i \in 1..n /\ ss[i] # <<>>
      <4>1. PICK j \in 1..len : pos[j] = i
        BY <1>0, <3>2
      <4>2. j \in 1..(len + 1) /\ j # len + 1
        BY <1>0
      <4>. QED
        BY <4>1, <4>2
    <3>. QED
      BY <3>1, <3>2
  <2>. HIDE DEF t, at
  <2>7. Picks(n + 1, ss, t, at)
    BY <2>2, <2>3, <2>4, <2>5, <2>6 DEF Picks
  <2>. QED
    BY <2>1, <2>7
<1>. QED
  BY <1>3, <1>4

\* Flattening keeps the elements there are, in their order.
LEMMA FlattenPicks ==
    ASSUME NEW n \in Nat, NEW ss, Short(n, ss)
    PROVE  \E pos : Picks(n, ss, FlattenSeq(ss), pos)
<1>1. DOMAIN ss = 1..n /\ ss = [i \in 1..n |-> ss[i]]
  BY DEF Short
<1>2. Len(ss) = n
  <2>1. ss \in Seq({ss[i] : i \in 1..n})
    BY <1>1
  <2>. QED
    BY <1>1, <2>1
<1>3. Picks(0, ss, <<>>, <<>>)
  BY DEF Picks
<1>4. CASE n = 0
  <2>1. FlattenSeq(ss) = ss /\ ss = <<>>
    BY <1>1, <1>2, <1>4 DEF FlattenSeq
  <2>. QED
    BY <1>3, <1>4, <2>1
<1>5. CASE n # 0
  <2>. DEFINE Upto(k, g) == g = [i \in 1..k |-> IF i = 1 THEN ss[i] ELSE g[i - 1] \o ss[i]]
              flat == CHOOSE f : Upto(n, f)
  <2>1. FlattenSeq(ss) = flat[n]
    BY <1>2, <1>5 DEF FlattenSeq
  <2>2. Upto(n, flat)
    <3>1. \E g : Upto(n, g)
      BY FlattenSolved
    <3>. HIDE DEF Upto
    <3>. QED
      BY <3>1
  <2>. HIDE DEF flat
  <2>3. \A i \in 1..n : flat[i] = IF i = 1 THEN ss[i] ELSE flat[i - 1] \o ss[i]
    BY <2>2
  <2>. HIDE DEF Upto
  <2>. DEFINE Done(i) == \E pos : Picks(i, ss, flat[i], pos)
              T == {i \in 1..n : ~Done(i)}
  <2>4. T = {}
    <3>. SUFFICES ASSUME T # {} PROVE FALSE
      OBVIOUS
    <3>1. PICK i \in T : \A k \in T : i <= k
      <4>. HIDE DEF Done
      <4>1. T \in SUBSET Nat
        OBVIOUS
      <4>. HIDE DEF T
      <4>. QED
        BY <4>1, LeastNumber
    <3>2. i \in 1..n /\ ~Done(i)
      <4>. HIDE DEF Done
      <4>. QED
        BY <3>1
    <3>3. ss[i] = <<>> \/ ss[i] = <<ss[i][1]>>
      BY <3>2 DEF Short
    <3>4. CASE i = 1
      <4>1. \E at : Picks(0 + 1, ss, <<>> \o ss[0 + 1], at)
        <5>1. ss[0 + 1] = <<>> \/ ss[0 + 1] = <<ss[0 + 1][1]>>
          BY <3>3, <3>4
        <5>. HIDE DEF Done
        <5>. QED
          BY <1>3, <5>1, PicksMore
      <4>2. <<>> \o ss[1] = ss[1] /\ 0 + 1 = 1
        <5>1. \A e : <<e>> \in Seq({e})
          OBVIOUS
        <5>2. ss[1] \in Seq({ss[1][1]})
          <6>. HIDE DEF Done
          <6>. QED
            BY <3>3, <3>4, <5>1, EmptySeq
        <5>. HIDE DEF Done
        <5>. QED
          BY <5>2, ConcatEmptySeq
      <4>3. flat[1] = ss[1]
        BY <2>3, <3>2, <3>4
      <4>. QED
        BY <3>2, <3>4, <4>1, <4>2, <4>3
    <3>5. CASE i # 1
      <4>1. i - 1 \in 1..n /\ ~(i <= i - 1) /\ i - 1 \in Nat /\ (i - 1) + 1 = i
        BY <3>2, <3>5
      <4>2. Done(i - 1)
        <5>. HIDE DEF Done
        <5>. QED
          BY <3>1, <4>1
      <4>3. PICK pos : Picks(i - 1, ss, flat[i - 1], pos)
        BY <4>2
      <4>4. \E at : Picks((i - 1) + 1, ss, flat[i - 1] \o ss[(i - 1) + 1], at)
        <5>1. ss[(i - 1) + 1] = <<>> \/ ss[(i - 1) + 1] = <<ss[(i - 1) + 1][1]>>
          BY <3>3, <4>1
        <5>. HIDE DEF Done
        <5>. QED
          BY <4>1, <4>3, <5>1, PicksMore
      <4>5. flat[i] = flat[i - 1] \o ss[i]
        BY <2>3, <3>2, <3>5
      <4>. QED
        BY <3>2, <4>1, <4>4, <4>5
    <3>. QED
      BY <3>4, <3>5
  <2>5. n \in 1..n
    BY <1>5
  <2>6. Done(n)
    <3>. HIDE DEF Done
    <3>. QED
      BY <2>4, <2>5
  <2>. QED
    BY <2>1, <2>6
<1>. QED
  BY <1>4, <1>5

\* No element is picked twice.
LEMMA PicksInjective ==
    ASSUME NEW n \in Nat, NEW ss, NEW s, NEW pos, Picks(n, ss, s, pos)
    PROVE  /\ Len(s) \in Nat /\ DOMAIN s = 1..Len(s) /\ pos \in [1..Len(s) -> 1..n]
           /\ \A j \in 1..Len(s) : ss[pos[j]] = <<s[j]>>
           /\ \A j, k \in 1..Len(s) : pos[j] = pos[k] => j = k
           /\ \A i \in 1..n : ss[i] = <<>> \/ \E j \in 1..Len(s) : pos[j] = i
<1>. DEFINE len == Len(s)
<1>1. /\ len \in Nat /\ DOMAIN s = 1..len /\ pos \in [1..len -> 1..n]
      /\ \A j \in 1..len : ss[pos[j]] = <<s[j]>>
      /\ \A j, k \in 1..len : j < k => pos[j] < pos[k]
      /\ \A i \in 1..n : ss[i] = <<>> \/ \E j \in 1..len : pos[j] = i
  BY DEF Picks
<1>. HIDE DEF len
<1>2. \A j, k \in 1..len : pos[j] = pos[k] => j = k
  <2>1. \A j, k \in 1..len : pos[j] \in Nat /\ pos[k] \in Nat /\ (j < k \/ k < j \/ j = k)
    BY <1>1
  <2>. QED
    BY <1>1, <2>1
<1>. QED
  BY <1>1, <1>2 DEF len

\* A flattened sequence is as long as there are sequences with an element.
LEMMA PicksCount ==
    ASSUME NEW n \in Nat, NEW ss, NEW s, NEW pos, Picks(n, ss, s, pos)
    PROVE  /\ Len(s) \in Nat
           /\ Len(s) = Cardinality({i \in 1..n : ss[i] # <<>>})
<1>0. /\ Len(s) \in Nat /\ pos \in [1..Len(s) -> 1..n]
      /\ \A j \in 1..Len(s) : ss[pos[j]] = <<s[j]>>
      /\ \A j, k \in 1..Len(s) : pos[j] = pos[k] => j = k
      /\ \A i \in 1..n : ss[i] = <<>> \/ \E j \in 1..Len(s) : pos[j] = i
  <2>1. Len(s) \in Nat /\ pos \in [1..Len(s) -> 1..n]
    BY PicksInjective
  <2>2. \A j \in 1..Len(s) : ss[pos[j]] = <<s[j]>>
    BY DEF Picks
  <2>3. \A j, k \in 1..Len(s) : pos[j] = pos[k] => j = k
    BY PicksInjective
  <2>4. \A i \in 1..n : ss[i] = <<>> \/ \E j \in 1..Len(s) : pos[j] = i
    BY PicksInjective
  <2>. QED
    BY <2>1, <2>2, <2>3, <2>4
<1>. DEFINE there == {i \in 1..n : ss[i] # <<>>}
            len == Len(s)
<1>1. /\ len \in Nat /\ pos \in [1..len -> 1..n]
      /\ \A j \in 1..len : ss[pos[j]] = <<s[j]>>
      /\ \A i \in 1..n : ss[i] = <<>> \/ \E j \in 1..len : pos[j] = i
  BY <1>0
<1>2. \A x : <<x>> # <<>>
  OBVIOUS
<1>3. pos \in [1..len -> there]
  <2>1. \A j \in 1..len : ss[pos[j]] # <<>> /\ pos[j] \in 1..n
    BY <1>1, <1>2
  <2>. HIDE DEF len
  <2>. QED
    BY <1>1, <2>1
<1>4. \A j, k \in 1..len : pos[j] = pos[k] => j = k
  BY <1>0
<1>5. \A i \in there : \E j \in 1..len : pos[j] = i
  BY <1>1
<1>6. pos \in Bijection(1..len, there)
  BY <1>3, <1>4, <1>5 DEF Bijection, Injection, Surjection, IsInjective
<1>. HIDE DEF there, len
<1>7. Cardinality(there) = len
  BY <1>1, <1>6, FS_CountingElements DEF ExistsBijection
<1>. QED
  BY <1>1, <1>7 DEF there, len

-----------------------------------------------------------------------------
(* What is found of a node.                                                *)

\* The one rule that asks for enhanced reachability is satisfied by it.
LEMMA CheckMonotone ==
    ASSUME NEW n \in Nodes, NEW c
    PROVE  Check(n, c, TRUE) \subseteq Check(n, c, FALSE)
<1>1. n.security.kind \in {"none", "tls", "reality"}
  BY NodeParts, SecurityParts
<1>2. CheckSecurity(n, c, TRUE) \subseteq CheckSecurity(n, c, FALSE)
  <2>1. CASE n.security.kind = "none"
    BY <2>1 DEF CheckSecurity
  <2>2. CASE n.security.kind = "tls"
    BY <2>2 DEF CheckSecurity
  <2>3. CASE n.security.kind = "reality"
    BY <2>3 DEF CheckSecurity, When
  <2>. QED
    BY <1>1, <2>1, <2>2, <2>3
<1>. QED
  BY <1>2 DEF Check

\* What passes with enhanced reachability off passes with it on.
LEMMA PassesMonotone ==
    ASSUME NEW n \in Nodes, NEW c, NEW toggle \in BOOLEAN, Passes(n, c, FALSE)
    PROVE  Passes(n, c, toggle)
BY CheckMonotone DEF Passes

\* A link is a sequence of at most one.
LEMMA LinkIs ==
    ASSUME NEW n, NEW c, NEW e
    PROVE  /\ Link(n, c, e) = <<>> \/ Link(n, c, e) = <<Link(n, c, e)[1]>>
           /\ Link(n, c, e) # <<>> <=>
                /\ Passes(n, c, e)
                /\ ~(/\ n.protocol.kind = "shadowsocks"
                     /\ n.transport.kind \notin {"raw", "web-socket"})
<1>1. \A x : <<x>> # <<>> /\ <<x>>[1] = x
  OBVIOUS
<1>. DEFINE link == [tag |-> n.tag, address |-> n.address, protocol |-> n.protocol,
                     transport |-> n.transport,
                     tls |-> IF n.protocol.kind = "shadowsocks" THEN SsLinkTls(n)
                             ELSE LinkTls(n, e)]
            refused == \/ ~Passes(n, c, e)
                       \/ n.protocol.kind = "shadowsocks"
                          /\ n.transport.kind \notin {"raw", "web-socket"}
<1>2. Link(n, c, e) = IF refused THEN <<>> ELSE <<link>>
  BY DEF Link
<1>. HIDE DEF link
<1>3. Link(n, c, e) = <<>> \/ Link(n, c, e) = <<Link(n, c, e)[1]>>
  <2>. HIDE DEF refused
  <2>. QED
    BY <1>1, <1>2
<1>4. Link(n, c, e) # <<>> <=> ~refused
  <2>. HIDE DEF refused
  <2>. QED
    BY <1>1, <1>2
<1>. QED
  BY <1>3, <1>4

\* A verdict asked with the toggle off holds for both of its settings.
LEMMA VerdictStays ==
    ASSUME NEW n \in Nodes, NEW c, NEW toggle \in BOOLEAN, Exportable(n, c)
    PROVE  Link(n, c, toggle) # <<>>
BY LinkIs, PassesMonotone DEF Exportable

\* What the panel shows: a link wherever the verdict says so, and a subscription that counts it.
LEMMA VerdictHeld ==
    ASSUME EditorTypeOK
    PROVE  VerdictHolds
<1>. SUFFICES ASSUME NEW toggle \in BOOLEAN
     PROVE LET shown == State(nodes, toggle)
               exportable == {i \in DOMAIN nodes : shown.views[i].matrix[client].exportable}
           IN  /\ \A i \in exportable : client \in shown.views[i].links
               /\ exportable # {} => shown.clients[client].subscription
               /\ shown.clients[client].included >= Cardinality(exportable)
  BY DEF VerdictHolds
<1>. DEFINE n == Len(nodes)
            shown == State(nodes, toggle)
            links == [i \in 1..n |-> Link(nodes[i], client, toggle)]
            exportable == {i \in 1..n : Exportable(nodes[i], client)}
            linked == {i \in 1..n : links[i] # <<>>}
<1>1. /\ n \in Nat /\ DOMAIN nodes = 1..n /\ client \in Clients
      /\ \A i \in 1..n : nodes[i] \in Nodes
  <2>1. nodes \in Seq(Nodes)
    BY OpenIsNode
  <2>. QED
    BY <2>1, OpenIsNode
<1>2. \A i \in 1..n : /\ shown.views[i].matrix[client].exportable = Exportable(nodes[i], client)
                      /\ client \in shown.views[i].links <=> links[i] # <<>>
  BY <1>1 DEF State, NodeView
<1>3. /\ shown.clients[client].subscription = (Len(FlattenSeq(links)) > 0)
      /\ shown.clients[client].included = Len(FlattenSeq(links))
  BY <1>1 DEF State, ClientView, ShareLinks, Bundle
<1>4. exportable \subseteq linked
  BY <1>1, VerdictStays
<1>5. Short(n, links)
  BY LinkIs DEF Short
<1>. HIDE DEF links
<1>6. Len(FlattenSeq(links)) \in Nat /\ Len(FlattenSeq(links)) = Cardinality(linked)
  BY <1>1, <1>5, FlattenPicks, PicksCount
<1>7. IsFiniteSet(linked) /\ IsFiniteSet(exportable)
  <2>1. IsFiniteSet(1..n)
    BY <1>1, FS_Interval
  <2>. QED
    BY <2>1, FS_Subset
<1>8. Cardinality(exportable) <= Cardinality(linked)
  BY <1>4, <1>7, FS_Subset
<1>9. exportable # {} => Cardinality(linked) > 0
  <2>1. exportable # {} => linked # {}
    BY <1>4
  <2>. HIDE DEF exportable, linked
  <2>2. Cardinality(linked) = 0 <=> linked = {}
    BY <1>7, FS_EmptySet
  <2>3. \A k \in Nat : k # 0 => k > 0
    OBVIOUS
  <2>. QED
    BY <1>6, <2>1, <2>2, <2>3
<1>10. {i \in DOMAIN nodes : shown.views[i].matrix[client].exportable} = exportable
  BY <1>1, <1>2
<1>11. \A i \in exportable : client \in shown.views[i].links
  BY <1>2, <1>4
<1>. HIDE DEF exportable, linked, shown
<1>12. Cardinality(exportable) \in Nat
  BY <1>7, FS_CardinalityType
<1>. QED
  BY <1>3, <1>6, <1>8, <1>9, <1>10, <1>11, <1>12 DEF shown

\* Each core.
LEMMA CoreIs ==
    ASSUME NEW c \in Clients
    PROVE  CoreOf(c) \in {"Xray", "SingBox", "Mihomo"}
BY DEF CoreOf

\* Each core's handshake presents the given name.
LEMMA HandshakeNames ==
    ASSUME NEW n, NEW e, n.security.kind = "tls",
           NEW given, given = IF n.security.sni = Absent THEN TransportHost(n) ELSE n.security.sni,
           given # Empty, ~IsIp(given)
    PROVE  /\ XrayTls(n, e).name = given
           /\ SingBoxTls(n, e).name = given
           /\ MihomoTls(n, e).name = given
<1>1. XrayTls(n, e).name = given
  BY DEF XrayTls
<1>2. Absent # ""
  BY DEF Absent
<1>3. MihomoTls(n, e).name = given
  BY <1>2 DEF MihomoTls, Empty
<1>4. SingBoxTls(n, e).name = EffectiveSni(n)
  BY DEF SingBoxTls
<1>5. EffectiveSni(n) = given
  BY <1>2 DEF EffectiveSni, Empty
<1>. QED
  BY <1>1, <1>3, <1>4, <1>5

\* The handshake of an outbound is that of its core, or of the plugin.
LEMMA EmittedTls ==
    ASSUME NEW n, NEW c, CoreOf(c) \in {"Xray", "SingBox", "Mihomo"}, NEW e,
           NEW outbound \in Range(Emitted(n, c, e))
    PROVE  \/ outbound.tls = XrayTls(n, e)
           \/ n.protocol.kind = "shadowsocks" /\ outbound.tls = PluginTls(n)
           \/ n.protocol.kind # "shadowsocks"
              /\ outbound.tls \in {SingBoxTls(n, e), MihomoTls(n, e)}
<1>. DEFINE shadowsocks == n.protocol.kind = "shadowsocks"
<1>0. \A s : (\E m : s = <<m>>) => \A x \in Range(s) : x = s[1]
  BY DEF Range
<1>00. Range(<<>>) = {}
  BY DEF Range
<1>1. CASE CoreOf(c) = "Xray"
  <2>. DEFINE known == {Trim((<<n>>)[i].tag) : i \in DOMAIN <<n>>}
              document == [i \in DOMAIN <<n>> |-> XrayOutbound((<<n>>)[i], known, c, e)]
  <2>1. XrayDocument(<<n>>, c, e) \in {document, <<>>}
    BY DEF XrayDocument
  <2>2. Emitted(n, c, e) = XrayDocument(<<n>>, c, e)
    BY <1>1 DEF Emitted
  <2>3. outbound \in Range(document)
    BY <1>00, <2>1, <2>2
  <2>. HIDE DEF known
  <2>4. outbound = XrayOutbound(n, known, c, e)
    BY <2>3 DEF Range
  <2>. QED
    BY <2>4 DEF XrayOutbound
<1>2. CASE CoreOf(c) = "SingBox"
  <2>. DEFINE tag == SingBoxTag(n)
              made == [tag |-> tag, address |-> n.address, protocol |-> n.protocol,
                       transport |-> n.transport, host |-> TransportHost(n),
                       tls |-> IF shadowsocks THEN PluginTls(n) ELSE SingBoxTls(n, e),
                       mux |-> n.mux, via |-> n.via,
                       dropped |-> Degradations(n, c, e) \cup SingBoxDropped(n)]
  <2>1. SingBoxOutbound(n, c, tag, e) \in {<<>>, <<made>>}
    BY DEF SingBoxOutbound
  <2>2. Emitted(n, c, e) = SingBoxOutbound(n, c, tag, e)
    BY <1>2 DEF Emitted
  <2>3. made.tls = IF shadowsocks THEN PluginTls(n) ELSE SingBoxTls(n, e)
    OBVIOUS
  <2>. HIDE DEF made
  <2>4. outbound \in Range(<<made>>)
    BY <1>00, <2>1, <2>2
  <2>5. outbound = made
    BY <1>0, <2>4
  <2>. QED
    BY <2>3, <2>5
<1>3. CASE CoreOf(c) = "Mihomo"
  <2>. DEFINE made == [tag |-> Trim(n.tag), address |-> n.address, protocol |-> n.protocol,
                       transport |-> n.transport, host |-> TransportHost(n),
                       tls |-> IF shadowsocks THEN PluginTls(n) ELSE MihomoTls(n, e),
                       mux |-> Smux(n), via |-> NoTag,
                       dropped |-> Degradations(n, c, e) \cup MihomoDropped(n)]
  <2>1. MihomoProxy(n, c, e) \in {<<>>, <<made>>}
    BY DEF MihomoProxy
  <2>2. Emitted(n, c, e) = MihomoProxy(n, c, e)
    BY <1>3 DEF Emitted
  <2>3. made.tls = IF shadowsocks THEN PluginTls(n) ELSE MihomoTls(n, e)
    OBVIOUS
  <2>. HIDE DEF made
  <2>4. outbound \in Range(<<made>>)
    BY <1>00, <2>1, <2>2
  <2>5. outbound = made
    BY <1>0, <2>4
  <2>. QED
    BY <2>3, <2>5
<1>. QED
  BY <1>1, <1>2, <1>3

\* The name an outbound with TLS presents.
LEMMA NamesAgree ==
    ASSUME EditorTypeOK
    PROVE  SameNameEverywhere
<1>. DEFINE host == TransportHost(node)
            given == IF node.security.sni = Absent THEN host ELSE node.security.sni
<1>. SUFFICES ASSUME node.security.kind = "tls", given # Empty, ~IsIp(given),
                     node.protocol.kind = "shadowsocks" => given = host,
                     NEW outbound \in Range(Emitted(node, client, enhanced)),
                     outbound.tls.kind = "tls"
     PROVE  outbound.tls.name = given
  BY DEF SameNameEverywhere
<1>1. /\ XrayTls(node, enhanced).name = given
      /\ SingBoxTls(node, enhanced).name = given
      /\ MihomoTls(node, enhanced).name = given
  BY HandshakeNames
<1>2. CoreOf(client) \in {"Xray", "SingBox", "Mihomo"}
  BY OpenIsNode, CoreIs
<1>3. \/ outbound.tls = XrayTls(node, enhanced)
      \/ node.protocol.kind = "shadowsocks" /\ outbound.tls = PluginTls(node)
      \/ outbound.tls \in {SingBoxTls(node, enhanced), MihomoTls(node, enhanced)}
  BY <1>2, EmittedTls
<1>4. CASE node.protocol.kind = "shadowsocks" /\ outbound.tls = PluginTls(node)
  <2>1. CASE node.transport.kind = "raw" \/ node.security.kind = "none"
    <3>1. outbound.tls.kind = "none"
      BY <1>4, <2>1 DEF PluginTls
    <3>. QED
      BY <3>1
  <2>2. CASE ~(node.transport.kind = "raw" \/ node.security.kind = "none")
    BY <1>4, <2>2 DEF PluginTls
  <2>. QED
    BY <2>1, <2>2
<1>. QED
  BY <1>1, <1>3, <1>4

-----------------------------------------------------------------------------
(* What blocks a node.                                                     *)

\* The findings of each rule that block.
ServingBlocks(n, f) ==
    /\ n.served /\ ~ServableOnWorker(n.transport)
    /\ f = Finding("Fatal", "transport", n.transport.kind)

FlowBlocks(n, c, f) ==
    /\ n.protocol.kind = "vless" /\ n.protocol.flow # "none"
    /\ \/ IsFramed(n.transport) /\ f = Finding("Broken", "flow", n.transport.kind)
       \/ n.security.kind = "none" /\ f = Finding("Fatal", "flow", "no TLS")
       \/ n.served /\ f = Finding("Broken", "flow", "CDN")
       \/ n.mux /\ CoreOf(c) = "SingBox" /\ f = Finding("Fatal", "mux", "Vision")

TranslationBlocks(n, c, f) ==
    /\ n.transport.kind = "xhttp" /\ SupportsXhttp(c)
    /\ n.protocol.kind = "shadowsocks" /\ CoreOf(c) # "Xray"
    /\ f = Finding("Broken", "protocol", CoreOf(c))

SecurityBlocks(n, c, e, f) ==
    \/ /\ n.security.kind = "tls" /\ n.security.insecure /\ CoreOf(c) = "Xray"
       /\ f = Finding("Fatal", "allow_insecure", "removed")
    \/ /\ n.security.kind = "reality"
       /\ \/ n.served /\ f = Finding("Fatal", "security", "CDN")
          \/ /\ n.transport.kind \notin {"xhttp", "grpc", "raw"}
             /\ f = Finding("Fatal", "security", n.transport.kind)
          \/ /\ n.security.fingerprint = Absent /\ CoreOf(c) = "Mihomo" /\ ~e
             /\ f = Finding("Broken", "fingerprint", "REALITY")
    \/ /\ n.security.kind = "none" /\ n.address # "private"
       /\ n.protocol.kind \in {"vless", "trojan"} /\ CoreOf(c) = "Xray"
       /\ f = Finding("Fatal", "security", "public address")

ProtocolBlocks(n, c, f) ==
    \/ /\ n.protocol.kind = "shadowsocks" /\ KeyLen(n.protocol.method) > 0
       /\ DecodedLen(n.protocol.secret) # KeyLen(n.protocol.method)
       /\ f = Finding("Fatal", "password", n.protocol.method)
    \/ /\ n.protocol.kind = "vmess" /\ n.protocol.cipher = "zero" /\ CoreOf(c) = "Xray"
       /\ f = Finding("Broken", "cipher", "ignored")

Blocks(n, c, e, f) ==
    \/ ServingBlocks(n, f)
    \/ FlowBlocks(n, c, f)
    \/ TranslationBlocks(n, c, f)
    \/ SecurityBlocks(n, c, e, f)
    \/ ProtocolBlocks(n, c, f)

\* Severities.
LEMMA Severities ==
    \A field, about :
       /\ BlocksSelection(Finding("Fatal", field, about).severity)
       /\ BlocksSelection(Finding("Broken", field, about).severity)
       /\ ~BlocksSelection(Finding("Degraded", field, about).severity)
       /\ ~BlocksSelection(Finding("Untranslatable", field, about).severity)
BY DEF BlocksSelection, Finding

\* Which findings block, rule by rule.
LEMMA BlockingIs ==
    ASSUME NEW n \in Nodes, NEW c \in Clients, NEW e \in BOOLEAN, NEW f
    PROVE  f \in Blocking(Check(n, c, e)) <=> Blocks(n, c, e, f)
<1>0. /\ n.protocol.kind \in {"vless", "vmess", "trojan", "shadowsocks"}
      /\ n.security.kind \in {"none", "tls", "reality"}
  BY NodeParts, ProtocolParts, SecurityParts
<1>. DEFINE B(S) == f \in S /\ BlocksSelection(f.severity)
<1>1. B(CheckWorkerServing(n)) <=> ServingBlocks(n, f)
  BY Severities DEF CheckWorkerServing, ServingBlocks, When
<1>2. B(CheckFlow(n, c)) <=> FlowBlocks(n, c, f)
  BY Severities DEF CheckFlow, FlowBlocks, When
<1>3. B(CheckTransportTranslation(n, c)) <=> TranslationBlocks(n, c, f)
  BY Severities DEF CheckTransportTranslation, TranslationBlocks, When
<1>4. B(CheckSecurity(n, c, e)) <=> SecurityBlocks(n, c, e, f)
  <2>1. CASE n.security.kind = "none"
    BY <2>1, Severities DEF CheckSecurity, SecurityBlocks, When
  <2>2. CASE n.security.kind = "tls"
    BY <2>2, Severities DEF CheckSecurity, SecurityBlocks, When
  <2>3. CASE n.security.kind = "reality"
    BY <2>3, Severities DEF CheckSecurity, SecurityBlocks, When
  <2>. QED
    BY <1>0, <2>1, <2>2, <2>3
<1>5. B(CheckProtocol(n, c)) <=> ProtocolBlocks(n, c, f)
  <2>1. CASE n.protocol.kind = "shadowsocks"
    BY <2>1, Severities DEF CheckProtocol, ProtocolBlocks, When
  <2>2. CASE n.protocol.kind = "vmess"
    BY <2>2, Severities DEF CheckProtocol, ProtocolBlocks, When
  <2>3. CASE n.protocol.kind \in {"vless", "trojan"}
    BY <2>3, Severities DEF CheckProtocol, ProtocolBlocks, When
  <2>. QED
    BY <1>0, <2>1, <2>2, <2>3
<1>6. ~B(CheckMux(n))
  BY Severities DEF CheckMux, When
<1>7. f \in Blocking(Check(n, c, e)) <=>
        \/ B(CheckWorkerServing(n)) \/ B(CheckFlow(n, c)) \/ B(CheckTransportTranslation(n, c))
        \/ B(CheckSecurity(n, c, e)) \/ B(CheckProtocol(n, c)) \/ B(CheckMux(n))
  BY DEF Blocking, Check
<1>. QED
  BY <1>1, <1>2, <1>3, <1>4, <1>5, <1>6, <1>7 DEF Blocks

-----------------------------------------------------------------------------
(* What a choice makes of a node.                                          *)

\* An option fits its field, so that the candidate it makes is a node.
LEMMA CandidateType ==
    ASSUME NEW n \in Nodes, NEW field \in Selects, NEW w \in Options[field]
    PROVE  Apply(n, field, w) \in Nodes
<1>1. field \in EditFields
  BY DEF EditFields
<1>2. field \notin TextFields /\ field \notin {"mux", "allow_insecure"}
  BY SelectFacts DEF TextFields
<1>3. Fits(field, w)
  BY <1>2 DEF Fits
<1>. QED
  BY <1>1, <1>3, ApplyType

\* A part with another value in one field, and a node with another part.
With(part, field, x) == [part EXCEPT ![field] = x]
SetProtocol(n, x) == [n EXCEPT !.protocol = x]
SetTransport(n, x) == [n EXCEPT !.transport = x]
SetSecurity(n, x) == [n EXCEPT !.security = x]

\* The other parts stay.
LEMMA SetParts ==
    ASSUME NEW n \in Nodes, NEW x
    PROVE  /\ LET m == SetProtocol(n, x)
              IN  /\ m.protocol = x /\ m.transport = n.transport /\ m.security = n.security
                  /\ m.address = n.address /\ m.mux = n.mux /\ m.served = n.served
           /\ LET m == SetTransport(n, x)
              IN  /\ m.protocol = n.protocol /\ m.transport = x /\ m.security = n.security
                  /\ m.address = n.address /\ m.mux = n.mux /\ m.served = n.served
           /\ LET m == SetSecurity(n, x)
              IN  /\ m.protocol = n.protocol /\ m.transport = n.transport /\ m.security = x
                  /\ m.address = n.address /\ m.mux = n.mux /\ m.served = n.served
BY DEF Nodes, SetProtocol, SetTransport, SetSecurity

\* A choice sets one part, or nothing where the part has no such field.
LEMMA ChoiceIs ==
    ASSUME NEW n \in Nodes, NEW w
    PROVE  /\ Apply(n, "protocol", w) = SetProtocol(n, WithProtocol(n, w))
           /\ Apply(n, "transport", w) = SetTransport(n, WithTransport(n, w))
           /\ Apply(n, "security", w) = SetSecurity(n, WithSecurity(n, w))
           /\ \A field \in {"flow", "cipher", "method"} :
                Apply(n, field, w) = IF field \in DOMAIN n.protocol
                                     THEN SetProtocol(n, With(n.protocol, field, w)) ELSE n
           /\ Apply(n, "xhttp_mode", w) = IF "mode" \in DOMAIN n.transport
                                          THEN SetTransport(n, With(n.transport, "mode", w))
                                          ELSE n
           /\ Apply(n, "fingerprint", w) =
                IF "fingerprint" \in DOMAIN n.security
                THEN SetSecurity(n, With(n.security, "fingerprint", OptionalText(w))) ELSE n
           /\ Apply(n, "allow_insecure", w) =
                IF "insecure" \in DOMAIN n.security
                THEN SetSecurity(n, With(n.security, "insecure", w)) ELSE n
<1>1. /\ Apply(n, "protocol", w) = SetProtocol(n, WithProtocol(n, w))
      /\ Apply(n, "transport", w) = SetTransport(n, WithTransport(n, w))
      /\ Apply(n, "security", w) = SetSecurity(n, WithSecurity(n, w))
  BY ApplyIs DEF SetProtocol, SetTransport, SetSecurity
<1>2. ASSUME NEW field \in {"flow", "cipher", "method"}
      PROVE  Apply(n, field, w) = IF field \in DOMAIN n.protocol
                                  THEN SetProtocol(n, With(n.protocol, field, w)) ELSE n
  <2>1. Apply(n, field, w) = WithPart(n, "protocol", field, w)
    BY ApplyIs
  <2>. QED
    BY <2>1, WithPartIs DEF SetProtocol, With
<1>3. Apply(n, "xhttp_mode", w) = IF "mode" \in DOMAIN n.transport
                                 THEN SetTransport(n, With(n.transport, "mode", w)) ELSE n
  <2>1. Apply(n, "xhttp_mode", w) = WithPart(n, "transport", "mode", w)
    BY ApplyIs
  <2>. QED
    BY <2>1, WithPartIs DEF SetTransport, With
<1>4. Apply(n, "fingerprint", w) =
        IF "fingerprint" \in DOMAIN n.security
        THEN SetSecurity(n, With(n.security, "fingerprint", OptionalText(w))) ELSE n
  <2>1. Apply(n, "fingerprint", w) = WithPart(n, "security", "fingerprint", OptionalText(w))
    BY ApplyIs
  <2>. QED
    BY <2>1, WithPartIs DEF SetSecurity, With
<1>5. Apply(n, "allow_insecure", w) =
        IF "insecure" \in DOMAIN n.security
        THEN SetSecurity(n, With(n.security, "insecure", w)) ELSE n
  <2>1. Apply(n, "allow_insecure", w) = WithPart(n, "security", "insecure", w)
    BY ApplyIs
  <2>. QED
    BY <2>1, WithPartIs DEF SetSecurity, With
<1>. QED
  BY <1>1, <1>2, <1>3, <1>4, <1>5

\* A choice of the protocol's controls leaves the other parts alone, and so on.
LEMMA CandidateParts ==
    ASSUME NEW n \in Nodes, NEW w
    PROVE  /\ \A field \in {"protocol", "flow", "cipher", "method"} :
                LET m == Apply(n, field, w)
                IN  /\ m.transport = n.transport /\ m.security = n.security
                    /\ m.address = n.address /\ m.mux = n.mux /\ m.served = n.served
           /\ \A field \in {"transport", "xhttp_mode"} :
                LET m == Apply(n, field, w)
                IN  /\ m.protocol = n.protocol /\ m.security = n.security
                    /\ m.address = n.address /\ m.mux = n.mux /\ m.served = n.served
           /\ \A field \in {"security", "fingerprint", "allow_insecure"} :
                LET m == Apply(n, field, w)
                IN  /\ m.protocol = n.protocol /\ m.transport = n.transport
                    /\ m.address = n.address /\ m.mux = n.mux /\ m.served = n.served
<1>1. ASSUME NEW field \in {"protocol", "flow", "cipher", "method"}
      PROVE  Apply(n, field, w) = n \/ \E x : Apply(n, field, w) = SetProtocol(n, x)
  <2>1. Apply(n, "protocol", w) = n \/ \E x : Apply(n, "protocol", w) = SetProtocol(n, x)
    BY ChoiceIs
  <2>2. Apply(n, "flow", w) = n \/ \E x : Apply(n, "flow", w) = SetProtocol(n, x)
    BY ChoiceIs
  <2>3. Apply(n, "cipher", w) = n \/ \E x : Apply(n, "cipher", w) = SetProtocol(n, x)
    BY ChoiceIs
  <2>4. Apply(n, "method", w) = n \/ \E x : Apply(n, "method", w) = SetProtocol(n, x)
    BY ChoiceIs
  <2>. QED
    BY <2>1, <2>2, <2>3, <2>4
<1>2. ASSUME NEW field \in {"transport", "xhttp_mode"}
      PROVE  Apply(n, field, w) = n \/ \E x : Apply(n, field, w) = SetTransport(n, x)
  <2>1. Apply(n, "transport", w) = n \/ \E x : Apply(n, "transport", w) = SetTransport(n, x)
    BY ChoiceIs
  <2>2. Apply(n, "xhttp_mode", w) = n \/ \E x : Apply(n, "xhttp_mode", w) = SetTransport(n, x)
    BY ChoiceIs
  <2>. QED
    BY <2>1, <2>2
<1>3. ASSUME NEW field \in {"security", "fingerprint", "allow_insecure"}
      PROVE  Apply(n, field, w) = n \/ \E x : Apply(n, field, w) = SetSecurity(n, x)
  <2>1. Apply(n, "security", w) = n \/ \E x : Apply(n, "security", w) = SetSecurity(n, x)
    BY ChoiceIs
  <2>2. Apply(n, "fingerprint", w) = n \/ \E x : Apply(n, "fingerprint", w) = SetSecurity(n, x)
    BY ChoiceIs
  <2>3. \/ Apply(n, "allow_insecure", w) = n
        \/ \E x : Apply(n, "allow_insecure", w) = SetSecurity(n, x)
    BY ChoiceIs
  <2>. QED
    BY <2>1, <2>2, <2>3
<1>. QED
  BY <1>1, <1>2, <1>3, SetParts

\* A part with another value in one field.
LEMMA PartWith ==
    /\ \A p \in Protocols : \A w :
          /\ p.kind = "vless" => "flow" \in DOMAIN p /\ With(p, "flow", w) = Vless(p.secret, w)
          /\ p.kind = "vmess" =>
               "cipher" \in DOMAIN p /\ With(p, "cipher", w) = Vmess(p.secret, w)
          /\ p.kind = "shadowsocks" =>
               "method" \in DOMAIN p /\ With(p, "method", w) = Shadowsocks(w, p.secret)
    /\ \A t \in Transports : \A w :
          t.kind = "xhttp" => "mode" \in DOMAIN t /\ With(t, "mode", w) = Xhttp(w, t.host)
    /\ \A s \in Securities : \A w :
          /\ s.kind = "tls" =>
               /\ "fingerprint" \in DOMAIN s /\ "insecure" \in DOMAIN s
               /\ With(s, "fingerprint", w) = Tls(s.sni, w, s.insecure)
               /\ With(s, "insecure", w) = Tls(s.sni, s.fingerprint, w)
          /\ s.kind = "reality" =>
               /\ "fingerprint" \in DOMAIN s
               /\ With(s, "fingerprint", w) = Reality(s.server_name, w, s.public_key)
<1>1. ASSUME NEW p \in Protocols, NEW w, p.kind = "vless"
      PROVE  "flow" \in DOMAIN p /\ With(p, "flow", w) = Vless(p.secret, w)
  BY <1>1 DEF Protocols, Vless, With
<1>2. ASSUME NEW p \in Protocols, NEW w, p.kind = "vmess"
      PROVE  "cipher" \in DOMAIN p /\ With(p, "cipher", w) = Vmess(p.secret, w)
  BY <1>2 DEF Protocols, Vmess, With
<1>3. ASSUME NEW p \in Protocols, NEW w, p.kind = "shadowsocks"
      PROVE  "method" \in DOMAIN p /\ With(p, "method", w) = Shadowsocks(w, p.secret)
  BY <1>3 DEF Protocols, Shadowsocks, With
<1>4. ASSUME NEW t \in Transports, NEW w, t.kind = "xhttp"
      PROVE  "mode" \in DOMAIN t /\ With(t, "mode", w) = Xhttp(w, t.host)
  BY <1>4 DEF Transports, Xhttp, With
<1>5. ASSUME NEW s \in Securities, NEW w, s.kind = "tls"
      PROVE  "fingerprint" \in DOMAIN s /\ With(s, "fingerprint", w) = Tls(s.sni, w, s.insecure)
  BY <1>5 DEF Securities, Tls, With
<1>6. ASSUME NEW s \in Securities, NEW w, s.kind = "tls"
      PROVE  "insecure" \in DOMAIN s /\ With(s, "insecure", w) = Tls(s.sni, s.fingerprint, w)
  BY <1>6 DEF Securities, Tls, With
<1>7. ASSUME NEW s \in Securities, NEW w, s.kind = "reality"
      PROVE  /\ "fingerprint" \in DOMAIN s
             /\ With(s, "fingerprint", w) = Reality(s.server_name, w, s.public_key)
  BY <1>7 DEF Securities, Reality, With
<1>. QED
  BY <1>1, <1>2, <1>3, <1>4, <1>5, <1>6, <1>7

\* The part that a choice makes.
LEMMA CandidateIs ==
    ASSUME NEW n \in Nodes, NEW w
    PROVE  /\ Apply(n, "protocol", w).protocol = WithProtocol(n, w)
           /\ Apply(n, "transport", w).transport = WithTransport(n, w)
           /\ Apply(n, "security", w).security = WithSecurity(n, w)
           /\ n.protocol.kind = "vless" =>
                Apply(n, "flow", w).protocol = Vless(n.protocol.secret, w)
           /\ n.protocol.kind = "vmess" =>
                Apply(n, "cipher", w).protocol = Vmess(n.protocol.secret, w)
           /\ n.protocol.kind = "shadowsocks" =>
                Apply(n, "method", w).protocol = Shadowsocks(w, n.protocol.secret)
           /\ n.transport.kind = "xhttp" =>
                Apply(n, "xhttp_mode", w).transport = Xhttp(w, n.transport.host)
           /\ n.security.kind = "tls" =>
                /\ Apply(n, "fingerprint", w).security =
                     Tls(n.security.sni, OptionalText(w), n.security.insecure)
                /\ Apply(n, "allow_insecure", w).security =
                     Tls(n.security.sni, n.security.fingerprint, w)
           /\ n.security.kind = "reality" =>
                Apply(n, "fingerprint", w).security =
                  Reality(n.security.server_name, OptionalText(w), n.security.public_key)
<1>0. /\ n.protocol \in Protocols /\ n.transport \in Transports /\ n.security \in Securities
  BY NodeParts
<1>1. \A x : /\ SetProtocol(n, x).protocol = x
            /\ SetTransport(n, x).transport = x
            /\ SetSecurity(n, x).security = x
  BY SetParts
<1>2. /\ Apply(n, "protocol", w).protocol = WithProtocol(n, w)
      /\ Apply(n, "transport", w).transport = WithTransport(n, w)
      /\ Apply(n, "security", w).security = WithSecurity(n, w)
  BY <1>1, ChoiceIs
<1>3. ASSUME n.protocol.kind = "vless"
      PROVE  Apply(n, "flow", w).protocol = Vless(n.protocol.secret, w)
  <2>1. "flow" \in DOMAIN n.protocol /\ With(n.protocol, "flow", w) = Vless(n.protocol.secret, w)
    BY <1>0, <1>3, PartWith
  <2>2. Apply(n, "flow", w) = SetProtocol(n, Vless(n.protocol.secret, w))
    BY <2>1, ChoiceIs
  <2>. QED
    BY <1>1, <2>2
<1>4. ASSUME n.protocol.kind = "vmess"
      PROVE  Apply(n, "cipher", w).protocol = Vmess(n.protocol.secret, w)
  <2>1. /\ "cipher" \in DOMAIN n.protocol
        /\ With(n.protocol, "cipher", w) = Vmess(n.protocol.secret, w)
    BY <1>0, <1>4, PartWith
  <2>2. Apply(n, "cipher", w) = SetProtocol(n, Vmess(n.protocol.secret, w))
    BY <2>1, ChoiceIs
  <2>. QED
    BY <1>1, <2>2
<1>5. ASSUME n.protocol.kind = "shadowsocks"
      PROVE  Apply(n, "method", w).protocol = Shadowsocks(w, n.protocol.secret)
  <2>1. /\ "method" \in DOMAIN n.protocol
        /\ With(n.protocol, "method", w) = Shadowsocks(w, n.protocol.secret)
    BY <1>0, <1>5, PartWith
  <2>2. Apply(n, "method", w) = SetProtocol(n, Shadowsocks(w, n.protocol.secret))
    BY <2>1, ChoiceIs
  <2>. QED
    BY <1>1, <2>2
<1>6. ASSUME n.transport.kind = "xhttp"
      PROVE  Apply(n, "xhttp_mode", w).transport = Xhttp(w, n.transport.host)
  <2>1. "mode" \in DOMAIN n.transport /\ With(n.transport, "mode", w) = Xhttp(w, n.transport.host)
    BY <1>0, <1>6, PartWith
  <2>2. Apply(n, "xhttp_mode", w) = SetTransport(n, Xhttp(w, n.transport.host))
    BY <2>1, ChoiceIs
  <2>. QED
    BY <1>1, <2>2
<1>7. ASSUME n.security.kind = "tls"
      PROVE  /\ Apply(n, "fingerprint", w).security =
                  Tls(n.security.sni, OptionalText(w), n.security.insecure)
             /\ Apply(n, "allow_insecure", w).security =
                  Tls(n.security.sni, n.security.fingerprint, w)
  <2>1. /\ "fingerprint" \in DOMAIN n.security
        /\ With(n.security, "fingerprint", OptionalText(w)) =
             Tls(n.security.sni, OptionalText(w), n.security.insecure)
    BY <1>0, <1>7, PartWith
  <2>2. Apply(n, "fingerprint", w) =
          SetSecurity(n, Tls(n.security.sni, OptionalText(w), n.security.insecure))
    BY <2>1, ChoiceIs
  <2>3. /\ "insecure" \in DOMAIN n.security
        /\ With(n.security, "insecure", w) = Tls(n.security.sni, n.security.fingerprint, w)
    BY <1>0, <1>7, PartWith
  <2>4. Apply(n, "allow_insecure", w) =
          SetSecurity(n, Tls(n.security.sni, n.security.fingerprint, w))
    BY <2>3, ChoiceIs
  <2>. QED
    BY <1>1, <2>2, <2>4
<1>8. ASSUME n.security.kind = "reality"
      PROVE  Apply(n, "fingerprint", w).security =
               Reality(n.security.server_name, OptionalText(w), n.security.public_key)
  <2>1. /\ "fingerprint" \in DOMAIN n.security
        /\ With(n.security, "fingerprint", OptionalText(w)) =
             Reality(n.security.server_name, OptionalText(w), n.security.public_key)
    BY <1>0, <1>8, PartWith
  <2>2. Apply(n, "fingerprint", w) =
          SetSecurity(n, Reality(n.security.server_name, OptionalText(w), n.security.public_key))
    BY <2>1, ChoiceIs
  <2>. QED
    BY <1>1, <2>2
<1>. QED
  BY <1>2, <1>3, <1>4, <1>5, <1>6, <1>7, <1>8

\* An option is offered when whatever blocks its candidate blocks those of all the others.
LEMMA OfferedIs ==
    ASSUME NEW n \in Nodes, NEW field \in Selects, NEW v \in Options[field],
           NEW c \in Clients, NEW e \in BOOLEAN
    PROVE  v \in Offered(n, field, c, e) <=>
             \A f : Blocks(Apply(n, field, v), c, e, f) =>
                      \A w \in Options[field] : Blocks(Apply(n, field, w), c, e, f)
<1>. DEFINE per == [w \in Options[field] |-> FindingsWith(n, field, w, c, e)]
<1>1. \A w \in Options[field] : \A f :
         Blocks(Apply(n, field, w), c, e, f) <=> f \in per[w] /\ BlocksSelection(f.severity)
  <2>1. \A w \in Options[field] : \A f :
           Blocks(Apply(n, field, w), c, e, f) <=> f \in Blocking(Check(Apply(n, field, w), c, e))
    BY CandidateType, BlockingIs
  <2>. QED
    BY <2>1 DEF Blocking, FindingsWith
<1>2. \A f : f \in Shared(per) <=> \A w \in Options[field] : f \in per[w]
  <2>1. DOMAIN per = Options[field] /\ per[v] \in Range(per)
    BY DEF Range
  <2>. HIDE DEF per
  <2>. QED
    BY <2>1 DEF Shared
<1>3. v \in Offered(n, field, c, e) <=> Blocking(per[v] \ Shared(per)) = {}
  BY DEF Offered, Blocked
<1>4. Blocking(per[v] \ Shared(per)) = {} <=>
        \A f : f \in per[v] /\ BlocksSelection(f.severity) => f \in Shared(per)
  BY DEF Blocking
<1>. HIDE DEF per
<1>. QED
  BY <1>1, <1>2, <1>3, <1>4

-----------------------------------------------------------------------------
(* What can be chosen breaks nothing; what is broken can be repaired.      *)

\* Which nodes have which selects.
LEMMA ControlFacts ==
    ASSUME NEW n \in Nodes
    PROVE  /\ "flow" \in Controls(n) <=> n.protocol.kind = "vless"
           /\ "cipher" \in Controls(n) <=> n.protocol.kind = "vmess"
           /\ "method" \in Controls(n) <=> n.protocol.kind = "shadowsocks"
           /\ "xhttp_mode" \in Controls(n) <=> n.transport.kind = "xhttp"
           /\ "fingerprint" \in Controls(n) <=> n.security.kind \in {"tls", "reality"}
           /\ {"protocol", "transport", "security"} \subseteq Controls(n)
<1>0. /\ n.protocol.kind \in {"vless", "vmess", "trojan", "shadowsocks"}
      /\ n.transport.kind \in {"xhttp", "web-socket", "grpc", "http-upgrade", "raw"}
      /\ n.security.kind \in {"none", "tls", "reality"}
  BY NodeParts, ProtocolParts, TransportParts, SecurityParts
<1>1. /\ n.protocol.kind = "vless" => ProtocolControls(n) = {"uuid", "flow"}
      /\ n.protocol.kind = "vmess" => ProtocolControls(n) = {"uuid", "cipher"}
      /\ n.protocol.kind = "trojan" => ProtocolControls(n) = {"password"}
      /\ n.protocol.kind = "shadowsocks" => ProtocolControls(n) = {"password", "method"}
  BY DEF ProtocolControls, SecretField
<1>2. /\ n.transport.kind = "xhttp" => TransportControls(n) = {"xhttp_mode", "path", "host"}
      /\ n.transport.kind = "web-socket" => TransportControls(n) = {"path", "host", "heartbeat"}
      /\ n.transport.kind = "grpc" => TransportControls(n) = {"service_name"}
      /\ n.transport.kind = "http-upgrade" => TransportControls(n) = {"path"}
      /\ n.transport.kind = "raw" => TransportControls(n) = {}
  BY DEF TransportControls
<1>3. /\ n.security.kind = "tls" =>
           SecurityControls(n) = {"sni", "alpn", "fingerprint", "allow_insecure"}
      /\ n.security.kind = "reality" =>
           SecurityControls(n) = {"public_key", "short_id", "server_name", "fingerprint"}
      /\ n.security.kind = "none" => SecurityControls(n) = {}
  BY DEF SecurityControls
<1>4. \A x : x \in Controls(n) <=>
         \/ x \in {"tag", "address", "port", "protocol", "transport", "security", "mux"}
         \/ x \in ProtocolControls(n) \/ x \in TransportControls(n) \/ x \in SecurityControls(n)
         \/ n.mux /\ x = "concurrency"
  BY DEF Controls
<1>5. \A x \in {"flow", "cipher", "method"} :
         x \in Controls(n) <=> x \in ProtocolControls(n)
  BY <1>0, <1>2, <1>3, <1>4
<1>6. "xhttp_mode" \in Controls(n) <=> "xhttp_mode" \in TransportControls(n)
  BY <1>0, <1>1, <1>3, <1>4
<1>7. "fingerprint" \in Controls(n) <=> "fingerprint" \in SecurityControls(n)
  BY <1>0, <1>1, <1>2, <1>4
<1>. QED
  BY <1>0, <1>1, <1>2, <1>3, <1>4, <1>5, <1>6, <1>7

\* The options that the arguments below turn on.
LEMMA OptionsThere ==
    /\ "vmess" \in Options["protocol"] /\ "none" \in Options["flow"]
    /\ "auto" \in Options["cipher"] /\ "aes128-gcm" \in Options["method"]
    /\ "raw" \in Options["transport"] /\ "xhttp" \in Options["transport"]
    /\ "web-socket" \in Options["transport"] /\ "tls" \in Options["security"]
    /\ "chrome" \in Options["fingerprint"]
BY SelectFacts DEF Flows, Ciphers, Methods, LegacyMethods

\* An option of these controls is what its candidate becomes.
LEMMA ChosenKinds ==
    ASSUME NEW n \in Nodes
    PROVE  /\ \A w \in Options["protocol"] : Apply(n, "protocol", w).protocol.kind = w
           /\ \A w \in Options["transport"] : Apply(n, "transport", w).transport.kind = w
           /\ \A w \in Options["security"] : Apply(n, "security", w).security.kind = w
           /\ Apply(n, "protocol", "vmess").protocol.cipher = "auto"
           /\ Apply(n, "security", "tls").security.insecure = FALSE
<1>1. \A w \in Options["protocol"] : WithProtocol(n, w).kind = w
  BY SelectFacts DEF WithProtocol, Vless, Vmess, Trojan, Shadowsocks
<1>2. \A w \in Options["transport"] : WithTransport(n, w).kind = w
  BY SelectFacts DEF WithTransport, Xhttp, Transport, Hostless
<1>3. \A w \in Options["security"] : WithSecurity(n, w).kind = w
  BY SelectFacts DEF WithSecurity, Tls, Reality, NoSecurity
<1>4. WithProtocol(n, "vmess").cipher = "auto"
  BY DEF WithProtocol, Vmess
<1>5. WithSecurity(n, "tls").insecure = FALSE
  BY DEF WithSecurity, Tls
<1>6. \A w : /\ Apply(n, "protocol", w).protocol = WithProtocol(n, w)
            /\ Apply(n, "transport", w).transport = WithTransport(n, w)
            /\ Apply(n, "security", w).security = WithSecurity(n, w)
  BY CandidateIs
<1>. QED
  BY <1>1, <1>2, <1>3, <1>4, <1>5, <1>6

\* A candidate with the parts of the node suffers what the node suffers.
LEMMA SamePartsBlock ==
    ASSUME NEW n, NEW m, NEW c, NEW e, NEW f, m.protocol = n.protocol,
           m.transport = n.transport, m.security = n.security, m.address = n.address,
           m.mux = n.mux, m.served = n.served, Blocks(m, c, e, f)
    PROVE  Blocks(n, c, e, f)
<1>1. ServingBlocks(m, f) => ServingBlocks(n, f)
  BY DEF ServingBlocks
<1>2. FlowBlocks(m, c, f) => FlowBlocks(n, c, f)
  BY DEF FlowBlocks
<1>3. TranslationBlocks(m, c, f) => TranslationBlocks(n, c, f)
  BY DEF TranslationBlocks
<1>4. SecurityBlocks(m, c, e, f) => SecurityBlocks(n, c, e, f)
  BY DEF SecurityBlocks
<1>5. ProtocolBlocks(m, c, f) => ProtocolBlocks(n, c, f)
  BY DEF ProtocolBlocks
<1>. QED
  BY <1>1, <1>2, <1>3, <1>4, <1>5 DEF Blocks

\* What every option of a control suffers from, the node suffers from already.
LEMMA SharedBlame ==
    ASSUME NEW n \in Nodes, NEW field \in Selects \cap Controls(n), NEW c \in Clients,
           NEW e \in BOOLEAN, NEW f, \A w \in Options[field] : Blocks(Apply(n, field, w), c, e, f)
    PROVE  Blocks(n, c, e, f)
<1>0. /\ n.protocol \in Protocols /\ n.transport \in Transports /\ n.security \in Securities
  BY NodeParts
<1>1. CASE field = "protocol"
  <2>. DEFINE m == Apply(n, "protocol", "vmess")
  <2>1. Blocks(m, c, e, f)
    BY <1>1, OptionsThere
  <2>2. /\ m.protocol.kind = "vmess" /\ m.protocol.cipher = "auto"
        /\ m.transport = n.transport /\ m.security = n.security /\ m.address = n.address
        /\ m.served = n.served
    <3>1. m.protocol.kind = "vmess" /\ m.protocol.cipher = "auto"
      BY OptionsThere, ChosenKinds
    <3>2. /\ m.transport = n.transport /\ m.security = n.security /\ m.address = n.address
          /\ m.served = n.served
      BY CandidateParts
    <3>. QED
      BY <3>1, <3>2
  <2>. HIDE DEF m
  <2>3. ServingBlocks(m, f) => ServingBlocks(n, f)
    BY <2>2 DEF ServingBlocks
  <2>4. SecurityBlocks(m, c, e, f) => SecurityBlocks(n, c, e, f)
    BY <2>2 DEF SecurityBlocks
  <2>5. ~FlowBlocks(m, c, f) /\ ~TranslationBlocks(m, c, f) /\ ~ProtocolBlocks(m, c, f)
    BY <2>2 DEF FlowBlocks, TranslationBlocks, ProtocolBlocks
  <2>. QED
    BY <2>1, <2>3, <2>4, <2>5 DEF Blocks
<1>2. CASE field = "flow"
  <2>1. n.protocol.kind = "vless"
    BY <1>2, ControlFacts
  <2>2. /\ n.protocol.flow \in Options["flow"]
        /\ n.protocol = Vless(n.protocol.secret, n.protocol.flow)
    BY <1>0, <2>1, ProtocolParts, SelectFacts
  <2>. DEFINE m == Apply(n, "flow", n.protocol.flow)
  <2>3. m.protocol = n.protocol
    BY <2>1, <2>2, CandidateIs
  <2>4. Blocks(m, c, e, f)
    BY <1>2, <2>2
  <2>5. /\ m.transport = n.transport /\ m.security = n.security /\ m.address = n.address
        /\ m.mux = n.mux /\ m.served = n.served
    BY CandidateParts
  <2>. HIDE DEF m
  <2>. QED
    BY <2>3, <2>4, <2>5, SamePartsBlock
<1>3. CASE field = "cipher"
  <2>1. n.protocol.kind = "vmess"
    BY <1>3, ControlFacts
  <2>2. /\ n.protocol.cipher \in Options["cipher"]
        /\ n.protocol = Vmess(n.protocol.secret, n.protocol.cipher)
    BY <1>0, <2>1, ProtocolParts, SelectFacts
  <2>. DEFINE m == Apply(n, "cipher", n.protocol.cipher)
  <2>3. m.protocol = n.protocol
    BY <2>1, <2>2, CandidateIs
  <2>4. Blocks(m, c, e, f)
    BY <1>3, <2>2
  <2>5. /\ m.transport = n.transport /\ m.security = n.security /\ m.address = n.address
        /\ m.mux = n.mux /\ m.served = n.served
    BY CandidateParts
  <2>. HIDE DEF m
  <2>. QED
    BY <2>3, <2>4, <2>5, SamePartsBlock
<1>4. CASE field = "method"
  <2>1. n.protocol.kind = "shadowsocks"
    BY <1>4, ControlFacts
  <2>2. /\ n.protocol.method \in Options["method"]
        /\ n.protocol = Shadowsocks(n.protocol.method, n.protocol.secret)
    BY <1>0, <2>1, ProtocolParts, SelectFacts
  <2>. DEFINE m == Apply(n, "method", n.protocol.method)
  <2>3. m.protocol = n.protocol
    BY <2>1, <2>2, CandidateIs
  <2>4. Blocks(m, c, e, f)
    BY <1>4, <2>2
  <2>5. /\ m.transport = n.transport /\ m.security = n.security /\ m.address = n.address
        /\ m.mux = n.mux /\ m.served = n.served
    BY CandidateParts
  <2>. HIDE DEF m
  <2>. QED
    BY <2>3, <2>4, <2>5, SamePartsBlock
<1>5. CASE field = "transport"
  <2>. DEFINE m == Apply(n, "transport", "raw")
              x == Apply(n, "transport", "xhttp")
  <2>1. Blocks(m, c, e, f) /\ Blocks(x, c, e, f)
    BY <1>5, OptionsThere
  <2>2. /\ m.transport.kind = "raw" /\ m.protocol = n.protocol /\ m.security = n.security
        /\ m.address = n.address /\ m.mux = n.mux /\ m.served = n.served
    <3>1. m.transport.kind = "raw"
      BY OptionsThere, ChosenKinds
    <3>2. /\ m.protocol = n.protocol /\ m.security = n.security
          /\ m.address = n.address /\ m.mux = n.mux /\ m.served = n.served
      BY CandidateParts
    <3>. QED
      BY <3>1, <3>2
  <2>3. x.transport.kind = "xhttp"
    BY OptionsThere, ChosenKinds
  <2>. HIDE DEF m, x
  <2>4. ~ServingBlocks(m, f)
    <3>1. f # Finding("Fatal", "transport", "raw")
      <4>. SUFFICES ASSUME f = Finding("Fatal", "transport", "raw") PROVE FALSE
        OBVIOUS
      <4>1. f.field = "transport"
        BY DEF Finding
      <4>2. ~ServingBlocks(x, f)
        BY <2>3 DEF ServingBlocks, ServableOnWorker
      <4>3. ~FlowBlocks(x, c, f)
        BY <4>1 DEF FlowBlocks, Finding
      <4>4. ~TranslationBlocks(x, c, f)
        BY <4>1 DEF TranslationBlocks, Finding
      <4>5. ~SecurityBlocks(x, c, e, f)
        BY <4>1 DEF SecurityBlocks, Finding
      <4>6. ~ProtocolBlocks(x, c, f)
        BY <4>1 DEF ProtocolBlocks, Finding
      <4>. QED
        BY <2>1, <4>2, <4>3, <4>4, <4>5, <4>6 DEF Blocks
    <3>. QED
      BY <2>2, <3>1 DEF ServingBlocks
  <2>5. FlowBlocks(m, c, f) => FlowBlocks(n, c, f)
    BY <2>2 DEF FlowBlocks, IsFramed
  <2>6. ~TranslationBlocks(m, c, f)
    BY <2>2 DEF TranslationBlocks
  <2>7. SecurityBlocks(m, c, e, f) => SecurityBlocks(n, c, e, f)
    BY <2>2 DEF SecurityBlocks
  <2>8. ProtocolBlocks(m, c, f) => ProtocolBlocks(n, c, f)
    BY <2>2 DEF ProtocolBlocks
  <2>. QED
    BY <2>1, <2>4, <2>5, <2>6, <2>7, <2>8 DEF Blocks
<1>6. CASE field = "xhttp_mode"
  <2>1. n.transport.kind = "xhttp"
    BY <1>6, ControlFacts
  <2>2. /\ n.transport.mode \in Options["xhttp_mode"]
        /\ n.transport = Xhttp(n.transport.mode, n.transport.host)
    BY <1>0, <2>1, TransportParts, SelectFacts
  <2>. DEFINE m == Apply(n, "xhttp_mode", n.transport.mode)
  <2>3. m.transport = n.transport
    BY <2>1, <2>2, CandidateIs
  <2>4. Blocks(m, c, e, f)
    BY <1>6, <2>2
  <2>5. /\ m.protocol = n.protocol /\ m.security = n.security /\ m.address = n.address
        /\ m.mux = n.mux /\ m.served = n.served
    BY CandidateParts
  <2>. HIDE DEF m
  <2>. QED
    BY <2>3, <2>4, <2>5, SamePartsBlock
<1>7. CASE field = "security"
  <2>. DEFINE m == Apply(n, "security", "tls")
  <2>1. Blocks(m, c, e, f)
    BY <1>7, OptionsThere
  <2>2. /\ m.security.kind = "tls" /\ ~m.security.insecure /\ m.protocol = n.protocol
        /\ m.transport = n.transport /\ m.mux = n.mux /\ m.served = n.served
    <3>1. m.security.kind = "tls"
      BY OptionsThere, ChosenKinds
    <3>2. ~m.security.insecure
      BY ChosenKinds
    <3>3. /\ m.protocol = n.protocol /\ m.transport = n.transport /\ m.mux = n.mux
          /\ m.served = n.served
      BY CandidateParts
    <3>. QED
      BY <3>1, <3>2, <3>3
  <2>. HIDE DEF m
  <2>3. ~SecurityBlocks(m, c, e, f)
    BY <2>2 DEF SecurityBlocks
  <2>4. FlowBlocks(m, c, f) => FlowBlocks(n, c, f)
    BY <2>2 DEF FlowBlocks
  <2>. QED
    BY <2>1, <2>2, <2>3, <2>4 DEF Blocks, ServingBlocks, TranslationBlocks, ProtocolBlocks
<1>8. CASE field = "fingerprint"
  <2>1. n.security.kind \in {"tls", "reality"}
    BY <1>8, ControlFacts
  <2>. DEFINE m == Apply(n, "fingerprint", "chrome")
  <2>2. Blocks(m, c, e, f)
    BY <1>8, OptionsThere
  <2>3. /\ m.protocol = n.protocol /\ m.transport = n.transport /\ m.address = n.address
        /\ m.mux = n.mux /\ m.served = n.served
    BY CandidateParts
  <2>4. /\ m.security.kind = n.security.kind
        /\ m.security.kind = "tls" => m.security.insecure = n.security.insecure
        /\ m.security.kind = "reality" => m.security.fingerprint = "chrome"
    <3>1. OptionalText("chrome") = "chrome"
      BY DEF OptionalText, Empty
    <3>2. CASE n.security.kind = "tls"
      <4>1. m.security = Tls(n.security.sni, OptionalText("chrome"), n.security.insecure)
        BY <3>2, CandidateIs
      <4>. QED
        BY <3>2, <4>1 DEF Tls
    <3>3. CASE n.security.kind = "reality"
      <4>1. m.security =
              Reality(n.security.server_name, OptionalText("chrome"), n.security.public_key)
        BY <3>3, CandidateIs
      <4>. QED
        BY <3>1, <3>3, <4>1 DEF Reality
    <3>. QED
      BY <2>1, <3>2, <3>3
  <2>5. Absent # "chrome"
    BY DEF Absent
  <2>. HIDE DEF m
  <2>6. SecurityBlocks(m, c, e, f) => SecurityBlocks(n, c, e, f)
    BY <2>1, <2>3, <2>4, <2>5 DEF SecurityBlocks
  <2>7. FlowBlocks(m, c, f) => FlowBlocks(n, c, f)
    BY <2>3, <2>4 DEF FlowBlocks
  <2>. QED
    BY <2>2, <2>3, <2>6, <2>7 DEF Blocks, ServingBlocks, TranslationBlocks, ProtocolBlocks
<1>. QED
  BY <1>1, <1>2, <1>3, <1>4, <1>5, <1>6, <1>7, <1>8, SelectFacts

\* An option that is offered brings no finding that blocks and was not there.
LEMMA ChoiceHarmless ==
    ASSUME EditorTypeOK
    PROVE  ChoiceNeverBreaks
<1>. SUFFICES ASSUME NEW field \in Selects \cap Controls(node),
                     NEW v \in Offered(node, field, client, enhanced),
                     NEW f \in Blocking(FindingsWith(node, field, v, client, enhanced))
     PROVE  f \in Blocking(Check(node, client, enhanced))
  BY DEF ChoiceNeverBreaks
<1>1. v \in Options[field]
  BY DEF Offered
<1>2. Blocks(Apply(node, field, v), client, enhanced, f)
  BY <1>1, OpenIsNode, CandidateType, BlockingIs DEF FindingsWith
<1>3. \A w \in Options[field] : Blocks(Apply(node, field, w), client, enhanced, f)
  BY <1>1, <1>2, OpenIsNode, OfferedIs
<1>4. Blocks(node, client, enhanced, f)
  BY <1>3, OpenIsNode, SharedBlame
<1>. QED
  BY <1>4, OpenIsNode, BlockingIs

\* The field a finding is about tells which rule it comes from.
LEMMA BlockedFields ==
    ASSUME NEW n, NEW c, NEW e, NEW f
    PROVE  /\ ServingBlocks(n, f) => f.field = "transport"
           /\ FlowBlocks(n, c, f) => f.field \in {"flow", "mux"}
           /\ TranslationBlocks(n, c, f) => f.field = "protocol"
           /\ SecurityBlocks(n, c, e, f) =>
                f.field \in {"allow_insecure", "security", "fingerprint"}
           /\ ProtocolBlocks(n, c, f) => f.field \in {"password", "cipher"}
<1>1. \A severity, field, about : Finding(severity, field, about).field = field
  BY DEF Finding
<1>2. ServingBlocks(n, f) => f.field = "transport"
  BY <1>1 DEF ServingBlocks
<1>3. FlowBlocks(n, c, f) => f.field \in {"flow", "mux"}
  <2>1. FlowBlocks(n, c, f) =>
          \E severity, about : \/ f = Finding(severity, "flow", about)
                               \/ f = Finding(severity, "mux", about)
    BY DEF FlowBlocks
  <2>. QED
    BY <1>1, <2>1
<1>4. TranslationBlocks(n, c, f) => f.field = "protocol"
  BY <1>1 DEF TranslationBlocks
<1>5. SecurityBlocks(n, c, e, f) => f.field \in {"allow_insecure", "security", "fingerprint"}
  <2>1. SecurityBlocks(n, c, e, f) =>
          \E severity, about : \/ f = Finding(severity, "allow_insecure", about)
                              \/ f = Finding(severity, "security", about)
                              \/ f = Finding(severity, "fingerprint", about)
    BY DEF SecurityBlocks
  <2>. QED
    BY <1>1, <2>1
<1>6. ProtocolBlocks(n, c, f) => f.field \in {"password", "cipher"}
  BY <1>1 DEF ProtocolBlocks
<1>. QED
  BY <1>2, <1>3, <1>4, <1>5, <1>6

\* A better node: a finding that blocks is gone, and none is new.
Better(n, m, c, e) ==
    /\ \A f : Blocks(m, c, e, f) => Blocks(n, c, e, f)
    /\ \E f : Blocks(n, c, e, f) /\ ~Blocks(m, c, e, f)

\* XTLS Vision where it cannot be used: the flow is dropped.
LEMMA RepairFlow ==
    ASSUME NEW n \in Nodes, NEW c \in Clients, NEW e \in BOOLEAN, NEW f, FlowBlocks(n, c, f)
    PROVE  /\ "flow" \in Controls(n) /\ "none" \in Offered(n, "flow", c, e)
           /\ Better(n, Apply(n, "flow", "none"), c, e)
<1>1. n.protocol.kind = "vless" /\ "flow" \in Controls(n)
  BY ControlFacts DEF FlowBlocks
<1>. DEFINE m(w) == Apply(n, "flow", w)
<1>2. \A w : /\ m(w).protocol.kind = "vless" /\ m(w).protocol.flow = w
             /\ m(w).transport = n.transport /\ m(w).security = n.security
             /\ m(w).address = n.address /\ m(w).mux = n.mux /\ m(w).served = n.served
  <2>. TAKE w
  <2>1. m(w).protocol = Vless(n.protocol.secret, w)
    BY <1>1, CandidateIs
  <2>2. m(w).protocol.kind = "vless" /\ m(w).protocol.flow = w
    BY <2>1 DEF Vless
  <2>. QED
    BY <2>2, CandidateParts
<1>. HIDE DEF m
<1>3. \A g, w : Blocks(m(w), c, e, g) <=>
         ServingBlocks(n, g) \/ FlowBlocks(m(w), c, g) \/ SecurityBlocks(n, c, e, g)
  <2>. TAKE g, w
  <2>1. ServingBlocks(m(w), g) <=> ServingBlocks(n, g)
    BY <1>2 DEF ServingBlocks
  <2>2. SecurityBlocks(m(w), c, e, g) <=> SecurityBlocks(n, c, e, g)
    BY <1>1, <1>2 DEF SecurityBlocks
  <2>3. ~TranslationBlocks(m(w), c, g) /\ ~ProtocolBlocks(m(w), c, g)
    BY <1>2 DEF TranslationBlocks, ProtocolBlocks
  <2>. QED
    BY <2>1, <2>2, <2>3 DEF Blocks
<1>4. \A g : ~FlowBlocks(m("none"), c, g)
  BY <1>2 DEF FlowBlocks
<1>5. "none" \in Offered(n, "flow", c, e)
  <2>1. \A g : Blocks(m("none"), c, e, g) => \A w \in Options["flow"] : Blocks(m(w), c, e, g)
    BY <1>3, <1>4
  <2>2. "flow" \in Selects /\ "none" \in Options["flow"]
    BY SelectFacts, OptionsThere
  <2>. QED
    BY <2>1, <2>2, OfferedIs DEF m
<1>6. \A g : Blocks(m("none"), c, e, g) => Blocks(n, c, e, g)
  BY <1>3, <1>4 DEF Blocks
<1>7. Blocks(n, c, e, f) /\ ~Blocks(m("none"), c, e, f)
  <2>1. ~ServingBlocks(n, f) /\ ~SecurityBlocks(n, c, e, f)
    BY BlockedFields
  <2>. QED
    BY <1>3, <1>4, <2>1 DEF Blocks
<1>. QED
  BY <1>1, <1>5, <1>6, <1>7 DEF Better, m

\* Certificates are verified again, or the handshake is one the node can have.
LEMMA RepairSecurity ==
    ASSUME NEW n \in Nodes, NEW c \in Clients, NEW e \in BOOLEAN, NEW f,
           SecurityBlocks(n, c, e, f)
    PROVE  \/ Better(n, Apply(n, "allow_insecure", FALSE), c, e)
           \/ /\ "tls" \in Offered(n, "security", c, e)
              /\ Better(n, Apply(n, "security", "tls"), c, e)
<1>0. /\ ~ServingBlocks(n, f) /\ ~FlowBlocks(n, c, f) /\ ~TranslationBlocks(n, c, f)
      /\ ~ProtocolBlocks(n, c, f)
  BY BlockedFields
<1>1. CASE n.security.kind = "tls"
  <2>. DEFINE m == Apply(n, "allow_insecure", FALSE)
  <2>1. /\ m.security.kind = "tls" /\ ~m.security.insecure
    <3>1. m.security = Tls(n.security.sni, n.security.fingerprint, FALSE)
      BY <1>1, CandidateIs
    <3>2. \A a, b : Tls(a, b, FALSE).kind = "tls" /\ ~Tls(a, b, FALSE).insecure
      BY Zenon DEF Tls
    <3>. HIDE DEF m
    <3>. QED
      BY <3>1, <3>2
  <2>2. /\ m.protocol = n.protocol /\ m.transport = n.transport
        /\ m.mux = n.mux /\ m.served = n.served
    BY CandidateParts
  <2>. HIDE DEF m
  <2>3. \A g : /\ ~SecurityBlocks(m, c, e, g)
               /\ FlowBlocks(m, c, g) <=> FlowBlocks(n, c, g)
               /\ ServingBlocks(m, g) <=> ServingBlocks(n, g)
               /\ TranslationBlocks(m, c, g) <=> TranslationBlocks(n, c, g)
               /\ ProtocolBlocks(m, c, g) <=> ProtocolBlocks(n, c, g)
    <3>. TAKE g
    <3>1. ~SecurityBlocks(m, c, e, g)
      BY <2>1 DEF SecurityBlocks
    <3>2. FlowBlocks(m, c, g) <=> FlowBlocks(n, c, g)
      BY <1>1, <2>1, <2>2 DEF FlowBlocks
    <3>. QED
      BY <2>2, <3>1, <3>2 DEF ServingBlocks, TranslationBlocks, ProtocolBlocks
  <2>. QED
    BY <1>0, <2>3 DEF Better, Blocks, m
<1>2. CASE n.security.kind # "tls"
  <2>. DEFINE m(w) == Apply(n, "security", w)
  <2>1. \A w : /\ m(w).protocol = n.protocol /\ m(w).transport = n.transport
               /\ m(w).mux = n.mux /\ m(w).served = n.served
    BY CandidateParts
  <2>2. \A w \in Options["security"] : m(w).security.kind = w
    BY ChosenKinds
  <2>3. m("tls").security.kind = "tls" /\ ~m("tls").security.insecure
    BY <2>2, OptionsThere, ChosenKinds
  <2>. HIDE DEF m
  <2>4. \A g : ~SecurityBlocks(m("tls"), c, e, g)
    BY <2>3 DEF SecurityBlocks
  <2>5. \A g, w : /\ ServingBlocks(m(w), g) <=> ServingBlocks(n, g)
                  /\ TranslationBlocks(m(w), c, g) <=> TranslationBlocks(n, c, g)
                  /\ ProtocolBlocks(m(w), c, g) <=> ProtocolBlocks(n, c, g)
    BY <2>1 DEF ServingBlocks, TranslationBlocks, ProtocolBlocks
  <2>6. \A g, w : FlowBlocks(m("tls"), c, g) => FlowBlocks(m(w), c, g) /\ FlowBlocks(n, c, g)
    BY <2>1, <2>3 DEF FlowBlocks
  <2>7. "tls" \in Offered(n, "security", c, e)
    <3>1. \A g : Blocks(m("tls"), c, e, g) => \A w \in Options["security"] : Blocks(m(w), c, e, g)
      BY <2>4, <2>5, <2>6 DEF Blocks
    <3>2. "security" \in Selects /\ "tls" \in Options["security"]
      BY SelectFacts, OptionsThere
    <3>. QED
      BY <3>1, <3>2, OfferedIs DEF m
  <2>8. \A g : Blocks(m("tls"), c, e, g) => Blocks(n, c, e, g)
    BY <2>4, <2>5, <2>6 DEF Blocks
  <2>9. Blocks(n, c, e, f) /\ ~Blocks(m("tls"), c, e, f)
    BY <1>0, <2>4, <2>5, <2>6 DEF Blocks
  <2>. QED
    BY <2>7, <2>8, <2>9 DEF Better, m
<1>. QED
  BY <1>1, <1>2

\* A cipher that is ignored, or a password of the wrong length.
LEMMA RepairProtocol ==
    ASSUME NEW n \in Nodes, NEW c \in Clients, NEW e \in BOOLEAN, NEW f, ProtocolBlocks(n, c, f)
    PROVE  \E field \in {"cipher", "method"} : \E v \in Offered(n, field, c, e) :
              field \in Controls(n) /\ Better(n, Apply(n, field, v), c, e)
<1>0. ~ServingBlocks(n, f) /\ ~FlowBlocks(n, c, f) /\ ~TranslationBlocks(n, c, f)
      /\ ~SecurityBlocks(n, c, e, f)
  BY BlockedFields
<1>1. CASE n.protocol.kind = "vmess"
  <2>. DEFINE m(w) == Apply(n, "cipher", w)
  <2>1. \A w : /\ m(w).protocol.kind = "vmess" /\ m(w).protocol.cipher = w
               /\ m(w).transport = n.transport /\ m(w).security = n.security
               /\ m(w).address = n.address /\ m(w).mux = n.mux /\ m(w).served = n.served
    <3>. TAKE w
    <3>1. m(w).protocol = Vmess(n.protocol.secret, w)
      BY <1>1, CandidateIs
    <3>2. m(w).protocol.kind = "vmess" /\ m(w).protocol.cipher = w
      BY <3>1 DEF Vmess
    <3>. QED
      BY <3>2, CandidateParts
  <2>. HIDE DEF m
  <2>2. \A g, w : /\ ServingBlocks(m(w), g) <=> ServingBlocks(n, g)
                  /\ SecurityBlocks(m(w), c, e, g) <=> SecurityBlocks(n, c, e, g)
                  /\ ~FlowBlocks(m(w), c, g) /\ ~TranslationBlocks(m(w), c, g)
    <3>. TAKE g, w
    <3>1. ServingBlocks(m(w), g) <=> ServingBlocks(n, g)
      BY <2>1 DEF ServingBlocks
    <3>2. SecurityBlocks(m(w), c, e, g) <=> SecurityBlocks(n, c, e, g)
      BY <1>1, <2>1 DEF SecurityBlocks
    <3>3. ~FlowBlocks(m(w), c, g) /\ ~TranslationBlocks(m(w), c, g)
      BY <2>1 DEF FlowBlocks, TranslationBlocks
    <3>. QED
      BY <3>1, <3>2, <3>3
  <2>3. \A g : ~ProtocolBlocks(m("auto"), c, g)
    BY <2>1 DEF ProtocolBlocks
  <2>4. "auto" \in Offered(n, "cipher", c, e)
    <3>1. \A g : Blocks(m("auto"), c, e, g) => \A w \in Options["cipher"] : Blocks(m(w), c, e, g)
      BY <2>2, <2>3 DEF Blocks
    <3>2. "cipher" \in Selects /\ "auto" \in Options["cipher"]
      BY SelectFacts, OptionsThere
    <3>. QED
      BY <3>1, <3>2, OfferedIs DEF m
  <2>5. Better(n, m("auto"), c, e)
    BY <1>0, <2>2, <2>3 DEF Better, Blocks
  <2>6. "cipher" \in Controls(n)
    BY <1>1, ControlFacts
  <2>. QED
    BY <2>4, <2>5, <2>6 DEF m
<1>2. CASE n.protocol.kind = "shadowsocks"
  <2>. DEFINE m(w) == Apply(n, "method", w)
  <2>1. \A w : /\ m(w).protocol.kind = "shadowsocks" /\ m(w).protocol.method = w
               /\ m(w).transport = n.transport /\ m(w).security = n.security
               /\ m(w).address = n.address /\ m(w).mux = n.mux /\ m(w).served = n.served
    <3>. TAKE w
    <3>1. m(w).protocol = Shadowsocks(w, n.protocol.secret)
      BY <1>2, CandidateIs
    <3>2. m(w).protocol.kind = "shadowsocks" /\ m(w).protocol.method = w
      BY <3>1 DEF Shadowsocks
    <3>. QED
      BY <3>2, CandidateParts
  <2>. HIDE DEF m
  <2>2. \A g, w : /\ ServingBlocks(m(w), g) <=> ServingBlocks(n, g)
                  /\ SecurityBlocks(m(w), c, e, g) <=> SecurityBlocks(n, c, e, g)
                  /\ TranslationBlocks(m(w), c, g) <=> TranslationBlocks(n, c, g)
                  /\ ~FlowBlocks(m(w), c, g)
    <3>. TAKE g, w
    <3>1. ServingBlocks(m(w), g) <=> ServingBlocks(n, g)
      BY <2>1 DEF ServingBlocks
    <3>2. SecurityBlocks(m(w), c, e, g) <=> SecurityBlocks(n, c, e, g)
      BY <1>2, <2>1 DEF SecurityBlocks
    <3>3. /\ ~FlowBlocks(m(w), c, g)
          /\ TranslationBlocks(m(w), c, g) <=> TranslationBlocks(n, c, g)
      BY <1>2, <2>1 DEF FlowBlocks, TranslationBlocks
    <3>. QED
      BY <3>1, <3>2, <3>3
  <2>3. \A g : ~ProtocolBlocks(m("aes128-gcm"), c, g)
    <3>1. KeyLen("aes128-gcm") = 0
      BY DEF KeyLen
    <3>. QED
      BY <2>1, <3>1 DEF ProtocolBlocks
  <2>4. "aes128-gcm" \in Offered(n, "method", c, e)
    <3>1. \A g : Blocks(m("aes128-gcm"), c, e, g) =>
                   \A w \in Options["method"] : Blocks(m(w), c, e, g)
      BY <2>2, <2>3 DEF Blocks
    <3>2. "method" \in Selects /\ "aes128-gcm" \in Options["method"]
      BY SelectFacts, OptionsThere
    <3>. QED
      BY <3>1, <3>2, OfferedIs DEF m
  <2>5. Better(n, m("aes128-gcm"), c, e)
    BY <1>0, <2>2, <2>3 DEF Better, Blocks
  <2>6. "method" \in Controls(n)
    BY <1>2, ControlFacts
  <2>. QED
    BY <2>4, <2>5, <2>6 DEF m
<1>. QED
  BY <1>1, <1>2 DEF ProtocolBlocks

\* Shadowsocks where XHTTP does not carry it.
LEMMA RepairTranslation ==
    ASSUME NEW n \in Nodes, NEW c \in Clients, NEW e \in BOOLEAN, NEW f, TranslationBlocks(n, c, f)
    PROVE  /\ "vmess" \in Offered(n, "protocol", c, e)
           /\ Better(n, Apply(n, "protocol", "vmess"), c, e)
<1>0. ~ServingBlocks(n, f) /\ ~SecurityBlocks(n, c, e, f)
  BY BlockedFields
<1>. DEFINE m(w) == Apply(n, "protocol", w)
<1>1. \A w : /\ m(w).transport = n.transport /\ m(w).security = n.security
             /\ m(w).address = n.address /\ m(w).served = n.served
  BY CandidateParts
<1>2. m("vmess").protocol.kind = "vmess" /\ m("vmess").protocol.cipher = "auto"
  BY OptionsThere, ChosenKinds
<1>. HIDE DEF m
<1>3. \A g : /\ ~FlowBlocks(m("vmess"), c, g) /\ ~TranslationBlocks(m("vmess"), c, g)
             /\ ~ProtocolBlocks(m("vmess"), c, g)
  BY <1>2 DEF FlowBlocks, TranslationBlocks, ProtocolBlocks
<1>4. \A g, w : ServingBlocks(m(w), g) <=> ServingBlocks(n, g)
  BY <1>1 DEF ServingBlocks
<1>5. \A g, w : SecurityBlocks(m("vmess"), c, e, g) =>
                  SecurityBlocks(m(w), c, e, g) /\ SecurityBlocks(n, c, e, g)
  <2>. SUFFICES ASSUME NEW g, NEW w, SecurityBlocks(m("vmess"), c, e, g)
       PROVE  SecurityBlocks(m(w), c, e, g) /\ SecurityBlocks(n, c, e, g)
    OBVIOUS
  <2>1. /\ m("vmess").security = n.security /\ m("vmess").address = n.address
        /\ m("vmess").transport = n.transport /\ m("vmess").served = n.served
        /\ m("vmess").protocol.kind = "vmess"
    BY <1>1, <1>2
  <2>2. /\ m(w).security = n.security /\ m(w).address = n.address
        /\ m(w).transport = n.transport /\ m(w).served = n.served
    BY <1>1
  <2>3. SecurityBlocks(n, c, e, g)
    BY <2>1, Zenon DEF SecurityBlocks
  <2>4. SecurityBlocks(m(w), c, e, g)
    BY <2>1, <2>2, Zenon DEF SecurityBlocks
  <2>. QED
    BY <2>3, <2>4
<1>6. "vmess" \in Offered(n, "protocol", c, e)
  <2>1. \A g : Blocks(m("vmess"), c, e, g) => \A w \in Options["protocol"] : Blocks(m(w), c, e, g)
    BY <1>3, <1>4, <1>5 DEF Blocks
  <2>2. "protocol" \in Selects /\ "vmess" \in Options["protocol"]
    BY SelectFacts, OptionsThere
  <2>. QED
    BY <2>1, <2>2, OfferedIs DEF m
<1>7. \A g : Blocks(m("vmess"), c, e, g) => Blocks(n, c, e, g)
  BY <1>3, <1>4, <1>5 DEF Blocks
<1>8. Blocks(n, c, e, f) /\ ~Blocks(m("vmess"), c, e, f)
  BY <1>0, <1>3, <1>4, <1>5 DEF Blocks
<1>. QED
  BY <1>6, <1>7, <1>8 DEF Better, m

\* A transport the Worker cannot serve, once flow and handshake are in order.
LEMMA RepairServing ==
    ASSUME NEW n \in Nodes, NEW c \in Clients, NEW e \in BOOLEAN, NEW f, ServingBlocks(n, f),
           \A g : ~FlowBlocks(n, c, g) /\ ~SecurityBlocks(n, c, e, g)
    PROVE  /\ "web-socket" \in Offered(n, "transport", c, e)
           /\ Better(n, Apply(n, "transport", "web-socket"), c, e)
<1>0. ~ProtocolBlocks(n, c, f) /\ n.served
  BY BlockedFields DEF ServingBlocks
<1>. DEFINE m(w) == Apply(n, "transport", w)
<1>1. \A w : /\ m(w).protocol = n.protocol /\ m(w).security = n.security
             /\ m(w).address = n.address /\ m(w).mux = n.mux /\ m(w).served = n.served
  BY CandidateParts
<1>2. m("web-socket").transport.kind = "web-socket"
  BY OptionsThere, ChosenKinds
<1>. HIDE DEF m
<1>3. ~(n.protocol.kind = "vless" /\ n.protocol.flow # "none")
  <2>1. ~FlowBlocks(n, c, Finding("Broken", "flow", "CDN"))
    OBVIOUS
  <2>. QED
    BY <1>0, <2>1 DEF FlowBlocks
<1>4. n.security.kind # "reality"
  <2>1. ~SecurityBlocks(n, c, e, Finding("Fatal", "security", "CDN"))
    OBVIOUS
  <2>. QED
    BY <1>0, <2>1 DEF SecurityBlocks
<1>5. \A g : /\ ~ServingBlocks(m("web-socket"), g) /\ ~FlowBlocks(m("web-socket"), c, g)
             /\ ~TranslationBlocks(m("web-socket"), c, g)
  BY <1>1, <1>2, <1>3 DEF ServingBlocks, ServableOnWorker, FlowBlocks, TranslationBlocks
<1>6. \A g : ~SecurityBlocks(m("web-socket"), c, e, g)
  <2>. TAKE g
  <2>1. SecurityBlocks(m("web-socket"), c, e, g) => SecurityBlocks(n, c, e, g)
    BY <1>1, <1>4 DEF SecurityBlocks
  <2>. QED
    BY <2>1
<1>7. \A g, w : ProtocolBlocks(m(w), c, g) <=> ProtocolBlocks(n, c, g)
  BY <1>1 DEF ProtocolBlocks
<1>8. "web-socket" \in Offered(n, "transport", c, e)
  <2>1. \A g : Blocks(m("web-socket"), c, e, g) =>
                 \A w \in Options["transport"] : Blocks(m(w), c, e, g)
    BY <1>5, <1>6, <1>7 DEF Blocks
  <2>2. "transport" \in Selects /\ "web-socket" \in Options["transport"]
    BY SelectFacts, OptionsThere
  <2>. QED
    BY <2>1, <2>2, OfferedIs DEF m
<1>9. \A g : Blocks(m("web-socket"), c, e, g) => Blocks(n, c, e, g)
  BY <1>5, <1>6, <1>7 DEF Blocks
<1>10. Blocks(n, c, e, f) /\ ~Blocks(m("web-socket"), c, e, f)
  BY <1>0, <1>5, <1>6, <1>7 DEF Blocks
<1>. QED
  BY <1>8, <1>9, <1>10 DEF Better, m

\* An edit that makes the node better is a repair.
LEMMA BetterRepairs ==
    ASSUME EditorTypeOK, NEW field, NEW v, <<field, v>> \in Repairs,
           Apply(node, field, v) \in Nodes, Better(node, Apply(node, field, v), client, enhanced)
    PROVE  \E repair \in Repairs :
              LET then == Blocking(FindingsWith(node, repair[1], repair[2], client, enhanced))
                  flaws == Blocking(Check(node, client, enhanced))
              IN  then \subseteq flaws /\ then # flaws
<1>. DEFINE then == Blocking(FindingsWith(node, field, v, client, enhanced))
            flaws == Blocking(Check(node, client, enhanced))
<1>1. \A f : /\ f \in flaws <=> Blocks(node, client, enhanced, f)
             /\ f \in then <=> Blocks(Apply(node, field, v), client, enhanced, f)
  BY OpenIsNode, BlockingIs DEF FindingsWith
<1>2. then \subseteq flaws /\ then # flaws
  <2>. HIDE DEF then, flaws
  <2>1. then \subseteq flaws
    BY <1>1 DEF Better
  <2>2. \E f : f \in flaws /\ f \notin then
    BY <1>1 DEF Better
  <2>. QED
    BY <2>1, <2>2
<1>3. <<field, v>>[1] = field /\ <<field, v>>[2] = v
  OBVIOUS
<1>. QED
  BY <1>2, <1>3

\* Whatever blocks the node, one more edit takes it away.
LEMMA RepairThere ==
    ASSUME EditorTypeOK
    PROVE  CanBeRepaired
<1>. SUFFICES ASSUME Blocking(Check(node, client, enhanced)) # {}
     PROVE \E repair \in Repairs :
              LET then == Blocking(FindingsWith(node, repair[1], repair[2], client, enhanced))
                  flaws == Blocking(Check(node, client, enhanced))
              IN  then \subseteq flaws /\ then # flaws
  BY DEF CanBeRepaired
<1>1. PICK f : Blocks(node, client, enhanced, f)
  BY OpenIsNode, BlockingIs
<1>2. ASSUME NEW field \in Selects \cap Controls(node),
             NEW v \in Offered(node, field, client, enhanced)
      PROVE  <<field, v>> \in Repairs /\ Apply(node, field, v) \in Nodes
  <2>1. v \in Options[field]
    BY DEF Offered
  <2>2. Apply(node, field, v) \in Nodes
    BY <2>1, OpenIsNode, CandidateType
  <2>. DEFINE picks(x) == {<<x, value>> : value \in Offered(node, x, client, enhanced)}
  <2>3. <<field, v>> \in picks(field)
    OBVIOUS
  <2>. HIDE DEF picks
  <2>4. <<field, v>> \in UNION {picks(x) : x \in Selects \cap Controls(node)}
    BY <2>3
  <2>. QED
    BY <2>2, <2>4, Zenon DEF Repairs, picks
<1>3. <<"allow_insecure", FALSE>> \in Repairs /\ Apply(node, "allow_insecure", FALSE) \in Nodes
  <2>1. "allow_insecure" \in EditFields /\ Fits("allow_insecure", FALSE)
    BY PostedFits
  <2>2. <<"allow_insecure", FALSE>> \in Repairs
    <3>. DEFINE options == UNION {{<<x, value>> : value \in Offered(node, x, client, enhanced)} :
                                    x \in Selects \cap Controls(node)}
                passwords == IF "password" \in Controls(node)
                             THEN {"password"} \X Texts["password"] ELSE {}
                others == {<<"allow_insecure", FALSE>>, <<"mux", FALSE>>}
    <3>1. <<"allow_insecure", FALSE>> \in others
      OBVIOUS
    <3>2. Repairs = (options \cup passwords) \cup others
      BY DEF Repairs
    <3>. HIDE DEF options, passwords, others
    <3>. QED
      BY <3>1, <3>2
  <2>. QED
    BY <2>1, <2>2, OpenIsNode, ApplyType
<1>4. {"protocol", "flow", "cipher", "method", "transport", "security"} \subseteq Selects
  BY SelectFacts
<1>5. {"protocol", "transport", "security"} \subseteq Controls(node)
  BY OpenIsNode, ControlFacts
<1>6. CASE \E g : FlowBlocks(node, client, g)
  <2>1. /\ "flow" \in Selects \cap Controls(node)
        /\ "none" \in Offered(node, "flow", client, enhanced)
        /\ Better(node, Apply(node, "flow", "none"), client, enhanced)
    BY <1>4, <1>6, OpenIsNode, RepairFlow
  <2>. QED
    BY <1>2, <2>1, BetterRepairs
<1>7. CASE \E g : SecurityBlocks(node, client, enhanced, g)
  <2>1. \/ Better(node, Apply(node, "allow_insecure", FALSE), client, enhanced)
        \/ /\ "tls" \in Offered(node, "security", client, enhanced)
           /\ Better(node, Apply(node, "security", "tls"), client, enhanced)
    BY <1>7, OpenIsNode, RepairSecurity
  <2>2. "security" \in Selects \cap Controls(node)
    BY <1>4, <1>5
  <2>. QED
    BY <1>2, <1>3, <2>1, <2>2, BetterRepairs
<1>8. CASE ProtocolBlocks(node, client, f)
  <2>1. PICK field \in {"cipher", "method"} : \E v \in Offered(node, field, client, enhanced) :
              field \in Controls(node) /\ Better(node, Apply(node, field, v), client, enhanced)
    BY <1>8, OpenIsNode, RepairProtocol
  <2>2. PICK v \in Offered(node, field, client, enhanced) :
              field \in Controls(node) /\ Better(node, Apply(node, field, v), client, enhanced)
    BY <2>1
  <2>. QED
    BY <1>2, <1>4, <2>2, BetterRepairs
<1>9. CASE TranslationBlocks(node, client, f)
  <2>1. /\ "vmess" \in Offered(node, "protocol", client, enhanced)
        /\ Better(node, Apply(node, "protocol", "vmess"), client, enhanced)
        /\ "protocol" \in Selects \cap Controls(node)
    BY <1>4, <1>5, <1>9, OpenIsNode, RepairTranslation
  <2>. QED
    BY <1>2, <2>1, BetterRepairs
<1>10. CASE ServingBlocks(node, f) /\ \A g : /\ ~FlowBlocks(node, client, g)
                                           /\ ~SecurityBlocks(node, client, enhanced, g)
  <2>1. /\ "web-socket" \in Offered(node, "transport", client, enhanced)
        /\ Better(node, Apply(node, "transport", "web-socket"), client, enhanced)
        /\ "transport" \in Selects \cap Controls(node)
    BY <1>4, <1>5, <1>10, OpenIsNode, RepairServing
  <2>. QED
    BY <1>2, <2>1, BetterRepairs
<1>. QED
  BY <1>1, <1>6, <1>7, <1>8, <1>9, <1>10 DEF Blocks

-----------------------------------------------------------------------------
(* Tags.                                                                   *)

Words == [text : Strings, number : Nat]

\* There is a first suffix that no tag taken ends in.
LEMMA FreeTagIsFree ==
    ASSUME NEW taken, IsFiniteSet(taken), NEW base \in Seq(Words)
    PROVE  /\ FreeTag(taken, base) \notin taken
           /\ \/ FreeTag(taken, base) = base
              \/ \E k \in Nat : FreeTag(taken, base) = Append(base, Number(k))
<1>1. CASE base \notin taken
  BY <1>1 DEF FreeTag
<1>2. CASE base \in taken
  <2>. DEFINE high == Cardinality(taken) + 2
              free == {n \in 2..high : Append(base, Number(n)) \notin taken}
  <2>1. Cardinality(taken) \in Nat
    BY FS_CardinalityType
  <2>2. \A k \in Nat : Number(k) \in Words
    BY DEF Number, Words, Strings
  <2>3. \A k, n \in Nat : Append(base, Number(k)) = Append(base, Number(n)) => k = n
    <3>. SUFFICES ASSUME NEW k \in Nat, NEW n \in Nat,
                         Append(base, Number(k)) = Append(base, Number(n))
         PROVE  k = n
      OBVIOUS
    <3>1. /\ Append(base, Number(k))[Len(base) + 1] = Number(k)
          /\ Append(base, Number(n))[Len(base) + 1] = Number(n)
      BY <2>2, AppendProperties
    <3>2. Number(k) = Number(n)
      BY <3>1
    <3>3. Number(k).number = k /\ Number(n).number = n
      BY DEF Number
    <3>. QED
      BY <3>2, <3>3
  <2>4. free # {}
    <3>. SUFFICES ASSUME free = {} PROVE FALSE
      OBVIOUS
    <3>. DEFINE f == [n \in 2..high |-> Append(base, Number(n))]
    <3>1. f \in [2..high -> taken]
      <4>1. \A n \in 2..high : Append(base, Number(n)) \in taken
        OBVIOUS
      <4>. QED
        BY <4>1
    <3>2. IsFiniteSet(2..high) /\ Cardinality(2..high) = high - 1
      <4>1. high \in Int /\ ~(2 > high) /\ high - 2 + 1 = high - 1
        BY <2>1
      <4>. HIDE DEF high
      <4>. QED
        BY <4>1, FS_Interval
    <3>3. Cardinality(taken) < Cardinality(2..high)
      BY <2>1, <3>2
    <3>4. \A m, n \in 2..high : f[m] = f[n] => m = n
      <4>1. \A m \in 2..high : m \in Nat
        BY <2>1
      <4>. QED
        BY <2>3, <4>1
    <3>. DEFINE S == 2..high
    <3>. HIDE DEF f, free, S
    <3>5. \E m, n \in S : m # n /\ f[m] = f[n]
      <4>1. f \in [S -> taken] /\ IsFiniteSet(S) /\ Cardinality(taken) < Cardinality(S)
        BY <3>1, <3>2, <3>3 DEF S
      <4>. QED
        BY <4>1, FS_PigeonHole
    <3>. USE DEF S
    <3>. QED
      BY <3>4, <3>5
  <2>5. free \in SUBSET Nat
    BY <2>1
  <2>. DEFINE n == CHOOSE x \in free : \A k \in free : x <= k
  <2>6. n \in free
    <3>1. \E x \in free : \A k \in free : x <= k
      <4>. HIDE DEF free
      <4>. QED
        BY <2>4, <2>5, LeastNumber
    <3>. HIDE DEF free
    <3>. QED
      BY <3>1
  <2>7. FreeTag(taken, base) = Append(base, Number(n))
    BY <1>2 DEF FreeTag
  <2>8. n \in Nat /\ Append(base, Number(n)) \notin taken
    <3>1. \A x \in free : x \in Nat /\ Append(base, Number(x)) \notin taken
      BY <2>5
    <3>. HIDE DEF free, n
    <3>. QED
      BY <2>6, <3>1
  <2>. HIDE DEF n
  <2>. QED
    BY <2>7, <2>8
<1>. QED
  BY <1>1, <1>2

\* What a tag starts from.
Base(n, fallback) == IF Trim(n.tag) = <<>> THEN fallback ELSE Trim(n.tag)

\* A list of tags in use: pairwise different, none reserved, each from its node.
InUse(tags, k, ns, reserved, fallback) ==
    /\ tags \in Seq(Seq(Words)) /\ Len(tags) = k
    /\ \A i \in 1..k : /\ tags[i] \notin reserved
                       /\ \/ tags[i] = Base(ns[i], fallback)
                          \/ \E x \in Nat : tags[i] = Append(Base(ns[i], fallback), Number(x))
    /\ \A i, j \in 1..k : tags[i] = tags[j] => i = j

\* One more node takes one more tag.
LEMMA InUseMore ==
    ASSUME NEW k \in Nat, NEW ns, NEW tags, NEW reserved, IsFiniteSet(reserved), NEW fallback,
           InUse(tags, k, ns, reserved, fallback), Base(ns[k + 1], fallback) \in Seq(Words)
    PROVE  InUse(Append(tags, FreeTag(reserved \cup Range(tags), Base(ns[k + 1], fallback))),
                 k + 1, ns, reserved, fallback)
<1>. DEFINE taken == reserved \cup Range(tags)
            base == Base(ns[k + 1], fallback)
            tag == FreeTag(taken, base)
            more == Append(tags, tag)
<1>0. /\ tags \in Seq(Seq(Words)) /\ Len(tags) = k
      /\ \A i \in 1..k : /\ tags[i] \notin reserved
                         /\ \/ tags[i] = Base(ns[i], fallback)
                            \/ \E x \in Nat : tags[i] = Append(Base(ns[i], fallback), Number(x))
      /\ \A i, j \in 1..k : tags[i] = tags[j] => i = j
  BY DEF InUse
<1>1. IsFiniteSet(taken)
  <2>1. tags \in [1..k -> Range(tags)] /\ \A t \in Range(tags) : \E i \in 1..k : tags[i] = t
    BY <1>0 DEF Range
  <2>2. IsFiniteSet(1..k)
    BY FS_Interval
  <2>3. IsFiniteSet(Range(tags))
    BY <2>1, <2>2, FS_Surjection DEF Surjection
  <2>. QED
    BY <2>3, FS_Union
<1>2. /\ tag \notin taken
      /\ tag = base \/ \E x \in Nat : tag = Append(base, Number(x))
  <2>. HIDE DEF taken, base
  <2>1. base \in Seq(Words)
    BY DEF base
  <2>. QED
    BY <1>1, <2>1, FreeTagIsFree
<1>3. tag \in Seq(Words)
  <2>1. \A x \in Nat : Number(x) \in Words
    BY DEF Number, Words, Strings
  <2>2. \A x \in Nat : Append(base, Number(x)) \in Seq(Words)
    <3>. HIDE DEF base
    <3>1. base \in Seq(Words)
      BY DEF base
    <3>. QED
      BY <2>1, <3>1
  <2>. HIDE DEF tag
  <2>. QED
    BY <1>2, <2>2
<1>4. \A i \in 1..k : tags[i] \in taken
  <2>1. DOMAIN tags = 1..k
    BY <1>0
  <2>2. \A i \in 1..k : tags[i] \in Range(tags)
    BY <2>1 DEF Range
  <2>. HIDE DEF tag
  <2>. QED
    BY <2>2
<1>. HIDE DEF taken, tag
<1>5. /\ more \in Seq(Seq(Words)) /\ Len(more) = k + 1
      /\ \A i \in 1..(k + 1) : more[i] = IF i = k + 1 THEN tag ELSE tags[i]
  BY <1>0, <1>3, AppendProperties
<1>6. reserved \subseteq taken
  BY DEF taken
<1>. HIDE DEF more
<1>7. ASSUME NEW i \in 1..(k + 1)
      PROVE  /\ more[i] \notin reserved
             /\ \/ more[i] = Base(ns[i], fallback)
                \/ \E x \in Nat : more[i] = Append(Base(ns[i], fallback), Number(x))
  <2>1. CASE i = k + 1
    BY <1>2, <1>5, <1>6, <2>1
  <2>2. CASE i # k + 1
    <3>1. i \in 1..k /\ more[i] = tags[i]
      BY <1>5, <2>2
    <3>. QED
      BY <1>0, <3>1
  <2>. QED
    BY <2>1, <2>2
<1>8. ASSUME NEW i \in 1..(k + 1), NEW j \in 1..(k + 1), more[i] = more[j]
      PROVE  i = j
  <2>1. \A x \in 1..(k + 1) : x = k + 1 \/ x \in 1..k
    OBVIOUS
  <2>2. \A x \in 1..k : x \in 1..(k + 1) /\ x # k + 1
    OBVIOUS
  <2>3. CASE i \in 1..k /\ j \in 1..k
    BY <1>0, <1>5, <1>8, <2>2, <2>3
  <2>4. CASE i = k + 1 /\ j \in 1..k
    BY <1>2, <1>4, <1>5, <1>8, <2>2, <2>4
  <2>5. CASE i \in 1..k /\ j = k + 1
    BY <1>2, <1>4, <1>5, <1>8, <2>2, <2>5
  <2>. QED
    BY <2>1, <2>3, <2>4, <2>5
<1>9. InUse(more, k + 1, ns, reserved, fallback)
  BY <1>5, <1>7, <1>8 DEF InUse
<1>. QED
  BY <1>9 DEF more, tag, taken

\* The recursion of UniqueTags, up to a length.
Tagging(g, n, ns, reserved, fallback) ==
    g = [i \in 0..n |->
           IF i = 0 THEN <<>>
           ELSE Append(g[i - 1], FreeTag(reserved \cup Range(g[i - 1]), Base(ns[i], fallback)))]

\* It has a solution of every length.
LEMMA TagsSolved ==
    ASSUME NEW ns, NEW reserved, NEW fallback, NEW n \in Nat
    PROVE  \E g : Tagging(g, n, ns, reserved, fallback)
<1>. DEFINE Step(s, i) == Append(s, FreeTag(reserved \cup Range(s), Base(ns[i], fallback)))
            Upto(k, g) == g = [i \in 0..k |-> IF i = 0 THEN <<>> ELSE Step(g[i - 1], i)]
            T == {k \in Nat : ~\E g : Upto(k, g)}
<1>. HIDE DEF Step
<1>0. SUFFICES ASSUME T # {} PROVE FALSE
  <2>. HIDE DEF Upto
  <2>1. n \notin T
    BY <1>0
  <2>2. \E g : Upto(n, g)
    BY <2>1
  <2>. QED
    BY <2>2 DEF Upto, Step, Tagging
<1>1. PICK k \in T : \A j \in T : k <= j
  <2>. HIDE DEF Upto
  <2>1. T \in SUBSET Nat
    OBVIOUS
  <2>. HIDE DEF T
  <2>. QED
    BY <1>0, <2>1, LeastNumber
<1>2. k \in Nat /\ ~\E g : Upto(k, g)
  <2>. HIDE DEF Upto
  <2>. QED
    BY <1>1
<1>3. k # 0
  <2>. DEFINE h == [i \in 0..0 |-> <<>>]
  <2>1. Upto(0, h)
    <3>1. \A i \in 0..0 : i = 0
      OBVIOUS
    <3>. QED
      BY <3>1
  <2>. HIDE DEF Upto
  <2>. QED
    BY <1>2, <2>1
<1>4. PICK g : Upto(k - 1, g)
  <2>1. k - 1 \in Nat /\ ~(k <= k - 1)
    BY <1>2, <1>3
  <2>. HIDE DEF Upto
  <2>. QED
    BY <1>1, <2>1
<1>. DEFINE h == [i \in 0..k |-> IF i = k THEN Step(g[i - 1], i) ELSE g[i]]
<1>5. ASSUME NEW i \in 0..k
      PROVE  h[i] = IF i = 0 THEN <<>> ELSE Step(h[i - 1], i)
  <2>1. i \in Nat /\ i <= k
    BY <1>2
  <2>2. i # 0 => i - 1 \in 0..k /\ i - 1 # k
    BY <1>2, <2>1
  <2>3. i # 0 => h[i - 1] = g[i - 1]
    BY <2>2
  <2>4. CASE i = k
    BY <1>3, <2>3, <2>4
  <2>5. CASE i # k
    <3>1. i \in 0..(k - 1)
      BY <1>2, <2>1, <2>5
    <3>2. g[i] = IF i = 0 THEN <<>> ELSE Step(g[i - 1], i)
      BY <1>4, <3>1
    <3>3. h[i] = g[i]
      BY <2>5
    <3>. HIDE DEF h, Upto
    <3>. QED
      BY <2>3, <3>2, <3>3
  <2>. QED
    BY <2>4, <2>5
<1>6. Upto(k, h)
  <2>1. h = [i \in 0..k |-> h[i]]
    OBVIOUS
  <2>. HIDE DEF h
  <2>. QED
    BY <1>5, <2>1
<1>. HIDE DEF Upto, h
<1>. QED
  BY <1>2, <1>6

\* UniqueTags gives every node a tag of its own.
LEMMA TagsInUse ==
    ASSUME NEW ns \in Seq(Nodes), NEW reserved, IsFiniteSet(reserved), NEW fallback \in Seq(Words)
    PROVE  InUse(UniqueTags(ns, reserved, fallback), Len(ns), ns, reserved, fallback)
<1>. DEFINE N == Len(ns)
            tags == CHOOSE g : Tagging(g, N, ns, reserved, fallback)
<1>1. N \in Nat /\ \A i \in 1..N : Base(ns[i], fallback) \in Seq(Words)
  <2>1. \A i \in 1..N : ns[i].tag \in Tags
    BY NodeParts
  <2>2. \A t \in Tags : Trim(t) \in Seq(Words)
    BY DEF Tags, Trim, Words
  <2>. QED
    BY <2>1, <2>2 DEF Base
<1>2. UniqueTags(ns, reserved, fallback) = tags[N]
  BY DEF UniqueTags, Base, Tagging
<1>3. Tagging(tags, N, ns, reserved, fallback)
  <2>. HIDE DEF N
  <2>1. \E g : Tagging(g, N, ns, reserved, fallback)
    BY <1>1, TagsSolved
  <2>. QED
    BY <2>1
<1>. HIDE DEF tags
<1>4. /\ tags[0] = <<>>
      /\ \A i \in 1..N : tags[i] = Append(tags[i - 1], FreeTag(reserved \cup Range(tags[i - 1]),
                                                               Base(ns[i], fallback)))
  <2>1. \A i \in 0..N : tags[i] = IF i = 0 THEN <<>>
                                  ELSE Append(tags[i - 1], FreeTag(reserved \cup Range(tags[i - 1]),
                                                                   Base(ns[i], fallback)))
    BY <1>3 DEF Tagging
  <2>2. 0 \in 0..N /\ \A i \in 1..N : i \in 0..N /\ i # 0
    BY <1>1
  <2>. QED
    BY <2>1, <2>2
<1>. DEFINE Done(i) == InUse(tags[i], i, ns, reserved, fallback)
            T == {i \in 0..N : ~Done(i)}
<1>5. T = {}
  <2>. SUFFICES ASSUME T # {} PROVE FALSE
    OBVIOUS
  <2>1. PICK i \in T : \A k \in T : i <= k
    <3>. HIDE DEF Done
    <3>1. T \in SUBSET Nat
      OBVIOUS
    <3>. HIDE DEF T
    <3>. QED
      BY <3>1, LeastNumber
  <2>2. i \in 0..N /\ ~Done(i)
    <3>. HIDE DEF Done
    <3>. QED
      BY <2>1
  <2>3. CASE i = 0
    <3>1. Done(0)
      BY <1>4 DEF InUse
    <3>. HIDE DEF Done
    <3>. QED
      BY <2>2, <2>3, <3>1
  <2>4. CASE i # 0
    <3>1. i - 1 \in 0..N /\ ~(i <= i - 1) /\ i - 1 \in Nat /\ (i - 1) + 1 = i /\ i \in 1..N
      BY <1>1, <2>2, <2>4
    <3>2. Done(i - 1)
      <4>. HIDE DEF Done
      <4>. QED
        BY <2>1, <3>1
    <3>3. InUse(Append(tags[i - 1], FreeTag(reserved \cup Range(tags[i - 1]),
                                            Base(ns[(i - 1) + 1], fallback))),
                (i - 1) + 1, ns, reserved, fallback)
      <4>1. Base(ns[(i - 1) + 1], fallback) \in Seq(Words)
        BY <1>1, <3>1
      <4>. QED
        BY <3>1, <3>2, <4>1, InUseMore
    <3>4. Done(i)
      BY <1>4, <3>1, <3>3
    <3>. HIDE DEF Done
    <3>. QED
      BY <2>2, <3>4
  <2>. QED
    BY <2>3, <2>4
<1>6. Done(N)
  <2>. HIDE DEF Done
  <2>. QED
    BY <1>1, <1>5
<1>. QED
  BY <1>2, <1>6

-----------------------------------------------------------------------------
(* Documents.                                                              *)

\* An outbound, or nothing; refusing does not depend on the tag.
LEMMA SingBoxIs ==
    ASSUME NEW n, NEW c, NEW tag, NEW e
    PROVE  LET out == SingBoxOutbound(n, c, tag, e)
           IN  /\ out = <<>> \/ out = <<out[1]>>
               /\ out # <<>> => out[1].tag = tag
               /\ out # <<>> <=>
                    /\ ~(n.protocol.kind = "vless" /\ n.protocol.flow = "vision-udp443")
                    /\ ~(n.protocol.kind = "shadowsocks" /\ ~CarriesShadowsocks(n))
                    /\ ~(n.transport.kind = "xhttp" /\ ~SupportsXhttp(c))
                    /\ Passes(n, c, e)
<1>. DEFINE out == SingBoxOutbound(n, c, tag, e)
            shadowsocks == n.protocol.kind = "shadowsocks"
            refused == \/ n.protocol.kind = "vless" /\ n.protocol.flow = "vision-udp443"
                       \/ shadowsocks /\ ~CarriesShadowsocks(n)
                       \/ n.transport.kind = "xhttp" /\ ~SupportsXhttp(c)
            made == [tag |-> tag, address |-> n.address, protocol |-> n.protocol,
                     transport |-> n.transport, host |-> TransportHost(n),
                     tls |-> IF shadowsocks THEN PluginTls(n) ELSE SingBoxTls(n, e),
                     mux |-> n.mux, via |-> n.via,
                     dropped |-> Degradations(n, c, e) \cup SingBoxDropped(n)]
<1>1. out = IF refused \/ ~Passes(n, c, e) THEN <<>> ELSE <<made>>
  BY DEF SingBoxOutbound
<1>2. made.tag = tag
  OBVIOUS
<1>. HIDE DEF made, out, refused
<1>3. <<made>> # <<>> /\ <<made>>[1] = made
  OBVIOUS
<1>4. /\ out = <<>> \/ out = <<out[1]>>
      /\ out # <<>> => out[1].tag = tag
      /\ out # <<>> <=> ~refused /\ Passes(n, c, e)
  BY <1>1, <1>2, <1>3
<1>. QED
  BY <1>4 DEF out, refused

\* The same of mihomo, which is given the tag of the node.
LEMMA MihomoIs ==
    ASSUME NEW n, NEW c, NEW e
    PROVE  LET out == MihomoProxy(n, c, e)
           IN  /\ out = <<>> \/ out = <<out[1]>>
               /\ out # <<>> => out[1].tag = Trim(n.tag)
               /\ out # <<>> <=>
                    /\ MihomoNameUsable(n.tag)
                    /\ MihomoCarries(n)
                    /\ ~(/\ n.protocol.kind # "shadowsocks" /\ n.security.kind = "reality"
                         /\ ~MihomoReality(n.security, e))
                    /\ Passes(n, c, e)
<1>. DEFINE out == MihomoProxy(n, c, e)
            shadowsocks == n.protocol.kind = "shadowsocks"
            refused == \/ ~MihomoNameUsable(n.tag)
                       \/ ~MihomoCarries(n)
                       \/ /\ ~shadowsocks /\ n.security.kind = "reality"
                          /\ ~MihomoReality(n.security, e)
            made == [tag |-> Trim(n.tag), address |-> n.address, protocol |-> n.protocol,
                     transport |-> n.transport, host |-> TransportHost(n),
                     tls |-> IF shadowsocks THEN PluginTls(n) ELSE MihomoTls(n, e),
                     mux |-> Smux(n), via |-> NoTag,
                     dropped |-> Degradations(n, c, e) \cup MihomoDropped(n)]
<1>1. out = IF refused \/ ~Passes(n, c, e) THEN <<>> ELSE <<made>>
  BY DEF MihomoProxy
<1>2. made.tag = Trim(n.tag)
  OBVIOUS
<1>. HIDE DEF made, out, refused
<1>3. <<made>> # <<>> /\ <<made>>[1] = made
  OBVIOUS
<1>4. /\ out = <<>> \/ out = <<out[1]>>
      /\ out # <<>> => out[1].tag = Trim(n.tag)
      /\ out # <<>> <=> ~refused /\ Passes(n, c, e)
  BY <1>1, <1>2, <1>3
<1>. QED
  BY <1>4 DEF out, refused

\* What a document promises of its tags.
Distinct(document, reserved) ==
    \A i \in DOMAIN document :
       /\ document[i].tag \notin reserved
       /\ \A j \in DOMAIN document : document[j].tag = document[i].tag => i = j

\* Leaving nodes out keeps the tags of the others apart.
LEMMA FlattenDistinct ==
    ASSUME NEW n \in Nat, NEW ss, Short(n, ss), NEW tags, NEW reserved,
           \A i \in 1..n : /\ tags[i] \notin reserved
                           /\ ss[i] # <<>> => ss[i][1].tag = tags[i],
           \A i, j \in 1..n : tags[i] = tags[j] => i = j
    PROVE  Distinct(FlattenSeq(ss), reserved)
<1>. DEFINE s == FlattenSeq(ss)
<1>1. PICK pos : Picks(n, ss, s, pos)
  BY FlattenPicks
<1>. HIDE DEF s
<1>2. /\ pos \in [1..Len(s) -> 1..n] /\ DOMAIN s = 1..Len(s)
      /\ \A j \in 1..Len(s) : ss[pos[j]] = <<s[j]>>
  <2>1. s \in Seq({ss[i][1] : i \in 1..n})
    BY <1>1 DEF Picks
  <2>2. DOMAIN s = 1..Len(s)
    BY <2>1
  <2>. QED
    BY <1>1, <2>2 DEF Picks
<1>3. \A j, k \in 1..Len(s) : pos[j] = pos[k] => j = k
  BY <1>1, PicksInjective
<1>4. \A x : <<x>> # <<>> /\ <<x>>[1] = x
  OBVIOUS
<1>5. \A j \in 1..Len(s) : pos[j] \in 1..n /\ s[j].tag = tags[pos[j]]
  <2>. TAKE j \in 1..Len(s)
  <2>1. pos[j] \in 1..n /\ ss[pos[j]] = <<s[j]>>
    BY <1>2
  <2>2. ss[pos[j]] # <<>> /\ ss[pos[j]][1] = s[j]
    BY <1>4, <2>1
  <2>. QED
    BY <2>1, <2>2
<1>6. Distinct(s, reserved)
  <2>1. \A j \in DOMAIN s : s[j].tag \notin reserved
    BY <1>2, <1>5
  <2>2. \A i, j \in DOMAIN s : s[j].tag = s[i].tag => i = j
    BY <1>2, <1>3, <1>5
  <2>. QED
    BY <2>1, <2>2 DEF Distinct
<1>. QED
  BY <1>6 DEF s

\* The reserved names and the fallback are what UniqueTags takes.
LEMMA Reserved ==
    /\ IsFiniteSet(SingBoxReserved) /\ IsFiniteSet(MihomoReserved)
    /\ Name("proxy") \in Seq(Words) /\ Name("proxy") # <<>>
<1>1. \A a, b : IsFiniteSet({a, b})
  <2>. TAKE a, b
  <2>1. IsFiniteSet({a}) /\ {a, b} = {a} \cup {b}
    BY FS_Singleton
  <2>. QED
    BY <2>1, FS_AddElement
<1>2. Word("proxy") \in Words
  BY DEF Word, Words, Strings
<1>3. IsFiniteSet(SingBoxReserved) /\ IsFiniteSet(MihomoReserved)
  BY <1>1 DEF SingBoxReserved, MihomoReserved
<1>4. \A x \in Words : <<x>> \in Seq(Words) /\ <<x>> # <<>>
  OBVIOUS
<1>. QED
  BY <1>2, <1>3, <1>4 DEF Name

\* The tags of Xray's documents, ...
LEMMA XrayDistinct ==
    ASSUME NEW ns \in Seq(Nodes), NEW c, NEW e
    PROVE  Distinct(XrayDocument(ns, c, e), XrayReserved)
<1>. DEFINE known == {Trim(ns[i].tag) : i \in DOMAIN ns}
            document == [i \in DOMAIN ns |-> XrayOutbound(ns[i], known, c, e)]
<1>1. CASE XrayDocument(ns, c, e) = <<>>
  BY <1>1 DEF Distinct
<1>2. CASE XrayDocument(ns, c, e) # <<>>
  <2>1. XrayDocument(ns, c, e) = document /\ XrayTagsUsable(ns)
    BY <1>2 DEF XrayDocument
  <2>2. \A i \in DOMAIN ns : document[i].tag = Trim(ns[i].tag)
    BY DEF XrayOutbound
  <2>3. DOMAIN document = DOMAIN ns
    OBVIOUS
  <2>. HIDE DEF document
  <2>4. /\ \A i \in DOMAIN ns : Trim(ns[i].tag) \notin XrayReserved
        /\ \A i, j \in DOMAIN ns : Trim(ns[i].tag) = Trim(ns[j].tag) => i = j
    BY <2>1 DEF XrayTagsUsable
  <2>. QED
    BY <2>1, <2>2, <2>3, <2>4 DEF Distinct
<1>. QED
  BY <1>1, <1>2

\* ... of sing-box's, ...
LEMMA SingBoxDistinct ==
    ASSUME NEW ns \in Seq(Nodes), NEW c, NEW e
    PROVE  Distinct(SingBoxDocument(ns, c, e), SingBoxReserved)
<1>. DEFINE tags == UniqueTags(ns, SingBoxReserved, Name("proxy"))
            ss == [i \in 1..Len(ns) |-> SingBoxOutbound(ns[i], c, tags[i], e)]
<1>1. Len(ns) \in Nat /\ DOMAIN ns = 1..Len(ns)
  OBVIOUS
<1>2. InUse(tags, Len(ns), ns, SingBoxReserved, Name("proxy"))
  BY Reserved, TagsInUse
<1>. HIDE DEF tags
<1>3. Short(Len(ns), ss)
  BY SingBoxIs DEF Short
<1>4. \A i \in 1..Len(ns) : ss[i] # <<>> => ss[i][1].tag = tags[i]
  BY SingBoxIs
<1>5. /\ \A i \in 1..Len(ns) : tags[i] \notin SingBoxReserved
      /\ \A i, j \in 1..Len(ns) : tags[i] = tags[j] => i = j
  BY <1>2 DEF InUse
<1>6. SingBoxDocument(ns, c, e) = <<>> \/ SingBoxDocument(ns, c, e) = FlattenSeq(ss)
  BY <1>1 DEF SingBoxDocument, tags
<1>. HIDE DEF ss
<1>7. Distinct(FlattenSeq(ss), SingBoxReserved)
  BY <1>1, <1>3, <1>4, <1>5, FlattenDistinct
<1>8. Distinct(<<>>, SingBoxReserved)
  BY DEF Distinct
<1>. QED
  BY <1>6, <1>7, <1>8

\* ... and of mihomo's.
LEMMA MihomoDistinct ==
    ASSUME NEW ns \in Seq(Nodes), NEW c, NEW e
    PROVE  Distinct(MihomoDocument(ns, c, e), MihomoReserved)
<1>. DEFINE tags == UniqueTags(ns, MihomoReserved, Name("proxy"))
            renamed == [i \in 1..Len(ns) |->
                          [ns[i] EXCEPT !.tag = [words |-> tags[i], pad |-> FALSE]]]
            ss == [i \in 1..Len(ns) |-> MihomoProxy(renamed[i], c, e)]
<1>1. Len(ns) \in Nat /\ DOMAIN ns = 1..Len(ns) /\ \A i \in 1..Len(ns) : ns[i] \in Nodes
  OBVIOUS
<1>2. InUse(tags, Len(ns), ns, MihomoReserved, Name("proxy"))
  BY Reserved, TagsInUse
<1>. HIDE DEF tags
<1>3. \A i \in 1..Len(ns) : Trim(renamed[i].tag) = tags[i]
  BY <1>1 DEF Nodes, Trim
<1>4. MihomoDocument(ns, c, e) = <<>> \/ MihomoDocument(ns, c, e) = FlattenSeq(ss)
  BY <1>1 DEF MihomoDocument, tags
<1>. HIDE DEF renamed
<1>5. Short(Len(ns), ss)
  BY MihomoIs DEF Short
<1>6. \A i \in 1..Len(ns) : ss[i] # <<>> => ss[i][1].tag = tags[i]
  BY <1>3, MihomoIs
<1>7. /\ \A i \in 1..Len(ns) : tags[i] \notin MihomoReserved
      /\ \A i, j \in 1..Len(ns) : tags[i] = tags[j] => i = j
  BY <1>2 DEF InUse
<1>. HIDE DEF ss
<1>8. Distinct(FlattenSeq(ss), MihomoReserved)
  BY <1>1, <1>5, <1>6, <1>7, FlattenDistinct
<1>9. Distinct(<<>>, MihomoReserved)
  BY DEF Distinct
<1>. QED
  BY <1>4, <1>8, <1>9

\* The tags of the document an operator would download.
LEMMA TagsDistinct ==
    ASSUME EditorTypeOK
    PROVE  DocumentTagsUnique
<1>1. nodes \in Seq(Nodes) /\ CoreOf(client) \in {"Xray", "SingBox", "Mihomo"}
  BY OpenIsNode, CoreIs
<1>2. CASE CoreOf(client) = "Xray"
  BY <1>1, <1>2, XrayDistinct DEF DocumentTagsUnique, Document, Distinct
<1>3. CASE CoreOf(client) = "SingBox"
  BY <1>1, <1>3, SingBoxDistinct DEF DocumentTagsUnique, Document, Distinct
<1>4. CASE CoreOf(client) = "Mihomo"
  BY <1>1, <1>4, MihomoDistinct DEF DocumentTagsUnique, Document, Distinct
<1>. QED
  BY <1>1, <1>2, <1>3, <1>4

-----------------------------------------------------------------------------
(* Whole documents.                                                        *)

\* What the gate finds of a node does not depend on its tag.
LEMMA TagDecidesNothing ==
    ASSUME NEW n \in Nodes, NEW t, NEW c, NEW e
    PROVE  LET m == [n EXCEPT !.tag = t]
           IN  /\ m.tag = t /\ m.protocol = n.protocol /\ m.security = n.security
               /\ Passes(m, c, e) <=> Passes(n, c, e)
               /\ MihomoCarries(m) <=> MihomoCarries(n)
<1>. DEFINE m == [n EXCEPT !.tag = t]
<1>1. /\ m.tag = t /\ m.protocol = n.protocol /\ m.transport = n.transport
      /\ m.security = n.security /\ m.address = n.address /\ m.mux = n.mux
      /\ m.served = n.served
  BY DEF Nodes
<1>. HIDE DEF m
<1>2. CheckWorkerServing(m) = CheckWorkerServing(n)
  BY <1>1 DEF CheckWorkerServing
<1>3. CheckFlow(m, c) = CheckFlow(n, c)
  BY <1>1 DEF CheckFlow
<1>4. CheckTransportTranslation(m, c) = CheckTransportTranslation(n, c)
  BY <1>1 DEF CheckTransportTranslation
<1>5. CheckSecurity(m, c, e) = CheckSecurity(n, c, e)
  BY <1>1, Zenon DEF CheckSecurity
<1>6. CheckProtocol(m, c) = CheckProtocol(n, c)
  BY <1>1, Zenon DEF CheckProtocol
<1>7. CheckMux(m) = CheckMux(n)
  BY <1>1 DEF CheckMux
<1>8. Check(m, c, e) = Check(n, c, e)
  BY <1>2, <1>3, <1>4, <1>5, <1>6, <1>7 DEF Check
<1>9. MihomoCarries(m) <=> MihomoCarries(n)
  BY <1>1 DEF MihomoCarries, CarriesShadowsocks
<1>. QED
  BY <1>1, <1>8, <1>9 DEF Passes, m

\* Flattening sequences of one element keeps them all.
LEMMA FlattenWhole ==
    ASSUME NEW n \in Nat, NEW ss, Short(n, ss), \A i \in 1..n : ss[i] # <<>>
    PROVE  Len(FlattenSeq(ss)) = n /\ (FlattenSeq(ss) = <<>> <=> n = 0)
<1>. DEFINE s == FlattenSeq(ss)
<1>1. PICK pos : Picks(n, ss, s, pos)
  BY FlattenPicks
<1>. HIDE DEF s
<1>2. Len(s) \in Nat /\ Len(s) = Cardinality({i \in 1..n : ss[i] # <<>>})
  BY <1>1, PicksCount
<1>3. {i \in 1..n : ss[i] # <<>>} = 1..n /\ Cardinality(1..n) = n
  <2>1. Cardinality(1..n) = IF 1 > n THEN 0 ELSE n - 1 + 1
    BY FS_Interval
  <2>. QED
    BY <2>1
<1>4. s \in Seq({ss[i][1] : i \in 1..n})
  BY <1>1 DEF Picks
<1>5. s = <<>> <=> Len(s) = 0
  <2>. DEFINE S == {ss[i][1] : i \in 1..n}
  <2>1. s \in Seq(S)
    BY <1>4
  <2>. HIDE DEF S
  <2>. QED
    BY <2>1, EmptySeq
<1>. QED
  BY <1>2, <1>3, <1>5 DEF s

\* The nodes that pass alone.
Usable(ns, c) ==
    FlattenSeq([i \in DOMAIN ns |-> IF EmitOne(ns[i], c) THEN <<ns[i]>> ELSE <<>>])

\* Each of them is one of the nodes, and none is there twice.
LEMMA UsableIs ==
    ASSUME NEW ns \in Seq(Nodes), NEW c
    PROVE  LET usable == Usable(ns, c)
           IN  /\ usable \in Seq(Nodes)
               /\ \A j \in 1..Len(usable) : EmitOne(usable[j], c)
               /\ \E pos \in [1..Len(usable) -> 1..Len(ns)] :
                     /\ \A j \in 1..Len(usable) : usable[j] = ns[pos[j]]
                     /\ \A j, k \in 1..Len(usable) : pos[j] = pos[k] => j = k
<1>. DEFINE n == Len(ns)
            ss == [i \in 1..n |-> IF EmitOne(ns[i], c) THEN <<ns[i]>> ELSE <<>>]
            s == FlattenSeq(ss)
<1>1. n \in Nat /\ DOMAIN ns = 1..n /\ \A i \in 1..n : ns[i] \in Nodes
  OBVIOUS
<1>2. \A x : <<x>> # <<>> /\ <<x>>[1] = x
  OBVIOUS
<1>3. \A i \in 1..n : /\ ss[i] = <<>> \/ ss[i] = <<ns[i]>>
                      /\ ss[i] # <<>> => EmitOne(ns[i], c)
  OBVIOUS
<1>4. Short(n, ss)
  <2>1. \A i \in 1..n : ss[i] = <<>> \/ ss[i] = <<ss[i][1]>>
    BY <1>2, <1>3
  <2>2. ss = [i \in 1..n |-> ss[i]]
    OBVIOUS
  <2>. HIDE DEF ss
  <2>. QED
    BY <2>1, <2>2 DEF Short
<1>5. Usable(ns, c) = s
  BY <1>1 DEF Usable
<1>. HIDE DEF ss
<1>6. PICK pos : Picks(n, ss, s, pos)
  BY <1>1, <1>4, FlattenPicks
<1>. HIDE DEF s
<1>7. Len(s) \in Nat /\ pos \in [1..Len(s) -> 1..n]
  BY <1>1, <1>6, PicksInjective
<1>8. \A j \in 1..Len(s) : ss[pos[j]] = <<s[j]>>
  BY <1>1, <1>6 DEF Picks
<1>9. \A j, k \in 1..Len(s) : pos[j] = pos[k] => j = k
  BY <1>1, <1>6, PicksInjective
<1>10. \A j \in 1..Len(s) : pos[j] \in 1..n /\ s[j] = ns[pos[j]] /\ EmitOne(s[j], c)
  <2>. TAKE j \in 1..Len(s)
  <2>1. pos[j] \in 1..n /\ ss[pos[j]] = <<s[j]>>
    BY <1>7, <1>8
  <2>2. <<ns[pos[j]]>> = <<s[j]>> /\ EmitOne(ns[pos[j]], c)
    BY <1>2, <1>3, <2>1
  <2>3. <<ns[pos[j]]>>[1] = ns[pos[j]] /\ <<s[j]>>[1] = s[j]
    BY <1>2
  <2>. QED
    BY <2>1, <2>2, <2>3
<1>11. s \in Seq(Nodes)
  <2>1. s \in Seq({ss[i][1] : i \in 1..n})
    BY <1>6 DEF Picks
  <2>2. Len(s) \in Nat /\ s = [j \in 1..Len(s) |-> s[j]]
    <3>. DEFINE S == {ss[i][1] : i \in 1..n}
    <3>1. s \in Seq(S)
      BY <2>1
    <3>. HIDE DEF S
    <3>. QED
      BY <3>1
  <2>3. \A j \in 1..Len(s) : s[j] \in Nodes
    BY <1>1, <1>10
  <2>. QED
    BY <2>2, <2>3
<1>. QED
  BY <1>5, <1>7, <1>9, <1>10, <1>11 DEF n

\* Nodes Xray takes one by one make a document, if their tags differ.
LEMMA XrayWhole ==
    ASSUME NEW us \in Seq(Nodes), NEW c, NEW e \in BOOLEAN, CoreOf(c) = "Xray",
           \A i \in 1..Len(us) : EmitOne(us[i], c),
           \A i, j \in 1..Len(us) : Trim(us[i].tag) = Trim(us[j].tag) => i = j
    PROVE  LET document == XrayDocument(us, c, e)
           IN  Len(document) = Len(us) /\ (document = <<>> <=> Len(us) = 0)
<1>. DEFINE N == Len(us)
            known == {Trim(us[i].tag) : i \in DOMAIN us}
            document == [i \in 1..N |-> XrayOutbound(us[i], known, c, e)]
<1>1. N \in Nat /\ DOMAIN us = 1..N /\ \A i \in 1..N : us[i] \in Nodes
  OBVIOUS
<1>2. ASSUME NEW i \in 1..N
      PROVE  /\ Trim(us[i].tag) # <<>> /\ Trim(us[i].tag) \notin XrayReserved
             /\ Passes(us[i], c, e)
  <2>. DEFINE alone == <<us[i]>>
  <2>1. XrayDocument(alone, c, FALSE) # <<>>
    BY DEF EmitOne, Emitted
  <2>2. 1 \in DOMAIN alone /\ alone[1] = us[i]
    OBVIOUS
  <2>. HIDE DEF alone
  <2>3. XrayTagsUsable(alone) /\ Passes(us[i], c, FALSE)
    <3>1. XrayTagsUsable(alone) /\ \A k \in DOMAIN alone : Passes(alone[k], c, FALSE)
      BY <2>1, Zenon DEF XrayDocument
    <3>. QED
      BY <2>2, <3>1
  <2>4. Passes(us[i], c, e)
    <3>1. us[i] \in Nodes /\ Passes(us[i], c, FALSE)
      BY <1>1, <2>3
    <3>. QED
      BY <3>1, PassesMonotone, Zenon
  <2>5. Trim(us[i].tag) # <<>> /\ Trim(us[i].tag) \notin XrayReserved
    BY <2>2, <2>3 DEF XrayTagsUsable
  <2>. QED
    BY <2>4, <2>5
<1>3. XrayTagsUsable(us)
  BY <1>1, <1>2 DEF XrayTagsUsable
<1>4. XrayDocument(us, c, e) = document
  <2>1. XrayDocument(us, c, e) = [i \in DOMAIN us |-> XrayOutbound(us[i], known, c, e)]
    BY <1>1, <1>2, <1>3 DEF XrayDocument
  <2>. QED
    BY <1>1, <2>1
<1>5. Len(document) = N /\ (document = <<>> <=> N = 0)
  <2>. DEFINE S == {XrayOutbound(us[i], known, c, e) : i \in 1..N}
  <2>1. document \in [1..N -> S]
    OBVIOUS
  <2>. HIDE DEF document, S, N
  <2>2. document \in Seq(S) /\ Len(document) = N
    BY <1>1, <2>1
  <2>. QED
    BY <2>2, EmptySeq
<1>. QED
  BY <1>4, <1>5 DEF N

\* sing-box refuses none of the nodes it takes one by one, whatever tag each is given.
LEMMA SingBoxWhole ==
    ASSUME NEW us \in Seq(Nodes), NEW c, NEW e \in BOOLEAN, CoreOf(c) = "SingBox",
           \A i \in 1..Len(us) : EmitOne(us[i], c)
    PROVE  LET document == SingBoxDocument(us, c, e)
           IN  Len(document) = Len(us) /\ (document = <<>> <=> Len(us) = 0)
<1>. DEFINE N == Len(us)
            tags == UniqueTags(us, SingBoxReserved, Name("proxy"))
            ss == [i \in 1..N |-> SingBoxOutbound(us[i], c, tags[i], e)]
<1>1. N \in Nat /\ DOMAIN us = 1..N /\ \A i \in 1..N : us[i] \in Nodes
  OBVIOUS
<1>2. SingBoxDocument(us, c, e) = FlattenSeq(ss)
  BY <1>1 DEF SingBoxDocument
<1>. HIDE DEF tags
<1>3. ASSUME NEW i \in 1..N
      PROVE  SingBoxOutbound(us[i], c, tags[i], e) # <<>>
  <2>1. SingBoxOutbound(us[i], c, SingBoxTag(us[i]), FALSE) # <<>>
    BY DEF EmitOne, Emitted
  <2>2. /\ ~(us[i].protocol.kind = "vless" /\ us[i].protocol.flow = "vision-udp443")
        /\ ~(us[i].protocol.kind = "shadowsocks" /\ ~CarriesShadowsocks(us[i]))
        /\ ~(us[i].transport.kind = "xhttp" /\ ~SupportsXhttp(c))
        /\ Passes(us[i], c, FALSE)
    BY <2>1, SingBoxIs
  <2>3. Passes(us[i], c, e)
    BY <1>1, <2>2, PassesMonotone
  <2>. QED
    BY <2>2, <2>3, SingBoxIs
<1>4. Short(N, ss)
  BY SingBoxIs DEF Short
<1>5. \A i \in 1..N : ss[i] # <<>>
  BY <1>3
<1>. HIDE DEF ss, N
<1>6. Len(FlattenSeq(ss)) = N /\ (FlattenSeq(ss) = <<>> <=> N = 0)
  BY <1>1, <1>4, <1>5, FlattenWhole
<1>. QED
  BY <1>2, <1>6 DEF N

\* A name with a number behind it is none of the words mihomo keeps.
LEMMA NumberedIsFree ==
    ASSUME NEW words \in Seq(Words), words # <<>>, NEW k \in Nat
    PROVE  Append(words, Number(k)) \notin MihomoBuiltIn /\ Append(words, Number(k)) # <<>>
<1>1. Number(k) \in Words
  BY DEF Number, Words, Strings
<1>2. Len(words) \in Nat /\ Len(words) # 0
  BY EmptySeq
<1>3. Len(Append(words, Number(k))) = Len(words) + 1
  BY <1>1, AppendProperties
<1>4. \A x : Len(<<x>>) = 1 /\ Len(<<>>) = 0
  OBVIOUS
<1>5. \A b \in MihomoBuiltIn : Len(b) = 1
  BY <1>4 DEF MihomoBuiltIn, Name
<1>6. Len(words) + 1 # 1 /\ Len(words) + 1 # 0
  BY <1>2
<1>. QED
  BY <1>3, <1>4, <1>5, <1>6

\* mihomo refuses none of the nodes it takes one by one: a name that differs from the node's own
\* has a number behind it.
LEMMA MihomoWhole ==
    ASSUME NEW us \in Seq(Nodes), NEW c, NEW e \in BOOLEAN, CoreOf(c) = "Mihomo",
           \A i \in 1..Len(us) :
              /\ EmitOne(us[i], c) /\ us[i].tag.words # <<>>
              /\ ~(/\ us[i].tag.pad
                   /\ Trim(us[i].tag) \in MihomoBuiltIn \ MihomoReserved)
    PROVE  LET document == MihomoDocument(us, c, e)
           IN  Len(document) = Len(us) /\ (document = <<>> <=> Len(us) = 0)
<1>. DEFINE N == Len(us)
            tags == UniqueTags(us, MihomoReserved, Name("proxy"))
            tag(i) == [words |-> tags[i], pad |-> FALSE]
            renamed == [i \in 1..N |-> [us[i] EXCEPT !.tag = tag(i)]]
            ss == [i \in 1..N |-> MihomoProxy(renamed[i], c, e)]
<1>1. N \in Nat /\ DOMAIN us = 1..N /\ \A i \in 1..N : us[i] \in Nodes
  OBVIOUS
<1>2. MihomoDocument(us, c, e) = FlattenSeq(ss)
  BY <1>1 DEF MihomoDocument
<1>3. InUse(tags, N, us, MihomoReserved, Name("proxy"))
  BY Reserved, TagsInUse
<1>. HIDE DEF tags
<1>4. ASSUME NEW i \in 1..N
      PROVE  MihomoProxy(renamed[i], c, e) # <<>>
  <2>. DEFINE n == us[i]
              m == [n EXCEPT !.tag = tag(i)]
  <2>0. /\ n \in Nodes /\ renamed[i] = m /\ n.tag.words # <<>>
        /\ n.tag.pad => n.tag.words \notin MihomoBuiltIn \ MihomoReserved
    BY <1>1 DEF Trim
  <2>1. MihomoProxy(n, c, FALSE) # <<>>
    BY DEF EmitOne, Emitted
  <2>. HIDE DEF n
  <2>2. /\ MihomoNameUsable(n.tag)
        /\ MihomoCarries(n)
        /\ ~(/\ n.protocol.kind # "shadowsocks" /\ n.security.kind = "reality"
             /\ ~MihomoReality(n.security, FALSE))
        /\ Passes(n, c, FALSE)
    BY <2>1, MihomoIs
  <2>3. /\ n.tag.words \in Seq(Words)
        /\ n.tag.words \in MihomoBuiltIn => n.tag.words \in MihomoReserved
    <3>1. n.tag \in Tags
      BY <2>0, NodeParts
    <3>2. n.tag.words \in Seq(Words)
      BY <3>1 DEF Tags, Words
    <3>. QED
      BY <2>0, <2>2, <3>2 DEF MihomoNameUsable
  <2>4. tags[i] = n.tag.words \/ \E k \in Nat : tags[i] = Append(n.tag.words, Number(k))
    <3>1. Base(us[i], Name("proxy")) = n.tag.words
      BY <2>0 DEF n, Base, Trim
    <3>. QED
      BY <1>3, <3>1 DEF InUse
  <2>5. tags[i] # <<>> /\ tags[i] \notin MihomoBuiltIn
    <3>1. tags[i] \notin MihomoReserved
      BY <1>3 DEF InUse
    <3>2. CASE tags[i] = n.tag.words
      BY <2>0, <2>3, <3>1, <3>2
    <3>3. CASE \E k \in Nat : tags[i] = Append(n.tag.words, Number(k))
      BY <2>0, <2>3, <3>3, NumberedIsFree
    <3>. QED
      BY <2>4, <3>2, <3>3
  <2>6. MihomoNameUsable(tag(i))
    <3>1. tag(i).words = tags[i] /\ tag(i).pad = FALSE /\ NoTag.words = <<>>
      BY DEF NoTag
    <3>. QED
      BY <2>5, <3>1 DEF MihomoNameUsable
  <2>7. /\ m.tag = tag(i) /\ m.protocol = n.protocol /\ m.security = n.security
        /\ MihomoCarries(m)
        /\ Passes(m, c, e)
    <3>1. Passes(n, c, e)
      BY <2>0, <2>2, PassesMonotone
    <3>. HIDE DEF tag
    <3>. QED
      BY <2>0, <2>2, <3>1, TagDecidesNothing
  <2>8. MihomoReality(n.security, FALSE) => MihomoReality(n.security, e)
    <3>1. "chrome" \in Known
      BY Zenon DEF Known
    <3>2. Completed(n.security.fingerprint, FALSE) \in Known =>
            Completed(n.security.fingerprint, e) \in Known
      BY <3>1 DEF Completed
    <3>. QED
      BY <3>2 DEF MihomoReality
  <2>. HIDE DEF m
  <2>9. MihomoProxy(m, c, e) # <<>>
    BY <2>2, <2>6, <2>7, <2>8, MihomoIs
  <2>. QED
    BY <2>0, <2>9
<1>. HIDE DEF renamed
<1>5. Short(N, ss)
  BY MihomoIs DEF Short
<1>6. \A i \in 1..N : ss[i] # <<>>
  BY <1>4
<1>. HIDE DEF ss, N
<1>7. Len(FlattenSeq(ss)) = N /\ (FlattenSeq(ss) = <<>> <=> N = 0)
  BY <1>1, <1>5, <1>6, FlattenWhole
<1>. QED
  BY <1>2, <1>7 DEF N

\* What a download holds.
LEMMA BundleWhole ==
    ASSUME EditorTypeOK
    PROVE  IncludedIsEmitted
<1>. DEFINE included == DOMAIN nodes \ FullConfig(nodes, client, enhanced).skipped
<1>. SUFFICES ASSUME Valid(nodes), ~SpaceConfuses(included)
     PROVE  LET bundle == FullConfig(nodes, client, enhanced)
            IN  /\ Len(bundle.body) = bundle.included
                /\ ClientView(nodes, client, enhanced).config <=> bundle.included > 0
  BY DEF IncludedIsEmitted
<1>0. included = {i \in DOMAIN nodes : EmitOne(nodes[i], client)}
  BY DEF FullConfig, Bundle
<1>. HIDE DEF included
<1>. DEFINE N == Len(nodes)
            us == Usable(nodes, client)
            U == Len(us)
            document == Document(us, client, enhanced)
<1>1. /\ nodes \in Seq(Nodes) /\ DOMAIN nodes = 1..N /\ N \in Nat /\ enhanced \in BOOLEAN
      /\ CoreOf(client) \in {"Xray", "SingBox", "Mihomo"}
  BY OpenIsNode, CoreIs
<1>2. /\ FullConfig(nodes, client, enhanced).body = document
      /\ FullConfig(nodes, client, enhanced).included = U
      /\ ClientView(nodes, client, enhanced).config <=> document # <<>>
  BY DEF FullConfig, Bundle, ClientView, Usable
<1>3. /\ us \in Seq(Nodes)
      /\ \A j \in 1..U : EmitOne(us[j], client)
      /\ \E pos \in [1..U -> 1..N] : /\ \A j \in 1..U : us[j] = nodes[pos[j]]
                                     /\ \A j, k \in 1..U : pos[j] = pos[k] => j = k
  BY <1>1, UsableIs
<1>. HIDE DEF us
<1>4. PICK pos \in [1..U -> 1..N] : /\ \A j \in 1..U : us[j] = nodes[pos[j]]
                                    /\ \A j, k \in 1..U : pos[j] = pos[k] => j = k
  BY <1>3
<1>5. ASSUME NEW j \in 1..U
      PROVE  /\ pos[j] \in included /\ us[j] = nodes[pos[j]]
             /\ EmitOne(us[j], client) /\ us[j].tag.words # <<>>
  <2>1. pos[j] \in DOMAIN nodes /\ us[j] = nodes[pos[j]] /\ EmitOne(us[j], client)
    BY <1>1, <1>3, <1>4
  <2>2. nodes[pos[j]].tag.words # <<>>
    BY <2>1 DEF Valid
  <2>. QED
    BY <1>0, <2>1, <2>2
<1>6a. ASSUME CoreOf(client) = "Xray",
              NEW j \in 1..U, NEW k \in 1..U, Trim(us[j].tag) = Trim(us[k].tag)
       PROVE  j = k
  <2>1. pos[j] = pos[k]
    BY <1>5, <1>6a DEF SpaceConfuses
  <2>. QED
    BY <1>4, <2>1
<1>6b. ASSUME CoreOf(client) = "Mihomo", NEW j \in 1..U
       PROVE  /\ EmitOne(us[j], client) /\ us[j].tag.words # <<>>
              /\ ~(us[j].tag.pad /\ Trim(us[j].tag) \in MihomoBuiltIn \ MihomoReserved)
  <2>1. nodes[pos[j]].tag.pad =>
           Trim(nodes[pos[j]].tag) \notin MihomoBuiltIn \ MihomoReserved
    BY <1>5, <1>6b DEF SpaceConfuses
  <2>. QED
    BY <1>5, <2>1
<1>7. Len(document) = U /\ (document = <<>> <=> U = 0)
  <2>1. CASE CoreOf(client) = "Xray"
    <3>1. document = XrayDocument(us, client, enhanced)
      BY <2>1 DEF Document
    <3>. HIDE DEF document
    <3>. QED
      BY <1>1, <1>3, <1>6a, <2>1, <3>1, XrayWhole
  <2>2. CASE CoreOf(client) = "SingBox"
    <3>1. document = SingBoxDocument(us, client, enhanced)
      BY <2>2 DEF Document
    <3>. HIDE DEF document
    <3>. QED
      BY <1>1, <1>3, <2>2, <3>1, SingBoxWhole
  <2>3. CASE CoreOf(client) = "Mihomo"
    <3>1. document = MihomoDocument(us, client, enhanced)
      BY <2>3 DEF Document
    <3>. HIDE DEF document
    <3>. QED
      BY <1>1, <1>3, <1>6b, <2>3, <3>1, MihomoWhole
  <2>. QED
    BY <1>1, <2>1, <2>2, <2>3
<1>8. U \in Nat
  BY <1>3
<1>. HIDE DEF document, U
<1>. QED
  BY <1>2, <1>7, <1>8

-----------------------------------------------------------------------------
(* The theorems of the editor.                                             *)

\* An option the page does not block never adds a finding that blocks the node.
THEOREM ChoicesAreHarmless == EditorSpec => []ChoiceNeverBreaks
<1>1. EditorTypeOK => ChoiceNeverBreaks
  BY ChoiceHarmless
<1>. QED
  BY <1>1, EditorTypeCorrect, PTL

\* Whatever blocks a node, one edit the page allows takes something of it away.
THEOREM RepairsExist == EditorSpec => []CanBeRepaired
<1>1. EditorTypeOK => CanBeRepaired
  BY RepairThere
<1>. QED
  BY <1>1, EditorTypeCorrect, PTL

\* A client the matrix calls exportable gets its link and its subscription.
THEOREM VerdictsHold == EditorSpec => []VerdictHolds
<1>1. EditorTypeOK => VerdictHolds
  BY VerdictHeld
<1>. QED
  BY <1>1, EditorTypeCorrect, PTL

\* Whichever core dials a connection over TLS presents the one name the node gives; of
\* Shadowsocks, if that is its host.
THEOREM NamesMatch == EditorSpec => []SameNameEverywhere
<1>1. EditorTypeOK => SameNameEverywhere
  BY NamesAgree
<1>. QED
  BY <1>1, EditorTypeCorrect, PTL

\* No two outbounds of a document share a tag, and none has a reserved one.
THEOREM TagsUnique == EditorSpec => []DocumentTagsUnique
<1>1. EditorTypeOK => DocumentTagsUnique
  BY TagsDistinct
<1>. QED
  BY <1>1, EditorTypeCorrect, PTL

\* A bundle holds every connection it counts, unless white space alone keeps two tags, or a
\* tag and a reserved name, apart.
THEOREM BundlesWhole == EditorSpec => []IncludedIsEmitted
<1>1. EditorTypeOK => IncludedIsEmitted
  BY BundleWhole
<1>. QED
  BY <1>1, EditorTypeCorrect, PTL
=============================================================================
