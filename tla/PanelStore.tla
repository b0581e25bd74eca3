----------------------------- MODULE PanelStore -----------------------------
(***************************************************************************)
(* The settings document and the panel tabs that edit it: load, state and  *)
(* save of src/src/panel/serve.rs over the rules of api.rs and store.rs.   *)
(*                                                                         *)
(* The document lives in a key-value store without transactions: a save    *)
(* reads it, decides, and writes it, and any other request runs between    *)
(* the read and the write; a read may fail, and a save may store no nodes. *)
(* What a document holds is abstracted to whether it has nodes; id tells   *)
(* documents apart.                                                        *)
(***************************************************************************)
EXTENDS Integers, FiniteSets

CONSTANTS Tabs,
          OldClients,  \* the tabs that send no expected_rev
          RevSpace,    \* 2^32: rev is a u32
          Initial,     \* documents the store may hold at first
          MaxPuts      \* model bound on successful writes

NoDoc == [id |-> 0, version |-> 0, nodes |-> FALSE, rev |-> 0]

VERSION == 1

Doc == [id : Nat, version : Nat, nodes : BOOLEAN, rev : 0..(RevSpace - 1)]

ASSUME StoreAssumption ==
    /\ OldClients \subseteq Tabs
    /\ RevSpace \in Nat \ {0} /\ MaxPuts \in Nat
    /\ Initial \subseteq Doc /\ \A x \in Initial : x.id = 0

VARIABLES kv,   \* the stored document
          tab,  \* the tabs
          puts  \* successful writes so far; document n is the n-th written

storeVars == <<kv, tab, puts>>

(***************************************************************************)
(* What load makes of a document: itself if it can be read and has nodes,  *)
(* else the settings derived from the deployment, with revision 0.  base   *)
(* is the document that was shown: 0 for the first, or for what stands in  *)
(* for it, Derived for settings that stand in for a later one.             *)
(***************************************************************************)
Derived == -1

Readable(x) == x.version <= VERSION

ServedAsStored(x) == Readable(x) /\ x.nodes

Shown(x) ==
    IF ServedAsStored(x)
    THEN [rev |-> x.rev, base |-> x.id]
    ELSE [rev |-> 0, base |-> IF x.id = 0 THEN 0 ELSE Derived]

\* A read that fails is taken for an empty store.
Failed == [NoDoc EXCEPT !.id = Derived]

Reads == {kv, Failed}

\* mutant: a client that sends an expectation is never refused
BugIgnoresExpectation(t, stored) == TRUE

\* resolve_save_rev, the decision and the revision.
MayReplace(t, stored) == t \in OldClients \/ tab[t].rev = stored

\* mutant: the revision stops at the largest instead of wrapping
BugSaturates(stored) == IF stored + 1 = RevSpace THEN stored ELSE stored + 1

NextRev(stored) == (stored + 1) % RevSpace

(***************************************************************************)
(* A page: the revision it was shown, and the document that was (base);    *)
(* counted, a history: every write since then advanced the revision that a *)
(* page is shown by one.  Of a save under way: the document it was decided *)
(* on (compared), and the revision it is about to write.                   *)
(***************************************************************************)
Tab == [pc : {"new", "open", "refused", "putting"}, rev : 0..(RevSpace - 1),
        base : Derived..MaxPuts, counted : BOOLEAN,
        compared : Derived..MaxPuts, new_rev : 0..(RevSpace - 1)]

StoreTypeOK ==
    /\ kv \in Doc
    /\ puts \in 0..MaxPuts
    /\ tab \in [Tabs -> Tab]

StoreInit ==
    /\ kv \in Initial
    /\ tab = [t \in Tabs |-> [pc |-> "new", rev |-> 0, base |-> 0, counted |-> TRUE,
                              compared |-> 0, new_rev |-> 0]]
    /\ puts = 0

\* boot: GET api/state, when the page opens or is reloaded, and after a save.
Open(t) ==
    /\ tab[t].pc # "putting"
    /\ \E x \in Reads :
          tab' = [tab EXCEPT ![t] = [@ EXCEPT !.pc = "open", !.rev = Shown(x).rev,
                                              !.base = Shown(x).base, !.counted = TRUE]]
    /\ UNCHANGED <<kv, puts>>

\* PUT api/nodes up to the write: the draft may replace what was read.
Save(t) ==
    /\ tab[t].pc \in {"open", "refused"}
    /\ \E x \in Reads :
          /\ MayReplace(t, Shown(x).rev)
          /\ tab' = [tab EXCEPT ![t] = [@ EXCEPT !.pc = "putting",
                                                 !.compared = Shown(x).base,
                                                 !.new_rev = NextRev(Shown(x).rev)]]
    /\ UNCHANGED <<kv, puts>>

\* The conflict message; the tab keeps its draft and its revision.
Refuse(t, x) ==
    /\ tab[t].pc \in {"open", "refused"} /\ ~MayReplace(t, Shown(x).rev)
    /\ tab' = [tab EXCEPT ![t] = [@ EXCEPT !.pc = "refused"]]
    /\ UNCHANGED <<kv, puts>>

\* A page whose save is over, the request's own data gone.
Back(page) == [page EXCEPT !.pc = "open", !.compared = 0, !.new_rev = 0]

\* The write succeeds.  An answer that arrives makes the page boot; if it is
\* lost, the page keeps what it was shown and may save again.
Put(t) ==
    /\ tab[t].pc = "putting" /\ puts < MaxPuts
    /\ puts' = puts + 1
    /\ \E n \in BOOLEAN :
          kv' = [id |-> puts', version |-> VERSION, nodes |-> n, rev |-> tab[t].new_rev]
    /\ LET counts == Shown(kv').rev = NextRev(Shown(kv).rev)
           after(u) == [tab[u] EXCEPT !.counted = @ /\ counts]
       IN tab' = [u \in Tabs |-> IF u = t THEN Back(after(u)) ELSE after(u)]

\* The write fails, or is never made: the tab is told so, or hears nothing.
PutFails(t) ==
    /\ tab[t].pc = "putting"
    /\ tab' = [tab EXCEPT ![t] = Back(@)]
    /\ UNCHANGED <<kv, puts>>

StoreNext ==
    \E t \in Tabs :
       Open(t) \/ Save(t) \/ (\E x \in Reads : Refuse(t, x)) \/ Put(t) \/ PutFails(t)

StoreSpec == StoreInit /\ [][StoreNext]_storeVars
-----------------------------------------------------------------------------
(***************************************************************************)
(* When a revision identifies a document for tab t: it was shown one, not  *)
(* settings that stand in for it; every write since advanced the revision  *)
(* a page is shown by one (the save was decided on the document that it    *)
(* replaced, and neither document is shown as if there were none); and the *)
(* revision has not come full circle since.                                *)
(***************************************************************************)
RevsCount(t) ==
    /\ tab[t].base # Derived
    /\ tab[t].counted
    /\ kv.id < tab[t].base + RevSpace

(***************************************************************************)
(* The fact optimistic concurrency rests on: a tab that holds the revision *)
(* of the stored document has been shown that document, as long as         *)
(* revisions count the writes for it.                                      *)
(***************************************************************************)
RevIdentifiesDoc ==
    \A t \in Tabs :
       tab[t].pc # "new" /\ RevsCount(t) /\ tab[t].rev = Shown(kv).rev
          => tab[t].base = kv.id

(***************************************************************************)
(* serve.rs: when another tab saved first, "their edit wins and this one   *)
(* is refused with instructions rather than silently overwriting it".  The *)
(* code does not always keep this: it compares and writes in two requests. *)
(* What it keeps is that a save that says what it expects replaces a       *)
(* document its tab was not shown in two cases only: another write, or the *)
(* failure of its own read, came between the comparison and the write, or  *)
(* revisions no longer count the writes for the tab.                       *)
(***************************************************************************)
NoSilentOverwrite ==
    [][\A t \in Tabs \ OldClients :
          Put(t) /\ RevsCount(t) /\ tab[t].compared = kv.id => kv.id = tab[t].base]_storeVars

(***************************************************************************)
(* serve.rs: "A mismatch means another tab or session saved first".  A     *)
(* save that is compared with the stored document is refused only if its   *)
(* tab was shown another one.                                              *)
(***************************************************************************)
RefusedOnlyWhenChanged ==
    [][\A t \in Tabs : Refuse(t, kv) => kv.id # tab[t].base]_storeVars
=============================================================================
