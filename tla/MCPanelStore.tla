---------------------------- MODULE MCPanelStore ----------------------------
(* Instances of PanelStore: a store that is empty at first, holds a        *)
(* document whose revision is about to wrap, one that was stored before    *)
(* there were revisions, or one of a newer version.                        *)
EXTENDS PanelStore, TLC

CONSTANTS t1, t2, t3

Late  == [id |-> 0, version |-> 1, nodes |-> TRUE, rev |-> RevSpace - 1]
Plain == [id |-> 0, version |-> 1, nodes |-> TRUE, rev |-> 0]
Newer == [id |-> 0, version |-> 2, nodes |-> TRUE, rev |-> 1]

AnyStart == {NoDoc, Late, Plain, Newer}

Symmetric == Permutations({t1, t2})
=============================================================================
