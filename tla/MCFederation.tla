---------------------------- MODULE MCFederation ----------------------------
(* A grandparent with one worker, which has nothing to offer to a parent of *)
(* its own, a parent and a child with two.  The parent may register at the  *)
(* child too, which closes a circle.                                        *)
EXTENDS Federation

CONSTANTS grand, parent, child

Q(op, d, peer) == [op |-> op, at |-> d, peer |-> peer]

MCDaemons == {grand, parent, child}
MCNum == [d \in MCDaemons |-> IF d = grand THEN 1 ELSE 2]
MCOffer == [d \in MCDaemons |-> IF d = grand THEN {} ELSE {"now", "prefix"}]
MCQuery == <<
  Q("register_parent", child, parent),
  Q("register_parent", parent, grand),
  Q("register_parent", parent, child),
  Q("unregister_parent", child, parent),
  Q("get", grand, Nobody),
  Q("idle", child, Nobody)>>
MCAsks == DOMAIN MCQuery
=============================================================================
