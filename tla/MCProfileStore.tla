--------------------------- MODULE MCProfileStore ---------------------------
(* TLC instances of Catalog and ProfileStore: a router and one member,     *)
(* which arrive alone, together, from the catalog, or exported from the    *)
(* store.                                                                  *)
EXTENDS Catalog, TLC

CONSTANTS router, member, gui, cli

Alone == router :> 2
Together == router :> 1 @@ member :> 2
Arriving == {Alone, Together}
Offers == {Together}
=============================================================================
