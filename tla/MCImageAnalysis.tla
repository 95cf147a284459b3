-------------------------- MODULE MCImageAnalysis --------------------------
(* The TLC instance of BundleRouting: the router's lobby and arena tie     *)
(* when hall and door both match, and a caller may prefer either; the      *)
(* vault wants two samples, which one picture never gives.  Popup and      *)
(* prize read the same anchors and own the claim target both, so that the  *)
(* prize narrowly misses where the popup shows.  The manifests route by    *)
(* priority, by specificity and by order, with and without a fallback, and *)
(* one pins the router itself at a revision it has not.                    *)
EXTENDS BundleRouting

CONSTANTS lobby, arena, vault, popup, prize, hall, door, glow, coin, tag, router, deep, wide
MCLayers == {lobby, arena, vault, popup, prize}
MCScenes == {lobby, arena, vault}

MCMinimum == [l \in MCLayers |-> CASE l = prize -> 6 [] l = vault -> 1 [] OTHER -> 4]
MCMargin == [s \in MCScenes |-> IF s = lobby THEN 2 ELSE 0]
MCRequired == [l \in MCLayers |-> IF l = vault THEN 2 ELSE 1]
MCPriority == [l \in MCLayers |-> IF l = prize THEN 1 ELSE 0]
MCNameRank ==
  [l \in MCLayers |->
     CASE l = lobby -> 1 [] l = arena -> 2 [] l = vault -> 3 [] l = popup -> 4 [] l = prize -> 5]
MCTransitions == [s \in MCScenes |-> IF s = vault THEN <<arena, lobby>> ELSE <<>>]
MCHinted == [s \in MCScenes |-> IF s = vault THEN {arena, lobby} ELSE {}]
MCTargets == [o \in {popup, prize} |-> IF o = popup THEN {"claim", "close"} ELSE {"claim"}]

MCWeight ==
  [l \in MCLayers |-> [a \in {hall, door, glow} |->
     CASE l \in {lobby, vault} -> IF a = hall THEN 3 ELSE 0
       [] l = arena -> IF a = hall THEN 2 ELSE IF a = door THEN 1 ELSE 0
       [] OTHER -> IF a = glow THEN 2 ELSE IF a = door THEN 1 ELSE 0]]
MCRequireAll == [l \in MCLayers |-> l = prize]
MCContents == [l \in MCLayers |-> CASE l = lobby -> {coin} [] l = popup -> {tag} [] OTHER -> {}]
MCRequiredOf == [l \in MCLayers |-> IF l = popup THEN {tag} ELSE {}]
MCUses == [l \in MCLayers |-> CASE l = lobby -> {coin} [] l = popup -> {tag, glow} [] OTHER -> {}]
MCOwner == [t \in {"enter", "close", "claim"} |->
  CASE t = "enter" -> lobby [] t = "close" -> popup [] t = "claim" -> prize]
MCVisibleBy == [t \in {"enter", "close", "claim"} |->
  CASE t = "enter" -> coin [] t = "close" -> glow [] t = "claim" -> Nothing]
MCPlace == [e \in {coin, tag} |-> IF e = coin THEN 1 ELSE 2]

MCPictures ==
  {p \in [{hall, door, glow, coin, tag} -> {"match", "faint", "miss", "unknown"}] :
     /\ p[hall] \in {"match", "miss"}
     /\ p[glow] \in {"match", "miss"}
     /\ p[coin] \in {"match", "miss", "unknown"}
     /\ p[tag] \in {"match", "unknown"}}

Context(expected, previous, usable) ==
  [expected |-> expected, previous |-> previous, usable |-> usable]
MCContexts ==
  {Context(<<>>, Nothing, FALSE), Context(<<arena>>, lobby, TRUE),
   Context(<<vault>>, vault, TRUE), Context(<<>>, arena, FALSE)}
MCPreferences == {Ranking(c) : c \in MCContexts}

Member(profile, pin, scenes, overlays, priority) ==
  [profile |-> profile, pin |-> pin, scenes |-> scenes, overlays |-> overlays,
   priority |-> priority, fallback |-> scenes \cup overlays = {}]
MCManifests ==
  {<<Member(deep, 1, {lobby}, {}, 0), Member(wide, 1, {lobby, arena}, {}, 0),
     Member(router, 1, {}, {popup}, 0)>>,
   <<Member(wide, 1, {}, {}, 0), Member(deep, 2, {}, {popup, prize}, 0),
     Member(router, 1, {arena}, {popup}, 0)>>,
   <<Member(deep, 1, {lobby}, {popup}, 0), Member(router, 2, {lobby, arena}, {}, 1)>>}
=============================================================================
