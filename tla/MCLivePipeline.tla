--------------------------- MODULE MCLivePipeline ---------------------------
(* The TLC instance of LivePipeline: two scenes, menu and a sticky fight   *)
(* whose hints name menu, and three overlays that share the claim target:  *)
(* the reward has priority over the popup and the banner, which tie.       *)
(* The menu's score grows with its two anchors, the fight needs both of    *)
(* its own; the timer and the ammo counter run during the fight only, the  *)
(* price with the popup and the reward.                                    *)
EXTENDS LivePipeline

CONSTANTS menu, fight, popup, reward, banner, title, icon, bar, badge, timer, ammo, price
MCLayers == {menu, fight, popup, reward, banner}
MCAnchors == {title, icon, bar, badge}

MCMinimum == [l \in MCLayers |-> IF l = reward THEN 4 ELSE 2]
MCMargin == [s \in {menu, fight} |-> IF s = menu THEN 0 ELSE 2]
MCRequired == [l \in MCLayers |-> IF l = fight THEN 2 ELSE 1]
MCWindowSize == [l \in MCLayers |-> IF l = fight THEN 3 ELSE 1]
MCPriority == [l \in MCLayers |-> IF l \in {fight, reward} THEN 1 ELSE 0]
MCNameRank ==
  [l \in MCLayers |->
     CASE l = menu -> 1 [] l = fight -> 2 [] l = popup -> 3 [] l = reward -> 4
       [] l = banner -> 5]
MCHinted == [s \in {menu, fight} |-> IF s = fight THEN {menu} ELSE {}]
MCTargets ==
  [o \in {popup, reward, banner} |->
     IF o = reward THEN {"claim", "next"} ELSE {"claim"}]

MCConditions ==
  [l \in MCLayers |->
     CASE l = menu -> {title, icon} [] l = fight -> {icon, bar}
       [] l = popup -> {badge} [] l = reward -> {title, badge}
       [] l = banner -> {bar}]
MCWeight ==
  [l \in MCLayers |-> [a \in MCAnchors |->
     IF a \notin MCConditions[l] THEN 0 ELSE IF l \in {popup, banner} THEN 2 ELSE 1]]
MCRequireAll == [l \in MCLayers |-> l \in {fight, reward}]
MCUses ==
  [l \in MCLayers |->
     CASE l = menu -> {title} [] l = fight -> {timer, ammo, bar}
       [] l = banner -> {bar} [] OTHER -> {price}]
MCPlace == [e \in {timer, ammo, price} |-> CASE e = timer -> 1 [] e = ammo -> 2 [] e = price -> 3]

MCNoRanking == [s \in {menu, fight} |-> 9]
MCPreferences == {MCNoRanking}

(* The fight's bar can be faint, its icon unreadable; the rest is seen or not. *)
MCPictures ==
  {p \in [MCAnchors -> {"match", "faint", "miss", "unknown"}] :
     /\ p[title] \in {"match", "miss"}
     /\ p[icon] \in {"match", "miss", "unknown"}
     /\ p[bar] \in {"match", "faint", "miss"}
     /\ p[badge] \in {"match", "miss"}}
=============================================================================
