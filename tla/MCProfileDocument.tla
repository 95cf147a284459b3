------------------------- MODULE MCProfileDocument --------------------------
(* TLC instances of ProfileDocument. *)
EXTENDS ProfileDocument

Target(id, visibility) == [id |-> id, visibility |-> visibility]

(* Two scenes that hint at each other, an overlay, observations derived in  *)
(* two stages, a composed rule, aliases, as many globals as there may be    *)
(* and an unused element.                                                   *)
Hud ==
  [elements |-> {1, 2, 3}, enabled |-> {1, 2},
   derived |-> {[id |-> 4, inputs |-> <<1, 2>>], [id |-> 5, inputs |-> <<4>>]},
   aliases |-> {1, 3}, globals |-> {2, 4, 5},
   rules |-> {[id |-> 6, on |-> 5, composed |-> FALSE, conditions |-> <<>>],
              [id |-> 7, on |-> 2, composed |-> TRUE, conditions |-> <<1, 4>>]},
   layers |->
     {[id |-> 8, scene |-> TRUE, enabled |-> TRUE, all |-> TRUE, anchors |-> <<1, 2>>,
       members |-> {1, 2, 4}, required |-> {2}, targets |-> {Target(11, {2}), Target(12, Always)},
       hints |-> {9}],
      [id |-> 9, scene |-> TRUE, enabled |-> TRUE, all |-> FALSE, anchors |-> <<2>>,
       members |-> {1}, required |-> {1}, targets |-> {}, hints |-> {8}],
      [id |-> 10, scene |-> FALSE, enabled |-> TRUE, all |-> TRUE, anchors |-> <<1>>,
       members |-> {}, required |-> {}, targets |-> {Target(13, {1})}, hints |-> {}]}]

(* A profile that was just created, and one without a scene model. *)
Blank ==
  [elements |-> {}, enabled |-> {}, derived |-> {}, aliases |-> {}, globals |-> {}, rules |-> {},
   layers |-> {}]
Flat == [Blank EXCEPT !.elements = {1, 2}, !.enabled = {1, 2}]

Profiles == {Hud, Blank, Flat}
ASSUME ProfilesAreValid == \A d \in Profiles : Valid(d)
=============================================================================
