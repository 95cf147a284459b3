--------------------------- MODULE AnalysisProofs ---------------------------
(***************************************************************************)
(* Proofs about the analysis of pictures: the scene resolver, the live     *)
(* pipeline (LiveSpec) and the one-shot requests (Spec of BundleRouting)   *)
(* that run it.                                                            *)
(*                                                                         *)
(* The order of candidates is total and strict on every finite set of      *)
(* scenes, so that the first of them is what CHOOSE finds; a clear leader  *)
(* is that first, and no runner-up is close to it.  The lists of the       *)
(* pipeline are then followed set by set: what failed is counted once,     *)
(* what is constructed belongs to the last completed frame, and a context  *)
(* that counts as unchanged is the published one.  A request resolves its  *)
(* picture without history, to a winner that has its margin.               *)
(***************************************************************************)
EXTENDS LivePipeline, BundleRouting, FiniteSetTheorems, WellFoundedInduction, TLAPS

-----------------------------------------------------------------------------
(* The order of candidates *)

Reading == [Layers -> Levels \cup {Unknown}]

(* RanksBefore compares five keys, the first that differs decides. *)
LEMMA FirstDifferenceDecides ==
  ASSUME NEW keys, DOMAIN keys = {1, 2, 3, 4, 5}
  PROVE  LET Less(i) == keys[i][1] < keys[i][2]
             Same(i) == keys[i][1] = keys[i][2]
         IN (\E i \in DOMAIN keys : Less(i) /\ \A j \in 1 .. i - 1 : Same(j))
            <=> \/ Less(1)
                \/ Same(1) /\ Less(2)
                \/ Same(1) /\ Same(2) /\ Less(3)
                \/ Same(1) /\ Same(2) /\ Same(3) /\ Less(4)
                \/ Same(1) /\ Same(2) /\ Same(3) /\ Same(4) /\ Less(5)
<1> DEFINE Less(i) == keys[i][1] < keys[i][2]
           Same(i) == keys[i][1] = keys[i][2]
           Wins(i) == Less(i) /\ \A j \in 1 .. i - 1 : Same(j)
<1> HIDE DEF Less, Same
<1>1. /\ 1 .. 1 - 1 = {} /\ 1 .. 2 - 1 = {1} /\ 1 .. 3 - 1 = {1, 2}
      /\ 1 .. 4 - 1 = {1, 2, 3} /\ 1 .. 5 - 1 = {1, 2, 3, 4}
  OBVIOUS
<1>2. /\ Wins(1) <=> Less(1)
      /\ Wins(2) <=> Same(1) /\ Less(2)
      /\ Wins(3) <=> Same(1) /\ Same(2) /\ Less(3)
      /\ Wins(4) <=> Same(1) /\ Same(2) /\ Same(3) /\ Less(4)
      /\ Wins(5) <=> Same(1) /\ Same(2) /\ Same(3) /\ Same(4) /\ Less(5)
  BY <1>1
<1>3. (\E i \in DOMAIN keys : Wins(i)) <=> Wins(1) \/ Wins(2) \/ Wins(3) \/ Wins(4) \/ Wins(5)
  <2> HIDE DEF Wins
  <2> QED  OBVIOUS
<1> QED  BY <1>2, <1>3, Zenon DEF Less, Same

Hint(l) == IF activeScene = Nothing THEN 1 ELSE IF l \in Hinted[activeScene] THEN 0 ELSE 1

LEMMA ConfidenceIsNatural ==
  ASSUME NEW scores \in Reading, NEW l \in Layers
  PROVE  Confidence(l, scores) \in Nat
  BY LevelAssumption DEF Reading, Confidence

LEMMA KeysAreCompared ==
  ASSUME NEW scores \in Reading, NEW preferred \in Preferences,
         NEW l \in Scenes, NEW m \in Scenes
  PROVE  RanksBefore(l, m, scores, preferred)
         <=> \/ Confidence(m, scores) < Confidence(l, scores)
             \/ /\ Confidence(m, scores) = Confidence(l, scores)
                /\ \/ preferred[l] < preferred[m]
                   \/ /\ preferred[l] = preferred[m]
                      /\ \/ Hint(l) < Hint(m)
                         \/ /\ Hint(l) = Hint(m)
                            /\ \/ Priority[m] < Priority[l]
                               \/ /\ Priority[m] = Priority[l]
                                  /\ NameRank[l] < NameRank[m]
<1> DEFINE hinted == IF activeScene = Nothing THEN {} ELSE Hinted[activeScene]
           hl == IF l \in hinted THEN 0 ELSE 1
           hm == IF m \in hinted THEN 0 ELSE 1
<1>1. hl = Hint(l) /\ hm = Hint(m)
  BY Zenon DEF Hint
<1> DEFINE keys == << <<Confidence(m, scores), Confidence(l, scores)>>,
                      <<preferred[l], preferred[m]>>,
                      <<hl, hm>>,
                      <<Priority[m], Priority[l]>>,
                      <<NameRank[l], NameRank[m]>> >>
           Wins == \E i \in DOMAIN keys :
                     /\ keys[i][1] < keys[i][2]
                     /\ \A j \in 1 .. i - 1 : keys[j][1] = keys[j][2]
<1>2. RanksBefore(l, m, scores, preferred) <=> Wins
  BY Zenon DEF RanksBefore
<1> HIDE DEF hl, hm
<1>3. /\ DOMAIN keys = {1, 2, 3, 4, 5}
      /\ keys[1][1] = Confidence(m, scores) /\ keys[1][2] = Confidence(l, scores)
      /\ keys[2][1] = preferred[l] /\ keys[2][2] = preferred[m]
      /\ keys[3][1] = hl /\ keys[3][2] = hm
      /\ keys[4][1] = Priority[m] /\ keys[4][2] = Priority[l]
      /\ keys[5][1] = NameRank[l] /\ keys[5][2] = NameRank[m]
  OBVIOUS
<1> HIDE DEF keys
<1> DEFINE Less(i) == keys[i][1] < keys[i][2]
           Same(i) == keys[i][1] = keys[i][2]
<1>4. Wins <=> \/ Less(1)
               \/ Same(1) /\ Less(2)
               \/ Same(1) /\ Same(2) /\ Less(3)
               \/ Same(1) /\ Same(2) /\ Same(3) /\ Less(4)
               \/ Same(1) /\ Same(2) /\ Same(3) /\ Same(4) /\ Less(5)
  BY <1>3, FirstDifferenceDecides, Zenon
<1> HIDE DEF Wins
<1> QED  BY <1>1, <1>2, <1>3, <1>4

(* Any two scenes are ranked, and never both ways: those of one name are   *)
(* ranked by their place in the profile.                                   *)
LEMMA RanksAreAnOrder ==
  ASSUME NEW scores \in Reading, NEW preferred \in Preferences
  PROVE  /\ \A l \in Scenes : ~RanksBefore(l, l, scores, preferred)
         /\ \A l, m \in Scenes :
              l # m => \/ RanksBefore(l, m, scores, preferred)
                       \/ RanksBefore(m, l, scores, preferred)
         /\ \A l, m, n \in Scenes :
              /\ RanksBefore(l, m, scores, preferred)
              /\ RanksBefore(m, n, scores, preferred)
              => RanksBefore(l, n, scores, preferred)
<1>1. \A l \in Scenes :
        /\ Confidence(l, scores) \in Int
        /\ preferred[l] \in Int
        /\ Hint(l) \in Int
        /\ Priority[l] \in Int
        /\ NameRank[l] \in Int
  BY ConfidenceIsNatural, ConfigurationAssumption DEF Layers, Hint
<1>2. \A l \in Scenes : ~RanksBefore(l, l, scores, preferred)
  BY <1>1, KeysAreCompared
<1>3. ASSUME NEW l \in Scenes, NEW m \in Scenes, l # m
      PROVE  RanksBefore(l, m, scores, preferred) \/ RanksBefore(m, l, scores, preferred)
  <2>1. NameRank[l] # NameRank[m]
    BY <1>3, ConfigurationAssumption DEF Layers
  <2> QED  BY <1>1, <2>1, KeysAreCompared
<1>4. ASSUME NEW l \in Scenes, NEW m \in Scenes, NEW n \in Scenes,
             RanksBefore(l, m, scores, preferred), RanksBefore(m, n, scores, preferred)
      PROVE  RanksBefore(l, n, scores, preferred)
  BY <1>1, <1>4, KeysAreCompared
<1> QED  BY <1>2, <1>3, <1>4

(* Among finitely many scenes one ranks before all others: one that no     *)
(* smaller set of scenes ranks before.                                     *)
LEMMA SomeSceneIsFirst ==
  ASSUME NEW scores \in Reading, NEW preferred \in Preferences,
         NEW T, T \subseteq Scenes, T # {}
  PROVE  \E s \in T : \A o \in T \ {s} : RanksBefore(s, o, scores, preferred)
<1> DEFINE Better(s) == {o \in Scenes : RanksBefore(o, s, scores, preferred)}
           Sets == {Better(s) : s \in T}
<1>1. IsFiniteSet(Scenes)
  BY LayerAssumption, FS_Subset DEF Layers
<1>2. Sets \subseteq FiniteSubsetsOf(Scenes)
  <2>1. \A s \in T : Better(s) \in SUBSET Scenes
    OBVIOUS
  <2>2. \A U \in SUBSET Scenes : U \in FiniteSubsetsOf(Scenes)
    BY <1>1, FS_Subset DEF FiniteSubsetsOf
  <2> QED  BY <2>1, <2>2
<1>3. Sets # {}
  OBVIOUS
<1>4. PICK least \in Sets : \A U \in Sets : ~(<<U, least>> \in StrictSubsetOrdering(Scenes))
  <2> HIDE DEF Sets
  <2> QED  BY <1>2, <1>3, FS_StrictSubsetOrderingWellFounded, WFMin
<1>5. PICK s \in T : least = Better(s)
  OBVIOUS
<1>6. ASSUME NEW o \in T \ {s}, ~RanksBefore(s, o, scores, preferred)
      PROVE  FALSE
  <2>1. RanksBefore(o, s, scores, preferred)
    BY <1>6, RanksAreAnOrder
  <2>2. Better(o) \subseteq Better(s)
    BY <2>1, RanksAreAnOrder
  <2>3. o \in Better(s) /\ o \notin Better(o)
    BY <2>1, RanksAreAnOrder
  <2>4. <<Better(o), Better(s)>> \in StrictSubsetOrdering(Scenes)
    BY <2>2, <2>3 DEF StrictSubsetOrdering
  <2> QED  BY <1>4, <1>5, <2>4
<1> QED  BY <1>6

(* What FirstOf chooses is the first. *)
LEMMA FirstOfIsFirst ==
  ASSUME NEW scores \in Reading, NEW preferred \in Preferences,
         NEW T, T \subseteq Scenes, T # {}
  PROVE  /\ FirstOf(T, scores, preferred) \in T
         /\ \A o \in T \ {FirstOf(T, scores, preferred)} :
              RanksBefore(FirstOf(T, scores, preferred), o, scores, preferred)
<1>1. \E s \in T : \A o \in T \ {s} : RanksBefore(s, o, scores, preferred)
  BY SomeSceneIsFirst
<1> QED  BY <1>1, Zenon DEF FirstOf

-----------------------------------------------------------------------------
(* One sample *)

LEMMA LayersAreFinite ==
  /\ IsFiniteSet(Scenes)
  /\ IsFiniteSet(Overlays)
  BY LayerAssumption, FS_Subset DEF Layers

(* A history holds at most the window of its layer. *)
LEMMA HistoryIsBounded ==
  ASSUME NEW history \in Seq(BOOLEAN), NEW match \in BOOLEAN, NEW capacity \in Nat \ {0},
         Len(history) <= capacity
  PROVE  /\ PushBounded(history, match, capacity) \in Seq(BOOLEAN)
         /\ Len(PushBounded(history, match, capacity)) <= capacity
<1>1. CASE Len(history) < capacity
  BY <1>1 DEF PushBounded
<1>2. CASE ~(Len(history) < capacity)
  <2>1. history # <<>>
    BY <1>2
  <2>2. Tail(history) \in Seq(BOOLEAN) /\ Len(Tail(history)) = Len(history) - 1
    BY <2>1
  <2> QED  BY <1>2, <2>2 DEF PushBounded
<1> QED  BY <1>1, <1>2

LEMMA HistoriesAreBounded ==
  ASSUME ResolverTypeOK, NEW scores \in Reading
  PROVE  /\ Sampled(scores) \in [Layers -> Seq(BOOLEAN)]
         /\ \A l \in Layers : Len(Sampled(scores)[l]) <= WindowSize[l]
<1>1. ASSUME NEW l \in Layers
      PROVE  /\ Sampled(scores)[l] \in Seq(BOOLEAN)
             /\ Len(Sampled(scores)[l]) <= WindowSize[l]
  <2>1. Matched(l, scores) \in BOOLEAN
    BY DEF Matched
  <2>2. /\ evidence[l] \in Seq(BOOLEAN)
        /\ Len(evidence[l]) <= WindowSize[l]
        /\ WindowSize[l] \in Nat \ {0}
    BY ConfigurationAssumption DEF ResolverTypeOK
  <2>3. Sampled(scores)[l] = PushBounded(evidence[l], Matched(l, scores), WindowSize[l])
    BY DEF Sampled
  <2> QED  BY <2>1, <2>2, <2>3, HistoryIsBounded
<1>2. Sampled(scores) = [l \in Layers |-> Sampled(scores)[l]]
  BY DEF Sampled
<1> QED  BY <1>1, <1>2

(* The winner of a sample, and whether it was ambiguous. *)
Eligible(scores) == EligibleIn(Scenes, Sampled(scores))
Close(scores, preferred) == IsAmbiguous(Eligible(scores), scores, preferred)
Winner(scores, preferred) ==
  IF Eligible(scores) = {} THEN Nothing ELSE FirstOf(Eligible(scores), scores, preferred)

(* What one analyzed sample does. *)
LEMMA ResolveEffect ==
  ASSUME NEW scores, NEW preferred, Resolve(scores, preferred)
  PROVE  /\ evidence' = Sampled(scores)
         /\ score' = scores
         /\ activeScene' =
              IF Close(scores, preferred) THEN activeScene ELSE Winner(scores, preferred)
         /\ resolution' =
              [scene |-> IF activeScene' \in Eligible(scores) THEN activeScene' ELSE Nothing,
               ambiguous |-> Close(scores, preferred),
               overlays |-> Exposed(EligibleIn(Overlays, Sampled(scores)))]
  BY Zenon DEF Resolve, Eligible, Close, Winner, ActiveAfter

LEMMA ResolveKeepsTypes ==
  ASSUME ResolverTypeOK, NEW scores \in Reading, NEW preferred \in Preferences,
         Resolve(scores, preferred)
  PROVE  ResolverTypeOK'
<1>1. Eligible(scores) \subseteq Scenes
  BY DEF Eligible, EligibleIn
<1>2. Winner(scores, preferred) \in Scenes \cup {Nothing}
  BY <1>1, FirstOfIsFirst DEF Winner
<1>3. activeScene' \in Scenes \cup {Nothing}
  BY <1>2, ResolveEffect DEF ResolverTypeOK
<1>4. Close(scores, preferred) \in BOOLEAN
  BY DEF Close, IsAmbiguous
<1>5. Exposed(EligibleIn(Overlays, Sampled(scores))) \in SUBSET Overlays
  BY DEF Exposed, EligibleIn
<1>6. resolution' \in Resolution
  <2>1. (IF activeScene' \in Eligible(scores) THEN activeScene' ELSE Nothing)
          \in Scenes \cup {Nothing}
    BY <1>1
  <2> QED  BY <1>4, <1>5, <2>1, ResolveEffect DEF Resolution
<1>7. /\ evidence' \in [Layers -> Seq(BOOLEAN)]
      /\ \A l \in Layers : Len(evidence'[l]) <= WindowSize[l]
      /\ score' \in [Layers -> Levels \cup {Unknown}]
  BY HistoriesAreBounded, ResolveEffect DEF Reading
<1> QED  BY <1>3, <1>6, <1>7 DEF ResolverTypeOK

(* A scene that leads the others is the first, and its runner-up is not    *)
(* close, so that it wins whatever scene was active.                       *)
LEMMA LeaderWins ==
  ASSUME NEW scores \in Reading, NEW preferred \in Preferences,
         NEW s \in Eligible(scores),
         \A o \in Eligible(scores) \ {s} :
           /\ Confidence(s, scores) > Confidence(o, scores)
           /\ Confidence(s, scores) - Confidence(o, scores) >= Margin[s]
  PROVE  Winner(scores, preferred) = s /\ ~Close(scores, preferred)
<1> DEFINE best == FirstOf(Eligible(scores), scores, preferred)
           second == FirstOf(Eligible(scores) \ {best}, scores, preferred)
<1>1. Eligible(scores) \subseteq Scenes
  BY DEF Eligible, EligibleIn
<1>2. \A o \in Eligible(scores) : Confidence(o, scores) \in Nat
  BY <1>1, ConfidenceIsNatural DEF Layers
<1>3. best \in Eligible(scores) /\ \A o \in Eligible(scores) \ {best} :
                                     RanksBefore(best, o, scores, preferred)
  BY <1>1, FirstOfIsFirst
<1>4. best = s
  <2> HIDE DEF best
  <2>1. SUFFICES ASSUME best # s PROVE FALSE
    OBVIOUS
  <2>2. RanksBefore(best, s, scores, preferred)
    BY <1>3, <2>1
  <2>3. Confidence(s, scores) <= Confidence(best, scores)
    BY <1>1, <1>2, <1>3, <2>2, KeysAreCompared
  <2>4. Confidence(s, scores) > Confidence(best, scores)
    BY <1>3, <2>1
  <2> QED  BY <1>2, <1>3, <2>3, <2>4
<1>5. ASSUME Close(scores, preferred) PROVE FALSE
  <2>1. /\ Cardinality(Eligible(scores)) > 1
        /\ Confidence(best, scores) - Confidence(second, scores) < Margin[best]
    BY <1>5, Zenon DEF Close, IsAmbiguous
  <2>2. Eligible(scores) \ {best} # {}
    <3>1. SUFFICES ASSUME Eligible(scores) \ {best} = {} PROVE FALSE
      OBVIOUS
    <3>2. Eligible(scores) = {best}
      BY <1>3, <3>1
    <3>3. Cardinality(Eligible(scores)) = 1
      BY <3>2, FS_Singleton
    <3> QED  BY <2>1, <3>3
  <2>3. second \in Eligible(scores) \ {best}
    BY <1>1, <2>2, FirstOfIsFirst
  <2>4. Confidence(s, scores) - Confidence(second, scores) >= Margin[s]
    BY <1>4, <2>3
  <2>5. Margin[s] \in Nat
    BY <1>1, ConfigurationAssumption
  <2> HIDE DEF best, second
  <2> QED  BY <1>2, <1>4, <2>1, <2>3, <2>4, <2>5
<1>6. Winner(scores, preferred) = best
  BY DEF Winner
<1> QED  BY <1>4, <1>5, <1>6

LEMMA ResolveFindsTheLeader ==
  ASSUME NEW scores \in Reading, NEW preferred \in Preferences,
         Resolve(scores, preferred)
  PROVE  ClearLeaderIsResolved'
<1>1. SUFFICES ASSUME NEW s \in Scenes, Leads(s)'
               PROVE  resolution'.scene = s /\ ~resolution'.ambiguous
  BY DEF ClearLeaderIsResolved
<1>2. EligibleScenes' = Eligible(scores)
  <2>1. evidence' = Sampled(scores)
    BY ResolveEffect
  <2> QED  BY <2>1, Zenon DEF EligibleScenes, Eligible, EligibleIn
<1>3. /\ s \in Eligible(scores)
      /\ \A o \in Eligible(scores) \ {s} :
           /\ Confidence(s, scores) > Confidence(o, scores)
           /\ Confidence(s, scores) - Confidence(o, scores) >= Margin[s]
  BY <1>1, <1>2, ResolveEffect DEF Leads, Confidence
<1>4. Winner(scores, preferred) = s /\ ~Close(scores, preferred)
  BY <1>3, LeaderWins
<1>5. activeScene' = s
  BY <1>4, ResolveEffect
<1> QED  BY <1>3, <1>4, <1>5, ResolveEffect

LEMMA ExposedOverlaysTie ==
  ASSUME NEW scores, NEW preferred, Resolve(scores, preferred)
  PROVE  OnlyTiesShareTargets'
<1> DEFINE eligible == EligibleIn(Overlays, Sampled(scores))
<1>1. resolution'.overlays = Exposed(eligible)
  BY ResolveEffect
<1>2. eligible \subseteq Overlays
  BY DEF EligibleIn
<1> HIDE DEF eligible
<1>3. ASSUME NEW l \in Exposed(eligible), NEW m \in Exposed(eligible),
             Targets[l] \cap Targets[m] # {}
      PROVE  Priority[l] = Priority[m]
  <2>1. l \in eligible /\ m \in eligible
    BY DEF Exposed
  <2>2. Priority[l] <= Priority[m] /\ Priority[m] <= Priority[l]
    BY <1>3, <2>1 DEF Exposed
  <2>3. Priority[l] \in Int /\ Priority[m] \in Int
    BY <1>2, <2>1, ConfigurationAssumption DEF Layers
  <2> QED  BY <2>2, <2>3
<1> QED  BY <1>1, <1>3 DEF OnlyTiesShareTargets

-----------------------------------------------------------------------------
(* One frame *)

(* A finite set is not a proper part of one of its size. *)
LEMMA UnchangedIsPublished ==
  ASSUME NEW current \in Context, published \in Context, ~Changed(current)
  PROVE  current = published
<1>1. /\ current.scene = published.scene
      /\ Cardinality(current.overlays) = Cardinality(published.overlays)
      /\ current.overlays \subseteq published.overlays
  BY DEF Changed
<1>2. published.overlays \subseteq Overlays
  BY DEF Context
<1>3. IsFiniteSet(published.overlays)
  BY <1>2, LayersAreFinite, FS_Subset
<1>4. current.overlays = published.overlays
  BY <1>1, <1>3, FS_Subset
<1> QED  BY <1>1, <1>4 DEF Context

LEMMA ReadingsAreScores ==
  ASSUME NEW scores \in Readings
  PROVE  scores \in Reading
<1>1. PICK frame \in Frames : scores = Scores(frame)
  BY DEF Readings
<1> QED  BY <1>1, PipelineAssumption DEF Reading

(* What was analyzed, and what became of the frame. *)
LEMMA FrameCases ==
  ASSUME NEW scores, Analyze(scores)
  PROVE  LET active == ActiveElements(resolution')
         IN /\ Resolve(scores, NoRanking)
            /\ \/ Complete(active)
               \/ \E element \in Missing(active) \cap Fragile : GiveUp(active, element)
  BY Zenon DEF Analyze

LEMMA FrameKeepsTypes ==
  ASSUME PipelineTypeOK, NEW scores \in Readings, Analyze(scores)
  PROVE  PipelineTypeOK'
<1> DEFINE active == ActiveElements(resolution')
<1>1. ResolverTypeOK'
  BY ReadingsAreScores, FrameCases, ResolveKeepsTypes, PipelineAssumption
     DEF PipelineTypeOK
<1>2. ContextOf(resolution') \in Context
  BY <1>1 DEF ResolverTypeOK, Resolution, ContextOf, Context
<1>3. Wanted(active) \subseteq Contextual
  BY DEF Wanted
<1>4. Missing(active) \subseteq Wanted(active) /\ Missing(active) \cap broken = {}
  BY DEF Missing
<1>5. CASE Complete(active)
  <2> HIDE DEF active
  <2>1. /\ constructed' = (constructed \ Released(active)) \cup Missing(active)
        /\ running' = Wanted(active)
        /\ broken' = broken /\ lost' = lost
        /\ published' = ContextOf(resolution')
    BY <1>5 DEF Complete, Announce
  <2>2. logged' \in Context /\ missed' \in BOOLEAN
    BY <1>2, <1>5 DEF Complete, Announce, PipelineTypeOK
  <2> QED  BY <1>1, <1>2, <1>3, <1>4, <2>1, <2>2 DEF PipelineTypeOK
<1>6. CASE \E element \in Missing(active) \cap Fragile : GiveUp(active, element)
  <2> HIDE DEF active
  <2>1. PICK element \in Missing(active) \cap Fragile : GiveUp(active, element)
    BY <1>6
  <2>2. /\ constructed' =
             (constructed \ Released(active)) \cup Before(element, Missing(active))
        /\ broken' = broken \cup {element}
        /\ lost' = lost + 1
        /\ UNCHANGED <<running, published, logged, missed>>
    BY <2>1 DEF GiveUp, FailFor
  <2>3. Before(element, Missing(active)) \subseteq Missing(active) \ {element}
    <3>1. Place[element] \in Nat
      BY <1>3, <1>4, ElementAssumption
    <3> QED  BY <3>1 DEF Before
  <2>4. element \notin constructed \ Released(active)
    BY DEF Missing
  <2> QED  BY <1>1, <1>3, <1>4, <2>2, <2>3, <2>4 DEF PipelineTypeOK
<1> QED  BY <1>5, <1>6, FrameCases

(* A context that changed is recorded, or the record is known to be        *)
(* missed; one that did not is the published one.                          *)
LEMMA FrameKeepsLog ==
  ASSUME PipelineTypeOK, LogTellsContext, NEW scores \in Readings, Analyze(scores)
  PROVE  LogTellsContext'
<1> DEFINE active == ActiveElements(resolution')
           current == ContextOf(resolution')
<1>1. current \in Context
  BY FrameKeepsTypes DEF PipelineTypeOK, ResolverTypeOK, Resolution, ContextOf, Context
<1>2. CASE Complete(active)
  <2> HIDE DEF active, current
  <2>1. published' = current
    BY <1>2 DEF Complete, Announce, current
  <2>2. CASE Changed(current)
    <3>1. PICK written \in BOOLEAN :
            /\ logged' = IF written THEN current ELSE logged
            /\ missed' = ~written
      BY <1>2, <2>2, Zenon DEF Complete, Announce, current
    <3> QED  BY <2>1, <3>1 DEF LogTellsContext
  <2>3. CASE ~Changed(current)
    <3>1. logged' = logged /\ missed' = missed
      BY <1>2, <2>3, Zenon DEF Complete, Announce, current
    <3>2. current = published
      BY <1>1, <2>3, UnchangedIsPublished DEF PipelineTypeOK
    <3> QED  BY <2>1, <3>1, <3>2 DEF LogTellsContext
  <2> QED  BY <2>2, <2>3
<1>3. CASE \E element \in Missing(active) \cap Fragile : GiveUp(active, element)
  <2>1. UNCHANGED <<published, logged, missed>>
    BY <1>3 DEF GiveUp
  <2> QED  BY <2>1 DEF LogTellsContext
<1> QED  BY <1>2, <1>3, FrameCases

(* Every lost frame left its element broken, once.  Until the first of     *)
(* them the detectors are those of the last completed frame, which ran     *)
(* for the layers its resolution made active.                              *)
DetectorInvariant ==
  /\ lost = Cardinality(broken)
  /\ lost = 0 => /\ constructed \subseteq running
                 /\ constructed \subseteq ActiveElements(resolution)

LEMMA FrameKeepsDetectors ==
  ASSUME PipelineTypeOK, DetectorInvariant, NEW scores \in Readings, Analyze(scores)
  PROVE  DetectorInvariant'
<1> DEFINE active == ActiveElements(resolution')
<1>1. IsFiniteSet(broken)
  BY PipelineAssumption, ElementAssumption, FS_Subset DEF PipelineTypeOK, Elements
<1>2. active = ActiveElements(resolution)'
  BY DEF ActiveElements, ActiveLayers
<1>3. CASE Complete(active)
  <2> HIDE DEF active
  <2>1. /\ constructed' = (constructed \ Released(active)) \cup Missing(active)
        /\ running' = Wanted(active)
        /\ broken' = broken /\ lost' = lost
    BY <1>3 DEF Complete
  <2>2. ASSUME lost = 0
        PROVE  constructed' \subseteq Wanted(active)
    <3>1. constructed \ Released(active) \subseteq active \cap Contextual
      BY <2>2 DEF DetectorInvariant, Released, PipelineTypeOK
    <3> QED  BY <2>1, <3>1 DEF Missing, Wanted
  <2>3. Wanted(active) \subseteq active
    BY DEF Wanted
  <2> QED  BY <1>2, <2>1, <2>2, <2>3 DEF DetectorInvariant
<1>4. CASE \E element \in Missing(active) \cap Fragile : GiveUp(active, element)
  <2> HIDE DEF active
  <2>1. PICK element \in Missing(active) \cap Fragile : GiveUp(active, element)
    BY <1>4
  <2>2. broken' = broken \cup {element} /\ lost' = lost + 1
    BY <2>1 DEF GiveUp, FailFor
  <2>3. element \notin broken
    BY DEF Missing
  <2>4. Cardinality(broken') = Cardinality(broken) + 1
    BY <1>1, <2>2, <2>3, FS_AddElement
  <2> QED  BY <2>2, <2>4 DEF DetectorInvariant, PipelineTypeOK
<1> QED  BY <1>3, <1>4, FrameCases

-----------------------------------------------------------------------------
(* Theorems about the live pipeline *)

LEMMA InitFacts ==
  ASSUME LiveInit
  PROVE  PipelineTypeOK /\ ClearLeaderIsResolved /\ OnlyTiesShareTargets /\ DetectorInvariant
         /\ LogTellsContext
<1>1. PipelineTypeOK
  <2>1. /\ <<>> \in Seq(BOOLEAN) /\ Len(<<>>) = 0
        /\ \A l \in Layers : WindowSize[l] \in Nat
    BY ConfigurationAssumption
  <2>2. ResolverTypeOK
    BY <2>1 DEF LiveInit, ResolverInit, ResolverTypeOK, Resolution
  <2>3. NoContext \in Context
    BY DEF NoContext, Context
  <2>4. /\ constructed = {} /\ broken = {} /\ running = {}
        /\ published = NoContext /\ logged = NoContext
        /\ missed = FALSE /\ lost = 0
    BY DEF LiveInit
  <2> QED  BY <2>2, <2>3, <2>4 DEF PipelineTypeOK
<1>2. ClearLeaderIsResolved
  <2>1. SUFFICES ASSUME NEW s \in Scenes, s \in EligibleScenes PROVE FALSE
    BY DEF ClearLeaderIsResolved, Leads
  <2>2. evidence[s] = <<>>
    BY DEF LiveInit, ResolverInit, Layers
  <2>3. {i \in DOMAIN evidence[s] : evidence[s][i]} = {}
    BY <2>2
  <2>4. Matches(evidence[s]) = 0
    BY <2>3, FS_EmptySet DEF Matches
  <2>5. Required[s] \in Nat \ {0}
    BY ConfigurationAssumption DEF Layers
  <2> QED  BY <2>1, <2>4, <2>5 DEF EligibleScenes, EligibleIn
<1>3. OnlyTiesShareTargets
  BY DEF LiveInit, ResolverInit, OnlyTiesShareTargets
<1>4. DetectorInvariant
  BY FS_EmptySet DEF LiveInit, DetectorInvariant
<1>5. LogTellsContext
  BY DEF LiveInit, LogTellsContext
<1> QED  BY <1>1, <1>2, <1>3, <1>4, <1>5

(* Types hold of every frame of the pipeline. *)
LEMMA TypesHold == LiveSpec => []PipelineTypeOK
<1>1. LiveInit => PipelineTypeOK
  BY InitFacts
<1>2. PipelineTypeOK /\ [LiveNext]_liveVars => PipelineTypeOK'
  <2>1. ASSUME PipelineTypeOK, NEW scores \in Readings, Analyze(scores)
        PROVE  PipelineTypeOK'
    BY <2>1, FrameKeepsTypes
  <2>2. ASSUME PipelineTypeOK, UNCHANGED liveVars
        PROVE  PipelineTypeOK'
    BY <2>2 DEF liveVars, resolverVars, pipelineVars, PipelineTypeOK, ResolverTypeOK
  <2> QED  BY <2>1, <2>2 DEF LiveNext
<1> QED  BY <1>1, <1>2, PTL DEF LiveSpec

(* Whatever scene was active and whatever the transition hints, a scene    *)
(* that clearly leads is the one resolved, and overlays exposed with a     *)
(* common target have one priority (SceneResolver::resolve_with_hints).    *)
THEOREM PipelineIsSound == LiveSpec => []PipelineInvariant
<1>1. LiveInit => ClearLeaderIsResolved /\ OnlyTiesShareTargets
  BY InitFacts
<1>2. ClearLeaderIsResolved /\ OnlyTiesShareTargets /\ [LiveNext]_liveVars
        => ClearLeaderIsResolved' /\ OnlyTiesShareTargets'
  <2>1. ASSUME NEW scores \in Readings, Analyze(scores)
        PROVE  ClearLeaderIsResolved' /\ OnlyTiesShareTargets'
    <3>1. Resolve(scores, NoRanking) /\ scores \in Reading
      BY <2>1, FrameCases, ReadingsAreScores
    <3> QED  BY <3>1, PipelineAssumption, ResolveFindsTheLeader, ExposedOverlaysTie
  <2>2. ASSUME ClearLeaderIsResolved, OnlyTiesShareTargets, UNCHANGED liveVars
        PROVE  ClearLeaderIsResolved' /\ OnlyTiesShareTargets'
    <3>1. resolution' = resolution /\ evidence' = evidence /\ score' = score
      BY <2>2 DEF liveVars, resolverVars
    <3>2. \A s \in Scenes : Leads(s)' <=> Leads(s)
      BY <3>1, Zenon DEF Leads, EligibleScenes, EligibleIn, Confidence
    <3> QED  BY <2>2, <3>1, <3>2 DEF ClearLeaderIsResolved, OnlyTiesShareTargets
  <2> QED  BY <2>1, <2>2 DEF LiveNext
<1> QED  BY <1>1, <1>2, TypesHold, PTL DEF LiveSpec, PipelineInvariant

(* A detector that cannot be constructed costs one frame and no more, and  *)
(* a resident one belongs to an active layer as long as none failed        *)
(* (LazyProcessor, ResidentPipeline::process).                             *)
THEOREM DetectorsFollow == LiveSpec => []DetectorsFollowLayers
<1>1. LiveInit => DetectorInvariant
  BY InitFacts
<1>2. PipelineTypeOK /\ DetectorInvariant /\ [LiveNext]_liveVars => DetectorInvariant'
  <2>1. ASSUME PipelineTypeOK, DetectorInvariant, NEW scores \in Readings, Analyze(scores)
        PROVE  DetectorInvariant'
    BY <2>1, FrameKeepsDetectors
  <2>2. ASSUME DetectorInvariant, UNCHANGED liveVars
        PROVE  DetectorInvariant'
    BY <2>2, Zenon
       DEF liveVars, resolverVars, pipelineVars, DetectorInvariant, ActiveElements, ActiveLayers
  <2> QED  BY <2>1, <2>2 DEF LiveNext
<1>3. PipelineTypeOK /\ DetectorInvariant => DetectorsFollowLayers
  <2>1. ASSUME PipelineTypeOK
        PROVE  Cardinality(broken) <= Cardinality(Fragile)
    <3>1. IsFiniteSet(Fragile)
      BY PipelineAssumption, ElementAssumption, FS_Subset DEF Elements
    <3> QED  BY <2>1, <3>1, FS_Subset DEF PipelineTypeOK
  <2> QED  BY <2>1 DEF DetectorInvariant, DetectorsFollowLayers, FailuresAreFinal,
                       ResidentsAreActive
<1> QED  BY <1>1, <1>2, <1>3, TypesHold, PTL DEF LiveSpec

(* Unless the last record was missed, the event log tells the published    *)
(* context: a change of overlays of the same number is noticed             *)
(* (context_changed of the live pipeline).                                 *)
THEOREM ContextIsLogged == LiveSpec => []LogTellsContext
<1>1. LiveInit => LogTellsContext
  BY InitFacts
<1>2. PipelineTypeOK /\ LogTellsContext /\ [LiveNext]_liveVars => LogTellsContext'
  <2>1. ASSUME PipelineTypeOK, LogTellsContext, NEW scores \in Readings, Analyze(scores)
        PROVE  LogTellsContext'
    BY <2>1, FrameKeepsLog
  <2>2. ASSUME LogTellsContext, UNCHANGED liveVars
        PROVE  LogTellsContext'
    BY <2>2 DEF liveVars, pipelineVars, LogTellsContext
  <2> QED  BY <2>1, <2>2 DEF LiveNext
<1> QED  BY <1>1, <1>2, TypesHold, PTL DEF LiveSpec

-----------------------------------------------------------------------------
(* The analysis of one picture *)

(* The winner is of greatest confidence, and of a sample that is not       *)
(* ambiguous it has its margin to every other eligible scene: the second   *)
(* is the closest of them.                                                 *)
LEMMA WinnerIsGreatest ==
  ASSUME NEW scores \in Reading, NEW preferred \in Preferences, Eligible(scores) # {}
  PROVE  /\ Winner(scores, preferred) \in Eligible(scores)
         /\ \A o \in Eligible(scores) :
              Confidence(o, scores) <= Confidence(Winner(scores, preferred), scores)
<1> DEFINE best == FirstOf(Eligible(scores), scores, preferred)
<1>1. Eligible(scores) \subseteq Scenes
  BY DEF Eligible, EligibleIn
<1>2. \A o \in Eligible(scores) : Confidence(o, scores) \in Nat
  BY <1>1, ConfidenceIsNatural DEF Layers
<1>3. best \in Eligible(scores) /\ \A o \in Eligible(scores) \ {best} :
                                     RanksBefore(best, o, scores, preferred)
  BY <1>1, FirstOfIsFirst
<1>4. Winner(scores, preferred) = best
  BY DEF Winner
<1> HIDE DEF best
<1>5. ASSUME NEW o \in Eligible(scores)
      PROVE  Confidence(o, scores) <= Confidence(best, scores)
  <2>1. CASE o = best
    BY <1>2, <2>1
  <2>2. CASE o # best
    BY <1>1, <1>2, <1>3, <2>2, KeysAreCompared
  <2> QED  BY <2>1, <2>2
<1> QED  BY <1>3, <1>4, <1>5

LEMMA WinnerKeepsItsMargin ==
  ASSUME NEW scores \in Reading, NEW preferred \in Preferences,
         ~Close(scores, preferred),
         NEW o \in Eligible(scores) \ {Winner(scores, preferred)}
  PROVE  Confidence(Winner(scores, preferred), scores) - Confidence(o, scores)
           >= Margin[Winner(scores, preferred)]
<1> DEFINE best == Winner(scores, preferred)
           rest == Eligible(scores) \ {best}
           second == FirstOf(rest, scores, preferred)
<1>1. Eligible(scores) \subseteq Scenes
  BY DEF Eligible, EligibleIn
<1>2. best \in Eligible(scores) /\ best = FirstOf(Eligible(scores), scores, preferred)
  <2>1. best \in Eligible(scores)
    BY WinnerIsGreatest
  <2>2. best = FirstOf(Eligible(scores), scores, preferred)
    BY DEF Winner
  <2> QED  BY <2>1, <2>2
<1>3. Cardinality(Eligible(scores)) > 1
  <2>1. IsFiniteSet(Eligible(scores))
    BY <1>1, LayersAreFinite, FS_Subset
  <2>2. {best, o} \subseteq Eligible(scores) /\ best # o
    BY <1>2
  <2>3. IsFiniteSet({best}) /\ Cardinality({best}) = 1
    BY FS_Singleton
  <2>4. Cardinality({best} \cup {o}) = 2
    <3> HIDE DEF best
    <3>1. o \notin {best}
      BY <2>2
    <3>2. Cardinality({best} \cup {o}) =
            IF o \in {best} THEN Cardinality({best}) ELSE Cardinality({best}) + 1
      BY <2>3, FS_AddElement, Zenon
    <3> QED  BY <2>3, <3>1, <3>2
  <2>5. {best} \cup {o} \in SUBSET Eligible(scores)
    BY <2>2
  <2>6. Cardinality({best} \cup {o}) <= Cardinality(Eligible(scores))
    BY <2>1, <2>5, FS_Subset
  <2>7. Cardinality(Eligible(scores)) \in Nat
    BY <2>1, FS_CardinalityType
  <2> QED  BY <2>4, <2>6, <2>7
<1>4. ~(Confidence(best, scores) - Confidence(second, scores) < Margin[best])
  BY <1>2, <1>3, Zenon DEF Close, IsAmbiguous
<1>5. /\ second \in rest
      /\ \A s \in rest \ {second} : RanksBefore(second, s, scores, preferred)
  BY <1>1, FirstOfIsFirst
<1>6. /\ o \in rest
      /\ rest \subseteq Scenes
      /\ best \in Scenes
  BY <1>1, <1>2
<1>7. /\ Confidence(best, scores) \in Nat
      /\ \A s \in rest : Confidence(s, scores) \in Nat
      /\ Margin[best] \in Nat
  BY <1>6, ConfidenceIsNatural, ConfigurationAssumption DEF Layers
<1> HIDE DEF best, rest, second
<1>8. Confidence(o, scores) <= Confidence(second, scores)
  <2>1. CASE o = second
    BY <1>6, <1>7, <2>1
  <2>2. CASE o # second
    BY <1>5, <1>6, <1>7, <2>2, KeysAreCompared
  <2> QED  BY <2>1, <2>2
<1>9. Confidence(best, scores) - Confidence(o, scores) >= Margin[best]
  BY <1>4, <1>5, <1>6, <1>7, <1>8
<1> QED  BY <1>9 DEF best

(* A resolver without history resolves its picture to the winner, or to    *)
(* nothing when the picture is ambiguous or nothing is eligible.           *)
LEMMA FreshResolution ==
  ASSUME NEW scores \in Reading, NEW preferred \in Preferences,
         activeScene = Nothing, Resolve(scores, preferred)
  PROVE  /\ resolution'.ambiguous = Close(scores, preferred)
         /\ resolution'.scene = Nothing => Eligible(scores) = {} \/ Close(scores, preferred)
         /\ resolution'.scene # Nothing
              => /\ ~Close(scores, preferred)
                 /\ Eligible(scores) # {}
                 /\ resolution'.scene = Winner(scores, preferred)
<1>1. Nothing \notin Eligible(scores)
  BY LayerAssumption DEF Layers, Eligible, EligibleIn
<1>2. /\ activeScene' = IF Close(scores, preferred) THEN Nothing
                        ELSE Winner(scores, preferred)
      /\ resolution' =
           [scene |-> IF activeScene' \in Eligible(scores) THEN activeScene' ELSE Nothing,
            ambiguous |-> Close(scores, preferred),
            overlays |-> Exposed(EligibleIn(Overlays, Sampled(scores)))]
  BY ResolveEffect
<1>3. Eligible(scores) # {} => Winner(scores, preferred) \in Eligible(scores)
  BY WinnerIsGreatest
<1> QED  BY <1>1, <1>2, <1>3

(* Preferences break ties and no more.                                     *)
LEMMA FreshResolutionIsSoft ==
  ASSUME NEW scores \in Reading, NEW preferred \in Preferences,
         activeScene = Nothing, Resolve(scores, preferred)
  PROVE  ContextIsSoft'
<1>1. EligibleIn(Scenes, evidence)' = Eligible(scores) /\ score' = scores
  <2>1. evidence' = Sampled(scores) /\ score' = scores
    BY ResolveEffect
  <2> QED  BY <2>1, Zenon DEF Eligible, EligibleIn
<1>2. CASE resolution'.scene = Nothing
  <2>1. ASSUME NEW s \in Eligible(scores), Leads(s)'
        PROVE  FALSE
    <3>1. \A o \in Eligible(scores) \ {s} :
            /\ Confidence(s, scores) > Confidence(o, scores)
            /\ Confidence(s, scores) - Confidence(o, scores) >= Margin[s]
      BY <1>1, <2>1 DEF Leads, EligibleScenes, Confidence
    <3>2. ~Close(scores, preferred)
      BY <3>1, LeaderWins
    <3> QED  BY <1>2, <3>2, FreshResolution
  <2> QED  BY <1>1, <1>2, <2>1 DEF ContextIsSoft
<1>3. CASE resolution'.scene # Nothing
  <2>1. \A s \in Eligible(scores) :
          Confidence(s, scores) <= Confidence(resolution'.scene, scores)
    BY <1>3, FreshResolution, WinnerIsGreatest
  <2> QED  BY <1>1, <1>3, <2>1 DEF ContextIsSoft, Confidence
<1> QED  BY <1>2, <1>3

(* The answer is called sufficient only where nothing says otherwise.      *)
LEMMA SufficientMeans ==
  ASSUME NEW fitting \in BOOLEAN, NEW resolved, resolved.ambiguous \in BOOLEAN,
         NEW uncertain, NEW missing,
         Decision(fitting, resolved, uncertain, missing) = "json_complete"
  PROVE  /\ fitting
         /\ ~resolved.ambiguous
         /\ Scenes # {} => resolved.scene # Nothing
         /\ ~missing
<1>1. CASE ~fitting
  BY <1>1 DEF Decision
<1>2. CASE fitting /\ resolved.ambiguous
  BY <1>2 DEF Decision
<1>3. CASE fitting /\ ~resolved.ambiguous /\ Scenes # {} /\ resolved.scene = Nothing
  BY <1>3 DEF Decision
<1>4. CASE fitting /\ ~resolved.ambiguous /\ ~(Scenes # {} /\ resolved.scene = Nothing)
  <2>1. Decision(fitting, resolved, uncertain, missing) =
          IF uncertain THEN "overlay_uncertain"
          ELSE IF missing THEN "required_elements_unresolved"
          ELSE "json_complete"
    BY <1>4 DEF Decision
  <2>2. ASSUME missing PROVE FALSE
    <3>1. CASE uncertain
      BY <2>1, <3>1
    <3>2. CASE ~uncertain
      BY <2>1, <2>2, <3>2
    <3> QED  BY <3>1, <3>2
  <2> QED  BY <1>4, <2>2
<1> QED  BY <1>1, <1>2, <1>3, <1>4

LEMMA DecisionIsAReason ==
  ASSUME NEW fitting, NEW resolved, NEW uncertain, NEW missing
  PROVE  Decision(fitting, resolved, uncertain, missing) \in Reasons
<1> DEFINE rest == IF uncertain THEN "overlay_uncertain"
                   ELSE IF missing THEN "required_elements_unresolved"
                   ELSE "json_complete"
           unknown == fitting /\ ~resolved.ambiguous /\ Scenes # {} /\ resolved.scene = Nothing
<1>1. rest \in Reasons
  BY DEF Reasons
<1> HIDE DEF rest
<1>2. CASE ~fitting
  BY <1>2 DEF Decision, Reasons
<1>3. CASE fitting /\ resolved.ambiguous
  BY <1>3 DEF Decision, Reasons
<1>4. CASE unknown
  BY <1>4 DEF Decision, Reasons
<1>5. CASE fitting /\ ~resolved.ambiguous /\ ~unknown
  <2>1. Decision(fitting, resolved, uncertain, missing) = rest
    BY <1>5 DEF Decision, rest
  <2> QED  BY <1>1, <2>1
<1> QED  BY <1>2, <1>3, <1>4, <1>5

(* What one analysis leaves: a reading of what ran, the targets of the     *)
(* active layers that are seen, and the decision.                          *)
LEMMA PictureEffect ==
  ASSUME NEW sights, NEW fitting, NEW context, AnalyzePicture(sights, fitting, context)
  PROVE  /\ Resolve(Scores(sights), Ranking(context))
         /\ seen' = Reads(resolution', sights)
         /\ fits' = fitting
         /\ offered' = {t \in ActiveSpots(resolution') : Shown(t, seen')}
         /\ verdict' = Decision(fitting, resolution',
                                OverlayUncertain(resolution', score', evidence'),
                                \/ MissingElements(resolution', seen') # {}
                                \/ MissingTargets(resolution', seen') # {})
  BY DEF AnalyzePicture

LEMMA PictureIsRead ==
  ASSUME NEW sights \in Pictures, NEW context \in Contexts
  PROVE  Scores(sights) \in Reading /\ Ranking(context) \in Preferences
  BY RoutingAssumption DEF Reading

LEMMA PictureKeepsTypes ==
  ASSUME AnalysisTypeOK, NEW sights \in Pictures, NEW fitting \in BOOLEAN,
         NEW context \in Contexts, AnalyzePicture(sights, fitting, context)
  PROVE  AnalysisTypeOK'
<1>1. ResolverTypeOK'
  BY PictureEffect, PictureIsRead, ResolveKeepsTypes DEF AnalysisTypeOK
<1>2. seen' \in [Elements -> Sight]
  <2>1. sights \in [Elements -> Sight]
    BY RoutingAssumption
  <2>2. \A e \in Elements :
          (IF e \in Evaluated(resolution') THEN sights[e] ELSE "unknown") \in Sight
    BY <2>1 DEF Sight
  <2>3. seen' = [e \in Elements |->
                   IF e \in Evaluated(resolution') THEN sights[e] ELSE "unknown"]
    BY PictureEffect DEF Reads
  <2> QED  BY <2>2, <2>3
<1>3. offered' \subseteq Spots
  BY PictureEffect DEF ActiveSpots
<1>4. verdict' \in Reasons \cup {"none"}
  <2>1. PICK uncertain, missing :
          verdict' = Decision(fitting, resolution', uncertain, missing)
    BY PictureEffect, Zenon
  <2> QED  BY <2>1, DecisionIsAReason
<1> QED  BY <1>1, <1>2, <1>3, <1>4, PictureEffect DEF AnalysisTypeOK

(* An offered target is of a layer of the resolution, and was seen.        *)
LEMMA PictureOffersSeen ==
  ASSUME NEW sights, NEW fitting, NEW context, AnalyzePicture(sights, fitting, context),
         resolution'.overlays \subseteq Overlays
  PROVE  OfferedAreSeen'
<1>1. SUFFICES ASSUME NEW t \in offered'
               PROVE  /\ Owner[t] \in ActiveLayers(resolution')
                      /\ VisibleBy[t] # Nothing => seen'[VisibleBy[t]] \in {"match", "faint"}
                      /\ Owner[t] \in Scenes => resolution'.overlays \cap Blocking = {}
  BY DEF OfferedAreSeen, ActiveLayers
<1>2. t \in ActiveSpots(resolution') /\ Shown(t, seen')
  BY PictureEffect
<1>3. \/ Owner[t] \in resolution'.overlays
      \/ Owner[t] = resolution'.scene /\ resolution'.overlays \cap Blocking = {}
  BY <1>2 DEF ActiveSpots
<1>4. Owner[t] \in Layers /\ Nothing \notin Layers
  BY <1>2, TargetAssumption, LayerAssumption DEF ActiveSpots
<1>5. Owner[t] \in ActiveLayers(resolution')
  <2>1. CASE Owner[t] \in resolution'.overlays
    BY <2>1 DEF ActiveLayers
  <2>2. CASE Owner[t] = resolution'.scene
    <3>1. resolution'.scene # Nothing
      BY <1>4, <2>2
    <3> QED  BY <2>2, <3>1 DEF ActiveLayers
  <2> QED  BY <1>3, <2>1, <2>2
<1>6. Owner[t] \in Scenes => Owner[t] \notin resolution'.overlays
  BY LayerAssumption
<1> QED  BY <1>2, <1>3, <1>5, <1>6 DEF Shown

(* A sufficient answer has read all it needs, from a scene that leads, and *)
(* withholds only targets that are seen not to be there or are blocked.    *)
LEMMA PictureSuffices ==
  ASSUME AnalysisTypeOK, activeScene = Nothing, NEW sights \in Pictures,
         NEW fitting \in BOOLEAN, NEW context \in Contexts,
         AnalyzePicture(sights, fitting, context)
  PROVE  SufficientIsComplete'
<1> DEFINE scores == Scores(sights)
           preferred == Ranking(context)
           missing == \/ MissingElements(resolution', seen') # {}
                      \/ MissingTargets(resolution', seen') # {}
<1>1. SUFFICES ASSUME verdict' = "json_complete"
      PROVE
        /\ fits'
        /\ Scenes # {} => resolution'.scene # Nothing
        /\ \A s \in EligibleIn(Scenes, evidence') \ {resolution'.scene} :
             Confidence(resolution'.scene, score') - Confidence(s, score')
               >= Margin[resolution'.scene]
        /\ \A l \in ActiveLayers(resolution') : \A e \in RequiredOf[l] : seen'[e] # "unknown"
        /\ \A t \in Vital \ offered' :
             Owner[t] \in ActiveLayers(resolution') =>
               \/ VisibleBy[t] # Nothing /\ seen'[VisibleBy[t]] = "miss"
               \/ Owner[t] \in Scenes /\ resolution'.overlays \cap Blocking # {}
  BY Zenon DEF SufficientIsComplete, EligibleIn, Confidence, ActiveLayers
<1>2. AnalysisTypeOK' /\ scores \in Reading /\ preferred \in Preferences
  BY PictureKeepsTypes, PictureIsRead
<1>3. Resolve(scores, preferred)
  BY PictureEffect
<1>4. /\ fitting
      /\ ~resolution'.ambiguous
      /\ Scenes # {} => resolution'.scene # Nothing
      /\ ~missing
  <2>1. resolution'.ambiguous \in BOOLEAN
    BY <1>2 DEF AnalysisTypeOK, ResolverTypeOK, Resolution
  <2>2. Decision(fitting, resolution',
                 OverlayUncertain(resolution', score', evidence'), missing) = "json_complete"
    BY <1>1, PictureEffect
  <2> HIDE DEF missing
  <2> QED  BY <2>1, <2>2, SufficientMeans
<1>5. ASSUME NEW s \in EligibleIn(Scenes, evidence') \ {resolution'.scene}
      PROVE  Confidence(resolution'.scene, score') - Confidence(s, score')
               >= Margin[resolution'.scene]
  <2> HIDE DEF scores, preferred
  <2>1. evidence' = Sampled(scores) /\ score' = scores
    BY <1>3, ResolveEffect
  <2>2. s \in Eligible(scores) /\ s \in Scenes
    BY <1>5, <2>1 DEF Eligible, EligibleIn
  <2>3. resolution'.scene # Nothing
    BY <1>4, <2>2
  <2>4. resolution'.scene = Winner(scores, preferred) /\ ~Close(scores, preferred)
    BY <1>2, <1>3, <2>3, FreshResolution
  <2> QED  BY <1>2, <1>5, <2>1, <2>2, <2>4, WinnerKeepsItsMargin
<1>6. ASSUME NEW l \in ActiveLayers(resolution'), NEW e \in RequiredOf[l]
      PROVE  seen'[e] # "unknown"
  <2>1. MissingElements(resolution', seen') = {}
    BY <1>4
  <2> QED  BY <1>6, <2>1 DEF MissingElements
<1>7. ASSUME NEW t \in Vital \ offered', Owner[t] \in ActiveLayers(resolution')
      PROVE  \/ VisibleBy[t] # Nothing /\ seen'[VisibleBy[t]] = "miss"
             \/ Owner[t] \in Scenes /\ resolution'.overlays \cap Blocking # {}
  <2>1. t \in Spots
    BY TargetAssumption
  <2>2. CASE t \in ActiveSpots(resolution')
    <3>1. ~Shown(t, seen')
      BY <2>2, PictureEffect
    <3>2. t \notin MissingTargets(resolution', seen')
      BY <1>4
    <3>3. ~Unresolved(t, seen')
      BY <2>2, <3>2 DEF MissingTargets
    <3>4. VisibleBy[t] # Nothing => VisibleBy[t] \in Elements
      BY <2>1, TargetAssumption
    <3>5. \A e \in Elements : seen'[e] \in Sight
      BY <1>2 DEF AnalysisTypeOK
    <3> QED  BY <3>1, <3>3, <3>4, <3>5 DEF Shown, Unresolved, Sight
  <2>3. CASE t \notin ActiveSpots(resolution')
    <3>1. /\ Owner[t] \notin resolution'.overlays
          /\ Owner[t] # resolution'.scene \/ resolution'.overlays \cap Blocking # {}
      BY <2>1, <2>3 DEF ActiveSpots
    <3>2. resolution'.scene # Nothing /\ Owner[t] = resolution'.scene
      BY <1>7, <3>1 DEF ActiveLayers
    <3>3. resolution'.scene \in Scenes
      BY <1>2, <3>2 DEF AnalysisTypeOK, ResolverTypeOK, Resolution
    <3> QED  BY <3>1, <3>2, <3>3
  <2> QED  BY <2>2, <2>3
<1>8. fits' = fitting
  BY PictureEffect
<1> QED  BY <1>4, <1>5, <1>6, <1>7, <1>8

-----------------------------------------------------------------------------
(* Theorems about the requests of one-shot analysis *)

(* A request that has yet to route has a resolver without history.         *)
RequestInvariant ==
  /\ AnalysisTypeOK
  /\ stage = "routing" => activeScene = Nothing
  /\ HandoffIsSound
  /\ ContextIsSoft

LEMMA NothingIsSound ==
  ASSUME verdict = "none", offered = {}
  PROVE  HandoffIsSound /\ ContextIsSoft
  BY DEF HandoffIsSound, SufficientIsComplete, OfferedAreSeen, ContextIsSoft

LEMMA ForgottenIsSound ==
  ASSUME Forget
  PROVE  RequestInvariant'
<1>1. /\ evidence' = [l \in Layers |-> <<>>]
      /\ activeScene' = Nothing
      /\ score' = [l \in Layers |-> Unknown]
      /\ resolution' = [scene |-> Nothing, ambiguous |-> FALSE, overlays |-> {}]
      /\ seen' = [e \in Elements |-> "unknown"]
      /\ fits' = FALSE
      /\ offered' = {}
      /\ verdict' = "none"
  BY DEF Forget
<1>2. ResolverTypeOK'
  <2>1. /\ <<>> \in Seq(BOOLEAN) /\ Len(<<>>) = 0
        /\ \A l \in Layers : WindowSize[l] \in Nat
    BY ConfigurationAssumption
  <2> QED  BY <1>1, <2>1 DEF ResolverTypeOK, Resolution
<1>3. AnalysisTypeOK'
  BY <1>1, <1>2 DEF AnalysisTypeOK, Sight
<1>4. HandoffIsSound' /\ ContextIsSoft'
  BY <1>1 DEF HandoffIsSound, SufficientIsComplete, OfferedAreSeen, ContextIsSoft
<1> QED  BY <1>1, <1>3, <1>4 DEF RequestInvariant

LEMMA AnalysisStays ==
  ASSUME RequestInvariant, UNCHANGED analysisVars,
         stage' = "routing" => stage = "routing"
  PROVE  RequestInvariant'
<1>1. /\ evidence' = evidence /\ activeScene' = activeScene
      /\ score' = score /\ resolution' = resolution
      /\ seen' = seen /\ fits' = fits /\ offered' = offered /\ verdict' = verdict
  BY DEF analysisVars, resolverVars
<1>2. AnalysisTypeOK'
  BY <1>1 DEF RequestInvariant, AnalysisTypeOK, ResolverTypeOK
<1>3. HandoffIsSound'
  BY <1>1, Zenon
     DEF RequestInvariant, HandoffIsSound, SufficientIsComplete, OfferedAreSeen,
         EligibleIn, Confidence, ActiveLayers
<1>4. ContextIsSoft'
  <2>1. \A s : Leads(s)' <=> Leads(s)
    BY <1>1, Zenon DEF Leads, EligibleScenes, EligibleIn, Confidence
  <2> QED  BY <1>1, <2>1, Zenon DEF RequestInvariant, ContextIsSoft, EligibleIn, Confidence
<1> QED  BY <1>1, <1>2, <1>3, <1>4 DEF RequestInvariant

LEMMA RequestsAreSound == Spec => []RequestInvariant
<1>1. Init => RequestInvariant
  <2>1. ASSUME Init PROVE ResolverTypeOK
    <3>1. /\ <<>> \in Seq(BOOLEAN) /\ Len(<<>>) = 0
          /\ \A l \in Layers : WindowSize[l] \in Nat
      BY ConfigurationAssumption
    <3> QED  BY <2>1, <3>1 DEF Init, AnalysisInit, ResolverInit, ResolverTypeOK, Resolution
  <2>2. ASSUME Init PROVE AnalysisTypeOK
    BY <2>1, <2>2 DEF Init, AnalysisInit, AnalysisTypeOK, Sight
  <2> QED  BY <2>2, NothingIsSound DEF Init, AnalysisInit, RequestInvariant
<1>2. RequestInvariant /\ [Next]_vars => RequestInvariant'
  <2> SUFFICES ASSUME RequestInvariant, [Next]_vars
               PROVE  RequestInvariant'
    OBVIOUS
  <2>1. ASSUME NEW list \in Manifests, Begin(list)
        PROVE  RequestInvariant'
    BY <2>1, ForgottenIsSound DEF Begin
  <2>2. ASSUME NEW sights \in Pictures, NEW fitting \in BOOLEAN, NEW context \in Contexts,
               Route(sights, fitting, context)
        PROVE  RequestInvariant'
    <3>1. /\ activeScene = Nothing /\ AnalysisTypeOK
          /\ AnalyzePicture(sights, fitting, context)
          /\ stage' = "routed"
      BY <2>2 DEF Route, RequestInvariant
    <3>2. AnalysisTypeOK'
      BY <3>1, PictureKeepsTypes
    <3>3. SufficientIsComplete'
      BY <3>1, PictureSuffices
    <3>4. OfferedAreSeen'
      BY <3>1, <3>2, PictureOffersSeen DEF AnalysisTypeOK, ResolverTypeOK, Resolution
    <3>5. ContextIsSoft'
      BY <3>1, PictureEffect, PictureIsRead, FreshResolutionIsSoft
    <3> QED  BY <3>1, <3>2, <3>3, <3>4, <3>5 DEF RequestInvariant, HandoffIsSound
  <2>3. CASE Select
    BY <2>3, AnalysisStays DEF Select
  <2>4. CASE Answer
    BY <2>4, AnalysisStays DEF Answer
  <2>5. CASE Refuse
    BY <2>5, AnalysisStays DEF Refuse
  <2>6. ASSUME NEW p \in Profiles, SaveProfile(p)
        PROVE  RequestInvariant'
    BY <2>6, AnalysisStays DEF SaveProfile
  <2>7. CASE UNCHANGED vars
    BY <2>7, AnalysisStays DEF vars, routingVars
  <2> QED  BY <2>1, <2>2, <2>3, <2>4, <2>5, <2>6, <2>7 DEF Next
<1> QED  BY <1>1, <1>2, PTL DEF Spec

(* An answer that claims to suffice has read what it requires, from a      *)
(* scene that leads by its margin, and a target is offered only where it   *)
(* was seen and nothing blocks it (handoff_decision,                       *)
(* active_interaction_targets).                                            *)
THEOREM HandoffsAreSound == Spec => []HandoffIsSound
<1>1. RequestInvariant => HandoffIsSound
  BY DEF RequestInvariant
<1> QED  BY <1>1, RequestsAreSound, PTL

(* Whatever scenes the caller expects, the resolved scene is of greatest   *)
(* confidence, and a clear leader is never left unresolved                 *)
(* (SceneResolutionHints).                                                 *)
THEOREM PreferencesAreSoft == Spec => []ContextIsSoft
<1>1. RequestInvariant => ContextIsSoft
  BY DEF RequestInvariant
<1> QED  BY <1>1, RequestsAreSound, PTL

(* From its first step to its answer a request is of a router of its own   *)
(* game, analyzed at the revision of the pin.                              *)
PinInvariant ==
  /\ stage \in {"routing", "routed", "member", "answered"} => Router \notin foreign
  /\ stage = "routed" => analyzed = RouterPin
  /\ AnswersAreOfPins

(* Whatever profiles are saved meanwhile, an answer is that of the pinned  *)
(* revision of a profile of the game (analyze_image_with_bundle).          *)
THEOREM PinsAreKept == Spec => []AnswersAreOfPins
<1>1. Init => PinInvariant
  BY DEF Init, PinInvariant, AnswersAreOfPins
<1>2. PinInvariant /\ [Next]_vars => PinInvariant'
  <2> SUFFICES ASSUME PinInvariant, [Next]_vars
               PROVE  PinInvariant'
    OBVIOUS
  <2>1. ASSUME NEW list \in Manifests, Begin(list)
        PROVE  PinInvariant'
    <3>1. /\ stage' = IF revision[Router] = RouterPin /\ Router \notin foreign
                      THEN "routing" ELSE "refused"
          /\ foreign' = foreign
      BY <2>1 DEF Begin
    <3> QED  BY <3>1 DEF PinInvariant, AnswersAreOfPins
  <2>2. ASSUME NEW sights, NEW fitting, NEW context, Route(sights, fitting, context)
        PROVE  PinInvariant'
    BY <2>2 DEF Route, PinInvariant, AnswersAreOfPins
  <2>3. CASE Select
    <3>1. /\ stage = "routed" /\ foreign' = foreign /\ members' = members
          /\ analyzed = RouterPin /\ Router \notin foreign
          /\ stage' = IF route' = 0 THEN "answered"
                      ELSE IF ~Loads(members[route']) THEN "refused"
                      ELSE IF members[route'].profile = Router THEN "answered"
                      ELSE "member"
          /\ analyzed' = IF stage' = "member" THEN revision[members[route'].profile]
                         ELSE analyzed
      BY <2>3 DEF Select, PinInvariant
    <3>2. CASE route' = 0
      BY <3>1, <3>2 DEF PinInvariant, AnswersAreOfPins
    <3>3. CASE route' # 0 /\ ~Loads(members[route'])
      BY <3>1, <3>3 DEF PinInvariant, AnswersAreOfPins
    <3>4. CASE route' # 0 /\ Loads(members[route']) /\ members[route'].profile = Router
      BY <3>1, <3>4 DEF PinInvariant, AnswersAreOfPins, Loads
    <3>5. CASE route' # 0 /\ Loads(members[route']) /\ members[route'].profile # Router
      BY <3>1, <3>5 DEF PinInvariant, AnswersAreOfPins, Loads
    <3> QED  BY <3>2, <3>3, <3>4, <3>5
  <2>4. CASE Answer
    BY <2>4 DEF Answer, PinInvariant, AnswersAreOfPins
  <2>5. CASE Refuse
    BY <2>5 DEF Refuse, PinInvariant, AnswersAreOfPins
  <2>6. ASSUME NEW p \in Profiles, SaveProfile(p)
        PROVE  PinInvariant'
    BY <2>6 DEF SaveProfile, PinInvariant, AnswersAreOfPins
  <2>7. CASE UNCHANGED vars
    BY <2>7 DEF vars, routingVars, PinInvariant, AnswersAreOfPins
  <2> QED  BY <2>1, <2>2, <2>3, <2>4, <2>5, <2>6, <2>7 DEF Next
<1>3. PinInvariant => AnswersAreOfPins
  BY DEF PinInvariant
<1> QED  BY <1>1, <1>2, <1>3, PTL DEF Spec
=============================================================================
