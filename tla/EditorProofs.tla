---------------------------- MODULE EditorProofs ----------------------------
(***************************************************************************)
(* Proofs about the profile editor, its worker and the daemon behind it,   *)
(* for any number of profiles, any limit of the queues and any number of   *)
(* clicks, failures and polls.                                             *)
(*                                                                         *)
(* What the draft holds is followed through every message about it: a      *)
(* save or an autosave that is asked for carries all of it that is not     *)
(* stored already or was edited while it was under way (DraftIsCovered),   *)
(* and what the daemon sends back to be edited is in a revision            *)
(* (DocumentsAreStored).                                                   *)
(***************************************************************************)
EXTENDS Editor, SequenceTheorems, WellFoundedInduction, TLAPS

Elements(s) == {s[i] : i \in DOMAIN s}
Asked == Elements(requests)
Answered == Elements(responses)

(* The edits of the draft are in a revision of its profile, or raced, or   *)
(* are among `kept`.                                                       *)
Covered(kept) == draft.edits \subseteq kept \cup Published(draft.id) \cup raced

Stored(document) == document = NoDocument \/ document.edits \subseteq Published(document.id)

DocumentsAreStored ==
  /\ \A a \in Answered : Stored(a.document)
  /\ \A a \in Answered : a.ok /\ a.kind = "Profile" => a.document # NoDocument
  /\ \A r \in Asked : r.kind = "Restore" => r.id # 0
  /\ Stored(committed)
  /\ committed # NoDocument => committed.id = draft.id

RequestCovers(r) ==
  /\ r.kind \in {"Commit", "Draft"} => Covered(IF r.id = draft.id THEN r.edits ELSE {})
  /\ r.kind = "Rollback" => Covered({})
AnswerCovers(a) ==
  a.ok => /\ a.kind \in {"Commit", "Rollback"} => Covered({})
          /\ a.kind = "Draft" => Covered(drafts[draft.id])

DraftIsCovered ==
  draft # NoDocument =>
    /\ ~dirty \/ confirm => Covered({})
    /\ \A r \in Asked : RequestCovers(r)
    /\ \A a \in Answered : AnswerCovers(a)
    /\ dirty /\ draftSaved =>
         Covered(drafts[draft.id]) \/ Outstanding("Draft") \/ "Draft" \in dropped

EditorSound ==
  EditorInvariant /\ PreviewIsRestored /\ DocumentsAreStored /\ DraftIsCovered

-----------------------------------------------------------------------------
(* Types, by the part of the system *)

QueueTypes ==
  /\ requests \in Seq(Messages) /\ Len(requests) <= QueueLimit
  /\ responses \in Seq(Replies) /\ Len(responses) <= QueueLimit
  /\ refused \subseteq Kind /\ dropped \subseteq Kind
ConnectionTypes ==
  /\ connected \in BOOLEAN /\ wantPreview \in BOOLEAN /\ wantFreeze \in BOOLEAN
  /\ lease \in BOOLEAN /\ failures \in 0 .. MaxFailures
DraftTypes ==
  /\ dirty \in BOOLEAN /\ draftSaved \in BOOLEAN /\ confirm \in BOOLEAN
  /\ listed \subseteq Profiles /\ selected \in listed \cup {0}
  /\ draft \in Document \cup {NoDocument} /\ committed \in Document \cup {NoDocument}
  /\ draft = NoDocument => committed = NoDocument
  /\ shown \in Seq(Content)
SwitchTypes ==
  /\ previewOn \in BOOLEAN /\ frozen \in BOOLEAN
  /\ pending \subseteq Pollable /\ polls \in 0 .. MaxPolls
DaemonTypes ==
  /\ live \subseteq Profiles
  /\ store \in [Profiles -> Seq(Content) \ {<<>>}]
  /\ drafts \in [Profiles -> Content]
CountTypes ==
  clicks \in 0 .. MaxEvents /\ edits \in 0 .. clicks /\ raced \subseteq 1 .. edits

LEMMA TypesApart ==
  TypeOK <=> /\ QueueTypes /\ ConnectionTypes /\ DraftTypes /\ SwitchTypes
             /\ DaemonTypes /\ CountTypes
BY DEF TypeOK, QueueTypes, ConnectionTypes, DraftTypes, SwitchTypes, DaemonTypes, CountTypes

-----------------------------------------------------------------------------
(* Queues *)

LEMMA TailElements ==
  ASSUME NEW S, NEW s \in Seq(S), s # <<>>
  PROVE  /\ Tail(s) \in Seq(S) /\ Head(s) \in S /\ Len(Tail(s)) <= Len(s)
         /\ Elements(s) = Elements(Tail(s)) \cup {Head(s)}
<1>1. Tail(s) \in Seq(S) /\ Head(s) = s[1] /\ Len(Tail(s)) = Len(s) - 1 /\ Len(s) \in Nat \ {0}
  OBVIOUS
<1>2. Elements(Tail(s)) \subseteq Elements(s)
  <2>1. ASSUME NEW i \in DOMAIN Tail(s)  PROVE Tail(s)[i] = s[i + 1] /\ i + 1 \in DOMAIN s
    BY <1>1
  <2> QED  BY <2>1 DEF Elements
<1>3. \A i \in DOMAIN s : s[i] \in Elements(Tail(s)) \cup {Head(s)}
  <2>1. ASSUME NEW i \in DOMAIN s, i # 1  PROVE s[i] = Tail(s)[i - 1] /\ i - 1 \in DOMAIN Tail(s)
    BY <1>1, <2>1
  <2> QED  BY <1>1, <2>1 DEF Elements
<1> QED  BY <1>1, <1>2, <1>3 DEF Elements

LEMMA ConcatElements ==
  ASSUME NEW S, NEW s \in Seq(S), NEW t \in Seq(S)
  PROVE  /\ s \o t \in Seq(S) /\ Len(s \o t) = Len(s) + Len(t)
         /\ Elements(s \o t) = Elements(s) \cup Elements(t)
<1>1. s \o t \in Seq(S) /\ Len(s \o t) = Len(s) + Len(t) /\ Len(s) \in Nat /\ Len(t) \in Nat
  OBVIOUS
<1>2. \A i \in DOMAIN (s \o t) : (s \o t)[i] \in Elements(s) \cup Elements(t)
  <2>1. ASSUME NEW i \in 1 .. Len(s) + Len(t)  PROVE (s \o t)[i] \in Elements(s) \cup Elements(t)
    <3>1. CASE i <= Len(s)
      <4>1. (s \o t)[i] = s[i] /\ i \in DOMAIN s
        BY <3>1
      <4> QED  BY <4>1 DEF Elements
    <3>2. CASE i > Len(s)
      <4>1. (s \o t)[i] = t[i - Len(s)] /\ i - Len(s) \in DOMAIN t
        BY <3>2
      <4> QED  BY <4>1 DEF Elements
    <3> QED  BY <1>1, <3>1, <3>2
  <2> QED  BY <1>1, <2>1
<1>3. \A i \in DOMAIN s : s[i] = (s \o t)[i] /\ i \in DOMAIN (s \o t)
  BY <1>1
<1>4. \A i \in DOMAIN t : t[i] = (s \o t)[i + Len(s)] /\ i + Len(s) \in DOMAIN (s \o t)
  BY <1>1
<1>5. Elements(s \o t) \subseteq Elements(s) \cup Elements(t)
  BY <1>2 DEF Elements
<1>6. Elements(s) \subseteq Elements(s \o t)
  BY <1>3 DEF Elements
<1>7. Elements(t) \subseteq Elements(s \o t)
  BY <1>4 DEF Elements
<1> QED  BY <1>1, <1>5, <1>6, <1>7

LEMMA Outstandings ==
  ASSUME NEW kind
  PROVE  Outstanding(kind) <=> \/ \E r \in Asked : r.kind = kind
                               \/ \E a \in Answered : a.kind = kind
                               \/ kind \in refused
BY DEF Outstanding, Asked, Answered, Elements

LEMMA FirstElements ==
  ASSUME NEW S, NEW s \in Seq(S), NEW n \in 0 .. Len(s)
  PROVE  /\ SubSeq(s, 1, n) \in Seq(S) /\ Len(SubSeq(s, 1, n)) = n
         /\ \A i \in 1 .. n : SubSeq(s, 1, n)[i] = s[i] /\ i \in DOMAIN s
         /\ Elements(SubSeq(s, 1, n)) \subseteq Elements(s)
<1>1. Len(s) \in Nat /\ n \in Int /\ 1 \in Int /\ n >= 0 /\ n <= Len(s) /\ DOMAIN s = 1 .. Len(s)
  OBVIOUS
<1>2. \A i \in 1 .. n : s[i] \in S /\ i \in DOMAIN s
  BY <1>1
<1>3. /\ SubSeq(s, 1, n) \in Seq(S)
      /\ Len(SubSeq(s, 1, n)) = IF 1 <= n THEN n - 1 + 1 ELSE 0
      /\ \A i \in 1 .. n - 1 + 1 : SubSeq(s, 1, n)[i] = s[1 + i - 1]
  BY <1>1, <1>2, SubSeqProperties
<1>4. Len(SubSeq(s, 1, n)) = n
  BY <1>1, <1>3
<1>5. \A i \in 1 .. n : SubSeq(s, 1, n)[i] = s[i]
  BY <1>1, <1>3
<1>6. DOMAIN SubSeq(s, 1, n) = 1 .. n
  BY <1>3, <1>4
<1> QED  BY <1>2, <1>3, <1>4, <1>5, <1>6 DEF Elements

(* Messages sent in a row are queued or refused, and none is taken back. *)
LEMMA SendFacts ==
  ASSUME QueueTypes, NEW messages \in Seq(Messages), SendAll(messages)
  PROVE  /\ requests' \in Seq(Messages) /\ Len(requests') <= QueueLimit /\ refused' \subseteq Kind
         /\ Asked \subseteq Asked' /\ Asked' \subseteq Asked \cup Elements(messages)
         /\ refused \subseteq refused'
         /\ \A m \in Elements(messages) : m \in Asked' \/ m.kind \in refused'
<1>1. /\ requests \in Seq(Messages) /\ Len(messages) \in Nat /\ Len(requests) \in Nat
      /\ QueueLimit \in Nat /\ Len(requests) <= QueueLimit
  BY WorkerAssumption DEF QueueTypes
<1>2. PICK room \in Nat : room = QueueLimit - Len(requests)
  <2>1. QueueLimit - Len(requests) \in Nat
    BY <1>1
  <2> QED  BY <2>1
<1>3. PICK n \in 0 .. Len(messages) :
        n <= room /\ n = IF Len(messages) <= room THEN Len(messages) ELSE room
  <2>1. CASE Len(messages) <= room
    <3> Len(messages) \in 0 .. Len(messages)
      BY <1>1
    <3> QED  BY <2>1
  <2>2. CASE ~(Len(messages) <= room)
    <3> room \in 0 .. Len(messages) /\ room <= room
      BY <1>1, <2>2
    <3> QED  BY <2>2
  <2> QED  BY <2>1, <2>2
<1>4. /\ requests' = requests \o SubSeq(messages, 1, n)
      /\ refused' = refused \cup {messages[i].kind : i \in n + 1 .. Len(messages)}
  BY <1>2, <1>3 DEF SendAll
<1>5. PICK first : first = SubSeq(messages, 1, n)
  OBVIOUS
<1>6. /\ first \in Seq(Messages) /\ Len(first) = n
      /\ \A i \in 1 .. n : first[i] = messages[i] /\ i \in DOMAIN messages
      /\ Elements(first) \subseteq Elements(messages)
  BY <1>5, FirstElements
<1>7. /\ requests' \in Seq(Messages) /\ Len(requests') = Len(requests) + Len(first)
      /\ Asked' = Asked \cup Elements(first)
  <2>1. requests' = requests \o first
    BY <1>4, <1>5
  <2>2. /\ requests \o first \in Seq(Messages)
        /\ Len(requests \o first) = Len(requests) + Len(first)
        /\ Elements(requests \o first) = Elements(requests) \cup Elements(first)
    BY <1>1, <1>6, ConcatElements
  <2> QED  BY <2>1, <2>2 DEF Asked
<1>8. Len(requests') <= QueueLimit
  BY <1>1, <1>2, <1>3, <1>6, <1>7
<1>9. refused' \subseteq Kind
  <2>1. ASSUME NEW i \in n + 1 .. Len(messages)  PROVE messages[i].kind \in Kind
    <3>1. i \in 1 .. Len(messages)
      BY <1>1, <1>3
    <3>2. messages[i] \in Messages
      BY <3>1
    <3> QED  BY <3>2 DEF Messages
  <2> QED  BY <1>4, <2>1 DEF QueueTypes
<1>10. ASSUME NEW m \in Elements(messages)  PROVE m \in Asked' \/ m.kind \in refused'
  <2>1. PICK i \in 1 .. Len(messages) : m = messages[i]
    BY DEF Elements
  <2>2. CASE i <= n
    <3>1. i \in 1 .. n /\ i \in DOMAIN first /\ first[i] = m
      BY <1>3, <1>6, <2>1, <2>2
    <3> QED  BY <1>7, <3>1 DEF Elements
  <2>3. CASE i > n
    <3>1. i \in n + 1 .. Len(messages)
      BY <1>1, <1>3, <2>3
    <3> QED  BY <1>4, <2>1, <3>1
  <2> QED  BY <1>1, <1>3, <2>2, <2>3
<1>11. refused \subseteq refused'
  BY <1>4
<1> QED  BY <1>6, <1>7, <1>8, <1>9, <1>10, <1>11

LEMMA QuietFacts ==
  ASSUME Quiet
  PROVE  requests' = requests /\ refused' = refused /\ Asked' = Asked
BY DEF Quiet, Asked

-----------------------------------------------------------------------------
(* The daemon and the worker *)

LEMMA CurrentFacts ==
  ASSUME DaemonTypes, NEW p \in Profiles
  PROVE  /\ Current(p) \in Document /\ Current(p).id = p /\ Current(p) # NoDocument
         /\ Current(p).edits \subseteq Published(p)
         /\ store[p] \in Seq(Content)
<1>1. PICK s \in Seq(Content) : s = store[p] /\ s # <<>>
  BY DEF DaemonTypes
<1>2. Len(s) \in Nat \ {0} /\ Len(s) \in DOMAIN s /\ s[Len(s)] \in Content
  BY <1>1
<1>3. p # 0
  BY EditorAssumption
<1>4. Current(p) = [id |-> p, rev |-> Len(s), edits |-> s[Len(s)]]
  BY <1>1 DEF Current
<1>5. Current(p) \in Document
  BY <1>2, <1>4 DEF Document
<1>6. s[Len(s)] \subseteq Published(p)
  BY <1>1, <1>2 DEF Published
<1> QED  BY <1>1, <1>3, <1>4, <1>5, <1>6 DEF NoDocument

(* What the daemon does for a request adds to what is published, and       *)
(* replaces the draft of its profile only.                                 *)
LEMMA ExecuteFacts ==
  ASSUME DaemonTypes, NEW request \in Messages, Accepts(request), Execute(request),
         request.kind = "Restore" => request.id # 0
  PROVE  /\ DaemonTypes'
         /\ \A p \in Profiles : Published(p) \subseteq Published(p)'
         /\ request.kind \in {"Commit", "Rollback"} =>
              request.id \in Profiles /\ request.edits \subseteq Published(request.id)'
         /\ request.kind = "Draft" /\ request.id \in Profiles => drafts'[request.id] = request.edits
         /\ \A p \in Profiles :
              \/ request.kind \in {"Commit", "Rollback", "Draft"} /\ request.id = p
              \/ drafts'[p] = drafts[p]
<1> USE DEF DaemonTypes
<1>0. /\ request.id \in Profiles \cup {0} /\ request.edits \in Content /\ {} \in Content
      /\ 0 \notin Profiles
  BY EditorAssumption DEF Messages, Content
<1>1. CASE request.kind \in {"Commit", "Rollback"}
  <2>1. /\ store' = [store EXCEPT ![request.id] = Append(@, request.edits)]
        /\ drafts' = [drafts EXCEPT ![request.id] = {}] /\ live' = live
    BY <1>1, Zenon DEF Execute
  <2>2. request.id \in live
    BY <1>1, Zenon DEF Accepts
  <2>3. request.id \in Profiles
    BY <2>2
  <2>4. PICK s \in Seq(Content) : s = store[request.id] /\ s # <<>>
    BY <2>3
  <2>5. PICK t \in Seq(Content) : t = Append(s, request.edits)
    <3>1. Append(s, request.edits) \in Seq(Content)
      BY <1>0
    <3> QED  BY <3>1
  <2>6. /\ Len(t) \in DOMAIN t /\ t[Len(t)] = request.edits /\ t # <<>>
        /\ \A i \in DOMAIN s : i \in DOMAIN t /\ t[i] = s[i]
    BY <2>5, <1>0
  <2>7. /\ store' = [store EXCEPT ![request.id] = t] /\ store'[request.id] = t
        /\ \A p \in Profiles : p # request.id => store'[p] = store[p]
    BY <2>1, <2>3, <2>4, <2>5
  <2>8. DaemonTypes'
    <3>1. store' \in [Profiles -> Seq(Content) \ {<<>>}]
      BY <2>5, <2>6, <2>7
    <3>2. drafts' \in [Profiles -> Content]
      BY <1>0, <2>1
    <3> QED  BY <2>1, <3>1, <3>2
  <2>9. \A i \in DOMAIN t : t[i] \subseteq Published(request.id)'
    BY <2>7 DEF Published
  <2>10. Published(request.id) \subseteq Published(request.id)'
    BY <2>4, <2>6, <2>9 DEF Published
  <2>11. \A p \in Profiles : Published(p) \subseteq Published(p)'
    BY <2>7, <2>10 DEF Published
  <2> QED  BY <1>1, <2>1, <2>3, <2>6, <2>8, <2>9, <2>11
<1>2. CASE request.kind = "Draft"
  <2>1. drafts' = [drafts EXCEPT ![request.id] = request.edits] /\ live' = live /\ store' = store
    BY <1>2, Zenon DEF Execute
  <2>2. drafts' \in [Profiles -> Content]
    BY <1>0, <2>1
  <2>3. \A p \in Profiles : p # request.id => drafts'[p] = drafts[p]
    BY <2>1
  <2> QED  BY <1>2, <2>1, <2>2, <2>3 DEF Published
<1>3. CASE request.kind \notin {"Commit", "Rollback", "Draft"}
  <2>1. store' = store /\ drafts' = drafts /\ live' \subseteq live \cup {request.id}
    <3>1. CASE request.kind = "Trash"
      BY <3>1, Zenon DEF Execute
    <3>2. CASE request.kind = "Restore"
      BY <3>2, Zenon DEF Execute
    <3>3. CASE request.kind \notin {"Commit", "Rollback", "Draft", "Trash", "Restore"}
      <4>1. UNCHANGED daemonVars
        BY <3>3, Zenon DEF Execute
      <4> QED  BY <4>1 DEF daemonVars
    <3> QED  BY <1>3, <3>1, <3>2, <3>3
  <2>2. live' \subseteq Profiles
    <3>1. CASE request.kind = "Restore"
      BY <1>0, <2>1, <3>1
    <3>2. CASE request.kind # "Restore"
      <4>1. live' \subseteq live
        <5>1. CASE request.kind = "Trash"
          <6>1. live' = live \ {request.id}
            BY <5>1, Zenon DEF Execute
          <6> QED  BY <6>1
        <5>2. CASE request.kind # "Trash"
          <6>1. UNCHANGED daemonVars
            BY <1>3, <3>2, <5>2, Zenon DEF Execute
          <6> QED  BY <6>1 DEF daemonVars
        <5> QED  BY <5>1, <5>2
      <4> QED  BY <4>1
    <3> QED  BY <3>1, <3>2
  <2> QED  BY <1>3, <2>1, <2>2 DEF Published
<1> QED  BY <1>1, <1>2, <1>3

LEMMA OneElement ==
  ASSUME NEW S, NEW x \in S
  PROVE  <<x>> \in Seq(S) /\ Elements(<<x>>) = {x}
BY DEF Elements

LEMMA AppendElements ==
  ASSUME NEW S, NEW s \in Seq(S), NEW x \in S
  PROVE  Append(s, x) \in Seq(S) /\ Elements(Append(s, x)) = Elements(s) \cup {x}
<1>1. Append(s, x) = s \o <<x>>
  OBVIOUS
<1>2. PICK t \in Seq(S) : t = <<x>> /\ Elements(t) = {x}
  BY OneElement
<1>3. s \o t \in Seq(S) /\ Elements(s \o t) = Elements(s) \cup Elements(t)
  BY ConcatElements
<1> QED  BY <1>1, <1>2, <1>3

LEMMA PlainFacts ==
  ASSUME NEW kind \in Kind, NEW id \in Profiles \cup {0}
  PROVE  /\ Plain(kind) \in Messages /\ Plain(kind).kind = kind
         /\ About(kind, id) \in Messages /\ About(kind, id).kind = kind /\ About(kind, id).id = id
BY DEF Plain, About, Message, Messages, NoDocument, Content

LEMMA ReplyFacts ==
  ASSUME NEW request \in Messages, NEW ok \in BOOLEAN
  PROVE  /\ Reply(request, ok) \in Replies
         /\ Reply(request, ok).kind = request.kind /\ Reply(request, ok).ok = ok
         /\ Reply(request, ok).document = NoDocument
<1>1. <<>> \in Seq(Content) /\ request.kind \in Kind
  BY DEF Messages
<1> QED  BY <1>1 DEF Reply, Replies

LEMMA AnswerFacts ==
  ASSUME DaemonTypes, NEW request \in Messages, Accepts(request)
  PROVE  /\ Answer(request) \in Replies /\ Answer(request).kind = request.kind
         /\ Stored(Answer(request).document)
         /\ request.kind = "Profile" => Answer(request).document # NoDocument
<1>1. PICK plain \in Replies :
        plain = Reply(request, TRUE) /\ plain.kind = request.kind /\ plain.document = NoDocument
  BY ReplyFacts
<1>2. CASE request.kind = "Profiles"
  <2>1. Answer(request) = [plain EXCEPT !.list = live]
    BY <1>1, <1>2, Zenon DEF Answer
  <2> QED  BY <1>1, <1>2, <2>1 DEF Replies, DaemonTypes, Stored
<1>3. CASE request.kind = "Profile"
  <2>1. Answer(request) = [plain EXCEPT !.document = Current(request.id)]
    BY <1>1, <1>3, Zenon DEF Answer
  <2>2. request.id \in live
    BY <1>3, Zenon DEF Accepts
  <2>3. request.id \in Profiles
    BY <2>2 DEF DaemonTypes
  <2>4. PICK document \in Document :
          /\ document = Current(request.id) /\ document # NoDocument
          /\ document.id = request.id /\ document.edits \subseteq Published(request.id)
    BY <2>3, CurrentFacts
  <2>5. Answer(request) \in Replies /\ Answer(request).kind = request.kind
    BY <1>1, <2>1, <2>4 DEF Replies
  <2>6. Answer(request).document = document
    BY <1>1, <2>1, <2>4 DEF Replies
  <2> QED  BY <2>4, <2>5, <2>6 DEF Stored
<1>4. CASE request.kind = "History"
  <2>1. Answer(request) = [plain EXCEPT !.revisions = store[request.id]]
    BY <1>1, <1>4, Zenon DEF Answer
  <2>2. request.id \in live
    BY <1>4, Zenon DEF Accepts
  <2>3. request.id \in Profiles
    BY <2>2 DEF DaemonTypes
  <2>4. store[request.id] \in Seq(Content)
    BY <2>3, CurrentFacts
  <2> QED  BY <1>1, <1>4, <2>1, <2>4 DEF Replies, Stored
<1>5. CASE request.kind \notin {"Profiles", "Profile", "History"}
  <2>1. Answer(request) = plain
    BY <1>1, <1>5, Zenon DEF Answer
  <2> QED  BY <1>1, <1>5, <2>1 DEF Stored
<1> QED  BY <1>2, <1>3, <1>4, <1>5

Saves == {"Commit", "Draft", "Rollback"}

(* What is known of one answer to `request`. *)
Answers(a, request) ==
  /\ a \in Replies
  /\ Stored(a.document)
  /\ a.ok /\ a.kind = "Profile" => a.document # NoDocument
  /\ a.ok /\ a.kind \in Saves => a.kind = request.kind /\ Accepts(request) /\ Execute(request)

LEMMA RefusalAnswers ==
  ASSUME NEW request \in Messages, NEW r \in Messages
  PROVE  Answers(Reply(r, FALSE), request)
BY ReplyFacts DEF Answers, Stored

LEMMA SuccessAnswers ==
  ASSUME DaemonTypes, NEW request \in Messages, Accepts(request), Execute(request)
  PROVE  Answers(Answer(request), request)
<1>1. PICK a \in Replies :
        /\ a = Answer(request) /\ a.kind = request.kind
        /\ Stored(a.document) /\ (request.kind = "Profile" => a.document # NoDocument)
  BY AnswerFacts
<1>2. Answers(a, request)
  BY <1>1 DEF Answers
<1> QED  BY <1>1, <1>2

LEMMA ReloadedAnswers ==
  ASSUME DaemonTypes, NEW request \in Messages
  PROVE  /\ Reloaded \in Seq(Replies)
         /\ \A a \in Elements(Reloaded) : Answers(a, request)
<1>1. PICK plain \in Messages : plain = Plain("Profiles") /\ plain.kind = "Profiles"
  BY PlainFacts DEF Kind
<1>2. Accepts(plain)
  BY <1>1, Zenon DEF Accepts
<1>3. PICK a \in Replies :
        a = Answer(plain) /\ a.kind = "Profiles" /\ Stored(a.document)
  BY <1>1, <1>2, AnswerFacts
<1>4. Answers(a, request)
  BY <1>3 DEF Answers, Saves
<1>5. Reloaded = <<a>> \/ Reloaded = <<>>
  BY <1>1, <1>3 DEF Reloaded
<1>6. <<a>> \in Seq(Replies) /\ Elements(<<a>>) = {a}
  BY OneElement
<1>7. <<>> \in Seq(Replies) /\ Elements(<<>>) = {}
  BY DEF Elements
<1> QED  BY <1>4, <1>5, <1>6, <1>7

(* What the worker does: it takes a request, and queues answers to it. *)
Worked(request, replies) ==
  /\ request \in Asked /\ Asked = Asked' \cup {request}
  /\ requests' \in Seq(Messages) /\ Len(requests') <= QueueLimit
  /\ replies \in Seq(Replies) /\ \A a \in Elements(replies) : Answers(a, request)
  /\ responses' = responses \o replies /\ Len(responses') <= QueueLimit
  /\ dropped \subseteq dropped' /\ dropped' \subseteq Kind
  /\ request.kind \in dropped' \/ \E a \in Elements(replies) : a.kind = request.kind
  /\ (Accepts(request) /\ Execute(request)) \/ UNCHANGED daemonVars
  /\ WorkLeaves

LEMMA TakeRequestFacts ==
  ASSUME QueueTypes, TakeRequest
  PROVE  /\ Request \in Messages /\ Request \in Asked /\ Asked = Asked' \cup {Request}
         /\ requests' \in Seq(Messages) /\ Len(requests') <= QueueLimit
<1>1. PICK s \in Seq(Messages) : s = requests /\ s # <<>> /\ Len(s) <= QueueLimit
  BY DEF QueueTypes, TakeRequest
<1>2. requests' = Tail(s) /\ Request = Head(s)
  BY <1>1 DEF TakeRequest, Request
<1>3. /\ Tail(s) \in Seq(Messages) /\ Head(s) \in Messages /\ Len(Tail(s)) <= Len(s)
      /\ Elements(s) = Elements(Tail(s)) \cup {Head(s)}
  BY <1>1, TailElements
<1>4. Len(s) \in Nat /\ Len(Tail(s)) \in Nat /\ QueueLimit \in Nat
  BY <1>3, WorkerAssumption
<1> QED  BY <1>1, <1>2, <1>3, <1>4 DEF Asked

LEMMA WorkerWorks ==
  ASSUME QueueTypes, DaemonTypes, Work
  PROVE  \E request \in Messages : \E replies \in Seq(Replies) : Worked(request, replies)
<1>1. TakeRequest
  BY DEF Work, Serve, ServeFails, ConnectFails, ReloadFails, CallFails
<1>2. PICK request \in Messages :
        /\ request = Request /\ request \in Asked /\ Asked = Asked' \cup {request}
        /\ requests' \in Seq(Messages) /\ Len(requests') <= QueueLimit
  BY <1>1, TakeRequestFacts
<1>3. PICK reloaded \in Seq(Replies) :
        reloaded = Reloaded /\ \A a \in Elements(reloaded) : Answers(a, request)
  BY ReloadedAnswers
<1>4. PICK failure \in Replies :
        /\ failure = Reply(request, FALSE) /\ failure.kind = request.kind
        /\ Answers(failure, request)
  BY ReplyFacts, RefusalAnswers
<1>5. PICK failed \in Seq(Replies) :
        failed = Append(reloaded, failure) /\ Elements(failed) = Elements(reloaded) \cup {failure}
  BY AppendElements
<1>6. /\ \A a \in Elements(failed) : Answers(a, request)
      /\ \E a \in Elements(failed) : a.kind = request.kind
  BY <1>3, <1>4, <1>5
<1>7. request.kind \in Kind
  BY DEF Messages
<1>8. WorkLeaves
  BY DEF Work, Serve, ServeFails, ConnectFails, ReloadFails, CallFails
<1>9. dropped \subseteq Kind
  BY DEF QueueTypes
<1>10. CASE Serve
  <2>1. CASE Accepts(request)
    <3>1. Execute(request) /\ Respond(Append(reloaded, Answer(request))) /\ dropped' = dropped
      BY <1>2, <1>3, <1>10, <2>1, Zenon DEF Serve
    <3>2. PICK answer \in Replies :
            answer = Answer(request) /\ answer.kind = request.kind /\ Answers(answer, request)
      BY <2>1, <3>1, AnswerFacts, SuccessAnswers
    <3>3. PICK replies \in Seq(Replies) :
            /\ replies = Append(reloaded, answer)
            /\ Elements(replies) = Elements(reloaded) \cup {answer}
      BY AppendElements
    <3>4. /\ \A a \in Elements(replies) : Answers(a, request)
          /\ \E a \in Elements(replies) : a.kind = request.kind
      BY <1>3, <3>2, <3>3
    <3>5. responses' = responses \o replies /\ Len(responses') <= QueueLimit
      BY <3>1, <3>2, <3>3 DEF Respond
    <3>6. Worked(request, replies)
      BY <1>2, <1>8, <1>9, <2>1, <3>1, <3>4, <3>5, Zenon DEF Worked
    <3> QED  BY <3>6
  <2>2. CASE ~Accepts(request)
    <3>1. UNCHANGED daemonVars /\ Respond(failed) /\ dropped' = dropped
      BY <1>2, <1>3, <1>4, <1>5, <1>10, <2>2, Zenon DEF Serve
    <3>2. Worked(request, failed)
      BY <1>2, <1>6, <1>8, <1>9, <3>1, Zenon DEF Worked, Respond
    <3> QED  BY <3>2
  <2> QED  BY <2>1, <2>2
<1>11. CASE ServeFails
  <2>1. UNCHANGED daemonVars /\ Respond(failed) /\ dropped' = dropped
    BY <1>2, <1>3, <1>4, <1>5, <1>11, Zenon DEF ServeFails
  <2>2. Worked(request, failed)
    BY <1>2, <1>6, <1>8, <1>9, <2>1, Zenon DEF Worked, Respond
  <2> QED  BY <2>2
<1>12. CASE ConnectFails
  <2>1. PICK replies \in Seq(Replies) : replies = <<failure>> /\ Elements(replies) = {failure}
    BY OneElement
  <2>2. UNCHANGED daemonVars /\ Respond(replies) /\ dropped' = dropped
    BY <1>2, <1>4, <1>12, <2>1, Zenon DEF ConnectFails
  <2>3. /\ \A a \in Elements(replies) : Answers(a, request)
        /\ \E a \in Elements(replies) : a.kind = request.kind
    BY <1>4, <2>1
  <2>4. Worked(request, replies)
    BY <1>2, <1>8, <1>9, <2>2, <2>3, Zenon DEF Worked, Respond
  <2> QED  BY <2>4
<1>13. CASE ReloadFails
  <2>1. PICK plain \in Messages : plain = Plain("Profiles")
    BY PlainFacts DEF Kind
  <2>2. PICK answer \in Replies : answer = Reply(plain, FALSE) /\ Answers(answer, request)
    BY ReplyFacts, RefusalAnswers
  <2>3. PICK replies \in Seq(Replies) : replies = <<answer>> /\ Elements(replies) = {answer}
    BY OneElement
  <2>4. UNCHANGED daemonVars /\ Respond(replies) /\ dropped' = dropped \cup {request.kind}
    BY <1>2, <1>13, <2>1, <2>2, <2>3, Zenon DEF ReloadFails
  <2>5. \A a \in Elements(replies) : Answers(a, request)
    BY <2>2, <2>3
  <2>6. dropped \subseteq dropped' /\ dropped' \subseteq Kind /\ request.kind \in dropped'
    BY <1>7, <1>9, <2>4
  <2>7. Worked(request, replies)
    BY <1>2, <1>8, <2>4, <2>5, <2>6, Zenon DEF Worked, Respond
  <2> QED  BY <2>7
<1>14. CASE CallFails
  <2>1. Respond(failed) /\ dropped' = dropped
    BY <1>2, <1>3, <1>4, <1>5, <1>14, Zenon DEF CallFails
  <2>2. (Accepts(request) /\ Execute(request)) \/ UNCHANGED daemonVars
    BY <1>2, <1>14, Zenon DEF CallFails
  <2>3. Worked(request, failed)
    BY <1>2, <1>6, <1>8, <1>9, <2>1, <2>2, Zenon DEF Worked, Respond
  <2> QED  BY <2>3
<1> QED  BY <1>10, <1>11, <1>12, <1>13, <1>14 DEF Work

(* The lease is what the user wants of the connection there is. *)
LEMMA ConnectionWorks ==
  ASSUME QueueTypes, ConnectionTypes, PreviewIsRestored, Work
  PROVE  ConnectionTypes' /\ PreviewIsRestored'
<1>1. TakeRequest
  BY DEF Work, Serve, ServeFails, ConnectFails, ReloadFails, CallFails
<1>2. PICK request : request = Request
  OBVIOUS
<1>3. wantPreview' = WantPreviewAfter(request) /\ wantFreeze' = WantFreezeAfter(request)
  BY <1>1, <1>2 DEF TakeRequest, Remember
<1>4. wantPreview' \in BOOLEAN /\ wantFreeze' \in BOOLEAN
  BY <1>3 DEF ConnectionTypes, WantPreviewAfter, WantFreezeAfter
<1>5. failures' \in 0 .. MaxFailures
  <2>1. failures' = failures \/ Fails(clicks)
    BY DEF Work, Serve, ServeFails, ConnectFails, ReloadFails, CallFails
  <2> QED  BY <2>1, WorkerAssumption DEF ConnectionTypes, Fails
<1>6. request.kind # "PreviewStart" => Restored(request) \in BOOLEAN
                                       /\ (request.kind # "PreviewStop" => Restored(request) = wantPreview')
  BY <1>3, <1>4 DEF Restored, ConnectionTypes, PreviewIsRestored, WantPreviewAfter
<1>7. /\ connected' \in BOOLEAN /\ lease' \in BOOLEAN
      /\ connected' => (lease' <=> wantPreview')
  <2>1. CASE Serve
    <3>1. connected' = TRUE /\ lease' = LeaseAfter(request)
      BY <1>2, <2>1 DEF Serve
    <3> QED  BY <1>3, <1>4, <1>6, <3>1 DEF LeaseAfter, WantPreviewAfter
  <2>2. CASE ServeFails
    <3>1. /\ connected' = TRUE /\ lease' = Restored(request)
          /\ request.kind \notin {"PreviewStart", "PreviewStop"}
      BY <1>2, <2>2 DEF ServeFails
    <3> QED  BY <1>4, <1>6, <3>1
  <2>3. CASE ConnectFails \/ ReloadFails \/ CallFails
    BY <2>3 DEF ConnectFails, ReloadFails, CallFails, Disconnect
  <2> QED  BY <2>1, <2>2, <2>3 DEF Work
<1> QED  BY <1>4, <1>5, <1>7 DEF ConnectionTypes, PreviewIsRestored

LEMMA QueueElements ==
  ASSUME QueueTypes
  PROVE  Asked \subseteq Messages /\ Answered \subseteq Replies
BY DEF QueueTypes, Asked, Answered, Elements

(* What the worker does covers no less of the draft. *)
LEMMA WorkCovers ==
  ASSUME DaemonTypes, DraftTypes, DraftIsCovered, NEW request \in Messages, request \in Asked,
         draft # NoDocument, UNCHANGED <<draft, dirty, confirm, raced>>,
         Accepts(request) /\ Execute(request), request.kind = "Restore" => request.id # 0
  PROVE  /\ \A kept : Covered(kept) => Covered(kept)'
         /\ Covered(drafts[draft.id]) => Covered(drafts[draft.id])'
         /\ request.kind \in {"Commit", "Rollback"} => Covered({})'
         /\ request.kind = "Draft" => Covered(drafts[draft.id])'
<1>1. PICK d \in Profiles : d = draft.id
  BY DEF DraftTypes, Document
<1>2. PICK P : P = Published(d)
  OBVIOUS
<1>3. PICK Q : Q = Published(d)'
  OBVIOUS
<1>4. draft' = draft /\ raced' = raced
  OBVIOUS
<1>5. \A kept : Covered(kept) <=> draft.edits \subseteq kept \cup P \cup raced
  BY <1>1, <1>2 DEF Covered
<1>6. \A kept : Covered(kept)' <=> draft.edits \subseteq kept \cup Q \cup raced
  BY <1>1, <1>3, <1>4 DEF Covered, Published
<1>7. Covered(drafts[draft.id])' <=> draft.edits \subseteq drafts'[d] \cup Q \cup raced
  BY <1>1, <1>3, <1>4 DEF Covered, Published
<1>8. /\ P \subseteq Q
      /\ request.kind \in {"Commit", "Rollback"} =>
           request.id \in Profiles /\ (request.id = d => request.edits \subseteq Q)
      /\ request.kind = "Draft" /\ request.id = d => drafts'[d] = request.edits
      /\ \/ request.kind \in {"Commit", "Rollback", "Draft"} /\ request.id = d
         \/ drafts'[d] = drafts[d]
  <2>1. /\ \A p \in Profiles : Published(p) \subseteq Published(p)'
        /\ request.kind \in {"Commit", "Rollback"} =>
             request.id \in Profiles /\ request.edits \subseteq Published(request.id)'
        /\ request.kind = "Draft" /\ request.id \in Profiles => drafts'[request.id] = request.edits
        /\ \A p \in Profiles :
             \/ request.kind \in {"Commit", "Rollback", "Draft"} /\ request.id = p
             \/ drafts'[p] = drafts[p]
    BY ExecuteFacts
  <2> QED  BY <1>1, <1>2, <1>3, <2>1
<1>9. /\ request.kind \in {"Commit", "Draft"} =>
           Covered(IF request.id = draft.id THEN request.edits ELSE {})
      /\ request.kind = "Rollback" => Covered({})
  BY DEF DraftIsCovered, RequestCovers
<1>10. /\ request.kind \in {"Commit", "Draft"} /\ request.id = d =>
            draft.edits \subseteq request.edits \cup P \cup raced
       /\ request.kind \in {"Commit", "Draft"} /\ request.id # d => draft.edits \subseteq P \cup raced
       /\ request.kind = "Rollback" => draft.edits \subseteq P \cup raced
  BY <1>1, <1>5, <1>9
<1>11. \A kept : Covered(kept) => Covered(kept)'
  BY <1>5, <1>6, <1>8
<1>12. request.kind \in {"Commit", "Rollback"} => draft.edits \subseteq Q \cup raced
  BY <1>8, <1>10
<1>13. request.kind = "Draft" => draft.edits \subseteq drafts'[d] \cup Q \cup raced
  BY <1>8, <1>10
<1>14. Covered(drafts[draft.id]) => draft.edits \subseteq drafts'[d] \cup Q \cup raced
  <2>1. Covered(drafts[draft.id]) <=> draft.edits \subseteq drafts[d] \cup P \cup raced
    BY <1>1, <1>5
  <2> QED  BY <1>8, <1>12, <1>13, <2>1
<1>15. Covered({})' <=> draft.edits \subseteq Q \cup raced
  BY <1>6
<1> QED  BY <1>7, <1>11, <1>12, <1>13, <1>14, <1>15

LEMMA WorkKeeps ==
  ASSUME QueueTypes, DaemonTypes, DraftTypes, DocumentsAreStored, DraftIsCovered, PendingIsAnswered,
         NEW request \in Messages, NEW replies \in Seq(Replies), Worked(request, replies)
  PROVE  QueueTypes' /\ DaemonTypes' /\ DocumentsAreStored' /\ DraftIsCovered' /\ PendingIsAnswered'
<1>1. /\ UNCHANGED <<refused, listed, selected, draft, committed, dirty, draftSaved, shown, confirm>>
      /\ UNCHANGED <<pending, raced>>
  BY DEF Worked, WorkLeaves, editorVars
<1>2. /\ request \in Asked /\ Asked' \subseteq Asked /\ Asked = Asked' \cup {request}
      /\ (Accepts(request) /\ Execute(request)) \/ UNCHANGED <<live, store, drafts>>
      /\ dropped \subseteq dropped' /\ dropped' \subseteq Kind
      /\ request.kind \in dropped' \/ \E a \in Elements(replies) : a.kind = request.kind
      /\ \A a \in Elements(replies) : Answers(a, request)
  BY DEF Worked, daemonVars
<1>3. responses' \in Seq(Replies) /\ Answered' = Answered \cup Elements(replies)
  <2>1. responses \in Seq(Replies) /\ responses' = responses \o replies
    BY DEF Worked, QueueTypes
  <2> QED  BY <2>1, ConcatElements DEF Answered
<1>4. QueueTypes'
  BY <1>1, <1>2, <1>3 DEF Worked, QueueTypes
<1>5. request.kind = "Restore" => request.id # 0
  BY <1>2 DEF DocumentsAreStored
<1>6. DaemonTypes' /\ \A p \in Profiles : Published(p) \subseteq Published(p)'
  <2>1. CASE Accepts(request) /\ Execute(request)
    BY <1>5, <2>1, ExecuteFacts
  <2>2. CASE UNCHANGED <<live, store, drafts>>
    BY <2>2 DEF DaemonTypes, Published
  <2> QED  BY <1>2, <2>1, <2>2
<1>7. ASSUME NEW document \in Document \cup {NoDocument}, Stored(document)
      PROVE  Stored(document)'
  BY <1>6, <1>7 DEF Stored, Document
<1>8. Answered \subseteq Replies /\ Elements(replies) \subseteq Replies /\ Asked \subseteq Messages
  BY QueueElements DEF Elements
<1>9. DocumentsAreStored'
  <2>1. ASSUME NEW a \in Answered'
        PROVE  Stored(a.document)' /\ (a.ok /\ a.kind = "Profile" => a.document # NoDocument)
    <3>1. Stored(a.document) /\ (a.ok /\ a.kind = "Profile" => a.document # NoDocument)
      BY <1>2, <1>3 DEF DocumentsAreStored, Answers
    <3>2. PICK document \in Document \cup {NoDocument} : document = a.document
      BY <1>3, <1>8 DEF Replies
    <3>3. Stored(document)'
      BY <1>7, <3>1, <3>2
    <3> QED  BY <3>1, <3>2, <3>3
  <2>2. \A r \in Asked' : r.kind = "Restore" => r.id # 0
    BY <1>2 DEF DocumentsAreStored
  <2>3. Stored(committed)'
    <3>1. PICK document \in Document \cup {NoDocument} : document = committed
      BY DEF DraftTypes
    <3>2. Stored(document)'
      BY <1>7, <3>1 DEF DocumentsAreStored
    <3>3. committed' = document
      BY <1>1, <3>1
    <3> QED  BY <3>2, <3>3 DEF Stored
  <2>4. committed' # NoDocument => committed'.id = draft'.id
    BY <1>1 DEF DocumentsAreStored
  <2> QED  BY <2>1, <2>2, <2>3, <2>4 DEF DocumentsAreStored
<1>10. ASSUME NEW kind, Outstanding(kind)  PROVE Outstanding(kind)' \/ kind \in dropped'
  <2>1. \/ \E r \in Asked : r.kind = kind
        \/ \E a \in Answered : a.kind = kind
        \/ kind \in refused
    BY <1>10, Outstandings
  <2>2. \/ \E r \in Asked' : r.kind = kind
        \/ \E a \in Answered' : a.kind = kind
        \/ kind \in refused'
        \/ kind \in dropped'
    BY <1>1, <1>2, <1>3, <2>1
  <2> QED  BY <2>2 DEF Outstanding, Asked, Answered, Elements
<1>11. PendingIsAnswered'
  <2>1. ASSUME NEW kind \in pending'  PROVE Outstanding(kind)' \/ kind \in dropped'
    <3>1. Outstanding(kind) \/ kind \in dropped
      BY <1>1, <2>1 DEF PendingIsAnswered
    <3> QED  BY <1>2, <1>10, <3>1
  <2> QED  BY <2>1 DEF PendingIsAnswered
<1>12. ASSUME draft # NoDocument
       PROVE  /\ \A kept : Covered(kept) => Covered(kept)'
              /\ Covered(drafts[draft.id]) => Covered(drafts[draft.id])'
  <2>1. CASE Accepts(request) /\ Execute(request)
    BY <1>1, <1>2, <1>5, <1>12, <2>1, WorkCovers
  <2>2. CASE UNCHANGED <<live, store, drafts>>
    BY <1>1, <2>2 DEF Covered, Published
  <2> QED  BY <1>2, <2>1, <2>2
<1>13. ASSUME draft # NoDocument, NEW a \in Elements(replies)
       PROVE  AnswerCovers(a)'
  <2>1. CASE a.ok /\ a.kind \in Saves
    <3>1. a.kind = request.kind /\ Accepts(request) /\ Execute(request)
      BY <1>2, <2>1 DEF Answers
    <3>2. /\ request.kind \in {"Commit", "Rollback"} => Covered({})'
          /\ request.kind = "Draft" => Covered(drafts[draft.id])'
      BY <1>1, <1>2, <1>5, <1>13, <3>1, WorkCovers
    <3> QED  BY <3>1, <3>2 DEF AnswerCovers
  <2>2. CASE ~(a.ok /\ a.kind \in Saves)
    BY <2>2 DEF AnswerCovers, Saves
  <2> QED  BY <2>1, <2>2
<1>14. DraftIsCovered'
  <2> SUFFICES ASSUME draft # NoDocument
               PROVE  /\ (~dirty \/ confirm => Covered({}))'
                      /\ (\A r \in Asked : RequestCovers(r))'
                      /\ (\A a \in Answered : AnswerCovers(a))'
                      /\ (dirty /\ draftSaved =>
                           Covered(drafts[draft.id]) \/ Outstanding("Draft") \/ "Draft" \in dropped)'
    BY <1>1 DEF DraftIsCovered
  <2>1. (~dirty \/ confirm => Covered({}))'
    BY <1>1, <1>12 DEF DraftIsCovered
  <2>2. ASSUME NEW r \in Asked'  PROVE RequestCovers(r)'
    <3>1. RequestCovers(r)
      BY <1>2 DEF DraftIsCovered
    <3>2. PICK d : d = draft.id /\ d = draft'.id
      BY <1>1
    <3>3. \A kept : Covered(kept) => Covered(kept)'
      BY <1>12
    <3> QED  BY <3>1, <3>2, <3>3 DEF RequestCovers
  <2>3. ASSUME NEW a \in Answered'  PROVE AnswerCovers(a)'
    <3>1. CASE a \in Elements(replies)
      BY <1>13, <3>1
    <3>2. CASE a \in Answered
      <4>1. AnswerCovers(a)
        BY <3>2 DEF DraftIsCovered
      <4> QED  BY <1>12, <4>1 DEF AnswerCovers
    <3> QED  BY <1>3, <3>1, <3>2
  <2>4. (dirty /\ draftSaved =>
           Covered(drafts[draft.id]) \/ Outstanding("Draft") \/ "Draft" \in dropped)'
    BY <1>1, <1>2, <1>10, <1>12 DEF DraftIsCovered
  <2> QED  BY <2>1, <2>2, <2>3, <2>4
<1> QED  BY <1>4, <1>6, <1>9, <1>11, <1>14

-----------------------------------------------------------------------------
(* What a step of the editor does to what is known of the draft *)

LEMMA SoundParts ==
  EditorSound <=>
    /\ QueueTypes /\ ConnectionTypes /\ DraftTypes /\ SwitchTypes /\ DaemonTypes /\ CountTypes
    /\ PendingIsAnswered /\ DraftIsOfSelection /\ PreviewIsRestored
    /\ DocumentsAreStored /\ DraftIsCovered
BY TypesApart DEF EditorSound, EditorInvariant

(* The messages of the set were sent, and are queued or refused. *)
Sent(messages) ==
  /\ requests' \in Seq(Messages) /\ Len(requests') <= QueueLimit /\ refused' \subseteq Kind
  /\ Asked \subseteq Asked' /\ Asked' \subseteq Asked \cup messages
  /\ refused \subseteq refused'
  /\ \A m \in messages : m \in Asked' \/ m.kind \in refused'

LEMMA SentNone ==
  ASSUME QueueTypes, Quiet
  PROVE  Sent({})
BY DEF QueueTypes, Sent, Quiet, Asked

LEMMA SentOne ==
  ASSUME QueueTypes, NEW m \in Messages, SendAll(<<m>>)
  PROVE  Sent({m})
<1>1. PICK s \in Seq(Messages) : s = <<m>> /\ Elements(s) = {m}
  BY OneElement
<1>2. SendAll(s)
  BY <1>1
<1> QED  BY <1>1, <1>2, SendFacts DEF Sent

LEMMA TwoElements ==
  ASSUME NEW S, NEW x \in S, NEW y \in S
  PROVE  <<x, y>> \in Seq(S) /\ Elements(<<x, y>>) = {x, y}
<1>1. <<x, y>> \in Seq(S) /\ Len(<<x, y>>) = 2 /\ <<x, y>>[1] = x /\ <<x, y>>[2] = y
  OBVIOUS
<1>2. DOMAIN <<x, y>> = {1, 2}
  <2>1. DOMAIN <<x, y>> = 1 .. 2
    BY <1>1
  <2> QED  BY <2>1
<1> QED  BY <1>1, <1>2 DEF Elements

LEMMA ThreeElements ==
  ASSUME NEW S, NEW x \in S, NEW y \in S, NEW z \in S
  PROVE  <<x, y, z>> \in Seq(S) /\ Elements(<<x, y, z>>) = {x, y, z} /\ Len(<<x, y, z>>) = 3
<1>1. /\ <<x, y, z>> \in Seq(S) /\ Len(<<x, y, z>>) = 3
      /\ <<x, y, z>>[1] = x /\ <<x, y, z>>[2] = y /\ <<x, y, z>>[3] = z
  OBVIOUS
<1>2. DOMAIN <<x, y, z>> = {1, 2, 3}
  <2>1. DOMAIN <<x, y, z>> = 1 .. 3
    BY <1>1
  <2> QED  BY <2>1
<1> QED  BY <1>1, <1>2 DEF Elements

LEMMA SentTwo ==
  ASSUME QueueTypes, NEW m \in Messages, NEW n \in Messages, SendAll(<<m, n>>)
  PROVE  Sent({m, n})
<1>1. PICK t \in Seq(Messages) : t = <<m, n>> /\ Elements(t) = {m, n}
  BY TwoElements
<1>2. SendAll(t)
  BY <1>1
<1> QED  BY <1>1, <1>2, SendFacts DEF Sent

LEMMA OutstandingAfter ==
  ASSUME NEW messages, Sent(messages), NEW kind,
         \A a \in Answered : a.kind = kind => a \in Answered'
  PROVE  /\ Outstanding(kind) => Outstanding(kind)'
         /\ \A m \in messages : m.kind = kind => Outstanding(kind)'
<1>1. Outstanding(kind)' <=> \/ \E r \in Asked' : r.kind = kind
                             \/ \E a \in Answered' : a.kind = kind
                             \/ kind \in refused'
  BY DEF Outstanding, Asked, Answered, Elements
<1> QED  BY <1>1, Outstandings DEF Sent

LEMMA DocumentsKept ==
  ASSUME EditorSound, NEW messages, Asked' \subseteq Asked \cup messages, Answered' \subseteq Answered,
         store' = store, \A m \in messages : m.kind = "Restore" => m.id # 0,
         \/ committed' = NoDocument
         \/ committed' = committed /\ draft'.id = draft.id
         \/ Stored(committed') /\ committed'.id = draft'.id
  PROVE  DocumentsAreStored'
<1>1. DocumentsAreStored
  BY SoundParts
<1>2. ASSUME NEW document, Stored(document)  PROVE Stored(document)'
  BY <1>2 DEF Stored, Published
<1>3. Stored(committed)'
  <2>1. PICK document : document = committed'
    OBVIOUS
  <2>2. Stored(document)
    BY <1>1, <2>1 DEF DocumentsAreStored, Stored
  <2>3. Stored(document)'
    BY <1>2, <2>2
  <2> QED  BY <2>1, <2>3 DEF Stored
<1>4. \A a \in Answered' : Stored(a.document)'
  <2>1. ASSUME NEW a \in Answered'  PROVE Stored(a.document)'
    <3>1. PICK document : document = a.document
      OBVIOUS
    <3>2. Stored(document)
      BY <1>1, <2>1, <3>1 DEF DocumentsAreStored
    <3>3. Stored(document)'
      BY <1>2, <3>2
    <3> QED  BY <3>1, <3>3
  <2> QED  BY <2>1
<1>5. /\ \A a \in Answered' : a.ok /\ a.kind = "Profile" => a.document # NoDocument
      /\ \A r \in Asked' : r.kind = "Restore" => r.id # 0
      /\ committed' # NoDocument => committed'.id = draft'.id
  BY <1>1 DEF DocumentsAreStored
<1> QED  BY <1>3, <1>4, <1>5 DEF DocumentsAreStored

(* A draft that is given up, or is what a revision holds. *)
LEMMA DraftLoaded ==
  ASSUME NEW document, draft' = document, Stored(document), store' = store
  PROVE  DraftIsCovered'
<1>1. ASSUME document # NoDocument, NEW kept  PROVE Covered(kept)'
  <2>1. document.edits \subseteq Published(document.id)
    BY <1>1 DEF Stored
  <2> QED  BY <2>1 DEF Covered, Published
<1>2. CASE document = NoDocument
  BY <1>2 DEF DraftIsCovered, NoDocument
<1>3. CASE document # NoDocument
  <2>1. Covered({})'
    BY <1>1, <1>3
  <2>2. \A r \in Asked' : RequestCovers(r)'
    <3>1. ASSUME NEW r \in Asked'  PROVE RequestCovers(r)'
      <4>1. Covered(IF r.id = draft.id THEN r.edits ELSE {})'
        BY <2>1 DEF Covered
      <4> QED  BY <2>1, <4>1 DEF RequestCovers
    <3> QED  BY <3>1
  <2>3. Covered(drafts[draft.id])'
    BY <2>1 DEF Covered
  <2>4. \A a \in Answered' : AnswerCovers(a)'
    BY <2>1, <2>3 DEF AnswerCovers
  <2> QED  BY <2>1, <2>2, <2>3, <2>4 DEF DraftIsCovered
<1> QED  BY <1>2, <1>3

(* A draft that stays as it is. *)
LEMMA DraftStays ==
  ASSUME EditorSound, NEW messages, Asked' \subseteq Asked \cup messages, Answered' \subseteq Answered,
         UNCHANGED <<draft, raced, store, drafts, dropped>>,
         draft # NoDocument =>
           /\ \A m \in messages : m.kind \in Saves => RequestCovers(m)
           /\ ~dirty' \/ confirm' => ~dirty \/ confirm \/ Covered({})
           /\ dirty' /\ draftSaved' =>
                \/ Covered(drafts[draft.id])
                \/ Outstanding("Draft")'
                \/ dirty /\ draftSaved /\ (Outstanding("Draft") => Outstanding("Draft")')
  PROVE  DraftIsCovered'
<1>1. DraftIsCovered
  BY SoundParts
<1>2. \A kept : Covered(kept) <=> Covered(kept)'
  BY DEF Covered, Published
<1>3. Covered(drafts[draft.id]) <=> Covered(drafts[draft.id])'
  BY DEF Covered, Published
<1>4. CASE draft # NoDocument
  <2>1. (~dirty \/ confirm => Covered({}))'
    BY <1>1, <1>2, <1>4 DEF DraftIsCovered
  <2>2. ASSUME NEW r \in Asked'  PROVE RequestCovers(r)'
    <3>1. RequestCovers(r) \/ r.kind \notin Saves
      BY <1>1, <1>4 DEF DraftIsCovered
    <3>2. \A kept : Covered(kept) => Covered(kept)'
      BY <1>2
    <3>3. CASE RequestCovers(r)
      BY <3>2, <3>3 DEF RequestCovers
    <3>4. CASE r.kind \notin Saves
      BY <3>4 DEF RequestCovers, Saves
    <3> QED  BY <3>1, <3>3, <3>4
  <2>3. ASSUME NEW a \in Answered'  PROVE AnswerCovers(a)'
    <3>1. AnswerCovers(a)
      BY <1>1, <1>4 DEF DraftIsCovered
    <3> QED  BY <1>2, <1>3, <3>1 DEF AnswerCovers
  <2>4. (dirty /\ draftSaved =>
           Covered(drafts[draft.id]) \/ Outstanding("Draft") \/ "Draft" \in dropped)'
    BY <1>1, <1>3, <1>4 DEF DraftIsCovered
  <2> QED  BY <2>1, <2>2, <2>3, <2>4 DEF DraftIsCovered
<1>5. CASE draft = NoDocument
  BY <1>5 DEF DraftIsCovered, NoDocument
<1> QED  BY <1>4, <1>5

(* An edit to the draft, or to a document that is loaded. *)
LEMMA DraftEdited ==
  ASSUME EditorSound, NEW messages, Asked' \subseteq Asked \cup messages, Answered' \subseteq Answered,
         NEW document \in Document, document = draft \/ Stored(document),
         draft' = [document EXCEPT !.edits = @ \cup {edits + 1}],
         raced' = (IF Racing THEN raced \cup {edits + 1} ELSE raced),
         dirty' = TRUE, draftSaved' = FALSE, UNCHANGED <<confirm, store, drafts>>,
         \A m \in messages : m.kind \notin Saves
  PROVE  DraftIsCovered'
<1>1. DraftIsCovered
  BY SoundParts
<1>2. draft'.id = document.id /\ draft'.edits = document.edits \cup {edits + 1}
  BY DEF Document
<1>3. document # NoDocument
  BY EditorAssumption DEF Document, NoDocument
<1>4. CASE Racing
  <2>1. \A kept : document.edits \subseteq kept \cup Published(document.id) \cup raced
                    => Covered(kept)'
    BY <1>2, <1>4 DEF Covered, Published
  <2>2. CASE document = draft
    <3>1. \A kept : Covered(kept) => Covered(kept)'
      BY <2>1, <2>2 DEF Covered
    <3>2. Covered(drafts[draft.id]) => Covered(drafts[draft.id])'
      <4>1. draft'.id = draft.id
        BY <1>2, <2>2
      <4>2. PICK d : d = drafts[draft.id] /\ d = drafts'[draft'.id]
        BY <4>1
      <4>3. Covered(d) => Covered(d)'
        BY <3>1
      <4> QED  BY <4>2, <4>3 DEF Covered
    <3>3. confirm' => Covered({})'
      BY <1>1, <1>3, <2>2, <3>1 DEF DraftIsCovered
    <3>4. ASSUME NEW r \in Asked'  PROVE RequestCovers(r)'
      <4>1. RequestCovers(r) \/ r.kind \notin Saves
        BY <1>1, <1>3, <2>2 DEF DraftIsCovered
      <4>2. draft'.id = draft.id
        BY <1>2, <2>2
      <4>3. CASE RequestCovers(r)
        BY <3>1, <4>2, <4>3 DEF RequestCovers
      <4>4. CASE r.kind \notin Saves
        BY <4>4 DEF RequestCovers, Saves
      <4> QED  BY <4>1, <4>3, <4>4
    <3>5. ASSUME NEW a \in Answered'  PROVE AnswerCovers(a)'
      <4>1. AnswerCovers(a)
        BY <1>1, <1>3, <2>2 DEF DraftIsCovered
      <4> QED  BY <3>1, <3>2, <4>1 DEF AnswerCovers
    <3> QED  BY <3>3, <3>4, <3>5 DEF DraftIsCovered
  <2>3. CASE Stored(document)
    <3>1. \A kept : Covered(kept)'
      BY <1>3, <2>1, <2>3 DEF Stored
    <3>2. Covered(drafts[draft.id])'
      <4>1. PICK d : d = drafts'[draft'.id]
        OBVIOUS
      <4> QED  BY <3>1, <4>1 DEF Covered
    <3>3. ASSUME NEW r \in Asked'  PROVE RequestCovers(r)'
      <4>1. PICK kept : kept = IF r.id = draft'.id THEN r.edits ELSE {}
        OBVIOUS
      <4>2. Covered(IF r.id = draft.id THEN r.edits ELSE {})'
        BY <3>1, <4>1 DEF Covered
      <4> QED  BY <3>1, <4>2 DEF RequestCovers
    <3>4. ASSUME NEW a \in Answered'  PROVE AnswerCovers(a)'
      BY <3>1, <3>2 DEF AnswerCovers
    <3> QED  BY <3>1, <3>3, <3>4 DEF DraftIsCovered
  <2> QED  BY <2>2, <2>3
<1>5. CASE ~Racing
  <2>1. ~confirm /\ \A k \in Saves : ~Outstanding(k)
    BY <1>5 DEF Racing, Saves
  <2>2. /\ \A r \in Asked : r.kind \notin Saves
        /\ \A a \in Answered : a.kind \notin Saves
    BY <2>1, Outstandings
  <2>3. \A r \in Asked' : RequestCovers(r)'
    BY <2>2 DEF RequestCovers, Saves
  <2>4. \A a \in Answered' : AnswerCovers(a)'
    BY <2>2 DEF AnswerCovers, Saves
  <2> QED  BY <2>1, <2>3, <2>4 DEF DraftIsCovered
<1> QED  BY <1>4, <1>5

LEMMA MessageFacts ==
  ASSUME NEW kind \in Kind, NEW document \in Document \cup {NoDocument}
  PROVE  /\ Message(kind, document) \in Messages
         /\ Message(kind, document).kind = kind /\ Message(kind, document).id = document.id
         /\ Message(kind, document).edits = document.edits
BY DEF Message, Messages, Document, NoDocument, Content

(* What the steps of the editor disturb. *)
EditorPart ==
  /\ QueueTypes /\ DraftTypes /\ PendingIsAnswered /\ DraftIsOfSelection
  /\ DocumentsAreStored /\ DraftIsCovered

(* A step that sends and leaves the draft alone. *)
LEMMA SendingKeeps ==
  ASSUME EditorSound, NEW messages, Sent(messages),
         UNCHANGED <<responses, editorVars, raced, store, drafts, dropped>>,
         pending' \subseteq pending \cup {m.kind : m \in messages},
         \A m \in messages :
           /\ m.kind = "Restore" => m.id # 0
           /\ draft # NoDocument /\ m.kind \in Saves => RequestCovers(m)
  PROVE  EditorPart'
<1>1. /\ QueueTypes /\ DraftTypes /\ PendingIsAnswered /\ DraftIsOfSelection
      /\ UNCHANGED <<listed, selected, draft, committed, dirty, draftSaved, shown, confirm>>
  BY SoundParts DEF editorVars
<1>2. Answered' = Answered /\ Asked' \subseteq Asked \cup messages
  BY DEF Answered, Sent
<1>3. QueueTypes'
  BY <1>1 DEF QueueTypes, Sent
<1>4. DraftTypes' /\ DraftIsOfSelection'
  BY <1>1 DEF DraftTypes, DraftIsOfSelection
<1>5. \A kind : /\ Outstanding(kind) => Outstanding(kind)'
                /\ \A m \in messages : m.kind = kind => Outstanding(kind)'
  BY <1>2, OutstandingAfter
<1>6. PendingIsAnswered'
  <2>1. ASSUME NEW kind \in pending'  PROVE Outstanding(kind)' \/ kind \in dropped'
    <3>1. CASE kind \in pending
      BY <1>1, <1>5, <3>1 DEF PendingIsAnswered
    <3>2. CASE kind \notin pending
      BY <1>5, <3>2
    <3> QED  BY <3>1, <3>2
  <2> QED  BY <2>1 DEF PendingIsAnswered
<1>7. DocumentsAreStored'
  BY <1>1, <1>2, DocumentsKept
<1>8. DraftIsCovered'
  BY <1>1, <1>2, <1>5, DraftStays
<1> QED  BY <1>3, <1>4, <1>6, <1>7, <1>8 DEF EditorPart

LEMMA OnlySendsKeeps ==
  ASSUME EditorSound, NEW m \in Messages, OnlySends(m),
         m.kind = "Restore" => m.id # 0,
         draft # NoDocument /\ m.kind \in Saves => RequestCovers(m)
  PROVE  EditorPart'
<1>1. Sent({m})
  BY SoundParts, SentOne DEF OnlySends
<1>2. UNCHANGED <<responses, editorVars, raced, store, drafts, dropped, pending>>
  BY DEF OnlySends, Click, Edited, daemonVars
<1> QED  BY <1>1, <1>2, SendingKeeps

LEMMA RequestedKeeps ==
  ASSUME EditorSound, NEW m \in Messages, Requested(m.kind, m), m.kind \notin Saves, m.kind # "Restore"
  PROVE  EditorPart'
<1>1. Sent({m})
  BY SoundParts, SentOne DEF Requested
<1>2. /\ UNCHANGED <<responses, editorVars, raced, store, drafts, dropped>>
      /\ pending' = pending \cup {m.kind}
  BY DEF Requested, Click, Edited, daemonVars
<1> QED  BY <1>1, <1>2, SendingKeeps

(* A step that sends nothing about what is saved, and waits for no more.   *)
LEMMA StepKeeps ==
  ASSUME EditorSound, NEW messages, Sent(messages), \A m \in messages : m.kind # "Restore",
         UNCHANGED <<responses, pending, dropped, store>>,
         DraftTypes', DraftIsOfSelection', DraftIsCovered',
         \/ committed' = NoDocument
         \/ committed' = committed /\ draft'.id = draft.id
         \/ Stored(committed') /\ committed'.id = draft'.id
  PROVE  EditorPart'
<1>1. QueueTypes /\ PendingIsAnswered
  BY SoundParts
<1>2. Answered' = Answered /\ Asked' \subseteq Asked \cup messages
  BY DEF Answered, Sent
<1>3. QueueTypes'
  BY <1>1 DEF QueueTypes, Sent
<1>4. \A kind : Outstanding(kind) => Outstanding(kind)'
  BY <1>2, OutstandingAfter
<1>5. PendingIsAnswered'
  BY <1>1, <1>4 DEF PendingIsAnswered
<1>6. DocumentsAreStored'
  BY <1>2, DocumentsKept
<1> QED  BY <1>3, <1>5, <1>6 DEF EditorPart

(* select_profile *)
LEMMA SelectSends ==
  ASSUME QueueTypes, NEW p \in Profiles, Select(p, <<>>)
  PROVE  \E m \in Messages : m.kind = "Profile" /\ Sent({m})
<1>1. PICK m \in Messages : m = About("Profile", p) /\ m.kind = "Profile"
  BY PlainFacts DEF Kind
<1>2. Append(<<>>, m) = <<m>>
  OBVIOUS
<1>3. SendAll(<<m>>)
  BY <1>1, <1>2 DEF Select
<1> QED  BY <1>1, <1>3, SentOne

LEMMA SelectDraft ==
  ASSUME NEW p \in Profiles, Select(p, <<>>), listed' \subseteq Profiles, p \in listed',
         store' = store
  PROVE  DraftTypes' /\ DraftIsOfSelection' /\ DraftIsCovered' /\ committed' = NoDocument
<1>1. /\ selected' = p /\ draft' = NoDocument /\ committed' = NoDocument
      /\ dirty' = FALSE /\ draftSaved' = FALSE /\ shown' = <<>> /\ confirm' = FALSE
  BY DEF Select
<1>2. <<>> \in Seq(Content)
  OBVIOUS
<1>3. DraftIsCovered'
  BY <1>1, DraftLoaded DEF Stored
<1>4. DraftTypes'
  BY <1>1, <1>2 DEF DraftTypes
<1> QED  BY <1>1, <1>3, <1>4 DEF DraftIsOfSelection

LEMMA ClickProfileKeeps ==
  ASSUME EditorSound, ClickProfile
  PROVE  EditorPart'
<1>1. PICK p \in listed : Click /\ Select(p, <<>>) /\ UNCHANGED <<listed, switchVars, pending>>
  BY DEF ClickProfile
<1>2. p \in Profiles /\ listed \subseteq Profiles /\ QueueTypes
  BY SoundParts DEF DraftTypes
<1>3. PICK m \in Messages : m.kind = "Profile" /\ Sent({m})
  BY <1>1, <1>2, SelectSends
<1>4. UNCHANGED <<responses, pending, dropped, store>>
  BY <1>1 DEF Click, daemonVars
<1>5. DraftTypes' /\ DraftIsOfSelection' /\ DraftIsCovered' /\ committed' = NoDocument
  BY <1>1, <1>2, <1>4, SelectDraft
<1> QED  BY <1>3, <1>4, <1>5, StepKeeps

(* A document with one more edit. *)
LEMMA EditFacts ==
  ASSUME CountTypes, NEW document \in Document, clicks < MaxEvents
  PROVE  /\ [document EXCEPT !.edits = @ \cup {edits + 1}] \in Document
         /\ [document EXCEPT !.edits = @ \cup {edits + 1}].id = document.id
<1>1. edits + 1 \in 1 .. MaxEvents
  BY WorkerAssumption DEF CountTypes
<1>2. document.edits \cup {edits + 1} \in Content
  BY <1>1 DEF Document, Content
<1> QED  BY <1>2 DEF Document

LEMMA EditKeeps ==
  ASSUME EditorSound, Edit
  PROVE  EditorPart'
<1>1. /\ QueueTypes /\ DraftTypes /\ CountTypes /\ ConnectionTypes /\ DraftIsOfSelection
  BY SoundParts
<1>2. draft # NoDocument /\ draft \in Document
  BY <1>1 DEF Edit, DraftTypes
<1>3. /\ clicks + failures < MaxEvents
      /\ draft' = [draft EXCEPT !.edits = @ \cup {edits + 1}]
      /\ raced' = (IF Racing THEN raced \cup {edits + 1} ELSE raced)
      /\ dirty' = TRUE /\ draftSaved' = FALSE
      /\ UNCHANGED <<listed, selected, committed, shown, confirm, pending>>
      /\ UNCHANGED <<responses, dropped, store, drafts>>
  BY DEF Edit, Click, daemonVars
<1>4. clicks < MaxEvents
  BY <1>1, <1>3, WorkerAssumption DEF CountTypes, ConnectionTypes
<1>5. draft' \in Document /\ draft'.id = draft.id
  BY <1>1, <1>2, <1>3, <1>4, EditFacts
<1>6. Sent({})
  BY <1>1, SentNone DEF Edit
<1>7. Asked' \subseteq Asked \cup {} /\ Answered' \subseteq Answered
  BY <1>3, <1>6 DEF Sent, Answered
<1>8. DraftIsCovered'
  <2>1. PICK document \in Document : document = draft
    BY <1>2
  <2>2. draft' = [document EXCEPT !.edits = @ \cup {edits + 1}]
    BY <1>3, <2>1
  <2>3. PICK none : none = {}
    OBVIOUS
  <2>4. Asked' \subseteq Asked \cup none /\ \A m \in none : m.kind \notin Saves
    BY <1>7, <2>3
  <2> QED  BY <1>3, <1>7, <2>1, <2>2, <2>4, DraftEdited
<1>9. draft' # NoDocument
  BY <1>5, EditorAssumption DEF Document, NoDocument
<1>10. DraftTypes'
  BY <1>1, <1>3, <1>5, <1>9 DEF DraftTypes
<1>11. DraftIsOfSelection'
  BY <1>1, <1>2, <1>3, <1>5 DEF DraftIsOfSelection
<1> QED  BY <1>3, <1>5, <1>6, <1>8, <1>10, <1>11, StepKeeps

LEMMA RevertKeeps ==
  ASSUME EditorSound, Revert
  PROVE  EditorPart'
<1>1. QueueTypes /\ DraftTypes /\ DraftIsOfSelection /\ DocumentsAreStored
  BY SoundParts
<1>2. PICK document : document = committed
  OBVIOUS
<1>3. /\ draft # NoDocument /\ document # NoDocument
      /\ draft' = document /\ committed' = document /\ dirty' = FALSE
      /\ UNCHANGED <<listed, selected, draftSaved, shown, confirm, pending>>
      /\ UNCHANGED <<responses, dropped, store>>
  BY <1>2 DEF Revert, Click, daemonVars
<1>4. Stored(document) /\ document.id = draft.id
  BY <1>1, <1>2, <1>3 DEF DocumentsAreStored
<1>5. Sent({})
  BY <1>1, SentNone DEF Revert
<1>6. DraftIsCovered'
  BY <1>3, <1>4, DraftLoaded
<1>7. DraftTypes'
  BY <1>1, <1>2, <1>3 DEF DraftTypes
<1>8. DraftIsOfSelection'
  BY <1>1, <1>3, <1>4 DEF DraftIsOfSelection
<1>9. committed' = committed /\ draft'.id = draft.id
  BY <1>2, <1>3, <1>4
<1> QED  BY <1>3, <1>5, <1>6, <1>7, <1>8, <1>9, StepKeeps

(* Asking for a rollback, and taking it back *)
LEMMA ConfirmKeeps ==
  ASSUME EditorSound, AskRollback \/ CancelRollback
  PROVE  EditorPart'
<1>1. QueueTypes /\ DraftTypes /\ DraftIsOfSelection
  BY SoundParts
<1>2. /\ confirm' \in BOOLEAN /\ (confirm' => ~dirty) /\ Quiet
      /\ UNCHANGED <<listed, selected, draft, committed, dirty, draftSaved, shown, pending>>
      /\ UNCHANGED <<responses, dropped, store, drafts, raced>>
  BY DEF AskRollback, CancelRollback, Click, Edited, daemonVars
<1>3. PICK none : none = {}
  OBVIOUS
<1>4. Sent(none) /\ Answered' = Answered
  BY <1>1, <1>2, <1>3, SentNone DEF Answered
<1>5. Asked' \subseteq Asked \cup none /\ \A m \in none : m.kind \in Saves => RequestCovers(m)
  BY <1>3, <1>4 DEF Sent
<1>6. Outstanding("Draft") => Outstanding("Draft")'
  BY <1>4, OutstandingAfter
<1>7. DraftIsCovered'
  BY <1>2, <1>4, <1>5, <1>6, DraftStays
<1>8. DraftTypes' /\ DraftIsOfSelection'
  BY <1>1, <1>2 DEF DraftTypes, DraftIsOfSelection
<1>9. \A m \in none : m.kind # "Restore"
  BY <1>3
<1> QED  BY <1>2, <1>4, <1>7, <1>8, <1>9, StepKeeps

LEMMA SaveKeeps ==
  ASSUME EditorSound, Save
  PROVE  EditorPart'
<1>1. draft # NoDocument /\ draft \in Document \cup {NoDocument}
  BY SoundParts DEF Save, DraftTypes
<1>2. PICK m \in Messages :
        /\ m = Message("Commit", draft) /\ m.kind = "Commit"
        /\ m.id = draft.id /\ m.edits = draft.edits
  BY <1>1, MessageFacts DEF Kind
<1>3. OnlySends(m)
  BY <1>2 DEF Save
<1>4. RequestCovers(m)
  BY <1>2 DEF RequestCovers, Covered
<1> QED  BY <1>2, <1>3, <1>4, OnlySendsKeeps

LEMMA ConfirmRollbackKeeps ==
  ASSUME EditorSound, ConfirmRollback
  PROVE  EditorPart'
<1>1. draft # NoDocument /\ confirm /\ DraftTypes /\ DraftIsCovered
  BY SoundParts DEF ConfirmRollback
<1>2. PICK i \in DOMAIN shown : OnlySends([Message("Rollback", draft) EXCEPT !.edits = shown[i]])
  BY DEF ConfirmRollback
<1>3. shown[i] \in Content
  BY <1>1, <1>2 DEF DraftTypes
<1>4. PICK n \in Messages : n = Message("Rollback", draft) /\ n.kind = "Rollback"
  BY <1>1, MessageFacts DEF Kind, DraftTypes
<1>5. PICK m \in Messages : m = [n EXCEPT !.edits = shown[i]] /\ m.kind = "Rollback"
  <2>1. /\ [n EXCEPT !.edits = shown[i]] \in Messages
        /\ [n EXCEPT !.edits = shown[i]].kind = "Rollback"
    BY <1>3, <1>4 DEF Messages
  <2> QED  BY <2>1
<1>6. OnlySends(m)
  BY <1>2, <1>4, <1>5
<1>7. RequestCovers(m)
  BY <1>1, <1>5 DEF RequestCovers, DraftIsCovered
<1> QED  BY <1>5, <1>6, <1>7, OnlySendsKeeps

(* The other controls send what is not about the draft. *)
LEMMA ControlKeeps ==
  ASSUME EditorSound,
         \/ Trash \/ Restore \/ CaptureTemplate \/ UsePanel \/ RefreshList \/ TestDetector
         \/ SelectSource \/ BrowseCatalog \/ TogglePreview \/ ToggleFreeze
  PROVE  EditorPart'
<1>1. DraftTypes
  BY SoundParts
<1>2. draft.id \in Profiles \cup {0}
  BY <1>1 DEF DraftTypes, Document, NoDocument
<1>3. CASE Trash \/ CaptureTemplate \/ UsePanel
  <2>1. PICK kind \in {"Trash", "TemplateCapture", "Panel"} : OnlySends(About(kind, draft.id))
    BY <1>3 DEF Trash, CaptureTemplate, UsePanel, EvaluateReplay, UseRoutes, UseRecipes,
                UseCollector, ReviewItem, AskPanel
  <2>2. PICK m \in Messages : m = About(kind, draft.id) /\ m.kind = kind
    BY <1>2, PlainFacts DEF Kind
  <2> QED  BY <2>1, <2>2, OnlySendsKeeps DEF Saves
<1>4. CASE Restore
  <2>1. PICK p \in Profiles : OnlySends(About("Restore", p))
    BY <1>4 DEF Restore
  <2>2. PICK m \in Messages : m = About("Restore", p) /\ m.kind = "Restore" /\ m.id = p
    BY PlainFacts DEF Kind
  <2>3. m.id # 0
    BY <2>2, EditorAssumption
  <2> QED  BY <2>1, <2>2, <2>3, OnlySendsKeeps DEF Saves
<1>5. CASE RefreshList \/ SelectSource \/ BrowseCatalog
  <2>1. PICK kind \in {"Profiles", "CaptureSelect", "CatalogList"} : Requested(kind, Plain(kind))
    BY <1>5 DEF RefreshList, SelectSource, BrowseCatalog
  <2>2. PICK m \in Messages : m = Plain(kind) /\ m.kind = kind
    BY PlainFacts DEF Kind
  <2>3. Requested(m.kind, m)
    BY <2>1, <2>2
  <2> QED  BY <2>2, <2>3, RequestedKeeps DEF Saves
<1>6. CASE TestDetector
  <2>1. PICK m \in Messages : m = About("DetectorTest", draft.id) /\ m.kind = "DetectorTest"
    BY <1>2, PlainFacts DEF Kind
  <2>2. Requested(m.kind, m)
    BY <1>6, <2>1 DEF TestDetector
  <2> QED  BY <2>1, <2>2, RequestedKeeps DEF Saves
<1>7. CASE TogglePreview \/ ToggleFreeze
  <2>1. PICK kind \in {"PreviewStop", "PreviewStart", "Unfreeze", "Freeze"} :
          /\ SendAll(<<Plain(kind)>>)
          /\ UNCHANGED <<responses, editorVars, raced, store, drafts, dropped, pending>>
    <3>1. CASE TogglePreview
      <4>1. PICK kind \in {"PreviewStop", "PreviewStart"} :
              kind = IF previewOn THEN "PreviewStop" ELSE "PreviewStart"
        OBVIOUS
      <4> QED  BY <3>1, <4>1 DEF TogglePreview, Click, Edited, daemonVars
    <3>2. CASE ToggleFreeze
      <4>1. PICK kind \in {"Unfreeze", "Freeze"} : kind = IF frozen THEN "Unfreeze" ELSE "Freeze"
        OBVIOUS
      <4> QED  BY <3>2, <4>1 DEF ToggleFreeze, Click, Edited, daemonVars
    <3> QED  BY <1>7, <3>1, <3>2
  <2>2. PICK m \in Messages : m = Plain(kind) /\ m.kind = kind
    BY PlainFacts DEF Kind
  <2>3. Sent({m})
    BY <2>1, <2>2, SoundParts, SentOne
  <2>4. m.kind \notin Saves /\ m.kind # "Restore"
    BY <2>1, <2>2 DEF Saves
  <2> QED  BY <2>1, <2>3, <2>4, SendingKeeps
<1> QED  BY <1>3, <1>4, <1>5, <1>6, <1>7

LEMMA UserKeeps ==
  ASSUME EditorSound, User
  PROVE  EditorPart'
<1>1. \/ ClickProfile \/ Edit \/ Save \/ Revert \/ AskRollback \/ CancelRollback \/ ConfirmRollback
      \/ Trash \/ Restore \/ CaptureTemplate \/ UsePanel \/ RefreshList \/ TestDetector
      \/ SelectSource \/ BrowseCatalog \/ TogglePreview \/ ToggleFreeze
  BY DEF User
<1> QED  BY <1>1, ClickProfileKeeps, EditKeeps, SaveKeeps, RevertKeeps, ConfirmKeeps,
            ConfirmRollbackKeeps, ControlKeeps

(* schedule *)
LEMMA ScheduleKeeps ==
  ASSUME EditorSound, Schedule
  PROVE  EditorPart'
<1>1. QueueTypes /\ DraftTypes /\ DraftIsOfSelection
  BY SoundParts
<1>2. CASE PollStatus \/ PollPreview
  <2>1. PICK kind \in {"Status", "PreviewFrame"} : Poll(kind)
    BY <1>2 DEF PollStatus, PollPreview
  <2>2. PICK m \in Messages : m = Plain(kind) /\ m.kind = kind
    BY PlainFacts DEF Kind
  <2>3. SendAll(<<m>>)
    BY <2>1, <2>2 DEF Poll
  <2>4. Sent({m})
    BY <1>1, <2>3, SentOne
  <2>5. /\ UNCHANGED <<responses, editorVars, raced, store, drafts, dropped>>
        /\ pending' \subseteq pending \cup {m.kind}
    BY <2>1, <2>2 DEF Poll, ScheduleLeaves, daemonVars
  <2>6. m.kind \notin Saves /\ m.kind # "Restore"
    BY <2>1, <2>2 DEF Saves
  <2> QED  BY <2>4, <2>5, <2>6, SendingKeeps
<1>3. CASE AutoSave
  <2>1. /\ dirty /\ draftSaved' = TRUE
        /\ UNCHANGED <<listed, selected, draft, committed, dirty, shown, confirm, pending>>
        /\ UNCHANGED <<responses, dropped, store, drafts, raced>>
    BY <1>3 DEF AutoSave, ScheduleLeaves, daemonVars
  <2>2. \E messages \in SUBSET Messages :
          /\ Sent(messages)
          /\ \A m \in messages : m.kind = "Draft" /\ RequestCovers(m)
          /\ draft # NoDocument => messages # {}
    <3>1. CASE draft # NoDocument
      <4>1. PICK m \in Messages :
              /\ m = Message("Draft", draft) /\ m.kind = "Draft"
              /\ m.id = draft.id /\ m.edits = draft.edits
        BY <1>1, MessageFacts DEF Kind, DraftTypes
      <4>2. Sent({m})
        BY <1>1, <1>3, <3>1, <4>1, SentOne DEF AutoSave
      <4>3. RequestCovers(m)
        BY <4>1 DEF RequestCovers, Covered
      <4> QED  BY <4>1, <4>2, <4>3
    <3>2. CASE draft = NoDocument
      <4>1. Sent({})
        BY <1>1, <1>3, <3>2, SentNone DEF AutoSave
      <4> QED  BY <3>2, <4>1
    <3> QED  BY <3>1, <3>2
  <2>3. PICK messages \in SUBSET Messages :
          /\ Sent(messages)
          /\ \A m \in messages : m.kind = "Draft" /\ RequestCovers(m)
          /\ draft # NoDocument => messages # {}
    BY <2>2
  <2>4. Answered' = Answered /\ Asked' \subseteq Asked \cup messages
    BY <2>1, <2>3 DEF Answered, Sent
  <2>5. draft # NoDocument => Outstanding("Draft")'
    BY <2>3, <2>4, OutstandingAfter
  <2>6. DraftIsCovered'
    BY <2>1, <2>3, <2>4, <2>5, DraftStays
  <2>7. DraftTypes' /\ DraftIsOfSelection'
    BY <1>1, <2>1 DEF DraftTypes, DraftIsOfSelection
  <2> QED  BY <2>1, <2>3, <2>6, <2>7, StepKeeps
<1> QED  BY <1>2, <1>3 DEF Schedule

-----------------------------------------------------------------------------
(* Reading the answers *)

(* An answer of another kind than those of the polls that wait is read.    *)
LEMMA ReadingKeeps ==
  ASSUME EditorSound, NEW kind, QueueTypes',
         \A k : k # kind => (Outstanding(k) => Outstanding(k)'),
         pending' \subseteq pending \ {kind}, dropped' = dropped
  PROVE  PendingIsAnswered'
<1>1. PendingIsAnswered
  BY SoundParts
<1>2. ASSUME NEW k \in pending'  PROVE Outstanding(k)' \/ k \in dropped'
  BY <1>1 DEF PendingIsAnswered
<1> QED  BY <1>2 DEF PendingIsAnswered

(* A failure or a refusal *)
LEMMA ErrorKeeps ==
  ASSUME EditorSound, NEW kind, ApplyError(kind), QueueTypes', Asked' = Asked, Answered' \subseteq Answered,
         \A k : k # kind => (Outstanding(k) => Outstanding(k)'),
         UNCHANGED <<store, drafts, dropped>>, pending' \subseteq pending \ {kind}
  PROVE  EditorPart'
<1>1. DraftTypes /\ DraftIsOfSelection
  BY SoundParts
<1>2. /\ UNCHANGED <<listed, selected, draft, committed, shown, confirm, raced>>
      /\ \/ dirty' = TRUE /\ draftSaved' = FALSE
         \/ kind # "Draft" /\ dirty' = dirty /\ draftSaved' = draftSaved
  BY DEF ApplyError, editorVars, Unedited
<1>3. DraftTypes' /\ DraftIsOfSelection'
  BY <1>1, <1>2 DEF DraftTypes, DraftIsOfSelection
<1>4. PendingIsAnswered'
  BY ReadingKeeps
<1>5. PICK none : none = {}
  OBVIOUS
<1>6. Asked' \subseteq Asked \cup none /\ \A m \in none : m.kind \in Saves => RequestCovers(m)
  BY <1>5
<1>7. DocumentsAreStored'
  BY <1>2, <1>5, <1>6, DocumentsKept
<1>8. DraftIsCovered'
  BY <1>2, <1>6, DraftStays
<1> QED  BY <1>3, <1>4, <1>7, <1>8 DEF EditorPart

LEMMA RefusalKeeps ==
  ASSUME EditorSound, DrainRefusal
  PROVE  EditorPart'
<1>1. PICK kind \in refused :
        refused' = refused \ {kind} /\ ApplyError(kind) /\ pending' = pending \ {kind}
  BY DEF DrainRefusal
<1>2. UNCHANGED <<requests, responses, store, drafts, dropped>>
  BY DEF DrainRefusal, DrainLeaves, daemonVars
<1>3. QueueTypes' /\ Asked' = Asked /\ Answered' = Answered
  BY <1>1, <1>2, SoundParts DEF QueueTypes, Asked, Answered
<1>4. ASSUME NEW k, k # kind, Outstanding(k)  PROVE Outstanding(k)'
  BY <1>1, <1>2, <1>4 DEF Outstanding
<1> QED  BY <1>1, <1>2, <1>3, <1>4, ErrorKeeps

LEMMA LeastProfile ==
  ASSUME NEW T \in SUBSET Nat, T # {}
  PROVE  \E x \in T : \A y \in T : x <= y
<1> DEFINE less == OpToRel(<, Nat)
<1>1. \A x, y \in Nat : <<x, y>> \in less <=> x < y
  BY Zenon DEF OpToRel
<1>2. PICK R : R = less /\ IsWellFoundedOn(R, Nat)
  BY NatLessThanWellFounded, Zenon
<1> HIDE DEF less
<1>3. PICK x \in T : \A y \in T : <<y, x>> \notin R
  BY <1>2, WFMin
<1>4. ASSUME NEW y \in T  PROVE x <= y
  <2>1. ~(y < x)
    BY <1>1, <1>2, <1>3
  <2> QED  BY <2>1
<1> QED  BY <1>4

(* What an answer leaves of the draft, when it is not taken for an edit. *)
Settles ==
  /\ DraftTypes' /\ DraftIsOfSelection' /\ DraftIsCovered'
  /\ \/ committed' = NoDocument
     \/ committed' = committed /\ draft'.id = draft.id
     \/ Stored(committed') /\ committed'.id = draft'.id
  /\ draft' = draft \/ ~dirty \/ clicks' # clicks

LEMMA SelectedFacts ==
  ASSUME DraftTypes, NEW list \in SUBSET Profiles
  PROVE  SelectedIn(list) \in list \cup {0} /\ (dirty => SelectedIn(list) \in {selected, 0})
<1>1. CASE selected \in list
  <2>1. SelectedIn(list) = selected
    BY <1>1, Zenon DEF SelectedIn
  <2> QED  BY <1>1, <2>1
<1>2. CASE selected \notin list /\ ~dirty /\ list # {}
  <2>1. PICK x \in list : \A y \in list : x <= y
    BY <1>2, LeastProfile, EditorAssumption
  <2>2. SelectedIn(list) = CHOOSE p \in list : \A q \in list : p <= q
    BY <1>2, Zenon DEF SelectedIn
  <2>3. SelectedIn(list) \in list
    BY <2>1, <2>2
  <2> QED  BY <1>2, <2>3
<1>3. CASE selected \notin list /\ ~(~dirty /\ list # {})
  <2>1. SelectedIn(list) = 0
    BY <1>3, Zenon DEF SelectedIn
  <2> QED  BY <2>1
<1> QED  BY <1>1, <1>2, <1>3

(* apply_profiles *)
LEMMA ProfilesSettle ==
  ASSUME EditorSound, NEW list \in SUBSET Profiles, ApplyProfiles(list), Answered' \subseteq Answered,
         UNCHANGED <<raced, store, drafts, dropped>>,
         \A a \in Answered : a.kind = "Draft" => a \in Answered'
  PROVE  Settles /\ \E messages \in SUBSET Messages :
                      Sent(messages) /\ \A m \in messages : m.kind = "Profile"
<1>1. QueueTypes /\ DraftTypes /\ DraftIsOfSelection
  BY SoundParts
<1>2. PICK next \in list \cup {0} :
        next = SelectedIn(list) /\ (dirty => next \in {selected, 0})
  BY <1>1, SelectedFacts
<1>3. listed' = list
  BY DEF ApplyProfiles
<1>4. ASSUME NEW messages \in SUBSET Messages, Sent(messages), \A m \in messages : m.kind = "Profile",
             UNCHANGED <<draft, committed, dirty, draftSaved, shown, confirm>>,
             selected' = next, draft # NoDocument => draft.id = next \/ next = 0
      PROVE  Settles
  <2>1. Asked' \subseteq Asked \cup messages
    BY <1>4 DEF Sent
  <2>2. Outstanding("Draft") => Outstanding("Draft")'
    BY <1>4, OutstandingAfter
  <2>3. \A m \in messages : m.kind \notin Saves
    BY <1>4 DEF Saves
  <2>4. DraftIsCovered'
    BY <1>4, <2>1, <2>2, <2>3, DraftStays
  <2>5. DraftTypes'
    BY <1>1, <1>2, <1>3, <1>4 DEF DraftTypes
  <2>6. DraftIsOfSelection'
    BY <1>4 DEF DraftIsOfSelection
  <2> QED  BY <1>4, <2>4, <2>5, <2>6 DEF Settles
<1>5. CASE dirty
  <2>1. /\ selected' = next /\ Quiet
        /\ UNCHANGED <<draft, committed, dirty, draftSaved, shown, confirm>>
    BY <1>2, <1>5, Zenon DEF ApplyProfiles
  <2>2. PICK none \in SUBSET Messages : none = {} /\ Sent(none)
    BY <1>1, <2>1, SentNone
  <2>3. draft # NoDocument => draft.id = next \/ next = 0
    BY <1>1, <1>2, <1>5 DEF DraftIsOfSelection
  <2>4. \A m \in none : m.kind = "Profile"
    BY <2>2
  <2> QED  BY <1>4, <2>1, <2>2, <2>3, <2>4
<1>6. CASE ~dirty /\ next = 0
  <2>1. selected' = 0 /\ Quiet /\ NoSelection
    BY <1>2, <1>6, Zenon DEF ApplyProfiles
  <2>2. PICK none \in SUBSET Messages : none = {} /\ Sent(none)
    BY <1>1, <2>1, SentNone
  <2>3. /\ draft' = NoDocument /\ committed' = NoDocument
        /\ UNCHANGED <<dirty, draftSaved, shown, confirm>>
    BY <2>1 DEF NoSelection
  <2>4. DraftIsCovered'
    BY <2>3, DraftLoaded DEF Stored
  <2>5. DraftTypes' /\ DraftIsOfSelection'
    BY <1>1, <1>3, <2>1, <2>3 DEF DraftTypes, DraftIsOfSelection
  <2> QED  BY <1>6, <2>2, <2>3, <2>4, <2>5 DEF Settles
<1>7. CASE ~dirty /\ next # 0 /\ draft.id = next
  <2>1. /\ selected' = next
        /\ SendAll(<<About("Profile", next)>>)
        /\ UNCHANGED <<draft, committed, dirty, draftSaved, shown, confirm>>
    BY <1>2, <1>7, Zenon DEF ApplyProfiles
  <2>2. PICK m \in Messages : m = About("Profile", next) /\ m.kind = "Profile"
    BY <1>2, PlainFacts DEF Kind
  <2>3. Sent({m}) /\ {m} \in SUBSET Messages /\ \A n \in {m} : n.kind = "Profile"
    BY <1>1, <2>1, <2>2, SentOne
  <2> QED  BY <1>4, <1>7, <2>1, <2>3
<1>8. CASE ~dirty /\ next # 0 /\ draft.id # next
  <2>1. Select(next, <<>>)
    BY <1>2, <1>8, Zenon DEF ApplyProfiles
  <2>2. next \in Profiles
    BY <1>2, <1>8
  <2>3. PICK m \in Messages : m.kind = "Profile" /\ Sent({m})
    BY <1>1, <2>1, <2>2, SelectSends
  <2>4. DraftTypes' /\ DraftIsOfSelection' /\ DraftIsCovered' /\ committed' = NoDocument
    BY <1>2, <1>3, <1>8, <2>1, <2>2, SelectDraft
  <2>5. {m} \in SUBSET Messages /\ \A n \in {m} : n.kind = "Profile"
    BY <2>3
  <2> QED  BY <1>8, <2>3, <2>4, <2>5 DEF Settles
<1> QED  BY <1>5, <1>6, <1>7, <1>8

(* The draft stays, and what is known of it. *)
LEMMA StayingSettles ==
  ASSUME EditorSound, NEW messages, Sent(messages), \A m \in messages : m.kind \notin Saves,
         Answered' \subseteq Answered,
         UNCHANGED <<listed, selected, draft, committed, raced, store, drafts, dropped>>,
         dirty' \in BOOLEAN, draftSaved' \in BOOLEAN, confirm' \in BOOLEAN, shown' \in Seq(Content),
         draft # NoDocument =>
           /\ ~dirty' \/ confirm' => ~dirty \/ confirm \/ Covered({})
           /\ dirty' /\ draftSaved' =>
                \/ Covered(drafts[draft.id])
                \/ dirty /\ draftSaved /\ (Outstanding("Draft") => Outstanding("Draft")')
  PROVE  Settles
<1>1. DraftTypes /\ DraftIsOfSelection
  BY SoundParts
<1>2. Asked' \subseteq Asked \cup messages
  BY DEF Sent
<1>3. DraftIsCovered'
  BY <1>2, DraftStays
<1>4. DraftTypes' /\ DraftIsOfSelection'
  BY <1>1 DEF DraftTypes, DraftIsOfSelection
<1> QED  BY <1>3, <1>4 DEF Settles

(* A document that gets an edit *)
LEMMA EditBySettles ==
  ASSUME EditorSound, NEW messages, Sent(messages), \A m \in messages : m.kind \notin Saves,
         Answered' \subseteq Answered, NEW document \in Document, EditBy(document),
         UNCHANGED <<listed, selected, shown, confirm, store, drafts, dropped>>,
         document = draft \/ Stored(document),
         document.id = draft.id \/ document.id = selected,
         \/ document.id = draft.id /\ committed' = committed
         \/ Stored(committed') /\ committed' = document
  PROVE  Settles
<1>1. DraftTypes /\ DraftIsOfSelection /\ CountTypes /\ ConnectionTypes
  BY SoundParts
<1>2. /\ clicks + failures < MaxEvents /\ clicks' = clicks + 1
      /\ draft' = [document EXCEPT !.edits = @ \cup {edits + 1}]
      /\ dirty' = TRUE /\ draftSaved' = FALSE
      /\ raced' = (IF Racing THEN raced \cup {edits + 1} ELSE raced)
  BY DEF EditBy
<1>3. clicks < MaxEvents /\ clicks \in Nat
  BY <1>1, <1>2, WorkerAssumption DEF CountTypes, ConnectionTypes
<1>4. draft' \in Document /\ draft'.id = document.id
  BY <1>1, <1>2, <1>3, EditFacts
<1>5. Asked' \subseteq Asked \cup messages
  BY DEF Sent
<1>6. DraftIsCovered'
  BY <1>2, <1>5, DraftEdited
<1>7. document # NoDocument /\ draft' # NoDocument
  BY <1>4, EditorAssumption DEF Document, NoDocument
<1>8. DraftTypes'
  BY <1>1, <1>2, <1>4, <1>7 DEF DraftTypes
<1>9. DraftIsOfSelection'
  <2>1. document.id \in Profiles /\ 0 \notin Profiles
    BY EditorAssumption DEF Document
  <2>2. draft.id = document.id => draft # NoDocument
    BY <2>1 DEF NoDocument
  <2> QED  BY <1>1, <1>4, <2>2 DEF DraftIsOfSelection
<1>10. clicks' # clicks
  BY <1>2, <1>3
<1>11. \/ committed' = committed /\ draft'.id = draft.id
       \/ Stored(committed') /\ committed'.id = draft'.id
  BY <1>4
<1> QED  BY <1>6, <1>8, <1>9, <1>10, <1>11 DEF Settles

(* What the editor sends after an answer has no saves, and restores nothing. *)
Harmless(messages) ==
  messages \subseteq Messages /\ \A m \in messages : m.kind \notin Saves /\ m.kind # "Restore"

(* apply_profile *)
LEMMA ProfileSettles ==
  ASSUME EditorSound, NEW document \in Document, Stored(document), ApplyProfile(document),
         Answered' \subseteq Answered, \A a \in Answered : a.kind = "Draft" => a \in Answered',
         UNCHANGED <<store, drafts, dropped>>
  PROVE  Settles /\ \E messages : Sent(messages) /\ Harmless(messages)
<1>1. QueueTypes /\ DraftTypes /\ DraftIsOfSelection /\ CountTypes
  BY SoundParts
<1>2. UNCHANGED <<listed, selected, shown, confirm>>
  BY DEF ApplyProfile
<1>3. CASE Ignored(document)
  <2>1. Quiet /\ Unedited /\ UNCHANGED <<draft, committed, dirty, draftSaved>>
    BY <1>3, Zenon DEF ApplyProfile
  <2>2. PICK none : none = {} /\ Sent(none)
    BY <1>1, <2>1, SentNone
  <2>3. Harmless(none) /\ \A m \in none : m.kind \notin Saves
    BY <2>2 DEF Harmless
  <2>4. Outstanding("Draft") => Outstanding("Draft")'
    BY <2>2, OutstandingAfter
  <2>5. Settles
    BY <1>1, <1>2, <2>1, <2>2, <2>3, <2>4, StayingSettles DEF Unedited, DraftTypes
  <2> QED  BY <2>2, <2>3, <2>5
<1>4. CASE ~Ignored(document)
  <2>1. selected = document.id /\ ~dirty
    BY <1>4 DEF Ignored
  <2>2. /\ committed' = document
        /\ \/ draft' = document /\ Unedited /\ UNCHANGED <<dirty, draftSaved>>
           \/ EditBy(document)
        /\ SendAll(<<About("History", document.id), About("Panel", document.id)>>)
    BY <1>4, Zenon DEF ApplyProfile
  <2>3. document.id \in Profiles /\ document # NoDocument
    BY EditorAssumption DEF Document, NoDocument
  <2>4. PICK m \in Messages : m = About("History", document.id) /\ m.kind = "History"
    BY <2>3, PlainFacts DEF Kind
  <2>5. PICK n \in Messages : n = About("Panel", document.id) /\ n.kind = "Panel"
    BY <2>3, PlainFacts DEF Kind
  <2>6. PICK messages : messages = {m, n} /\ Sent(messages)
    BY <1>1, <2>2, <2>4, <2>5, SentTwo
  <2>7. Harmless(messages) /\ \A x \in messages : x.kind \notin Saves
    BY <2>4, <2>5, <2>6 DEF Harmless, Saves
  <2>8. CASE EditBy(document)
    <3>1. Settles
      BY <1>2, <2>1, <2>2, <2>6, <2>7, <2>8, EditBySettles
    <3> QED  BY <2>6, <2>7, <3>1
  <2>9. CASE draft' = document /\ Unedited /\ UNCHANGED <<dirty, draftSaved>>
    <3>1. DraftIsCovered'
      BY <2>9, DraftLoaded
    <3>2. DraftTypes'
      BY <1>1, <1>2, <2>2, <2>3, <2>9 DEF DraftTypes
    <3>3. DraftIsOfSelection'
      BY <1>2, <2>1, <2>9 DEF DraftIsOfSelection
    <3>4. Settles
      BY <2>1, <2>2, <2>9, <3>1, <3>2, <3>3 DEF Settles
    <3> QED  BY <2>6, <2>7, <3>4
  <2> QED  BY <2>2, <2>8, <2>9
<1> QED  BY <1>3, <1>4

(* A commit or a rollback was accepted *)
LEMMA SavedSettles ==
  ASSUME EditorSound, NEW kind \in {"Commit", "Rollback"}, ApplySaved(kind),
         Answered' \subseteq Answered, UNCHANGED <<raced, store, drafts, dropped>>,
         draft # NoDocument => Covered({})
  PROVE  Settles /\ \E messages : Sent(messages) /\ Harmless(messages)
<1>1. QueueTypes /\ DraftTypes
  BY SoundParts
<1>2. /\ dirty' = FALSE /\ draftSaved' \in BOOLEAN /\ confirm' \in BOOLEAN
      /\ UNCHANGED <<listed, selected, draft, committed, shown>>
  BY <1>1 DEF ApplySaved, DraftTypes
<1>3. PICK m \in Messages : m = Plain("Profiles") /\ m.kind = "Profiles"
  BY PlainFacts DEF Kind
<1>4. draft.id \in Profiles \cup {0}
  BY <1>1 DEF DraftTypes, Document, NoDocument
<1>5. PICK n \in Messages : n = About("History", draft.id) /\ n.kind = "History"
  BY <1>4, PlainFacts DEF Kind
<1>6. \/ SendAll(<<m>> \o <<n>>)
      \/ SendAll(<<m>> \o <<>>)
  BY <1>3, <1>5 DEF ApplySaved
<1>7. ASSUME NEW rest \in Seq(Messages), Elements(rest) \subseteq {n}, SendAll(<<m>> \o rest)
      PROVE  \E messages \in SUBSET {m, n} : Sent(messages)
  <2>1. PICK s \in Seq(Messages) : s = <<m>> /\ Elements(s) = {m}
    BY OneElement
  <2>2. PICK t \in Seq(Messages) : t = s \o rest /\ Elements(t) = Elements(s) \cup Elements(rest)
    <3>1. s \o rest \in Seq(Messages) /\ Elements(s \o rest) = Elements(s) \cup Elements(rest)
      BY <1>7, ConcatElements
    <3> QED  BY <3>1
  <2>3. SendAll(t)
    BY <1>7, <2>1, <2>2
  <2>4. Sent(Elements(t))
    BY <1>1, <2>3, SendFacts DEF Sent
  <2> QED  BY <1>7, <2>1, <2>2, <2>4
<1>8. \E messages \in SUBSET {m, n} : Sent(messages)
  <2>1. <<n>> \in Seq(Messages) /\ Elements(<<n>>) = {n}
    BY OneElement
  <2>2. <<>> \in Seq(Messages) /\ Elements(<<>>) = {}
    BY DEF Elements
  <2> QED  BY <1>6, <1>7, <2>1, <2>2
<1>9. PICK messages \in SUBSET {m, n} : Sent(messages)
  BY <1>8
<1>10. Harmless(messages) /\ \A x \in messages : x.kind \notin Saves
  BY <1>3, <1>5, <1>9 DEF Harmless, Saves
<1>11. Settles
  BY <1>1, <1>2, <1>9, <1>10, StayingSettles DEF DraftTypes
<1> QED  BY <1>9, <1>10, <1>11

(* The answers that leave the draft alone *)
LEMMA OtherSettles ==
  ASSUME EditorSound, NEW messages, Sent(messages), Harmless(messages),
         Answered' \subseteq Answered, \A a \in Answered : a.kind = "Draft" => a \in Answered',
         UNCHANGED <<editorVars, raced, store, drafts, dropped>>
  PROVE  Settles
<1>1. DraftTypes /\ UNCHANGED <<listed, selected, draft, committed, dirty, draftSaved, shown, confirm>>
  BY SoundParts DEF editorVars
<1>2. \A m \in messages : m.kind \notin Saves
  BY DEF Harmless
<1>3. Outstanding("Draft") => Outstanding("Draft")'
  BY OutstandingAfter
<1> QED  BY <1>1, <1>2, <1>3, StayingSettles DEF DraftTypes

LEMMA NoneSent ==
  ASSUME EditorSound, Quiet
  PROVE  Sent({}) /\ Harmless({})
BY SoundParts, SentNone DEF Harmless

LEMMA AnswerSettles ==
  ASSUME EditorSound, NEW response \in Replies, response \in Answered, response.ok, ApplyOk(response),
         Answered = Answered' \cup {response}, UNCHANGED <<store, drafts, dropped>>
  PROVE  Settles /\ \E messages : Sent(messages) /\ Harmless(messages)
<1>1. QueueTypes /\ DraftTypes /\ DocumentsAreStored /\ DraftIsCovered
  BY SoundParts
<1>2. Answered' \subseteq Answered
  OBVIOUS
<1>3. response.kind # "Draft" => \A a \in Answered : a.kind = "Draft" => a \in Answered'
  OBVIOUS
<1>4. CASE response.kind = "Profiles"
  <2>1. ApplyProfiles(response.list) /\ Unedited
    BY <1>4, Zenon DEF ApplyOk
  <2>2. PICK list \in SUBSET Profiles : list = response.list
    BY DEF Replies
  <2>3. ApplyProfiles(list) /\ raced' = raced
    BY <2>1, <2>2 DEF Unedited
  <2>4. PICK messages \in SUBSET Messages :
          Settles /\ Sent(messages) /\ \A m \in messages : m.kind = "Profile"
    BY <1>2, <1>3, <1>4, <2>3, ProfilesSettle
  <2> QED  BY <2>4 DEF Harmless, Saves
<1>5. CASE response.kind = "Profile"
  <2>1. ApplyProfile(response.document)
    BY <1>5, Zenon DEF ApplyOk
  <2>2. PICK document \in Document : document = response.document /\ Stored(document)
    <3>1. response.document # NoDocument /\ Stored(response.document)
      BY <1>1, <1>5 DEF DocumentsAreStored
    <3>2. response.document \in Document
      BY <3>1 DEF Replies
    <3> QED  BY <3>1, <3>2
  <2>3. ApplyProfile(document)
    BY <2>1, <2>2
  <2> QED  BY <1>2, <1>3, <1>5, <2>2, <2>3, ProfileSettles
<1>6. CASE response.kind = "History"
  <2>1. /\ shown' = response.revisions /\ Quiet /\ Unedited
        /\ UNCHANGED <<listed, selected, draft, committed, dirty, draftSaved, confirm>>
    BY <1>6, Zenon DEF ApplyOk
  <2>2. shown' \in Seq(Content)
    BY <2>1 DEF Replies
  <2>3. PICK none : none = {} /\ Sent(none) /\ Harmless(none)
    BY <2>1, NoneSent
  <2>4. Outstanding("Draft") => Outstanding("Draft")'
    BY <1>3, <1>6, <2>3, OutstandingAfter
  <2>5. \A m \in none : m.kind \notin Saves
    BY <2>3
  <2>6. Settles
    BY <1>1, <1>2, <2>1, <2>2, <2>3, <2>4, <2>5, StayingSettles DEF Unedited, DraftTypes
  <2> QED  BY <2>3, <2>6
<1>7. CASE response.kind \in {"Commit", "Rollback"}
  <2>1. ApplySaved(response.kind) /\ Unedited
    BY <1>7, Zenon DEF ApplyOk
  <2>2. draft # NoDocument => Covered({})
    BY <1>1, <1>7 DEF DraftIsCovered, AnswerCovers
  <2>3. PICK kind \in {"Commit", "Rollback"} : kind = response.kind
    BY <1>7
  <2>4. ApplySaved(kind) /\ raced' = raced
    BY <2>1, <2>3 DEF Unedited
  <2> QED  BY <1>2, <2>2, <2>4, SavedSettles
<1>8. CASE response.kind = "Draft"
  <2>1. /\ draftSaved' = TRUE /\ Quiet /\ Unedited
        /\ UNCHANGED <<listed, selected, draft, committed, dirty, shown, confirm>>
    BY <1>8, Zenon DEF ApplyOk
  <2>2. draft # NoDocument => Covered(drafts[draft.id])
    BY <1>1, <1>8 DEF DraftIsCovered, AnswerCovers
  <2>3. PICK none : none = {} /\ Sent(none) /\ Harmless(none)
    BY <2>1, NoneSent
  <2>4. \A m \in none : m.kind \notin Saves
    BY <2>3
  <2>5. Settles
    BY <1>1, <1>2, <2>1, <2>2, <2>3, <2>4, StayingSettles DEF Unedited, DraftTypes
  <2> QED  BY <2>3, <2>5
<1>9. CASE response.kind \in {"Trash", "Restore"}
  <2>1. SendAll(<<Plain("Profiles")>>) /\ Unedited /\ UNCHANGED editorVars
    BY <1>9, Zenon DEF ApplyOk
  <2>2. PICK m \in Messages : m = Plain("Profiles") /\ m.kind = "Profiles"
    BY PlainFacts DEF Kind
  <2>3. PICK messages : messages = {m} /\ Sent(messages)
    BY <1>1, <2>1, <2>2, SentOne
  <2>4. Harmless(messages)
    BY <2>2, <2>3 DEF Harmless, Saves
  <2>5. Settles
    BY <1>2, <1>3, <1>9, <2>1, <2>3, <2>4, OtherSettles DEF Unedited
  <2> QED  BY <2>3, <2>4, <2>5
<1>10. CASE response.kind = "TemplateCapture"
  <2>1. ApplyTemplate
    BY <1>10, Zenon DEF ApplyOk
  <2>2. PICK none : none = {} /\ Sent(none) /\ Harmless(none)
    BY <2>1, NoneSent DEF ApplyTemplate
  <2>3. CASE UNCHANGED <<editorVars, edits, raced, clicks>>
    <3>1. Settles
      BY <1>2, <1>3, <1>10, <2>2, <2>3, OtherSettles
    <3> QED  BY <2>2, <3>1
  <2>4. CASE /\ draft # NoDocument /\ EditBy(draft)
             /\ UNCHANGED <<listed, selected, committed, shown, confirm>>
    <3>1. PICK document \in Document : document = draft
      BY <1>1, <2>4 DEF DraftTypes
    <3>2. EditBy(document)
      BY <2>4, <3>1
    <3>3. \A m \in none : m.kind \notin Saves
      BY <2>2
    <3>4. Settles
      BY <1>2, <2>2, <2>4, <3>1, <3>2, <3>3, EditBySettles
    <3> QED  BY <2>2, <3>4
  <2> QED  BY <2>1, <2>3, <2>4 DEF ApplyTemplate
<1>11. CASE response.kind \notin {"Profiles", "Profile", "History", "Commit", "Rollback", "Draft",
                                  "Trash", "Restore", "TemplateCapture"}
  <2>1. Quiet /\ Unedited /\ UNCHANGED editorVars
    BY <1>11, Zenon DEF ApplyOk
  <2>2. PICK none : none = {} /\ Sent(none) /\ Harmless(none)
    BY <2>1, NoneSent
  <2>3. Settles
    BY <1>2, <1>3, <1>11, <2>1, <2>2, OtherSettles DEF Unedited
  <2> QED  BY <2>2, <2>3
<1> QED  BY <1>4, <1>5, <1>6, <1>7, <1>8, <1>9, <1>10, <1>11

LEMMA ResponseFacts ==
  ASSUME EditorSound, DrainResponse
  PROVE  \E response \in Replies :
           /\ response \in Answered /\ Answered = Answered' \cup {response}
           /\ responses' \in Seq(Replies) /\ Len(responses') <= QueueLimit
           /\ response.ok => ApplyOk(response)
           /\ ~response.ok => ApplyError(response.kind) /\ Quiet
           /\ pending' \subseteq pending \ {response.kind}
           /\ UNCHANGED <<store, drafts, dropped>>
<1>1. PICK s \in Seq(Replies) : s = responses /\ s # <<>> /\ Len(s) <= QueueLimit
  BY SoundParts DEF QueueTypes, DrainResponse
<1>2. /\ Tail(s) \in Seq(Replies) /\ Head(s) \in Replies /\ Len(Tail(s)) <= Len(s)
      /\ Elements(s) = Elements(Tail(s)) \cup {Head(s)}
  BY <1>1, TailElements
<1>3. PICK response \in Replies : response = Head(s)
  BY <1>2
<1>4. responses' = Tail(s)
  BY <1>1 DEF DrainResponse
<1>5. /\ (IF response.ok THEN ApplyOk(response) ELSE ApplyError(response.kind) /\ Quiet)
      /\ pending' = PendingAfter(response)
  BY <1>1, <1>3, Zenon DEF DrainResponse
<1>6. Len(responses') <= QueueLimit
  <2>1. Len(s) \in Nat /\ Len(Tail(s)) \in Nat /\ QueueLimit \in Nat
    BY <1>2, WorkerAssumption
  <2> QED  BY <1>1, <1>2, <1>4, <2>1
<1>7. pending' \subseteq pending \ {response.kind}
  BY <1>5 DEF PendingAfter
<1>8. UNCHANGED <<store, drafts, dropped>>
  BY DEF DrainResponse, DrainLeaves, daemonVars
<1> QED  BY <1>1, <1>2, <1>3, <1>4, <1>5, <1>6, <1>7, <1>8 DEF Answered

LEMMA ResponseKeeps ==
  ASSUME EditorSound, DrainResponse
  PROVE  EditorPart' /\ (draft' = draft \/ ~dirty \/ clicks' # clicks)
<1>1. PICK response \in Replies :
        /\ response \in Answered /\ Answered = Answered' \cup {response}
        /\ responses' \in Seq(Replies) /\ Len(responses') <= QueueLimit
        /\ response.ok => ApplyOk(response)
        /\ ~response.ok => ApplyError(response.kind) /\ Quiet
        /\ pending' \subseteq pending \ {response.kind}
        /\ UNCHANGED <<store, drafts, dropped>>
  BY ResponseFacts
<1>2. QueueTypes /\ Answered' \subseteq Answered
  BY <1>1, SoundParts
<1>3. \A k : k # response.kind => \A a \in Answered : a.kind = k => a \in Answered'
  BY <1>1
<1>4. ASSUME NEW messages, Sent(messages)
      PROVE  QueueTypes' /\ \A k : k # response.kind => (Outstanding(k) => Outstanding(k)')
  <2>1. QueueTypes'
    BY <1>1, <1>2, <1>4 DEF QueueTypes, Sent
  <2>2. ASSUME NEW k, k # response.kind  PROVE Outstanding(k) => Outstanding(k)'
    <3>1. \A a \in Answered : a.kind = k => a \in Answered'
      BY <1>3, <2>2
    <3> QED  BY <1>4, <3>1, OutstandingAfter
  <2> QED  BY <2>1, <2>2
<1>5. CASE response.ok
  <2>1. Settles /\ \E messages : Sent(messages) /\ Harmless(messages)
    BY <1>1, <1>5, AnswerSettles
  <2>2. PICK messages : Sent(messages) /\ Harmless(messages)
    BY <2>1
  <2>3. QueueTypes' /\ \A k : k # response.kind => (Outstanding(k) => Outstanding(k)')
    BY <1>4, <2>2
  <2>4. PendingIsAnswered'
    BY <1>1, <2>3, ReadingKeeps
  <2>5. Asked' \subseteq Asked \cup messages /\ \A m \in messages : m.kind # "Restore"
    BY <2>2 DEF Sent, Harmless
  <2>6. /\ DraftTypes' /\ DraftIsOfSelection' /\ DraftIsCovered'
        /\ \/ committed' = NoDocument
           \/ committed' = committed /\ draft'.id = draft.id
           \/ Stored(committed') /\ committed'.id = draft'.id
        /\ draft' = draft \/ ~dirty \/ clicks' # clicks
    BY <2>1 DEF Settles
  <2>7. DocumentsAreStored'
    BY <1>1, <1>2, <2>5, <2>6, DocumentsKept
  <2> QED  BY <2>3, <2>4, <2>6, <2>7 DEF EditorPart
<1>6. CASE ~response.ok
  <2>1. PICK none : none = {} /\ Sent(none)
    BY <1>1, <1>6, NoneSent
  <2>2. QueueTypes' /\ \A k : k # response.kind => (Outstanding(k) => Outstanding(k)')
    BY <1>4, <2>1
  <2>3. Asked' = Asked
    BY <2>1 DEF Sent
  <2>4. PICK kind : kind = response.kind
    OBVIOUS
  <2>5. ApplyError(kind)
    BY <1>1, <1>6, <2>4
  <2>6. EditorPart'
    BY <1>1, <1>2, <2>2, <2>3, <2>4, <2>5, ErrorKeeps
  <2>7. draft' = draft
    BY <2>5 DEF ApplyError, editorVars
  <2> QED  BY <2>6, <2>7
<1> QED  BY <1>5, <1>6

-----------------------------------------------------------------------------
(* What the other variables do meanwhile *)

LEMMA RestKeeps ==
  ASSUME EditorSound, Drain \/ Schedule \/ User
  PROVE  ConnectionTypes' /\ DaemonTypes' /\ PreviewIsRestored'
<1>1. UNCHANGED <<connected, wantPreview, wantFreeze, lease, failures, live, store, drafts>>
  <2>1. CASE Drain
    BY <2>1 DEF Drain, DrainRefusal, DrainResponse, DrainLeaves, daemonVars
  <2>2. CASE Schedule
    BY <2>2 DEF Schedule, PollStatus, PollPreview, Poll, AutoSave, ScheduleLeaves, daemonVars
  <2>3. CASE User
    <3>1. Click
      BY <2>3 DEF User, ClickProfile, Edit, Save, Revert, AskRollback, CancelRollback,
                  ConfirmRollback, Trash, Restore, CaptureTemplate, UsePanel, EvaluateReplay,
                  UseRoutes, UseRecipes, UseCollector, ReviewItem, AskPanel, RefreshList,
                  TestDetector, SelectSource, BrowseCatalog, TogglePreview, ToggleFreeze,
                  OnlySends, Requested
    <3> QED  BY <3>1 DEF Click, daemonVars
  <2> QED  BY <2>1, <2>2, <2>3
<1>2. ConnectionTypes /\ DaemonTypes /\ PreviewIsRestored
  BY SoundParts
<1> QED  BY <1>1, <1>2 DEF ConnectionTypes, DaemonTypes, PreviewIsRestored

(* A click, with an edit or without one, or none. *)
Counted ==
  \/ UNCHANGED <<clicks, edits, raced>>
  \/ /\ clicks + failures < MaxEvents /\ clicks' = clicks + 1
     /\ \/ UNCHANGED <<edits, raced>>
        \/ edits' = edits + 1 /\ raced' \in {raced, raced \cup {edits + 1}}

LEMMA CountKeeps ==
  ASSUME EditorSound, Counted
  PROVE  CountTypes'
<1>1. /\ clicks \in Nat /\ edits \in Nat /\ edits <= clicks /\ clicks <= MaxEvents
      /\ raced \subseteq 1 .. edits /\ failures \in Nat /\ MaxEvents \in Nat
  BY SoundParts, WorkerAssumption DEF CountTypes, ConnectionTypes
<1>2. clicks' \in 0 .. MaxEvents /\ edits' \in 0 .. clicks'
  BY <1>1 DEF Counted
<1>3. CASE raced' = raced /\ edits' \in {edits, edits + 1}
  <2>1. 1 .. edits \subseteq 1 .. edits'
    BY <1>1, <1>3
  <2> QED  BY <1>1, <1>2, <1>3, <2>1 DEF CountTypes
<1>4. CASE raced' = raced \cup {edits + 1} /\ edits' = edits + 1
  <2>1. 1 .. edits \subseteq 1 .. edits' /\ edits + 1 \in 1 .. edits'
    BY <1>1, <1>4
  <2> QED  BY <1>1, <1>2, <1>4, <2>1 DEF CountTypes
<1> QED  BY <1>3, <1>4 DEF Counted

LEMMA EditCounts ==
  ASSUME NEW document, EditBy(document)
  PROVE  Counted
<1>1. /\ clicks + failures < MaxEvents /\ clicks' = clicks + 1 /\ edits' = edits + 1
      /\ raced' = IF Racing THEN raced \cup {edits + 1} ELSE raced
  BY DEF EditBy
<1>2. raced' \in {raced, raced \cup {edits + 1}}
  BY <1>1
<1> QED  BY <1>1, <1>2 DEF Counted

LEMMA DrainCounts ==
  ASSUME EditorSound, Drain
  PROVE  Counted
<1>1. ASSUME Unedited  PROVE Counted
  BY <1>1 DEF Unedited, Counted
<1>2. CASE DrainRefusal
  BY <1>1, <1>2 DEF DrainRefusal, ApplyError
<1>3. CASE DrainResponse
  <2>1. PICK response \in Replies :
          /\ response.ok => ApplyOk(response)
          /\ ~response.ok => ApplyError(response.kind) /\ Quiet
    BY <1>3, ResponseFacts
  <2>2. CASE ~response.ok
    BY <1>1, <2>1, <2>2 DEF ApplyError
  <2>3. CASE response.ok /\ response.kind = "Profile"
    <3>1. ApplyProfile(response.document)
      BY <2>1, <2>3, Zenon DEF ApplyOk
    <3>2. Unedited \/ EditBy(response.document)
      BY <3>1, Zenon DEF ApplyProfile
    <3> QED  BY <1>1, <3>2, EditCounts
  <2>4. CASE response.ok /\ response.kind = "TemplateCapture"
    <3>1. ApplyTemplate
      BY <2>1, <2>4, Zenon DEF ApplyOk
    <3>2. UNCHANGED <<edits, raced, clicks>> \/ EditBy(draft)
      BY <3>1 DEF ApplyTemplate
    <3> QED  BY <3>2, EditCounts DEF Counted
  <2>5. CASE response.ok /\ response.kind \notin {"Profile", "TemplateCapture"}
    <3>1. Unedited
      <4>1. CASE response.kind \in {"Profiles", "History", "Commit", "Rollback", "Draft",
                                    "Trash", "Restore"}
        <5>1. CASE response.kind = "Profiles"
          BY <2>1, <2>5, <5>1, Zenon DEF ApplyOk
        <5>2. CASE response.kind = "History"
          BY <2>1, <2>5, <5>2, Zenon DEF ApplyOk
        <5>3. CASE response.kind \in {"Commit", "Rollback"}
          BY <2>1, <2>5, <5>3, Zenon DEF ApplyOk
        <5>4. CASE response.kind = "Draft"
          BY <2>1, <2>5, <5>4, Zenon DEF ApplyOk
        <5>5. CASE response.kind \in {"Trash", "Restore"}
          BY <2>1, <2>5, <5>5, Zenon DEF ApplyOk
        <5> QED  BY <4>1, <5>1, <5>2, <5>3, <5>4, <5>5
      <4>2. CASE response.kind \notin {"Profiles", "Profile", "History", "Commit", "Rollback",
                                       "Draft", "Trash", "Restore", "TemplateCapture"}
        BY <2>1, <2>5, <4>2, Zenon DEF ApplyOk
      <4> QED  BY <2>5, <4>1, <4>2
    <3> QED  BY <1>1, <3>1
  <2> QED  BY <2>2, <2>3, <2>4, <2>5
<1> QED  BY <1>2, <1>3 DEF Drain

LEMMA ClickCounts ==
  ASSUME Click, Edited
  PROVE  Counted
BY DEF Click, Edited, Counted

LEMMA UserCounts ==
  ASSUME User
  PROVE  Counted
<1>1. CASE Edit
  <2>1. /\ Click /\ edits' = edits + 1
        /\ raced' = IF Racing THEN raced \cup {edits + 1} ELSE raced
    BY <1>1 DEF Edit
  <2>2. raced' \in {raced, raced \cup {edits + 1}}
    BY <2>1
  <2> QED  BY <2>1, <2>2 DEF Click, Counted
<1>2. CASE ~Edit
  <2>1. Click /\ Edited
    BY <1>2 DEF User, ClickProfile, Save, Revert, AskRollback, CancelRollback,
                ConfirmRollback, Trash, Restore, CaptureTemplate, UsePanel, EvaluateReplay,
                UseRoutes, UseRecipes, UseCollector, ReviewItem, AskPanel, RefreshList,
                TestDetector, SelectSource, BrowseCatalog, TogglePreview, ToggleFreeze,
                OnlySends, Requested
  <2> QED  BY <2>1, ClickCounts
<1> QED  BY <1>1, <1>2

LEMMA SwitchKeeps ==
  ASSUME EditorSound, Drain \/ Schedule \/ User
  PROVE  SwitchTypes'
<1>1. /\ previewOn \in BOOLEAN /\ frozen \in BOOLEAN
      /\ pending \subseteq Pollable /\ polls \in 0 .. MaxPolls /\ MaxPolls \in Nat
  BY SoundParts, EditorAssumption DEF SwitchTypes
<1>2. CASE DrainRefusal
  <2>1. /\ UNCHANGED <<previewOn, frozen, polls>> /\ pending' \subseteq pending
    BY <1>2 DEF DrainRefusal, DrainLeaves
  <2> QED  BY <1>1, <2>1 DEF SwitchTypes
<1>3. CASE DrainResponse
  <2>1. PICK response : previewOn' = PreviewAfter(response) /\ pending' = PendingAfter(response)
    BY <1>3 DEF DrainResponse
  <2>2. previewOn' \in BOOLEAN
    BY <1>1, <2>1 DEF PreviewAfter
  <2>3. UNCHANGED <<frozen, polls>> /\ pending' \subseteq pending
    BY <1>3, <2>1 DEF DrainResponse, DrainLeaves, PendingAfter
  <2> QED  BY <1>1, <2>2, <2>3 DEF SwitchTypes
<1>4. CASE PollStatus \/ PollPreview
  <2>1. PICK kind \in Pollable : Poll(kind)
    BY <1>4 DEF PollStatus, PollPreview, Pollable
  <2>2. /\ UNCHANGED <<previewOn, frozen>> /\ pending' = pending \cup {kind}
        /\ polls < MaxPolls /\ polls' = polls + 1
    BY <2>1 DEF Poll, ScheduleLeaves, switchVars
  <2> QED  BY <1>1, <2>2 DEF SwitchTypes
<1>5. CASE AutoSave
  BY <1>1, <1>5 DEF AutoSave, ScheduleLeaves, switchVars, SwitchTypes
<1>6. CASE RefreshList \/ TestDetector \/ SelectSource \/ BrowseCatalog
  <2>1. PICK kind \in Pollable : \E m : Requested(kind, m)
    BY <1>6 DEF RefreshList, TestDetector, SelectSource, BrowseCatalog, Pollable
  <2>2. UNCHANGED <<previewOn, frozen, polls>> /\ pending' = pending \cup {kind}
    BY <2>1 DEF Requested, Click, switchVars
  <2> QED  BY <1>1, <2>2 DEF SwitchTypes
<1>7. CASE TogglePreview \/ ToggleFreeze
  BY <1>1, <1>7 DEF TogglePreview, ToggleFreeze, Click, SwitchTypes
<1>8. CASE /\ User
           /\ ~(RefreshList \/ TestDetector \/ SelectSource \/ BrowseCatalog)
           /\ ~(TogglePreview \/ ToggleFreeze)
  <2>1. UNCHANGED <<previewOn, frozen, pending, polls>>
    BY <1>8 DEF User, ClickProfile, Edit, Save, Revert, AskRollback, CancelRollback,
                ConfirmRollback, Trash, Restore, CaptureTemplate, UsePanel, EvaluateReplay,
                UseRoutes, UseRecipes, UseCollector, ReviewItem, AskPanel, OnlySends, Click,
                switchVars
  <2> QED  BY <1>1, <2>1 DEF SwitchTypes
<1> QED  BY <1>2, <1>3, <1>4, <1>5, <1>6, <1>7, <1>8 DEF Drain, Schedule

LEMMA SoundAfter ==
  ASSUME QueueTypes', ConnectionTypes', DraftTypes', SwitchTypes', DaemonTypes', CountTypes',
         PendingIsAnswered', DraftIsOfSelection', PreviewIsRestored', DocumentsAreStored',
         DraftIsCovered'
  PROVE  EditorSound'
<1>1. TypeOK'
  BY DEF TypeOK, QueueTypes, ConnectionTypes, DraftTypes, SwitchTypes, DaemonTypes, CountTypes
<1> QED  BY <1>1 DEF EditorSound, EditorInvariant

LEMMA WorkIsSound ==
  ASSUME EditorSound, Work
  PROVE  EditorSound'
<1>1. PICK request \in Messages : \E replies \in Seq(Replies) : Worked(request, replies)
  BY SoundParts, WorkerWorks
<1>2. PICK replies \in Seq(Replies) : Worked(request, replies)
  BY <1>1
<1>3. QueueTypes' /\ DaemonTypes' /\ DocumentsAreStored' /\ DraftIsCovered' /\ PendingIsAnswered'
  BY <1>2, SoundParts, WorkKeeps
<1>4. ConnectionTypes' /\ PreviewIsRestored'
  BY SoundParts, ConnectionWorks
<1>5. UNCHANGED <<editorVars, switchVars, pending, clicks, edits, polls, raced>>
  BY <1>2 DEF Worked, WorkLeaves
<1>6. DraftTypes' /\ SwitchTypes' /\ CountTypes' /\ DraftIsOfSelection'
  BY <1>5, SoundParts
    DEF DraftTypes, SwitchTypes, CountTypes, DraftIsOfSelection, editorVars, switchVars
<1> QED  BY <1>3, <1>4, <1>6, SoundAfter

LEMMA OthersAreSound ==
  ASSUME EditorSound, Drain \/ Schedule \/ User
  PROVE  EditorSound'
<1>1. EditorPart'
  BY UserKeeps, ScheduleKeeps, RefusalKeeps, ResponseKeeps DEF Drain
<1>2. ConnectionTypes' /\ DaemonTypes' /\ PreviewIsRestored' /\ SwitchTypes'
  BY RestKeeps, SwitchKeeps
<1>3. Counted
  <2>1. CASE Schedule
    BY <2>1 DEF Schedule, PollStatus, PollPreview, Poll, AutoSave, ScheduleLeaves, Counted
  <2> QED  BY <2>1, DrainCounts, UserCounts
<1>4. CountTypes'
  BY <1>3, CountKeeps
<1> QED  BY <1>1, <1>2, <1>4, SoundAfter DEF EditorPart

LEMMA EditorInitially ==
  Init => EditorSound
<1> SUFFICES ASSUME Init  PROVE EditorSound
  OBVIOUS
<1>1. PICK m \in Messages : m = Plain("Profiles") /\ m.kind = "Profiles"
  BY PlainFacts DEF Kind
<1>2. PICK n \in Messages : n = Plain("Status") /\ n.kind = "Status"
  BY PlainFacts DEF Kind
<1>3. PICK q \in Messages : q = Plain("Panel") /\ q.kind = "Panel"
  BY PlainFacts DEF Kind
<1>4. requests \in Seq(Messages) /\ Elements(requests) = {m, n, q} /\ Len(requests) = 3
  BY <1>1, <1>2, <1>3, ThreeElements DEF Init
<1>5. Asked = {m, n, q} /\ Answered = {}
  <2>1. Asked = {m, n, q}
    BY <1>4 DEF Asked
  <2>2. responses = <<>> /\ DOMAIN <<>> = {}
    BY DEF Init, WorkerInit
  <2> QED  BY <2>1, <2>2 DEF Answered, Elements
<1>6. QueueTypes
  <2>1. responses \in Seq(Replies) /\ Len(responses) = 0
    BY DEF Init, WorkerInit
  <2> QED
    BY <1>4, <2>1, EditorAssumption, WorkerAssumption DEF QueueTypes, Init, WorkerInit
<1>7. ConnectionTypes /\ SwitchTypes /\ CountTypes
  <2>1. ConnectionTypes
    <3>1. /\ connected = FALSE /\ wantPreview = FALSE /\ wantFreeze = FALSE /\ lease = FALSE
          /\ failures = 0 /\ 0 \in 0 .. MaxFailures
      BY WorkerAssumption DEF Init, WorkerInit
    <3> QED  BY <3>1 DEF ConnectionTypes
  <2>2. SwitchTypes
    <3>1. previewOn = FALSE /\ frozen = FALSE /\ pending = {} /\ polls = 0 /\ 0 \in 0 .. MaxPolls
      BY EditorAssumption DEF Init
    <3> QED  BY <3>1 DEF SwitchTypes
  <2>3. CountTypes
    <3>1. clicks = 0 /\ edits = 0 /\ raced = {} /\ 0 \in 0 .. MaxEvents
      BY WorkerAssumption DEF Init
    <3> QED  BY <3>1 DEF CountTypes
  <2> QED  BY <2>1, <2>2, <2>3
<1>8. DraftTypes
  <2>1. shown = <<>> /\ <<>> \in Seq(Content)
    BY DEF Init
  <2>2. /\ dirty = FALSE /\ draftSaved = FALSE /\ confirm = FALSE /\ listed = {}
        /\ selected = 0 /\ draft = NoDocument /\ committed = NoDocument
    BY DEF Init
  <2> QED  BY <2>1, <2>2 DEF DraftTypes
<1>9. DaemonTypes
  <2>1. {} \in Content
    BY DEF Content
  <2>2. \A S : \A x \in S : <<x>> \in Seq(S) \ {<<>>}
    OBVIOUS
  <2> QED  BY <2>1, <2>2 DEF DaemonTypes, Init
<1>10. PendingIsAnswered /\ DraftIsOfSelection /\ PreviewIsRestored
  BY DEF PendingIsAnswered, DraftIsOfSelection, PreviewIsRestored, Init, WorkerInit
<1>11. DocumentsAreStored /\ DraftIsCovered
  BY <1>1, <1>2, <1>5, <1>3 DEF DocumentsAreStored, DraftIsCovered, Stored, Init
<1> QED  BY <1>6, <1>7, <1>8, <1>9, <1>10, <1>11, SoundParts

LEMMA EditorStays ==
  ASSUME EditorSound, UNCHANGED vars
  PROVE  EditorSound'
<1>1. UNCHANGED <<workerVars, editorVars, switchVars, pending, daemonVars, clicks, edits, polls,
                  raced>>
  BY DEF vars
<1>2. UNCHANGED <<requests, responses, refused, connected, wantPreview, wantFreeze, lease,
                  dropped, failures, listed, selected, draft, committed, dirty, draftSaved,
                  shown, confirm, previewOn, frozen, live, store, drafts>>
  BY <1>1 DEF workerVars, editorVars, switchVars, daemonVars
<1>3. /\ QueueTypes' /\ ConnectionTypes' /\ DraftTypes' /\ SwitchTypes' /\ DaemonTypes'
      /\ CountTypes' /\ DraftIsOfSelection' /\ PreviewIsRestored'
  BY <1>1, <1>2, SoundParts
    DEF QueueTypes, ConnectionTypes, DraftTypes, SwitchTypes, DaemonTypes, CountTypes,
        DraftIsOfSelection, PreviewIsRestored
<1>4. Asked' = Asked /\ Answered' = Answered
  BY <1>2 DEF Asked, Answered
<1>5. \A k : Outstanding(k)' <=> Outstanding(k)
  BY <1>2 DEF Outstanding
<1>6. PendingIsAnswered'
  BY <1>1, <1>2, <1>5, SoundParts DEF PendingIsAnswered
<1>7. PICK none : none = {}
  OBVIOUS
<1>8. DocumentsAreStored'
  BY <1>2, <1>4, <1>7, DocumentsKept
<1>9. DraftIsCovered'
  BY <1>1, <1>2, <1>4, <1>5, <1>7, DraftStays, SoundParts DEF DraftIsCovered
<1> QED  BY <1>3, <1>6, <1>8, <1>9, SoundAfter

LEMMA EditorStep ==
  EditorSound /\ [Next]_vars => EditorSound'
BY WorkIsSound, OthersAreSound, EditorStays DEF Next

-----------------------------------------------------------------------------
(* Over every behaviour the types, the documents that travel and the cover *)
(* of the draft are sound (App, Worker and the store behind them).         *)
THEOREM EditorIsSound == Spec => []EditorSound
<1>1. Init => EditorSound
  BY EditorInitially
<1>2. EditorSound /\ [Next]_vars => EditorSound'
  BY EditorStep
<1> QED  BY <1>1, <1>2, PTL DEF Spec

(* A kind that is held back has an answer to come, and the draft is of the *)
(* selected profile (Worker::poll, App::drain, App::select_profile).       *)
THEOREM NothingWaitsForever == Spec => []EditorInvariant
<1>1. EditorSound => EditorInvariant
  BY DEF EditorSound
<1> QED  BY <1>1, EditorIsSound, PTL

(* The daemon holds the preview the user asked for last, over every        *)
(* reconnect (Worker's loop).                                              *)
THEOREM PreviewFollowsTheUser == Spec => []PreviewIsRestored
<1>1. EditorSound => PreviewIsRestored
  BY DEF EditorSound
<1> QED  BY <1>1, EditorIsSound, PTL

(* A draft shown as saved is stored, but for edits that raced and for an   *)
(* autosave that the worker dropped (App::schedule and App::drain).        *)
THEOREM ShownDraftsAreStored == Spec => []SavedDraftIsStored
<1>1. ASSUME EditorSound  PROVE SavedDraftIsStored
  <2>1. DraftIsCovered
    BY <1>1, SoundParts
  <2> QED  BY <2>1 DEF DraftIsCovered, Covered, SavedDraftIsStored
<1> QED  BY <1>1, EditorIsSound, PTL

(* No response takes an edit from the draft that no revision contains,     *)
(* except for the edits that raced (App::apply_profiles, apply_profile).   *)
THEOREM ResponsesTakeNothing == Spec => SettledEditsSurvive
<1>1. ASSUME EditorSound, [Next]_vars  PROVE [TakenByResponse \subseteq raced]_vars
  <2>1. CASE clicks' # clicks \/ draft = NoDocument
    <3>1. TakenByResponse = {}
      BY <2>1 DEF TakenByResponse
    <3> QED  BY <3>1
  <2>2. CASE draft' = draft
    <3>1. TakenByResponse = {}
      BY <2>2 DEF TakenByResponse
    <3> QED  BY <3>1
  <2>3. CASE ~dirty /\ draft # NoDocument
    <3>1. PICK none : none = {} /\ Covered(none)
      BY <1>1, <2>3, SoundParts DEF DraftIsCovered
    <3>2. draft.edits \subseteq Published(draft.id) \cup raced
      BY <3>1 DEF Covered
    <3>3. TakenByResponse \subseteq draft.edits \ Published(draft.id)
      BY DEF TakenByResponse
    <3> QED  BY <3>2, <3>3
  <2>4. draft' = draft \/ ~dirty \/ clicks' # clicks
    <3>1. CASE Work
      BY <3>1 DEF Work, Serve, ServeFails, ConnectFails, ReloadFails, CallFails, WorkLeaves,
                  editorVars
    <3>2. CASE DrainRefusal
      BY <3>2 DEF DrainRefusal, ApplyError, editorVars
    <3>3. CASE DrainResponse
      BY <1>1, <3>3, ResponseKeeps
    <3>4. CASE Schedule
      BY <3>4 DEF Schedule, PollStatus, PollPreview, Poll, AutoSave, editorVars
    <3>5. CASE User
      <4>1. clicks' = clicks + 1
        BY <3>5 DEF User, ClickProfile, Edit, Save, Revert, AskRollback, CancelRollback,
                    ConfirmRollback, Trash, Restore, CaptureTemplate, UsePanel, EvaluateReplay,
                    UseRoutes, UseRecipes, UseCollector, ReviewItem, AskPanel, RefreshList,
                    TestDetector, SelectSource, BrowseCatalog, TogglePreview, ToggleFreeze,
                    OnlySends, Requested, Click
      <4>2. clicks \in Nat
        BY <1>1, SoundParts, WorkerAssumption DEF CountTypes
      <4> QED  BY <4>1, <4>2
    <3>6. CASE UNCHANGED vars
      BY <3>6 DEF vars, editorVars
    <3> QED  BY <1>1, <3>1, <3>2, <3>3, <3>4, <3>5, <3>6 DEF Next, Drain
  <2> QED  BY <2>1, <2>2, <2>3, <2>4
<1> QED  BY <1>1, EditorIsSound, PTL DEF Spec, SettledEditsSurvive
=============================================================================
