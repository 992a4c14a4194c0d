------------------------- MODULE PublicationProofs -------------------------
(***************************************************************************)
(* Proofs about module Publication: for any versions, gates, calls and     *)
(* failures, what is done under a hold is one decision's, an answered      *)
(* decision took effect, and readers read nothing that was not reviewed.   *)
(***************************************************************************)
EXTENDS Publication, TLAPS

\* A version that is there and has no structural finding.
Sound(v) == v \in 1..head /\ "structural" \notin contents[v].failed

\* What is held passed its gate but for what a person may accept.
HeldIsSound == hold.state # "none" => hold.id >= 1 /\ Sound(hold.version)

\* Which doors a step belongs to, and what a call of it has found.
StepInv(c) ==
    /\ call[c].pc \in {"idle", "begun", "reading", "deciding", "expiring"} => call[c].verdict = "none"
    /\ call[c].pc \in {"reading", "pinning", "judging", "unpinning", "holding"} => AsksFor(c, "publish")
    /\ call[c].pc = "deciding" => AsksFor(c, "approve") \/ AsksFor(c, "reject")
    /\ call[c].pc = "advancing" => AsksFor(c, "approve")
    /\ call[c].pc \in {"owing", "restoring", "settling"} => AsksFor(c, "reject")
    /\ call[c].pc = "moving" => AsksFor(c, "publish") \/ AsksFor(c, "approve")
    /\ call[c].pc = "holding" => call[c].verdict = "hold" /\ Sound(V(c))
    /\ call[c].pc = "unpinning" /\ call[c].verdict = "hold" => Sound(V(c))
    /\ call[c].pc = "moving" /\ AsksFor(c, "publish") =>
          Sound(V(c)) /\ (contents[V(c)].failed # {} => c.waives)
    /\ call[c].pc \in {"advancing", "owing", "restoring", "settling"} => call[c].mine.id # 0
    /\ call[c].pc = "moving" /\ AsksFor(c, "approve") => call[c].mine.id # 0

\* What a decision is made on: the hold on the version it names, as it was
\* decided; what was done under it since was of its kind.
MineInv(c) ==
    AsksFor(c, "approve") \/ AsksFor(c, "reject") =>
        LET mine == call[c].mine IN
        \/ mine.id = 0
        \/ /\ mine.id <= hold.id /\ mine.state = Decision(c) /\ mine.version = V(c) /\ Sound(V(c))
           /\ mine.id = hold.id => hold.state = mine.state
           /\ \A a \in acts : a.id = mine.id => a.kind = mine.state

\* Two decisions of one hold are the same decision.
PairInv ==
    \A c, d \in Calls :
        c.door \in {"approve", "reject"} /\ d.door \in {"approve", "reject"}
            /\ call[c].mine.id = call[d].mine.id /\ call[c].mine.id # 0 => call[c].mine.state = call[d].mine.state

\* What was done, under the holds so far.
ActsInv ==
    /\ \A a \in acts : a.id <= hold.id /\ a.asked = a.held /\ (a.id = hold.id => a.kind = hold.state)
    /\ \A a, b \in acts : a.id = b.id => a.kind = b.kind

\* What an answer says.
AnswerInv(c) ==
    /\ call[c].verdict = "approved" => call[c].pc = "moving" \/ reached >= V(c)
    /\ call[c].verdict = "rejected" /\ call[c].mine.owed =>
          \/ call[c].pc = "restoring" \/ reached >= V(c)
          \/ \E a \in acts : a.id = call[c].mine.id /\ a.kind = "rejected"

\* What readers read.
ReadInv ==
    /\ reached >= tags.published
    /\ ReadersReadReviewed

\* The inductive invariant.
PubInv ==
    /\ PubTypeOK /\ HeldIsSound /\ PairInv /\ ActsInv /\ ReadInv
    /\ \A c \in Calls : StepInv(c) /\ MineInv(c) /\ AnswerInv(c)

-----------------------------------------------------------------------------
(* Types                                                                   *)

LEMMA NoHoldTyped == NoHold \in Hold
  BY PublicationAssumption DEF NoHold, Hold

LEMMA NotBegunTyped == NotBegun \in CallLocals
  BY PublicationAssumption, NoHoldTyped DEF NotBegun, CallLocals

LEMMA CallTyped ==
  ASSUME NEW c \in Calls
  PROVE  c.version \in 0..MaxVersion /\ c.door \in {"publish", "approve", "reject", "expire"} /\ c.waives \in BOOLEAN
  BY PublicationAssumption DEF CallAsk

\* A call's step writes its own locals only.
LEMMA GoesCall ==
  ASSUME PubTypeOK, NEW c \in Calls, NEW locals, CallGoes(c, locals)
  PROVE  call'[c] = locals /\ \A d \in Calls : d # c => call'[d] = call[d]
  BY DEF PubTypeOK, CallGoes

LEMMA GoesTyped ==
  ASSUME PubTypeOK, NEW c \in Calls, NEW locals \in CallLocals, CallGoes(c, locals)
  PROVE  call' \in [Calls -> CallLocals]
  BY DEF PubTypeOK, CallGoes

LEMMA GoesToTyped ==
  ASSUME PubTypeOK, NEW c \in Calls, NEW pc,
         pc \in {"begun", "reading", "judging", "holding", "closing", "ended", "rereading"}, CallGoesTo(c, pc)
  PROVE  call' \in [Calls -> CallLocals]
  <1>1. [call[c] EXCEPT !.pc = pc] \in CallLocals
    BY DEF PubTypeOK, CallLocals
  <1> QED BY <1>1, GoesTyped DEF CallGoesTo

LEMMA AnswersTyped ==
  ASSUME PubTypeOK, NEW c \in Calls, NEW as,
         as \in {"refused", "failed", "done"} \/ as = Settled(c), Answers(c, as)
  PROVE  call' \in [Calls -> CallLocals]
  <1>1. call[c] \in CallLocals
    BY DEF PubTypeOK
  <1>2. as \in {"none", "refused", "failed", "refuse", "hold", "publish", "moved", "done", "approved", "rejected"}
    BY <1>1 DEF Settled, CallLocals
  <1>3. [call[c] EXCEPT !.pc = "ended", !.verdict = as] \in CallLocals
    BY <1>1, <1>2 DEF CallLocals
  <1> QED BY <1>3, GoesTyped DEF Answers

LEMMA MeetsTyped ==
  ASSUME PubTypeOK, NEW fault, MeetsFault(fault)
  PROVE  offering' \in Offering /\ offering'.published = offering.published
  BY DEF PubTypeOK, Offering, MeetsFault

LEMMA TagTyped ==
  ASSUME PubTypeOK, NEW tag \in {"published", "publishing", "held"}, NEW v, SetsTag(tag, v)
  PROVE  /\ tags' \in [published : 0..head, publishing : 0..head, held : 0..head]
         /\ offering' = offering /\ v \in 1..head
         /\ tags'.published = IF tag = "published" THEN v ELSE tags.published
  <1>1. v \in 1..head /\ v \in 0..head /\ offering' = offering
    BY DEF SetsTag, CanTag, PubTypeOK
  <1>2. CASE tag = "published"
    BY <1>1, <1>2 DEF SetsTag, PubTypeOK
  <1>3. CASE tag = "publishing"
    BY <1>1, <1>3 DEF SetsTag, PubTypeOK
  <1>4. CASE tag = "held"
    BY <1>1, <1>4 DEF SetsTag, PubTypeOK
  <1> QED BY <1>1, <1>2, <1>3, <1>4

LEMMA RefusedTyped ==
  ASSUME PubTypeOK, NEW v, TagRefused(v)
  PROVE  offering' \in Offering /\ tags' = tags /\ offering'.published = offering.published
  BY MeetsTyped DEF TagRefused, PubTypeOK

-----------------------------------------------------------------------------
(* What a step may change                                                  *)

\* Versions are added, never changed.
Grows == head' >= head /\ \A v \in 1..head : contents'[v] = contents[v]

\* A hold is replaced by a later one, or closed once.
HoldMoves ==
    /\ hold'.id >= hold.id
    /\ hold'.id = hold.id => hold'.state = hold.state \/ hold.state = "open"

Deciding(c) == c.door \in {"approve", "reject"}

\* One thing at most is done, under a hold whose kind it is.
ActsMove ==
    /\ acts \subseteq acts'
    /\ \A a \in acts' : a \in acts \/
          /\ a.asked = a.held /\ a.id <= hold'.id /\ (a.id = hold'.id => a.kind = hold'.state)
          /\ \A b \in acts : b.id = a.id => b.kind = a.kind
          /\ \A b \in acts' \ acts : b.kind = a.kind
          /\ \A d \in Calls : Deciding(d) /\ call[d].mine.id = a.id /\ a.id # 0 => call[d].mine.state = a.kind

\* A decision keeps the hold it was made on, or takes the record's.
MineMoves(c) ==
    Deciding(c) =>
        \/ /\ call'[c].mine.id = call[c].mine.id /\ call'[c].mine.state = call[c].mine.state
           /\ call'[c].mine.version = call[c].mine.version
        \/ /\ call'[c].mine.id = hold'.id /\ call'[c].mine.state = hold'.state
           /\ call'[c].mine.version = hold'.version
           /\ hold'.state = Decision(c) /\ hold'.version = V(c)

OwnStep(c) == \A d \in Calls : d # c => call'[d] = call[d]

LEMMA SoundGrows ==
  ASSUME PubTypeOK, PubTypeOK', Grows, NEW v, Sound(v)
  PROVE  Sound(v)' /\ contents'[v] = contents[v]
  <1>1. v \in 1..head' /\ contents'[v] = contents[v]
    BY DEF PubTypeOK, Grows, Sound, Versions
  <1> QED BY <1>1 DEF Sound

\* The calls that did not step, and what was done.
LEMMA OthersKeep ==
  ASSUME PubInv, PubTypeOK', Grows, HoldMoves, ActsMove, reached' >= reached,
         NEW d \in Calls, call'[d] = call[d]
  PROVE  StepInv(d)' /\ AnswerInv(d)'
  <1>0. PubTypeOK /\ StepInv(d) /\ AnswerInv(d) /\ reached \in Nat /\ reached' \in Nat /\ V(d) \in Nat
    BY CallTyped DEF PubInv, PubTypeOK, V
  <1>1. Sound(V(d)) => Sound(V(d))' /\ contents'[V(d)] = contents[V(d)]
    BY <1>0, SoundGrows
  <1>2. StepInv(d)'
    BY <1>0, <1>1 DEF StepInv, AsksFor, V
  <1>3. AnswerInv(d)'
    BY <1>0 DEF AnswerInv, ActsMove, V
  <1> QED BY <1>2, <1>3

LEMMA MineKeep ==
  ASSUME PubInv, PubTypeOK', Grows, HoldMoves, ActsMove, NEW d \in Calls, Deciding(d),
         call'[d].mine.id = call[d].mine.id, call'[d].mine.state = call[d].mine.state,
         call'[d].mine.version = call[d].mine.version
  PROVE  MineInv(d)'
  <1>0. /\ PubTypeOK /\ MineInv(d) /\ hold.id \in Nat /\ hold'.id \in Nat /\ call[d].mine.id \in Nat
        /\ Decision(d) \in {"approved", "rejected"}
    BY DEF PubInv, PubTypeOK, Hold, CallLocals, Decision
  <1>1. CASE call[d].mine.id = 0
    BY <1>1 DEF MineInv
  <1>2. CASE call[d].mine.id # 0
    <2>1. /\ call[d].mine.id <= hold.id /\ call[d].mine.state = Decision(d)
          /\ call[d].mine.version = V(d) /\ Sound(V(d))
          /\ call[d].mine.id = hold.id => hold.state = call[d].mine.state
          /\ \A a \in acts : a.id = call[d].mine.id => a.kind = call[d].mine.state
      BY <1>0, <1>2 DEF MineInv, Deciding, AsksFor
    <2>2. Sound(V(d))'
      BY <1>0, <2>1, SoundGrows DEF V
    <2>3. call[d].mine.id <= hold'.id
      BY <1>0, <2>1 DEF HoldMoves
    <2>4. call[d].mine.id = hold'.id => hold'.state = call[d].mine.state
      BY <1>0, <2>1 DEF HoldMoves
    <2>5. ASSUME NEW a \in acts', a.id = call[d].mine.id PROVE a.kind = call[d].mine.state
      BY <1>2, <2>1, <2>5 DEF ActsMove
    <2> QED BY <2>1, <2>2, <2>3, <2>4, <2>5 DEF MineInv, V, Decision, AsksFor
  <1> QED BY <1>1, <1>2

LEMMA ActsKeep ==
  ASSUME PubInv, PubTypeOK', HoldMoves, ActsMove
  PROVE  ActsInv'
  <1>0. /\ ActsInv /\ hold.id \in Nat /\ hold'.id \in Nat
        /\ \A a \in acts : a.id \in Nat /\ a.kind \in Closed
    BY DEF PubInv, PubTypeOK, Hold
  <1>1. ASSUME NEW a \in acts'
        PROVE  a.id <= hold'.id /\ a.asked = a.held /\ (a.id = hold'.id => a.kind = hold'.state)
    <2>1. CASE a \in acts
      <3>1. a.id <= hold.id /\ a.asked = a.held /\ (a.id = hold.id => a.kind = hold.state)
        BY <1>0, <2>1 DEF ActsInv
      <3>2. hold.state = "open" => a.id # hold.id
        BY <1>0, <2>1, <3>1 DEF Closed
      <3> QED BY <1>0, <2>1, <3>1, <3>2 DEF HoldMoves
    <2>2. CASE a \notin acts
      BY <2>2 DEF ActsMove
    <2> QED BY <2>1, <2>2
  <1>2. ASSUME NEW a \in acts', NEW b \in acts', a.id = b.id PROVE a.kind = b.kind
    <2>1. CASE a \in acts /\ b \in acts
      BY <1>0, <1>2, <2>1 DEF ActsInv
    <2>2. CASE a \notin acts /\ b \in acts
      BY <1>2, <2>2 DEF ActsMove
    <2>3. CASE a \in acts /\ b \notin acts
      BY <1>2, <2>3 DEF ActsMove
    <2>4. CASE a \notin acts /\ b \notin acts
      BY <2>4 DEF ActsMove
    <2> QED BY <2>1, <2>2, <2>3, <2>4
  <1> QED BY <1>1, <1>2 DEF ActsInv

\* A step of c keeps the invariant when what it changes is of these kinds.
LEMMA CallKeeps ==
  ASSUME PubInv, PubTypeOK', NEW c \in Calls, OwnStep(c),
         Grows, HoldMoves, ActsMove, MineMoves(c), reached' >= reached,
         HeldIsSound', ReadInv', StepInv(c)', AnswerInv(c)'
  PROVE  PubInv'
  <1>1. ActsInv'
    BY ActsKeep
  <1>2. ASSUME NEW d \in Calls, d # c PROVE StepInv(d)' /\ AnswerInv(d)'
    BY <1>2, OthersKeep DEF OwnStep
  <1>3. ASSUME NEW d \in Calls PROVE MineInv(d)'
    <2>1. CASE ~ Deciding(d)
      BY <2>1 DEF MineInv, Deciding, AsksFor
    <2>2. CASE Deciding(d) /\ d # c
      BY <2>2, MineKeep DEF OwnStep
    <2>3. CASE Deciding(d) /\ d = c
      <3>1. CASE /\ call'[c].mine.id = call[c].mine.id /\ call'[c].mine.state = call[c].mine.state
                 /\ call'[c].mine.version = call[c].mine.version
        BY <2>3, <3>1, MineKeep
      <3>2. CASE /\ call'[c].mine.id = hold'.id /\ call'[c].mine.state = hold'.state
                 /\ call'[c].mine.version = hold'.version
                 /\ hold'.state = Decision(c) /\ hold'.version = V(c)
        <4>1. hold'.state \in {"approved", "rejected"} /\ hold'.id \in Nat
          BY <3>2 DEF Decision, PubTypeOK, Hold
        <4>2. Sound(V(c))'
          BY <3>2, <4>1 DEF HeldIsSound, V
        <4>3. \A a \in acts' : a.id = hold'.id => a.kind = hold'.state
          BY <1>1 DEF ActsInv
        <4> QED BY <2>3, <3>2, <4>1, <4>2, <4>3 DEF MineInv, V, Decision, AsksFor
      <3> QED BY <2>3, <3>1, <3>2 DEF MineMoves
    <2> QED BY <2>1, <2>2, <2>3
  <1>4. PairInv'
    <2> SUFFICES ASSUME NEW d \in Calls, NEW e \in Calls, Deciding(d), Deciding(e),
                        call'[d].mine.id = call'[e].mine.id, call'[d].mine.id # 0
                 PROVE  call'[d].mine.state = call'[e].mine.state
      BY DEF PairInv, Deciding
    <2>0. PairInv
      BY DEF PubInv
    <2>1. ASSUME NEW f \in Calls, Deciding(f)
          PROVE  \/ call'[f].mine.id = call[f].mine.id /\ call'[f].mine.state = call[f].mine.state
                 \/ call'[f].mine.id = hold'.id /\ call'[f].mine.state = hold'.state
      BY <2>1 DEF OwnStep, MineMoves
    <2>2. ASSUME NEW f \in Calls, Deciding(f), call'[f].mine.id # 0, call'[f].mine.id = hold'.id
          PROVE  call'[f].mine.state = hold'.state
      BY <1>3, <2>2 DEF MineInv, Deciding, AsksFor
    <2> QED BY <2>0, <2>1, <2>2 DEF PairInv, Deciding
  <1> QED BY <1>1, <1>2, <1>3, <1>4 DEF PubInv

-----------------------------------------------------------------------------
(* Steps that leave the record and what readers read alone                 *)

LEMMA ReadKeeps ==
  ASSUME PubInv, PubTypeOK', Grows, cleared \subseteq cleared', reached' >= reached,
         tags'.published = tags.published, offering'.published = offering.published
  PROVE  ReadInv'
  <1>0. PubTypeOK /\ ReadInv /\ tags.published \in 0..head /\ head \in Nat /\ reached \in Nat /\ reached' \in Nat
    BY DEF PubInv, PubTypeOK, Versions
  <1>1. reached' >= tags'.published
    BY <1>0 DEF ReadInv
  <1>2. ReadersReadReviewed'
    <2> SUFFICES ASSUME tags'.published \notin {0, offering'.published}
                 PROVE  /\ "structural" \notin contents'[tags'.published].failed
                        /\ contents'[tags'.published].failed # {} =>
                             \E how \in {"waiver", "approval"} : <<tags'.published, how>> \in cleared'
      BY DEF ReadersReadReviewed
    <2>1. tags.published \in 1..head /\ contents'[tags.published] = contents[tags.published]
      BY <1>0 DEF Grows
    <2>2. /\ "structural" \notin contents[tags.published].failed
          /\ contents[tags.published].failed # {} =>
               \E how \in {"waiver", "approval"} : <<tags.published, how>> \in cleared
      BY <1>0 DEF ReadInv, ReadersReadReviewed
    <2> QED BY <2>1, <2>2
  <1> QED BY <1>1, <1>2 DEF ReadInv

SameHistory == UNCHANGED <<head, contents, stored, hold, time, cleared, acts, reached>>

LEMMA QuietKeeps ==
  ASSUME PubInv, NEW c \in Calls, OwnStep(c), call' \in [Calls -> CallLocals], SameHistory,
         tags' \in [published : 0..head, publishing : 0..head, held : 0..head],
         tags'.published = tags.published, offering' \in Offering, offering'.published = offering.published,
         MineMoves(c), StepInv(c)', AnswerInv(c)'
  PROVE  PubInv'
  <1>0. PubTypeOK /\ HeldIsSound /\ hold.id \in Nat /\ reached \in Nat /\ head \in Nat
    BY DEF PubInv, PubTypeOK, Hold, Versions
  <1>1. PubTypeOK'
    BY <1>0 DEF PubTypeOK, SameHistory
  <1>2. Grows /\ HoldMoves /\ ActsMove /\ reached' >= reached /\ cleared \subseteq cleared'
    BY <1>0 DEF Grows, HoldMoves, ActsMove, SameHistory
  <1>3. HeldIsSound'
    BY <1>0 DEF HeldIsSound, Sound, SameHistory
  <1>4. ReadInv'
    BY <1>1, <1>2, ReadKeeps
  <1> QED BY <1>1, <1>2, <1>3, <1>4, CallKeeps

\* The fields a step leaves as they are.
LEMMA GoesToFacts ==
  ASSUME PubTypeOK, NEW c \in Calls, NEW pc, CallGoesTo(c, pc)
  PROVE  /\ OwnStep(c) /\ call'[c].pc = pc /\ call'[c].verdict = call[c].verdict
         /\ call'[c].mine = call[c].mine /\ call'[c].previous = call[c].previous
  <1>1. call'[c] = [call[c] EXCEPT !.pc = pc] /\ OwnStep(c)
    BY GoesCall DEF CallGoesTo, OwnStep
  <1> QED BY <1>1 DEF PubTypeOK, CallLocals

LEMMA AnswersFacts ==
  ASSUME PubTypeOK, NEW c \in Calls, NEW as, Answers(c, as)
  PROVE  /\ OwnStep(c) /\ call'[c].pc = "ended" /\ call'[c].verdict = as /\ call'[c].mine = call[c].mine
  <1>1. call'[c] = [call[c] EXCEPT !.pc = "ended", !.verdict = as] /\ OwnStep(c)
    BY GoesCall DEF Answers, OwnStep
  <1> QED BY <1>1 DEF PubTypeOK, CallLocals

\* A call that ends without a decision's answer.
LEMMA EndsInv ==
  ASSUME NEW c \in Calls, call'[c].pc = "ended", call'[c].verdict \notin {"approved", "rejected"}
  PROVE  StepInv(c)' /\ AnswerInv(c)'
  BY DEF StepInv, AnswerInv

LEMMA SameMine ==
  ASSUME NEW c \in Calls, call'[c].mine = call[c].mine
  PROVE  MineMoves(c)
  BY DEF MineMoves

LEMMA PublishQuiet ==
  ASSUME PubInv, NEW c \in Calls,
         CallBegins(c) \/ ResolvesGate(c) \/ PublishReads(c) \/ PublishPins(c) \/ PublishJudges(c)
  PROVE  PubInv'
  <1>0. PubTypeOK /\ StepInv(c) /\ AnswerInv(c) /\ call[c] \in CallLocals
        /\ tags \in [published : 0..head, publishing : 0..head, held : 0..head] /\ offering \in Offering
        /\ head \in 1..MaxVersion
    BY DEF PubInv, PubTypeOK, Versions
  <1> USE <1>0
  <1>1. CASE CallBegins(c)
    <2>1. CallGoesTo(c, "begun") /\ SameHistory /\ UNCHANGED <<tags, offering>>
      BY <1>1 DEF CallBegins, SameHistory, data, history
    <2>2. /\ OwnStep(c) /\ call'[c].pc = "begun" /\ call'[c].verdict = call[c].verdict /\ call'[c].mine = call[c].mine
      BY <2>1, GoesToFacts
    <2>3. call[c].verdict = "none"
      BY <1>1 DEF CallBegins, CallAt, StepInv
    <2>4. StepInv(c)' /\ AnswerInv(c)'
      BY <2>2, <2>3 DEF StepInv, AnswerInv
    <2> QED BY <2>1, <2>2, <2>4, GoesToTyped, SameMine, QuietKeeps
  <1>2. CASE ResolvesGate(c)
    <2>0. call[c].pc = "begun" /\ AsksFor(c, "publish") /\ call[c].verdict = "none"
      BY <1>2 DEF ResolvesGate, CallAt, StepInv
    <2>1. SameHistory /\ tags' = tags
      BY <1>2 DEF ResolvesGate, SameHistory, data, history
    <2>2. CASE CallGoes(c, [call[c] EXCEPT !.pc = "reading", !.review = offering.review]) /\ UNCHANGED offering
      <3>1. [call[c] EXCEPT !.pc = "reading", !.review = offering.review] \in CallLocals
        BY DEF CallLocals, Offering
      <3>2. call'[c] = [call[c] EXCEPT !.pc = "reading", !.review = offering.review] /\ OwnStep(c)
        BY <2>2, GoesCall DEF OwnStep
      <3>3. call'[c].pc = "reading" /\ call'[c].verdict = "none" /\ call'[c].mine = call[c].mine
        BY <2>0, <3>2 DEF CallLocals
      <3>4. StepInv(c)' /\ AnswerInv(c)'
        BY <2>0, <3>3 DEF StepInv, AnswerInv, AsksFor
      <3> QED BY <2>1, <2>2, <3>1, <3>2, <3>3, <3>4, GoesTyped, SameMine, QuietKeeps
    <2>3. CASE MeetsFault("gate") /\ CallGoesTo(c, "reading")
      <3>1. /\ OwnStep(c) /\ call'[c].pc = "reading" /\ call'[c].verdict = call[c].verdict
            /\ call'[c].mine = call[c].mine
        BY <2>3, GoesToFacts
      <3>2. StepInv(c)' /\ AnswerInv(c)'
        BY <2>0, <3>1 DEF StepInv, AnswerInv, AsksFor
      <3>3. offering' \in Offering /\ offering'.published = offering.published
        BY <2>3, MeetsTyped
      <3> QED BY <2>1, <2>3, <3>1, <3>2, <3>3, GoesToTyped, SameMine, QuietKeeps
    <2> QED BY <1>2, <2>2, <2>3 DEF ResolvesGate
  <1>3. CASE PublishReads(c)
    <2>0. call[c].pc = "reading" /\ AsksFor(c, "publish") /\ call[c].verdict = "none"
      BY <1>3 DEF PublishReads, CallAt, StepInv
    <2>1. SameHistory /\ UNCHANGED <<tags, offering>>
      BY <1>3 DEF PublishReads, SameHistory, data, history
    <2>2. CASE Answers(c, "refused")
      BY <2>1, <2>2, AnswersFacts, AnswersTyped, EndsInv, SameMine, QuietKeeps
    <2>3. CASE CallGoes(c, [call[c] EXCEPT !.pc = "pinning", !.previous = tags.published])
      <3>1. [call[c] EXCEPT !.pc = "pinning", !.previous = tags.published] \in CallLocals
        <4>1. tags.published \in 0..MaxVersion
          BY PublicationAssumption
        <4> QED BY <4>1 DEF CallLocals
      <3>2. call'[c] = [call[c] EXCEPT !.pc = "pinning", !.previous = tags.published] /\ OwnStep(c)
        BY <2>3, GoesCall DEF OwnStep
      <3>3. call'[c].pc = "pinning" /\ call'[c].verdict = "none" /\ call'[c].mine = call[c].mine
        BY <2>0, <3>2 DEF CallLocals
      <3>4. StepInv(c)' /\ AnswerInv(c)'
        BY <2>0, <3>3 DEF StepInv, AnswerInv, AsksFor
      <3> QED BY <2>1, <2>3, <3>1, <3>2, <3>3, <3>4, GoesTyped, SameMine, QuietKeeps
    <2> QED BY <1>3, <2>2, <2>3 DEF PublishReads
  <1>4. CASE PublishPins(c)
    <2>0. call[c].pc = "pinning" /\ AsksFor(c, "publish")
      BY <1>4 DEF PublishPins, CallAt, StepInv
    <2>1. SameHistory
      BY <1>4 DEF PublishPins, SameHistory, data, history
    <2>2. CASE SetsTag("publishing", V(c)) /\ CallGoesTo(c, "judging")
      <3>1. /\ OwnStep(c) /\ call'[c].pc = "judging" /\ call'[c].verdict = call[c].verdict
            /\ call'[c].mine = call[c].mine
        BY <2>2, GoesToFacts
      <3>2. StepInv(c)' /\ AnswerInv(c)'
        BY <2>0, <2>1, <3>1 DEF StepInv, AnswerInv, AsksFor, V, SameHistory
      <3>3. /\ tags' \in [published : 0..head, publishing : 0..head, held : 0..head]
            /\ offering' = offering /\ tags'.published = tags.published
        BY <2>2, TagTyped
      <3> QED BY <2>1, <2>2, <3>1, <3>2, <3>3, GoesToTyped, SameMine, QuietKeeps
    <2>3. CASE TagRefused(V(c)) /\ CallGoes(c, [call[c] EXCEPT !.pc = "unpinning", !.verdict = "failed"])
      <3>1. [call[c] EXCEPT !.pc = "unpinning", !.verdict = "failed"] \in CallLocals
        BY DEF CallLocals
      <3>2. call'[c] = [call[c] EXCEPT !.pc = "unpinning", !.verdict = "failed"] /\ OwnStep(c)
        BY <2>3, GoesCall DEF OwnStep
      <3>3. call'[c].pc = "unpinning" /\ call'[c].verdict = "failed" /\ call'[c].mine = call[c].mine
        BY <3>2 DEF CallLocals
      <3>4. StepInv(c)' /\ AnswerInv(c)'
        BY <2>0, <3>3 DEF StepInv, AnswerInv, AsksFor
      <3>5. offering' \in Offering /\ tags' = tags /\ offering'.published = offering.published
        BY <2>3, RefusedTyped
      <3> QED BY <2>1, <2>3, <3>1, <3>2, <3>3, <3>4, <3>5, GoesTyped, SameMine, QuietKeeps
    <2> QED BY <1>4, <2>2, <2>3 DEF PublishPins
  <1>5. CASE PublishJudges(c)
    <2>0. call[c].pc = "judging" /\ AsksFor(c, "publish")
      BY <1>5 DEF PublishJudges, CallAt, StepInv
    <2>1. SameHistory /\ UNCHANGED <<tags, offering>>
      BY <1>5 DEF PublishJudges, SameHistory, data, history
    <2> DEFINE verdict == IF Opens(c) \subseteq stored THEN VerdictOn(c) ELSE "failed"
               pc == IF verdict = "publish" /\ V(c) # call[c].previous THEN "moving" ELSE "unpinning"
    <2>2. CallGoes(c, [call[c] EXCEPT !.verdict = verdict, !.pc = pc])
      BY <1>5 DEF PublishJudges
    <2>3. verdict \in {"refuse", "hold", "publish", "failed"} /\ pc \in {"moving", "unpinning"}
      BY DEF VerdictOn
    <2>4. verdict \in {"hold", "publish"} => Sound(V(c))
      <3> SUFFICES ASSUME verdict \in {"hold", "publish"} PROVE Sound(V(c))
        OBVIOUS
      <3>1. Opens(c) \subseteq stored /\ verdict = VerdictOn(c)
        OBVIOUS
      <3>2. V(c) \in 1..head
        BY <3>1 DEF Opens, PubTypeOK
      <3>3. "structural" \notin contents[V(c)].failed
        BY <3>1 DEF VerdictOn, Judged
      <3> QED BY <3>2, <3>3 DEF Sound
    <2>5. verdict = "publish" => (contents[V(c)].failed # {} => c.waives)
      <3> SUFFICES ASSUME verdict = "publish", ~ c.waives PROVE contents[V(c)].failed = {}
        OBVIOUS
      <3>1. Judged(c).failed \ (IF c.waives THEN {"waivable"} ELSE {}) = {}
        BY DEF VerdictOn
      <3> QED BY <3>1 DEF Judged
    <2> HIDE DEF verdict, pc
    <2>6. [call[c] EXCEPT !.verdict = verdict, !.pc = pc] \in CallLocals
      BY <2>3 DEF CallLocals
    <2>7. call'[c] = [call[c] EXCEPT !.verdict = verdict, !.pc = pc] /\ OwnStep(c)
      BY <2>2, GoesCall DEF OwnStep
    <2>8. call'[c].pc = pc /\ call'[c].verdict = verdict /\ call'[c].mine = call[c].mine
      BY <2>7 DEF CallLocals
    <2>9. pc = "moving" => verdict = "publish"
      BY DEF pc
    <2>10. head' = head /\ contents' = contents
      BY <2>1 DEF SameHistory
    <2>11. Sound(V(c)) => Sound(V(c))'
      BY <2>10 DEF Sound, V
    <2>12. StepInv(c)'
      BY <2>0, <2>3, <2>4, <2>5, <2>8, <2>9, <2>10, <2>11 DEF StepInv, AsksFor, V
    <2>13. AnswerInv(c)'
      BY <2>3, <2>8 DEF AnswerInv
    <2> QED BY <2>1, <2>2, <2>6, <2>7, <2>8, <2>12, <2>13, GoesTyped, SameMine, QuietKeeps
  <1> QED BY <1>1, <1>2, <1>3, <1>4, <1>5

LEMMA UnpinsKeeps ==
  ASSUME PubInv, NEW c \in Calls, PublishUnpins(c)
  PROVE  PubInv'
  <1>0. PubTypeOK /\ StepInv(c) /\ AnswerInv(c) /\ call[c] \in CallLocals /\ call[c].pc = "unpinning"
        /\ tags \in [published : 0..head, publishing : 0..head, held : 0..head] /\ offering \in Offering
        /\ head \in Nat
    BY DEF PubInv, PubTypeOK, PublishUnpins, CallAt, Versions
  <1> USE <1>0
  <1> DEFINE pc == CASE call[c].verdict = "hold" -> "holding"
                     [] call[c].verdict = "moved" -> "closing"
                     [] OTHER -> "ended"
  <1>1. CallGoesTo(c, pc) /\ SameHistory
    BY DEF PublishUnpins, SameHistory, data, history
  <1>2. /\ tags' \in [published : 0..head, publishing : 0..head, held : 0..head]
        /\ tags'.published = tags.published /\ offering' \in Offering
        /\ offering'.published = offering.published
    <2>1. CASE tags' = [tags EXCEPT !.publishing = 0] /\ UNCHANGED offering
      BY <2>1
    <2>2. CASE MeetsFault("tag") /\ UNCHANGED tags
      BY <2>2, MeetsTyped
    <2> QED BY <2>1, <2>2 DEF PublishUnpins
  <1>3. pc \in {"holding", "closing", "ended"} /\ (pc = "holding" => call[c].verdict = "hold")
    OBVIOUS
  <1> HIDE DEF pc
  <1>4. /\ OwnStep(c) /\ call'[c].pc = pc /\ call'[c].verdict = call[c].verdict /\ call'[c].mine = call[c].mine
    BY <1>1, GoesToFacts
  <1>5. Sound(V(c)) => Sound(V(c))'
    BY <1>1 DEF Sound, V, SameHistory
  <1>6. StepInv(c)'
    BY <1>3, <1>4, <1>5 DEF StepInv, AsksFor
  <1>7. AnswerInv(c)'
    BY <1>1, <1>3, <1>4 DEF AnswerInv, V, SameHistory
  <1> QED BY <1>1, <1>2, <1>3, <1>4, <1>6, <1>7, GoesToTyped, SameMine, QuietKeeps

LEMMA DecisionQuiet ==
  ASSUME PubInv, NEW c \in Calls,
         Rereads(c) \/ SyncsPin(c) \/ DecisionReads(c) \/ AdvanceReads(c) \/ RejectReads(c) \/ ExpiryLists(c)
  PROVE  PubInv'
  <1>0. /\ PubTypeOK /\ StepInv(c) /\ AnswerInv(c) /\ MineInv(c) /\ call[c] \in CallLocals /\ hold \in Hold
        /\ tags \in [published : 0..head, publishing : 0..head, held : 0..head] /\ offering \in Offering
        /\ tags.published \in 0..MaxVersion /\ reached \in Nat /\ reached >= tags.published
        /\ V(c) \in Nat /\ HeldIsSound
    BY CallTyped, PublicationAssumption DEF PubInv, PubTypeOK, Versions, ReadInv, V
  <1> USE <1>0
  <1>1. CASE Rereads(c)
    <2>1. SameHistory /\ UNCHANGED <<tags, offering>> /\ call[c].pc = "rereading"
      BY <1>1 DEF Rereads, CallAt, SameHistory, data, history
    <2>2. [call[c] EXCEPT !.pc = "syncing", !.seen = hold] \in CallLocals
      BY DEF CallLocals
    <2>3. call'[c] = [call[c] EXCEPT !.pc = "syncing", !.seen = hold] /\ OwnStep(c)
          /\ call' \in [Calls -> CallLocals]
      BY <1>1, <2>2, GoesCall, GoesTyped DEF Rereads, OwnStep
    <2>4. call'[c].pc = "syncing" /\ call'[c].verdict = call[c].verdict /\ call'[c].mine = call[c].mine
      BY <2>3 DEF CallLocals
    <2>5. StepInv(c)' /\ AnswerInv(c)'
      BY <2>1, <2>4 DEF StepInv, AnswerInv, V, SameHistory
    <2> QED BY <2>1, <2>3, <2>4, <2>5, SameMine, QuietKeeps
  <1>2. CASE SyncsPin(c)
    <2>1. SameHistory /\ call[c].pc = "syncing"
      BY <1>2 DEF SyncsPin, CallAt, SameHistory, data, history
    <2>2. /\ tags' \in [published : 0..head, publishing : 0..head, held : 0..head]
          /\ tags'.published = tags.published /\ offering' \in Offering
          /\ offering'.published = offering.published
      <3>1. CASE SetsTag("held", call[c].seen.version)
        BY <3>1, TagTyped
      <3>2. CASE tags' = [tags EXCEPT !.held = 0] /\ UNCHANGED offering
        <4>1. head \in Nat
          BY DEF PubTypeOK, Versions
        <4> QED BY <3>2, <4>1
      <3>3. CASE TagRefused(call[c].seen.version)
        BY <3>3, RefusedTyped
      <3>4. CASE MeetsFault("tag") /\ UNCHANGED tags
        BY <3>4, MeetsTyped
      <3> QED BY <1>2, <3>1, <3>2, <3>3, <3>4 DEF SyncsPin
    <2>3. Answers(c, Settled(c)) \/ Answers(c, "failed")
      BY <1>2 DEF SyncsPin
    <2>4. /\ OwnStep(c) /\ call'[c].pc = "ended" /\ call'[c].mine = call[c].mine
          /\ call'[c].verdict \in {"failed", Settled(c)} /\ call' \in [Calls -> CallLocals]
      BY <2>3, AnswersFacts, AnswersTyped
    <2>5. call'[c].verdict \in {"failed", "done"} \/ call'[c].verdict = call[c].verdict
      BY <2>4 DEF Settled
    <2>6. StepInv(c)' /\ AnswerInv(c)'
      BY <2>1, <2>4, <2>5 DEF StepInv, AnswerInv, V, SameHistory
    <2> QED BY <2>1, <2>2, <2>4, <2>6, SameMine, QuietKeeps
  <1>3. CASE DecisionReads(c)
    <2>1. /\ SameHistory /\ UNCHANGED <<tags, offering>> /\ call[c].pc = "begun" /\ call[c].verdict = "none"
          /\ AsksFor(c, "approve") \/ AsksFor(c, "reject")
      BY <1>3 DEF DecisionReads, CallAt, StepInv, SameHistory, data, history
    <2> DEFINE read == [call[c] EXCEPT !.previous = tags.published]
    <2>2. /\ read \in CallLocals /\ read.pc = "begun" /\ read.verdict = "none" /\ read.mine = call[c].mine
      BY <2>1 DEF CallLocals
    <2> HIDE DEF read
    <2>3. CASE CallGoes(c, [read EXCEPT !.pc = "deciding"])
      <3>1. [read EXCEPT !.pc = "deciding"] \in CallLocals
        BY <2>2 DEF CallLocals
      <3>2. call'[c] = [read EXCEPT !.pc = "deciding"] /\ OwnStep(c) /\ call' \in [Calls -> CallLocals]
        BY <2>3, <3>1, GoesCall, GoesTyped DEF OwnStep
      <3>3. call'[c].pc = "deciding" /\ call'[c].verdict = "none" /\ call'[c].mine = call[c].mine
        BY <2>2, <3>2 DEF CallLocals
      <3>4. StepInv(c)' /\ AnswerInv(c)'
        BY <2>1, <3>3 DEF StepInv, AnswerInv, AsksFor
      <3> QED BY <2>1, <3>2, <3>3, <3>4, SameMine, QuietKeeps
    <2>4. CASE /\ hold.version = V(c) /\ hold.state = Decision(c)
               /\ CallGoes(c, [read EXCEPT !.pc = ActsNext(c), !.mine = hold])
      <3>1. [read EXCEPT !.pc = ActsNext(c), !.mine = hold] \in CallLocals
        BY <2>2 DEF CallLocals, ActsNext
      <3>2. call'[c] = [read EXCEPT !.pc = ActsNext(c), !.mine = hold] /\ OwnStep(c)
            /\ call' \in [Calls -> CallLocals]
        BY <2>4, <3>1, GoesCall, GoesTyped DEF OwnStep
      <3>3. call'[c].pc = ActsNext(c) /\ call'[c].verdict = "none" /\ call'[c].mine = hold
        BY <2>2, <3>2 DEF CallLocals
      <3>4. hold.id # 0
        BY <2>4 DEF HeldIsSound, Decision, Hold
      <3>5. StepInv(c)' /\ AnswerInv(c)'
        BY <2>1, <3>3, <3>4 DEF StepInv, AnswerInv, AsksFor, ActsNext
      <3>6. MineMoves(c)
        BY <2>1, <2>4, <3>3 DEF MineMoves, SameHistory
      <3> QED BY <2>1, <3>2, <3>5, <3>6, QuietKeeps
    <2>5. CASE CallGoes(c, [read EXCEPT !.pc = "closing", !.verdict = "refused"])
      <3>1. [read EXCEPT !.pc = "closing", !.verdict = "refused"] \in CallLocals
        BY <2>2 DEF CallLocals
      <3>2. call'[c] = [read EXCEPT !.pc = "closing", !.verdict = "refused"] /\ OwnStep(c)
            /\ call' \in [Calls -> CallLocals]
        BY <2>5, <3>1, GoesCall, GoesTyped DEF OwnStep
      <3>3. call'[c].pc = "closing" /\ call'[c].verdict = "refused" /\ call'[c].mine = call[c].mine
        BY <2>2, <3>2 DEF CallLocals
      <3>4. StepInv(c)' /\ AnswerInv(c)'
        BY <3>3 DEF StepInv, AnswerInv
      <3> QED BY <2>1, <3>2, <3>3, <3>4, SameMine, QuietKeeps
    <2> QED BY <1>3, <2>3, <2>4, <2>5 DEF DecisionReads, read
  <1>4. CASE AdvanceReads(c)
    <2>1. SameHistory /\ UNCHANGED <<tags, offering>> /\ call[c].pc = "advancing"
      BY <1>4 DEF AdvanceReads, CallAt, SameHistory, data, history
    <2> DEFINE pc == IF tags.published >= V(c) THEN "rereading" ELSE "moving"
    <2>2. [call[c] EXCEPT !.verdict = "approved", !.pc = pc] \in CallLocals
      BY DEF CallLocals
    <2>3. call'[c] = [call[c] EXCEPT !.verdict = "approved", !.pc = pc] /\ OwnStep(c)
          /\ call' \in [Calls -> CallLocals]
      BY <1>4, <2>2, GoesCall, GoesTyped DEF AdvanceReads, OwnStep
    <2>4. call'[c].pc = pc /\ call'[c].verdict = "approved" /\ call'[c].mine = call[c].mine
      BY <2>3 DEF CallLocals
    <2>5. pc \in {"rereading", "moving"} /\ (pc = "rereading" => reached >= V(c))
      OBVIOUS
    <2> HIDE DEF pc
    <2>6. AsksFor(c, "approve") /\ ~ AsksFor(c, "publish") /\ call[c].mine.id # 0
      BY <2>1 DEF StepInv, AsksFor
    <2>7. StepInv(c)'
      BY <2>4, <2>5, <2>6 DEF StepInv, AsksFor
    <2>8. AnswerInv(c)'
      BY <2>1, <2>4, <2>5 DEF AnswerInv, V, SameHistory
    <2> QED BY <2>1, <2>3, <2>4, <2>7, <2>8, SameMine, QuietKeeps
  <1>5. CASE RejectReads(c)
    <2>1. SameHistory /\ UNCHANGED <<tags, offering>> /\ call[c].pc = "owing"
      BY <1>5 DEF RejectReads, CallAt, SameHistory, data, history
    <2> DEFINE pc == IF ~call[c].mine.owed THEN "rereading"
                     ELSE IF tags.published < V(c) THEN "restoring" ELSE "settling"
    <2>2. [call[c] EXCEPT !.verdict = "rejected", !.previous = tags.published, !.pc = pc] \in CallLocals
      BY DEF CallLocals
    <2>3. call'[c] = [call[c] EXCEPT !.verdict = "rejected", !.previous = tags.published, !.pc = pc]
          /\ OwnStep(c) /\ call' \in [Calls -> CallLocals]
      BY <1>5, <2>2, GoesCall, GoesTyped DEF RejectReads, OwnStep
    <2>4. call'[c].pc = pc /\ call'[c].verdict = "rejected" /\ call'[c].mine = call[c].mine
      BY <2>3 DEF CallLocals
    <2>5. /\ pc \in {"rereading", "restoring", "settling"}
          /\ pc = "settling" => reached >= V(c)
          /\ pc = "rereading" => ~call[c].mine.owed
      OBVIOUS
    <2> HIDE DEF pc
    <2>6. AsksFor(c, "reject") /\ call[c].mine.id # 0
      BY <2>1 DEF StepInv
    <2>7. StepInv(c)'
      BY <2>4, <2>5, <2>6 DEF StepInv, AsksFor
    <2>8. AnswerInv(c)'
      BY <2>1, <2>4, <2>5 DEF AnswerInv, V, SameHistory
    <2> QED BY <2>1, <2>3, <2>4, <2>7, <2>8, SameMine, QuietKeeps
  <1>6. CASE ExpiryLists(c)
    <2>1. SameHistory /\ UNCHANGED <<tags, offering>> /\ call[c].pc = "begun" /\ AsksFor(c, "expire")
          /\ call[c].verdict = "none"
      BY <1>6 DEF ExpiryLists, CallAt, StepInv, SameHistory, data, history
    <2>2. MineMoves(c)
      BY <2>1 DEF MineMoves, Deciding, AsksFor
    <2>3. CASE CallGoes(c, [call[c] EXCEPT !.pc = "expiring", !.mine = hold])
      <3>1. [call[c] EXCEPT !.pc = "expiring", !.mine = hold] \in CallLocals
        BY DEF CallLocals
      <3>2. call'[c] = [call[c] EXCEPT !.pc = "expiring", !.mine = hold] /\ OwnStep(c)
            /\ call' \in [Calls -> CallLocals]
        BY <2>3, <3>1, GoesCall, GoesTyped DEF OwnStep
      <3>3. call'[c].pc = "expiring" /\ call'[c].verdict = "none"
        BY <2>1, <3>2 DEF CallLocals
      <3>4. StepInv(c)' /\ AnswerInv(c)'
        BY <3>3 DEF StepInv, AnswerInv
      <3> QED BY <2>1, <2>2, <3>2, <3>4, QuietKeeps
    <2>4. CASE Answers(c, "done")
      BY <2>1, <2>4, AnswersFacts, AnswersTyped, EndsInv, SameMine, QuietKeeps
    <2> QED BY <1>6, <2>3, <2>4 DEF ExpiryLists
  <1> QED BY <1>1, <1>2, <1>3, <1>4, <1>5, <1>6

-----------------------------------------------------------------------------
(* Steps that write the hold, or move what readers read                    *)

ActSet == [id : Nat, kind : Closed, asked : 0..MaxVersion, held : 0..MaxVersion]

\* A step of c that writes the hold record.
LEMMA HoldKeeps ==
  ASSUME PubInv, NEW c \in Calls, OwnStep(c), call' \in [Calls -> CallLocals],
         UNCHANGED <<head, contents, stored, tags, time, cleared, reached>>,
         hold' \in Hold, acts' \subseteq ActSet,
         offering' \in Offering, offering'.published = offering.published,
         HoldMoves, ActsMove, HeldIsSound', MineMoves(c), StepInv(c)', AnswerInv(c)'
  PROVE  PubInv'
  <1>0. PubTypeOK /\ reached \in Nat /\ head \in Nat
    BY DEF PubInv, PubTypeOK, Versions
  <1>1. PubTypeOK'
    BY <1>0 DEF PubTypeOK, ActSet
  <1>2. Grows /\ reached' >= reached /\ cleared \subseteq cleared' /\ tags'.published = tags.published
    BY <1>0 DEF Grows
  <1>3. ReadInv'
    BY <1>1, <1>2, ReadKeeps
  <1> QED BY <1>1, <1>2, <1>3, CallKeeps

\* The open hold is closed, and that is what was done under it.
LEMMA ClosingActs ==
  ASSUME PubInv, hold.state = "open", NEW kind \in Closed, UNCHANGED <<head, contents>>,
         hold' = [hold EXCEPT !.state = kind],
         acts' = acts \cup {[id |-> hold.id, kind |-> kind, asked |-> hold.version, held |-> hold.version]}
  PROVE  hold' \in Hold /\ acts' \subseteq ActSet /\ HoldMoves /\ ActsMove /\ HeldIsSound'
  <1>0. hold \in Hold /\ acts \subseteq ActSet /\ HeldIsSound /\ ActsInv
    BY DEF PubInv, PubTypeOK, ActSet
  <1>1. hold.id \in Nat /\ hold.version \in 0..MaxVersion
    BY <1>0 DEF Hold
  <1>2. hold' \in Hold /\ hold'.id = hold.id /\ hold'.version = hold.version /\ hold'.state = kind
    BY <1>0 DEF Hold
  <1>3. acts' \subseteq ActSet
    BY <1>0, <1>1 DEF ActSet
  <1>4. HoldMoves
    BY <1>1, <1>2 DEF HoldMoves
  <1>5. HeldIsSound'
    BY <1>0, <1>2 DEF HeldIsSound, Sound
  <1>6. \A b \in acts : b.id # hold.id
    BY <1>0 DEF ActsInv, ActSet, Closed
  <1>7. \A d \in Calls : Deciding(d) /\ hold.id # 0 => call[d].mine.id # hold.id
    <2> SUFFICES ASSUME NEW d \in Calls, Deciding(d), hold.id # 0, call[d].mine.id = hold.id PROVE FALSE
      OBVIOUS
    <2>1. MineInv(d) /\ (AsksFor(d, "approve") \/ AsksFor(d, "reject"))
      BY DEF PubInv, Deciding, AsksFor
    <2>2. hold.state = Decision(d)
      BY <2>1 DEF MineInv
    <2> QED BY <2>2 DEF Decision
  <1>8. ASSUME NEW a \in acts', a \notin acts
        PROVE  a = [id |-> hold.id, kind |-> kind, asked |-> hold.version, held |-> hold.version]
    BY <1>8
  <1>9. ActsMove
    BY <1>1, <1>2, <1>6, <1>7, <1>8 DEF ActsMove
  <1> QED BY <1>2, <1>3, <1>4, <1>5, <1>9

\* What is done by a decision, under the hold it was made on.
LEMMA DecidedActs ==
  ASSUME PubInv, NEW c \in Calls, Deciding(c), call[c].mine.id # 0, hold' = hold,
         Acts(c, Decision(c), call[c].mine)
  PROVE  acts' \subseteq ActSet /\ ActsMove
  <1> DEFINE mine == call[c].mine
             new == [id |-> mine.id, kind |-> Decision(c), asked |-> V(c), held |-> mine.version]
  <1>0. /\ acts \subseteq ActSet /\ mine \in Hold /\ MineInv(c) /\ PairInv
        /\ AsksFor(c, "approve") \/ AsksFor(c, "reject")
    BY DEF PubInv, PubTypeOK, ActSet, CallLocals, Deciding, AsksFor
  <1>1. /\ mine.id <= hold.id /\ mine.state = Decision(c) /\ mine.version = V(c)
        /\ mine.id = hold.id => hold.state = mine.state
        /\ \A a \in acts : a.id = mine.id => a.kind = mine.state
    BY <1>0 DEF MineInv
  <1>2. mine.id \in Nat /\ mine.version \in 0..MaxVersion /\ Decision(c) \in Closed
    BY <1>0 DEF Hold, Decision, Closed
  <1>3. new \in ActSet
    BY <1>1, <1>2 DEF ActSet
  <1>4. acts' = acts \cup {new}
    BY DEF Acts
  <1>5. \A d \in Calls : Deciding(d) /\ call[d].mine.id = mine.id => call[d].mine.state = Decision(c)
    BY <1>0, <1>1 DEF PairInv, Deciding
  <1>6. /\ new.id = mine.id /\ new.kind = Decision(c) /\ new.asked = V(c) /\ new.held = mine.version
    OBVIOUS
  <1> HIDE DEF new, mine
  <1>7. ActsMove
    BY <1>1, <1>4, <1>5, <1>6 DEF ActsMove
  <1> QED BY <1>0, <1>3, <1>4, <1>7

\* A step of c that moves what readers read to its version.
LEMMA MovingKeeps ==
  ASSUME PubInv, NEW c \in Calls, OwnStep(c), call' \in [Calls -> CallLocals],
         UNCHANGED <<head, contents, stored, hold, time>>, SetsTag("published", V(c)),
         NEW how \in {"gate", "waiver", "approval"}, cleared' = cleared \cup {<<V(c), how>>}, Reaches(V(c)),
         Sound(V(c)), contents[V(c)].failed # {} => how # "gate",
         acts' \subseteq ActSet, ActsMove, call'[c].mine = call[c].mine, StepInv(c)', AnswerInv(c)'
  PROVE  PubInv'
  <1>0. /\ PubTypeOK /\ reached \in Nat /\ head \in Nat /\ hold.id \in Nat /\ HeldIsSound
        /\ reached \in 0..MaxVersion /\ cleared \subseteq Versions \X {"gate", "waiver", "approval"}
        /\ head \in 1..MaxVersion
    BY DEF PubInv, PubTypeOK, Versions, Hold
  <1>1. /\ tags' \in [published : 0..head, publishing : 0..head, held : 0..head]
        /\ offering' = offering /\ V(c) \in 1..head /\ tags'.published = V(c)
    BY <1>0, TagTyped
  <1>2. V(c) \in Versions /\ V(c) \in Nat
    BY <1>0, <1>1, PublicationAssumption DEF Versions
  <1>3. reached' \in 0..MaxVersion /\ reached' >= reached /\ reached' >= V(c)
    BY <1>0, <1>2, PublicationAssumption DEF Reaches, Versions
  <1>4. cleared' \subseteq Versions \X {"gate", "waiver", "approval"}
    BY <1>0, <1>2
  <1>5. PubTypeOK'
    BY <1>0, <1>1, <1>3, <1>4 DEF PubTypeOK, ActSet
  <1>6. Grows /\ HoldMoves /\ HeldIsSound'
    BY <1>0 DEF Grows, HoldMoves, HeldIsSound, Sound
  <1>7. ReadInv'
    <2>1. "structural" \notin contents[V(c)].failed /\ <<V(c), how>> \in cleared'
      BY DEF Sound
    <2>2. ReadersReadReviewed'
      BY <1>1, <2>1 DEF ReadersReadReviewed
    <2> QED BY <1>1, <1>3, <2>2 DEF ReadInv
  <1> QED BY <1>3, <1>5, <1>6, <1>7, SameMine, CallKeeps

LEMMA PublishMovesKeeps ==
  ASSUME PubInv, NEW c \in Calls, PublishMoves(c)
  PROVE  PubInv'
  <1>0. /\ PubTypeOK /\ StepInv(c) /\ AnswerInv(c) /\ call[c] \in CallLocals
        /\ call[c].pc = "moving" /\ AsksFor(c, "publish") /\ acts \subseteq ActSet
        /\ tags \in [published : 0..head, publishing : 0..head, held : 0..head]
    BY DEF PubInv, PubTypeOK, PublishMoves, CallAt, ActSet
  <1> USE <1>0
  <1>1. ASSUME NEW verdict \in {"moved", "failed"},
               CallGoes(c, [call[c] EXCEPT !.pc = "unpinning", !.verdict = verdict])
        PROVE  /\ OwnStep(c) /\ call' \in [Calls -> CallLocals] /\ call'[c].mine = call[c].mine
               /\ StepInv(c)' /\ AnswerInv(c)'
    <2>1. [call[c] EXCEPT !.pc = "unpinning", !.verdict = verdict] \in CallLocals
      BY DEF CallLocals
    <2>2. call'[c] = [call[c] EXCEPT !.pc = "unpinning", !.verdict = verdict] /\ OwnStep(c)
          /\ call' \in [Calls -> CallLocals]
      BY <1>1, <2>1, GoesCall, GoesTyped DEF OwnStep
    <2>3. call'[c].pc = "unpinning" /\ call'[c].verdict = verdict /\ call'[c].mine = call[c].mine
      BY <2>2 DEF CallLocals
    <2>4. StepInv(c)' /\ AnswerInv(c)'
      BY <2>3 DEF StepInv, AnswerInv, AsksFor
    <2> QED BY <2>2, <2>3, <2>4
  <1>2. CASE /\ SetsTag("published", V(c))
             /\ CallGoes(c, [call[c] EXCEPT !.pc = "unpinning", !.verdict = "moved"])
             /\ cleared' = cleared \cup {<<V(c), How(c)>>}
             /\ Reaches(V(c))
    <2>1. UNCHANGED <<head, contents, stored, hold, time>> /\ acts' = acts
      BY DEF PublishMoves, data
    <2>2. Sound(V(c)) /\ (contents[V(c)].failed # {} => c.waives)
      BY DEF StepInv
    <2>3. How(c) \in {"gate", "waiver", "approval"} /\ (contents[V(c)].failed # {} => How(c) # "gate")
      BY <2>2 DEF How
    <2>4. ActsMove
      BY <2>1 DEF ActsMove
    <2> HIDE DEF How
    <2> QED BY <1>1, <1>2, <2>1, <2>2, <2>3, <2>4, MovingKeeps
  <1>3. CASE /\ TagRefused(V(c))
             /\ CallGoes(c, [call[c] EXCEPT !.pc = "unpinning", !.verdict = "failed"])
             /\ UNCHANGED <<cleared, reached>>
    <2>1. SameHistory
      BY <1>3 DEF PublishMoves, data, SameHistory
    <2>2. offering' \in Offering /\ tags' = tags /\ offering'.published = offering.published
      BY <1>3, RefusedTyped
    <2> QED BY <1>1, <1>3, <2>1, <2>2, SameMine, QuietKeeps
  <1> QED BY <1>2, <1>3 DEF PublishMoves

LEMMA OpensKeeps ==
  ASSUME PubInv, NEW c \in Calls, OpensHold(c)
  PROVE  PubInv'
  <1>0. /\ PubTypeOK /\ StepInv(c) /\ AnswerInv(c) /\ call[c] \in CallLocals /\ hold \in Hold
        /\ call[c].pc = "holding" /\ AsksFor(c, "publish") /\ Sound(V(c)) /\ acts \subseteq ActSet
        /\ call[c].verdict = "hold" /\ HeldIsSound
        /\ tags \in [published : 0..head, publishing : 0..head, held : 0..head] /\ offering \in Offering
        /\ V(c) \in 0..MaxVersion /\ time \in Nat /\ hold.id \in Nat
    <2>1. /\ PubTypeOK /\ StepInv(c) /\ AnswerInv(c) /\ HeldIsSound /\ call[c].pc = "holding"
      BY DEF PubInv, OpensHold, CallAt
    <2>2. AsksFor(c, "publish") /\ Sound(V(c)) /\ call[c].verdict = "hold"
      BY <2>1 DEF StepInv
    <2>3. V(c) \in 0..MaxVersion
      BY CallTyped DEF V
    <2>4. hold \in Hold /\ acts \subseteq ActSet /\ call[c] \in CallLocals /\ time \in Nat
          /\ tags \in [published : 0..head, publishing : 0..head, held : 0..head] /\ offering \in Offering
      BY <2>1, PublicationAssumption DEF PubTypeOK, ActSet
    <2>5. hold.id \in Nat
      BY <2>4 DEF Hold
    <2> QED BY <2>1, <2>2, <2>3, <2>4, <2>5
  <1> USE <1>0
  <1>1. UNCHANGED <<head, contents, stored, tags, time, cleared, acts, reached>>
    BY DEF OpensHold, data, history
  <1>2. CASE Answers(c, "refused") /\ UNCHANGED <<hold, offering>>
    BY <1>1, <1>2, AnswersFacts, AnswersTyped, EndsInv, SameMine, QuietKeeps DEF SameHistory
  <1> DEFINE standing == IF hold.state = "open" /\ hold.version = V(c) THEN hold ELSE Opened(c)
  <1>3. /\ standing \in Hold /\ standing.version = V(c) /\ standing.id >= 1
        /\ standing = hold \/ standing.id = hold.id + 1
    <2>1. hold.id + 1 \in Nat /\ time + Hours \in Nat
      BY PublicationAssumption
    <2>2. Opened(c) \in Hold /\ Opened(c).version = V(c) /\ Opened(c).id = hold.id + 1
      BY <2>1, NoHoldTyped DEF Opened, Hold
    <2>3. hold.state = "open" => hold.id >= 1
      BY DEF HeldIsSound
    <2> HIDE DEF Opened
    <2> QED BY <2>2, <2>3
  <1> HIDE DEF standing
  <1>4. CASE hold' = standing
    <2>1. hold' \in Hold /\ HoldMoves
      BY <1>3, <1>4 DEF HoldMoves
    <2>2. HeldIsSound'
      BY <1>1, <1>3, <1>4 DEF HeldIsSound, Sound, V
    <2>3. ActsMove /\ acts' \subseteq ActSet
      BY <1>1 DEF ActsMove
    <2>4. MineMoves(c)
      BY DEF MineMoves, Deciding, AsksFor
    <2>5. CASE CallGoes(c, [call[c] EXCEPT !.pc = "syncing", !.mine = standing, !.seen = standing])
               /\ UNCHANGED offering
      <3>1. [call[c] EXCEPT !.pc = "syncing", !.mine = standing, !.seen = standing] \in CallLocals
        BY <1>3 DEF CallLocals
      <3>2. call'[c] = [call[c] EXCEPT !.pc = "syncing", !.mine = standing, !.seen = standing] /\ OwnStep(c)
            /\ call' \in [Calls -> CallLocals]
        BY <2>5, <3>1, GoesCall, GoesTyped DEF OwnStep
      <3>3. call'[c].pc = "syncing" /\ call'[c].verdict = "hold"
        BY <3>2 DEF CallLocals
      <3>4. StepInv(c)' /\ AnswerInv(c)'
        BY <3>3 DEF StepInv, AnswerInv
      <3> QED BY <1>1, <2>1, <2>2, <2>3, <2>4, <2>5, <3>2, <3>4, HoldKeeps
    <2>6. CASE MeetsFault("answer") /\ Answers(c, "failed")
      <3>1. offering' \in Offering /\ offering'.published = offering.published
        BY <2>6, MeetsTyped
      <3>2. OwnStep(c) /\ call' \in [Calls -> CallLocals] /\ StepInv(c)' /\ AnswerInv(c)'
        BY <2>6, AnswersFacts, AnswersTyped, EndsInv
      <3> QED BY <1>1, <2>1, <2>2, <2>3, <2>4, <3>1, <3>2, HoldKeeps
    <2> QED BY <1>2, <1>4, <2>5, <2>6 DEF OpensHold, standing
  <1> QED BY <1>2, <1>4 DEF OpensHold, standing

LEMMA ClosesKeeps ==
  ASSUME PubInv, NEW c \in Calls, ClosesReached(c)
  PROVE  PubInv'
  <1>0. /\ PubTypeOK /\ StepInv(c) /\ AnswerInv(c) /\ call[c] \in CallLocals /\ call[c].pc = "closing"
        /\ tags \in [published : 0..head, publishing : 0..head, held : 0..head] /\ offering \in Offering
    BY DEF PubInv, PubTypeOK, ClosesReached, CallAt
  <1> USE <1>0
  <1>1. UNCHANGED <<head, contents, stored, tags, time, cleared, reached>>
    BY DEF ClosesReached, data
  <1>2. offering' \in Offering /\ offering'.published = offering.published
    BY MeetsTyped DEF ClosesReached
  <1>3. ASSUME NEW pc \in {"rereading", "ended"}, CallGoesTo(c, pc), acts \subseteq acts'
        PROVE  /\ OwnStep(c) /\ call' \in [Calls -> CallLocals] /\ MineMoves(c)
               /\ StepInv(c)' /\ AnswerInv(c)'
    <2>1. /\ OwnStep(c) /\ call'[c].pc = pc /\ call'[c].verdict = call[c].verdict
          /\ call'[c].mine = call[c].mine /\ call' \in [Calls -> CallLocals]
      BY <1>3, GoesToFacts, GoesToTyped
    <2>2. StepInv(c)' /\ AnswerInv(c)'
      BY <1>1, <1>3, <2>1 DEF StepInv, AnswerInv, V
    <2> QED BY <2>1, <2>2, SameMine
  <1>4. CASE CallGoesTo(c, "ended") /\ UNCHANGED <<hold, acts>>
    BY <1>1, <1>2, <1>3, <1>4, QuietKeeps DEF SameHistory
  <1>5. CASE /\ hold.state = "open"
             /\ hold' = [hold EXCEPT !.state = "superseded"]
             /\ acts' = acts \cup {[id |-> hold.id, kind |-> "superseded", asked |-> hold.version, held |-> hold.version]}
             /\ CallGoesTo(c, "rereading")
    <2>1. "superseded" \in Closed /\ acts \subseteq acts'
      BY <1>5 DEF Closed
    <2>2. hold' \in Hold /\ acts' \subseteq ActSet /\ HoldMoves /\ ActsMove /\ HeldIsSound'
      BY <1>1, <1>5, <2>1, ClosingActs
    <2> QED BY <1>1, <1>2, <1>3, <1>5, <2>1, <2>2, HoldKeeps
  <1> QED BY <1>4, <1>5 DEF ClosesReached, Supersedes

LEMMA DecidesKeeps ==
  ASSUME PubInv, NEW c \in Calls, Decides(c)
  PROVE  PubInv'
  <1>0. /\ PubTypeOK /\ StepInv(c) /\ AnswerInv(c) /\ call[c] \in CallLocals /\ hold \in Hold
        /\ call[c].pc = "deciding" /\ (AsksFor(c, "approve") \/ AsksFor(c, "reject"))
        /\ call[c].verdict = "none" /\ acts \subseteq ActSet /\ HeldIsSound
        /\ tags \in [published : 0..head, publishing : 0..head, held : 0..head] /\ offering \in Offering
    BY DEF PubInv, PubTypeOK, Decides, CallAt, ActSet, StepInv
  <1> USE <1>0
  <1>1. UNCHANGED <<head, contents, stored, tags, time, cleared, acts, reached>>
    BY DEF Decides, data, history
  <1>2. ASSUME NEW mine \in Hold, mine = hold', hold'.state = Decision(c), hold'.version = V(c), hold'.id # 0,
               CallGoes(c, [call[c] EXCEPT !.pc = ActsNext(c), !.mine = mine])
        PROVE  /\ OwnStep(c) /\ call' \in [Calls -> CallLocals] /\ MineMoves(c)
               /\ StepInv(c)' /\ AnswerInv(c)'
    <2>0. ActsNext(c) \in {"advancing", "owing"}
      BY DEF ActsNext
    <2>1. [call[c] EXCEPT !.pc = ActsNext(c), !.mine = mine] \in CallLocals
      BY <2>0 DEF CallLocals
    <2>2. call'[c] = [call[c] EXCEPT !.pc = ActsNext(c), !.mine = mine] /\ OwnStep(c)
          /\ call' \in [Calls -> CallLocals]
      BY <1>2, <2>1, GoesCall, GoesTyped DEF OwnStep
    <2>3. call'[c].pc = ActsNext(c) /\ call'[c].verdict = "none" /\ call'[c].mine = mine
      BY <2>2 DEF CallLocals
    <2>4. StepInv(c)' /\ AnswerInv(c)'
      BY <1>2, <2>3 DEF StepInv, AnswerInv, AsksFor, ActsNext
    <2>5. MineMoves(c)
      BY <1>2, <2>3 DEF MineMoves
    <2> QED BY <2>2, <2>4, <2>5
  <1>3. CASE Decidable(c) /\ hold' = Decided(c)
    <2>1. /\ hold' \in Hold /\ hold'.id = hold.id /\ hold'.version = V(c) /\ hold'.state = Decision(c)
          /\ Decision(c) \in {"approved", "rejected"}
      BY <1>3 DEF Decided, Decidable, Hold, Decision, Closed, AsksFor
    <2>2. hold.id \in Nat /\ hold.id # 0 /\ hold.state = "open" /\ hold.version = V(c)
      BY <1>3 DEF HeldIsSound, Decidable, Hold
    <2>3. HoldMoves
      BY <2>1, <2>2 DEF HoldMoves
    <2>4. HeldIsSound'
      BY <1>1, <2>1, <2>2 DEF HeldIsSound, Sound, V
    <2>5. ActsMove /\ acts' \subseteq ActSet
      BY <1>1 DEF ActsMove
    <2>6. CASE CallGoes(c, [call[c] EXCEPT !.pc = ActsNext(c), !.mine = hold']) /\ UNCHANGED offering
      <3>1. OwnStep(c) /\ call' \in [Calls -> CallLocals] /\ MineMoves(c) /\ StepInv(c)' /\ AnswerInv(c)'
        BY <1>2, <2>1, <2>2, <2>6
      <3> QED BY <1>1, <2>1, <2>3, <2>4, <2>5, <2>6, <3>1, HoldKeeps
    <2>7. CASE MeetsFault("answer") /\ Answers(c, "failed")
      <3>1. offering' \in Offering /\ offering'.published = offering.published
        BY <2>7, MeetsTyped
      <3>2. OwnStep(c) /\ call' \in [Calls -> CallLocals] /\ StepInv(c)' /\ AnswerInv(c)' /\ MineMoves(c)
        BY <2>7, AnswersFacts, AnswersTyped, EndsInv, SameMine
      <3> QED BY <1>1, <2>1, <2>3, <2>4, <2>5, <3>1, <3>2, HoldKeeps
    <2> QED BY <1>3, <2>6, <2>7 DEF Decides
  <1>4. CASE ~Decidable(c)
    <2>1. UNCHANGED <<hold, offering>> /\ SameHistory
      BY <1>1, <1>4 DEF Decides, SameHistory
    <2>2. CASE /\ hold.version = V(c) /\ hold.state = Decision(c)
               /\ CallGoes(c, [call[c] EXCEPT !.pc = ActsNext(c), !.mine = hold])
      <3>1. hold.id # 0
        BY <2>2 DEF HeldIsSound, Decision, Hold
      <3>2. OwnStep(c) /\ call' \in [Calls -> CallLocals] /\ MineMoves(c) /\ StepInv(c)' /\ AnswerInv(c)'
        BY <1>2, <2>1, <2>2, <3>1
      <3> QED BY <1>1, <2>1, <3>2, QuietKeeps
    <2>3. CASE Answers(c, "refused")
      BY <1>1, <2>1, <2>3, AnswersFacts, AnswersTyped, EndsInv, SameMine, QuietKeeps
    <2> QED BY <1>4, <2>2, <2>3 DEF Decides
  <1> QED BY <1>3, <1>4 DEF Decides

LEMMA AdvancesKeeps ==
  ASSUME PubInv, NEW c \in Calls, AdvanceMoves(c)
  PROVE  PubInv'
  <1>0. /\ PubTypeOK /\ StepInv(c) /\ AnswerInv(c) /\ MineInv(c) /\ call[c] \in CallLocals
        /\ call[c].pc = "moving" /\ AsksFor(c, "approve") /\ call[c].mine.id # 0
        /\ tags \in [published : 0..head, publishing : 0..head, held : 0..head]
        /\ reached \in Nat /\ V(c) \in Nat
    <2>1. /\ PubTypeOK /\ StepInv(c) /\ AnswerInv(c) /\ MineInv(c)
          /\ call[c].pc = "moving" /\ AsksFor(c, "approve")
      BY DEF PubInv, AdvanceMoves, CallAt
    <2>2. call[c].mine.id # 0
      BY <2>1 DEF StepInv
    <2>3. V(c) \in Nat
      BY CallTyped DEF V
    <2> QED BY <2>1, <2>2, <2>3 DEF PubTypeOK
  <1> USE <1>0
  <1>1. UNCHANGED <<head, contents, stored, hold, time>>
    BY DEF AdvanceMoves, data
  <1>2. CASE /\ SetsTag("published", V(c))
             /\ CallGoesTo(c, "rereading")
             /\ cleared' = cleared \cup {<<V(c), "approval">>}
             /\ Acts(c, "approved", call[c].mine)
             /\ Reaches(V(c))
    <2>1. /\ OwnStep(c) /\ call'[c].pc = "rereading" /\ call'[c].verdict = call[c].verdict
          /\ call'[c].mine = call[c].mine /\ call' \in [Calls -> CallLocals]
      BY <1>2, GoesToFacts, GoesToTyped
    <2>2. Sound(V(c)) /\ call[c].mine.state = "approved" /\ Decision(c) = "approved" /\ Deciding(c)
      BY DEF MineInv, Decision, Deciding, AsksFor
    <2>3. acts' \subseteq ActSet /\ ActsMove
      BY <1>1, <1>2, <2>2, DecidedActs
    <2>4. reached' >= V(c)
      BY <1>2 DEF Reaches
    <2>5. StepInv(c)'
      BY <2>1 DEF StepInv
    <2>6. AnswerInv(c)'
      BY <2>1, <2>4 DEF AnswerInv, V
    <2> QED BY <1>1, <1>2, <2>1, <2>2, <2>3, <2>5, <2>6, MovingKeeps
  <1>3. CASE TagRefused(V(c)) /\ Answers(c, "failed") /\ UNCHANGED history
    <2>1. SameHistory
      BY <1>1, <1>3 DEF SameHistory, history
    <2>2. offering' \in Offering /\ tags' = tags /\ offering'.published = offering.published
      BY <1>3, RefusedTyped
    <2> QED BY <1>3, <2>1, <2>2, AnswersFacts, AnswersTyped, EndsInv, SameMine, QuietKeeps
  <1> QED BY <1>2, <1>3 DEF AdvanceMoves

\* Main grows by one version: what is there stays.
LEMMA GrowsTyped ==
  ASSUME PubTypeOK, head < MaxVersion, NEW v \in 1..head, head' = head + 1,
         contents' = [w \in 1..head' |-> IF w = head' THEN contents[v] ELSE contents[w]],
         stored' = stored \cup {head'}
  PROVE  /\ head' \in Versions /\ contents' \in [1..head' -> Content]
         /\ stored' \subseteq 1..head' /\ head' \in stored'
         /\ tags \in [published : 0..head', publishing : 0..head', held : 0..head']
         /\ Grows
  <1>0. /\ head \in 1..MaxVersion /\ head \in Nat /\ contents \in [1..head -> Content] /\ stored \subseteq 1..head
        /\ tags \in [published : 0..head, publishing : 0..head, held : 0..head] /\ MaxVersion \in Nat
    BY PublicationAssumption DEF PubTypeOK, Versions
  <1>1. head' \in Versions /\ 1..head \subseteq 1..head' /\ 0..head \subseteq 0..head' /\ head' \in 1..head'
    BY <1>0 DEF Versions
  <1>2. contents' \in [1..head' -> Content]
    <2>1. ASSUME NEW w \in 1..head' PROVE (IF w = head' THEN contents[v] ELSE contents[w]) \in Content
      <3>1. w = head' \/ w \in 1..head
        BY <1>0
      <3> QED BY <1>0, <3>1
    <2> QED BY <2>1
  <1>3. stored' \subseteq 1..head' /\ head' \in stored'
    BY <1>0, <1>1
  <1>4. tags \in [published : 0..head', publishing : 0..head', held : 0..head']
    BY <1>0, <1>1
  <1>5. Grows
    <2>1. \A w \in 1..head : w \in 1..head' /\ w # head'
      BY <1>0
    <2> QED BY <1>0, <2>1 DEF Grows
  <1> QED BY <1>1, <1>2, <1>3, <1>4, <1>5

LEMMA RestoresKeeps ==
  ASSUME PubInv, NEW c \in Calls, RestoresMain(c)
  PROVE  PubInv'
  <1>0. /\ PubTypeOK /\ StepInv(c) /\ AnswerInv(c) /\ MineInv(c) /\ call[c] \in CallLocals
        /\ call[c].pc = "restoring" /\ AsksFor(c, "reject") /\ call[c].mine.id # 0 /\ HeldIsSound
        /\ call[c].mine \in Hold /\ stored \subseteq 1..head /\ acts \subseteq ActSet /\ hold.id \in Nat
        /\ tags \in [published : 0..head, publishing : 0..head, held : 0..head] /\ offering \in Offering
        /\ reached \in Nat /\ V(c) \in Nat /\ hold \in Hold
    <2>1. /\ PubTypeOK /\ StepInv(c) /\ AnswerInv(c) /\ MineInv(c) /\ HeldIsSound /\ call[c].pc = "restoring"
      BY DEF PubInv, RestoresMain, CallAt
    <2>2. AsksFor(c, "reject") /\ call[c].mine.id # 0
      BY <2>1 DEF StepInv
    <2>3. V(c) \in Nat
      BY CallTyped DEF V
    <2>4. /\ call[c] \in CallLocals /\ stored \subseteq 1..head /\ acts \subseteq ActSet /\ hold \in Hold
          /\ tags \in [published : 0..head, publishing : 0..head, held : 0..head] /\ offering \in Offering
          /\ reached \in Nat
      BY <2>1 DEF PubTypeOK, ActSet
    <2>5. call[c].mine \in Hold /\ hold.id \in Nat
      BY <2>4 DEF CallLocals, Hold
    <2> QED BY <2>1, <2>2, <2>3, <2>4, <2>5
  <1> USE <1>0
  <1>1. UNCHANGED <<tags, hold, time, cleared, reached>>
    BY DEF RestoresMain
  <1>2. CASE /\ call[c].previous \in stored /\ head < MaxVersion
             /\ head' = head + 1
             /\ contents' = [v \in 1..head' |-> IF v = head' THEN contents[call[c].previous] ELSE contents[v]]
             /\ stored' = stored \cup {head'}
             /\ CallGoes(c, [call[c] EXCEPT !.pc = "settling", !.mine.restored = head'])
             /\ Acts(c, "rejected", call[c].mine)
             /\ UNCHANGED offering
    <2>1. /\ head' \in Versions /\ contents' \in [1..head' -> Content]
          /\ stored' \subseteq 1..head' /\ head' \in stored'
          /\ tags \in [published : 0..head', publishing : 0..head', held : 0..head']
          /\ Grows
      BY <1>2, GrowsTyped
    <2>2. head' \in 0..MaxVersion
      BY <2>1, PublicationAssumption DEF Versions
    <2> DEFINE mine == [call[c].mine EXCEPT !.restored = head']
    <2>3. /\ mine \in Hold /\ mine.id = call[c].mine.id /\ mine.state = call[c].mine.state
          /\ mine.version = call[c].mine.version /\ mine.owed = call[c].mine.owed
      BY <2>2 DEF Hold
    <2>4. [call[c] EXCEPT !.pc = "settling", !.mine.restored = head']
            = [call[c] EXCEPT !.pc = "settling", !.mine = mine]
      BY DEF CallLocals
    <2> HIDE DEF mine
    <2>5. [call[c] EXCEPT !.pc = "settling", !.mine = mine] \in CallLocals
      BY <2>3 DEF CallLocals
    <2>6. call'[c] = [call[c] EXCEPT !.pc = "settling", !.mine = mine] /\ OwnStep(c)
          /\ call' \in [Calls -> CallLocals]
      BY <1>2, <2>4, <2>5, GoesCall, GoesTyped DEF OwnStep
    <2>7. call'[c].pc = "settling" /\ call'[c].verdict = call[c].verdict /\ call'[c].mine = mine
      BY <2>6 DEF CallLocals
    <2>8. Decision(c) = "rejected" /\ Deciding(c)
      BY DEF Decision, Deciding, AsksFor
    <2>9. acts' \subseteq ActSet /\ ActsMove
      BY <1>1, <1>2, <2>8, DecidedActs
    <2>10. PubTypeOK'
      BY <1>1, <1>2, <2>1, <2>6, <2>9 DEF PubTypeOK, ActSet
    <2>11. HoldMoves /\ MineMoves(c)
      BY <1>1, <2>3, <2>7 DEF HoldMoves, MineMoves
    <2>12. HeldIsSound'
      BY <1>1, <2>1, <2>10, SoundGrows DEF HeldIsSound
    <2>13. ReadInv'
      BY <1>1, <1>2, <2>1, <2>10, ReadKeeps
    <2>14. StepInv(c)'
      BY <2>3, <2>7 DEF StepInv, AsksFor
    <2>15. \E a \in acts' : a.id = call'[c].mine.id /\ a.kind = "rejected"
      <3> DEFINE act == [id |-> call[c].mine.id, kind |-> "rejected", asked |-> V(c), held |-> call[c].mine.version]
      <3>1. act \in acts'
        BY <1>2 DEF Acts
      <3>2. act.id = call'[c].mine.id /\ act.kind = "rejected"
        BY <2>3, <2>7
      <3> QED BY <3>1, <3>2
    <2>16. call'[c].verdict # "approved" \/ reached' >= V(c)
      BY <1>1, <2>7 DEF AnswerInv
    <2>17. AnswerInv(c)'
      BY <2>15, <2>16 DEF AnswerInv, V
    <2> QED BY <1>1, <2>1, <2>6, <2>9, <2>10, <2>11, <2>12, <2>13, <2>14, <2>17, CallKeeps
  <1>3. CASE /\ IF call[c].previous \in stored THEN MeetsFault("restore") ELSE UNCHANGED offering
             /\ Answers(c, "failed")
             /\ UNCHANGED <<data, acts>>
    <2>1. SameHistory
      BY <1>1, <1>3 DEF SameHistory, data
    <2>2. offering' \in Offering /\ offering'.published = offering.published
      BY <1>3, MeetsTyped
    <2> QED BY <1>1, <1>3, <2>1, <2>2, AnswersFacts, AnswersTyped, EndsInv, SameMine, QuietKeeps
  <1> QED BY <1>2, <1>3 DEF RestoresMain

LEMMA RecordsKeeps ==
  ASSUME PubInv, NEW c \in Calls, RecordsRestore(c)
  PROVE  PubInv'
  <1>0. /\ PubTypeOK /\ StepInv(c) /\ AnswerInv(c) /\ call[c] \in CallLocals /\ hold \in Hold
        /\ call[c].pc = "settling" /\ acts \subseteq ActSet /\ HeldIsSound /\ call[c].mine \in Hold
        /\ tags \in [published : 0..head, publishing : 0..head, held : 0..head] /\ offering \in Offering
        /\ hold.id \in Nat /\ call[c].mine.restored \in 0..MaxVersion
    BY DEF PubInv, PubTypeOK, RecordsRestore, CallAt, ActSet, CallLocals, Hold
  <1> USE <1>0
  <1>1. UNCHANGED <<head, contents, stored, tags, time, offering, cleared, acts, reached>>
    BY DEF RecordsRestore, data, history
  <1>2. CASE /\ hold' = IF hold.owed THEN [hold EXCEPT !.owed = FALSE, !.restored = call[c].mine.restored] ELSE hold
             /\ CallGoesTo(c, "rereading")
    <2>1. hold' \in Hold /\ hold'.id = hold.id /\ hold'.state = hold.state /\ hold'.version = hold.version
      BY <1>2 DEF Hold
    <2>2. HoldMoves /\ ActsMove /\ acts' \subseteq ActSet
      BY <1>1, <2>1 DEF HoldMoves, ActsMove
    <2>3. HeldIsSound'
      BY <1>1, <2>1 DEF HeldIsSound, Sound
    <2>4. /\ OwnStep(c) /\ call'[c].pc = "rereading" /\ call'[c].verdict = call[c].verdict
          /\ call'[c].mine = call[c].mine /\ call' \in [Calls -> CallLocals]
      BY <1>2, GoesToFacts, GoesToTyped
    <2>5. StepInv(c)' /\ AnswerInv(c)'
      BY <1>1, <2>4 DEF StepInv, AnswerInv, V
    <2> QED BY <1>1, <2>1, <2>2, <2>3, <2>4, <2>5, SameMine, HoldKeeps
  <1>3. CASE Answers(c, "failed") /\ UNCHANGED hold
    BY <1>1, <1>3, AnswersFacts, AnswersTyped, EndsInv, SameMine, QuietKeeps DEF SameHistory
  <1> QED BY <1>2, <1>3 DEF RecordsRestore

LEMMA ExpiresKeeps ==
  ASSUME PubInv, NEW c \in Calls, ExpiresHold(c)
  PROVE  PubInv'
  <1>0. /\ PubTypeOK /\ StepInv(c) /\ call[c] \in CallLocals /\ call[c].pc = "expiring"
        /\ call[c].verdict = "none"
        /\ tags \in [published : 0..head, publishing : 0..head, held : 0..head] /\ offering \in Offering
    BY DEF PubInv, PubTypeOK, ExpiresHold, CallAt, StepInv
  <1> USE <1>0
  <1>1. UNCHANGED <<head, contents, stored, tags, time, offering, cleared, reached>>
    BY DEF ExpiresHold, data
  <1>2. CASE /\ hold.state = "open"
             /\ hold' = [hold EXCEPT !.state = "expired"]
             /\ acts' = acts \cup {[id |-> hold.id, kind |-> "expired", asked |-> hold.version, held |-> hold.version]}
             /\ CallGoesTo(c, "rereading")
    <2>1. "expired" \in Closed
      BY DEF Closed
    <2>2. hold' \in Hold /\ acts' \subseteq ActSet /\ HoldMoves /\ ActsMove /\ HeldIsSound'
      BY <1>1, <1>2, <2>1, ClosingActs
    <2>3. /\ OwnStep(c) /\ call'[c].pc = "rereading" /\ call'[c].verdict = "none"
          /\ call'[c].mine = call[c].mine /\ call' \in [Calls -> CallLocals]
      BY <1>2, GoesToFacts, GoesToTyped
    <2>4. StepInv(c)' /\ AnswerInv(c)'
      BY <2>3 DEF StepInv, AnswerInv
    <2> QED BY <1>1, <2>2, <2>3, <2>4, SameMine, HoldKeeps
  <1>3. CASE Answers(c, "done") /\ UNCHANGED <<hold, acts>>
    BY <1>1, <1>3, AnswersFacts, AnswersTyped, EndsInv, SameMine, QuietKeeps DEF SameHistory
  <1> QED BY <1>2, <1>3 DEF ExpiresHold

-----------------------------------------------------------------------------
(* The clock, other writers and cleanup                                    *)

LEMMA AroundKeeps ==
  ASSUME PubInv, PubTypeOK', Grows, UNCHANGED <<tags, hold, call, cleared, acts, reached>>,
         offering'.published = offering.published
  PROVE  PubInv'
  <1>0. PubTypeOK /\ HeldIsSound /\ PairInv /\ hold.id \in Nat /\ reached \in Nat
    BY DEF PubInv, PubTypeOK, Hold
  <1>1. HoldMoves /\ ActsMove /\ reached' >= reached
    BY <1>0 DEF HoldMoves, ActsMove
  <1>2. HeldIsSound'
    BY <1>0, SoundGrows DEF HeldIsSound
  <1>3. ReadInv'
    BY <1>1, ReadKeeps
  <1>4. ActsInv'
    BY <1>1, ActsKeep
  <1>5. \A c \in Calls : StepInv(c)' /\ AnswerInv(c)'
    BY <1>1, OthersKeep
  <1>6. ASSUME NEW c \in Calls PROVE MineInv(c)'
    <2>1. CASE ~ Deciding(c)
      BY <2>1 DEF MineInv, Deciding, AsksFor
    <2>2. CASE Deciding(c)
      BY <1>1, <2>2, MineKeep
    <2> QED BY <2>1, <2>2
  <1>7. PairInv'
    BY <1>0 DEF PairInv
  <1> QED BY <1>2, <1>3, <1>4, <1>5, <1>6, <1>7 DEF PubInv

LEMMA EnvironmentKeeps ==
  ASSUME PubInv, HourPasses \/ Commits \/ (\E v \in Versions : Collects(v)) \/ UNCHANGED pubVars
  PROVE  PubInv'
  <1>0. PubTypeOK /\ head \in Nat /\ offering \in Offering /\ head \in 1..head /\ time \in 0..MaxTime
    BY DEF PubInv, PubTypeOK, Versions
  <1>1. CASE HourPasses
    <2>1. time' \in 0..MaxTime
      BY <1>0, <1>1, PublicationAssumption DEF HourPasses
    <2>2. PubTypeOK' /\ Grows
      BY <1>0, <1>1, <2>1 DEF HourPasses, PubTypeOK, Grows, data, history
    <2> QED BY <1>1, <2>2, AroundKeeps DEF HourPasses, data, history
  <1>2. CASE Commits
    <2>1. /\ head' \in Versions /\ contents' \in [1..head' -> Content]
          /\ stored' \subseteq 1..head' /\ head' \in stored'
          /\ tags \in [published : 0..head', publishing : 0..head', held : 0..head']
          /\ Grows
      BY <1>0, <1>2, GrowsTyped DEF Commits
    <2>2. offering' \in Offering /\ offering'.published = offering.published
      BY <1>0, <1>2 DEF Commits, Offering
    <2>3. PubTypeOK'
      BY <1>0, <1>2, <2>1, <2>2 DEF Commits, PubTypeOK, history
    <2> QED BY <1>2, <2>1, <2>2, <2>3, AroundKeeps DEF Commits, history
  <1>3. ASSUME NEW v \in Versions, Collects(v) PROVE PubInv'
    <2>1. PubTypeOK' /\ Grows
      BY <1>0, <1>3 DEF Collects, PubTypeOK, Grows, history
    <2> QED BY <1>3, <2>1, AroundKeeps DEF Collects, history
  <1>4. CASE UNCHANGED pubVars
    <2>1. PubTypeOK' /\ Grows
      BY <1>0, <1>4 DEF pubVars, PubTypeOK, Grows
    <2> QED BY <1>4, <2>1, AroundKeeps DEF pubVars
  <1> QED BY <1>1, <1>2, <1>3, <1>4

-----------------------------------------------------------------------------
(* The theorems                                                            *)

LEMMA PubInitInv == PubInit => PubInv
  <1> SUFFICES ASSUME PubInit PROVE PubInv
    OBVIOUS
  <1>1. /\ offering \in Offering /\ Len(offering.contents) \in Versions
        /\ offering.published <= Len(offering.contents)
    BY PublicationAssumption DEF PubInit
  <1>2. offering.contents \in Seq(Content) /\ offering.published \in 0..MaxVersion
    BY <1>1 DEF Offering
  <1>3. head \in Versions /\ head \in Nat /\ contents \in [1..head -> Content]
    BY <1>1, <1>2, PublicationAssumption DEF PubInit, Versions
  <1>4. tags \in [published : 0..head, publishing : 0..head, held : 0..head]
    BY <1>1, <1>2, <1>3, PublicationAssumption DEF PubInit
  <1>5. \A c \in Calls : call[c] = NotBegun
    BY DEF PubInit
  <1>6. call \in [Calls -> CallLocals]
    BY NotBegunTyped DEF PubInit
  <1>7. stored \subseteq 1..head /\ head \in stored
    BY <1>3, PublicationAssumption DEF PubInit, Versions
  <1>8. PubTypeOK
    BY <1>1, <1>2, <1>3, <1>4, <1>6, <1>7, NoHoldTyped, PublicationAssumption DEF PubInit, PubTypeOK
  <1>9. HeldIsSound /\ ActsInv
    BY DEF PubInit, HeldIsSound, ActsInv, NoHold
  <1>10. ReadInv
    BY <1>2 DEF PubInit, ReadInv, ReadersReadReviewed
  <1>11. PairInv /\ \A c \in Calls : StepInv(c) /\ MineInv(c) /\ AnswerInv(c)
    BY <1>5 DEF PairInv, StepInv, MineInv, AnswerInv, NotBegun, NoHold
  <1> QED BY <1>8, <1>9, <1>10, <1>11 DEF PubInv

LEMMA PubStepInv == PubInv /\ [PubNext]_pubVars => PubInv'
  <1> SUFFICES ASSUME PubInv, [PubNext]_pubVars PROVE PubInv'
    OBVIOUS
  <1>1. ASSUME NEW c \in Calls, CallStep(c) PROVE PubInv'
    BY <1>1, PublishQuiet, UnpinsKeeps, DecisionQuiet, PublishMovesKeeps, OpensKeeps, ClosesKeeps,
       DecidesKeeps, AdvancesKeeps, RestoresKeeps, RecordsKeeps, ExpiresKeeps DEF CallStep
  <1> QED BY <1>1, EnvironmentKeeps DEF PubNext

LEMMA PubAlwaysInv == PubSpec => []PubInv
  BY PubInitInv, PubStepInv, PTL DEF PubSpec

\* What is done under a hold is of one kind and on the version the hold names; an
\* approval answered with success had its version reach readers, and a rejection
\* settled what it owed main: for any calls, versions, clocks and failures of the
\* doors of promotions.py and of the cron that expires holds.
THEOREM DecisionsAlwaysAct == PubSpec => []DecisionsAct
  <1>1. PubInv => DecisionsAct
    <2> SUFFICES ASSUME PubInv PROVE DecisionsAct
      OBVIOUS
    <2>1. ActsInv /\ \A c \in Calls : AnswerInv(c)
      BY DEF PubInv
    <2> QED BY <2>1 DEF DecisionsAct, ActsInv, AnswerInv, CallAt
  <1> QED BY <1>1, PubAlwaysInv, PTL

\* What readers read has no structural finding, and a version of it that failed an
\* assertion was waived by a validator or approved: whatever two publishes, an
\* approval, other writers and cleanup do between a gate and the move of the tag
\* (publication.py).
THEOREM ReadersAlwaysReadReviewed == PubSpec => []ReadersReadReviewed
  <1>1. PubInv => ReadersReadReviewed
    BY DEF PubInv, ReadInv
  <1> QED BY <1>1, PubAlwaysInv, PTL
=============================================================================
