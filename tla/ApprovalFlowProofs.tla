------------------------- MODULE ApprovalFlowProofs -------------------------
(***************************************************************************)
(* Theorems about ApprovalFlow, for any steps, bounds and number of        *)
(* deliveries: types, one open card, one verdict for each asking; and,     *)
(* until a run is replayed, that the engine is resumed only by the verdict *)
(* recorded for its suspension, and, if events are delivered once, that a  *)
(* verdict stands, and that a run that is over has no card to decide if    *)
(* there are no jobs or it has one step.                                   *)
(***************************************************************************)
EXTENDS ApprovalFlow, TLAPS

LEMMA AskedTyped ==
    ASSUME NEW c \in Card, NEW t \in Nat
    PROVE  /\ Asked(c, t) \in Card
           /\ Superseded(c) \in Card
  BY DEF Card, Asked, Superseded, Settled, Verdicts, NoVerdict

LEMMA AnsweredTyped ==
    ASSUME NEW c \in Card, NEW v \in Settled
    PROVE  Answered(c, v) \in Card
  BY DEF Card, Answered, Settled, Verdicts, NoVerdict

LEMMA CountedTyped ==
    ASSUME NEW d \in Card, NEW c \in Call
    PROVE  Counted(d, c) \in Card
<1>1. c.verdict \in Settled \cup {NoVerdict} /\ c.retries + 1 \in Nat
  BY DEF Call
<1> DEFINE p == c.verdict
           n == c.retries + 1
<1>2. ASSUME p \in Settled \cup {NoVerdict}, n \in Nat
      PROVE  [d EXCEPT !.payload = p, !.retries = n] \in Card
  <2> HIDE DEF p, n
  <2> QED BY <1>2 DEF Card
<1>3. QED
  BY <1>1, <1>2 DEF Counted

\* What is published is an event.
LEMMA PublishedTyped ==
    ASSUME TypeOK, NEW k \in {"suspended", "resumed"} \cup Terminal,
           NEW s \in Steps \cup {NoStep}, NEW t \in Nat
    PROVE  Published(k, s, t) \subseteq Event
<1>1. engine.seq + 1 \in Nat
  BY DEF TypeOK, Engine
<1>2. \A c \in 1..Copies : c \in Nat
  BY CountsAreNatural
<1>3. ASSUME NEW c \in 1..Copies
      PROVE  [seq |-> engine.seq + 1, kind |-> k, step |-> s, turn |-> t, copy |-> c] \in Event
  BY <1>1, <1>2 DEF Event
<1>4. mail \subseteq Event
  BY DEF TypeOK
<1>5. QED
  BY <1>3, <1>4 DEF Published

LEMMA AdvanceTyped ==
    ASSUME TypeOK, NEW p \in {"idle", "running", "suspended", "over"},
           NEW s \in Steps \cup {NoStep}, NEW t \in Nat, NEW o \in Terminal \cup {NoVerdict},
           Advance(p, s, t, o)
    PROVE  engine' \in Engine
<1>1. [q \in Steps |-> IF q = s THEN t ELSE engine.at[q]] \in [Steps -> Nat]
  BY DEF TypeOK, Engine
<1>2. engine \in Engine /\ engine.seq + 1 \in Nat
  BY DEF TypeOK, Engine
<1>3. QED
  BY <1>1, <1>2 DEF Advance, Engine

LEMMA HookTyped ==
    ASSUME TypeOK, NEW e \in Event, Hook(e)
    PROVE  seen' \subseteq Event /\ run' \in {"absent", "running", "paused"} \cup Terminal
           /\ card' \in [Steps -> Card]
<1>1. CASE e \in seen
  BY <1>1 DEF Hook, TypeOK
<1>2. CASE e \notin seen
  <2>1. seen' = seen \cup {e} /\ Dispatch(e)
    BY <1>2 DEF Hook
  <2>2. card \in [Steps -> Card] /\ e.turn \in Nat
    BY DEF TypeOK, Event
  <2>3. CardsOnSuspend(card, e) \in [Steps -> Card]
    BY <2>2, AskedTyped DEF CardsOnSuspend
  <2>4. CardsOnEnd(card) \in [Steps -> Card]
    BY <2>2, AskedTyped DEF CardsOnEnd
  <2>5. QED
    BY <2>1, <2>2, <2>3, <2>4 DEF Dispatch, TypeOK
<1>3. QED
  BY <1>1, <1>2

LEMMA SpendTyped ==
    ASSUME TypeOK, NEW w \in {"replay", "cancel", "fault", "crash"}, NEW b, Spend(w, b)
    PROVE  spent' \in [{"replay", "cancel", "fault", "crash"} -> Nat]
  BY DEF TypeOK, Spend

LEMMA SettleTyped ==
    ASSUME TypeOK, NEW s \in Steps, NEW v \in Settled, NEW by \in {"decide", "sweep"},
           Settle(s, v, by)
    PROVE  /\ card' \in [Steps -> Card]
           /\ verdicts' \subseteq [step: Steps, turn: Nat, ask: Nat, verdict: Settled]
           /\ calls' \subseteq Call
<1>1. card[s] \in Card
  BY DEF TypeOK
<1>2. Answered(card[s], v) \in Card
  BY <1>1, AnsweredTyped
<1>3. Verdict(s, v) \in [step: Steps, turn: Nat, ask: Nat, verdict: Settled]
  BY <1>1 DEF Verdict, Card
<1>4. ResumeCall(by, s, v) \in Call
  BY <1>1 DEF ResumeCall, Call, Card
<1>5. QED
  BY <1>2, <1>3, <1>4 DEF Settle, TypeOK

THEOREM InitTyped == Init => TypeOK
<1>1. SUFFICES ASSUME Init PROVE TypeOK
  OBVIOUS
<1>2. engine \in Engine
  BY <1>1 DEF Init, Engine, NoVerdict
<1>3. card \in [Steps -> Card]
  BY <1>1 DEF Init, Card, NewCard, NoVerdict
<1>4. QED
  BY <1>1, <1>2, <1>3 DEF Init, TypeOK

THEOREM NextTyped == TypeOK /\ [Next]_vars => TypeOK'
<1> SUFFICES ASSUME TypeOK, [Next]_vars PROVE TypeOK'
  OBVIOUS
<1> USE DEF TypeOK
<1>1. CASE Start
  <2>1. engine' \in Engine
    BY <1>1 DEF Start, Engine
  <2>2. QED
    BY <1>1, <2>1 DEF Start
<1>2. ASSUME NEW s \in Steps, Suspend(s) PROVE TypeOK'
  <2>1. engine.turn + 1 \in Nat
    BY DEF Engine
  <2>2. engine' \in Engine
    BY <1>2, <2>1, AdvanceTyped DEF Suspend
  <2>3. mail' \subseteq Event
    BY <1>2, <2>1, PublishedTyped DEF Suspend
  <2>4. QED
    BY <1>2, <2>2, <2>3 DEF Suspend
<1>3. ASSUME NEW o \in Outcomes, End(o) PROVE TypeOK'
  <2>1. engine.turn \in Nat /\ o \in Terminal
    BY DEF Engine, Terminal
  <2>2. engine' \in Engine
    BY <1>3, <2>1, AdvanceTyped DEF End
  <2>3. mail' \subseteq Event
    BY <1>3, <2>1, PublishedTyped DEF End
  <2>4. QED
    BY <1>3, <2>2, <2>3 DEF End
<1>4. CASE Replay
  <2>1. spent' \in [{"replay", "cancel", "fault", "crash"} -> Nat]
    BY <1>4, SpendTyped DEF Replay
  <2>2. [s \in Steps |-> 0] \in [Steps -> Nat]
    OBVIOUS
  <2>3. engine' \in Engine
    BY <1>4, <2>2 DEF Replay, Engine
  <2>4. QED
    BY <1>4, <2>1, <2>3 DEF Replay
<1>5. ASSUME NEW e \in mail, Project(e) PROVE TypeOK'
  BY <1>5, HookTyped DEF Project
<1>6. ASSUME NEW e \in mail, HandlerFails(e) PROVE TypeOK'
  BY <1>6, SpendTyped DEF HandlerFails
<1>7. ASSUME NEW e \in queue, RetryJob(e) PROVE TypeOK'
  <2>1. spent' \in [{"replay", "cancel", "fault", "crash"} -> Nat]
    BY <1>7, SpendTyped DEF RetryJob
  <2>2. QED
    BY <1>7, <2>1, HookTyped DEF RetryJob
<1>8. ASSUME NEW s \in Steps, NEW v \in Verdicts, Decide(s, v) PROVE TypeOK'
  BY <1>8, SettleTyped DEF Decide, Settled
<1>9. ASSUME NEW s \in Steps, Sweep(s) PROVE TypeOK'
  BY <1>9, SettleTyped DEF Sweep, Settled
<1>10. ASSUME NEW s \in Steps, RetryPick(s) PROVE TypeOK'
  <2>1. ResumeCall("retry", s, card[s].payload) \in Call
    BY DEF ResumeCall, Call, Card
  <2>2. QED
    BY <1>10, <2>1 DEF RetryPick
<1>11. ASSUME NEW c \in calls, Resume(c) PROVE TypeOK'
  <2>1. engine.turn \in Nat
    BY DEF Engine
  <2>2. engine' \in Engine
    BY <1>11, <2>1, AdvanceTyped DEF Resume
  <2>3. mail' \subseteq Event
    BY <1>11, <2>1, PublishedTyped DEF Resume
  <2>4. c \in Call
    OBVIOUS
  <2>5. [step |-> c.step, turn |-> engine.turn, verdict |-> c.verdict]
          \in [step: Steps, turn: Nat, verdict: Settled \cup {NoVerdict}]
    BY <2>1, <2>4 DEF Call
  <2>6. QED
    BY <1>11, <2>2, <2>3, <2>5 DEF Resume
<1>12. ASSUME NEW c \in calls, ResumeFails(c) PROVE TypeOK'
  <2>1. spent' \in [{"replay", "cancel", "fault", "crash"} -> Nat]
    BY <1>12, SpendTyped DEF ResumeFails
  <2>2. run' \in {"absent", "running", "paused"} \cup Terminal /\ card' \in [Steps -> Card]
    <3>1. c \in Call /\ c.step \in Steps
      BY DEF Call
    <3>2. card[c.step] \in Card /\ Counted(card[c.step], c) \in Card
      BY <3>1, CountedTyped
    <3>3. CASE GiveUp(c)
      BY <3>3 DEF GiveUp, Terminal
    <3>4. CASE LogOnly(c)
      BY <3>4 DEF LogOnly
    <3>5. CASE CountRetry(c)
      <4>1. CASE c.retries + 1 >= MaxRetries
        BY <3>5, <4>1 DEF CountRetry, Terminal, Outcomes
      <4>2. CASE ~(c.retries + 1 >= MaxRetries)
        <5>1. run' = run /\ card' = [card EXCEPT ![c.step] = Counted(card[c.step], c)]
          BY <3>5, <4>2 DEF CountRetry
        <5>2. QED
          BY <3>1, <3>2, <5>1
      <4>3. QED
        BY <4>1, <4>2
    <3>6. QED
      BY <1>12, <3>3, <3>4, <3>5 DEF ResumeFails
  <2>3. QED
    BY <1>12, <2>1, <2>2 DEF ResumeFails
<1>13. CASE CancelReads
  BY <1>13, SpendTyped DEF CancelReads
<1>14. CASE CancelPublishes
  <2>1. engine.turn \in Nat /\ "canceled" \in Terminal
    BY DEF Engine, Terminal
  <2>2. engine' \in Engine
    <3>1. CASE engine.phase = "over"
      <4>1. engine.seq + 1 \in Nat
        BY DEF Engine
      <4>2. engine' = [engine EXCEPT !.seq = engine.seq + 1]
        BY <1>14, <3>1 DEF CancelPublishes
      <4>3. QED
        BY <4>1, <4>2 DEF Engine
    <3>2. CASE engine.phase # "over"
      BY <1>14, <3>2, <2>1, AdvanceTyped DEF CancelPublishes
    <3>3. QED
      BY <3>1, <3>2
  <2>3. mail' \subseteq Event
    BY <1>14, <2>1, PublishedTyped DEF CancelPublishes
  <2>4. QED
    BY <1>14, <2>2, <2>3 DEF CancelPublishes
<1>15. CASE Crash
  BY <1>15, SpendTyped DEF Crash
<1>16. CASE UNCHANGED vars
  BY <1>16 DEF vars
<1>17. QED
  BY <1>1, <1>2, <1>3, <1>4, <1>5, <1>6, <1>7, <1>8, <1>9, <1>10, <1>11, <1>12, <1>13,
     <1>14, <1>15, <1>16
     DEF Next, EngineStep, HookStep, PeopleStep, JobStep, CallStep

\* Every reachable state has the declared types.
THEOREM TypeCorrect == Spec => []TypeOK
  BY InitTyped, NextTyped, PTL DEF Spec

-----------------------------------------------------------------------------
(* One open card, one verdict for each asking.                             *)

\* A verdict belongs to an asking of its card that is not open any more.
AskClosed == \A v \in verdicts :
    /\ v.ask <= card[v.step].asks
    /\ card[v.step].status = "pending" => v.ask < card[v.step].asks

CardInv == OnePending /\ OneVerdictPerAsk /\ AskClosed

LEMMA InitCards == Init => CardInv
  BY DEF Init, NewCard, CardInv, OnePending, OneVerdictPerAsk, AskClosed

\* What the hook does to the cards.
LEMMA HookCards ==
    ASSUME TypeOK, CardInv, NEW e \in Event, Hook(e), verdicts' = verdicts
    PROVE  CardInv'
<1>1. CASE e \in seen
  BY <1>1 DEF Hook, CardInv, OnePending, OneVerdictPerAsk, AskClosed
<1>2. CASE e \notin seen
  <2>1. Dispatch(e)
    BY <1>2 DEF Hook
  <2>2. card \in [Steps -> Card] /\ \A v \in verdicts : v.step \in Steps /\ v.ask \in Nat
    BY DEF TypeOK
  <2>3. \A s \in Steps : card[s].asks \in Nat
    BY <2>2 DEF Card
  <2>4. CASE card' = card
    BY <2>4 DEF CardInv, OnePending, OneVerdictPerAsk, AskClosed
  <2>5. CASE card' = CardsOnEnd(card)
    <3>1. \A s \in Steps : card'[s].status # "pending" /\ card'[s].asks = card[s].asks
      BY <2>2, <2>5 DEF CardsOnEnd, Superseded, Card
    <3>2. QED
      BY <2>2, <3>1 DEF CardInv, OnePending, OneVerdictPerAsk, AskClosed
  <2>6. CASE card' = CardsOnSuspend(card, e)
    <3>1. \A s \in Steps : s # e.step =>
             card'[s].status # "pending" /\ card'[s].asks = card[s].asks
      BY <2>2, <2>6 DEF CardsOnSuspend, Superseded, Card
    <3>2. \A s \in Steps : s = e.step => card'[s].asks = card[s].asks + 1
      BY <2>2, <2>6 DEF CardsOnSuspend, Asked
    <3>3. OnePending'
      BY <3>1 DEF OnePending
    <3>4. OneVerdictPerAsk'
      BY DEF CardInv, OneVerdictPerAsk
    <3>5. AskClosed'
      <4> SUFFICES ASSUME NEW v \in verdicts
                   PROVE  /\ v.ask <= card'[v.step].asks
                          /\ card'[v.step].status = "pending" => v.ask < card'[v.step].asks
        BY DEF AskClosed
      <4>1. v.ask <= card[v.step].asks /\ v.ask \in Nat /\ v.step \in Steps
        BY <2>2 DEF CardInv, AskClosed
      <4>2. CASE v.step = e.step
        BY <2>3, <3>2, <4>1, <4>2
      <4>3. CASE v.step # e.step
        BY <3>1, <4>1, <4>3
      <4>4. QED
        BY <4>2, <4>3
    <3>6. QED
      BY <3>3, <3>4, <3>5 DEF CardInv
  <2>7. QED
    BY <2>1, <2>4, <2>5, <2>6 DEF Dispatch
<1>3. QED
  BY <1>1, <1>2

\* Settling an open card.
LEMMA SettleCards ==
    ASSUME TypeOK, CardInv, NEW s \in Steps, NEW v \in Settled, NEW by \in {"decide", "sweep"},
           card[s].status = "pending", Settle(s, v, by)
    PROVE  CardInv'
<1>1. card \in [Steps -> Card] /\ \A w \in verdicts : w.step \in Steps /\ w.ask \in Nat
  BY DEF TypeOK
<1>2. card'[s].status = v /\ card'[s].asks = card[s].asks /\ v # "pending"
  BY <1>1 DEF Settle, Answered, Settled, Verdicts, Card
<1>3. \A t \in Steps : t # s => card'[t] = card[t]
  BY <1>1 DEF Settle
<1>4. verdicts' = verdicts \cup {Verdict(s, v)} /\ Verdict(s, v).step = s
      /\ Verdict(s, v).ask = card[s].asks
  BY DEF Settle, Verdict
<1>5. \A w \in verdicts : w.step = s => w.ask < card[s].asks
  BY DEF CardInv, AskClosed
<1>6. OnePending'
  BY <1>2, <1>3 DEF CardInv, OnePending
<1>7. OneVerdictPerAsk'
  <2>1. card[s].asks \in Nat
    BY <1>1 DEF Card
  <2>2. \A w \in verdicts : w.step = s => w.ask # card[s].asks
    BY <1>1, <1>5, <2>1
  <2>3. QED
    BY <1>4, <2>2 DEF CardInv, OneVerdictPerAsk
<1>8. AskClosed'
  <2>1. card[s].asks \in Nat
    BY <1>1 DEF Card
  <2> SUFFICES ASSUME NEW w \in verdicts'
               PROVE  /\ w.ask <= card'[w.step].asks
                      /\ card'[w.step].status = "pending" => w.ask < card'[w.step].asks
    BY DEF AskClosed
  <2>2. CASE w = Verdict(s, v)
    BY <1>2, <1>4, <2>1, <2>2
  <2>3. CASE w \in verdicts /\ w.step = s
    BY <1>1, <1>2, <1>5, <2>1, <2>3
  <2>4. CASE w \in verdicts /\ w.step # s
    BY <1>1, <1>3, <2>4 DEF CardInv, AskClosed
  <2>5. QED
    BY <1>4, <2>2, <2>3, <2>4
<1>9. QED
  BY <1>6, <1>7, <1>8 DEF CardInv

THEOREM NextCards == TypeOK /\ CardInv /\ [Next]_vars => CardInv'
<1> SUFFICES ASSUME TypeOK, CardInv, [Next]_vars PROVE CardInv'
  OBVIOUS
<1>1. ASSUME card' = card, verdicts' = verdicts PROVE CardInv'
  BY <1>1 DEF CardInv, OnePending, OneVerdictPerAsk, AskClosed
<1>2. CASE EngineStep \/ Crash \/ CancelReads \/ CancelPublishes \/ UNCHANGED vars
  BY <1>1, <1>2 DEF EngineStep, Start, Suspend, End, Replay, Crash, CancelReads, CancelPublishes, vars
<1>3. CASE HookStep
  <2>1. mail \subseteq Event /\ queue \subseteq Event
    BY DEF TypeOK
  <2>2. ASSUME NEW e \in mail, Project(e) PROVE CardInv'
    BY <2>1, <2>2, HookCards DEF Project
  <2>3. ASSUME NEW e \in mail, HandlerFails(e) PROVE CardInv'
    BY <1>1, <2>3 DEF HandlerFails
  <2>4. ASSUME NEW e \in queue, RetryJob(e) PROVE CardInv'
    BY <2>1, <2>4, HookCards DEF RetryJob
  <2>5. QED
    BY <1>3, <2>2, <2>3, <2>4 DEF HookStep
<1>4. ASSUME NEW s \in Steps, NEW v \in Verdicts, Decide(s, v) PROVE CardInv'
  BY <1>4, SettleCards DEF Decide, Settled
<1>5. CASE JobStep
  <2>1. ASSUME NEW s \in Steps, Sweep(s) PROVE CardInv'
    BY <2>1, SettleCards DEF Sweep, Settled
  <2>2. ASSUME NEW s \in Steps, RetryPick(s) PROVE CardInv'
    BY <1>1, <2>2 DEF RetryPick
  <2>3. QED
    BY <1>5, <2>1, <2>2 DEF JobStep
<1>6. CASE CallStep
  <2>1. ASSUME NEW c \in calls, Resume(c) PROVE CardInv'
    BY <1>1, <2>1 DEF Resume
  <2>2. ASSUME NEW c \in calls, ResumeFails(c) PROVE CardInv'
    <3>1. verdicts' = verdicts /\ c.step \in Steps /\ card \in [Steps -> Card]
      BY <2>2 DEF ResumeFails, TypeOK, Call
    <3>2. CASE card' = card
      BY <1>1, <3>1, <3>2
    <3>3. CASE card' = [card EXCEPT ![c.step] = Counted(card[c.step], c)]
      <4>1. \A s \in Steps : card'[s].status = card[s].status /\ card'[s].asks = card[s].asks
        BY <3>1, <3>3 DEF Counted, Card
      <4>2. \A v \in verdicts : v.step \in Steps
        BY DEF TypeOK
      <4>3. QED
        BY <3>1, <4>1, <4>2 DEF CardInv, OnePending, OneVerdictPerAsk, AskClosed
    <3>4. QED
      BY <2>2, <3>2, <3>3 DEF ResumeFails, GiveUp, LogOnly, CountRetry
  <2>3. QED
    BY <1>6, <2>1, <2>2 DEF CallStep
<1>7. QED
  BY <1>2, <1>3, <1>4, <1>5, <1>6 DEF Next, PeopleStep

THEOREM CardInvariant == Spec => []CardInv
  BY InitTyped, NextTyped, InitCards, NextCards, PTL DEF Spec

\* A run never has two cards to decide.
THEOREM AtMostOneCard == Spec => []OnePending
<1>1. CardInv => OnePending
  BY DEF CardInv
<1>2. QED
  BY <1>1, CardInvariant, PTL

\* Each asking of a card is answered at most once.
THEOREM OneVerdict == Spec => []OneVerdictPerAsk
<1>1. CardInv => OneVerdictPerAsk
  BY DEF CardInv
<1>2. QED
  BY <1>1, CardInvariant, PTL

-----------------------------------------------------------------------------
(* Without replays, every reference to a step is about its one suspension, *)
(* so a resume carries the verdict recorded for the suspension it ends.    *)

Recorded(s, t, v) == \E w \in verdicts : w.step = s /\ w.turn = t /\ w.verdict = v

EventTurns == \A e \in mail \cup queue \cup seen :
    e.kind = "suspended" => e.step \in Steps /\ e.turn = engine.at[e.step] /\ e.turn # 0
CardTurns == \A s \in Steps :
    card[s].status # "absent" => card[s].turn = engine.at[s] /\ card[s].turn # 0
CallTurns == \A c \in calls : c.turn = engine.at[c.step] /\ c.turn # 0
EngineTurn ==
    engine.phase = "suspended" =>
        engine.step \in Steps /\ engine.turn = engine.at[engine.step]
CallsRecorded == \A c \in calls : Recorded(c.step, c.turn, c.verdict)
PayloadsRecorded == \A s \in Steps :
    card[s].status \in Verdicts => Recorded(s, card[s].turn, card[s].payload)

TurnInv ==
    /\ EventTurns /\ CardTurns /\ CallTurns /\ EngineTurn
    /\ CallsRecorded /\ PayloadsRecorded /\ AllByVerdict

LEMMA InitTurns == Init => TurnInv
  BY DEF Init, NewCard, TurnInv, EventTurns, CardTurns, CallTurns, EngineTurn, CallsRecorded,
         PayloadsRecorded, AllByVerdict, Verdicts

\* Publishing anything but a suspension adds none.
LEMMA PublishedOther ==
    ASSUME NEW k, k # "suspended", NEW s, NEW t, NEW e \in Published(k, s, t),
           e.kind = "suspended"
    PROVE  e \in mail
  BY DEF Published

\* A change of phase that is not a suspension leaves the turns alone.
LEMMA AtKept ==
    ASSUME TypeOK, NEW p, NEW t, NEW o, Advance(p, NoStep, t, o)
    PROVE  engine'.at = engine.at /\ engine'.phase = p
<1>1. engine \in Engine
  BY DEF TypeOK
<1>2. [q \in Steps |-> IF q = NoStep THEN t ELSE engine.at[q]] = engine.at
  BY <1>1, StepsAreSteps DEF Engine
<1>3. QED
  BY <1>1, <1>2 DEF Advance, Engine

\* A step of the engine that suspends nothing.
LEMMA EngineTurns ==
    ASSUME TurnInv, engine'.at = engine.at, engine'.phase # "suspended",
           \A e \in mail' : e.kind = "suspended" => e \in mail,
           UNCHANGED <<queue, seen, card, verdicts>>, calls' \subseteq calls,
           AllByVerdict'
    PROVE  TurnInv'
<1>1. EventTurns'
  BY DEF TurnInv, EventTurns
<1>2. CardTurns' /\ CallTurns'
  BY DEF TurnInv, CardTurns, CallTurns
<1>3. EngineTurn'
  BY DEF EngineTurn
<1>4. CallsRecorded' /\ PayloadsRecorded'
  BY DEF TurnInv, CallsRecorded, PayloadsRecorded, Recorded
<1>5. QED
  BY <1>1, <1>2, <1>3, <1>4 DEF TurnInv

\* A step that moves events, cards and calls while the engine stays as it is.
LEMMA QuietTurns ==
    ASSUME TurnInv, UNCHANGED <<engine, verdicts, resumed>>,
           mail' \cup queue' \cup seen' \subseteq mail \cup queue \cup seen,
           calls' \subseteq calls, CardTurns', PayloadsRecorded'
    PROVE  TurnInv'
<1>1. EventTurns'
  BY DEF TurnInv, EventTurns
<1>2. CallTurns' /\ EngineTurn' /\ CallsRecorded'
  BY DEF TurnInv, CallTurns, EngineTurn, CallsRecorded, Recorded
<1>3. AllByVerdict'
  BY DEF TurnInv, AllByVerdict
<1>4. QED
  BY <1>1, <1>2, <1>3 DEF TurnInv

LEMMA HookTurns ==
    ASSUME TypeOK, TurnInv, NEW e \in mail \cup queue, Hook(e), UNCHANGED <<engine, verdicts>>
    PROVE  CardTurns' /\ PayloadsRecorded' /\ seen' \subseteq mail \cup queue \cup seen
<1>1. CASE e \in seen
  BY <1>1 DEF Hook, TurnInv, CardTurns, PayloadsRecorded, Recorded
<1>2. CASE e \notin seen
  <2>1. Dispatch(e) /\ seen' = seen \cup {e} /\ card \in [Steps -> Card]
    BY <1>2 DEF Hook, TypeOK
  <2>2. CASE card' = card
    BY <2>1, <2>2 DEF TurnInv, CardTurns, PayloadsRecorded, Recorded
  <2>3. ASSUME NEW s \in Steps
        PROVE  LET d == Superseded(card[s]) IN
               /\ d.turn = card[s].turn /\ d.payload = card[s].payload
               /\ d.status # "absent" => card[s].status # "absent"
               /\ d.status \in Verdicts => card[s].status \in Verdicts
    BY <2>1 DEF Superseded, Card, Verdicts
  <2>4. CASE card' = CardsOnEnd(card)
    <3>1. \A s \in Steps : card'[s] = Superseded(card[s])
      BY <2>4 DEF CardsOnEnd
    <3>2. QED
      BY <2>1, <2>3, <3>1 DEF TurnInv, CardTurns, PayloadsRecorded, Recorded
  <2>5. CASE e.kind = "suspended" /\ card' = CardsOnSuspend(card, e)
    <3>1. \A s \in Steps : s # e.step => card'[s] = Superseded(card[s])
      BY <2>5 DEF CardsOnSuspend
    <3>2. \A s \in Steps : s = e.step => card'[s].status = "pending" /\ card'[s].turn = e.turn
      BY <2>5 DEF CardsOnSuspend, Asked
    <3>3. e.step \in Steps /\ e.turn = engine.at[e.step] /\ e.turn # 0
      BY <2>5 DEF TurnInv, EventTurns
    <3>4. CardTurns'
      BY <2>3, <3>1, <3>2, <3>3 DEF TurnInv, CardTurns
    <3>5. PayloadsRecorded'
      BY <2>3, <3>1, <3>2 DEF TurnInv, PayloadsRecorded, Recorded, Verdicts
    <3>6. QED
      BY <2>1, <3>4, <3>5
  <2>6. QED
    BY <2>1, <2>2, <2>4, <2>5 DEF Dispatch
<1>3. QED
  BY <1>1, <1>2

LEMMA SettleTurns ==
    ASSUME TypeOK, TurnInv, NEW s \in Steps, NEW v \in Settled, NEW by,
           card[s].status = "pending", Settle(s, v, by),
           UNCHANGED <<engine, mail, queue, seen, resumed>>
    PROVE  TurnInv'
<1>1. card \in [Steps -> Card]
  BY DEF TypeOK
<1>2. card'[s].turn = card[s].turn /\ card'[s].payload = v
  BY <1>1 DEF Settle, Answered, Card
<1>3. \A t \in Steps : t # s => card'[t] = card[t]
  BY <1>1 DEF Settle
<1>4. card[s].turn = engine.at[s] /\ card[s].turn # 0
  BY DEF TurnInv, CardTurns
<1>5. verdicts' = verdicts \cup {Verdict(s, v)}
  BY DEF Settle
<1>6. \E w \in verdicts' : w.step = s /\ w.turn = card[s].turn /\ w.verdict = v
  <2>1. Verdict(s, v) \in verdicts'
    BY <1>5
  <2>2. /\ Verdict(s, v).step = s /\ Verdict(s, v).turn = card[s].turn
        /\ Verdict(s, v).verdict = v
    BY DEF Verdict
  <2>3. QED
    BY <2>1, <2>2
<1>7. CardTurns'
  BY <1>2, <1>3, <1>4 DEF TurnInv, CardTurns
<1>8. ASSUME NEW t \in Steps, card'[t].status \in Verdicts
      PROVE  \E w \in verdicts' :
                w.step = t /\ w.turn = card'[t].turn /\ w.verdict = card'[t].payload
  <2>1. CASE t = s
    BY <2>1, <1>2, <1>6
  <2>2. CASE t # s
    <3>1. card'[t] = card[t]
      BY <2>2, <1>3
    <3>2. PICK w \in verdicts :
             w.step = t /\ w.turn = card[t].turn /\ w.verdict = card[t].payload
      BY <3>1, <1>8 DEF TurnInv, PayloadsRecorded, Recorded
    <3>3. QED
      BY <3>1, <3>2, <1>5
  <2>3. QED
    BY <2>1, <2>2
<1>9. CallTurns'
  BY <1>4 DEF TurnInv, CallTurns, Settle, ResumeCall
<1>10. CallsRecorded'
  BY <1>5, <1>6 DEF TurnInv, CallsRecorded, Settle, ResumeCall, Recorded
<1>11. AllByVerdict'
  BY <1>5 DEF TurnInv, AllByVerdict, Settle
<1>12. QED
  BY <1>7, <1>8, <1>9, <1>10, <1>11
     DEF TurnInv, EventTurns, EngineTurn, PayloadsRecorded, Recorded

LEMMA NextTurns ==
    ASSUME Unreplayed', TypeOK, TurnInv, [Next]_vars
    PROVE  TurnInv'
<1>0. TypeOK'
  BY NextTyped
<1>1. CASE Start
  <2>1. engine \in Engine
    BY DEF TypeOK
  <2>2. engine'.at = engine.at /\ engine'.phase = "running"
    BY <1>1, <2>1 DEF Start, Engine
  <2>3. QED
    BY <1>1, <2>2, EngineTurns DEF Start, TurnInv, AllByVerdict
<1>2. CASE Replay
  <2>1. spent \in [{"replay", "cancel", "fault", "crash"} -> Nat]
    BY DEF TypeOK
  <2>2. spent'["replay"] = spent["replay"] + 1 /\ spent["replay"] \in Nat
    BY <1>2, <2>1 DEF Replay, Spend
  <2>3. QED
    BY <2>2 DEF Unreplayed
<1>3. ASSUME NEW s \in Steps, Suspend(s)
      PROVE  TurnInv'
  <2>1. engine \in Engine
    BY DEF TypeOK
  <2>2. engine.at[s] = 0 /\ engine.turn + 1 # 0
    BY <1>3, <2>1 DEF Suspend, Engine
  <2>3. /\ engine'.phase = "suspended" /\ engine'.step = s
        /\ engine'.turn = engine.turn + 1 /\ engine'.at[s] = engine.turn + 1
        /\ \A t \in Steps : t # s => engine'.at[t] = engine.at[t]
    BY <1>3, <2>1 DEF Suspend, Advance, Engine
  <2>4. EngineTurn'
    BY <2>3 DEF EngineTurn
  <2>5. CardTurns' /\ CallTurns'
    BY <1>0, <1>3, <2>2, <2>3 DEF Suspend, TurnInv, CardTurns, CallTurns, TypeOK, Call
  <2>6. \A e \in mail' : e \in mail \/ (e.step = s /\ e.turn = engine.turn + 1)
    BY <1>3 DEF Suspend, Published
  <2>7. EventTurns'
    BY <1>3, <2>2, <2>3, <2>6 DEF Suspend, TurnInv, EventTurns
  <2>8. CallsRecorded' /\ PayloadsRecorded' /\ AllByVerdict'
    BY <1>3 DEF Suspend, TurnInv, CallsRecorded, PayloadsRecorded, AllByVerdict, Recorded
  <2>9. QED
    BY <2>4, <2>5, <2>7, <2>8 DEF TurnInv
<1>4. ASSUME NEW o \in Outcomes, End(o)
      PROVE  TurnInv'
  <2>1. engine'.at = engine.at /\ engine'.phase = "over"
    BY <1>4, AtKept DEF End
  <2>2. \A e \in mail' : e.kind = "suspended" => e \in mail
    BY <1>4, PublishedOther DEF End, Outcomes
  <2>3. QED
    BY <1>4, <2>1, <2>2, EngineTurns DEF End, TurnInv, AllByVerdict
<1>5. ASSUME NEW e \in mail, Project(e)
      PROVE  TurnInv'
  BY <1>5, HookTurns, QuietTurns DEF Project
<1>6. ASSUME NEW e \in mail, HandlerFails(e)
      PROVE  TurnInv'
  <2>1. mail' \cup queue' \cup seen' \subseteq mail \cup queue \cup seen
    BY <1>6 DEF HandlerFails
  <2>2. CardTurns' /\ PayloadsRecorded'
    BY <1>6 DEF HandlerFails, TurnInv, CardTurns, PayloadsRecorded, Recorded
  <2>3. QED
    BY <1>6, <2>1, <2>2, QuietTurns DEF HandlerFails
<1>7. ASSUME NEW e \in queue, RetryJob(e)
      PROVE  TurnInv'
  <2>1. CardTurns' /\ PayloadsRecorded' /\ seen' \subseteq mail \cup queue \cup seen
    BY <1>7, HookTurns DEF RetryJob
  <2>2. mail' \cup queue' \cup seen' \subseteq mail \cup queue \cup seen
    BY <1>7, <2>1 DEF RetryJob
  <2>3. QED
    BY <1>7, <2>1, <2>2, QuietTurns DEF RetryJob, Hook
<1>8. ASSUME NEW s \in Steps, NEW v \in Verdicts, Decide(s, v)
      PROVE  TurnInv'
  BY <1>8, SettleTurns DEF Decide, Settled
<1>9. ASSUME NEW s \in Steps, Sweep(s)
      PROVE  TurnInv'
  BY <1>9, SettleTurns DEF Sweep, Settled
<1>10. CASE CancelReads
  <2>1. CardTurns' /\ PayloadsRecorded'
    BY <1>10 DEF CancelReads, TurnInv, CardTurns, PayloadsRecorded, Recorded
  <2>2. QED
    BY <1>10, <2>1, QuietTurns DEF CancelReads
<1>11. CASE CancelPublishes
  <2>1. engine \in Engine
    BY DEF TypeOK
  <2>2. engine'.at = engine.at /\ engine'.phase = "over"
    <3>1. CASE engine.phase = "over"
      BY <1>11, <2>1, <3>1 DEF CancelPublishes, Engine
    <3>2. CASE engine.phase # "over"
      BY <1>11, <3>2, AtKept DEF CancelPublishes
    <3>3. QED
      BY <3>1, <3>2
  <2>3. \A e \in mail' : e.kind = "suspended" => e \in mail
    BY <1>11, PublishedOther DEF CancelPublishes
  <2>4. QED
    BY <1>11, <2>2, <2>3, EngineTurns DEF CancelPublishes, TurnInv, AllByVerdict
<1>12. ASSUME NEW s \in Steps, RetryPick(s)
       PROVE  TurnInv'
  <2>1. Recorded(s, card[s].turn, card[s].payload)
    BY <1>12 DEF RetryPick, StuckStatuses, TurnInv, PayloadsRecorded
  <2>2. card[s].turn = engine.at[s] /\ card[s].turn # 0
    BY <1>12 DEF RetryPick, StuckStatuses, Verdicts, TurnInv, CardTurns
  <2>3. \A c \in calls' : c \in calls \/
          (c.step = s /\ c.turn = card[s].turn /\ c.verdict = card[s].payload)
    BY <1>12 DEF RetryPick, ResumeCall
  <2>4. CallTurns' /\ CallsRecorded'
    BY <1>12, <2>1, <2>2, <2>3
       DEF RetryPick, TurnInv, CallTurns, CallsRecorded, Recorded
  <2>5. QED
    BY <1>12, <2>4 DEF RetryPick, TurnInv, EventTurns, CardTurns, EngineTurn, PayloadsRecorded,
                       AllByVerdict, Recorded
<1>13. ASSUME NEW c \in calls, Resume(c)
       PROVE  TurnInv'
  <2>1. engine'.at = engine.at /\ engine'.phase = "running"
    BY <1>13, AtKept DEF Resume
  <2>2. \A e \in mail' : e.kind = "suspended" => e \in mail
    BY <1>13, PublishedOther DEF Resume
  <2>3. engine.turn = c.turn
    BY <1>13 DEF Resume, Resumable, TurnInv, EngineTurn, CallTurns
  <2>4. Recorded(c.step, engine.turn, c.verdict)
    BY <2>3 DEF TurnInv, CallsRecorded
  <2>5. AllByVerdict'
    BY <1>13, <2>4 DEF Resume, TurnInv, AllByVerdict, Recorded
  <2>6. QED
    BY <1>13, <2>1, <2>2, <2>5, EngineTurns DEF Resume
<1>14. ASSUME NEW c \in calls, ResumeFails(c)
       PROVE  TurnInv'
  <2>1. c.step \in Steps /\ card \in [Steps -> Card]
    BY DEF TypeOK, Call
  <2>2. CASE card' = card
    <3>1. CardTurns' /\ PayloadsRecorded'
      BY <1>14, <2>2 DEF ResumeFails, TurnInv, CardTurns, PayloadsRecorded, Recorded
    <3>2. QED
      BY <1>14, <3>1, QuietTurns DEF ResumeFails
  <2>3. CASE card' = [card EXCEPT ![c.step] = Counted(card[c.step], c)]
    <3>1. card[c.step] \in Card
      BY <2>1
    <3>2. /\ card'[c.step].status = card[c.step].status
          /\ card'[c.step].turn = card[c.step].turn
          /\ card'[c.step].payload = c.verdict
      BY <2>1, <2>3, <3>1 DEF Counted, Card
    <3>3. \A t \in Steps : t # c.step => card'[t] = card[t]
      BY <2>1, <2>3
    <3>4. CardTurns'
      BY <1>14, <3>2, <3>3 DEF ResumeFails, TurnInv, CardTurns
    <3>5. ASSUME NEW t \in Steps, card'[t].status \in Verdicts
          PROVE  Recorded(t, card'[t].turn, card'[t].payload)
      <4>1. CASE t = c.step
        <5>1. card[t].turn = c.turn
          BY <2>1, <3>2, <3>5, <4>1 DEF TurnInv, CardTurns, CallTurns, Verdicts
        <5>2. QED
          BY <3>2, <4>1, <5>1 DEF TurnInv, CallsRecorded
      <4>2. CASE t # c.step
        BY <3>3, <3>5, <4>2 DEF TurnInv, PayloadsRecorded
      <4>3. QED
        BY <4>1, <4>2
    <3>6. PayloadsRecorded'
      BY <1>14, <3>5 DEF ResumeFails, PayloadsRecorded, Recorded
    <3>7. QED
      BY <1>14, <3>4, <3>6, QuietTurns DEF ResumeFails
  <2>4. QED
    BY <1>14, <2>2, <2>3 DEF ResumeFails, GiveUp, LogOnly, CountRetry
<1>15. CASE Crash
  <2>1. CardTurns' /\ PayloadsRecorded'
    BY <1>15 DEF Crash, TurnInv, CardTurns, PayloadsRecorded, Recorded
  <2>2. QED
    BY <1>15, <2>1, QuietTurns DEF Crash
<1>16. CASE UNCHANGED vars
  BY <1>16 DEF vars, TurnInv, EventTurns, CardTurns, CallTurns, EngineTurn, CallsRecorded,
               PayloadsRecorded, AllByVerdict, Recorded
<1>17. QED
  BY <1>1, <1>2, <1>3, <1>4, <1>5, <1>6, <1>7, <1>8, <1>9, <1>10, <1>11, <1>12, <1>13, <1>14,
     <1>15, <1>16
     DEF Next, EngineStep, HookStep, PeopleStep, JobStep, CallStep

\* Nothing takes a replay back.
LEMMA UnreplayedBefore ==
    ASSUME TypeOK, [Next]_vars, Unreplayed'
    PROVE  Unreplayed
<1>1. spent \in [{"replay", "cancel", "fault", "crash"} -> Nat]
  BY DEF TypeOK
<1>2. \A what, bound : Spend(what, bound) /\ what # "replay" => spent'["replay"] = spent["replay"]
  BY <1>1 DEF Spend
<1>3. ~ Replay
  <2>1. Replay => spent'["replay"] = spent["replay"] + 1 /\ spent["replay"] \in Nat
    BY <1>1 DEF Replay, Spend
  <2>2. QED
    BY <2>1 DEF Unreplayed
<1>4. spent' = spent \/ spent'["replay"] = spent["replay"]
  <2>1. CASE EngineStep
    BY <1>3, <2>1 DEF EngineStep, Start, Suspend, End
  <2>2. CASE HookStep
    BY <1>2, <2>2 DEF HookStep, Project, HandlerFails, RetryJob
  <2>3. CASE PeopleStep
    BY <1>2, <2>3 DEF PeopleStep, Decide, CancelReads, CancelPublishes
  <2>4. CASE JobStep
    BY <2>4 DEF JobStep, Sweep, RetryPick
  <2>5. CASE CallStep
    BY <1>2, <2>5 DEF CallStep, Resume, ResumeFails
  <2>6. CASE Crash
    BY <1>2, <2>6 DEF Crash
  <2>7. CASE UNCHANGED vars
    BY <2>7 DEF vars
  <2>8. QED
    BY <2>1, <2>2, <2>3, <2>4, <2>5, <2>6, <2>7 DEF Next
<1>5. QED
  BY <1>4 DEF Unreplayed

\* Until a run is replayed, the engine goes on from a suspension only with a
\* verdict that was recorded for that very suspension, whoever settles, sweeps
\* and retries, in whatever order and through whatever crash.
THEOREM ResumedOnlyByVerdict == Spec => []ResumedByVerdict
<1> DEFINE IInv == Unreplayed => TurnInv
<1>1. Init => IInv
  BY InitTurns
<1>2. TypeOK /\ IInv /\ [Next]_vars => IInv'
  BY NextTurns, UnreplayedBefore
<1>3. IInv => ResumedByVerdict
  BY DEF TurnInv, ResumedByVerdict
<1>4. QED
  BY <1>1, <1>2, <1>3, InitTyped, NextTyped, PTL DEF Spec

-----------------------------------------------------------------------------
(* One delivery of each event: a verdict stands.                           *)

\* Until a replay each step suspends once, so its card is asked by one event.
OneAsk == \A e, f \in mail \cup queue \cup seen :
    e.kind = "suspended" /\ f.kind = "suspended" /\ e.step = f.step => e = f

\* A card that exists was asked, and its event will not be handled again.
AskSeen == \A s \in Steps : card[s].status # "absent" =>
    \E e \in seen : e.kind = "suspended" /\ e.step = s

AskInv == OneAsk /\ AskSeen

LEMMA InitAsks == Init => AskInv
  BY DEF Init, NewCard, AskInv, OneAsk, AskSeen

\* A step that adds no suspension and no card.
LEMMA KeepsAsks ==
    ASSUME AskInv, seen \subseteq seen',
           \A e \in mail' \cup queue' \cup seen' :
               e.kind = "suspended" => e \in mail \cup queue \cup seen,
           \A s \in Steps : card'[s].status # "absent" => card[s].status # "absent"
    PROVE  AskInv'
<1>1. OneAsk'
  BY DEF AskInv, OneAsk
<1>2. AskSeen'
  BY DEF AskInv, AskSeen
<1>3. QED
  BY <1>1, <1>2 DEF AskInv

LEMMA HookAsks ==
    ASSUME TypeOK, AskInv, NEW e \in mail \cup queue, Hook(e),
           mail' \subseteq mail, queue' \subseteq queue
    PROVE  AskInv'
<1>1. /\ seen \subseteq seen' /\ seen' \subseteq seen \cup {e}
      /\ card \in [Steps -> Card]
  BY DEF Hook, TypeOK
<1>2. OneAsk'
  BY <1>1 DEF AskInv, OneAsk
<1>3. ASSUME NEW s \in Steps
      PROVE  Superseded(card[s]).status # "absent" => card[s].status # "absent"
  BY <1>1 DEF Superseded, Card
<1>4. CASE card' = card \/ card' = CardsOnEnd(card)
  BY <1>1, <1>2, <1>3, <1>4 DEF AskInv, AskSeen, CardsOnEnd
<1>5. CASE e \notin seen /\ e.kind = "suspended" /\ card' = CardsOnSuspend(card, e)
  <2>1. e \in seen'
    BY <1>5 DEF Hook
  <2>2. \A s \in Steps : s # e.step => card'[s] = Superseded(card[s])
    BY <1>5 DEF CardsOnSuspend
  <2>3. AskSeen'
    BY <1>1, <1>3, <1>5, <2>1, <2>2 DEF AskInv, AskSeen
  <2>4. QED
    BY <1>2, <2>3 DEF AskInv
<1>6. QED
  BY <1>4, <1>5 DEF Hook, Dispatch

\* What a step does to a card, when it runs no projection.
LEMMA CardStaysPut ==
    ASSUME TypeOK, [Next]_vars, NEW s \in Steps
    PROVE  \/ card'[s].status = card[s].status
           \/ card'[s].status \in Settled /\ card[s].status = "pending"
           \/ \E e \in mail : Project(e)
           \/ \E e \in queue : RetryJob(e)
<1>c. card \in [Steps -> Card]
  BY DEF TypeOK
<1>1. CASE card' = card \/ UNCHANGED vars
  BY <1>1 DEF vars
<1>2. ASSUME NEW t \in Steps, NEW v \in Settled, NEW by, card[t].status = "pending", Settle(t, v, by)
      PROVE  card'[s].status = card[s].status
             \/ (card'[s].status \in Settled /\ card[s].status = "pending")
  <2>1. card' = [card EXCEPT ![t] = Answered(card[t], v)]
    BY <1>2 DEF Settle
  <2>2. Answered(card[t], v).status = v
    BY <1>c DEF Answered, Card
  <2>3. QED
    BY <1>c, <1>2, <2>1, <2>2
<1>3. ASSUME NEW c \in calls, ResumeFails(c)
      PROVE  card'[s].status = card[s].status
  <2>1. c.step \in Steps
    BY DEF TypeOK, Call
  <2>2. card' = card \/ card' = [card EXCEPT ![c.step] = Counted(card[c.step], c)]
    BY <1>3 DEF ResumeFails, GiveUp, LogOnly, CountRetry
  <2>3. Counted(card[c.step], c).status = card[c.step].status
    BY <1>c, <2>1 DEF Counted, Card
  <2>4. QED
    BY <1>c, <2>1, <2>2, <2>3
<1>4. CASE EngineStep \/ Crash
  BY <1>1, <1>4 DEF EngineStep, Start, Suspend, End, Replay, Crash
<1>5. CASE HookStep
  BY <1>1, <1>5 DEF HookStep, HandlerFails
<1>6. CASE PeopleStep
  BY <1>1, <1>2, <1>6 DEF PeopleStep, Decide, CancelReads, CancelPublishes, Settled
<1>7. CASE JobStep
  BY <1>1, <1>2, <1>7 DEF JobStep, Sweep, RetryPick, Settled
<1>8. CASE CallStep
  BY <1>1, <1>3, <1>8 DEF CallStep, Resume
<1>9. QED
  BY <1>1, <1>4, <1>5, <1>6, <1>7, <1>8 DEF Next

LEMMA NextAsks ==
    ASSUME Copies = 1, Unreplayed', TypeOK, TurnInv, AskInv, [Next]_vars
    PROVE  AskInv'
<1>1. ASSUME NEW e \in mail, Project(e) PROVE AskInv'
  BY <1>1, HookAsks DEF Project
<1>2. ASSUME NEW e \in queue, RetryJob(e) PROVE AskInv'
  BY <1>2, HookAsks DEF RetryJob
<1>3. ASSUME NEW s \in Steps, Suspend(s) PROVE AskInv'
  <2>1. engine.at[s] = 0
    BY <1>3 DEF Suspend
  <2>2. \A e \in mail \cup queue \cup seen : e.kind = "suspended" => e.step # s
    BY <2>1 DEF TurnInv, EventTurns
  <2> DEFINE n == [seq |-> engine.seq + 1, kind |-> "suspended", step |-> s,
                   turn |-> engine.turn + 1, copy |-> 1]
  <2>3. mail' = mail \cup {n}
    BY <1>3 DEF Suspend, Published
  <2>4. n.step = s
    OBVIOUS
  <2> HIDE DEF n
  <2>5. OneAsk'
    BY <1>3, <2>2, <2>3, <2>4 DEF Suspend, AskInv, OneAsk
  <2>6. AskSeen'
    BY <1>3 DEF Suspend, AskInv, AskSeen
  <2>7. QED
    BY <2>5, <2>6 DEF AskInv
<1>4. CASE ~ \/ \E e \in mail : Project(e)
             \/ \E e \in queue : RetryJob(e)
             \/ \E s \in Steps : Suspend(s)
  <2>1. seen \subseteq seen' /\ seen' \subseteq seen /\ queue' \subseteq queue \cup mail
        /\ \A e \in mail' : e.kind = "suspended" => e \in mail
    <3>1. CASE EngineStep
      BY <1>4, <3>1, PublishedOther DEF EngineStep, Start, End, Replay, Outcomes
    <3>2. CASE HookStep
      BY <1>4, <3>2 DEF HookStep, HandlerFails
    <3>3. CASE PeopleStep
      BY <3>3, PublishedOther DEF PeopleStep, Decide, CancelReads, CancelPublishes
    <3>4. CASE JobStep
      BY <3>4 DEF JobStep, Sweep, RetryPick
    <3>5. CASE CallStep
      BY <3>5, PublishedOther DEF CallStep, Resume, ResumeFails
    <3>6. CASE Crash \/ UNCHANGED vars
      BY <3>6 DEF Crash, vars
    <3>7. QED
      BY <3>1, <3>2, <3>3, <3>4, <3>5, <3>6 DEF Next
  <2>2. ASSUME NEW s \in Steps, card'[s].status # "absent" PROVE card[s].status # "absent"
    BY <1>4, <2>2, CardStaysPut DEF Settled, Verdicts
  <2>3. QED
    BY <2>1, <2>2, KeepsAsks
<1>5. QED
  BY <1>1, <1>2, <1>3, <1>4

\* No step asks again a card that has a verdict.
LEMMA SettledStays ==
    ASSUME TypeOK, AskInv, [Next]_vars, NEW s \in Steps,
           card[s].status \in Verdicts \cup {"expired"}
    PROVE  card'[s].status # "pending"
<1>c. card \in [Steps -> Card] /\ card[s].status \notin {"pending", "absent"}
  BY DEF TypeOK, Verdicts
<1>1. ASSUME NEW e \in mail \cup queue, Hook(e)
      PROVE  card'[s].status # "pending"
  <2>1. Superseded(card[s]) = card[s]
    BY <1>c DEF Superseded
  <2>2. CASE card' = card \/ card' = CardsOnEnd(card)
    BY <1>c, <2>1, <2>2 DEF CardsOnEnd
  <2>3. CASE e \notin seen /\ e.kind = "suspended" /\ card' = CardsOnSuspend(card, e)
    <3>1. PICK f \in seen : f.kind = "suspended" /\ f.step = s
      BY <1>c DEF AskInv, AskSeen
    <3>2. e.step # s
      BY <2>3, <3>1 DEF AskInv, OneAsk
    <3>3. QED
      BY <1>c, <2>1, <2>3, <3>2 DEF CardsOnSuspend
  <2>4. QED
    BY <1>1, <2>2, <2>3 DEF Hook, Dispatch
<1>2. CASE card'[s].status = card[s].status
  BY <1>c, <1>2
<1>3. CASE \/ \E e \in mail : Project(e)
           \/ \E e \in queue : RetryJob(e)
  BY <1>1, <1>3 DEF Project, RetryJob
<1>4. QED
  BY <1>c, <1>2, <1>3, CardStaysPut

\* If each event is delivered once, a card with a verdict is never asked again
\* until the run is replayed, however often handlers fail and jobs are repeated.
THEOREM VerdictsStand == ASSUME Copies = 1 PROVE Spec => VerdictStands
<1> DEFINE IInv == Unreplayed => TurnInv /\ AskInv
<1>1. Init => IInv
  BY InitTurns, InitAsks
<1>2. TypeOK /\ IInv /\ [Next]_vars => IInv'
  BY NextTurns, NextAsks, UnreplayedBefore
<1>3. TypeOK /\ IInv /\ [Next]_vars
      => [Unreplayed' => \A s \in Steps :
            card[s].status \in Verdicts \cup {"expired"} /\ card'[s].status = "pending"
               => card'[s].turn > card[s].turn]_vars
  BY SettledStays, UnreplayedBefore
<1>4. QED
  BY <1>1, <1>2, <1>3, InitTyped, NextTyped, PTL DEF Spec, VerdictStands

-----------------------------------------------------------------------------
(* A run that is over has nothing to decide.                               *)

\* Until a replay a run has one thing outstanding at a time: a suspension that is not
\* projected, the card it asks for, or the call that follows the card's verdict.
Asking == {e \in mail \cup queue : e.kind = "suspended" /\ e \notin seen}
NonePending == \A s \in Steps : card[s].status # "pending"
Outstanding ==
    /\ \A e, f \in Asking : e = f
    /\ Asking # {} => calls = {} /\ NonePending
    /\ calls # {} => NonePending

\* Without the jobs a verdict is followed by one call, and an engine that runs has
\* consumed it.
Resting ==
    /\ \A c, d \in calls : c = d
    /\ engine.phase \in {"idle", "running"} => Asking = {} /\ calls = {} /\ NonePending

\* A run of one step is asked once: nothing is outstanding before, and the retries of
\* its resume are not followed by another suspension.
OneStep == \A s, t \in Steps : s = t
Single ==
    \A s \in Steps :
        /\ engine.at[s] = 0 => Asking = {} /\ calls = {} /\ card[s].status = "absent"
        /\ Asking # {} => card[s].status = "absent"

OutInv == Outstanding /\ (~Jobs => Resting) /\ (OneStep => Single)

LEMMA InitOut == Init => OutInv
<1> SUFFICES ASSUME Init PROVE OutInv
  OBVIOUS
<1>1. Asking = {} /\ calls = {} /\ \A s \in Steps : card[s].status = "absent"
  BY DEF Init, Asking, NewCard
<1>2. QED
  BY <1>1 DEF OutInv, Outstanding, Resting, Single, NonePending

\* A step that asks nothing, calls nobody and starts no engine again.
LEMMA KeepsOut ==
    ASSUME OutInv, calls' \subseteq calls, seen \subseteq seen',
           \A e \in mail' \cup queue' : e.kind = "suspended" => e \in mail \cup queue,
           \A s \in Steps : card'[s].status = "pending" => card[s].status = "pending",
           \A s \in Steps : card[s].status = "absent" => card'[s].status = "absent",
           \A s \in Steps : engine'.at[s] = engine.at[s],
           engine'.phase \in {"idle", "running"} => engine.phase \in {"idle", "running"}
    PROVE  OutInv'
<1>1. Asking' \subseteq Asking
  BY DEF Asking
<1>2. NonePending => NonePending'
  BY DEF NonePending
<1>3. Outstanding'
  BY <1>1, <1>2 DEF OutInv, Outstanding
<1>4. ~Jobs => Resting'
  BY <1>1, <1>2 DEF OutInv, Resting
<1>5. OneStep => Single'
  BY <1>1 DEF OutInv, Single
<1>6. QED
  BY <1>3, <1>4, <1>5 DEF OutInv, OneStep

LEMMA SuspendOut ==
    ASSUME TypeOK, OutInv, Copies = 1, ~Jobs \/ OneStep, NEW s \in Steps, Suspend(s)
    PROVE  OutInv'
<1>1. engine \in Engine /\ engine.turn + 1 # 0
  BY DEF TypeOK, Engine
<1>2. /\ engine'.phase = "suspended" /\ engine'.at[s] # 0
      /\ \A t \in Steps : t # s => engine'.at[t] = engine.at[t]
  BY <1>1 DEF Suspend, Advance, Engine
<1>3. engine.phase = "running" /\ engine.at[s] = 0 /\ UNCHANGED <<queue, seen, card, calls>>
  BY DEF Suspend
<1>4. /\ Asking = {} /\ calls = {} /\ NonePending
      /\ OneStep => \A t \in Steps : card[t].status = "absent"
  BY <1>3 DEF OutInv, Resting, Single, OneStep, NonePending
<1> DEFINE e == [seq |-> engine.seq + 1, kind |-> "suspended", step |-> s,
                 turn |-> engine.turn + 1, copy |-> 1]
<1>5. mail' = mail \cup {e}
  BY DEF Suspend, Published
<1> HIDE DEF e
<1>6. Asking' \subseteq {e}
  BY <1>3, <1>4, <1>5 DEF Asking
<1>7. NonePending' /\ calls' = {}
  BY <1>3, <1>4 DEF NonePending
<1>8. Outstanding' /\ Resting'
  BY <1>2, <1>6, <1>7 DEF Outstanding, Resting
<1>9. OneStep => Single'
  BY <1>2, <1>3, <1>4 DEF Single, OneStep
<1>10. QED
  BY <1>8, <1>9 DEF OutInv, OneStep

LEMMA ResumeOut ==
    ASSUME TypeOK, OutInv, ~Jobs \/ OneStep, NEW c \in calls, Resume(c)
    PROVE  OutInv'
<1>1. /\ Advance("running", NoStep, engine.turn, NoVerdict) /\ calls' = calls \ {c}
      /\ mail' = Published("resumed", NoStep, engine.turn)
      /\ UNCHANGED <<queue, seen, card>>
  BY DEF Resume
<1>2. \A s \in Steps : engine'.at[s] = engine.at[s]
  BY <1>1, AtKept
<1>3. Asking' = Asking
  BY <1>1 DEF Asking, Published
<1>4. NonePending' = NonePending
  BY <1>1 DEF NonePending
<1>5. Asking = {} /\ NonePending
  BY DEF OutInv, Outstanding
<1>6. Outstanding'
  BY <1>3, <1>4, <1>5 DEF Outstanding
<1>7. ~Jobs => Resting'
  BY <1>1, <1>3, <1>4, <1>5 DEF OutInv, Resting
<1>8. OneStep => Single'
  BY <1>1, <1>2, <1>3 DEF OutInv, Single
<1>9. QED
  BY <1>6, <1>7, <1>8 DEF OutInv, OneStep

LEMMA HookOut ==
    ASSUME TypeOK, OutInv, NEW e \in mail \cup queue, Hook(e), UNCHANGED <<engine, calls>>,
           mail' \subseteq mail, queue' \subseteq queue
    PROVE  OutInv'
<1>1. seen \subseteq seen' /\ card \in [Steps -> Card]
  BY DEF Hook, TypeOK
<1>2. \A s \in Steps : /\ Superseded(card[s]).status # "pending"
                       /\ card[s].status = "absent" => Superseded(card[s]).status = "absent"
  BY <1>1 DEF Superseded, Card
<1>3. CASE card' = card \/ card' = CardsOnEnd(card)
  <2>1. \A s \in Steps : /\ card'[s].status = "pending" => card[s].status = "pending"
                         /\ card[s].status = "absent" => card'[s].status = "absent"
    BY <1>1, <1>2, <1>3 DEF CardsOnEnd
  <2>2. QED
    BY <1>1, <2>1, KeepsOut
<1>4. CASE e \notin seen /\ e.kind = "suspended" /\ seen' = seen \cup {e}
  <2>1. e \in Asking
    BY <1>4 DEF Asking
  <2>2. Asking' = {}
    BY <1>4, <2>1 DEF OutInv, Outstanding, Asking
  <2>3. calls' = {}
    BY <2>1 DEF OutInv, Outstanding
  <2>4. ~Jobs => engine.phase \notin {"idle", "running"}
    BY <2>1 DEF OutInv, Resting
  <2>5. OneStep => \A s \in Steps : engine.at[s] # 0
    BY <2>1 DEF OutInv, Single
  <2>6. QED
    BY <2>2, <2>3, <2>4, <2>5 DEF OutInv, Outstanding, Resting, Single, OneStep
<1>5. QED
  BY <1>3, <1>4 DEF Hook, Dispatch

LEMMA SettleOut ==
    ASSUME TypeOK, CardInv, OutInv, NEW s \in Steps, NEW v \in Settled, NEW by,
           card[s].status = "pending", Settle(s, v, by), UNCHANGED <<engine, mail, queue, seen>>
    PROVE  OutInv'
<1>1. calls' = calls \cup {ResumeCall(by, s, v)} /\ card \in [Steps -> Card]
  BY DEF Settle, TypeOK
<1>2. card'[s].status = v /\ \A t \in Steps : t # s => card'[t] = card[t]
  BY <1>1 DEF Settle, Answered, Card
<1>3. calls = {} /\ Asking = {}
  BY DEF OutInv, Outstanding, NonePending
<1>4. Asking' = {}
  BY <1>3 DEF Asking
<1>5. NonePending'
  <2>1. v # "pending"
    BY DEF Settled, Verdicts
  <2>2. QED
    BY <1>2, <2>1 DEF CardInv, OnePending, NonePending
<1>6. ~Jobs => engine.phase \notin {"idle", "running"}
  BY DEF OutInv, Resting, NonePending
<1>7. OneStep => \A t \in Steps : engine.at[t] # 0
  BY DEF OutInv, Single, OneStep
<1>8. \A c, d \in calls' : c = d
  BY <1>1, <1>3
<1>9. QED
  BY <1>4, <1>5, <1>6, <1>7, <1>8 DEF OutInv, Outstanding, Resting, Single, OneStep

LEMMA PickOut ==
    ASSUME TypeOK, OutInv, ~Jobs \/ OneStep, NEW s \in Steps, RetryPick(s)
    PROVE  OutInv'
<1>1. /\ Jobs /\ card[s].status \in Verdicts
      /\ UNCHANGED <<engine, mail, queue, seen, card>>
  BY DEF RetryPick, StuckStatuses
<1>2. OneStep /\ \A t \in Steps : t = s
  BY <1>1 DEF OneStep
<1>3. card[s].status \notin {"absent", "pending"}
  BY <1>1 DEF Verdicts
<1>4. Asking' = Asking /\ Asking = {} /\ engine.at[s] # 0
  BY <1>1, <1>2, <1>3 DEF OutInv, Single, Asking
<1>5. NonePending'
  BY <1>1, <1>2, <1>3 DEF NonePending
<1>6. Outstanding' /\ Single'
  BY <1>1, <1>2, <1>4, <1>5 DEF Outstanding, Single
<1>7. QED
  BY <1>1, <1>6 DEF OutInv

\* Before it is started a run has no engine to suspend or cancel.
Begun == run = "absent" => engine.phase = "idle" /\ ~canceling

LEMMA NextBegun ==
    ASSUME TypeOK, Begun, [Next]_vars
    PROVE  Begun'
<1>0. engine \in Engine
  BY DEF TypeOK
<1>1. ASSUME NEW e, Hook(e) PROVE run' = "absent" => run = "absent"
  BY <1>1 DEF Hook, Dispatch, Terminal, Outcomes
<1>2. CASE EngineStep
  <2>1. CASE Start
    BY <2>1 DEF Start, Begun
  <2>2. CASE Replay
    BY <2>2 DEF Replay, Begun
  <2>3. ASSUME NEW s \in Steps, Suspend(s) PROVE Begun'
    BY <2>3 DEF Suspend, Begun
  <2>4. ASSUME NEW o \in Outcomes, End(o) PROVE Begun'
    BY <2>4 DEF End, Begun
  <2>5. QED
    BY <1>2, <2>1, <2>2, <2>3, <2>4 DEF EngineStep
<1>3. CASE HookStep
  <2>1. /\ UNCHANGED <<engine, canceling>>
        /\ run' = "absent" => run = "absent"
    BY <1>1, <1>3 DEF HookStep, Project, HandlerFails, RetryJob
  <2>2. QED
    BY <2>1 DEF Begun
<1>4. CASE PeopleStep
  <2>1. ASSUME NEW s \in Steps, NEW v \in Verdicts, Decide(s, v) PROVE Begun'
    BY <2>1 DEF Decide, Begun
  <2>2. CASE CancelReads
    BY <2>2 DEF CancelReads, Begun
  <2>3. CASE CancelPublishes
    BY <2>3 DEF CancelPublishes, Begun
  <2>4. QED
    BY <1>4, <2>1, <2>2, <2>3 DEF PeopleStep
<1>5. CASE JobStep
  BY <1>5 DEF JobStep, Sweep, RetryPick, Begun
<1>6. CASE CallStep
  <2>1. ASSUME NEW c \in calls, Resume(c) PROVE Begun'
    BY <2>1 DEF Resume, Resumable, Begun
  <2>2. ASSUME NEW c \in calls, ResumeFails(c) PROVE Begun'
    <3>1. UNCHANGED <<engine, canceling>>
      BY <2>2 DEF ResumeFails
    <3>2. run' = "absent" => run = "absent"
      BY <2>2 DEF ResumeFails, GiveUp, LogOnly, CountRetry
    <3>3. QED
      BY <3>1, <3>2 DEF Begun
  <2>3. QED
    BY <1>6, <2>1, <2>2 DEF CallStep
<1>7. CASE Crash
  BY <1>7 DEF Crash, Begun
<1>8. CASE UNCHANGED vars
  BY <1>8 DEF vars, Begun
<1>9. QED
  BY <1>2, <1>3, <1>4, <1>5, <1>6, <1>7, <1>8 DEF Next

\* What a failed resume writes asks nothing.
LEMMA FailureAsksNothing ==
    ASSUME TypeOK, NEW c \in calls, ResumeFails(c)
    PROVE  /\ UNCHANGED <<engine, mail, queue, seen>> /\ calls' \subseteq calls
           /\ \A s \in Steps : card'[s].status = card[s].status
<1>1. card \in [Steps -> Card]
  BY DEF TypeOK
<1>2. \A d \in Card : Counted(d, c).status = d.status
  BY DEF Counted, Card
<1>3. CountRetry(c) => \A s \in Steps : card'[s].status = card[s].status
  BY <1>1, <1>2 DEF CountRetry
<1>4. QED
  BY <1>3 DEF ResumeFails, GiveUp, LogOnly

LEMMA NextOut ==
    ASSUME Unreplayed', TypeOK, CardInv, Begun, OutInv, Copies = 1, ~Jobs \/ OneStep, [Next]_vars
    PROVE  OutInv'
<1>0. engine \in Engine
  BY DEF TypeOK
<1>1. CASE Start
  <2>1. engine'.at = engine.at /\ engine.phase = "idle"
    BY <1>0, <1>1 DEF Start, Engine, Begun
  <2>2. QED
    BY <1>1, <2>1, KeepsOut DEF Start
<1>2. CASE Replay
  <2>1. spent \in [{"replay", "cancel", "fault", "crash"} -> Nat]
    BY DEF TypeOK
  <2>2. spent'["replay"] = spent["replay"] + 1 /\ spent["replay"] \in Nat
    BY <1>2, <2>1 DEF Replay, Spend
  <2>3. QED
    BY <2>2 DEF Unreplayed
<1>3. ASSUME NEW s \in Steps, Suspend(s) PROVE OutInv'
  BY <1>3, SuspendOut
<1>4. ASSUME NEW o \in Outcomes, End(o) PROVE OutInv'
  <2>1. engine'.at = engine.at /\ engine'.phase = "over"
    BY <1>4, AtKept DEF End
  <2>2. \A e \in mail' \cup queue' : e.kind = "suspended" => e \in mail \cup queue
    BY <1>4, PublishedOther DEF End, Outcomes
  <2>3. QED
    BY <1>4, <2>1, <2>2, KeepsOut DEF End
<1>5. ASSUME NEW e \in mail, Project(e) PROVE OutInv'
  BY <1>5, HookOut DEF Project
<1>6. ASSUME NEW e \in mail, HandlerFails(e) PROVE OutInv'
  BY <1>6, KeepsOut DEF HandlerFails
<1>7. ASSUME NEW e \in queue, RetryJob(e) PROVE OutInv'
  BY <1>7, HookOut DEF RetryJob
<1>8. ASSUME NEW s \in Steps, NEW v \in Verdicts, Decide(s, v) PROVE OutInv'
  BY <1>8, SettleOut DEF Decide, Settled
<1>9. CASE CancelReads
  BY <1>9, KeepsOut DEF CancelReads
<1>10. CASE CancelPublishes
  <2>1. engine'.at = engine.at /\ (engine'.phase = "over")
    <3>1. CASE engine.phase = "over"
      BY <1>0, <1>10, <3>1 DEF CancelPublishes, Engine
    <3>2. CASE engine.phase # "over"
      BY <1>10, <3>2, AtKept DEF CancelPublishes
    <3>3. QED
      BY <3>1, <3>2
  <2>2. \A e \in mail' \cup queue' : e.kind = "suspended" => e \in mail \cup queue
    BY <1>10, PublishedOther DEF CancelPublishes
  <2>3. QED
    BY <1>10, <2>1, <2>2, KeepsOut DEF CancelPublishes
<1>11. ASSUME NEW s \in Steps, Sweep(s) PROVE OutInv'
  BY <1>11, SettleOut DEF Sweep, Settled
<1>12. ASSUME NEW s \in Steps, RetryPick(s) PROVE OutInv'
  BY <1>12, PickOut
<1>13. ASSUME NEW c \in calls, Resume(c) PROVE OutInv'
  BY <1>13, ResumeOut
<1>14. ASSUME NEW c \in calls, ResumeFails(c) PROVE OutInv'
  BY <1>14, FailureAsksNothing, KeepsOut
<1>15. CASE Crash
  BY <1>15, KeepsOut DEF Crash
<1>16. CASE UNCHANGED vars
  BY <1>16, KeepsOut DEF vars
<1>17. QED
  BY <1>1, <1>2, <1>3, <1>4, <1>5, <1>6, <1>7, <1>8, <1>9, <1>10, <1>11, <1>12, <1>13, <1>14,
     <1>15, <1>16
     DEF Next, EngineStep, HookStep, PeopleStep, JobStep, CallStep

\* The run is over by an event that leaves no card pending, or by a call that failed
\* while none was.
LEMMA NextOver ==
    ASSUME TypeOK, OutInv, NothingToDecideWhenOver, [Next]_vars
    PROVE  NothingToDecideWhenOver'
<1>0. card \in [Steps -> Card]
  BY DEF TypeOK
<1>1. ASSUME NEW e, Hook(e) PROVE NothingToDecideWhenOver'
  <2>1. \A s \in Steps : Superseded(card[s]).status # "pending"
    BY DEF Superseded
  <2>2. CASE e \in seen
    BY <1>1, <2>2 DEF Hook, NothingToDecideWhenOver
  <2>3. CASE Dispatch(e)
    BY <2>1, <2>3 DEF Dispatch, CardsOnEnd, NothingToDecideWhenOver, Terminal, Outcomes
  <2>4. QED
    BY <1>1, <2>2, <2>3 DEF Hook
<1>2. ASSUME NEW c \in calls, ResumeFails(c) PROVE NothingToDecideWhenOver'
  <2>1. NonePending
    BY DEF OutInv, Outstanding
  <2>2. QED
    BY <1>2, <2>1, FailureAsksNothing DEF NonePending, NothingToDecideWhenOver
<1>3. ASSUME NEW s \in Steps, NEW v \in Settled, NEW by, Settle(s, v, by), run' = run
      PROVE  NothingToDecideWhenOver'
  <2>1. card'[s].status = v /\ \A t \in Steps : t # s => card'[t] = card[t]
    BY <1>0, <1>3 DEF Settle, Answered, Card
  <2>2. v # "pending"
    BY DEF Settled, Verdicts
  <2>3. QED
    BY <1>3, <2>1, <2>2 DEF NothingToDecideWhenOver
<1>4. CASE UNCHANGED <<run, card>>
  BY <1>4 DEF NothingToDecideWhenOver
<1>5. CASE EngineStep
  <2>1. CASE Start
    BY <2>1 DEF Start, NothingToDecideWhenOver, Terminal, Outcomes
  <2>2. QED
    BY <1>4, <1>5, <2>1 DEF EngineStep, Replay, Suspend, End
<1>6. CASE HookStep
  BY <1>1, <1>4, <1>6 DEF HookStep, Project, HandlerFails, RetryJob
<1>7. CASE PeopleStep
  BY <1>3, <1>4, <1>7 DEF PeopleStep, Decide, CancelReads, CancelPublishes, Settled
<1>8. CASE JobStep
  BY <1>3, <1>4, <1>8 DEF JobStep, Sweep, RetryPick, Settled
<1>9. CASE CallStep
  BY <1>2, <1>4, <1>9 DEF CallStep, Resume
<1>10. CASE Crash
  BY <1>4, <1>10 DEF Crash
<1>11. CASE UNCHANGED vars
  BY <1>4, <1>11 DEF vars
<1>12. QED
  BY <1>5, <1>6, <1>7, <1>8, <1>9, <1>10, <1>11 DEF Next

\* If each event is delivered once, then until the run is replayed nobody finds a card
\* to decide on a run that is over, however handlers fail, jobs are repeated, cancels
\* race with verdicts and servers restart: with any number of steps as the program is
\* deployed, where nothing schedules the two jobs, and with the jobs for a run of one
\* step.  (With the jobs and two steps it is false: a retry that fails late ends a run
\* that waits for its next card.)
THEOREM NothingLeftToDecide ==
    ASSUME Copies = 1, ~Jobs \/ \A s, t \in Steps : s = t
    PROVE  Spec => [](Unreplayed => NothingToDecideWhenOver)
<1> DEFINE IInv == Unreplayed => OutInv /\ NothingToDecideWhenOver
<1>1. Init => IInv /\ CardInv /\ Begun
  <2>1. Init => NothingToDecideWhenOver
    BY DEF Init, NothingToDecideWhenOver, Terminal, Outcomes
  <2>2. Init => Begun
    BY DEF Init, Begun
  <2>3. QED
    BY <2>1, <2>2, InitOut, InitCards
<1>2. TypeOK /\ CardInv /\ Begun /\ IInv /\ [Next]_vars => IInv' /\ CardInv' /\ Begun'
  <2>1. SUFFICES ASSUME TypeOK, CardInv, Begun, IInv, [Next]_vars
                 PROVE  IInv' /\ CardInv' /\ Begun'
    OBVIOUS
  <2>2. CardInv' /\ Begun'
    BY <2>1, NextCards, NextBegun
  <2>3. ASSUME Unreplayed' PROVE OutInv' /\ NothingToDecideWhenOver'
    <3>1. OutInv /\ NothingToDecideWhenOver
      BY <2>1, <2>3, UnreplayedBefore
    <3>2. ~Jobs \/ OneStep
      BY DEF OneStep
    <3>3. QED
      BY <2>1, <2>3, <3>1, <3>2, NextOut, NextOver
  <2>4. QED
    BY <2>2, <2>3
<1>3. IInv => (Unreplayed => NothingToDecideWhenOver)
  OBVIOUS
<1>4. QED
  BY <1>1, <1>2, <1>3, InitTyped, NextTyped, PTL DEF Spec
=============================================================================
