-------------------------- MODULE UmidigiCase_proofs --------------------------
(***************************************************************************)
(* Proofs about the two halves of the UMIDIGI case, which share no         *)
(* variable: what a bud does about the lid (UmidigiCase), for every length *)
(* of the queue, and how it receives the frames of the case (UmidigiFrame).*)
(***************************************************************************)
EXTENDS UmidigiCase, UmidigiFrame, FiniteSetTheorems, TLAPS

(* Only app_core in task_switch_to_bt has switch2bt, and by then the timer *)
(* of the open lid has ended.                                              *)
Switching == switch2bt => app = "starting" /\ ~opening

IInv == TypeOK /\ NoStaleHandle /\ Switching

-----------------------------------------------------------------------------
(* What the queue holds stays what the handlers know. *)
LEMMA PostedType ==
    ASSUME queue \in Seq(Event), NEW e \in Event, Posted(e)
    PROVE  queue' \in Seq(Event)
<1>1. Append(queue, e) \in Seq(Event)
  OBVIOUS
<1> QED
  BY <1>1 DEF Posted

LEMMA TakesType ==
    ASSUME queue \in Seq(Event), NEW e, Takes(e)
    PROVE  queue' \in Seq(Event)
<1>1. queue # <<>> /\ queue' = Tail(queue)
  BY DEF Takes
<1> QED
  BY <1>1

LEMMA FoundType ==
    ASSUME NEW on \in BOOLEAN PROVE Found(on) \in Seq(Event)
<1>1. "in" \in Event
  BY DEF Event
<1>2. <<>> \in Seq(Event) /\ <<"in">> \in Seq(Event)
  BY <1>1
<1> QED
  BY <1>2 DEF Found

LEMMA BootType ==
    ASSUME NEW on \in BOOLEAN, Boot(on)
    PROVE  /\ app' \in {"idle", "bt"}
           /\ charge_online_flag' \in BOOLEAN /\ cover_status' = FALSE /\ switch2bt' = FALSE
           /\ timer' = FALSE /\ closing' = FALSE
           /\ open_case_timer' = FALSE /\ opening' = FALSE
           /\ resetting' = FALSE /\ queue' \in Seq(Event)
<1>1. Found(on) \in Seq(Event)
  BY FoundType
<1> QED
  BY <1>1 DEF Boot

(* A bud starts with its invariant. *)
LEMMA InitInv == Init => IInv
<1> SUFFICES ASSUME Init PROVE IInv
  OBVIOUS
<1>1. queue \in Seq(Event)
  BY FoundType DEF Init
<1>2. app \in {"idle", "bt"}
  BY DEF Init
<1> QED
  BY <1>1, <1>2 DEF Init, IInv, TypeOK, NoStaleHandle, Switching

(* Every step keeps it. *)
LEMMA StepInv == IInv /\ [Next]_vars => IInv'
<1> SUFFICES ASSUME IInv, [Next]_vars PROVE IInv'
  OBVIOUS
<1> USE DEF IInv, TypeOK, NoStaleHandle, Switching
<1>1. CASE MovesLid
  BY <1>1 DEF MovesLid, closed, opened
<1>2. CASE Moves
  <2>1. CASE app = "off"
    <3>1. contact' \in BOOLEAN /\ Boot(contact')
      BY <1>2, <2>1 DEF Moves
    <3> QED
      BY <1>2, <3>1, BootType DEF Moves
  <2>2. CASE app # "off"
    BY <1>2, <2>2 DEF Moves, closed, opened
  <2> QED
    BY <2>1, <2>2
<1>3. CASE Drains
  BY <1>3 DEF Drains, closed, opened
<1>4. CASE Report
  <2>1. queue' \in Seq(Event)
    <3>1. (IF contact THEN "in" ELSE "off") \in Event
      BY DEF Event
    <3> QED
      BY <1>4, <3>1 DEF Report
  <2> QED
    BY <1>4, <2>1 DEF Report, Detection!Reports, world,
       closed, opened
<1>5. CASE TellsOpen
  <2>1. queue' \in Seq(Event)
    <3>1. "open" \in Event
      BY DEF Event, Command
    <3> QED
      BY <1>5, <3>1, PostedType DEF TellsOpen
  <2> QED
    BY <1>5, <2>1 DEF TellsOpen, world, closed, opened
<1>6. CASE TellsClose
  <2>1. queue' \in Seq(Event)
    <3>1. "close" \in Event
      BY DEF Event, Command
    <3> QED
      BY <1>6, <3>1, PostedType DEF TellsClose
  <2> QED
    BY <1>6, <2>1 DEF TellsClose, world, closed, opened
<1>7. CASE TellsPair
  <2>1. queue' \in Seq(Event)
    <3>1. "pair" \in Event
      BY DEF Event, Command
    <3> QED
      BY <1>7, <3>1, PostedType DEF TellsPair
  <2> QED
    BY <1>7, <2>1 DEF TellsPair, world, closed, opened
<1>8. CASE Wakes
  BY <1>8, BootType DEF Wakes, world
<1>9. CASE OpenDeal
  <2>1. queue' \in Seq(Event) /\ app # "starting"
    BY <1>9, TakesType DEF OpenDeal, Takes, Ready
  <2> QED
    BY <1>9, <2>1 DEF OpenDeal, Takes, world, closed
<1>10. CASE CloseDeal
  <2>1. queue' \in Seq(Event)
    BY <1>10, TakesType DEF CloseDeal
  <2> QED
    BY <1>10, <2>1 DEF CloseDeal, Takes, world, opened
<1>11. CASE PairDeal
  <2>1. queue' \in Seq(Event)
    BY <1>11, TakesType DEF PairDeal
  <2> QED
    BY <1>11, <2>1 DEF PairDeal, Takes, world, closed,
       opened
<1>12. CASE InDeal
  <2>1. queue' \in Seq(Event) /\ app # "starting"
    BY <1>12, TakesType DEF InDeal, Takes, Ready
  <2> QED
    BY <1>12, <2>1 DEF InDeal, Takes, world, closed,
       opened
<1>13. CASE OffDeal
  <2>1. queue' \in Seq(Event) /\ app # "starting"
    BY <1>13, TakesType DEF OffDeal, Takes, Ready
  <2> QED
    BY <1>13, <2>1 DEF OffDeal, Takes, world, closed,
       opened
<1>14. CASE Switched
  BY <1>14 DEF Switched, world, closed
<1>15. CASE OpenCallback
  BY <1>15 DEF OpenCallback, Ready, world, closed
<1>16. CASE CloseCallback
  BY <1>16 DEF CloseCallback, Ready, world, opened
<1>17. CASE Leave
  BY <1>17, BootType DEF Leave, world
<1>18. CASE UNCHANGED vars
  BY <1>18 DEF vars, world, closed, opened
<1>19. CASE ResetDelay
  BY <1>19 DEF ResetDelay, Ready, world, closed, opened
<1> QED
  BY <1>1, <1>2, <1>3, <1>4, <1>5, <1>6, <1>7, <1>8, <1>9, <1>10, <1>11,
     <1>12, <1>13,
     <1>14, <1>15, <1>16, <1>17, <1>18, <1>19 DEF Next, Deals

(* A handle of the two timers of the lid stands for a timer that runs, for *)
(* every length of the queue and every order of commands and callbacks.    *)
THEOREM HandlesLive == Spec => []NoStaleHandle
<1>1. IInv => NoStaleHandle
  BY DEF IInv
<1> QED
  BY InitInv, StepInv, <1>1, PTL DEF Spec

(* Every variable keeps its type. *)
THEOREM Typed == Spec => []TypeOK
<1>1. IInv => TypeOK
  BY DEF IInv
<1> QED
  BY InitInv, StepInv, <1>1, PTL DEF Spec

-----------------------------------------------------------------------------
(* Where a bud that the user leaves alone ends up, it stays: what is still *)
(* queued, the timers that still run and the callbacks of two seconds ago  *)
(* take it nowhere else.                                                   *)

Queued(e) == \E i \in 1..Len(queue) : queue[i] = e

(* The bud has noticed that it is in the open case. An OFF still queued    *)
(* finds Bluetooth mode and changes nothing.                               *)
OpenRest ==
    /\ lid /\ contact /\ charge_online_flag /\ cover_status
    /\ app = "bt" /\ ~resetting /\ ~Queued("in")

ClosedRest ==
    /\ ~lid /\ contact /\ charge_online_flag /\ ~cover_status
    /\ app = "idle" /\ ~Queued("off")

OutRest ==
    /\ ~contact
    /\ \/ app = "off"
       \/ app = "bt" /\ ~resetting /\ ~charge_online_flag /\ ~Queued("in")

(* In a step in which the user moves neither lid nor bud. *)
OpenStays == OpenRest /\ lid' /\ contact' => OpenRest'
ClosedStays == ClosedRest /\ ~lid' /\ contact' => ClosedRest'
OutStays == OutRest /\ ~contact' => OutRest'

LEMMA PostedOther ==
    ASSUME queue \in Seq(Event), NEW x \in Event, NEW e, x # e, ~Queued(e),
           Posted(x) \/ queue' = Append(queue, x)
    PROVE  ~Queued(e)'
<1>1. CASE queue' = queue
  BY <1>1 DEF Queued
<1>2. CASE queue' = Append(queue, x)
  <2>1. /\ Len(queue') = Len(queue) + 1 /\ Len(queue) \in Nat /\ queue'[Len(queue) + 1] = x
        /\ \A i \in 1..Len(queue) : queue'[i] = queue[i]
    BY <1>2
  <2> QED
    BY <2>1 DEF Queued
<1> QED
  BY <1>1, <1>2 DEF Posted

LEMMA TakenOther ==
    ASSUME queue \in Seq(Event), NEW e, Takes(e), NEW d, ~Queued(d)
    PROVE  ~Queued(d)'
<1>1. /\ Len(queue') = Len(queue) - 1 /\ Len(queue) \in Nat
      /\ \A i \in 1..Len(queue') : queue'[i] = queue[i + 1]
  BY DEF Takes
<1> QED
  BY <1>1 DEF Queued

(* What is taken was there. *)
LEMMA TakenThere ==
    ASSUME queue \in Seq(Event), NEW e, Takes(e)
    PROVE  Queued(e)
<1>1. queue # <<>> /\ Head(queue) = e
  BY DEF Takes
<1>2. 1 \in 1..Len(queue) /\ queue[1] = e
  BY <1>1
<1> QED
  BY <1>2 DEF Queued

LEMMA CommandsOther ==
    ASSUME queue \in Seq(Event), NEW d \in {"in", "off"}, ~Queued(d),
           TellsOpen \/ TellsClose \/ TellsPair
    PROVE  ~Queued(d)'
<1>1. "open" \in Event /\ "close" \in Event /\ "pair" \in Event
  BY DEF Event, Command
<1>2. CASE UNCHANGED queue
  BY <1>2 DEF Queued
<1>3. ASSUME NEW x \in {"open", "close", "pair"}, Posted(x) PROVE ~Queued(d)'
  BY <1>1, <1>3, PostedOther
<1> QED
  BY <1>2, <1>3 DEF TellsOpen, TellsClose, TellsPair

LEMMA OpenStep == TypeOK /\ [Next]_vars => OpenStays
<1> SUFFICES ASSUME TypeOK, [Next]_vars, OpenRest, lid', contact' PROVE OpenRest'
  BY DEF OpenStays
<1> USE DEF OpenRest
<1>0. queue \in Seq(Event) /\ app = "bt" /\ ~Queued("in")
  BY DEF TypeOK
<1>1. CASE UNCHANGED <<charge_online_flag, cover_status, app, resetting, queue>>
  BY <1>1 DEF Queued
<1>2. CASE MovesLid \/ Moves \/ Drains
  BY <1>1, <1>2 DEF MovesLid, Moves, Drains, TypeOK
<1>3. CASE Report
  BY <1>3 DEF Report, Detection!Reports
<1>4. CASE TellsOpen \/ TellsClose \/ TellsPair
  <2>1. ~Queued("in")'
    BY <1>0, <1>4, CommandsOther
  <2>2. UNCHANGED <<charge_online_flag, app, resetting>> /\ cover_status'
    BY <1>4 DEF TellsOpen, TellsClose, TellsPair
  <2> QED
    BY <2>1, <2>2
<1>5. CASE Wakes \/ Leave \/ Switched
  BY <1>5 DEF Wakes, Leave, Switched
<1>6. CASE InDeal
  BY <1>0, <1>6, TakenThere DEF InDeal
<1>7. CASE OpenDeal \/ CloseDeal \/ PairDeal \/ OffDeal
  <2>1. PICK e : Takes(e)
    BY <1>7 DEF OpenDeal, CloseDeal, PairDeal, OffDeal
  <2>2. ~Queued("in")'
    BY <1>0, <2>1, TakenOther
  <2>3. app' = "bt" /\ ~resetting'
    BY <1>0, <1>7 DEF OpenDeal, CloseDeal, PairDeal, OffDeal
  <2> QED
    BY <2>1, <2>2, <2>3 DEF Takes
<1>8. CASE OpenCallback
  BY <1>1, <1>8 DEF OpenCallback
<1>9. CASE CloseCallback
  <2>1. cover_status' /\ app' = app
    BY <1>9 DEF CloseCallback
  <2> QED
    BY <1>9, <2>1 DEF CloseCallback, Queued
<1>10. CASE ResetDelay \/ UNCHANGED vars
  BY <1>1, <1>10 DEF ResetDelay, vars
<1> QED
  BY <1>2, <1>3, <1>4, <1>5, <1>6, <1>7, <1>8, <1>9, <1>10 DEF Next, Deals

LEMMA ClosedStep == TypeOK /\ [Next]_vars => ClosedStays
<1> SUFFICES ASSUME TypeOK, [Next]_vars, ClosedRest, ~lid', contact' PROVE ClosedRest'
  BY DEF ClosedStays
<1> USE DEF ClosedRest
<1>0. queue \in Seq(Event) /\ app = "idle" /\ ~Queued("off")
  BY DEF TypeOK
<1>1. CASE UNCHANGED <<charge_online_flag, cover_status, app, queue>>
  BY <1>1 DEF Queued
<1>2. CASE MovesLid \/ Moves \/ Drains
  BY <1>1, <1>2 DEF MovesLid, Moves, Drains, TypeOK
<1>3. CASE Report
  BY <1>3 DEF Report, Detection!Reports
<1>4. CASE TellsOpen \/ TellsClose \/ TellsPair
  <2>1. ~Queued("off")'
    BY <1>0, <1>4, CommandsOther
  <2> QED
    BY <1>4, <2>1 DEF TellsOpen, TellsClose, TellsPair
<1>5. CASE Wakes \/ Leave \/ Switched
  BY <1>5 DEF Wakes, Leave, Switched
<1>6. CASE OffDeal
  BY <1>0, <1>6, TakenThere DEF OffDeal
<1>7. CASE OpenDeal \/ CloseDeal \/ PairDeal \/ InDeal
  <2>1. PICK e : Takes(e)
    BY <1>7 DEF OpenDeal, CloseDeal, PairDeal, InDeal
  <2>2. ~Queued("off")'
    BY <1>0, <2>1, TakenOther
  <2>3. app' = "idle"
    BY <1>0, <1>7 DEF OpenDeal, CloseDeal, PairDeal, InDeal
  <2> QED
    BY <2>1, <2>2, <2>3 DEF Takes
<1>8. CASE OpenCallback
  BY <1>1, <1>8 DEF OpenCallback
<1>9. CASE CloseCallback
  <2>1. ~cover_status' /\ app' = app
    BY <1>9 DEF CloseCallback
  <2> QED
    BY <1>9, <2>1 DEF CloseCallback, Queued
<1>10. CASE ResetDelay \/ UNCHANGED vars
  BY <1>1, <1>10 DEF ResetDelay, vars
<1> QED
  BY <1>2, <1>3, <1>4, <1>5, <1>6, <1>7, <1>8, <1>9, <1>10 DEF Next, Deals

(* Out of the case nobody tells of the lid, and the callback of the closed *)
(* one counts it as open.                                                  *)
LEMMA OutStep == TypeOK /\ [Next]_vars => OutStays
<1> SUFFICES ASSUME TypeOK, [Next]_vars, OutRest, ~contact' PROVE OutRest'
  BY DEF OutStays
<1>0. queue \in Seq(Event) /\ ~contact
  BY DEF TypeOK, OutRest
<1>1. CASE UNCHANGED <<charge_online_flag, app, resetting, queue>>
  BY <1>1 DEF OutRest, Queued
<1>2. CASE MovesLid \/ Moves \/ Drains
  BY <1>1, <1>2 DEF MovesLid, Moves, Drains, TypeOK, OutRest
<1>3. CASE Report
  <2>1. charge_online_flag = FALSE /\ contact = FALSE
    BY <1>3 DEF Report, OutRest, TypeOK
  <2> QED
    BY <1>3, <2>1 DEF Report, Detection!Reports
<1>4. CASE TellsOpen \/ TellsClose \/ TellsPair \/ Wakes
  BY <1>0, <1>4 DEF TellsOpen, TellsClose, TellsPair, Tells, Wakes
<1>5. CASE Leave \/ Switched
  BY <1>5 DEF Leave, Switched, OutRest
<1>6. CASE Deals
  <2>1. PICK e : Takes(e)
    BY <1>6 DEF Deals, OpenDeal, CloseDeal, PairDeal, InDeal, OffDeal
  <2>2. app = "bt" /\ ~resetting /\ ~charge_online_flag /\ ~Queued("in")
    BY <2>1 DEF OutRest, Takes, Ready
  <2>3. ~Queued("in")'
    BY <1>0, <2>1, <2>2, TakenOther
  <2>4. app' = "bt" /\ ~resetting'
    BY <1>0, <1>6, <2>2, TakenThere DEF Deals, OpenDeal, CloseDeal, PairDeal, InDeal, OffDeal
  <2> QED
    BY <2>1, <2>2, <2>3, <2>4 DEF OutRest, Takes
<1>7. CASE OpenCallback
  BY <1>1, <1>7 DEF OpenCallback, OutRest, Ready
<1>8. CASE CloseCallback
  <2>1. app = "bt" /\ ~charge_online_flag
    BY <1>8 DEF CloseCallback, OutRest, Ready
  <2>2. cover_status'
    BY <1>8, <2>1 DEF CloseCallback
  <2> QED
    BY <1>1, <1>8, <2>2 DEF CloseCallback
<1>9. CASE ResetDelay \/ UNCHANGED vars
  BY <1>1, <1>9 DEF ResetDelay, OutRest, Ready, vars
<1> QED
  BY <1>2, <1>3, <1>4, <1>5, <1>6, <1>7, <1>8, <1>9 DEF Next

(* The "for good" of OpenEndsInBt, ClosedEndsIdle and OutEndsInBt: a bud   *)
(* that has come to rest in the open case, in the closed case or out of it *)
(* is not switched, left or reset by anything the firmware has still to    *)
(* do, as long as the user leaves lid and bud where they are.              *)
THEOREM RestsForGood == Spec => [][OpenStays /\ ClosedStays /\ OutStays]_vars
<1>1. IInv => TypeOK
  BY DEF IInv
<1> QED
  BY <1>1, InitInv, StepInv, OpenStep, ClosedStep, OutStep, PTL DEF Spec

-----------------------------------------------------------------------------
(* The receiver of frames, for both lengths of a bit and any frames: what    *)
(* finds the timer free is handed over as it was sent, if edges come at most *)
(* one sample late and stray by at most four in all, and at most two samples *)
(* of a frame are read wrongly.                                              *)

Punctual == Early + Late <= 4 /\ Late <= 1 /\ MaxWrong <= 2

LEMMA TenSamples == BitSamples = 10
<1> USE FrameAssumption
<1>1. CASE Timer2CMessage = 20
  BY <1>1 DEF BitSamples
<1>2. CASE Timer2CMessage = 40
  BY <1>2 DEF BitSamples
<1> QED
  BY <1>1, <1>2

LEMMA Bounds == Early \in 0..4 /\ Late \in 0..4 /\ MaxWrong \in Nat /\ MaxSpikes \in Nat
  BY FrameAssumption

(* How early and how late an edge may be. *)
LEMMA DisplacedBy ==
  ASSUME NEW d \in -Early..Late PROVE d \in Int /\ -Early <= d /\ d <= Late /\ Early \in 0..4 /\ Late \in 0..4
  BY Bounds

LEMMA Strays ==
  ASSUME Punctual, NEW d \in -Early..Late, NEW e \in -Early..Late
  PROVE  /\ d \in Int /\ e \in Int /\ d >= -4 /\ e >= -4 /\ d <= 1 /\ e <= 1
         /\ d - e >= -4 /\ d - e <= 4
  BY DisplacedBy DEF Punctual

LEMMA LeftFirst ==
  ASSUME NEW d \in -Early..Late PROVE 10 + d \in 0..10 + Early + Late
  BY DisplacedBy

LEMMA EmptyOrMore ==
  ASSUME NEW S PROVE <<>> \in Seq(S) /\ \A s \in Seq(S), x \in S : Append(s, x) \in Seq(S)
  OBVIOUS

LEMMA InitFrameType == FrameInit => FrameTypeOK
<1> USE Bounds
<1> SUFFICES ASSUME FrameInit PROVE FrameTypeOK
  OBVIOUS
<1>1. heard \in Seq(SUBSET (0..14))
  BY EmptyOrMore, Zenon DEF FrameInit
<1>2. frame \in Frames \cup {{}} /\ timer_handle \in BOOLEAN /\ clean \in BOOLEAN
  BY DEF FrameInit
<1> QED
  BY <1>1, <1>2, TenSamples DEF FrameInit, FrameTypeOK, Byte

(* What the timer does keeps its counters bytes. *)
LEMMA CountsType ==
  ASSUME FrameTypeOK, NEW port \in {0, 1}, Counts(port)
  PROVE  /\ keep_cnt' \in Byte /\ change_cnt' \in 0..2 /\ timeout_cnt' \in Byte
         /\ pre_status' \in {0, 1} /\ message_index' \in 0..14
<1>1. /\ keep_cnt \in Byte /\ change_cnt \in 0..2 /\ timeout_cnt \in Byte
      /\ pre_status \in {0, 1} /\ message_index \in 0..14
  BY DEF FrameTypeOK
<1>2. Kept \in 0..255 /\ (timeout_cnt + 1) % 256 \in 0..255
  BY <1>1 DEF Kept, Byte
<1>3. CASE Ends(port)
  BY <1>3 DEF Counts, Byte
<1>4. CASE ~Ends(port) /\ Turns(port)
  <2>1. message_index + Bits(Kept) < 15
    BY <1>4, <1>1, <1>2 DEF Ends, Complete, Bits
  <2>2. Bits(Kept) \in Nat
    BY <1>2 DEF Bits
  <2> QED
    BY <2>1, <2>2, <1>1, <1>4 DEF Counts, Byte
<1>5. CASE ~Ends(port) /\ ~Turns(port)
  BY <1>1, <1>2, <1>5 DEF Counts, Byte, Turns
<1> QED
  BY <1>3, <1>4, <1>5

LEMMA SamplesType ==
  ASSUME FrameTypeOK, NEW port \in {0, 1}, Samples(port)
  PROVE  /\ keep_cnt' \in Byte /\ change_cnt' \in 0..2 /\ timeout_cnt' \in Byte
         /\ pre_status' \in {0, 1} /\ message_index' \in 0..14
         /\ heard' \in Seq(SUBSET (0..14)) /\ timer_handle' \in BOOLEAN /\ message' \subseteq 0..14
<1>1. WithRun \in SUBSET (0..14) /\ message \in SUBSET (0..14) /\ heard \in Seq(SUBSET (0..14))
  BY DEF FrameTypeOK, WithRun
<1>2. heard' \in Seq(SUBSET (0..14))
  <2>1. heard' = heard \/ heard' = Append(heard, WithRun)
    BY DEF Samples, HandsOver
  <2> QED
    BY <1>1, <2>1, EmptyOrMore, Zenon
<1>3. timer_handle' \in BOOLEAN
  BY Zenon DEF Samples
<1>4. message' \subseteq 0..14
  BY <1>1 DEF Samples
<1> QED
  BY <1>2, <1>3, <1>4, CountsType DEF Samples

LEMMA AdvancesType ==
  ASSUME FrameTypeOK, Advances
  PROVE  frame' = frame /\ pos' \in 0..15 /\ left' \in 0..BitSamples + Early + Late /\ late' \in -Early..Late
<1> USE Bounds
<1>1. /\ pos \in 0..15 /\ left \in 0..10 + Early + Late /\ late \in -Early..Late
  BY TenSamples DEF FrameTypeOK
<1>2. Displaced => late' \in -Early..Late
  BY DEF Displaced
<1> QED
  BY <1>1, <1>2, TenSamples DEF Advances, line

LEMMA NextFrameType == ASSUME FrameTypeOK, [FrameNext]_frame_vars PROVE FrameTypeOK'
<1> USE Bounds
<1>1. CASE Begin
  <2>1. late' \in -Early..Late
    BY <1>1 DEF Begin, Displaced
  <2>2. left' \in 0..BitSamples + Early + Late
    <3>1. left' = 10 + late' /\ BitSamples = 10
      BY <1>1, TenSamples DEF Begin
    <3> QED
      BY <2>1, <3>1, LeftFirst
  <2>3. heard' \in Seq(SUBSET (0..14))
    BY <1>1, EmptyOrMore, Zenon DEF Begin
  <2>4. clean' \in BOOLEAN /\ message' \subseteq 0..14
    BY <1>1 DEF Begin, FrameTypeOK
  <2> QED
    BY <1>1, <2>1, <2>2, <2>3, <2>4 DEF Begin, FrameTypeOK, counters
<1>2. CASE Spike
  <2>1. heard' \in Seq(SUBSET (0..14))
    BY <1>2, EmptyOrMore, Zenon DEF Spike
  <2>2. spikes' \in 0..MaxSpikes /\ wrong' \in 0..MaxWrong
    BY <1>2 DEF Spike, FrameTypeOK
  <2> QED
    BY <1>2, <2>1, <2>2 DEF Spike, FrameTypeOK, counters
<1>3. CASE Tick
  <2>1. frame' = frame /\ pos' \in 0..15 /\ left' \in 0..BitSamples + Early + Late /\ late' \in -Early..Late
    BY <1>3, AdvancesType DEF Tick
  <2>2. clean' = clean /\ spikes' = spikes /\ wrong' \in 0..MaxWrong
    BY <1>3 DEF Tick, FrameTypeOK
  <2>3. Level \in {0, 1} /\ 1 - Level \in {0, 1}
    BY DEF Level
  <2>4. /\ keep_cnt' \in Byte /\ change_cnt' \in 0..2 /\ timeout_cnt' \in Byte
        /\ pre_status' \in {0, 1} /\ message_index' \in 0..14
        /\ heard' \in Seq(SUBSET (0..14)) /\ timer_handle' \in BOOLEAN /\ message' \subseteq 0..14
    <3>1. CASE \E port \in {0, 1} : Samples(port)
      BY <3>1, SamplesType
    <3>2. CASE ~timer_handle /\ timer_handle' = Falls /\ message' = (IF Falls THEN {} ELSE message)
                 /\ UNCHANGED <<counters, heard, wrong>>
      <4>1. timer_handle' \in BOOLEAN
        BY <3>2, Zenon DEF Falls
      <4>2. message' \subseteq 0..14
        BY <3>2 DEF FrameTypeOK
      <4> QED
        BY <3>2, <4>1, <4>2 DEF FrameTypeOK, counters
    <3> QED
      BY <1>3, <2>3, <3>1, <3>2 DEF Tick
  <2> QED
    BY <2>1, <2>2, <2>4 DEF FrameTypeOK
<1>4. CASE UNCHANGED frame_vars
  BY <1>4 DEF frame_vars, line, counters, FrameTypeOK
<1> QED
  BY <1>1, <1>2, <1>3, <1>4 DEF FrameNext

(* The counters stay bytes, and a message has fifteen bits. *)
THEOREM FrameTypeCorrect == FrameSpec => []FrameTypeOK
<1> QED
  BY InitFrameType, NextFrameType, PTL DEF FrameSpec

-----------------------------------------------------------------------------
(* The level of the p-th bit; after the fifteenth the line is high again.    *)
Wire(p) == IF Bit(frame, p) THEN 1 ELSE 0

Place == IF pos = 0 THEN 16 ELSE pos

(* The sample of the frame by which the run under way was noticed: the third *)
(* after an edge that came e samples late.                                   *)
Since(e) == IF message_index = 0 THEN 0 ELSE 10 * message_index + e + 3

Steady(p) == \A i \in message_index + 1..p : Wire(i) = pre_status

LateAtEdges == Wire(pos + 1) = Wire(pos) => late = 0

(* The line is at the level the receiver believes. *)
Settled ==
    /\ pos \in message_index + 1..15 /\ left >= 1 /\ Steady(pos) /\ LateAtEdges
    /\ change_cnt <= wrong
    /\ \E e \in -Early..Late : keep_cnt = 10 * pos + late - left - Since(e)

(* ... or has turned, d samples late, and has been seen so change_cnt times. *)
Turning ==
    /\ message_index < Place - 1 /\ Steady(Place - 1) /\ Wire(Place) # pre_status
    /\ pos # 0 => LateAtEdges
    /\ \E d, e \in -Early..Late :
         /\ keep_cnt = 10 * (Place - 1) + d + change_cnt - Since(e)
         /\ pos # 0 => left = 10 + late - d - change_cnt

Receiving ==
    /\ timer_handle /\ frame \in Frames /\ heard = <<>> /\ timeout_cnt = keep_cnt
    /\ message = {i \in frame : 15 - i <= message_index}
    /\ Settled \/ Turning

Received == pos = 0 /\ ~timer_handle /\ heard = <<frame>>

FrameInv ==
    /\ FrameTypeOK
    /\ ~timer_handle => counters = <<0, 0, 0, 0, 0>>
    /\ clean => Receiving \/ Received

-----------------------------------------------------------------------------
LEMMA TenDiv == ASSUME NEW n \in Int, NEW d \in -5..4 PROVE (10 * n + d + 5) \div 10 = n
  OBVIOUS

(* The parity bit makes the number of ones odd. *)
LEMMA FramesValid == ASSUME NEW m \in Frames PROVE m # {} /\ m \subseteq 1..13 /\ Valid(m)
<1>1. m \subseteq 1..13 /\ Cardinality(m) % 2 = 1
  BY FrameAssumption DEF Frame
<1>2. IsFiniteSet(m) /\ Cardinality(m) \in Nat
  <2>1. IsFiniteSet(1..13)
    <3>1. 1 \in Int /\ 13 \in Int
      OBVIOUS
    <3> QED
      BY <3>1, FS_Interval, Zenon
  <2> QED
    BY <1>1, <2>1, FS_Subset, FS_CardinalityType
<1>3. m # {}
  BY <1>1, FS_EmptySet
<1>4. \A x \in m : x \in 2..13 <=> x # 1
  <2>1. \A x \in 1..13 : x \in 2..13 <=> x # 1
    OBVIOUS
  <2> QED
    BY <1>1, <2>1, Zenon
<1>5. CASE 1 \in m
  <2>1. m \cap 2..13 = m \ {1}
    BY <1>4, Zenon
  <2>2. Cardinality(m \ {1}) = Cardinality(m) - 1
    BY <1>2, <1>5, FS_RemoveElement
  <2>3. Cardinality(m \cap 2..13) % 2 = 0
    <3> DEFINE c == Cardinality(m)
    <3>1. c % 2 = 1 /\ c \in Nat
      BY <1>1, <1>2
    <3> HIDE DEF c
    <3>2. (c - 1) % 2 = 0
      BY <3>1
    <3> QED
      BY <3>2, <2>1, <2>2 DEF c
  <2> QED
    BY <1>1, <1>3, <1>5, <2>3 DEF Valid
<1>6. CASE 1 \notin m
  <2>1. m \cap 2..13 = m
    BY <1>6, <1>4, Zenon
  <2>2. Cardinality(m \cap 2..13) % 2 # 0
    BY <2>1, <1>1
  <2> QED
    BY <1>1, <1>3, <1>6, <2>2 DEF Valid
<1> QED
  BY <1>5, <1>6

LEMMA WireLevel ==
  ASSUME pos \in 0..15
  PROVE  Level = Wire(Place) /\ Wire(16) = 1 /\ \A p \in Int : Wire(p) \in {0, 1}
  BY DEF Level, Wire, Place, Bit

LEMMA NoTimeOut ==
  ASSUME keep_cnt \in Nat, keep_cnt <= 153, timeout_cnt = keep_cnt
  PROVE  ~TimedOut /\ Kept = keep_cnt + 1
<1>1. (Timer2CMessage * 16) \div 2 >= 160
  <2>1. CASE Timer2CMessage = 20
    BY <2>1
  <2>2. CASE Timer2CMessage = 40
    BY <2>2
  <2> QED
    BY <2>1, <2>2, FrameAssumption
<1>2. (keep_cnt + 1) % 256 = keep_cnt + 1
  OBVIOUS
<1>3. (Timer2CMessage * 16) \div 2 \in Int
  BY FrameAssumption
<1> QED
  BY <1>1, <1>2, <1>3 DEF TimedOut, Kept

(* A sample that turns nothing. *)
LEMMA StaySame ==
  ASSUME NEW port, Samples(port), ~TimedOut, ~Turns(port), Kept = keep_cnt + 1, timeout_cnt = keep_cnt
  PROVE  /\ keep_cnt' = keep_cnt + 1 /\ timeout_cnt' = keep_cnt + 1
         /\ change_cnt' = IF port = pre_status THEN 0 ELSE change_cnt + 1
         /\ pre_status' = pre_status /\ message_index' = message_index
         /\ heard' = heard /\ message' = message /\ timer_handle' = TRUE
<1>1. ~Ends(port) /\ ~Complete(port)
  BY DEF Ends, Complete
<1>2. (timeout_cnt + 1) % 256 = keep_cnt + 1
  BY DEF Kept
<1> QED
  BY <1>1, <1>2 DEF Samples, Counts, HandsOver

LEMMA SinceRange ==
  ASSUME FrameTypeOK, NEW e \in -Early..Late
  PROVE  Since(e) \in Nat /\ (message_index # 0 => Since(e) = 10 * message_index + e + 3)
<1>1. message_index \in 0..14 /\ e \in Int /\ e >= -4
  BY DisplacedBy DEF FrameTypeOK
<1> QED
  BY <1>1 DEF Since

(* The line after a sample: in the same bit or in the next.                  *)
LEMMA LineMoves ==
  ASSUME FrameTypeOK, Advances, pos # 0, left >= 1
  PROVE  /\ \A p : Wire(p)' = Wire(p)
         /\ \/ left > 1 /\ left' = left - 1 /\ pos' = pos /\ late' = late
            \/ left = 1 /\ pos = 15 /\ pos' = 0
            \/ /\ left = 1 /\ pos < 15 /\ pos' = pos + 1 /\ left' = 10 + late' - late /\ LateAtEdges'
               /\ late' \in -Early..Late
<1>1. frame' = frame /\ left \in Int /\ pos \in 1..15 /\ BitSamples = 10
  BY AdvancesType, TenSamples DEF FrameTypeOK
<1>2. \A p : Wire(p)' = Wire(p)
  BY <1>1 DEF Wire, Bit
<1>3. CASE left > 1
  BY <1>1, <1>2, <1>3 DEF Advances
<1>4. CASE left = 1 /\ pos = 15
  BY <1>1, <1>2, <1>4 DEF Advances
<1>5. CASE left = 1 /\ pos < 15
  <2>1. pos' = pos + 1 /\ Displaced /\ left' = 10 + late' - late
    BY <1>1, <1>5 DEF Advances
  <2>2. late' \in -Early..Late
    BY <2>1, Bounds DEF Displaced
  <2>3. LateAtEdges'
    <3>1. Wire(pos + 1)' = Wire(pos)' => (Bit(frame', pos' + 1) <=> Bit(frame', pos'))
      BY DEF Wire
    <3>2. (Bit(frame', pos' + 1) <=> Bit(frame', pos')) => late' = 0
      BY <2>1 DEF Displaced, Bit
    <3> QED
      BY <3>1, <3>2 DEF LateAtEdges
  <2> QED
    BY <1>2, <1>5, <2>1, <2>2, <2>3
<1> QED
  BY <1>1, <1>3, <1>4, <1>5

(* A sample of a line that is at the level the receiver believes. *)
LEMMA SettledTick ==
  ASSUME Punctual, FrameTypeOK, clean, Receiving, Settled, Tick
  PROVE  Receiving'
<1> USE DEF Punctual
<1>1. /\ pos \in 1..15 /\ left \in Int /\ left >= 1 /\ late \in Int /\ late <= 1
      /\ message_index \in 0..14 /\ keep_cnt \in Nat /\ change_cnt \in 0..2 /\ wrong \in Nat
      /\ pre_status \in {0, 1} /\ pos >= message_index + 1
  <2>1. late \in Int /\ late <= 1
    BY DisplacedBy DEF FrameTypeOK
  <2>2. message_index \in 0..14 /\ pos \in 0..15 /\ pos \in message_index + 1..15
    BY DEF FrameTypeOK, Settled
  <2>3. left \in Int /\ wrong \in Nat
    BY TenSamples DEF FrameTypeOK
  <2>4. pos \in 1..15 /\ pos >= message_index + 1
    BY <2>2
  <2>5. keep_cnt \in Nat /\ change_cnt \in 0..2 /\ pre_status \in {0, 1}
    BY DEF FrameTypeOK, Byte
  <2>6. left >= 1
    BY DEF Settled
  <2> QED
    BY <2>1, <2>2, <2>3, <2>4, <2>5, <2>6
<1>2. late \in -Early..Late
  BY DEF FrameTypeOK
<1>3. PICK e \in -Early..Late : keep_cnt = 10 * pos + late - left - Since(e)
  BY DEF Settled
<1>4. Since(e) \in Nat
  BY SinceRange
<1>5. Level = pre_status /\ Wire(pos) = pre_status
  BY <1>1, WireLevel DEF Settled, Steady, Place
<1>6. ~TimedOut /\ Kept = keep_cnt + 1
  <2>1. keep_cnt <= 150
    BY <1>1, <1>3, <1>4
  <2> QED
    BY <1>1, <2>1, NoTimeOut DEF Receiving
<1>7. PICK port \in {0, 1} :
        /\ Samples(port)
        /\ \/ port = Level /\ wrong' = wrong
           \/ port # Level /\ Level' = Level /\ wrong < MaxWrong /\ wrong' = wrong + 1
  BY <1>1, <1>5 DEF Tick, Receiving
<1>8. Advances /\ frame' = frame
  BY AdvancesType DEF Tick
<1>9. ~Turns(port)
  BY <1>1, <1>5, <1>7, Bounds DEF Turns, Settled
<1>10. /\ keep_cnt' = keep_cnt + 1 /\ timeout_cnt' = keep_cnt + 1
       /\ change_cnt' = (IF port = pre_status THEN 0 ELSE change_cnt + 1)
       /\ pre_status' = pre_status /\ message_index' = message_index
       /\ heard' = heard /\ message' = message /\ timer_handle' = TRUE
  BY <1>6, <1>7, <1>9, StaySame DEF Receiving
<1>11. change_cnt' <= wrong'
  BY <1>1, <1>5, <1>7, <1>10 DEF Settled
<1>12. Since(e)' = Since(e)
  BY <1>10 DEF Since
<1>13. \A p : Wire(p)' = Wire(p)
  BY <1>1, <1>8, LineMoves
<1>14. \A p : Steady(p)' = Steady(p)
  BY <1>10, <1>13 DEF Steady
<1>15. CASE left > 1 /\ left' = left - 1 /\ pos' = pos /\ late' = late
  <2>1. keep_cnt' = 10 * pos' + late' - left' - Since(e)'
    BY <1>1, <1>3, <1>4, <1>10, <1>12, <1>15
  <2>2. LateAtEdges'
    BY <1>13, <1>15 DEF Settled, LateAtEdges
  <2>3. Settled'
    BY <1>1, <1>10, <1>11, <1>14, <1>15, <2>1, <2>2 DEF Settled
  <2> QED
    BY <1>8, <1>10, <2>3 DEF Receiving
<1>16. CASE left = 1 /\ pos < 15 /\ pos' = pos + 1 /\ left' = 10 + late' - late /\ LateAtEdges' /\ late' \in -Early..Late
  <2>0. PICK d \in -Early..Late : late' = d
    BY <1>16
  <2>1. d \in Int /\ d >= -4 /\ d - late >= -4 /\ d - late <= 4
    BY <1>2, Strays
  <2>4. left = 1 /\ pos < 15 /\ pos' = pos + 1 /\ late' = d /\ left' = 10 + d - late
    BY <1>16, <2>0
  <2>2. CASE Wire(pos + 1) = Wire(pos)
    <3>1. late = 0
      BY <2>2 DEF Settled, LateAtEdges
    <3>2. left' = 10 + d /\ left' >= 1
      BY <2>1, <2>4, <3>1
    <3>5. keep_cnt' = 10 * pos' + late' - left' - Since(e)'
      <4>1. keep_cnt = 10 * pos - 1 - Since(e)
        BY <1>1, <1>3, <1>4, <2>4, <3>1
      <4>2. 10 * pos' + d - left' = 10 * pos
        BY <1>1, <2>4, <2>1, <3>2
      <4> QED
        BY <1>1, <1>4, <1>10, <1>12, <2>4, <4>1, <4>2
    <3>3. Steady(pos)'
      <4>1. \A i \in message_index + 1..pos + 1 : Wire(i) = pre_status
        <5>1. \A i \in message_index + 1..pos + 1 : i \in message_index + 1..pos \/ i = pos + 1
          BY <1>1
        <5> QED
          BY <1>5, <2>2, <5>1 DEF Settled, Steady
      <4> QED
        BY <1>10, <1>13, <1>16, <4>1 DEF Steady
    <3>4. Settled'
      <4>1. pos' \in message_index' + 1..15
        BY <1>1, <1>10, <1>16
      <4> QED
        BY <1>11, <1>16, <3>2, <3>3, <3>5, <4>1 DEF Settled
    <3> QED
      BY <1>8, <1>10, <3>4 DEF Receiving
  <2>3. CASE Wire(pos + 1) # Wire(pos)
    <3>1. Level' = Wire(pos + 1)
      BY <1>1, <1>8, <1>16 DEF Level, Wire, Bit
    <3>2. change_cnt' = 0
      BY <1>5, <1>7, <1>10, <2>3, <3>1
    <3>3. Place' = pos + 1 /\ pos' # 0
      BY <1>1, <1>16 DEF Place
    <3>4. keep_cnt' = 10 * (Place' - 1) + late + change_cnt' - Since(e)'
      BY <1>1, <1>3, <1>4, <1>10, <1>12, <2>4, <3>2, <3>3
    <3>5. left' = 10 + d - late - change_cnt'
      BY <1>1, <2>4, <2>1, <3>2
    <3>6. Steady(Place - 1)' /\ Wire(Place)' # pre_status' /\ message_index' < Place' - 1
      BY <1>1, <1>5, <1>10, <1>13, <1>14, <2>3, <3>3 DEF Settled
    <3>7. Turning'
      BY <1>1, <1>16, <1>2, <2>4, <3>3, <3>4, <3>5, <3>6 DEF Turning
    <3> QED
      BY <1>8, <1>10, <3>7 DEF Receiving
  <2> QED
    BY <2>2, <2>3
<1>17. CASE left = 1 /\ pos = 15 /\ pos' = 0
  <2>1. Level' = 1 /\ Level = 0 /\ pre_status = 0
    <3>1. 0 \notin frame
      BY FramesValid DEF Receiving
    <3> QED
      BY <1>1, <1>5, <1>17, <3>1 DEF Level
  <2>2. change_cnt' = 0
    BY <1>5, <1>7, <1>10, <2>1
  <2>3. Place' = 16 /\ Wire(16)' = 1
    BY <1>17 DEF Place, Wire, Bit
  <2>4. keep_cnt' = 10 * (Place' - 1) + late + change_cnt' - Since(e)'
    BY <1>1, <1>3, <1>4, <1>10, <1>12, <1>17, <2>2, <2>3
  <2>5. Steady(Place - 1)' /\ Wire(Place)' # pre_status' /\ message_index' < Place' - 1
    BY <1>1, <1>10, <1>14, <1>17, <2>1, <2>3 DEF Settled
  <2>6. Turning'
    BY <1>1, <1>17, <1>2, <2>4, <2>5 DEF Turning
  <2> QED
    BY <1>8, <1>10, <2>6 DEF Receiving
<1> QED
  BY <1>1, <1>8, <1>15, <1>16, <1>17, LineMoves

(* What is received of a frame when the p-th bit ends. *)
Until(p) == {i \in frame : 15 - i <= p}

(* A run is counted for the bits it has, whatever its edges stray. *)
LEMMA RunCounted ==
  ASSUME Punctual, FrameTypeOK, NEW p \in Int, NEW d \in -Early..Late, NEW e \in -Early..Late,
         keep_cnt = 10 * p + d + 2 - Since(e), Kept = keep_cnt + 1
  PROVE  Bits(Kept) = p - message_index
<1>1. message_index \in 0..14
  BY DEF FrameTypeOK
<1>2. d \in Int /\ e \in Int /\ d >= -4 /\ d <= 1 /\ d - e >= -4 /\ d - e <= 4
  BY Strays
<1>3. CASE message_index = 0
  <2>1. Kept = 10 * p + (d + 3) /\ d + 3 \in -5..4
    BY <1>2, <1>3 DEF Since
  <2>2. (10 * p + (d + 3) + 5) \div 10 = p
    BY <2>1, TenDiv
  <2> QED
    BY <1>3, <2>1, <2>2 DEF Bits
<1>4. CASE message_index # 0
  <2>1. Kept = 10 * (p - message_index) + (d - e) /\ d - e \in -5..4 /\ p - message_index \in Int
    BY <1>1, <1>2, <1>4 DEF Since
  <2>2. (10 * (p - message_index) + (d - e) + 5) \div 10 = p - message_index
    BY <2>1, TenDiv
  <2> QED
    BY <2>1, <2>2 DEF Bits
<1> QED
  BY <1>3, <1>4

LEMMA RunFilled ==
  ASSUME FrameTypeOK, NEW p \in 1..15, message_index < p, Steady(p), frame \in Frames,
         message = Until(message_index), Bits(Kept) = p - message_index
  PROVE  WithRun = Until(p)
<1>1. frame \subseteq 1..13
  BY FramesValid
<1>2. message_index \in 0..14 /\ pre_status \in {0, 1}
  BY DEF FrameTypeOK
<1>3. message_index + Bits(Kept) - 1 = p - 1
  BY <1>2
<1>4. \A i \in 0..14 : 14 - i \in message_index..p - 1 <=> 15 - i \in message_index + 1..p
  BY <1>2
<1>5. \A i \in 0..14 : 15 - i \in message_index + 1..p => (pre_status = 1 <=> i \in frame)
  <2> SUFFICES ASSUME NEW i \in 0..14, 15 - i \in message_index + 1..p PROVE pre_status = 1 <=> i \in frame
    OBVIOUS
  <2>1. Wire(15 - i) = pre_status
    BY DEF Steady
  <2>2. 15 - (15 - i) = i /\ ~(15 - i > 15)
    OBVIOUS
  <2> QED
    BY <2>1, <2>2 DEF Wire, Bit
<1>6. WithRun = message \cup {i \in 0..14 : pre_status = 1 /\ 15 - i \in message_index + 1..p}
  BY <1>3, <1>4 DEF WithRun
<1>7. \A i \in 0..14 : 15 - i <= p <=> 15 - i <= message_index \/ 15 - i \in message_index + 1..p
  BY <1>2
<1>8. ASSUME NEW i \in 0..14 PROVE i \in WithRun <=> i \in Until(p)
  BY <1>5, <1>6, <1>7 DEF Until
<1>9. WithRun \subseteq 0..14 /\ Until(p) \subseteq 0..14
  <2>1. 1..13 \subseteq 0..14
    OBVIOUS
  <2>2. Until(p) \subseteq 0..14 /\ message \subseteq 0..14
    BY <1>1, <2>1 DEF Until
  <2> QED
    BY <1>6, <2>2
<1> QED
  BY <1>8, <1>9

(* A sample of a line that has turned. *)
LEMMA TurningTick ==
  ASSUME Punctual, FrameTypeOK, clean, Receiving, Turning, Tick
  PROVE  Receiving' \/ Received'
<1> USE DEF Punctual
<1>1. /\ pos \in 0..15 /\ left \in Int /\ late \in Int /\ change_cnt \in 0..2 /\ message_index \in 0..14
      /\ keep_cnt \in Nat /\ pre_status \in {0, 1} /\ wrong \in Nat
  BY DisplacedBy DEF FrameTypeOK, Byte
<1>2. Place \in 1..16 /\ message_index < Place - 1 /\ (pos # 0 <=> Place \in 1..15) /\ (pos # 0 => Place = pos)
  BY <1>1 DEF Turning, Place
<1>3. PICK d \in -Early..Late, e \in -Early..Late :
         /\ keep_cnt = 10 * (Place - 1) + d + change_cnt - Since(e)
         /\ pos # 0 => left = 10 + late - d - change_cnt
  BY DEF Turning
<1>4. d \in Int /\ d <= 1 /\ late - d >= -4 /\ Since(e) \in Nat
  <2>1. late \in -Early..Late
    BY DEF FrameTypeOK
  <2> QED
    BY <2>1, Strays, SinceRange
<1>5. Level = Wire(Place) /\ Level # pre_status /\ Level \in {0, 1}
  BY <1>1, <1>2, WireLevel DEF Turning
<1>6. ~TimedOut /\ Kept = keep_cnt + 1
  <2>1. keep_cnt <= 153
    BY <1>1, <1>2, <1>3, <1>4
  <2> QED
    BY <1>1, <2>1, NoTimeOut DEF Receiving
<1>7. Samples(Level) /\ wrong' = wrong
  BY <1>5 DEF Tick, Receiving
<1>8. frame' = frame /\ pos' = pos /\ (pos # 0 => left' = left - 1 /\ late' = late)
  <2>1. frame' = frame /\ Advances
    BY AdvancesType DEF Tick
  <2>2. pos # 0 => left >= 4
    BY <1>1, <1>3, <1>4
  <2> QED
    BY <1>1, <2>1, <2>2 DEF Advances, line
<1>9. Place' = Place /\ \A p : Wire(p)' = Wire(p)
  BY <1>8 DEF Place, Wire, Bit
<1>10. (pos # 0 => LateAtEdges) => (pos' # 0 => LateAtEdges')
  BY <1>8, <1>9 DEF LateAtEdges
<1>11. CASE change_cnt < 2
  <2>1. ~Turns(Level)
    BY <1>11, <1>1 DEF Turns
  <2>2. /\ keep_cnt' = keep_cnt + 1 /\ timeout_cnt' = keep_cnt + 1
        /\ change_cnt' = change_cnt + 1
        /\ pre_status' = pre_status /\ message_index' = message_index
        /\ heard' = heard /\ message' = message /\ timer_handle' = TRUE
    BY <1>5, <1>6, <1>7, <2>1, StaySame DEF Receiving
  <2>3. Since(e)' = Since(e)
    BY <2>2 DEF Since
  <2>4. keep_cnt' = 10 * (Place' - 1) + d + change_cnt' - Since(e)'
    BY <1>1, <1>2, <1>3, <1>4, <1>9, <2>2, <2>3
  <2>5. pos' # 0 => left' = 10 + late' - d - change_cnt'
    BY <1>1, <1>3, <1>4, <1>8, <2>2
  <2>6. Steady(Place - 1)' /\ Wire(Place)' # pre_status'
    BY <1>9, <2>2 DEF Turning, Steady
  <2>7. Turning'
    BY <1>2, <1>9, <1>10, <2>2, <2>4, <2>5, <2>6 DEF Turning
  <2> QED
    BY <1>8, <2>2, <2>7 DEF Receiving
<1>12. CASE change_cnt = 2
  <2>1. Turns(Level)
    BY <1>5, <1>12 DEF Turns
  <2>2. Bits(Kept) = Place - 1 - message_index
    <3>1. Place - 1 \in Int /\ keep_cnt = 10 * (Place - 1) + d + 2 - Since(e)
      BY <1>2, <1>3, <1>12
    <3> QED
      BY <1>6, <3>1, RunCounted
  <2>3. message_index + Bits(Kept) = Place - 1
    BY <1>1, <1>2, <2>2
  <2>4. WithRun = Until(Place - 1)
    <3>1. Place - 1 \in 1..15
      BY <1>1, <1>2
    <3>2. message = Until(message_index) /\ frame \in Frames /\ Steady(Place - 1)
      BY DEF Receiving, Turning, Until
    <3> QED
      BY <1>2, <2>2, <3>1, <3>2, RunFilled
  <2>5. CASE pos # 0
    <3>1. ~Complete(Level) /\ ~Ends(Level)
      BY <1>1, <1>2, <1>6, <2>3, <2>5 DEF Complete, Ends
    <3>2. /\ keep_cnt' = 0 /\ change_cnt' = 0 /\ timeout_cnt' = 0 /\ pre_status' = Level
          /\ message_index' = Place - 1 /\ heard' = heard /\ timer_handle' = TRUE /\ message' = Until(Place - 1)
      BY <1>6, <1>7, <2>1, <2>3, <2>4, <3>1 DEF Samples, Counts, HandsOver
    <3>3. message' = {i \in frame' : 15 - i <= message_index'}
      BY <1>8, <3>2 DEF Until
    <3>4. Since(d)' = 10 * (pos - 1) + d + 3
      BY <1>1, <1>2, <1>4, <2>5, <3>2 DEF Since
    <3>5. left' = 7 + late - d /\ left' >= 1
      BY <1>1, <1>3, <1>4, <1>8, <1>12, <2>5
    <3>6. keep_cnt' = 10 * pos' + late' - left' - Since(d)'
      BY <1>1, <1>4, <1>8, <2>5, <3>2, <3>4, <3>5
    <3>7. Steady(pos)'
      BY <1>1, <1>2, <1>5, <1>8, <1>9, <2>5, <3>2 DEF Steady
    <3>8. LateAtEdges' /\ change_cnt' <= wrong' /\ pos' \in message_index' + 1..15
      BY <1>1, <1>2, <1>7, <1>8, <1>10, <2>5, <3>2 DEF Turning
    <3>9. Settled'
      BY <3>5, <3>6, <3>7, <3>8 DEF Settled
    <3> QED
      BY <1>8, <3>2, <3>3, <3>9 DEF Receiving
  <2>6. CASE pos = 0
    <3>1. Place = 16
      BY <2>6 DEF Place
    <3>2. WithRun = frame /\ Valid(frame)
      <4>1. frame \subseteq 1..13 /\ Valid(frame)
        BY FramesValid DEF Receiving
      <4>2. \A i \in 1..13 : 15 - i <= 15
        OBVIOUS
      <4>3. Until(15) = frame
        BY <4>1, <4>2 DEF Until
      <4>4. Place - 1 = 15
        BY <3>1
      <4> QED
        BY <2>4, <4>1, <4>3, <4>4
    <3>3. Complete(Level)
      BY <2>1, <2>3, <3>1 DEF Complete
    <3>4. heard' = <<frame>>
      <4>1. heard' = Append(<<>>, frame)
        BY <1>6, <1>7, <3>2, <3>3 DEF Samples, HandsOver, Receiving
      <4> QED
        BY <4>1
    <3>5. ~Falls
      BY <1>8, <2>6 DEF Falls, Level
    <3>6. ~timer_handle'
      BY <1>7, <3>3, <3>5 DEF Samples, Ends
    <3> QED
      BY <1>8, <2>6, <3>4, <3>6 DEF Received
  <2> QED
    BY <2>5, <2>6
<1> QED
  BY <1>1, <1>11, <1>12

(* A frame that finds the timer free. *)
LEMMA BeginReceives ==
  ASSUME FrameTypeOK, ~timer_handle, counters = <<0, 0, 0, 0, 0>>, Begin
  PROVE  Receiving'
<1>1. frame' \in Frames /\ pos' = 1 /\ timer_handle' = TRUE /\ message' = {} /\ heard' = <<>>
  BY DEF Begin
<1>2. keep_cnt' = 0 /\ change_cnt' = 0 /\ timeout_cnt' = 0 /\ pre_status' = 0 /\ message_index' = 0 /\ wrong' = 0
  BY DEF Begin, counters
<1>3. PICK d \in -Early..Late : late' = d /\ left' = 10 + d
  <2>1. late' \in -Early..Late
    BY Bounds DEF Begin, Displaced
  <2>2. left' = 10 + late'
    BY TenSamples DEF Begin
  <2> QED
    BY <2>1, <2>2
<1>4. d \in Int /\ d >= -4
  BY DisplacedBy
<1>5. 14 \notin frame' /\ \A i \in frame' : ~(15 - i <= 0)
  <2>1. frame' \subseteq 1..13
    BY <1>1, FramesValid
  <2> QED
    BY <2>1
<1>6. Wire(1)' = 0
  BY <1>5 DEF Wire, Bit
<1>7. Steady(pos)'
  <2>1. \A i \in 1..1 : i = 1
    OBVIOUS
  <2> QED
    BY <1>1, <1>2, <1>6, <2>1 DEF Steady
<1>8. LateAtEdges'
  <2>1. Wire(pos + 1)' = Wire(pos)' => (Bit(frame', pos' + 1) <=> Bit(frame', pos'))
    BY DEF Wire
  <2>2. (Bit(frame', pos' + 1) <=> Bit(frame', pos')) => late' = 0
    BY DEF Begin, Displaced, Bit
  <2> QED
    BY <2>1, <2>2 DEF LateAtEdges
<1>9. 0 \in -Early..Late /\ Since(0)' = 0
  BY <1>2, Bounds DEF Since
<1>10. keep_cnt' = 10 * pos' + late' - left' - Since(0)'
  BY <1>1, <1>2, <1>3, <1>4, <1>9
<1>11. left' >= 1
  BY <1>3, <1>4
<1>12. Settled'
  BY <1>1, <1>2, <1>7, <1>8, <1>9, <1>10, <1>11 DEF Settled
<1>13. message' = {i \in frame' : 15 - i <= message_index'}
  BY <1>1, <1>2, <1>5
<1> QED
  BY <1>1, <1>2, <1>12, <1>13 DEF Receiving

LEMMA InitFrame == FrameInit => FrameInv
  BY InitFrameType DEF FrameInit, FrameInv, counters

(* The timer ends with its counters at zero. *)
LEMMA NextZero ==
  ASSUME FrameInv, [FrameNext]_frame_vars PROVE ~timer_handle' => counters' = <<0, 0, 0, 0, 0>>
<1>1. CASE Begin
  BY <1>1 DEF Begin
<1>2. CASE Spike
  BY <1>2 DEF Spike
<1>3. CASE Tick
  <2>1. ASSUME NEW port, Samples(port), ~timer_handle' PROVE counters' = <<0, 0, 0, 0, 0>>
    BY <2>1 DEF Samples, Counts, counters
  <2>2. CASE ~timer_handle
    BY <1>3, <2>2 DEF Tick, FrameInv
  <2>3. CASE timer_handle
    BY <1>3, <2>1, <2>3 DEF Tick
  <2> QED
    BY <2>2, <2>3
<1>4. CASE UNCHANGED frame_vars
  BY <1>4 DEF frame_vars, FrameInv
<1> QED
  BY <1>1, <1>2, <1>3, <1>4 DEF FrameNext

LEMMA NextFrame == ASSUME Punctual, FrameInv, [FrameNext]_frame_vars PROVE FrameInv'
<1> SUFFICES ASSUME clean' PROVE Receiving' \/ Received'
  BY NextFrameType, NextZero DEF FrameInv
<1>1. CASE Begin
  <2>1. ~timer_handle
    BY <1>1 DEF Begin
  <2> QED
    BY <1>1, <2>1, BeginReceives DEF FrameInv
<1>2. CASE Spike
  BY <1>2 DEF Spike
<1>3. CASE Tick
  <2>1. clean
    BY <1>3 DEF Tick
  <2>2. ~Received
    BY <1>3 DEF Tick, Received
  <2> QED
    BY <1>3, <2>1, <2>2, SettledTick, TurningTick DEF FrameInv, Receiving
<1>4. CASE UNCHANGED frame_vars
  <2>1. clean
    BY <1>4 DEF frame_vars
  <2>2. Settled <=> Settled'
    BY <1>4 DEF frame_vars, line, counters, Settled, Steady, Wire, LateAtEdges, Since
  <2>3. Turning <=> Turning'
    BY <1>4 DEF frame_vars, line, counters, Turning, Steady, Wire, LateAtEdges, Since, Place
  <2>4. Receiving => Receiving'
    BY <1>4, <2>2, <2>3 DEF frame_vars, line, counters, Receiving
  <2>5. Received => Received'
    BY <1>4 DEF frame_vars, line, Received
  <2> QED
    BY <2>1, <2>4, <2>5 DEF FrameInv
<1> QED
  BY <1>1, <1>2, <1>3, <1>4 DEF FrameNext

(* umidigi_chargestore.c:63-127: a frame that finds the timer free is handed *)
(* over once and as it was sent, whatever frames, spikes and broken frames   *)
(* came before.                                                              *)
THEOREM FramesHeard == ASSUME Punctual PROVE FrameSpec => []HeardAsSent
<1>1. FrameInv /\ [FrameNext]_frame_vars => FrameInv'
  BY NextFrame
<1>2. FrameInv => HeardAsSent
  BY DEF FrameInv, Receiving, Received, HeardAsSent
<1> QED
  BY <1>1, <1>2, InitFrame, PTL DEF FrameSpec

-----------------------------------------------------------------------------
(* The timer of the receiver ends: a number that every step of a running   *)
(* timer makes smaller. What the line has still to come counts most; when  *)
(* it is at rest, the time-out, which one more turn to the level of rest   *)
(* may begin again.                                                        *)

MaxLeft == 10 + Early + Late

(* A spike may still be followed by a frame. *)
LineRank ==
    IF pos # 0 THEN (15 - pos) * (MaxLeft + 1) + left + 1
    ELSE IF frame = {} THEN 15 * (MaxLeft + 1) + 1 ELSE 0

CountRank == (255 - timeout_cnt) + (IF pre_status = 0 THEN 256 ELSE 0)

Rank == 512 * LineRank + CountRank

RankFalls == timer_handle /\ timer_handle' => Rank' < Rank

(* What is on the line is a frame. *)
OnLine == pos # 0 => frame # {}

(* The limit of the time-out is passed by no sample. *)
InTime == timeout_cnt < 160

LEMMA Rest15 ==
    ASSUME NEW m \in Nat, NEW p \in 0..15
    PROVE  /\ (15 - p) * (m + 1) \in Nat
           /\ p < 15 => (15 - p) * (m + 1) = (15 - (p + 1)) * (m + 1) + m + 1
<1>1. PICK n \in Nat : n = 15 - p
  OBVIOUS
<1>2. n * (m + 1) \in Nat
  OBVIOUS
<1>3. p < 15 => 15 - (p + 1) = n - 1 /\ n * (m + 1) = (n - 1) * (m + 1) + m + 1
  BY <1>1
<1> QED
  BY <1>1, <1>2, <1>3

Ranked == LineRank \in Nat /\ CountRank \in 0..511

LEMMA RankType == FrameTypeOK => Ranked
<1> SUFFICES ASSUME FrameTypeOK PROVE Ranked
  OBVIOUS
<1>1. MaxLeft \in Nat /\ pos \in 0..15 /\ left \in Nat /\ timeout_cnt \in 0..255
  BY Bounds, TenSamples DEF MaxLeft, FrameTypeOK, Byte
<1>2. (15 - pos) * (MaxLeft + 1) \in Nat
  BY <1>1, Rest15
<1>3. LineRank \in Nat
  BY <1>1, <1>2 DEF LineRank
<1>4. CountRank \in 0..511
  BY <1>1 DEF CountRank
<1> QED
  BY <1>3, <1>4 DEF Ranked

LEMMA ShorterRest ==
    ASSUME NEW m \in Nat, NEW n \in 0..m, NEW l \in Nat, NEW a \in Nat
    PROVE  a + n + 1 < a + m + 1 + l + 1 /\ 14 * (m + 1) + n + 1 < 15 * (m + 1) + 1
  OBVIOUS

LEMMA LineCountsMost ==
    ASSUME Ranked, Ranked', LineRank' < LineRank
    PROVE  Rank' < Rank
<1>1. Rank = 512 * LineRank + CountRank /\ Rank' = 512 * LineRank' + CountRank'
  BY DEF Rank
<1>2. PICK l \in Nat : l = LineRank
  BY DEF Ranked
<1>3. PICK m \in Nat : m = LineRank'
  BY DEF Ranked
<1>4. PICK c \in 0..511 : c = CountRank
  BY DEF Ranked
<1>5. PICK d \in 0..511 : d = CountRank'
  BY DEF Ranked
<1>6. m < l
  BY <1>2, <1>3
<1>7. 512 * m + d < 512 * l + c
  BY <1>6
<1> QED
  BY <1>1, <1>2, <1>3, <1>4, <1>5, <1>7

LEMMA FrameNotEmpty == \A m \in Frames : m # {}
  BY FramesValid

LEMMA NextOnLine == OnLine /\ [FrameNext]_frame_vars => OnLine'
  BY FrameNotEmpty DEF OnLine, FrameNext, Begin, Spike, Tick, Advances, frame_vars, line

(* The line goes on while there is a bit on it. *)
LEMMA LineFalls ==
    ASSUME FrameTypeOK, FrameTypeOK', OnLine, pos # 0, Advances
    PROVE  LineRank' < LineRank
<1>0. MaxLeft \in Nat /\ pos \in 1..15 /\ left \in Nat /\ frame # {}
  BY Bounds, TenSamples DEF MaxLeft, FrameTypeOK, OnLine
<1>1. left' \in 0..MaxLeft
  BY Bounds, TenSamples DEF MaxLeft, FrameTypeOK
<1>2. LineRank = (15 - pos) * (MaxLeft + 1) + left + 1
  BY DEF LineRank
<1>3. (15 - pos) * (MaxLeft + 1) \in Nat
  BY <1>0, Rest15
<1>4. CASE left > 1
  BY <1>0, <1>2, <1>3, <1>4 DEF Advances, LineRank
<1>5. CASE ~(left > 1) /\ pos = 15
  <2>1. pos' = 0 /\ frame' = frame
    BY <1>5 DEF Advances
  <2>2. LineRank' = 0
    BY <1>0, <2>1 DEF LineRank
  <2> QED
    BY <1>0, <1>2, <1>3, <2>2
<1>6. CASE ~(left > 1) /\ pos # 15
  <2>1. pos' = pos + 1
    BY <1>6 DEF Advances
  <2>2. LineRank' = (15 - (pos + 1)) * (MaxLeft + 1) + left' + 1
    BY <1>0, <2>1 DEF LineRank
  <2>3. pos < 15 /\ pos + 1 \in 0..15
    BY <1>0, <1>6
  <2> DEFINE after == (15 - (pos + 1)) * (MaxLeft + 1)
  <2>4. (15 - pos) * (MaxLeft + 1) = after + MaxLeft + 1
    BY <1>0, <2>3, Rest15
  <2>5. after \in Nat
    BY <1>0, <2>3, Rest15
  <2>6. LineRank = after + MaxLeft + 1 + left + 1 /\ LineRank' = after + left' + 1
    BY <1>2, <2>2, <2>4
  <2> HIDE DEF after
  <2> QED
    BY <1>0, <1>1, <2>5, <2>6, ShorterRest
<1> QED
  BY <1>4, <1>5, <1>6

(* At rest every sample reads 1: the timer ends, or it counts, or the run  *)
(* of 0 that the receiver believes in ends.                                *)
LEMMA RestFalls ==
    ASSUME Timer2CMessage = 20, FrameTypeOK, InTime, pos = 0, timer_handle, timer_handle', Tick
    PROVE  Rank' < Rank
<1>0. /\ timeout_cnt \in 0..159 /\ pre_status \in {0, 1}
      /\ LineRank \in Nat
  BY RankType DEF FrameTypeOK, Byte, InTime, Ranked
<1>1. UNCHANGED line /\ Level = 1 /\ Level' = 1
  BY DEF Tick, Advances, Level, line
<1>2. LineRank' = LineRank
  BY <1>1 DEF LineRank, line
<1>3. Samples(1)
  BY <1>1 DEF Tick
<1>4. ~Ends(1) /\ Counts(1)
  <2>1. ~Falls
    BY <1>1 DEF Falls
  <2>2. Counts(1) /\ timer_handle' = (~Ends(1) \/ Falls)
    BY <1>3 DEF Samples
  <2> QED
    BY <2>1, <2>2
<1>7. CASE Turns(1)
  <2>1. pre_status = 0 /\ pre_status' = 1 /\ timeout_cnt' = 0
    BY <1>0, <1>4, <1>7 DEF Counts, Turns
  <2> QED
    BY <1>0, <1>2, <2>1 DEF Rank, CountRank
<1>8. CASE ~Turns(1)
  <2>1. pre_status' = pre_status /\ timeout_cnt' = (timeout_cnt + 1) % 256
    BY <1>4, <1>8 DEF Counts
  <2>2. timeout_cnt' = timeout_cnt + 1
    BY <1>0, <2>1
  <2> QED
    BY <1>0, <1>2, <2>1, <2>2 DEF Rank, CountRank
<1> QED
  BY <1>7, <1>8

LEMMA CountsInTime ==
    ASSUME Timer2CMessage = 20, FrameTypeOK, InTime, NEW port, Counts(port)
    PROVE  InTime'
<1>1. timeout_cnt \in 0..159
  BY DEF FrameTypeOK, Byte, InTime
<1>2. CASE Ends(port) \/ Turns(port)
  BY <1>2 DEF Counts, InTime
<1>3. CASE ~Ends(port) /\ ~Turns(port)
  <2>1. timeout_cnt' = (timeout_cnt + 1) % 256
    BY <1>3 DEF Counts
  <2>2. ~((timeout_cnt + 1) % 256 >= (20 * 16) \div 2)
    BY <1>3 DEF Ends, TimedOut
  <2>3. (20 * 16) \div 2 = 160 /\ (timeout_cnt + 1) % 256 = timeout_cnt + 1
    BY <1>1
  <2> QED
    BY <1>1, <2>1, <2>2, <2>3 DEF InTime
<1> QED
  BY <1>2, <1>3

LEMMA NextInTime ==
    ASSUME Timer2CMessage = 20, FrameTypeOK, InTime, [FrameNext]_frame_vars
    PROVE  InTime'
<1>1. CASE UNCHANGED counters
  BY <1>1 DEF counters, InTime
<1>2. CASE \E port : Counts(port)
  BY <1>2, CountsInTime
<1> QED
  BY <1>1, <1>2 DEF FrameNext, Begin, Spike, Tick, Samples, frame_vars

LEMMA BeginFalls ==
    ASSUME FrameTypeOK, FrameTypeOK', timer_handle, Begin
    PROVE  LineRank' < LineRank
<1>1. pos = 0 /\ frame = {} /\ pos' = 1
  BY DEF Begin
<1>2. MaxLeft \in Nat /\ left' \in 0..MaxLeft
  BY Bounds, TenSamples DEF MaxLeft, FrameTypeOK
<1>3. LineRank = 15 * (MaxLeft + 1) + 1 /\ LineRank' = 14 * (MaxLeft + 1) + left' + 1
  <2>1. 15 - 1 = 14
    OBVIOUS
  <2> QED
    BY <1>1, <2>1 DEF LineRank
<1> QED
  BY <1>2, <1>3, ShorterRest

LEMMA NextFalls ==
    ASSUME Timer2CMessage = 20, FrameTypeOK, FrameTypeOK', Ranked, Ranked', OnLine, InTime,
           [FrameNext]_frame_vars
    PROVE  [RankFalls]_frame_vars
<1> SUFFICES ASSUME FrameNext, timer_handle, timer_handle' PROVE Rank' < Rank
  BY DEF RankFalls
<1>1. CASE Begin
  BY <1>1, BeginFalls, LineCountsMost
<1>2. CASE Spike
  BY <1>2 DEF Spike
<1>3. CASE Tick /\ pos # 0
  BY <1>3, LineFalls, LineCountsMost DEF Tick
<1>4. CASE Tick /\ pos = 0
  BY <1>4, RestFalls
<1> QED
  BY <1>1, <1>2, <1>3, <1>4 DEF FrameNext

(* What TimerEnds rests on, for any frames and any edges, spikes and wrong *)
(* samples: the line and the receiver leave a running timer only so many   *)
(* steps. With bits of 40 milliseconds it is false (the byte timeout_cnt   *)
(* does not reach the limit of 320).                                       *)
THEOREM TimerRunsOut ==
    ASSUME Timer2CMessage = 20
    PROVE  FrameSpec => [](Rank \in Nat) /\ [][RankFalls]_frame_vars
<1>1. FrameInit => OnLine /\ InTime
  BY DEF FrameInit, OnLine, InTime
<1>2. FrameTypeOK /\ InTime /\ [FrameNext]_frame_vars => InTime'
  BY NextInTime
<1>3. FrameTypeOK /\ FrameTypeOK' /\ Ranked /\ Ranked' /\ OnLine /\ InTime /\ [FrameNext]_frame_vars
        => [RankFalls]_frame_vars
  BY NextFalls
<1>4. Ranked => Rank \in Nat
  BY DEF Ranked, Rank
<1>5. FrameTypeOK /\ [FrameNext]_frame_vars => FrameTypeOK'
  BY NextFrameType
<1> QED
  BY <1>1, <1>2, <1>3, <1>4, <1>5, InitFrameType, NextOnLine, RankType, PTL DEF FrameSpec
=============================================================================
