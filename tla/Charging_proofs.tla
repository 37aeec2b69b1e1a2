-------------------------- MODULE Charging_proofs ---------------------------
(***************************************************************************)
(* A bud that charges never goes blind to the end of the charge, and the   *)
(* supply mode of an idle one follows, for every count of samples and      *)
(* every bound on the queue.                                               *)
(***************************************************************************)
EXTENDS Charging, TLAPS, SequenceTheorems

USE ChargingAssumption

(* Where the task can be in a call. *)
AtDisable == {<<"disable", "dropFull", "dropCC">>, <<"disable", "dropFull", "dropCC", "bt">>}
AtClosed == {<<"dropFull", "dropCC">>, <<"dropFull", "dropCC", "bt">>,
             <<"dropCC">>, <<"dropCC", "bt">>, <<"bt">>}
AtStart == {<<>>, <<"dropFull", "current">>, <<"current">>}
AtGo == {<<"go">>, <<"goAndCheck">>}

(* Something will look at the flag, or has found it up. *)
Watched == cc_timer \/ wake \/ Holds("full")

Types ==
    /\ level \in Level /\ queue \in Seq(Event)
    /\ enabled \in BOOLEAN /\ wake \in BOOLEAN /\ cc_timer \in BOOLEAN
    /\ todo \in AtDisable \cup AtClosed \cup AtStart \cup AtGo

(* NotBlind, carried through the steps of a call: a start watches before   *)
(* it charges, a close stops charging before it stops watching.            *)
IInv ==
    /\ Types
    /\ todo \in AtClosed => ~enabled
    /\ todo \in AtGo => Watched
    /\ enabled /\ app # "off" /\ todo \notin AtDisable => Watched

-----------------------------------------------------------------------------
LEMMA AppendHolds ==
  ASSUME queue \in Seq(Event), NEW x \in Event, NEW e,
         Holds(e) \/ x = e, queue' = Append(queue, x)
  PROVE  Holds(e)'
<1>1. CASE Holds(e)
  <2>1. PICK i \in 1..Len(queue) : queue[i] = e
    BY <1>1 DEF Holds
  <2>2. i \in 1..Len(queue') /\ queue'[i] = e
    BY <2>1
  <2> QED
    BY <2>2 DEF Holds
<1>2. CASE x = e
  <2>1. Len(queue) + 1 \in 1..Len(queue') /\ queue'[Len(queue) + 1] = e
    BY <1>2
  <2> QED
    BY <2>1 DEF Holds
<1> QED
  BY <1>1, <1>2

LEMMA TailHolds ==
  ASSUME queue \in Seq(Event), queue # <<>>, NEW e, Holds(e), Head(queue) # e,
         queue' = Tail(queue)
  PROVE  Holds(e)'
<1>1. PICK i \in 1..Len(queue) : queue[i] = e
  BY DEF Holds
<1>2. i # 1
  BY <1>1
<1>3. i - 1 \in 1..Len(queue') /\ queue'[i - 1] = e
  BY <1>1, <1>2
<1> QED
  BY <1>3 DEF Holds

LEMMA SameHolds ==
  ASSUME UNCHANGED queue, NEW e, Holds(e) PROVE Holds(e)'
  BY DEF Holds

LEMMA AppendType ==
  ASSUME queue \in Seq(Event), NEW x \in Event, queue' = Append(queue, x)
  PROVE  queue' \in Seq(Event)
  OBVIOUS

LEMMA TailType ==
  ASSUME queue \in Seq(Event), queue # <<>>, queue' = Tail(queue)
  PROVE  queue' \in Seq(Event)
  OBVIOUS

LEMMA SameWatched ==
  ASSUME UNCHANGED <<queue, wake, cc_timer>>, Watched PROVE Watched'
  BY DEF Watched, Holds

(* What a step of a call leaves to be done. *)
LEMMA Empty == <<>> \in AtStart /\ <<>> \notin AtClosed \cup AtGo \cup AtDisable
  BY DEF AtStart, AtClosed, AtGo, AtDisable

LEMMA One == ASSUME NEW a PROVE Head(<<a>>) = a /\ Tail(<<a>>) = <<>>
  OBVIOUS

LEMMA Two == ASSUME NEW a, NEW b PROVE Head(<<a, b>>) = a /\ Tail(<<a, b>>) = <<b>>
  OBVIOUS

LEMMA Three ==
  ASSUME NEW a, NEW b, NEW c
  PROVE  Head(<<a, b, c>>) = a /\ Tail(<<a, b, c>>) = <<b, c>>
  OBVIOUS

LEMMA Four ==
  ASSUME NEW a, NEW b, NEW c, NEW d
  PROVE  Head(<<a, b, c, d>>) = a /\ Tail(<<a, b, c, d>>) = <<b, c, d>>
<1> DEFINE S == {a, b, c, d}
           s == <<a, b, c, d>>
           t == <<b, c, d>>
<1>1. s \in Seq(S) /\ t \in Seq(S) /\ s # <<>> /\ Len(s) = 4 /\ Len(t) = 3
  OBVIOUS
<1>2. Tail(s) \in Seq(S) /\ Len(Tail(s)) = 3
  BY <1>1
<1>3. Tail(s)[1] = b /\ Tail(s)[2] = c /\ Tail(s)[3] = d
  BY <1>1
<1>4. \A i \in 1..Len(Tail(s)) : Tail(s)[i] = t[i]
  BY <1>2, <1>3
<1>5. Tail(s) = t
  BY <1>1, <1>2, <1>4, SeqEqual
<1> QED
  BY <1>5

LEMMA Tails ==
  ASSUME todo \in AtDisable \cup AtClosed \cup AtStart \cup AtGo, todo # <<>>
  PROVE  /\ Head(todo) = "disable" => todo \in AtDisable /\ Tail(todo) \in AtClosed
         /\ Head(todo) = "dropFull" => \/ todo \in AtClosed /\ Tail(todo) \in AtClosed
                                       \/ todo \in AtStart /\ Tail(todo) \in AtStart
         /\ Head(todo) = "dropCC" => todo \in AtClosed /\ Tail(todo) \in AtClosed \cup {<<>>}
         /\ Head(todo) = "bt" => todo \in AtClosed /\ Tail(todo) = <<>>
         /\ Head(todo) = "current" => todo \in AtStart
         /\ Head(todo) \in {"go", "goAndCheck"} => todo \in AtGo /\ Tail(todo) = <<>>
<1>1. CASE todo \in AtDisable
  <2>1. Head(todo) = "disable" /\ Tail(todo) \in {<<"dropFull", "dropCC">>, <<"dropFull", "dropCC", "bt">>}
    <3>1. CASE todo = <<"disable", "dropFull", "dropCC">>
      BY <3>1, Three
    <3>2. CASE todo = <<"disable", "dropFull", "dropCC", "bt">>
      BY <3>2, Four
    <3> QED
      BY <1>1, <3>1, <3>2 DEF AtDisable
  <2> QED
    BY <1>1, <2>1 DEF AtClosed
<1>2. CASE todo \in {<<"dropFull", "dropCC">>, <<"dropFull", "dropCC", "bt">>}
  <2>1. Head(todo) = "dropFull" /\ Tail(todo) \in {<<"dropCC">>, <<"dropCC", "bt">>}
    <3>1. CASE todo = <<"dropFull", "dropCC">>
      BY <3>1, Two
    <3>2. CASE todo = <<"dropFull", "dropCC", "bt">>
      BY <3>2, Three
    <3> QED
      BY <1>2, <3>1, <3>2
  <2> QED
    BY <1>2, <2>1 DEF AtClosed
<1>3. CASE todo \in {<<"dropCC">>, <<"dropCC", "bt">>}
  <2>1. Head(todo) = "dropCC" /\ Tail(todo) \in {<<>>, <<"bt">>}
    <3>1. CASE todo = <<"dropCC">>
      BY <3>1
    <3>2. CASE todo = <<"dropCC", "bt">>
      BY <3>2, Two
    <3> QED
      BY <1>3, <3>1, <3>2
  <2> QED
    BY <1>3, <2>1 DEF AtClosed
<1>4. CASE todo = <<"bt">>
  <2>1. Head(todo) = "bt" /\ Tail(todo) = <<>>
    BY <1>4
  <2> QED
    BY <1>4, <2>1 DEF AtClosed
<1>5. CASE todo = <<"dropFull", "current">>
  <2>1. Head(todo) = "dropFull" /\ Tail(todo) = <<"current">>
    BY <1>5, Two
  <2> QED
    BY <1>5, <2>1 DEF AtStart
<1>6. CASE todo = <<"current">>
  <2>1. Head(todo) = "current"
    BY <1>6
  <2> QED
    BY <1>6, <2>1 DEF AtStart
<1>7. CASE todo \in AtGo
  <2>1. Head(todo) \in {"go", "goAndCheck"} /\ Tail(todo) = <<>>
    <3>1. CASE todo = <<"go">>
      BY <3>1, One
    <3>2. CASE todo = <<"goAndCheck">>
      BY <3>2, One
    <3> QED
      BY <1>7, <3>1, <3>2 DEF AtGo
  <2> QED
    BY <1>7, <2>1
<1> QED
  BY <1>1, <1>2, <1>3, <1>4, <1>5, <1>6, <1>7 DEF AtClosed, AtStart

LEMMA Apart ==
  /\ AtClosed \cap AtGo = {} /\ AtClosed \cap AtDisable = {} /\ AtGo \cap AtDisable = {}
  /\ AtStart \cap AtClosed = {} /\ AtStart \cap AtGo = {} /\ AtStart \cap AtDisable = {}
  BY DEF AtDisable, AtClosed, AtStart, AtGo

(* A step that leaves the task where it is, keeps what is watched and      *)
(* starts no charge.                                                       *)
LEMMA Quiet ==
  ASSUME IInv, UNCHANGED todo, Types', enabled' => enabled,
         app' # "off" => app # "off", Watched => Watched'
  PROVE  IInv'
  BY DEF IInv

-----------------------------------------------------------------------------
LEMMA BootKeeps == ASSUME NEW l, level' \in Level, Boot(l) PROVE IInv'
<1>1. /\ queue' = <<>> /\ todo' = <<>> /\ enabled' = FALSE
      /\ wake' = FALSE /\ cc_timer' = FALSE
  BY DEF Boot
<1>2. queue' \in Seq(Event)
  BY <1>1
<1>3. Types'
  BY <1>1, <1>2, Empty DEF Types
<1> QED
  BY <1>1, <1>3, Empty DEF IInv

LEMMA DownKeeps == ASSUME IInv, PowersDown, Types' PROVE IInv'
  BY Empty DEF IInv, PowersDown

(* The battery, the lid and the contact of a bud that is on. *)
LEMMA WorldKeeps ==
  ASSUME IInv, level' \in Level, UNCHANGED <<queue, todo, enabled, wake, cc_timer, app>>
  PROVE  IInv'
<1>1. Types'
  BY DEF IInv, Types
<1> QED
  BY <1>1, SameWatched, Quiet

LEMMA ReportKeeps == ASSUME IInv, Report PROVE IInv'
<1>1. level \in Event /\ queue \in Seq(Event)
  BY DEF IInv, Types, Event
<1>2. queue' = Append(queue, level) /\ UNCHANGED <<level, todo, enabled, wake, cc_timer, app>>
  BY DEF Report, Detection!Reports, charger, timers, task
<1>3. queue' \in Seq(Event)
  BY <1>1, <1>2, AppendType
<1>4. Types'
  BY <1>2, <1>3 DEF IInv, Types
<1>5. Watched => Watched'
  BY <1>1, <1>2, AppendHolds DEF Watched
<1> QED
  BY <1>2, <1>4, <1>5, Quiet

(* charge_full_detect closes the wake-up only when it has posted the end.  *)
LEMMA DetectKeeps == ASSUME IInv, FullDetect PROVE IInv'
<1>1. UNCHANGED <<level, todo, enabled, cc_timer, app>>
  BY DEF FullDetect, contact, task
<1>2. CASE UNCHANGED <<wake, queue>>
  <2>1. Types'
    BY <1>1, <1>2 DEF IInv, Types
  <2> QED
    BY <1>1, <1>2, <2>1, SameWatched, Quiet
<1>3. CASE FullReached
  <2>1. "full" \in Event /\ queue \in Seq(Event) /\ queue' = Append(queue, "full") /\ wake' = FALSE
    BY <1>3 DEF FullReached, IInv, Types, Event
  <2>2. queue' \in Seq(Event) /\ Holds("full")'
    BY <2>1, AppendType, AppendHolds
  <2>3. Types'
    BY <1>1, <2>1, <2>2 DEF IInv, Types
  <2>4. Watched'
    BY <2>2 DEF Watched
  <2> QED
    BY <1>1, <2>3, <2>4, Quiet
<1> QED
  BY <1>2, <1>3 DEF FullDetect, FullStops, FullBreaks, FullCounts

LEMMA InterruptKeeps == ASSUME IInv, Interrupt PROVE IInv'
<1>1. CASE Settles
  BY <1>1, WorldKeeps DEF Settles, contact, charger, task, IInv, Types
<1>2. CASE CcCheck
  <2>1. UNCHANGED <<level, queue, todo, enabled, app>> /\ wake' = TRUE /\ cc_timer' = FALSE
    BY <1>2 DEF CcCheck, contact, task
  <2>2. Types'
    BY <2>1 DEF IInv, Types
  <2>3. Watched'
    BY <2>1 DEF Watched
  <2> QED
    BY <2>1, <2>2, <2>3, Quiet
<1> QED
  BY <1>1, <1>2, DetectKeeps DEF Interrupt

-----------------------------------------------------------------------------
(* The steps of the task's calls. *)

LEMMA DropFullKeeps == ASSUME IInv, DropFull PROVE IInv'
<1>1. UNCHANGED <<level, queue, enabled, wake, cc_timer, app>>
      /\ todo # <<>> /\ Head(todo) = "dropFull" /\ todo' = Tail(todo)
  BY DEF DropFull, Doing, Done, contact, charger, task
<1>2. \/ todo \in AtClosed /\ todo' \in AtClosed
      \/ todo \in AtStart /\ todo' \in AtStart
  BY <1>1, Tails DEF IInv, Types
<1>3. Types'
  BY <1>1, <1>2 DEF IInv, Types
<1>4. Watched => Watched'
  BY <1>1, SameWatched
<1> QED
  BY <1>1, <1>2, <1>3, <1>4, Apart DEF IInv

LEMMA CurrentKeeps == ASSUME IInv, Current PROVE IInv'
<1>1. UNCHANGED <<level, queue, enabled, app>> /\ todo # <<>> /\ Head(todo) = "current"
  BY DEF Current, Doing, contact, task
<1>2. todo' \in AtGo
  BY DEF Current, AtGo
<1>3. wake' \in BOOLEAN /\ cc_timer' \in BOOLEAN /\ (wake' \/ cc_timer')
  BY DEF Current, IInv, Types
<1>4. Types'
  BY <1>1, <1>2, <1>3 DEF IInv, Types
<1>5. Watched'
  BY <1>3 DEF Watched
<1> QED
  BY <1>2, <1>4, <1>5, Apart DEF IInv

LEMMA GoKeeps == ASSUME IInv, Go PROVE IInv'
<1>1. /\ todo # <<>> /\ Head(todo) \in {"go", "goAndCheck"} /\ todo' = Tail(todo)
      /\ queue' = Append(queue, "start") /\ enabled' = TRUE
      /\ UNCHANGED <<level, wake, cc_timer, app>>
  BY DEF Go, Doing, Done, contact, task
<1>2. todo \in AtGo /\ todo' = <<>>
  BY <1>1, Tails DEF IInv, Types
<1>3. "start" \in Event /\ queue \in Seq(Event)
  BY DEF IInv, Types, Event
<1>4. queue' \in Seq(Event) /\ (Holds("full") => Holds("full")')
  BY <1>1, <1>3, AppendType, AppendHolds
<1>5. Types'
  BY <1>1, <1>2, <1>4, Empty DEF IInv, Types
<1>6. Watched
  BY <1>2 DEF IInv
<1>7. Watched'
  BY <1>1, <1>4, <1>6 DEF Watched
<1> QED
  BY <1>2, <1>5, <1>7, Empty DEF IInv

LEMMA DisableKeeps == ASSUME IInv, Disable PROVE IInv'
<1>1. /\ todo # <<>> /\ Head(todo) = "disable" /\ todo' = Tail(todo)
      /\ queue' = Append(queue, "close") /\ enabled' = FALSE /\ wake' = FALSE
      /\ UNCHANGED <<level, cc_timer, app>>
  BY DEF Disable, Doing, Done, contact, timers, task
<1>2. todo' \in AtClosed
  BY <1>1, Tails DEF IInv, Types
<1>3. "close" \in Event /\ queue \in Seq(Event)
  BY DEF IInv, Types, Event
<1>4. queue' \in Seq(Event)
  BY <1>1, <1>3, AppendType
<1>5. Types'
  BY <1>1, <1>2, <1>4 DEF IInv, Types
<1> QED
  BY <1>1, <1>2, <1>5, Apart DEF IInv

LEMMA DropCCKeeps == ASSUME IInv, DropCC PROVE IInv'
<1>1. /\ todo # <<>> /\ Head(todo) = "dropCC" /\ todo' = Tail(todo)
      /\ cc_timer' = FALSE /\ UNCHANGED <<level, queue, enabled, wake, app>>
  BY DEF DropCC, Doing, Done, contact, charger, task
<1>2. todo \in AtClosed /\ todo' \in AtClosed \cup {<<>>}
  BY <1>1, Tails DEF IInv, Types
<1>3. enabled = FALSE
  BY <1>2 DEF IInv, Types
<1>4. Types'
  BY <1>1, <1>2, Empty DEF IInv, Types
<1> QED
  BY <1>1, <1>2, <1>3, <1>4, Apart, Empty DEF IInv

LEMMA ToBtKeeps == ASSUME IInv, ToBt PROVE IInv'
<1>1. /\ todo # <<>> /\ Head(todo) = "bt" /\ todo' = Tail(todo)
      /\ UNCHANGED <<level, queue, enabled, wake, cc_timer>>
  BY DEF ToBt, Doing, Done, contact, charger, timers
<1>2. todo \in AtClosed /\ todo' = <<>>
  BY <1>1, Tails DEF IInv, Types
<1>3. enabled = FALSE
  BY <1>2 DEF IInv, Types
<1>4. Types'
  BY <1>1, <1>2, Empty DEF IInv, Types
<1> QED
  BY <1>1, <1>2, <1>3, <1>4, Empty DEF IInv

-----------------------------------------------------------------------------
(* The handlers. Only FULL takes something watched away, and it closes.    *)

LEMMA TakesKeeps ==
  ASSUME IInv, NEW e, Takes(e), UNCHANGED todo, app' # "off", e # "full"
  PROVE  IInv'
<1>1. /\ queue # <<>> /\ Head(queue) = e /\ queue' = Tail(queue) /\ app # "off"
      /\ UNCHANGED <<level, enabled, wake, cc_timer>>
  BY DEF Takes, contact, charger, timers
<1>2. queue \in Seq(Event)
  BY DEF IInv, Types
<1>3. queue' \in Seq(Event) /\ (Holds("full") => Holds("full")')
  BY <1>1, <1>2, TailType, TailHolds
<1>4. Types'
  BY <1>1, <1>3 DEF IInv, Types
<1>5. Watched => Watched'
  BY <1>1, <1>3 DEF Watched
<1> QED
  BY <1>1, <1>4, <1>5, Quiet

LEMMA InDealKeeps == ASSUME IInv, InDeal PROVE IInv'
<1>1. /\ Takes("in") /\ app' # "off" /\ app # "off"
      /\ todo = <<>> /\ (todo' = todo \/ todo' = Start)
  BY DEF InDeal, Takes
<1>2. CASE todo' = todo
  BY <1>1, <1>2, TakesKeeps
<1>3. CASE todo' = Start
  <2>1. /\ queue # <<>> /\ Head(queue) = "in" /\ queue' = Tail(queue)
        /\ UNCHANGED <<level, enabled, wake, cc_timer>>
    BY <1>1 DEF Takes, contact, charger, timers
  <2>2. queue \in Seq(Event)
    BY DEF IInv, Types
  <2>3. queue' \in Seq(Event) /\ (Holds("full") => Holds("full")')
    BY <2>1, <2>2, TailType, TailHolds
  <2>4. todo' \in AtStart
    BY <1>3 DEF Start, AtStart
  <2>5. Types'
    BY <2>1, <2>3, <2>4 DEF IInv, Types
  <2>6. Watched => Watched'
    BY <2>1, <2>3 DEF Watched
  <2> QED
    BY <1>1, <2>1, <2>4, <2>5, <2>6, Apart, Empty DEF IInv
<1> QED
  BY <1>1, <1>2, <1>3

(* A handler that closes goes where nothing need be watched. *)
LEMMA CloseKeeps ==
  ASSUME IInv, NEW e, Takes(e), todo' \in AtDisable
  PROVE  IInv'
<1>1. /\ queue # <<>> /\ queue' = Tail(queue)
      /\ UNCHANGED <<level, enabled, wake, cc_timer>>
  BY DEF Takes, contact, charger, timers
<1>2. queue \in Seq(Event)
  BY DEF IInv, Types
<1>3. queue' \in Seq(Event)
  BY <1>1, <1>2, TailType
<1>4. Types'
  BY <1>1, <1>3 DEF IInv, Types
<1> QED
  BY <1>4, Apart DEF IInv

LEMMA DealsKeep == ASSUME IInv, Deals PROVE IInv'
<1>1. CASE Mode
  <2>1. PICK e \in {"start", "close"} : Takes(e)
    BY <1>1 DEF Mode
  <2>2. UNCHANGED <<todo, app>> /\ app # "off"
    BY <1>1, <2>1 DEF Mode, Takes
  <2> QED
    BY <2>1, <2>2, TakesKeeps
<1>2. CASE FullDeal
  <2>1. Takes("full") /\ todo' \in AtDisable
    BY <1>2 DEF FullDeal, Close, AtDisable
  <2> QED
    BY <2>1, CloseKeeps
<1>3. CASE KeepDeal
  <2>1. Takes("keep") /\ UNCHANGED <<todo, app>> /\ app # "off"
    BY <1>3 DEF KeepDeal, Takes
  <2> QED
    BY <2>1, TakesKeeps
<1>4. CASE OffDeal
  <2>1. Takes("off") /\ todo' = Append(Close, "bt")
    BY <1>4 DEF OffDeal
  <2>2. Append(Close, "bt") = <<"disable", "dropFull", "dropCC", "bt">>
    <3> DEFINE s == Append(<<"disable", "dropFull", "dropCC">>, "bt")
    <3> DEFINE t == <<"disable", "dropFull", "dropCC", "bt">>
    <3>1. <<"disable", "dropFull", "dropCC">> \in Seq(Step) /\ "bt" \in Step /\ t \in Seq(Step)
      BY DEF Step
    <3>2. s \in Seq(Step) /\ Len(s) = Len(t)
      BY <3>1
    <3>3. \A i \in 1..Len(s) : s[i] = t[i]
      BY <3>1
    <3>4. s = t
      BY <3>1, <3>2, <3>3, SeqEqual
    <3> QED
      BY <3>4 DEF Close
  <2>3. todo' \in AtDisable
    BY <2>1, <2>2 DEF AtDisable
  <2> QED
    BY <2>1, <2>3, CloseKeeps
<1> QED
  BY <1>1, <1>2, <1>3, <1>4, InDealKeeps DEF Deals

LEMMA LidKeeps == ASSUME IInv, OpenCase \/ CloseCase PROVE IInv'
<1>1. /\ UNCHANGED <<level, queue, todo, enabled, wake, cc_timer>>
      /\ app # "off"
  BY DEF OpenCase, CloseCase, contact, charger, timers
<1>2. Types'
  BY <1>1 DEF IInv, Types
<1> QED
  BY <1>1, <1>2, SameWatched, Quiet

LEMMA OutKeeps == ASSUME IInv, KeepDelay \/ Leave \/ Sleep PROVE IInv'
<1>0. level \in Level
  BY DEF IInv, Types
<1>1. CASE Leave
  BY <1>0, <1>1, BootKeeps DEF Leave
<1>2. CASE Sleep
  <2>1. PowersDown /\ UNCHANGED <<level, enabled, wake, cc_timer>>
    BY <1>2 DEF Sleep, contact, charger, timers
  <2>2. queue' \in Seq(Event)
    BY <2>1 DEF PowersDown
  <2>3. Types'
    BY <2>1, <2>2, Empty DEF IInv, Types, PowersDown
  <2> QED
    BY <2>1, <2>3, DownKeeps
<1>3. CASE KeepDelay
  <2>1. level' = level
    BY <1>3 DEF KeepDelay
  <2>2. CASE Boot(level)
    BY <1>0, <2>1, <2>2, BootKeeps
  <2>3. CASE PowersDown /\ enabled' = FALSE /\ cc_timer' = FALSE /\ wake' = FALSE
    <3>1. queue' \in Seq(Event)
      BY <2>3 DEF PowersDown
    <3>2. Types'
      BY <2>1, <2>3, <3>1, Empty DEF IInv, Types, PowersDown
    <3> QED
      BY <2>3, <3>2, DownKeeps
  <2> QED
    BY <1>3, <2>2, <2>3 DEF KeepDelay
<1> QED
  BY <1>1, <1>2, <1>3

LEMMA OutsideKeeps == ASSUME IInv, Changes \/ Rises \/ Falls \/ Noise \/ Lid PROVE IInv'
<1>0. level \in Level
  BY DEF IInv, Types
<1>1. CASE Changes
  <2>1. level' \in Level
    BY <1>1 DEF Changes
  <2>2. CASE Boot(level')
    BY <2>1, <2>2, BootKeeps
  <2>3. CASE UNCHANGED <<charger, timers, task, queue, todo>>
    BY <2>1, <2>3, WorldKeeps DEF charger, timers, task
  <2> QED
    BY <1>1, <2>2, <2>3 DEF Changes
<1>2. CASE Rises \/ Falls \/ Noise
  BY <1>0, <1>2, WorldKeeps DEF Rises, Falls, Noise, contact, charger, timers, task
<1>3. CASE Lid
  <2>1. level' = level
    BY <1>3 DEF Lid
  <2>2. CASE Boot(level)
    BY <1>0, <2>1, <2>2, BootKeeps
  <2>3. CASE UNCHANGED <<charger, timers, task, queue, todo>>
    BY <1>0, <2>1, <2>3, WorldKeeps DEF charger, timers, task
  <2> QED
    BY <1>3, <2>2, <2>3 DEF Lid
<1> QED
  BY <1>1, <1>2, <1>3

-----------------------------------------------------------------------------
LEMMA InitIInv == Init => IInv
<1> SUFFICES ASSUME Init PROVE IInv
  OBVIOUS
<1>1. queue = <<>> /\ todo = <<>> /\ enabled = FALSE /\ wake = FALSE /\ cc_timer = FALSE
      /\ level \in Level
  BY DEF Init
<1>2. queue \in Seq(Event)
  BY <1>1
<1>3. Types
  BY <1>1, <1>2, Empty DEF Types
<1> QED
  BY <1>1, <1>3, Empty DEF IInv

LEMMA StepsKeep == ASSUME IInv, Steps PROVE IInv'
  BY DropFullKeeps, CurrentKeeps, GoKeeps, DisableKeeps, DropCCKeeps, ToBtKeeps DEF Steps

LEMMA NextKeeps == IInv /\ [Next]_vars => IInv'
<1> SUFFICES ASSUME IInv, [Next]_vars PROVE IInv'
  OBVIOUS
<1>1. CASE UNCHANGED vars
  <2>1. UNCHANGED <<level, queue, todo, enabled, wake, cc_timer, app>>
    BY <1>1 DEF vars, contact, charger, timers, task
  <2> QED
    BY <2>1, WorldKeeps DEF IInv, Types
<1>2. CASE Next
  BY <1>2, OutsideKeeps, ReportKeeps, InterruptKeeps, StepsKeep, DealsKeep, LidKeeps, OutKeeps DEF Next
<1> QED
  BY <1>1, <1>2

(* A bud that charges can always find out that its battery is full:        *)
(* charge_start, charge_close and the interrupts between their steps never *)
(* leave it charging with the detection closed.                            *)
THEOREM NeverBlind == Spec => []NotBlind
<1>1. IInv => NotBlind
  <2>1. <<>> \notin AtDisable
    BY Empty
  <2> QED
    BY <2>1 DEF IInv, NotBlind, Watched
<1> QED
  BY <1>1, InitIInv, NextKeeps, PTL DEF Spec

-----------------------------------------------------------------------------
(* The supply mode of an idle bud: the last START or CLOSE still to be      *)
(* handled says whether it charges, or there is none and the mode agrees.   *)
TellsMode == {"start", "close"}
Told(q, m, on) ==
    \/ (\A i \in 1..Len(q) : q[i] \notin TellsMode) /\ (m = "ldo") = on
    \/ \E i \in 1..Len(q) :
        /\ q[i] \in TellsMode /\ (q[i] = "start") = on
        /\ \A j \in i+1..Len(q) : q[j] \notin TellsMode
ModeInv == app = "idle" => Told(queue, mode, enabled)

LEMMA NothingTold == Told(<<>>, "low", FALSE)
  BY DEF Told

LEMMA AppendOther ==
  ASSUME NEW q \in Seq(Event), NEW x \in Event \ TellsMode, NEW m, NEW on, Told(q, m, on)
  PROVE  Told(Append(q, x), m, on)
<1> DEFINE s == Append(q, x)
<1>1. Len(s) = Len(q) + 1 /\ Len(q) \in Nat /\ s[Len(q) + 1] = x /\ \A i \in 1..Len(q) : s[i] = q[i]
  OBVIOUS
<1> HIDE DEF s
<1>2. CASE (\A i \in 1..Len(q) : q[i] \notin TellsMode) /\ (m = "ldo") = on
  <2>1. \A i \in 1..Len(s) : s[i] \notin TellsMode
    BY <1>1, <1>2
  <2> QED
    BY <1>2, <2>1 DEF Told, s
<1>3. CASE \E i \in 1..Len(q) :
            /\ q[i] \in TellsMode /\ (q[i] = "start") = on
            /\ \A j \in i+1..Len(q) : q[j] \notin TellsMode
  <2>1. PICK i \in 1..Len(q) :
            /\ q[i] \in TellsMode /\ (q[i] = "start") = on
            /\ \A j \in i+1..Len(q) : q[j] \notin TellsMode
    BY <1>3
  <2>2. i \in 1..Len(s) /\ s[i] = q[i]
    BY <1>1
  <2>3. \A j \in i+1..Len(s) : s[j] \notin TellsMode
    BY <1>1, <2>1
  <2> QED
    BY <2>1, <2>2, <2>3 DEF Told, s
<1> QED
  BY <1>2, <1>3 DEF Told

LEMMA AppendMode ==
  ASSUME NEW q \in Seq(Event), NEW x \in TellsMode, NEW m, NEW on, (x = "start") = on
  PROVE  Told(Append(q, x), m, on)
<1> DEFINE s == Append(q, x)
<1>1. Len(s) = Len(q) + 1 /\ Len(q) \in Nat /\ s[Len(q) + 1] = x
  BY DEF TellsMode, Event
<1> HIDE DEF s
<1>2. Len(s) \in 1..Len(s) /\ s[Len(s)] = x /\ \A j \in Len(s)+1..Len(s) : s[j] \notin TellsMode
  BY <1>1
<1> QED
  BY <1>2 DEF Told, s

LEMMA TailOther ==
  ASSUME NEW q \in Seq(Event), q # <<>>, NEW m, NEW on, Told(q, m, on),
         NEW n, Head(q) \notin TellsMode => n = m,
         Head(q) \in TellsMode => (n = "ldo") = (Head(q) = "start")
  PROVE  Told(Tail(q), n, on)
<1> DEFINE s == Tail(q)
<1>1. Len(s) = Len(q) - 1 /\ Len(q) \in Nat /\ Head(q) = q[1] /\ \A i \in 1..Len(s) : s[i] = q[i + 1]
  OBVIOUS
<1> HIDE DEF s
<1>2. CASE (\A i \in 1..Len(q) : q[i] \notin TellsMode) /\ (m = "ldo") = on
  <2>1. 1 \in 1..Len(q) /\ \A i \in 1..Len(s) : i + 1 \in 1..Len(q)
    BY <1>1
  <2>2. n = m /\ \A i \in 1..Len(s) : s[i] \notin TellsMode
    BY <1>1, <1>2, <2>1
  <2> QED
    BY <1>2, <2>2 DEF Told, s
<1>3. CASE \E i \in 1..Len(q) :
            /\ q[i] \in TellsMode /\ (q[i] = "start") = on
            /\ \A j \in i+1..Len(q) : q[j] \notin TellsMode
  <2>1. PICK i \in 1..Len(q) :
            /\ q[i] \in TellsMode /\ (q[i] = "start") = on
            /\ \A j \in i+1..Len(q) : q[j] \notin TellsMode
    BY <1>3
  <2>2. \A k \in i..Len(s) : s[k] \notin TellsMode
    <3>1. \A k \in i..Len(s) : k \in 1..Len(s) /\ k + 1 \in i+1..Len(q)
      BY <1>1
    <3> QED
      BY <1>1, <2>1, <3>1
  <2>3. CASE i = 1
    <3>1. (n = "ldo") = on
      BY <1>1, <2>1, <2>3
    <3> QED
      BY <2>2, <2>3, <3>1 DEF Told, s
  <2>4. CASE i # 1
    <3>1. i - 1 \in 1..Len(s) /\ s[i - 1] = q[i] /\ i - 1 + 1 = i
      BY <1>1, <2>4
    <3> QED
      BY <2>1, <2>2, <3>1 DEF Told, s
  <2> QED
    BY <2>3, <2>4
<1> QED
  BY <1>2, <1>3 DEF Told

LEMMA SameMode ==
  ASSUME ModeInv, app' = "idle" => app = "idle", UNCHANGED <<queue, mode, enabled>>
  PROVE  ModeInv'
  BY DEF ModeInv, Told

LEMMA BootMode == ASSUME NEW l, Boot(l) PROVE ModeInv'
<1>1. queue' = <<>> /\ mode' = "low" /\ enabled' = FALSE
  BY DEF Boot
<1> QED
  BY <1>1, NothingTold DEF ModeInv, Told

LEMMA OutsideMode == ASSUME ModeInv, Changes \/ Rises \/ Falls \/ Noise \/ Lid PROVE ModeInv'
<1>1. CASE \E l : Boot(l)
  BY <1>1, BootMode
<1>2. CASE UNCHANGED <<charger, timers, task, queue, todo>>
  BY <1>2, SameMode DEF charger, task
<1> QED
  BY <1>1, <1>2 DEF Changes, Rises, Falls, Noise, Lid

(* What is posted beside START and CLOSE. *)
LEMMA PostMode ==
  ASSUME IInv, ModeInv, NEW x \in Event \ TellsMode, queue' = Append(queue, x),
         UNCHANGED <<app, mode, enabled>>
  PROVE  ModeInv'
<1>1. queue \in Seq(Event)
  BY DEF IInv, Types
<1> QED
  BY <1>1, AppendOther DEF ModeInv, Told

LEMMA InterruptMode == ASSUME IInv, ModeInv, Report \/ Interrupt PROVE ModeInv'
<1>1. CASE Report
  <2>1. level \in Event \ TellsMode
    BY DEF IInv, Types, Level, Event, TellsMode
  <2>2. queue' = Append(queue, level) /\ UNCHANGED <<app, mode, enabled>>
    BY <1>1 DEF Report, charger, task
  <2> QED
    BY <2>1, <2>2, PostMode
<1>2. CASE FullDetect /\ FullReached
  <2>1. "full" \in Event \ TellsMode
    BY DEF Event, TellsMode
  <2>2. queue' = Append(queue, "full") /\ UNCHANGED <<app, mode, enabled>>
    BY <1>2 DEF FullDetect, FullReached, task
  <2> QED
    BY <2>1, <2>2, PostMode
<1>3. CASE Settles \/ CcCheck \/ (FullDetect /\ UNCHANGED queue)
  BY <1>3, SameMode DEF Settles, CcCheck, FullDetect, charger, task
<1> QED
  BY <1>1, <1>2, <1>3 DEF Interrupt, FullDetect, FullStops, FullBreaks, FullCounts

LEMMA StepsMode == ASSUME IInv, ModeInv, Steps PROVE ModeInv'
<1>0. queue \in Seq(Event)
  BY DEF IInv, Types
<1>1. CASE DropFull \/ Current \/ DropCC
  BY <1>1, SameMode DEF DropFull, Current, DropCC, charger, task
<1>2. CASE ToBt
  <2>1. (app' = "idle" => app = "idle") /\ UNCHANGED <<queue, mode, enabled>>
    BY <1>2 DEF ToBt, charger
  <2> QED
    BY <2>1, SameMode
<1>3. CASE Go
  <2>1. queue' = Append(queue, "start") /\ enabled' = TRUE
    BY <1>3 DEF Go
  <2>2. Told(Append(queue, "start"), mode', TRUE)
    BY <1>0, AppendMode DEF TellsMode
  <2> QED
    BY <2>1, <2>2 DEF ModeInv, Told
<1>4. CASE Disable
  <2>1. queue' = Append(queue, "close") /\ enabled' = FALSE
    BY <1>4 DEF Disable
  <2>2. Told(Append(queue, "close"), mode', FALSE)
    BY <1>0, AppendMode DEF TellsMode
  <2> QED
    BY <2>1, <2>2 DEF ModeInv, Told
<1> QED
  BY <1>1, <1>2, <1>3, <1>4 DEF Steps

(* A handler sets the mode as its event says, or leaves it. *)
LEMMA TakesMode ==
  ASSUME IInv, ModeInv, NEW e, Takes(e), app' = "idle" => app = "idle",
         e \notin TellsMode => mode' = mode, e \in TellsMode => (mode' = "ldo") = (e = "start")
  PROVE  ModeInv'
<1>1. queue \in Seq(Event) /\ queue # <<>> /\ Head(queue) = e /\ queue' = Tail(queue) /\ enabled' = enabled
  BY DEF IInv, Types, Takes, charger
<1>2. ASSUME Told(queue, mode, enabled) PROVE Told(Tail(queue), mode', enabled)
  BY <1>1, <1>2, TailOther
<1> QED
  BY <1>1, <1>2 DEF ModeInv, Told

LEMMA DealsMode == ASSUME IInv, ModeInv, Deals PROVE ModeInv'
<1>1. CASE Mode
  <2>1. UNCHANGED app
    BY <1>1 DEF Mode
  <2> QED
    BY <1>1, <2>1, TakesMode DEF Mode, TellsMode
<1>2. CASE FullDeal
  BY <1>2, TakesMode DEF FullDeal, TellsMode
<1>3. CASE KeepDeal
  BY <1>3, TakesMode DEF KeepDeal, TellsMode
<1>4. CASE InDeal
  BY <1>4, TakesMode DEF InDeal, TellsMode
<1>5. CASE OffDeal
  BY <1>5, TakesMode DEF OffDeal, TellsMode
<1> QED
  BY <1>1, <1>2, <1>3, <1>4, <1>5 DEF Deals

LEMMA WaysMode == ASSUME ModeInv, OpenCase \/ CloseCase \/ KeepDelay \/ Leave \/ Sleep PROVE ModeInv'
<1>1. CASE OpenCase \/ CloseCase \/ Sleep
  BY <1>1 DEF OpenCase, CloseCase, Sleep, PowersDown, ModeInv
<1>2. CASE Leave
  BY <1>2, BootMode DEF Leave
<1>3. CASE KeepDelay
  <2>1. CASE PowersDown
    BY <2>1 DEF PowersDown, ModeInv
  <2> QED
    BY <1>3, <2>1, BootMode DEF KeepDelay
<1> QED
  BY <1>1, <1>2, <1>3

LEMMA NextMode == IInv /\ ModeInv /\ [Next]_vars => ModeInv'
<1> SUFFICES ASSUME IInv, ModeInv, [Next]_vars PROVE ModeInv'
  OBVIOUS
<1>1. CASE UNCHANGED vars
  BY <1>1, SameMode DEF vars, charger, task
<1>2. CASE Next
  BY <1>2, OutsideMode, InterruptMode, StepsMode, DealsMode, WaysMode DEF Next
<1> QED
  BY <1>1, <1>2

(* An idle bud that has handled its events is fed through the LDO exactly  *)
(* while it charges: no order of START, CLOSE and FULL around the handlers *)
(* of app_charge.c leaves power_set_mode behind.                           *)
THEOREM ModeAlwaysFollows == Spec => []ModeFollows
<1>1. Init => ModeInv
  <2> SUFFICES ASSUME Init PROVE ModeInv
    OBVIOUS
  <2>1. queue = <<>> /\ mode = "low" /\ enabled = FALSE
    BY DEF Init
  <2> QED
    BY <2>1, NothingTold DEF ModeInv
<1>2. ModeInv => ModeFollows
  <2> SUFFICES ASSUME ModeInv, ~Holds("start"), ~Holds("close"), app = "idle"
               PROVE  (mode = "ldo") = enabled
    BY DEF ModeFollows
  <2>1. \A i \in 1..Len(queue) : queue[i] \notin TellsMode
    BY DEF Holds, TellsMode
  <2> QED
    BY <2>1 DEF ModeInv, Told
<1> QED
  BY <1>1, <1>2, InitIInv, NextKeeps, NextMode, PTL DEF Spec
-----------------------------------------------------------------------------
(* What Types leaves out of TypeOK. *)
Rest ==
    /\ reported \in Level \cup {"none"}
    /\ volt \in BOOLEAN /\ topped \in BOOLEAN /\ noise \in BOOLEAN /\ lid \in BOOLEAN /\ filtered \in BOOLEAN
    /\ current \in {"trickle", "cc"} /\ charge_timer \in BOOLEAN
    /\ charge_full_cnt \in 0..FullCount
    /\ app \in {"idle", "bt", "leaving", "off"}
    /\ charge_full_flag \in BOOLEAN /\ ldo5v_keep_timer \in BOOLEAN /\ mode \in {"ldo", "low"}
    /\ monitor \in BOOLEAN

LEMMA CallsAreSteps == AtDisable \cup AtClosed \cup AtStart \cup AtGo \subseteq Seq(Step)
  BY DEF AtDisable, AtClosed, AtStart, AtGo, Step

LEMMA FlagType == ASSUME Types, Rest, NEW on \in BOOLEAN PROVE Flag(on) \in BOOLEAN
  BY DEF Types, Rest, Flag

LEMMA BootRest ==
  ASSUME Rest, NEW l, Boot(l), volt' \in BOOLEAN, topped' \in BOOLEAN, noise' \in BOOLEAN, lid' \in BOOLEAN
  PROVE  Rest'
<1>1. 0 \in 0..FullCount
  OBVIOUS
<1>2. reported' \in Level \cup {"none"} /\ app' \in {"idle", "bt", "leaving", "off"}
  BY DEF Boot, Level
<1> QED
  BY <1>1, <1>2 DEF Rest, Boot

LEMMA OutsideRest == ASSUME Types, Rest, Changes \/ Rises \/ Falls \/ Noise \/ Lid \/ Report PROVE Rest'
<1>1. CASE Changes
  <2>1. CASE Boot(level')
    BY <1>1, <2>1, BootRest DEF Changes, Rest
  <2>2. CASE UNCHANGED <<reported, filtered, charger, timers, task, queue, todo>>
    <3>1. volt' \in BOOLEAN /\ topped' \in BOOLEAN /\ noise' \in BOOLEAN /\ lid' \in BOOLEAN
      BY <1>1 DEF Changes, Rest
    <3> QED
      BY <2>2, <3>1 DEF Rest, charger, timers, task
  <2> QED
    BY <1>1, <2>1, <2>2 DEF Changes
<1>2. CASE Lid
  <2>1. CASE Boot(level)
    BY <1>2, <2>1, BootRest DEF Lid, Rest
  <2>2. CASE UNCHANGED <<reported, filtered, charger, timers, task, queue, todo>>
    BY <1>2, <2>2 DEF Lid, Rest, charger, timers, task
  <2> QED
    BY <1>2, <2>1, <2>2 DEF Lid
<1>3. CASE Rises \/ Falls \/ Noise
  <2>1. volt' \in BOOLEAN /\ topped' \in BOOLEAN /\ noise' \in BOOLEAN
    <3>1. CASE Rises
      BY <3>1 DEF Rises, Rest
    <3>2. CASE Falls
      BY <3>2 DEF Falls, Rest
    <3>3. CASE Noise
      BY <3>3 DEF Noise, Rest
    <3> QED
      BY <1>3, <3>1, <3>2, <3>3
  <2>2. /\ UNCHANGED <<reported, lid, filtered, current, charge_timer, charge_full_cnt>>
        /\ UNCHANGED <<app, charge_full_flag, ldo5v_keep_timer, mode, monitor>>
    BY <1>3 DEF Rises, Falls, Noise, contact, charger, timers, task
  <2> QED
    BY <2>1, <2>2 DEF Rest
<1>4. CASE Report
  <2>1. reported' = level /\ UNCHANGED <<battery, filtered, charger, timers, task>>
    BY <1>4 DEF Report, Detection!Reports
  <2>2. /\ UNCHANGED <<volt, topped, noise, lid, filtered, current, charge_timer, charge_full_cnt>>
        /\ UNCHANGED <<app, charge_full_flag, ldo5v_keep_timer, mode, monitor>>
    BY <2>1 DEF battery, charger, timers, task
  <2> QED
    BY <2>1, <2>2 DEF Types, Rest
<1> QED
  BY <1>1, <1>2, <1>3, <1>4

LEMMA DetectRest == ASSUME Types, Rest, FullDetect PROVE Rest'
<1>1. charge_full_cnt' \in 0..FullCount
  <2>0. 0 \in 0..FullCount /\ charge_full_cnt \in 0..FullCount
    BY DEF Rest
  <2>1. CASE charge_full_cnt' = 0
    BY <2>0, <2>1
  <2>2. CASE charge_full_cnt < FullCount /\ charge_full_cnt' = charge_full_cnt + 1
    BY <2>0, <2>2
  <2> QED
    BY <2>1, <2>2 DEF FullDetect, FullStops, FullBreaks, FullCounts, FullReached
<1>2. charge_timer' \in BOOLEAN
  BY DEF FullDetect, FullStops, FullBreaks, FullCounts, FullReached, Rest
<1> QED
  BY <1>1, <1>2 DEF FullDetect, Rest, contact, battery, task

LEMMA InterruptRest == ASSUME Types, Rest, Interrupt PROVE Rest'
<1>1. CASE Settles
  <2>1. filtered' \in BOOLEAN
    BY <1>1, FlagType DEF Settles, Types
  <2>2. charge_timer' \in BOOLEAN
    BY <1>1, <2>1 DEF Settles, Types, Rest
  <2> QED
    BY <1>1, <2>1, <2>2 DEF Settles, Rest, contact, battery, charger, task
<1>2. CASE CcCheck
  BY <1>2 DEF CcCheck, Rest, contact, battery, task
<1> QED
  BY <1>1, <1>2, DetectRest DEF Interrupt

LEMMA StepsRest == ASSUME Types, Rest, Steps PROVE Rest'
<1>1. CASE DropFull
  <2>1. charge_timer' = FALSE /\ UNCHANGED <<contact, battery, filtered, charger, charge_full_cnt, task>>
    BY <1>1 DEF DropFull
  <2>2. /\ UNCHANGED <<reported, volt, topped, noise, lid, filtered, current, charge_full_cnt>>
        /\ UNCHANGED <<app, charge_full_flag, ldo5v_keep_timer, mode, monitor>>
    BY <2>1 DEF contact, battery, charger, task
  <2>3. charge_timer' \in BOOLEAN
    BY <2>1
  <2> QED
    BY <2>2, <2>3 DEF Rest
<1>2. CASE Current
  <2>1. current' \in {"trickle", "cc"}
    BY <1>2 DEF Current
  <2>2. UNCHANGED <<contact, battery, filtered, charge_timer, charge_full_cnt, task>>
    BY <1>2 DEF Current
  <2>3. /\ UNCHANGED <<reported, volt, topped, noise, lid, filtered, charge_timer, charge_full_cnt>>
        /\ UNCHANGED <<app, charge_full_flag, ldo5v_keep_timer, mode, monitor>>
    BY <2>2 DEF contact, battery, task
  <2> QED
    BY <2>1, <2>3 DEF Rest
<1>3. CASE Go
  <2>1. charge_timer' \in BOOLEAN
    BY <1>3, FlagType DEF Go, Rest
  <2>2. UNCHANGED <<contact, battery, filtered, current, charge_full_cnt, task>>
    BY <1>3 DEF Go
  <2>3. /\ UNCHANGED <<reported, volt, topped, noise, lid, filtered, current, charge_full_cnt>>
        /\ UNCHANGED <<app, charge_full_flag, ldo5v_keep_timer, mode, monitor>>
    BY <2>2 DEF contact, battery, task
  <2> QED
    BY <2>1, <2>3 DEF Rest
<1>4. CASE Disable
  <2>1. UNCHANGED <<contact, battery, filtered, current, timers, task>>
    BY <1>4 DEF Disable
  <2>2. /\ UNCHANGED <<reported, volt, topped, noise, lid, filtered, current, charge_timer, charge_full_cnt>>
        /\ UNCHANGED <<app, charge_full_flag, ldo5v_keep_timer, mode, monitor>>
    BY <2>1 DEF contact, battery, timers, task
  <2> QED
    BY <2>2 DEF Rest
<1>5. CASE DropCC
  <2>1. UNCHANGED <<contact, battery, filtered, charger, charge_timer, charge_full_cnt, task>>
    BY <1>5 DEF DropCC
  <2>2. /\ UNCHANGED <<reported, volt, topped, noise, lid, filtered, current, charge_timer, charge_full_cnt>>
        /\ UNCHANGED <<app, charge_full_flag, ldo5v_keep_timer, mode, monitor>>
    BY <2>1 DEF contact, battery, charger, task
  <2> QED
    BY <2>2 DEF Rest
<1>6. CASE ToBt
  <2>1. app' \in {"idle", "bt", "leaving", "off"} /\ monitor' \in BOOLEAN
    BY <1>6 DEF ToBt, Rest
  <2> QED
    BY <1>6, <2>1 DEF ToBt, Rest, contact, battery, charger, timers
<1> QED
  BY <1>1, <1>2, <1>3, <1>4, <1>5, <1>6 DEF Steps

LEMMA DealsRest == ASSUME Types, Rest, Deals PROVE Rest'
<1>1. UNCHANGED <<contact, battery, filtered, charger, timers>>
  BY DEF Deals, Mode, FullDeal, KeepDeal, InDeal, OffDeal, Takes
<1>2. /\ app' \in {"idle", "bt", "leaving", "off"} /\ mode' \in {"ldo", "low"}
      /\ charge_full_flag' \in BOOLEAN /\ ldo5v_keep_timer' \in BOOLEAN
  BY DEF Deals, Mode, FullDeal, KeepDeal, InDeal, OffDeal, Rest
<1>3. monitor' \in BOOLEAN
  <2>1. CASE FullDeal
    BY <2>1 DEF FullDeal, Rest
  <2>2. CASE Mode \/ KeepDeal \/ InDeal \/ OffDeal
    BY <2>2 DEF Mode, KeepDeal, InDeal, OffDeal, Rest
  <2> QED
    BY <2>1, <2>2 DEF Deals
<1> QED
  BY <1>1, <1>2, <1>3 DEF Rest, contact, battery, charger, timers

LEMMA WaysRest == ASSUME Types, Rest, OpenCase \/ CloseCase \/ KeepDelay \/ Leave \/ Sleep PROVE Rest'
<1>1. CASE OpenCase \/ CloseCase \/ Sleep
  BY <1>1 DEF OpenCase, CloseCase, Sleep, PowersDown, Rest, contact, battery, charger, timers
<1>2. CASE Leave
  BY <1>2, BootRest DEF Leave, Rest, battery
<1>3. CASE KeepDelay
  <2>1. CASE Boot(level)
    BY <1>3, <2>1, BootRest DEF KeepDelay, Rest, battery
  <2>2. CASE ~Boot(level)
    BY <1>3, <2>2 DEF KeepDelay, PowersDown, Rest, battery
  <2> QED
    BY <2>1, <2>2
<1> QED
  BY <1>1, <1>2, <1>3

LEMMA InitRest == Init => Rest
<1>1. 0 \in 0..FullCount
  OBVIOUS
<1> QED
  BY <1>1 DEF Init, Rest, Level

LEMMA NextRest == Types /\ Rest /\ [Next]_vars => Rest'
<1> SUFFICES ASSUME Types, Rest, [Next]_vars PROVE Rest'
  OBVIOUS
<1>1. CASE UNCHANGED vars
  BY <1>1 DEF vars, Rest, contact, battery, charger, timers, task
<1>2. CASE Next
  BY <1>2, OutsideRest, InterruptRest, StepsRest, DealsRest, WaysRest DEF Next
<1> QED
  BY <1>1, <1>2

(* The variables of a charging bud keep their types: the task is always in *)
(* one of the calls of charge.c, and charge_full_cnt never passes the      *)
(* count at which charge_full_detect posts the end.                        *)
THEOREM ChargingTypeCorrect == Spec => []TypeOK
<1>1. IInv => Types
  BY DEF IInv
<1>2. Types /\ Rest => TypeOK
  BY CallsAreSteps DEF Types, Rest, TypeOK
<1> QED
  BY <1>1, <1>2, InitIInv, NextKeeps, InitRest, NextRest, PTL DEF Spec

-----------------------------------------------------------------------------
(* The trickle timer runs only for a bud that charges, but while           *)
(* charge_start has yet to switch the charger on and while charge_close    *)
(* has yet to come to its second deletion.                                 *)
Trickles == cc_timer => enabled \/ todo = <<"go">> \/ todo \in AtClosed \ {<<"bt">>}

(* Closed for good: nothing is left to do, and charging is off. *)
Closed == ~enabled /\ todo = <<>>

(* While charging is closed the trickle timer is off, and charge_timer may *)
(* stop but never starts.                                                  *)
NothingStarts == Closed => ~cc_timer /\ (charge_timer' => charge_timer)

LEMMA BootTrickles == ASSUME NEW l, Boot(l) PROVE Trickles'
  BY DEF Boot, Trickles

LEMMA SameTrickles == ASSUME Trickles, UNCHANGED <<cc_timer, enabled, todo>> PROVE Trickles'
  BY DEF Trickles

LEMMA AllowedHeads ==
  /\ <<"go">> \notin AtStart /\ <<>> # <<"go">> /\ <<>> \notin AtClosed
  /\ \A a \in AtClosed \ {<<"bt">>} : a # <<>> /\ Head(a) \in {"dropFull", "dropCC"}
<1>1. <<"go">> \notin AtStart /\ <<>> # <<"go">> /\ <<>> \notin AtClosed
  BY Apart, Empty DEF AtStart, AtGo
<1>2. ASSUME NEW a \in AtClosed \ {<<"bt">>} PROVE a # <<>> /\ Head(a) \in {"dropFull", "dropCC"}
  <2>1. a \in {<<"dropFull", "dropCC">>, <<"dropFull", "dropCC", "bt">>, <<"dropCC">>, <<"dropCC", "bt">>}
    BY DEF AtClosed
  <2>2. a # <<>>
    BY <2>1
  <2> QED
    BY <2>1, <2>2, One, Two, Three
<1> QED
  BY <1>1, <1>2

(* What the first deletion of charge_close leaves. *)
LEMMA AfterDropFull ==
  ASSUME todo \in AtClosed, todo # <<>>, Head(todo) = "dropFull"
  PROVE  Tail(todo) \in AtClosed \ {<<"bt">>}
<1>1. todo \in {<<"dropFull", "dropCC">>, <<"dropFull", "dropCC", "bt">>}
  <2>1. Head(<<"dropCC">>) = "dropCC" /\ Head(<<"dropCC", "bt">>) = "dropCC" /\ Head(<<"bt">>) = "bt"
    BY One, Two
  <2> QED
    BY <2>1 DEF AtClosed
<1>2. Tail(todo) \in {<<"dropCC">>, <<"dropCC", "bt">>}
  <2>1. CASE todo = <<"dropFull", "dropCC">>
    BY <2>1, Two
  <2>2. CASE todo = <<"dropFull", "dropCC", "bt">>
    BY <2>2, Three
  <2> QED
    BY <1>1, <2>1, <2>2
<1>3. <<"dropCC">> # <<"bt">> /\ <<"dropCC", "bt">> # <<"bt">>
  OBVIOUS
<1> QED
  BY <1>2, <1>3 DEF AtClosed

LEMMA AfterDisable ==
  ASSUME todo \in AtDisable PROVE Tail(todo) \in AtClosed \ {<<"bt">>}
<1>1. Tail(todo) \in {<<"dropFull", "dropCC">>, <<"dropFull", "dropCC", "bt">>}
  <2>1. CASE todo = <<"disable", "dropFull", "dropCC">>
    BY <2>1, Three
  <2>2. CASE todo = <<"disable", "dropFull", "dropCC", "bt">>
    BY <2>2, Four
  <2> QED
    BY <2>1, <2>2 DEF AtDisable
<1>2. <<"dropFull", "dropCC">> # <<"bt">> /\ <<"dropFull", "dropCC", "bt">> # <<"bt">>
  OBVIOUS
<1> QED
  BY <1>1, <1>2 DEF AtClosed

LEMMA StepsTrickle == ASSUME Types, Trickles, Steps PROVE Trickles'
<1>1. CASE DropFull
  <2>1. todo # <<>> /\ Head(todo) = "dropFull" /\ todo' = Tail(todo) /\ UNCHANGED <<cc_timer, enabled>>
    BY <1>1 DEF DropFull, Doing, Done, charger
  <2>2. CASE todo \in AtClosed
    BY <2>1, <2>2, AfterDropFull DEF Trickles
  <2>3. CASE todo \notin AtClosed
    <3>1. todo # <<"go">>
      BY <2>1, One
    <3> QED
      BY <2>1, <2>3, <3>1 DEF Trickles
  <2> QED
    BY <2>2, <2>3
<1>2. CASE Current
  <2>1. todo # <<>> /\ Head(todo) = "current" /\ UNCHANGED enabled
    BY <1>2 DEF Current, Doing
  <2>2. todo # <<"go">> /\ todo \notin AtClosed
    BY <2>1, Tails, Apart, One DEF Types
  <2>3. CASE volt
    <3>1. UNCHANGED <<cc_timer, enabled>>
      BY <1>2, <2>3 DEF Current
    <3>2. cc_timer => enabled
      BY <2>2 DEF Trickles
    <3> QED
      BY <3>1, <3>2 DEF Trickles
  <2>4. CASE ~volt
    BY <1>2, <2>4 DEF Current, Trickles
  <2> QED
    BY <2>3, <2>4
<1>3. CASE Go
  BY <1>3 DEF Go, Trickles
<1>4. CASE Disable
  <2>1. todo # <<>> /\ Head(todo) = "disable" /\ todo' = Tail(todo)
    BY <1>4 DEF Disable, Doing, Done
  <2>2. todo \in AtDisable
    BY <2>1, Tails DEF Types
  <2> QED
    BY <2>1, <2>2, AfterDisable DEF Trickles
<1>5. CASE DropCC
  BY <1>5 DEF DropCC, Trickles
<1>6. CASE ToBt
  <2>1. /\ todo # <<>> /\ Head(todo) = "bt" /\ UNCHANGED <<cc_timer, enabled>>
    BY <1>6 DEF ToBt, Doing, charger, timers
  <2>2. todo # <<"go">> /\ todo \notin AtClosed \ {<<"bt">>}
    BY <2>1, One, AllowedHeads
  <2> QED
    BY <2>1, <2>2 DEF Trickles
<1> QED
  BY <1>1, <1>2, <1>3, <1>4, <1>5, <1>6 DEF Steps

(* A handler begins with nothing to do, when the timer means charging. *)
LEMMA DealsTrickle == ASSUME Trickles, Deals PROVE Trickles'
<1>1. todo = <<>> /\ UNCHANGED <<cc_timer, enabled>>
  BY DEF Deals, Mode, FullDeal, KeepDeal, InDeal, OffDeal, Takes, charger, timers
<1>2. cc_timer => enabled
  BY <1>1, AllowedHeads DEF Trickles
<1> QED
  BY <1>1, <1>2 DEF Trickles

LEMMA WaysTrickle == ASSUME Trickles, OpenCase \/ CloseCase \/ KeepDelay \/ Leave \/ Sleep PROVE Trickles'
<1>1. CASE OpenCase \/ CloseCase
  BY <1>1, SameTrickles DEF OpenCase, CloseCase, charger, timers
<1>2. CASE Sleep
  BY <1>2 DEF Sleep, Trickles, timers
<1>3. CASE Leave \/ KeepDelay
  BY <1>3, BootTrickles DEF Leave, KeepDelay, Trickles
<1> QED
  BY <1>1, <1>2, <1>3

LEMMA OutsideTrickle ==
  ASSUME Trickles, Changes \/ Rises \/ Falls \/ Noise \/ Lid \/ Report PROVE Trickles'
<1>1. CASE \E l : Boot(l)
  BY <1>1, BootTrickles
<1>2. CASE UNCHANGED <<charger, timers, todo>>
  BY <1>2, SameTrickles DEF charger, timers
<1> QED
  BY <1>1, <1>2 DEF Changes, Rises, Falls, Noise, Lid, Report

LEMMA InterruptTrickles == ASSUME Trickles, Interrupt PROVE Trickles'
  BY DEF Interrupt, Settles, FullDetect, CcCheck, Trickles, charger

LEMMA NextTrickles == Types /\ Trickles /\ [Next]_vars => Trickles'
<1> SUFFICES ASSUME Types, Trickles, [Next]_vars PROVE Trickles'
  OBVIOUS
<1>1. CASE UNCHANGED vars
  BY <1>1, SameTrickles DEF vars, charger, timers
<1>2. CASE Next
  BY <1>2, OutsideTrickle, InterruptTrickles, StepsTrickle, DealsTrickle, WaysTrickle DEF Next
<1> QED
  BY <1>1, <1>2

(* A closed charger that starts a timer would have to be in charge_start,  *)
(* to have the trickle timer still running, or to see the flag rise.       *)
LEMMA ClosedStarts == Types /\ Trickles /\ [Next]_vars => NothingStarts
<1> SUFFICES ASSUME Types, Trickles, [Next]_vars, Closed
             PROVE  ~cc_timer /\ (charge_timer' => charge_timer)
  BY DEF NothingStarts
<1>1. ~cc_timer
  BY AllowedHeads DEF Closed, Trickles
<1>2. CASE UNCHANGED charge_timer
  BY <1>1, <1>2
<1>3. CASE \E l : Boot(l)
  BY <1>1, <1>3 DEF Boot
<1>4. CASE Settles
  <2>1. filtered' = FALSE
    BY <1>4 DEF Settles, Flag, Closed, Types
  <2> QED
    BY <1>1, <1>4, <2>1 DEF Settles
<1>5. CASE FullDetect
  BY <1>1, <1>5 DEF FullDetect
<1>6. CASE CcCheck
  BY <1>1, <1>6 DEF CcCheck
<1>7. CASE Steps
  BY <1>7 DEF Steps, DropFull, Current, Go, Disable, DropCC, ToBt, Doing, Closed
<1>8. CASE KeepDelay
  BY <1>1, <1>8 DEF KeepDelay, Boot
<1>9. CASE Changes \/ Rises \/ Falls \/ Noise \/ Lid \/ Report
  BY <1>2, <1>3, <1>9 DEF Changes, Rises, Falls, Noise, Lid, Report, timers
<1>10. CASE Deals \/ OpenCase \/ CloseCase \/ Leave \/ Sleep
  BY <1>2, <1>3, <1>10 DEF Deals, Mode, FullDeal, KeepDeal, InDeal, OffDeal, Takes,
                           OpenCase, CloseCase, Leave, Sleep, timers
<1>11. CASE UNCHANGED vars
  BY <1>2, <1>11 DEF vars, timers
<1> QED
  BY <1>4, <1>5, <1>6, <1>7, <1>8, <1>9, <1>10, <1>11 DEF Next, Interrupt

(* What ClosedGoesQuiet rests on: once charge_close has ended, no          *)
(* interrupt brings back a timer it deleted, charge_cc_check between the   *)
(* two deletions included. At most charge_timer is left over, and it can   *)
(* only stop.                                                              *)
THEOREM ClosedStaysQuiet == Spec => [][NothingStarts]_vars
<1>1. Init => Trickles
  BY DEF Init, Trickles
<1>2. IInv => Types
  BY DEF IInv
<1> QED
  BY <1>1, <1>2, InitIInv, NextKeeps, NextTrickles, ClosedStarts, PTL DEF Spec
=============================================================================
