-------------------------- MODULE PowerOff_proofs ---------------------------
(***************************************************************************)
(* A power-off cannot get stuck, for any number of buds and any bounds: a  *)
(* bud that is to power off always has its timer or, once it is idle,      *)
(* something to come that ends it.                                         *)
(***************************************************************************)
EXTENDS PowerOff, TLAPS

USE PowerOffAssumption

Types ==
    /\ app \in [Bud -> App] /\ flag \in [Bud -> 0..2]
    /\ timer \in [Bud -> {"none", "same", "exit"}]
    /\ handle \in [Bud -> BOOLEAN]
    /\ delay \in [Bud -> BOOLEAN] /\ tone \in [Bud -> BOOLEAN]
    /\ queue \in [Bud -> Seq(Message)] /\ calls \subseteq Call

-----------------------------------------------------------------------------
(* Facts about queues. *)
Has(q, m) == \E i \in 1..Len(q) : q[i] = m

LEMMA AppendHas ==
  ASSUME NEW q \in Seq(Message), NEW x \in Message, NEW m, Has(q, m) \/ x = m
  PROVE  Has(Append(q, x), m)
<1>1. CASE Has(q, m)
  <2>1. PICK i \in 1..Len(q) : q[i] = m
    BY <1>1 DEF Has
  <2> QED
    BY <2>1 DEF Has
<1>2. CASE x = m
  <2>1. Append(q, x)[Len(q) + 1] = m /\ Len(q) + 1 \in 1..Len(Append(q, x))
    BY <1>2
  <2> QED
    BY <2>1 DEF Has
<1> QED
  BY <1>1, <1>2

LEMMA TailHas ==
  ASSUME NEW q \in Seq(Message), q # <<>>, NEW m, Has(q, m), Head(q) # m
  PROVE  Has(Tail(q), m)
<1>1. PICK i \in 1..Len(q) : q[i] = m
  BY DEF Has
<1>2. i # 1
  BY <1>1
<1>3. i - 1 \in 1..Len(Tail(q)) /\ Tail(q)[i - 1] = m
  BY <1>1, <1>2
<1> QED
  BY <1>3 DEF Has

LEMMA TailInSeq ==
  ASSUME NEW q \in Seq(Message), q # <<>> PROVE Tail(q) \in Seq(Message)
  OBVIOUS

LEMMA HoldsHas == \A b : \A m : Holds(b, m) <=> Has(queue[b], m)
  BY DEF Holds, Has

-----------------------------------------------------------------------------
(* What is true of each bud at every step: the timer runs exactly while a  *)
(* bud in Bluetooth mode is to power off, a bud that is down has nothing   *)
(* left of it, and a bud whose tone was called has left the other.         *)
Sound(b) ==
    /\ ~Up(b) => flag[b] = 0 /\ ~delay[b]
    /\ handle[b] => flag[b] # 0
    /\ timer[b] # "none" <=> app[b] = "bt" /\ flag[b] # 0
    /\ app[b] = "idle" /\ flag[b] = 0 => ~delay[b]
    /\ linked => flag[b] # 2

Stuck(b) == app[b] = "idle" /\ flag[b] # 0 /\ ~EndComes(b)

IInv == Types /\ \A b \in Bud : Sound(b) /\ ~Stuck(b)

(* What a step of bud b leaves as it is at every other bud d. *)
Spares(d) ==
    /\ app'[d] = app[d] /\ flag'[d] = flag[d] /\ timer'[d] = timer[d]
    /\ handle'[d] = handle[d] /\ delay'[d] = delay[d] /\ tone'[d] = tone[d]
    /\ queue'[d] = queue[d]
    /\ OwnTone(d) \in calls => OwnTone(d) \in calls'

LEMMA InitSound == Init => IInv
<1> SUFFICES ASSUME Init PROVE IInv
  OBVIOUS
<1>1. Types
  BY DEF Init, Types, App, Call
<1>2. ASSUME NEW b \in Bud PROVE Sound(b) /\ ~Stuck(b)
  BY DEF Init, Sound, Stuck, Up
<1> QED
  BY <1>1, <1>2 DEF IInv

(* It is enough to look at the bud that moves. *)
LEMMA OnlyOne ==
  ASSUME IInv, NEW b \in Bud, Types', linked' => linked,
         \A d \in Bud \ {b} : Spares(d),
         Sound(b)', ~Stuck(b)'
  PROVE  IInv'
<1>1. ASSUME NEW d \in Bud \ {b} PROVE Sound(d)' /\ ~Stuck(d)'
  <2>1. Spares(d) /\ Sound(d) /\ ~Stuck(d)
    BY DEF IInv
  <2>2. Sound(d)'
    BY <2>1 DEF Spares, Sound, Up
  <2>3. EndComes(d) => EndComes(d)'
    BY <2>1 DEF Spares, EndComes, Holds, OwnTone
  <2>4. ~Stuck(d)'
    BY <2>1, <2>3 DEF Spares, Stuck
  <2> QED
    BY <2>2, <2>4
<1> QED
  BY <1>1 DEF IInv

LEMMA EndsKeeps ==
  ASSUME IInv, NEW b \in Bud, NEW how \in {"off", "reset"}, Ends(b, how)
  PROVE  IInv'
<1> USE DEF Ends, Fresh, Breaks
<1>1. Types'
  BY DEF IInv, Types, App, Call
<1>2. ASSUME NEW d \in Bud \ {b} PROVE Spares(d)
  BY DEF IInv, Types, Spares, OwnTone
<1>3. Sound(b)' /\ ~Stuck(b)'
  BY DEF IInv, Types, Sound, Stuck, Up
<1> QED
  BY <1>1, <1>2, <1>3, OnlyOne

-----------------------------------------------------------------------------
(* Steps of the task and its timers that leave the queues of the other     *)
(* buds alone. Each proof has the same three parts.                        *)

LEMMA ConsumeKeeps ==
  ASSUME Types, NEW b \in Bud, queue[b] # <<>>, Consume(b)
  PROVE  /\ queue' \in [Bud -> Seq(Message)]
         /\ \A d \in Bud \ {b} : queue'[d] = queue[d]
<1>1. queue[b] \in Seq(Message)
  BY DEF Types
<1>2. Tail(queue[b]) \in Seq(Message)
  BY <1>1, TailInSeq
<1>3. queue \in [Bud -> Seq(Message)] /\ queue' = [queue EXCEPT ![b] = Tail(@)]
  BY DEF Types, Consume
<1>4. ASSUME NEW S, Tail(queue[b]) \in S, queue \in [Bud -> S]
      PROVE  queue' \in [Bud -> S]
  BY <1>3, <1>4
<1> QED
  BY <1>2, <1>3, <1>4

LEMMA RequestKeeps ==
  ASSUME IInv, NEW b \in Bud, app[b] = "bt",
         (\E one \in BOOLEAN : PowerOffAlone(b, one)) \/ PowerOffSameTime(b),
         app' = app, tone' = tone,
         delay' = delay \/ delay' = [delay EXCEPT ![b] = FALSE],
         queue' = queue \/ (queue[b] # <<>> /\ Consume(b))
  PROVE  IInv'
<1> USE DEF PowerOffAlone, PowerOffSameTime, flow, link, Breaks
<1>1. queue' \in [Bud -> Seq(Message)] /\ \A d \in Bud \ {b} : queue'[d] = queue[d]
  BY ConsumeKeeps DEF IInv, Types
<1>2. Types'
  <2>1. app' \in [Bud -> App] /\ tone' \in [Bud -> BOOLEAN] /\ delay' \in [Bud -> BOOLEAN]
    BY DEF IInv, Types
  <2>2. flag' \in [Bud -> 0..2]
    BY DEF IInv, Types
  <2>4. handle' \in [Bud -> BOOLEAN]
    BY DEF IInv, Types
  <2>5. calls' \subseteq Call
    BY DEF IInv, Types
  <2>3. timer' \in [Bud -> {"none", "same", "exit"}]
    BY DEF IInv, Types
  <2> QED
    BY <1>1, <2>1, <2>2, <2>3, <2>4, <2>5 DEF Types
<1>3. ASSUME NEW d \in Bud \ {b} PROVE Spares(d)
  BY <1>1 DEF IInv, Types, Spares, OwnTone
<1>4. Sound(b)'
  BY DEF IInv, Types, Sound, Up
<1>5. ~Stuck(b)'
  BY DEF Stuck
<1> QED
  BY <1>2, <1>3, <1>4, <1>5, OnlyOne

LEMMA IdleMainKeeps ==
  ASSUME IInv, NEW b \in Bud, IdleMain(b), app[b] = "bt", flag[b] # 0
  PROVE  IInv'
<1>1. CASE SoftOff(b)
  BY <1>1, EndsKeeps DEF SoftOff
<1>2. CASE ~SoftOff(b)
  <2> USE <1>2 DEF IdleMain, link
  <2>1. Types'
    <3>1. app' \in [Bud -> App] /\ timer' \in [Bud -> {"none", "same", "exit"}]
      BY DEF IInv, Types, App
    <3>2. tone' \in [Bud -> BOOLEAN]
      BY DEF IInv, Types
    <3>4. queue' \in [Bud -> Seq(Message)]
      <4>1. <<>> \in Seq(Message) /\ queue' = [queue EXCEPT ![b] = <<>>]
        OBVIOUS
      <4> QED
        BY <4>1 DEF IInv, Types
    <3>3. flag' = flag /\ handle' = handle /\ delay' = delay /\ calls' = calls
      BY DEF IInv, Types
    <3> QED
      BY <3>1, <3>2, <3>3, <3>4 DEF IInv, Types
  <2>2. ASSUME NEW d \in Bud \ {b} PROVE Spares(d)
    BY DEF IInv, Types, Spares
  <2>3. Sound(b)' /\ ~Stuck(b)'
    BY DEF IInv, Types, Sound, Stuck, EndComes, Up
  <2> QED
    BY <2>1, <2>2, <2>3, OnlyOne
<1> QED
  BY <1>1, <1>2

LEMMA IdlePowerOffKeeps ==
  ASSUME IInv, NEW b \in Bud, IdlePowerOff(b), app[b] = "bt", flag[b] = 1
  PROVE  IInv'
<1> USE DEF IdlePowerOff, SyncCall
<1>1. Types'
  BY DEF IInv, Types, App, Call
<1>2. ASSUME NEW d \in Bud \ {b} PROVE Spares(d)
  BY DEF IInv, Types, Spares
<1>3. Sound(b)'
  BY DEF IInv, Types, Sound, Up
<1>4. OwnTone(b) \in calls' /\ flag'[b] = 1
  BY DEF OwnTone
<1>5. ~Stuck(b)'
  BY <1>4 DEF Stuck, EndComes, OwnTone
<1> QED
  BY <1>1, <1>2, <1>3, <1>5, OnlyOne

LEMMA WaitsKeeps ==
  ASSUME IInv, NEW b \in Bud, Waits(b) PROVE IInv'
<1>1. CASE Ends(b, "reset")
  BY <1>1, EndsKeeps
<1>2. CASE ~Ends(b, "reset")
  <2>1. app' = app /\ flag' = flag /\ timer' = timer /\ handle' = handle
    BY <1>2 DEF Waits
  <2>2. delay' = delay /\ tone' = tone /\ queue' = queue
    BY <1>2 DEF Waits
  <2>3. calls' = calls /\ linked' = linked
    BY <1>2 DEF Waits, link
  <2>4. Types'
    BY <2>1, <2>2, <2>3 DEF IInv, Types
  <2>5. ASSUME NEW d \in Bud PROVE Spares(d)
    BY <2>1, <2>2, <2>3 DEF Spares
  <2>6. Sound(b)'
    BY <2>1, <2>2, <2>3 DEF IInv, Sound, Up
  <2>7. ~Stuck(b)'
    BY <2>1, <2>2, <2>3 DEF IInv, Stuck, EndComes, Holds, OwnTone
  <2> QED
    BY <2>3, <2>4, <2>5, <2>6, <2>7, OnlyOne
<1> QED
  BY <1>1, <1>2

LEMMA HciResetKeeps ==
  ASSUME IInv, NEW b \in Bud, HciReset(b) PROVE IInv'
<1> USE DEF HciReset, flow, Breaks
<1>1. Types'
  BY DEF IInv, Types, Call
<1>2. ASSUME NEW d \in Bud PROVE Spares(d)
  BY DEF IInv, Types, Spares, OwnTone
<1>3. Sound(b)'
  BY DEF IInv, Types, Sound, Up
<1>4. EndComes(b) => EndComes(b)'
  BY <1>2 DEF Spares, EndComes, Holds, OwnTone
<1>5. ~Stuck(b)'
  BY <1>4 DEF IInv, Stuck
<1> QED
  BY <1>1, <1>2, <1>3, <1>5, OnlyOne

LEMMA TickKeeps ==
  ASSUME IInv, NEW b \in Bud, Tick(b) PROVE IInv'
<1>1. app[b] = "bt" /\ flag[b] # 0 /\ (linked => flag[b] = 1)
  BY DEF Tick, PowerOffAtSameTime, WaitExitBtstack, IInv, Types, Sound
<1>2. CASE PowerOffAtSameTime(b)
  BY <1>1, <1>2, WaitsKeeps, HciResetKeeps, IdlePowerOffKeeps, IdleMainKeeps
     DEF PowerOffAtSameTime
<1>3. CASE WaitExitBtstack(b)
  BY <1>1, <1>3, WaitsKeeps, EndsKeeps, IdleMainKeeps DEF WaitExitBtstack
<1> QED
  BY <1>2, <1>3 DEF Tick

-----------------------------------------------------------------------------
(* The messages. What is consumed is not what a stuck bud would need.      *)

LEMMA DropKeeps ==
  ASSUME IInv, NEW b \in Bud, queue[b] # <<>>, Consume(b),
         app' = app, timer' = timer, handle' = handle, tone' = tone,
         flag' = flag, UNCHANGED link,
         delay' = delay \/ (app[b] = "bt" /\ delay' = [delay EXCEPT ![b] = TRUE]),
         app[b] = "idle" /\ flag[b] # 0 => Head(queue[b]) \notin {"tone", "toneEnd"}
  PROVE  IInv'
<1>1. /\ queue' \in [Bud -> Seq(Message)]
      /\ \A d \in Bud \ {b} : queue'[d] = queue[d]
  BY ConsumeKeeps DEF IInv
<1>2. calls' = calls /\ linked' = linked
  BY DEF link
<1>3. delay' \in [Bud -> BOOLEAN]
  BY DEF IInv, Types
<1>4. Types'
  BY <1>1, <1>2, <1>3 DEF IInv, Types
<1>5. ASSUME NEW d \in Bud \ {b} PROVE Spares(d)
  BY <1>1, <1>2 DEF IInv, Types, Spares
<1>6. Sound(b)'
  BY <1>2 DEF IInv, Types, Sound, Up
<1>7. ASSUME app[b] = "idle", flag[b] # 0 PROVE EndComes(b)'
  <2>1. EndComes(b)
    BY <1>7 DEF IInv, Stuck
  <2>2. queue'[b] = Tail(queue[b]) /\ queue[b] \in Seq(Message)
    BY DEF Consume, IInv, Types
  <2>3. ASSUME NEW m \in {"tone", "toneEnd"}, Has(queue[b], m)
        PROVE  Has(queue'[b], m)
    BY <1>7, <2>2, <2>3, TailHas
  <2> QED
    BY <1>2, <2>1, <2>3 DEF EndComes, Holds, Has, OwnTone
<1>8. ~Stuck(b)'
  BY <1>7 DEF Stuck
<1> QED
  BY <1>2, <1>4, <1>5, <1>6, <1>8, OnlyOne

LEMMA ToneComesKeeps ==
  ASSUME IInv, NEW b \in Bud, Up(b), ToneComes(b) PROVE IInv'
<1> USE DEF ToneComes, Received, Breaks
<1>1. /\ queue' \in [Bud -> Seq(Message)]
      /\ \A d \in Bud \ {b} : queue'[d] = queue[d]
  BY ConsumeKeeps DEF IInv
<1>2. app' = app /\ timer' = timer /\ handle' = handle /\ delay' = delay
  OBVIOUS
<1>3. flag' \in [Bud -> 0..2] /\ calls' \subseteq Call
  BY DEF IInv, Types
<1>4. tone' \in [Bud -> BOOLEAN]
  BY DEF IInv, Types
<1>5. Types'
  BY <1>1, <1>2, <1>3, <1>4 DEF IInv, Types
<1>6. ASSUME NEW d \in Bud \ {b} PROVE Spares(d)
  BY <1>1, <1>2 DEF IInv, Types, Spares, OwnTone
<1>7. linked' = FALSE /\ flag'[b] = (IF flag[b] = 1 THEN 2 ELSE flag[b])
  BY DEF IInv, Types
<1>8. Sound(b)'
  BY <1>2, <1>7 DEF IInv, Types, Sound, Up
<1>9. ASSUME app[b] = "idle", flag[b] # 0 PROVE EndComes(b)'
  <2>1. CASE flag[b] = 1
    BY <2>1 DEF IInv, Types, EndComes
  <2>2. CASE flag[b] # 1
    <3>1. tone[b] \/ Has(queue[b], "toneEnd")
      BY <1>9, <2>2 DEF IInv, Stuck, EndComes, Holds, Has
    <3>2. queue'[b] = Tail(queue[b]) /\ queue[b] \in Seq(Message)
      BY DEF Consume, IInv, Types
    <3>3. Has(queue[b], "toneEnd") => Has(queue'[b], "toneEnd")
      BY <3>2, TailHas
    <3>4. tone'[b] = tone[b]
      BY <2>2 DEF IInv, Types
    <3> QED
      BY <3>1, <3>3, <3>4 DEF EndComes, Holds, Has
  <2> QED
    BY <2>1, <2>2
<1>10. ~Stuck(b)'
  BY <1>2, <1>7, <1>9 DEF Stuck
<1> QED
  BY <1>5, <1>6, <1>7, <1>8, <1>10, OnlyOne

LEMMA LdoOffKeeps ==
  ASSUME IInv, NEW b \in Bud, Up(b), LdoOff(b) PROVE IInv'
<1>1. queue[b] # <<>> /\ Head(queue[b]) = "out"
  BY DEF LdoOff, Received
<1>2. CASE Ends(b, "off")
  BY <1>2, EndsKeeps
<1>3. CASE Consume(b) /\ UNCHANGED <<app, flow, delay, tone, link, world>>
  BY <1>1, <1>3, DropKeeps DEF flow, link
<1>4. CASE /\ app[b] = "idle" /\ flag[b] = 0 /\ app' = [app EXCEPT ![b] = "bt"]
           /\ Consume(b) /\ UNCHANGED <<flow, delay, tone, link, world>>
  <2>1. /\ queue' \in [Bud -> Seq(Message)]
        /\ \A d \in Bud \ {b} : queue'[d] = queue[d]
    BY <1>1, <1>4, ConsumeKeeps DEF IInv
  <2>2. /\ flag' = flag /\ timer' = timer /\ handle' = handle /\ delay' = delay
        /\ tone' = tone /\ calls' = calls /\ linked' = linked
    BY <1>4 DEF flow, link
  <2>3. app' \in [Bud -> App]
    BY <1>4 DEF IInv, Types, App
  <2>4. Types'
    BY <2>1, <2>2, <2>3 DEF IInv, Types
  <2>5. ASSUME NEW d \in Bud \ {b} PROVE Spares(d)
    BY <1>4, <2>1, <2>2 DEF IInv, Types, Spares
  <2>6. Sound(b)' /\ ~Stuck(b)'
    BY <1>4, <2>2 DEF IInv, Types, Sound, Stuck, Up
  <2> QED
    BY <2>2, <2>4, <2>5, <2>6, OnlyOne
<1> QED
  BY <1>2, <1>3, <1>4 DEF LdoOff

LEMMA LdoInKeeps ==
  ASSUME IInv, NEW b \in Bud, Up(b), LdoIn(b) PROVE IInv'
<1>1. queue[b] # <<>> /\ Head(queue[b]) = "in"
  BY DEF LdoIn, Received
<1>2. CASE Ends(b, "reset")
  BY <1>2, EndsKeeps
<1>3. CASE app[b] = "bt" /\ PowerOffAlone(b, TRUE)
           /\ delay' = [delay EXCEPT ![b] = FALSE]
           /\ Consume(b) /\ UNCHANGED <<app, tone, world>>
  BY <1>1, <1>3, RequestKeeps
<1>4. CASE \/ Consume(b) /\ UNCHANGED <<app, flow, delay, tone, link, world>>
           \/ /\ app[b] = "bt" /\ delay' = [delay EXCEPT ![b] = TRUE]
              /\ Consume(b) /\ UNCHANGED <<app, flow, tone, link, world>>
  BY <1>1, <1>4, DropKeeps DEF flow, link
<1> QED
  BY <1>2, <1>3, <1>4 DEF LdoIn

LEMMA HandleKeeps ==
  ASSUME IInv, NEW b \in Bud, Handle(b) PROVE IInv'
<1>1. CASE TogetherComes(b)
  <2>1. queue[b] # <<>> /\ Head(queue[b]) = "together"
    BY <1>1 DEF TogetherComes, Received
  <2>2. CASE app[b] = "bt"
    BY <1>1, <2>1, <2>2, RequestKeeps DEF TogetherComes, world
  <2>3. CASE app[b] # "bt"
    BY <1>1, <2>1, <2>3, DropKeeps DEF TogetherComes, flow
  <2> QED
    BY <2>2, <2>3
<1>2. CASE ToneEndComes(b)
  <2>1. CASE app[b] = "idle" /\ flag[b] # 0
    BY <1>2, <2>1, EndsKeeps DEF ToneEndComes, SoftOff
  <2>2. CASE ~(app[b] = "idle" /\ flag[b] # 0)
    BY <1>2, <2>2, DropKeeps DEF ToneEndComes, Received, flow
  <2> QED
    BY <2>1, <2>2
<1> QED
  BY <1>1, <1>2, ToneComesKeeps, LdoInKeeps, LdoOffKeeps DEF Handle

-----------------------------------------------------------------------------
(* The steps around the task. *)

LEMMA ResetDelayKeeps ==
  ASSUME IInv, NEW b \in Bud, ResetDelay(b) PROVE IInv'
<1>1. CASE app[b] = "bt"
  BY <1>1, RequestKeeps DEF ResetDelay
<1>2. CASE app[b] # "bt"
  <2>1. flag[b] # 0
    BY <1>2 DEF ResetDelay, IInv, Sound, Up
  <2>2. /\ app' = app /\ flag' = flag /\ timer' = timer /\ handle' = handle
        /\ tone' = tone /\ queue' = queue /\ calls' = calls /\ linked' = linked
        /\ delay' = [delay EXCEPT ![b] = FALSE]
    BY <2>1 DEF ResetDelay, PowerOffAlone, flow, link
  <2>3. delay' \in [Bud -> BOOLEAN]
    BY <2>2 DEF IInv, Types
  <2>4. Types'
    BY <2>2, <2>3 DEF IInv, Types
  <2>5. ASSUME NEW d \in Bud \ {b} PROVE Spares(d)
    BY <2>2 DEF IInv, Types, Spares
  <2>6. Sound(b)' /\ ~Stuck(b)'
    BY <2>2 DEF IInv, Types, Sound, Stuck, EndComes, Holds, OwnTone, Up
  <2> QED
    BY <2>2, <2>4, <2>5, <2>6, OnlyOne
<1> QED
  BY <1>1, <1>2

(* Nothing changes but the calls, of which each bud keeps its own, and the *)
(* link, which comes up only when no power-off is going on.                *)
LEMMA LinkKeeps ==
  ASSUME IInv, UNCHANGED <<app, flow, delay, tone, queue>>,
         calls' \subseteq Call,
         \A d \in Bud : OwnTone(d) \in calls => OwnTone(d) \in calls',
         linked' => linked \/ \A d \in Bud : flag[d] = 0
  PROVE  IInv'
<1>1. app' = app /\ flag' = flag /\ timer' = timer /\ handle' = handle
  BY DEF flow
<1>2. delay' = delay /\ tone' = tone /\ queue' = queue
  OBVIOUS
<1>3. Types'
  BY <1>1, <1>2 DEF IInv, Types
<1>4. ASSUME NEW d \in Bud PROVE Sound(d)'
  BY <1>1, <1>2 DEF IInv, Sound, Up
<1>5. ASSUME NEW d \in Bud PROVE ~Stuck(d)'
  BY <1>1, <1>2 DEF IInv, Stuck, EndComes, Holds, OwnTone
<1> QED
  BY <1>3, <1>4, <1>5 DEF IInv

LEMMA FadeKeeps ==
  ASSUME IInv, Breaks(calls), UNCHANGED <<app, flow, delay, tone, queue>>
  PROVE  IInv'
<1>1. calls' \subseteq Call
  BY DEF Breaks, IInv, Types
<1>2. ASSUME NEW d \in Bud, OwnTone(d) \in calls PROVE OwnTone(d) \in calls'
  BY <1>2 DEF Breaks, OwnTone
<1> QED
  BY <1>1, <1>2, LinkKeeps DEF Breaks

(* A message is added to the queue of a bud that is up; a call that is     *)
(* delivered becomes one.                                                  *)
LEMMA AppendKeeps ==
  ASSUME IInv, NEW b \in Bud, NEW m \in Message, Up(b),
         queue' = [queue EXCEPT ![b] = Append(@, m)],
         UNCHANGED <<app, flow, delay, linked>>,
         tone' = tone \/ (m = "toneEnd" /\ tone' = [tone EXCEPT ![b] = FALSE]),
         calls' = calls \/ \E c \in calls : c.to = b /\ c.what = m /\ calls' = calls \ {c}
  PROVE  IInv'
<1>1. /\ app' = app /\ flag' = flag /\ timer' = timer /\ handle' = handle
      /\ delay' = delay /\ linked' = linked
  BY DEF flow
<1>2. queue[b] \in Seq(Message) /\ queue \in [Bud -> Seq(Message)]
  BY DEF IInv, Types
<1>3. queue' \in [Bud -> Seq(Message)]
  <2>1. Append(queue[b], m) \in Seq(Message)
    BY <1>2
  <2> QED
    BY <1>2, <2>1
<1>4. tone' \in [Bud -> BOOLEAN]
  BY DEF IInv, Types
<1>5. Types'
  BY <1>1, <1>3, <1>4 DEF IInv, Types
<1>6. ASSUME NEW d \in Bud \ {b} PROVE Spares(d)
  BY <1>1, <1>2 DEF IInv, Types, Spares, OwnTone
<1>7. Sound(b)'
  BY <1>1 DEF IInv, Sound, Up
<1>8. queue'[b] = Append(queue[b], m)
  BY <1>2
<1>9. ASSUME NEW x, Has(queue[b], x) \/ x = m PROVE Has(queue'[b], x)
  BY <1>2, <1>8, <1>9, AppendHas
<1>10. EndComes(b) => EndComes(b)'
  <2>1. CASE Holds(b, "toneEnd")
    BY <1>9, <2>1 DEF EndComes, Holds, Has
  <2>2. CASE tone[b]
    BY <1>9, <2>2 DEF EndComes, Holds, Has
  <2>3. CASE flag[b] = 1 /\ Holds(b, "tone")
    BY <1>1, <1>9, <2>3 DEF EndComes, Holds, Has
  <2>4. CASE flag[b] = 1 /\ OwnTone(b) \in calls
    <3>1. OwnTone(b) \in calls' \/ m = "tone"
      BY <2>4 DEF OwnTone
    <3> QED
      BY <1>1, <1>9, <2>4, <3>1 DEF EndComes, Holds, Has, OwnTone
  <2> QED
    BY <2>1, <2>2, <2>3, <2>4 DEF EndComes
<1>11. ~Stuck(b)'
  BY <1>1, <1>10 DEF IInv, Stuck
<1> QED
  BY <1>1, <1>5, <1>6, <1>7, <1>11, OnlyOne

LEMMA ToneEndsKeeps ==
  ASSUME IInv, NEW b \in Bud, ToneEnds(b) PROVE IInv'
<1>1. UNCHANGED <<app, flow, delay, link>> /\ calls' = calls /\ linked' = linked
  BY DEF ToneEnds, link
<1>2. "toneEnd" \in Message
  BY DEF Message
<1>3. CASE Up(b)
  BY <1>1, <1>2, <1>3, AppendKeeps DEF ToneEnds
<1>4. CASE ~Up(b)
  <2>1. app' = app /\ flag' = flag /\ timer' = timer /\ handle' = handle /\ delay' = delay
    BY <1>1 DEF flow
  <2>2. queue[b] \in Seq(Message)
    BY DEF IInv, Types
  <2>3. Append(queue[b], "toneEnd") \in Seq(Message)
    BY <1>2, <2>2
  <2>4. queue' \in [Bud -> Seq(Message)]
    BY <2>3 DEF ToneEnds, IInv, Types
  <2>5. tone' \in [Bud -> BOOLEAN]
    BY DEF ToneEnds, IInv, Types
  <2>6. Types'
    BY <1>1, <2>1, <2>4, <2>5 DEF IInv, Types
  <2>7. ASSUME NEW d \in Bud \ {b} PROVE Spares(d)
    BY <1>1, <2>1 DEF ToneEnds, IInv, Types, Spares
  <2>8. Sound(b)' /\ ~Stuck(b)'
    BY <1>1, <1>4, <2>1 DEF IInv, Sound, Stuck, Up
  <2> QED
    BY <1>1, <2>6, <2>7, <2>8, OnlyOne
<1> QED
  BY <1>3, <1>4

(* A bud that is down starts or stays down. *)
LEMMA DownKeeps ==
  ASSUME IInv, NEW b \in Bud, ~Up(b), NEW a \in App,
         app' = [app EXCEPT ![b] = a],
         UNCHANGED <<flow, delay, tone, queue, link>>
  PROVE  IInv'
<1>1. /\ flag' = flag /\ timer' = timer /\ handle' = handle /\ delay' = delay
      /\ tone' = tone /\ queue' = queue /\ calls' = calls /\ linked' = linked
  BY DEF flow, link
<1>2. app' \in [Bud -> App]
  BY DEF IInv, Types
<1>3. Types'
  BY <1>1, <1>2 DEF IInv, Types
<1>4. ASSUME NEW d \in Bud \ {b} PROVE Spares(d)
  BY <1>1 DEF IInv, Types, Spares
<1>5. flag[b] = 0 /\ ~delay[b] /\ timer[b] = "none" /\ ~handle[b]
  BY DEF IInv, Sound, Up
<1>6. Sound(b)' /\ ~Stuck(b)'
  BY <1>1, <1>5 DEF Sound, Stuck, Up
<1> QED
  BY <1>1, <1>3, <1>4, <1>6, OnlyOne

LEMMA DeliverKeeps ==
  ASSUME IInv, NEW c \in calls, Deliver(c) PROVE IInv'
<1>1. c.to \in Bud /\ c.what \in Message
  BY DEF IInv, Types, Call, Message
<1>2. CASE Up(c.to)
  <2>1. queue' = [queue EXCEPT ![c.to] = Append(@, c.what)]
    BY <1>2 DEF Deliver
  <2>2. /\ UNCHANGED <<app, flow, delay, linked>>
        /\ tone' = tone /\ calls' = calls \ {c}
    BY DEF Deliver
  <2> QED
    BY <1>1, <1>2, <2>1, <2>2, AppendKeeps
<1>3. CASE ~Up(c.to)
  <2>1. queue' = queue /\ calls' = calls \ {c} /\ linked' = linked
    BY <1>3 DEF Deliver, IInv, Types
  <2>2. /\ app' = app /\ flag' = flag /\ timer' = timer /\ handle' = handle
        /\ delay' = delay /\ tone' = tone
    BY DEF Deliver, flow
  <2>3. Types'
    BY <2>1, <2>2 DEF IInv, Types
  <2>4. ASSUME NEW d \in Bud \ {c.to} PROVE Spares(d)
    BY <2>1, <2>2 DEF Spares, OwnTone
  <2>5. Sound(c.to)'
    BY <1>1, <2>1, <2>2 DEF IInv, Sound, Up
  <2>6. ~Stuck(c.to)'
    BY <1>3, <2>2 DEF Stuck, Up
  <2> QED
    BY <1>1, <2>1, <2>3, <2>4, <2>5, <2>6, OnlyOne
<1> QED
  BY <1>2, <1>3

LEMMA PlugKeeps ==
  ASSUME IInv, NEW b \in Bud, Plug(b) PROVE IInv'
<1>1. UNCHANGED <<flow, delay, tone, link>>
  BY DEF Plug
<1>2. CASE Up(b)
  <2>1. app' = app
    BY <1>2 DEF Plug, Up, IInv, Types
  <2>2. PICK m \in {"in", "out"} : queue' = [queue EXCEPT ![b] = Append(@, m)]
    BY <1>2 DEF Plug
  <2>3. m \in Message /\ calls' = calls /\ linked' = linked /\ tone' = tone
    BY <1>1 DEF Message, link
  <2> QED
    BY <1>1, <1>2, <2>1, <2>2, <2>3, AppendKeeps
<1>3. CASE ~Up(b)
  <2>1. queue' = queue
    BY <1>3 DEF Plug, IInv, Types
  <2>2. PICK a \in App : app' = [app EXCEPT ![b] = a]
    BY DEF Plug, App, IInv, Types
  <2> QED
    BY <1>1, <1>3, <2>1, <2>2, DownKeeps
<1> QED
  BY <1>2, <1>3

LEMMA NextKeeps == IInv /\ [Next]_vars => IInv'
<1> SUFFICES ASSUME IInv, [Next]_vars PROVE IInv'
  OBVIOUS
<1>1. CASE UNCHANGED vars
  <2>1. calls' = calls /\ linked' = linked /\ UNCHANGED <<app, flow, delay, tone, queue>>
    BY <1>1 DEF vars, link
  <2> QED
    BY <2>1, LinkKeeps DEF IInv, Types
<1>2. CASE Link
  <2>1. calls' = calls /\ \A d \in Bud : flag[d] = 0
    BY <1>2 DEF Link
  <2>2. UNCHANGED <<app, flow, delay, tone, queue>>
    BY <1>2 DEF Link
  <2> QED
    BY <2>1, <2>2, LinkKeeps DEF IInv, Types
<1>3. CASE Fade
  BY <1>3, FadeKeeps DEF Fade
<1>4. ASSUME NEW c \in calls, Deliver(c) PROVE IInv'
  BY <1>4, DeliverKeeps
<1>5. ASSUME NEW b \in Bud, AskTogether(b) PROVE IInv'
  <2>1. calls' \subseteq Call /\ calls \subseteq calls'
    BY <1>5 DEF AskTogether, SyncCall, Call, IInv, Types
  <2>2. UNCHANGED <<app, flow, delay, tone, queue, linked>>
    BY <1>5 DEF AskTogether
  <2> QED
    BY <2>1, <2>2, LinkKeeps
<1>6. ASSUME NEW b \in Bud, AskAlone(b) PROVE IInv'
  BY <1>6, RequestKeeps DEF AskAlone
<1>7. ASSUME NEW b \in Bud, ToneEnds(b) PROVE IInv'
  BY <1>7, ToneEndsKeeps
<1>8. ASSUME NEW b \in Bud, Boot(b) \/ StayOff(b) \/ Wake(b) PROVE IInv'
  <2>1. ~Up(b) /\ UNCHANGED <<flow, delay, tone, queue, link>>
    BY <1>8 DEF Boot, StayOff, Wake, Up
  <2>2. PICK a \in App : app' = [app EXCEPT ![b] = a]
    BY <1>8 DEF Boot, StayOff, Wake, App
  <2> QED
    BY <2>1, <2>2, DownKeeps
<1>9. ASSUME NEW b \in Bud, PhoneChanges(b) \/ AudioChanges(b) PROVE IInv'
  <2>1. calls' = calls /\ linked' = linked /\ UNCHANGED <<app, flow, delay, tone, queue>>
    BY <1>9 DEF PhoneChanges, AudioChanges, link
  <2> QED
    BY <2>1, LinkKeeps DEF IInv, Types
<1> QED
  BY <1>1, <1>2, <1>3, <1>4, <1>5, <1>6, <1>7, <1>8, <1>9, TickKeeps, HandleKeeps,
     ResetDelayKeeps, PlugKeeps DEF Next

-----------------------------------------------------------------------------
THEOREM PowerOffInvariant == Spec => []IInv
<1> QED
  BY InitSound, NextKeeps, PTL DEF Spec

(* A bud in Bluetooth mode that is to power off has a running timer        *)
(* (earphone.c:926-961: the guard on the handle must not leave the flag    *)
(* set without a timer).                                                   *)
THEOREM AlwaysArmed == Spec => []TimerArmed
<1>1. IInv => TimerArmed
  BY DEF IInv, Sound, TimerArmed
<1> QED
  BY <1>1, PowerOffInvariant, PTL

(* An idle bud that is to power off has something to come that ends it,    *)
(* although its queue was emptied and the link may be down (idle.c:186).   *)
THEOREM NeverStuckIdle == Spec => []NotStuckIdle
<1>1. IInv => NotStuckIdle
  BY DEF IInv, Stuck, NotStuckIdle
<1> QED
  BY <1>1, PowerOffInvariant, PTL

-----------------------------------------------------------------------------
(* The types of what the invariant says nothing of: the count of ticks     *)
(* never passes MaxWait, at which wait_exit_timer resets the bud.          *)
Rest ==
    /\ reset \in [Bud -> BOOLEAN] /\ waited \in [Bud -> 0..MaxWait]
    /\ linked \in BOOLEAN
    /\ phone \in [Bud -> BOOLEAN] /\ audio \in [Bud -> BOOLEAN] /\ plug \in [Bud -> BOOLEAN]

LEMMA EndsRest ==
  ASSUME Rest, NEW b \in Bud, NEW how, Ends(b, how) PROVE Rest'
<1>1. 0 \in 0..MaxWait /\ FALSE \in BOOLEAN
  OBVIOUS
<1>2. waited' \in [Bud -> 0..MaxWait] /\ linked' \in BOOLEAN
  BY <1>1 DEF Rest, Ends, Fresh, Breaks
<1>3. reset' \in [Bud -> BOOLEAN] /\ phone' \in [Bud -> BOOLEAN]
  BY <1>1 DEF Rest, Ends, Fresh
<1>4. audio' \in [Bud -> BOOLEAN] /\ plug' \in [Bud -> BOOLEAN]
  BY <1>1 DEF Rest, Ends
<1> QED
  BY <1>2, <1>3, <1>4 DEF Rest

LEMMA RequestRest ==
  ASSUME Rest, NEW b \in Bud, (\E one \in BOOLEAN : PowerOffAlone(b, one)) \/ PowerOffSameTime(b)
  PROVE  /\ reset' \in [Bud -> BOOLEAN] /\ waited' \in [Bud -> 0..MaxWait]
         /\ linked' \in BOOLEAN
<1>1. CASE PowerOffSameTime(b)
  BY <1>1 DEF Rest, PowerOffSameTime, flow, link
<1>2. ASSUME NEW one \in BOOLEAN, PowerOffAlone(b, one)
      PROVE  /\ reset' \in [Bud -> BOOLEAN] /\ waited' \in [Bud -> 0..MaxWait]
             /\ linked' \in BOOLEAN
  <2>1. CASE flag[b] # 0
    BY <1>2, <2>1 DEF Rest, PowerOffAlone, flow, link
  <2>2. CASE flag[b] = 0
    <3>1. 0 \in 0..MaxWait /\ reset[b] \in BOOLEAN
      BY DEF Rest
    <3>2. /\ waited' = [waited EXCEPT ![b] = 0] /\ linked' = FALSE
          /\ reset' = [reset EXCEPT ![b] = IF handle[b] THEN reset[b] ELSE one]
      BY <1>2, <2>2 DEF PowerOffAlone, Breaks
    <3> QED
      BY <3>1, <3>2 DEF Rest
  <2> QED
    BY <2>1, <2>2
<1> QED
  BY <1>1, <1>2

LEMMA TickRest == ASSUME Rest, NEW b \in Bud, Tick(b) PROVE Rest'
<1>1. CASE Waits(b)
  <2>1. CASE waited[b] >= MaxWait
    BY <1>1, <2>1, EndsRest DEF Waits
  <2>2. CASE ~(waited[b] >= MaxWait)
    <3>1. waited[b] + 1 \in 0..MaxWait
      BY <2>2 DEF Rest
    <3> QED
      BY <1>1, <2>2, <3>1 DEF Waits, Rest, link, world
  <2> QED
    BY <2>1, <2>2
<1>2. CASE HciReset(b)
  BY <1>2 DEF HciReset, Rest, Breaks, flow
<1>3. CASE IdleMain(b) \/ IdlePowerOff(b)
  <2>1. CASE SoftOff(b)
    BY <2>1, EndsRest DEF SoftOff
  <2>2. CASE ~SoftOff(b)
    BY <1>3, <2>2 DEF IdleMain, IdlePowerOff, Rest, link, world
  <2> QED
    BY <2>1, <2>2
<1>4. CASE Ends(b, "reset")
  BY <1>4, EndsRest
<1> QED
  BY <1>1, <1>2, <1>3, <1>4 DEF Tick, PowerOffAtSameTime, WaitExitBtstack

LEMMA HandleRest == ASSUME Rest, NEW b \in Bud, Handle(b) PROVE Rest'
<1>1. CASE TogetherComes(b)
  BY <1>1, RequestRest DEF TogetherComes, Rest, flow, link, world
<1>2. CASE ToneComes(b)
  BY <1>2 DEF ToneComes, Rest, Breaks, world
<1>3. CASE ToneEndComes(b)
  BY <1>3, EndsRest DEF ToneEndComes, SoftOff, Rest, flow, link, world
<1>4. CASE LdoIn(b)
  <2>1. CASE Ends(b, "reset")
    BY <2>1, EndsRest
  <2>2. CASE PowerOffAlone(b, TRUE) /\ UNCHANGED world
    BY <2>2, RequestRest DEF Rest, world
  <2>3. CASE UNCHANGED <<flow, link, world>>
    BY <2>3 DEF Rest, flow, link, world
  <2> QED
    BY <1>4, <2>1, <2>2, <2>3 DEF LdoIn
<1>5. CASE LdoOff(b)
  BY <1>5, EndsRest DEF LdoOff, Rest, flow, link, world
<1> QED
  BY <1>1, <1>2, <1>3, <1>4, <1>5 DEF Handle

LEMMA NextRest == Rest /\ [Next]_vars => Rest'
<1> SUFFICES ASSUME Rest, [Next]_vars PROVE Rest'
  OBVIOUS
<1> USE DEF Rest, flow, link, world
<1>1. CASE Link \/ Fade \/ UNCHANGED vars \/ \E c \in calls : Deliver(c)
  BY <1>1 DEF Link, Fade, Breaks, vars, Deliver
<1>2. ASSUME NEW b \in Bud, AskTogether(b) \/ ToneEnds(b) \/ Boot(b) \/ StayOff(b) \/ Wake(b)
      PROVE  Rest'
  BY <1>2 DEF AskTogether, ToneEnds, Boot, StayOff, Wake
<1>3. ASSUME NEW b \in Bud, AskAlone(b) \/ ResetDelay(b) PROVE Rest'
  BY <1>3, RequestRest DEF AskAlone, ResetDelay
<1>4. ASSUME NEW b \in Bud, Plug(b) \/ PhoneChanges(b) \/ AudioChanges(b) PROVE Rest'
  BY <1>4 DEF Plug, PhoneChanges, AudioChanges
<1> QED
  BY <1>1, <1>2, <1>3, <1>4, TickRest, HandleRest DEF Next

(* Every variable keeps its type, for any number of buds: goto_poweroff_cnt  *)
(* never passes the count at which a bud whose audio goes on is reset.     *)
THEOREM PowerOffTypeCorrect == Spec => []TypeOK
<1>1. Init => Rest
  <2>1. 0 \in 0..MaxWait
    OBVIOUS
  <2> QED
    BY <2>1 DEF Init, Rest
<1>2. IInv /\ Rest => TypeOK
  BY DEF IInv, Types, Rest, TypeOK
<1> QED
  BY <1>1, <1>2, NextRest, PowerOffInvariant, PTL DEF Spec

-----------------------------------------------------------------------------
(* The steps of the chain are steps of BudLife.                            *)

LEMMA LifeCases ==
  ASSUME Types, NEW b \in Bud
  PROVE  LifeOf(b) = IF app[b] = "off" THEN "off"
                     ELSE IF app[b] = "reset" THEN "starting"
                     ELSE IF flag[b] # 0 THEN "leaving"
                     ELSE IF app[b] = "idle" THEN "charging" ELSE "on"
<1>1. app[b] \in App
  BY DEF Types
<1>2. CASE app[b] = "off"
  BY <1>2 DEF LifeOf, Up
<1>3. CASE app[b] = "reset"
  BY <1>3 DEF LifeOf, Up
<1>4. CASE app[b] = "idle"
  BY <1>4 DEF LifeOf, Up
<1>5. CASE app[b] = "bt"
  BY <1>5 DEF LifeOf, Up
<1> QED
  BY <1>1, <1>2, <1>3, <1>4, <1>5 DEF App

(* One bud goes on in its life, and the others stay where they are.        *)
Passage(x, y) ==
    \/ x = y
    \/ x = "on" /\ y = "leaving"
    \/ x = "leaving" /\ y \in {"off", "starting"}
    \/ x = "off" /\ y = "starting"
    \/ x = "starting" /\ y \in {"on", "charging", "off"}
    \/ x = "charging" /\ y \in {"on", "off"}

LEMMA OneLives ==
  ASSUME Types, Types', NEW b \in Bud,
         \A d \in Bud \ {b} : app'[d] = app[d] /\ flag'[d] = flag[d],
         Passage(LifeOf(b), LifeOf(b)')
  PROVE  [Life!Next]_Lives
<1>1. ASSUME NEW d \in Bud \ {b} PROVE LifeOf(d)' = LifeOf(d)
  BY LifeCases DEF LifeOf, Up
<1>2. Lives' = [Lives EXCEPT ![b] = LifeOf(b)'] /\ Lives[b] = LifeOf(b)
  BY <1>1 DEF Lives
<1>3. CASE LifeOf(b)' = LifeOf(b)
  BY <1>2, <1>3 DEF Lives
<1>4. CASE LifeOf(b)' # LifeOf(b)
  <2>1. ASSUME NEW from, NEW to, LifeOf(b) \in from, LifeOf(b)' \in to
        PROVE  Life!Goes(b, from, to)
    BY <1>2, <2>1 DEF Life!Goes
  <2>2. Life!Begin(b) \/ Life!Finish(b) \/ Life!Wake(b) \/ Life!Start(b) \/ Life!Undock(b)
    BY <1>4, <2>1 DEF Passage, Life!Begin, Life!Finish, Life!Wake, Life!Start, Life!Undock
  <2> QED
    BY <2>2 DEF Life!Next
<1> QED
  BY <1>3, <1>4

(* A step that leaves the applications and the requests alone stutters.    *)
LEMMA SameLives ==
  ASSUME app' = app, flag' = flag PROVE Lives' = Lives
  BY DEF Lives, LifeOf, Up

(* A bud that is to power off, or is charging with a weak battery, ends.   *)
LEMMA EndsLives ==
  ASSUME IInv, IInv', NEW b \in Bud, NEW how \in {"off", "reset"}, Ends(b, how),
         Up(b), flag[b] # 0 \/ (app[b] = "idle" /\ how = "off")
  PROVE  [Life!Next]_Lives
<1>1. Types /\ Types'
  BY DEF IInv
<1>2. /\ app'[b] = how
      /\ \A d \in Bud \ {b} : app'[d] = app[d] /\ flag'[d] = flag[d]
  BY DEF Ends, Fresh, IInv, Types
<1>3. LifeOf(b)' = IF how = "off" THEN "off" ELSE "starting"
  BY <1>1, <1>2 DEF LifeOf, Up
<1>4. LifeOf(b) = IF flag[b] # 0 THEN "leaving" ELSE "charging"
  BY <1>1, LifeCases DEF Up
<1>5. Passage(LifeOf(b), LifeOf(b)')
  BY <1>3, <1>4 DEF Passage
<1> QED
  BY <1>1, <1>2, <1>5, OneLives

(* A request marks a bud in Bluetooth mode; the call for the tone counts   *)
(* on in one that is marked.                                               *)
LEMMA MarkLives ==
  ASSUME IInv, IInv', NEW b \in Bud, NEW x \in 1..2, app' = app,
         flag' = [flag EXCEPT ![b] = x], app[b] = "bt" \/ flag[b] # 0
  PROVE  [Life!Next]_Lives
<1>1. Types /\ Types'
  BY DEF IInv
<1>2. /\ app'[b] = app[b] /\ flag'[b] = x /\ x # 0
      /\ \A d \in Bud \ {b} : app'[d] = app[d] /\ flag'[d] = flag[d]
  BY DEF IInv, Types
<1>3. LifeOf(b)' = IF app[b] = "off" THEN "off"
                   ELSE IF app[b] = "reset" THEN "starting" ELSE "leaving"
  BY <1>1, <1>2 DEF LifeOf, Up, Types, App
<1>4. Passage(LifeOf(b), LifeOf(b)')
  BY <1>1, <1>3, LifeCases DEF Passage
<1> QED
  BY <1>1, <1>2, <1>4, OneLives

LEMMA RequestLives ==
  ASSUME IInv, IInv', NEW b \in Bud, app[b] = "bt" \/ flag[b] # 0, app' = app,
         (\E one \in BOOLEAN : PowerOffAlone(b, one)) \/ PowerOffSameTime(b)
  PROVE  [Life!Next]_Lives
<1>1. flag' = flag \/ flag' = [flag EXCEPT ![b] = 1]
  BY DEF PowerOffAlone, PowerOffSameTime, flow
<1> QED
  BY <1>1, SameLives, MarkLives

(* The application changes and the requests do not. *)
LEMMA AppLives ==
  ASSUME IInv, IInv', NEW b \in Bud, NEW a \in App, flag' = flag,
         app' = [app EXCEPT ![b] = a],
         \/ app[b] = "bt" /\ flag[b] # 0 /\ a = "idle"
         \/ app[b] = "idle" /\ flag[b] = 0 /\ a = "bt"
         \/ app[b] = "reset" /\ a \in {"idle", "bt", "off"}
         \/ app[b] = "off" /\ a = "reset"
  PROVE  [Life!Next]_Lives
<1>1. Types /\ Types'
  BY DEF IInv
<1>2. /\ app'[b] = a /\ flag'[b] = flag[b]
      /\ \A d \in Bud \ {b} : app'[d] = app[d] /\ flag'[d] = flag[d]
  BY DEF IInv, Types
<1>3. app[b] = "reset" => flag[b] = 0
  BY DEF IInv, Sound, Up
<1>4. LifeOf(b)' = IF a = "off" THEN "off"
                   ELSE IF a = "reset" THEN "starting"
                   ELSE IF flag[b] # 0 THEN "leaving"
                   ELSE IF a = "idle" THEN "charging" ELSE "on"
  BY <1>1, <1>2 DEF LifeOf, Up, Types, App
<1>5. Passage(LifeOf(b), LifeOf(b)')
  BY <1>1, <1>3, <1>4, LifeCases DEF Passage
<1> QED
  BY <1>1, <1>2, <1>5, OneLives

LEMMA TickLives ==
  ASSUME IInv, IInv', NEW b \in Bud, Tick(b) PROVE [Life!Next]_Lives
<1>1. app[b] = "bt" /\ flag[b] # 0 /\ Up(b)
  BY DEF Tick, PowerOffAtSameTime, WaitExitBtstack, IInv, Types, Sound
<1>2. ASSUME NEW how \in {"off", "reset"}, Ends(b, how) PROVE [Life!Next]_Lives
  BY <1>1, <1>2, EndsLives
<1>3. CASE Waits(b)
  BY <1>2, <1>3, SameLives DEF Waits
<1>4. CASE HciReset(b)
  BY <1>4, SameLives DEF HciReset, flow
<1>5. CASE IdlePowerOff(b) \/ IdleMain(b)
  <2>1. CASE SoftOff(b)
    BY <1>2, <2>1 DEF SoftOff
  <2>2. CASE ~SoftOff(b)
    <3>1. app' = [app EXCEPT ![b] = "idle"] /\ flag' = flag /\ "idle" \in App
      BY <1>5, <2>2 DEF IdlePowerOff, IdleMain, App
    <3> QED
      BY <1>1, <3>1, AppLives
  <2> QED
    BY <2>1, <2>2
<1> QED
  BY <1>2, <1>3, <1>4, <1>5 DEF Tick, PowerOffAtSameTime, WaitExitBtstack

LEMMA HandleLives ==
  ASSUME IInv, IInv', NEW b \in Bud, Handle(b) PROVE [Life!Next]_Lives
<1>1. Up(b)
  BY DEF Handle
<1>2. CASE TogetherComes(b)
  <2>1. CASE app[b] = "bt"
    BY <1>2, <2>1, RequestLives DEF TogetherComes
  <2>2. CASE app[b] # "bt"
    BY <1>2, <2>2, SameLives DEF TogetherComes, flow
  <2> QED
    BY <2>1, <2>2
<1>3. CASE ToneComes(b)
  <2>1. app' = app /\ flag' = [flag EXCEPT ![b] = IF @ = 1 THEN 2 ELSE @]
    BY <1>3 DEF ToneComes
  <2>2. CASE flag[b] = 1
    <3>1. app' = app /\ flag' = [flag EXCEPT ![b] = 2] 
      BY <2>1, <2>2
    <3>2. 2 \in 1..2 /\ flag[b] # 0
      BY <2>2
    <3> QED
      BY <3>1, <3>2, MarkLives
  <2>3. CASE flag[b] # 1
    <3>1. flag' = flag
      BY <2>1, <2>3 DEF IInv, Types
    <3> QED
      BY <2>1, <3>1, SameLives
  <2> QED
    BY <2>2, <2>3
<1>4. CASE ToneEndComes(b)
  BY <1>1, <1>4, EndsLives, SameLives DEF ToneEndComes, SoftOff, flow
<1>5. CASE LdoIn(b)
  BY <1>1, <1>5, EndsLives, RequestLives, SameLives DEF LdoIn, flow
<1>6. CASE LdoOff(b)
  <2>1. CASE app[b] = "idle" /\ Ends(b, "off")
    BY <1>1, <2>1, EndsLives
  <2>2. CASE app[b] = "idle" /\ flag[b] = 0 /\ flag' = flag
             /\ app' = [app EXCEPT ![b] = "bt"]
    BY <2>2, AppLives DEF App
  <2> QED
    BY <1>6, <2>1, <2>2, SameLives DEF LdoOff, flow
<1> QED
  BY <1>2, <1>3, <1>4, <1>5, <1>6 DEF Handle

LEMMA StepLives == IInv /\ IInv' /\ [Next]_vars => [Life!Next]_Lives
<1> SUFFICES ASSUME IInv, IInv', [Next]_vars PROVE [Life!Next]_Lives
  OBVIOUS
<1>1. CASE UNCHANGED vars \/ Link \/ Fade \/ \E c \in calls : Deliver(c)
  BY <1>1, SameLives DEF vars, flow, Link, Fade, Deliver
<1>2. ASSUME NEW b \in Bud,
             AskTogether(b) \/ ToneEnds(b) \/ PhoneChanges(b) \/ AudioChanges(b)
      PROVE  [Life!Next]_Lives
  BY <1>2, SameLives DEF AskTogether, ToneEnds, PhoneChanges, AudioChanges, flow
<1>3. ASSUME NEW b \in Bud, AskAlone(b) PROVE [Life!Next]_Lives
  BY <1>3, RequestLives DEF AskAlone
<1>4. ASSUME NEW b \in Bud, ResetDelay(b) PROVE [Life!Next]_Lives
  <2>1. app[b] = "bt" \/ flag[b] # 0
    BY <1>4 DEF ResetDelay, IInv, Types, App, Sound, Up
  <2> QED
    BY <1>4, <2>1, RequestLives DEF ResetDelay
<1>5. ASSUME NEW b \in Bud, Boot(b) \/ StayOff(b) \/ Wake(b) PROVE [Life!Next]_Lives
  <2>1. flag' = flag
    BY <1>5 DEF Boot, StayOff, Wake, flow
  <2>2. PICK a \in App : /\ app' = [app EXCEPT ![b] = a]
                         /\ \/ app[b] = "reset" /\ a \in {"idle", "bt", "off"}
                            \/ app[b] = "off" /\ a = "reset"
    BY <1>5 DEF Boot, StayOff, Wake, App
  <2> QED
    BY <2>1, <2>2, AppLives
<1>6. ASSUME NEW b \in Bud, Plug(b) PROVE [Life!Next]_Lives
  <2>1. flag' = flag /\ app' = [app EXCEPT ![b] = IF @ = "off" THEN "reset" ELSE @]
    BY <1>6 DEF Plug, flow
  <2>2. CASE app[b] = "off"
    BY <2>1, <2>2, AppLives DEF App
  <2>3. CASE app[b] # "off"
    <3>1. app' = app
      BY <2>1, <2>3 DEF IInv, Types
    <3> QED
      BY <2>1, <3>1, SameLives
  <2> QED
    BY <2>2, <2>3
<1> QED
  BY <1>1, <1>2, <1>3, <1>4, <1>5, <1>6, TickLives, HandleLives DEF Next

(* Whatever the flush of the queue, the links, the tones and the case do,  *)
(* a power-off that sys_enter_soft_poweroff began is not taken back, and a *)
(* bud that charges does not begin one. (That it ends is the liveness half *)
(* of BudLife, which TLC checks.)                                          *)
THEOREM LivesAsPromised == Spec => Life!Safe
<1>1. Init => Life!Init
  BY DEF Init, Life!Init, Lives, LifeOf, Up
<1> QED
  BY <1>1, PowerOffInvariant, StepLives, PTL DEF Spec, Life!Safe
=============================================================================
