------------------------- MODULE AutoShutDown_proofs -------------------------
(***************************************************************************)
(* Proofs about AutoShutDown, for any time of the timer and any number of  *)
(* disturbances.                                                           *)
(***************************************************************************)
EXTENDS AutoShutDown, TLAPS

USE AutoShutDownAssumption

Posted == {"CONNECTED", "CONNECTED_PHONE", "DETACH", "PHONE_LINK_DETACH",
           "HCI_CONNECT", "PHONE_CONNECTED", "PAGE_TIMEOUT",
           "HCI_DISCONNECT", "HCI_LOST", "HCI_TIMEOUT"}

(* What stops a timer. *)
Stops == {"HCI_CONNECT", "PHONE_CONNECTED"}

(* The queue holds one of E. *)
Holds(q, E) == \E i \in 1..Len(q) : q[i] \in E

(* The queue holds one of E, and nothing after it stops a timer. *)
HoldsLast(q, E) ==
    \E i \in 1..Len(q) : q[i] \in E /\ \A j \in (i + 1)..Len(q) : q[j] \notin Stops

-----------------------------------------------------------------------------
(* Lemmas about queues. *)

LEMMA EmptyHolds ==
    ASSUME NEW E PROVE ~Holds(<<>>, E) /\ ~HoldsLast(<<>>, E)
  BY DEF Holds, HoldsLast

LEMMA TailHolds ==
    ASSUME NEW q \in Seq(Posted), q # <<>>, NEW E
    PROVE  /\ Tail(q) \in Seq(Posted) /\ Head(q) \in Posted
           /\ Holds(q, E) <=> Head(q) \in E \/ Holds(Tail(q), E)
<1>1. /\ Tail(q) \in Seq(Posted) /\ Len(Tail(q)) = Len(q) - 1 /\ Len(q) \in Nat \ {0}
      /\ Head(q) = q[1] /\ \A i \in 1..Len(Tail(q)) : Tail(q)[i] = q[i + 1]
  OBVIOUS
<1>2. ASSUME NEW i \in 1..Len(q), q[i] \in E, Head(q) \notin E PROVE Holds(Tail(q), E)
  <2>1. i - 1 \in 1..Len(Tail(q)) /\ Tail(q)[i - 1] = q[i]
    BY <1>1, <1>2
  <2> QED
    BY <2>1, <1>2 DEF Holds
<1>3. ASSUME NEW i \in 1..Len(Tail(q)), Tail(q)[i] \in E PROVE Holds(q, E)
  <2>1. i + 1 \in 1..Len(q) /\ q[i + 1] = Tail(q)[i]
    BY <1>1
  <2> QED
    BY <2>1, <1>3 DEF Holds
<1>4. Head(q) \in E => Holds(q, E)
  BY <1>1 DEF Holds
<1>5. Head(q) \in Posted
  BY <1>1
<1> QED
  BY <1>1, <1>2, <1>3, <1>4, <1>5 DEF Holds

LEMMA TailHoldsLast ==
    ASSUME NEW q \in Seq(Posted), q # <<>>, NEW E, HoldsLast(q, E)
    PROVE  HoldsLast(Tail(q), E) \/ (Head(q) \in E /\ ~Holds(Tail(q), Stops))
<1>1. /\ Len(Tail(q)) = Len(q) - 1 /\ Len(q) \in Nat \ {0}
      /\ Head(q) = q[1] /\ \A i \in 1..Len(Tail(q)) : Tail(q)[i] = q[i + 1]
  OBVIOUS
<1>2. PICK i \in 1..Len(q) : q[i] \in E /\ \A j \in (i + 1)..Len(q) : q[j] \notin Stops
  BY DEF HoldsLast
<1>3. CASE i = 1
  <2>1. ASSUME NEW k \in 1..Len(Tail(q)) PROVE Tail(q)[k] \notin Stops
    <3>1. k + 1 \in (i + 1)..Len(q) /\ Tail(q)[k] = q[k + 1]
      BY <1>1, <1>3
    <3> QED
      BY <3>1, <1>2
  <2> QED
    BY <2>1, <1>1, <1>2, <1>3 DEF Holds
<1>4. CASE i # 1
  <2>1. i - 1 \in 1..Len(Tail(q)) /\ Tail(q)[i - 1] = q[i]
    BY <1>1, <1>4
  <2>2. ASSUME NEW k \in ((i - 1) + 1)..Len(Tail(q)) PROVE Tail(q)[k] \notin Stops
    <3>1. k + 1 \in (i + 1)..Len(q) /\ k \in 1..Len(Tail(q))
      BY <1>1, <1>4
    <3>2. Tail(q)[k] = q[k + 1]
      BY <1>1, <3>1
    <3> QED
      BY <3>1, <3>2, <1>2
  <2> QED
    BY <2>1, <2>2, <1>2 DEF HoldsLast
<1> QED
  BY <1>3, <1>4

LEMMA AppendHolds ==
    ASSUME NEW q \in Seq(Posted), NEW e \in Posted, NEW E
    PROVE  /\ Append(q, e) \in Seq(Posted)
           /\ Holds(Append(q, e), E) <=> Holds(q, E) \/ e \in E
           /\ e \notin Stops /\ (HoldsLast(q, E) \/ e \in E) => HoldsLast(Append(q, e), E)
           /\ q \o <<e>> = Append(q, e) /\ q \o <<>> = q
<1>1. /\ Append(q, e) \in Seq(Posted) /\ Len(Append(q, e)) = Len(q) + 1 /\ Len(q) \in Nat
      /\ \A i \in 1..Len(q) : Append(q, e)[i] = q[i]
      /\ Append(q, e)[Len(q) + 1] = e
  OBVIOUS
<1>2. Holds(Append(q, e), E) <=> Holds(q, E) \/ e \in E
  <2>1. ASSUME NEW i \in 1..Len(q), q[i] \in E PROVE Holds(Append(q, e), E)
    BY <1>1, <2>1 DEF Holds
  <2>2. e \in E => Holds(Append(q, e), E)
    BY <1>1 DEF Holds
  <2>3. ASSUME NEW i \in 1..Len(Append(q, e)), Append(q, e)[i] \in E PROVE Holds(q, E) \/ e \in E
    BY <1>1, <2>3 DEF Holds
  <2> QED
    BY <2>1, <2>2, <2>3 DEF Holds
<1>3. ASSUME e \notin Stops, HoldsLast(q, E) PROVE HoldsLast(Append(q, e), E)
  <2>1. PICK i \in 1..Len(q) : q[i] \in E /\ \A j \in (i + 1)..Len(q) : q[j] \notin Stops
    BY <1>3 DEF HoldsLast
  <2>2. i \in 1..Len(Append(q, e)) /\ Append(q, e)[i] \in E
    BY <2>1, <1>1
  <2>3. ASSUME NEW j \in (i + 1)..Len(Append(q, e)) PROVE Append(q, e)[j] \notin Stops
    <3>1. CASE j = Len(q) + 1
      BY <3>1, <1>1, <1>3
    <3>2. CASE j # Len(q) + 1
      BY <3>2, <1>1, <2>1
    <3> QED
      BY <3>1, <3>2
  <2> QED
    BY <2>2, <2>3 DEF HoldsLast
<1>4. ASSUME e \in E PROVE HoldsLast(Append(q, e), E)
  <2>1. Len(q) + 1 \in 1..Len(Append(q, e)) /\ Append(q, e)[Len(q) + 1] \in E
    BY <1>1, <1>4
  <2>2. \A j \in ((Len(q) + 1) + 1)..Len(Append(q, e)) : FALSE
    BY <1>1
  <2> QED
    BY <2>1, <2>2 DEF HoldsLast
<1>5. q \o <<e>> = Append(q, e) /\ q \o <<>> = q
  OBVIOUS
<1> QED
  BY <1>1, <1>2, <1>3, <1>4, <1>5

LEMMA MoreHoldsLast ==
    ASSUME NEW q, NEW E, NEW F, E \subseteq F, HoldsLast(q, E)
    PROVE  HoldsLast(q, F)
  BY DEF HoldsLast

-----------------------------------------------------------------------------
(* Lemmas about the buds, their timers, calls and queues. *)

LEMMA TwoBuds ==
    \A b \in Buds : /\ Sibling(b) \in Buds /\ Sibling(b) # b
                    /\ \A c \in Buds : c = b \/ c = Sibling(b)
<1>1. \A b \in Buds : \E c \in Buds : c # b /\ \A d \in Buds : d = b \/ d = c
  OBVIOUS
<1> QED
  BY <1>1 DEF Sibling

TimerTypes ==
    /\ handle \in [Buds -> BOOLEAN] /\ running \in [Buds -> BOOLEAN]
    /\ left \in [Buds -> 0..AutoOff] /\ behind \subseteq Buds

(* A handler that sets the timer of b leaves the other one alone. *)
OthersKept(b) ==
    /\ TimerTypes'
    /\ \A c \in Buds \ {b} : /\ handle'[c] = handle[c] /\ running'[c] = running[c]
                             /\ c \in behind' <=> c \in behind

LEMMA Disables ==
    ASSUME TimerTypes, NEW b \in Buds, sys_auto_shut_down_disable(b)
    PROVE  /\ OthersKept(b) /\ ~handle'[b] /\ ~running'[b]
           /\ b \in behind' <=> b \in behind
  BY DEF sys_auto_shut_down_disable, Timer, TimerTypes, OthersKept

LEMMA Restarts ==
    ASSUME TimerTypes, NEW b \in Buds, Restart(b)
    PROVE  OthersKept(b) /\ handle'[b] /\ running'[b] /\ b \notin behind'
  BY DEF Restart, Timer, TimerTypes, OthersKept

LEMMA Enables ==
    ASSUME TimerTypes, NEW b \in Buds, sys_auto_shut_down_enable(b)
    PROVE  /\ OthersKept(b) /\ handle'[b]
           /\ handle[b] => running'[b] = running[b] /\ (b \in behind' <=> b \in behind)
           /\ ~handle[b] => running'[b]
<1>1. CASE handle[b]
  BY <1>1 DEF sys_auto_shut_down_enable, timers, OthersKept, TimerTypes
<1>2. CASE ~handle[b]
  <2>1. Restart(b)
    BY <1>2 DEF sys_auto_shut_down_enable, Restart, Timer
  <2> QED
    BY <1>2, <2>1, Restarts
<1> QED
  BY <1>1, <1>2

LEMMA Leaves ==
    ASSUME TimerTypes, leaving \in [Buds -> BOOLEAN], NEW b \in Buds, EntersPowerOff(b)
    PROVE  /\ OthersKept(b) /\ leaving' \in [Buds -> BOOLEAN] /\ leaving'[b]
           /\ \A c \in Buds \ {b} : leaving'[c] = leaving[c]
           /\ handle'[b] => handle[b]
           /\ running'[b] => running[b] /\ handle'[b] = handle[b]
<1>1. CASE leaving[b]
  BY <1>1 DEF EntersPowerOff, timers, OthersKept, TimerTypes
<1>2. CASE ~leaving[b]
  BY <1>2, Disables DEF EntersPowerOff
<1> QED
  BY <1>1, <1>2

RunsOutFacts(b) ==
    /\ OthersKept(b) /\ handle'[b] = handle[b] /\ ~running'[b]
    /\ b \in behind' <=> b \in behind \/ ~IsMaster(b)

LEMMA TimesOut ==
    ASSUME TimerTypes, NEW b \in Buds, RunsOut(b)
    PROVE  RunsOutFacts(b)
  BY DEF RunsOut, TimerTypes, OthersKept, RunsOutFacts

Call == [to : Buds, from : Buds, what : {"SHUT_DOWN_TIME", "POWER_OFF_TOGETHER"}]

LEMMA Syncs ==
    ASSUME NEW b \in Buds, NEW what \in {"SHUT_DOWN_TIME", "POWER_OFF_TOGETHER"}
    PROVE  /\ SyncCall(b, what) \subseteq Call
           /\ \A c \in SyncCall(b, what) :
                /\ c.from = b /\ c.what = what
                /\ Linked \/ c.to = b
           /\ \E c \in SyncCall(b, what) : c.to = b /\ c.from = b /\ c.what = what
<1> DEFINE asked(c) == [to |-> c, from |-> b, what |-> what]
<1>1. SyncCall(b, what) = {asked(c) : c \in IF Linked THEN Buds ELSE {b}}
  BY DEF SyncCall
<1>2. \A c \in Buds : asked(c) \in Call /\ asked(c).to = c /\ asked(c).from = b
                      /\ asked(c).what = what
  BY DEF Call
<1> HIDE DEF asked
<1> QED
  BY <1>1, <1>2

LEMMA Receipt ==
    ASSUME events \in [Buds -> Seq(Posted)], NEW b \in Buds, NEW ev, Receives(b, ev)
    PROVE  /\ events' \in [Buds -> Seq(Posted)] /\ ev \in Posted
           /\ events[b] # <<>> /\ Head(events[b]) = ev /\ events'[b] = Tail(events[b])
           /\ \A c \in Buds \ {b} : events'[c] = events[c]
<1>1. events[b] # <<>> /\ Head(events[b]) = ev
  BY DEF Receives
<1>2. Tail(events[b]) \in Seq(Posted) /\ Head(events[b]) \in Posted
  BY <1>1, TailHolds
<1> QED
  BY <1>1, <1>2 DEF Receives

-----------------------------------------------------------------------------
(* What the actions around the buds post. *)

EventsType == events \in [Buds -> Seq(Posted)]

(* What b gets is in new, and its queue is one or two longer, or as it was. *)
Gets(b, e) == events'[b] = Append(events[b], e)

LEMMA FadePosts ==
    ASSUME EventsType, Fade
    PROVE  EventsType' /\ \A b \in Buds : Gets(b, "DETACH")
<1>1. events' = [b \in Buds |-> events[b] \o <<"DETACH">>]
  BY DEF Fade, PostBoth
<1>2. \A b \in Buds : events[b] \in Seq(Posted) /\ "DETACH" \in Posted
  BY DEF EventsType, Posted
<1>3. \A b \in Buds : events[b] \o <<"DETACH">> = Append(events[b], "DETACH")
                      /\ Append(events[b], "DETACH") \in Seq(Posted)
  BY <1>2, AppendHolds
<1> QED
  BY <1>1, <1>3 DEF Gets, EventsType

LEMMA PhonePosts ==
    ASSUME EventsType, NEW e \in Posted, PostPhone(<<e>>)
    PROVE  /\ EventsType'
           /\ \A b \in Buds : IF Linked \/ b \in {phone, phone'} THEN Gets(b, e)
                              ELSE events'[b] = events[b]
<1>1. events' = [b \in Buds |-> events[b] \o IF Linked \/ b \in {phone, phone'} THEN <<e>> ELSE <<>>]
  BY DEF PostPhone, PostBoth
<1>2. \A b \in Buds : events[b] \in Seq(Posted)
  BY DEF EventsType
<1>3. \A b \in Buds : events[b] \o <<e>> = Append(events[b], e) /\ events[b] \o <<>> = events[b]
                      /\ Append(events[b], e) \in Seq(Posted)
  BY <1>2, AppendHolds
<1> QED
  BY <1>1, <1>2, <1>3 DEF Gets, EventsType

LEMMA LeavingPosts ==
    ASSUME EventsType, NEW e \in PhoneEvents, PhoneGoes(e)
    PROVE  /\ EventsType'
           /\ \A b \in Buds :
                IF Linked THEN events'[b] = Append(Append(events[b], e), "PHONE_LINK_DETACH")
                ELSE IF b = phone THEN Gets(b, e)
                ELSE b = phone' \/ events'[b] = events[b]
<1>0. e \in Posted /\ "PHONE_LINK_DETACH" \in Posted
  BY DEF PhoneEvents, Posted
<1>1. events' = [b \in Buds |-> events[b] \o IF Linked \/ b \in {phone, phone'}
                   THEN <<e>> \o IF Linked THEN <<"PHONE_LINK_DETACH">> ELSE <<>> ELSE <<>>]
  BY DEF PhoneGoes, PostPhone, PostBoth
<1>2. \A b \in Buds : events[b] \in Seq(Posted)
  BY DEF EventsType
<1>3. \A b \in Buds : events[b] \o <<e>> = Append(events[b], e) /\ events[b] \o <<>> = events[b]
                      /\ Append(events[b], e) \in Seq(Posted)
                      /\ Append(Append(events[b], e), "PHONE_LINK_DETACH") \in Seq(Posted)
  BY <1>0, <1>2, AppendHolds
<1>4. <<e>> \o <<>> = <<e>>
  BY <1>0
<1>5. \A b \in Buds : events[b] \o (<<e>> \o <<"PHONE_LINK_DETACH">>)
                      = Append(Append(events[b], e), "PHONE_LINK_DETACH")
  BY <1>0, <1>2
<1> QED
  BY <1>1, <1>2, <1>3, <1>4, <1>5 DEF Gets, EventsType

LinkTypes ==
    {master, phone} \subseteq Buds \cup {None} /\ profile \in BOOLEAN /\ paging \subseteq Buds

LEMMA LinkPosts ==
    ASSUME EventsType, LinkTypes, Link
    PROVE  /\ EventsType' /\ master' \in Buds /\ (phone # None => master' = phone)
           /\ \A b \in Buds :
                /\ events[b] = <<>>
                /\ \/ phone = None /\ Gets(b, "CONNECTED")
                   \/ /\ phone # None
                      /\ \/ (b = master' \/ ~profile) /\ Gets(b, "CONNECTED_PHONE")
                         \/ /\ b # master' /\ profile
                            /\ events'[b] = Append(Append(events[b], "CONNECTED_PHONE"), "PHONE_CONNECTED")
<1>1. PICK m \in IF phone = None THEN Buds ELSE {phone} :
        /\ master' = m
        /\ events' = [b \in Buds |-> events[b] \o
               IF phone = None THEN <<"CONNECTED">>
               ELSE <<"CONNECTED_PHONE">> \o IF b # m /\ profile THEN <<"PHONE_CONNECTED">> ELSE <<>>]
  BY DEF Link, PostBoth
<1>2. {"CONNECTED", "CONNECTED_PHONE", "PHONE_CONNECTED"} \subseteq Posted
  BY DEF Posted
<1>3. \A b \in Buds : events[b] \in Seq(Posted) /\ events[b] = <<>>
  BY DEF EventsType, Link, Settled
<1>4. \A b \in Buds : /\ events[b] \o <<"CONNECTED">> = Append(events[b], "CONNECTED")
                      /\ events[b] \o <<"CONNECTED_PHONE">> = Append(events[b], "CONNECTED_PHONE")
                      /\ Append(events[b], "CONNECTED") \in Seq(Posted)
                      /\ Append(events[b], "CONNECTED_PHONE") \in Seq(Posted)
                      /\ Append(Append(events[b], "CONNECTED_PHONE"), "PHONE_CONNECTED") \in Seq(Posted)
  BY <1>2, <1>3, AppendHolds
<1>5. \A b \in Buds : events[b] \o (<<"CONNECTED_PHONE">> \o <<"PHONE_CONNECTED">>)
                      = Append(Append(events[b], "CONNECTED_PHONE"), "PHONE_CONNECTED")
  BY <1>3
<1>6. <<"CONNECTED_PHONE">> \o <<>> = <<"CONNECTED_PHONE">>
  OBVIOUS
<1>7. CASE phone = None
  BY <1>1, <1>3, <1>4, <1>7 DEF Gets, EventsType
<1>8. CASE phone # None
  <2>1. master' = phone /\ master' \in Buds
    BY <1>1, <1>8 DEF LinkTypes
  <2> QED
    BY <1>1, <1>3, <1>4, <1>5, <1>6, <1>8, <2>1 DEF Gets, EventsType
<1> QED
  BY <1>7, <1>8

-----------------------------------------------------------------------------
(* Types. *)

BudTypes == on \subseteq Buds /\ leaving \in [Buds -> BOOLEAN] /\ sib \in [Buds -> BOOLEAN]
CallTypes == calls \subseteq Call
ChanceTypes == chances \in [Disturbances -> Nat]

LEMMA Types ==
    /\ TypeOK <=> TimerTypes /\ EventsType /\ LinkTypes /\ BudTypes /\ CallTypes /\ ChanceTypes
    /\ TypeOK' <=> TimerTypes' /\ EventsType' /\ LinkTypes' /\ BudTypes' /\ CallTypes' /\ ChanceTypes'
  BY DEF TypeOK, TimerTypes, EventsType, LinkTypes, BudTypes, CallTypes, ChanceTypes, Posted, Call

LEMMA InitTypes == Init => TypeOK
<1> SUFFICES ASSUME Init PROVE TypeOK
  OBVIOUS
<1>1. EventsType
  <2>1. <<>> \in Seq(Posted)
    OBVIOUS
  <2> QED
    BY <2>1 DEF Init, EventsType
<1>2. TimerTypes /\ BudTypes
  BY DEF Init, TimerTypes, BudTypes
<1>3. LinkTypes /\ CallTypes
  BY DEF Init, LinkTypes, CallTypes
<1>4. ChanceTypes
  BY DEF Init, ChanceTypes
<1> QED
  BY <1>1, <1>2, <1>3, <1>4, Types

LEMMA SyncTypes ==
    ASSUME TypeOK, NEW b \in Buds, SyncsTimes(b)
    PROVE  CallTypes'
<1>1. SyncCall(b, "SHUT_DOWN_TIME") \subseteq Call
  BY Syncs
<1> QED
  BY <1>1, Types DEF SyncsTimes, CallTypes

LEMMA HandlersTypes ==
    ASSUME TypeOK, NEW b \in Buds, Handles(b)
    PROVE  TypeOK'
<1> USE DEF BudTypes, LinkTypes, CallTypes, ChanceTypes, link, timers
<1>0. /\ TimerTypes /\ EventsType /\ BudTypes /\ LinkTypes /\ CallTypes /\ ChanceTypes
      /\ \A c : OthersKept(c) => TimerTypes'
      /\ events \in [Buds -> Seq(Posted)]
      /\ events' \in [Buds -> Seq(Posted)] => EventsType'
  BY Types DEF OthersKept, EventsType
<1>00. UNCHANGED timers => TimerTypes'
  BY <1>0 DEF TimerTypes
<1> SUFFICES TimerTypes' /\ EventsType' /\ BudTypes' /\ LinkTypes' /\ CallTypes' /\ ChanceTypes'
  BY Types
<1>1. CASE TwsConnected(b)
  BY <1>0, <1>00, <1>1, Receipt, Restarts DEF TwsConnected
<1>2. CASE TwsDetach(b)
  <2>1. EventsType'
    BY <1>0, <1>2, Receipt DEF TwsDetach
  <2> QED
    BY <1>0, <1>2, <2>1 DEF TwsDetach, TimerTypes
<1>3. CASE PhoneLinkDetach(b)
  BY <1>0, <1>00, <1>3, Receipt, Enables DEF PhoneLinkDetach
<1>4. CASE HciConnect(b)
  BY <1>0, <1>4, Receipt, Disables DEF HciConnect
<1>5. CASE PhoneConnected(b)
  BY <1>0, <1>5, Receipt, Disables DEF PhoneConnected
<1>6. CASE HciDisconnect(b)
  <2>1. EventsType' /\ TimerTypes'
    BY <1>0, <1>00, <1>6, Receipt, Enables DEF HciDisconnect
  <2>2. CallTypes' /\ LinkTypes'
    BY <1>0, <1>6, SyncTypes DEF HciDisconnect, Pages
  <2> QED
    BY <1>0, <1>6, <2>1, <2>2 DEF HciDisconnect
<1>7. CASE PageTimeout(b)
  BY <1>0, <1>00, <1>7, Receipt, SyncTypes DEF PageTimeout
<1>8. CASE HciTimeout(b)
  <2>1. CallTypes' /\ LinkTypes'
    BY <1>0, <1>8, SyncTypes DEF HciTimeout, Pages
  <2> QED
    BY <1>0, <1>00, <1>8, <2>1, Receipt DEF HciTimeout
<1> QED
  BY <1>1, <1>2, <1>3, <1>4, <1>5, <1>6, <1>7, <1>8 DEF Handles

LEMMA SpendTypes ==
    ASSUME ChanceTypes, NEW what \in Disturbances, Spend(what)
    PROVE  ChanceTypes'
  BY DEF Spend, ChanceTypes

LEMMA EndsTypes ==
    ASSUME TypeOK, NEW b \in Buds, Ends(b)
    PROVE  TimerTypes' /\ EventsType' /\ LinkTypes' /\ BudTypes' /\ CallTypes'
<1>0. TimerTypes /\ EventsType /\ LinkTypes /\ BudTypes /\ CallTypes
  BY Types
<1>1. TimerTypes'
  BY <1>0, Disables DEF Ends, OthersKept
<1>2. EventsType'
  <2>1. \A c \in Buds : events[c] \in Seq(Posted) /\ "DETACH" \in Posted /\ <<>> \in Seq(Posted)
    BY <1>0 DEF EventsType, Posted
  <2>2. \A c \in Buds : Append(events[c], "DETACH") \in Seq(Posted)
    BY <2>1, AppendHolds
  <2> QED
    BY <2>1, <2>2 DEF Ends, EventsType
<1>3. LinkTypes'
  <2>1. phone' \in Buds \cup {None}
    BY <1>0, TwoBuds DEF Ends, LinkTypes
  <2> QED
    BY <1>0, <2>1 DEF Ends, LinkTypes
<1>4. BudTypes'
  BY <1>0 DEF Ends, BudTypes
<1>5. CallTypes'
  BY <1>0 DEF Ends, CallTypes
<1> QED
  BY <1>1, <1>2, <1>3, <1>4, <1>5

LEMMA NextTypes ==
    ASSUME TypeOK, [Next]_vars
    PROVE  TypeOK'
<1> USE DEF link, timers
<1>0. /\ TimerTypes /\ EventsType /\ BudTypes /\ LinkTypes /\ CallTypes /\ ChanceTypes
      /\ \A c : OthersKept(c) => TimerTypes'
      /\ UNCHANGED timers => TimerTypes'
      /\ UNCHANGED events => EventsType'
      /\ UNCHANGED <<on, leaving, sib>> => BudTypes'
      /\ UNCHANGED calls => CallTypes'
      /\ UNCHANGED link => LinkTypes'
      /\ UNCHANGED chances => ChanceTypes'
  BY Types DEF OthersKept, TimerTypes, EventsType, BudTypes, LinkTypes, CallTypes, ChanceTypes
<1> SUFFICES TimerTypes' /\ EventsType' /\ BudTypes' /\ LinkTypes' /\ CallTypes' /\ ChanceTypes'
  BY Types
<1>1. ASSUME NEW b \in Buds, Handles(b) PROVE TypeOK'
  BY <1>1, HandlersTypes
<1>2. ASSUME NEW b \in Buds, sys_auto_shut_down_deal(b) PROVE TypeOK'
  <2>0. /\ UNCHANGED events /\ UNCHANGED <<on, sib>> /\ UNCHANGED link /\ UNCHANGED chances
    BY <1>2 DEF sys_auto_shut_down_deal
  <2>1. CASE ~sib[b] /\ ~leaving[b]
    <3>1. UNCHANGED calls /\ EntersPowerOff(b)
      BY <1>2, <2>1 DEF sys_auto_shut_down_deal
    <3>2. OthersKept(b) /\ BudTypes'
      BY <1>0, <2>0, <3>1, Leaves DEF BudTypes
    <3> QED
      BY <1>0, <2>0, <3>1, <3>2, Types
  <2>2. CASE ~(~sib[b] /\ ~leaving[b])
    <3>1. RunsOut(b) /\ UNCHANGED leaving
      BY <1>2, <2>2 DEF sys_auto_shut_down_deal
    <3>2. TimerTypes' /\ BudTypes'
      BY <1>0, <2>0, <3>1, TimesOut DEF RunsOutFacts, BudTypes
    <3>3. CallTypes'
      <4>1. SyncCall(b, "POWER_OFF_TOGETHER") \subseteq Call
        BY Syncs
      <4> QED
        BY <1>0, <1>2, <2>2, <4>1 DEF sys_auto_shut_down_deal, CallTypes
    <3> QED
      BY <1>0, <2>0, <3>1, <3>2, <3>3, Types
  <2> QED
    BY <2>1, <2>2
<1>3. ASSUME NEW b \in Buds, PowersOff(b) PROVE TypeOK'
  BY <1>0, <1>3, EndsTypes, Types DEF PowersOff
<1>4. ASSUME NEW b \in Buds, PageFails(b) PROVE TypeOK'
  <2>1. EventsType'
    <3>1. events[b] \in Seq(Posted) /\ "PAGE_TIMEOUT" \in Posted
      BY <1>0 DEF EventsType, Posted
    <3>2. Append(events[b], "PAGE_TIMEOUT") \in Seq(Posted)
      BY <3>1, AppendHolds
    <3> QED
      BY <1>0, <1>4, <3>2 DEF PageFails, EventsType
  <2>2. LinkTypes'
    BY <1>0, <1>4 DEF PageFails, LinkTypes
  <2> QED
    BY <1>0, <1>4, <2>1, <2>2, Types DEF PageFails
<1>5. ASSUME NEW b \in Buds, PowerOn(b) PROVE TypeOK'
  <2>1. TimerTypes' /\ ChanceTypes'
    BY <1>0, <1>5, Enables, SpendTypes DEF PowerOn, Disturbances
  <2>2. LinkTypes' /\ BudTypes'
    BY <1>0, <1>5 DEF PowerOn, LinkTypes, BudTypes
  <2> QED
    BY <1>0, <1>5, <2>1, <2>2, Types DEF PowerOn
<1>6. ASSUME NEW b \in Buds, IntoCase(b) PROVE TypeOK'
  BY <1>0, <1>6, EndsTypes, SpendTypes, Types DEF IntoCase, Disturbances
<1>7. ASSUME NEW b \in Buds, PhoneComes(b) PROVE TypeOK'
  <2>1. EventsType'
    BY <1>0, <1>7, PhonePosts DEF PhoneComes, Posted
  <2>2. LinkTypes' /\ ChanceTypes'
    BY <1>0, <1>7, SpendTypes DEF PhoneComes, LinkTypes, Disturbances
  <2> QED
    BY <1>0, <1>7, <2>1, <2>2, Types DEF PhoneComes
<1>8. ASSUME NEW c \in calls, Executes(c) PROVE TypeOK'
  <2>1. c.to \in Buds /\ CallTypes'
    BY <1>0, <1>8 DEF Executes, CallTypes, Call
  <2>2. CASE c.what = "SHUT_DOWN_TIME"
    <3>1. Restart(c.to) /\ UNCHANGED leaving
      BY <1>8, <2>2 DEF Executes
    <3>2. OthersKept(c.to)
      BY <1>0, <2>1, <3>1, Restarts
    <3> QED
      BY <1>0, <1>8, <2>1, <3>1, <3>2, Types DEF Executes
  <2>3. CASE c.what # "SHUT_DOWN_TIME"
    <3>1. EntersPowerOff(c.to)
      BY <1>8, <2>3 DEF Executes
    <3>2. OthersKept(c.to) /\ leaving' \in [Buds -> BOOLEAN]
      BY <1>0, <2>1, <3>1, Leaves DEF BudTypes
    <3> QED
      BY <1>0, <1>8, <2>1, <3>2, Types DEF Executes, BudTypes
  <2> QED
    BY <2>2, <2>3
<1>9. CASE Link
  <2>1. EventsType' /\ LinkTypes'
    BY <1>0, <1>9, LinkPosts DEF Link, LinkTypes
  <2> QED
    BY <1>0, <1>9, <2>1 DEF Link
<1>10. CASE Fade
  <2>1. EventsType' /\ ChanceTypes'
    BY <1>0, <1>10, FadePosts, SpendTypes DEF Fade, Disturbances
  <2>2. LinkTypes' /\ CallTypes'
    BY <1>0, <1>10 DEF Fade, Cut, LinkTypes, CallTypes
  <2> QED
    BY <1>0, <1>10, <2>1, <2>2 DEF Fade
<1>11. CASE ProfilesConnect
  <2>1. EventsType'
    BY <1>0, <1>11, PhonePosts DEF ProfilesConnect, Posted
  <2> QED
    BY <1>0, <1>11, <2>1 DEF ProfilesConnect, LinkTypes
<1>12. ASSUME NEW ev \in PhoneEvents, PhoneGoes(ev) PROVE TypeOK'
  <2>1. EventsType' /\ LinkTypes'
    BY <1>0, <1>12, LeavingPosts DEF PhoneGoes, LinkTypes
  <2> QED
    BY <1>0, <1>12, <2>1, Types DEF PhoneGoes
<1>13. CASE Swap
  <2>1. LinkTypes'
    <3>1. Sibling(master) \in Buds /\ (phone # None => Sibling(phone) \in Buds)
      BY <1>0, <1>13, TwoBuds DEF Swap, Linked, LinkTypes
    <3> QED
      BY <1>0, <1>13, <3>1 DEF Swap, LinkTypes
  <2>2. ChanceTypes'
    BY <1>0, <1>13, SpendTypes DEF Swap, Disturbances
  <2> QED
    BY <1>0, <1>13, <2>1, <2>2 DEF Swap
<1>14. CASE Tick
  <2>1. \A b \in Buds : running[b] => left[b] \in 1..AutoOff
    BY <1>0, <1>14 DEF Tick, Settled, Due, TimerTypes
  <2>2. TimerTypes'
    BY <1>0, <1>14, <2>1 DEF Tick, TimerTypes
  <2> QED
    BY <1>0, <1>14, <2>2 DEF Tick
<1>15. CASE UNCHANGED vars
  BY <1>0, <1>15 DEF vars
<1> QED
  BY <1>1, <1>2, <1>3, <1>4, <1>5, <1>6, <1>7, <1>8, <1>9, <1>10, <1>11, <1>12, <1>13,
     <1>14, <1>15, Types DEF Next, Bud

(* Every state has the types of earphone.c, whatever the disturbances. *)
THEOREM TypeCorrect == Spec => []TypeOK
  BY InitTypes, NextTypes, PTL DEF Spec

-----------------------------------------------------------------------------
(* The link and the buds that run. A pair that is linked runs on both     *)
(* sides, its master has the phone, and nobody else pages for one. A bud  *)
(* that is off has no timer, and nothing waits for it.                    *)
Structure ==
    /\ Linked => on = Buds /\ paging \subseteq {master}
    /\ phone # None => phone \in on /\ (Linked => phone = master) /\ phone \notin paging
    /\ profile => phone # None
    /\ paging \subseteq on
    /\ \A b \in Buds : running[b] => handle[b]
    /\ \A b \in Buds \ on : /\ ~handle[b] /\ events[b] = <<>>
                            /\ \A c \in calls : c.to # b

(* What a handler of b does besides b's timer. *)
HandlerFrame(b) ==
    /\ UNCHANGED <<on, leaving, master, phone, profile>>
    /\ Receives(b, Head(events[b])) /\ events[b] # <<>>
    /\ OthersKept(b) /\ ((running[b] => handle[b]) => (running'[b] => handle'[b]))
    /\ calls \subseteq calls'
    /\ \A c \in calls' \ calls :
         /\ c \in SyncCall(b, "SHUT_DOWN_TIME") /\ IsMaster(b)
         /\ Head(events[b]) \in {"HCI_DISCONNECT", "HCI_TIMEOUT", "PAGE_TIMEOUT"}
    /\ paging \subseteq paging' /\ paging' \subseteq paging \cup {b}
    /\ b \in paging' \ paging => IsMaster(b) /\ phone # b

LEMMA HandlersFrame ==
    ASSUME TypeOK, NEW b \in Buds, Handles(b)
    PROVE  HandlerFrame(b)
<1> USE DEF HandlerFrame, timers, link
<1> DEFINE Set == OthersKept(b) /\ ((running[b] => handle[b]) => (running'[b] => handle'[b]))
<1>0. TimerTypes /\ (UNCHANGED timers => Set)
  BY Types DEF OthersKept, TimerTypes
<1>1. CASE TwsConnected(b)
  <2>1. Set
    BY <1>0, <1>1, Restarts DEF TwsConnected
  <2> QED
    BY <1>1, <2>1 DEF TwsConnected, Receives
<1>2. CASE TwsDetach(b)
  <2>1. Set
    BY <1>0, <1>2 DEF TwsDetach, OthersKept, TimerTypes
  <2> QED
    BY <1>2, <2>1 DEF TwsDetach, Receives
<1>3. CASE PhoneLinkDetach(b)
  <2>1. Set
    BY <1>0, <1>3, Enables DEF PhoneLinkDetach
  <2> QED
    BY <1>3, <2>1 DEF PhoneLinkDetach, Receives
<1>4. CASE HciConnect(b)
  BY <1>0, <1>4, Disables DEF HciConnect, Receives
<1>5. CASE PhoneConnected(b)
  BY <1>0, <1>5, Disables DEF PhoneConnected, Receives
<1>6. CASE HciDisconnect(b)
  <2>1. Set
    BY <1>0, <1>6, Enables DEF HciDisconnect
  <2>2. CASE Receives(b, "HCI_DISCONNECT")
    BY <1>6, <2>1, <2>2 DEF HciDisconnect, SyncsTimes, Receives
  <2>3. CASE Receives(b, "HCI_LOST")
    BY <1>6, <2>1, <2>3 DEF HciDisconnect, Pages, Receives
  <2> QED
    BY <1>6, <2>2, <2>3 DEF HciDisconnect
<1>7. CASE PageTimeout(b)
  BY <1>0, <1>7 DEF PageTimeout, SyncsTimes, Receives
<1>8. CASE HciTimeout(b)
  BY <1>0, <1>8 DEF HciTimeout, SyncsTimes, Pages, Receives
<1> QED
  BY <1>1, <1>2, <1>3, <1>4, <1>5, <1>6, <1>7, <1>8 DEF Handles

LEMMA InitStructure == Init => Structure
  BY DEF Init, Structure, Linked

LEMMA NextStructure ==
    ASSUME TypeOK, Structure, [Next]_vars
    PROVE  Structure'
<1> USE DEF Structure, Linked, timers, link
<1>0. /\ TimerTypes /\ EventsType /\ BudTypes /\ LinkTypes /\ CallTypes
      /\ TimerTypes' /\ EventsType' /\ LinkTypes'
  BY Types, NextTypes
<1>1. ASSUME NEW b \in Buds, Handles(b) PROVE Structure'
  <2>1. HandlerFrame(b) /\ b \in on
    BY <1>1, HandlersFrame DEF HandlerFrame
  <2>2. /\ UNCHANGED <<on, master, phone, profile>> /\ OthersKept(b)
        /\ paging' \subseteq paging \cup {b} /\ (b \in paging' \ paging => IsMaster(b) /\ phone # b)
        /\ \A c \in Buds \ {b} : events'[c] = events[c]
    BY <1>0, <2>1, Receipt DEF HandlerFrame, EventsType
  <2>3. /\ Linked => paging' \subseteq {master}
        /\ phone # None => phone \notin paging'
        /\ paging' \subseteq on
    BY <2>1, <2>2 DEF IsMaster
  <2>4. /\ \A d \in Buds \ on : ~handle'[d] /\ events'[d] = <<>>
        /\ \A d \in Buds : running'[d] => handle'[d]
    BY <2>1, <2>2 DEF OthersKept, HandlerFrame
  <2>5. ASSUME NEW d \in Buds \ on, NEW c \in calls' PROVE c.to # d
    <3>1. c \in calls \/ c \in SyncCall(b, "SHUT_DOWN_TIME")
      BY <2>1 DEF HandlerFrame
    <3>2. c \in SyncCall(b, "SHUT_DOWN_TIME") => Linked \/ c.to = b
      BY Syncs
    <3> QED
      BY <2>1, <3>1, <3>2
  <2> QED
    BY <2>2, <2>3, <2>4, <2>5
<1>2. ASSUME NEW b \in Buds, sys_auto_shut_down_deal(b) PROVE Structure'
  <2>1. UNCHANGED <<on, events, link>> /\ b \in on
    BY <1>2 DEF sys_auto_shut_down_deal, Due
  <2>2. /\ \A d \in Buds \ on : ~handle'[d]
        /\ \A d \in Buds : running'[d] => handle'[d]
    <3>1. CASE EntersPowerOff(b)
      BY <1>0, <2>1, <3>1, Leaves DEF BudTypes, OthersKept
    <3>2. CASE RunsOut(b)
      BY <1>0, <2>1, <3>2, TimesOut DEF RunsOutFacts, OthersKept
    <3> QED
      BY <1>2, <3>1, <3>2 DEF sys_auto_shut_down_deal
  <2>3. ASSUME NEW d \in Buds \ on, NEW c \in calls' PROVE c.to # d
    <3>1. c \in calls \/ c \in SyncCall(b, "POWER_OFF_TOGETHER")
      BY <1>2 DEF sys_auto_shut_down_deal
    <3>2. c \in SyncCall(b, "POWER_OFF_TOGETHER") => Linked \/ c.to = b
      BY Syncs
    <3> QED
      BY <2>1, <3>1, <3>2
  <2> QED
    BY <2>1, <2>2, <2>3
<1>3. ASSUME NEW b \in Buds, Ends(b) PROVE Structure'
  <2>0. OthersKept(b) /\ ~handle'[b] /\ ~running'[b]
    BY <1>0, <1>3, Disables DEF Ends
  <2>1. /\ on' = on \ {b} /\ master' = None /\ paging' = paging \ {b}
        /\ profile' => phone' # None
        /\ phone' = IF phone = b THEN IF Linked THEN Sibling(b) ELSE None ELSE phone
    BY <1>3 DEF Ends
  <2>2. phone' # None => phone' \in on' /\ phone' \notin paging'
    <3>1. CASE phone = b /\ Linked
      BY <1>0, <2>1, <3>1, TwoBuds
    <3>2. CASE ~(phone = b /\ Linked)
      BY <2>1, <3>2
    <3> QED
      BY <3>1, <3>2
  <2>3. /\ \A d \in Buds \ on' : ~handle'[d]
        /\ \A d \in Buds : running'[d] => handle'[d]
    BY <2>0, <2>1 DEF OthersKept
  <2>4. \A d \in Buds \ on' : events'[d] = <<>> /\ \A c \in calls' : c.to # d
    <3>1. /\ events' = [c \in Buds |-> IF c = b THEN <<>> ELSE IF Linked THEN Append(events[c], "DETACH")
                                       ELSE events[c]]
          /\ calls' = {c \in calls : c.to # b /\ (c.to = c.from)}
      BY <1>3 DEF Ends
    <3> QED
      BY <2>1, <3>1
  <2> QED
    BY <2>1, <2>2, <2>3, <2>4
<1>4. ASSUME NEW b \in Buds, PageFails(b) PROVE Structure'
  BY <1>0, <1>4 DEF PageFails, EventsType
<1>5. ASSUME NEW b \in Buds, PowerOn(b) PROVE Structure'
  <2>1. /\ OthersKept(b) /\ handle'[b]
    BY <1>0, <1>5, Enables DEF PowerOn
  <2> QED
    BY <1>5, <2>1 DEF PowerOn, OthersKept
<1>6. ASSUME NEW b \in Buds, PhoneComes(b) PROVE Structure'
  <2>1. /\ b \in on /\ phone = None /\ IsMaster(b) /\ phone' = b /\ paging' = paging \ {b}
        /\ UNCHANGED <<on, timers, calls, master, profile>>
    BY <1>6 DEF PhoneComes
  <2>2. \A d \in Buds : Linked \/ d = b \/ events'[d] = events[d]
    <3>1. "HCI_CONNECT" \in Posted /\ b # None
      BY DEF Posted
    <3> QED
      BY <1>0, <1>6, <2>1, <3>1, PhonePosts DEF PhoneComes
  <2> QED
    BY <1>0, <2>1, <2>2 DEF IsMaster
<1>7. ASSUME NEW c \in calls, Executes(c) PROVE Structure'
  <2>1. c.to \in on /\ c.to \in Buds
    BY <1>0 DEF CallTypes, Call
  <2>2. UNCHANGED <<on, events, link>> /\ calls' \subseteq calls
    BY <1>7 DEF Executes
  <2>3. /\ \A d \in Buds \ on : ~handle'[d]
        /\ \A d \in Buds : running'[d] => handle'[d]
    <3>1. CASE Restart(c.to)
      BY <1>0, <2>1, <3>1, Restarts DEF OthersKept
    <3>2. CASE EntersPowerOff(c.to)
      BY <1>0, <2>1, <3>2, Leaves DEF BudTypes, OthersKept
    <3> QED
      BY <1>7, <3>1, <3>2 DEF Executes
  <2> QED
    BY <2>2, <2>3
<1>8. CASE Link
  <2>1. master' \in Buds /\ (phone # None => master' = phone)
    BY <1>0, <1>8, LinkPosts
  <2> QED
    BY <1>0, <1>8, <2>1 DEF Link
<1>9. CASE Fade
  <2>1. on = Buds
    BY <1>9 DEF Fade
  <2> QED
    BY <1>0, <1>9, <2>1 DEF Fade, Cut
<1>10. CASE ProfilesConnect
  <2>1. /\ \A d \in Buds : Linked \/ d = phone \/ events'[d] = events[d]
    <3>1. "PHONE_CONNECTED" \in Posted
      BY DEF Posted
    <3> QED
      BY <1>0, <1>10, <3>1, PhonePosts DEF ProfilesConnect
  <2> QED
    BY <1>0, <1>10, <2>1 DEF ProfilesConnect
<1>11. ASSUME NEW ev \in PhoneEvents, PhoneGoes(ev) PROVE Structure'
  <2>1. phone # None /\ phone' = None /\ ~profile' /\ UNCHANGED <<on, timers, calls, master, paging>>
    BY <1>11 DEF PhoneGoes
  <2>2. \A d \in Buds : Linked \/ d = phone \/ events'[d] = events[d]
    BY <1>0, <1>11, <2>1, LeavingPosts
  <2> QED
    BY <2>1, <2>2
<1>12. CASE Swap
  <2>1. master \in Buds /\ Sibling(master) \in Buds /\ Sibling(master) # master
    BY <1>0, <1>12, TwoBuds DEF Swap, LinkTypes
  <2>2. /\ on = Buds /\ master' = Sibling(master) /\ (phone # None => phone = master /\ phone' = Sibling(phone))
        /\ phone = None => phone' = None
        /\ paging' = IF paging = {} THEN {} ELSE {master'}
        /\ UNCHANGED <<on, timers, events, calls, profile>>
    BY <1>12 DEF Swap
  <2>3. phone # None => paging = {}
    BY <2>2, <1>12 DEF Swap
  <2> QED
    BY <2>1, <2>2, <2>3
<1>13. CASE Tick
  BY <1>13 DEF Tick
<1>14. CASE UNCHANGED vars
  BY <1>14 DEF vars
<1> QED
  BY <1>1, <1>2, <1>3, <1>4, <1>5, <1>6, <1>7, <1>8, <1>9, <1>10, <1>11, <1>12, <1>13, <1>14
  DEF Next, Bud, PowersOff, IntoCase

-----------------------------------------------------------------------------
(* While the profiles of the phone are connected nothing is on its way     *)
(* that could start the timer of a bud that shares the phone, and a timer  *)
(* that still runs has the event before it that stops it.                  *)

Sharing(b) == b \in on /\ phone # None /\ (Linked \/ phone = b)

(* What the phone has brought about before its profiles connect. *)
Earlier == {"CONNECTED", "PHONE_LINK_DETACH", "HCI_DISCONNECT", "HCI_LOST", "HCI_TIMEOUT"}

InUse(b) ==
    /\ ~Holds(events[b], Earlier)
    /\ Sharing(b) =>
         /\ running[b] => Holds(events[b], {"PHONE_CONNECTED"})
         /\ ~Holds(events[b], {"PAGE_TIMEOUT"})
         /\ \A c \in calls : c.to = b => c.what # "SHUT_DOWN_TIME"

QuietInv == profile => \A b \in Buds : InUse(b)

LEMMA InitQuiet == Init => QuietInv
  BY DEF Init, QuietInv

(* The bud whose handler runs, and the other one. *)
LEMMA HandlersQuiet ==
    ASSUME TypeOK, Structure, QuietInv, profile, NEW b \in Buds, Handles(b), NEW d \in Buds
    PROVE  InUse(d)'
<1>0. /\ TimerTypes /\ EventsType /\ HandlerFrame(b) /\ phone # None /\ b \in on
      /\ events \in [Buds -> Seq(Posted)]
  BY Types, HandlersFrame DEF HandlerFrame, Structure, EventsType
<1>1. /\ UNCHANGED <<on, master, phone, profile>> /\ OthersKept(b)
      /\ \A c \in calls' \ calls : /\ c \in SyncCall(b, "SHUT_DOWN_TIME") /\ IsMaster(b)
                                   /\ Head(events[b]) \in {"HCI_DISCONNECT", "HCI_TIMEOUT", "PAGE_TIMEOUT"}
      /\ events[b] # <<>> /\ Receives(b, Head(events[b]))
  BY <1>0 DEF HandlerFrame
<1>2. /\ events'[b] = Tail(events[b]) /\ events[b] \in Seq(Posted)
      /\ \A c \in Buds \ {b} : events'[c] = events[c]
  BY <1>0, <1>1, Receipt
<1>3. /\ ~Holds(events[b], Earlier) /\ ~Holds(events[d], Earlier)
      /\ Sharing(b) => ~Holds(events[b], {"PAGE_TIMEOUT"})
  BY DEF QuietInv, InUse
<1>4. /\ Head(events[b]) \notin Earlier /\ ~Holds(Tail(events[b]), Earlier)
      /\ Sharing(b) => Head(events[b]) # "PAGE_TIMEOUT" /\ ~Holds(Tail(events[b]), {"PAGE_TIMEOUT"})
      /\ Head(events[b]) # "PHONE_CONNECTED" /\ Holds(events[b], {"PHONE_CONNECTED"})
           => Holds(Tail(events[b]), {"PHONE_CONNECTED"})
  BY <1>1, <1>2, <1>3, TailHolds
(* A call that starts timers comes from a bud without the phone. *)
<1>5. ASSUME Sharing(d), NEW c \in calls', c.to = d PROVE c.what # "SHUT_DOWN_TIME"
  <2>1. CASE c \in calls
    BY <1>5, <2>1 DEF QuietInv, InUse
  <2>2. CASE c \notin calls
    <3>1. Head(events[b]) = "PAGE_TIMEOUT"
      BY <1>1, <1>4, <2>2 DEF Earlier
    <3>2. ~Linked /\ phone # b
      BY <1>0, <1>4, <3>1 DEF Sharing
    <3>3. c.to = b
      BY <1>1, <2>2, <3>2, Syncs
    <3> QED
      BY <1>5, <3>2, <3>3 DEF Sharing
  <2> QED
    BY <2>1, <2>2
<1>6. CASE d # b
  BY <1>1, <1>2, <1>3, <1>5, <1>6 DEF QuietInv, InUse, Sharing, OthersKept, Linked
<1>7. CASE d = b
  <2>1. ASSUME Sharing(b), running'[b] PROVE Holds(events'[b], {"PHONE_CONNECTED"})
    <3>1. Head(events[b]) \notin {"HCI_CONNECT", "PHONE_CONNECTED"} /\ running[b]
      <4>1. \/ /\ Head(events[b]) \in {"CONNECTED_PHONE", "DETACH"}
               /\ UNCHANGED running
            \/ ~running'[b]
        <5>1. CASE TwsConnected(b)
          BY <1>4, <5>1 DEF TwsConnected, Receives, Earlier, timers
        <5>2. CASE TwsDetach(b)
          BY <5>2 DEF TwsDetach, Receives
        <5>3. CASE HciConnect(b) \/ PhoneConnected(b)
          BY <1>0, <5>3, Disables DEF HciConnect, PhoneConnected
        <5>4. CASE PhoneLinkDetach(b) \/ HciDisconnect(b) \/ HciTimeout(b)
          BY <1>4, <5>4 DEF PhoneLinkDetach, HciDisconnect, HciTimeout, Receives, Earlier
        <5>5. CASE PageTimeout(b)
          BY <1>4, <2>1, <5>5 DEF PageTimeout, Receives
        <5> QED
          BY <5>1, <5>2, <5>3, <5>4, <5>5 DEF Handles
      <4> QED
        BY <2>1, <4>1
    <3>2. Holds(events[b], {"PHONE_CONNECTED"})
      BY <2>1, <3>1 DEF QuietInv, InUse
    <3> QED
      BY <1>2, <1>4, <3>1, <3>2
  <2>2. Sharing(b)' <=> Sharing(b)
    BY <1>1 DEF Sharing, Linked
  <2> QED
    BY <1>2, <1>4, <1>5, <1>7, <2>1, <2>2 DEF InUse
<1> QED
  BY <1>6, <1>7

LEMMA NextQuiet ==
    ASSUME TypeOK, Structure, QuietInv, [Next]_vars
    PROVE  QuietInv'
<1> SUFFICES ASSUME profile', NEW d \in Buds PROVE InUse(d)'
  BY DEF QuietInv
<1> USE DEF Linked, timers, link
<1>0. /\ TimerTypes /\ EventsType /\ BudTypes /\ LinkTypes /\ CallTypes
      /\ events[d] \in Seq(Posted)
  BY Types DEF EventsType
<1>1. ASSUME NEW b \in Buds, Handles(b) PROVE InUse(d)'
  BY <1>1, HandlersFrame, HandlersQuiet DEF HandlerFrame
<1>2. ASSUME NEW b \in Buds, sys_auto_shut_down_deal(b) PROVE InUse(d)'
  <2>1. UNCHANGED <<on, events, link>>
    BY <1>2 DEF sys_auto_shut_down_deal
  <2>2. running'[d] => running[d]
    <3>1. CASE EntersPowerOff(b)
      BY <1>0, <3>1, Leaves DEF BudTypes, OthersKept
    <3>2. CASE RunsOut(b)
      BY <1>0, <3>2, TimesOut DEF RunsOutFacts, OthersKept
    <3> QED
      BY <1>2, <3>1, <3>2 DEF sys_auto_shut_down_deal
  <2>3. ASSUME NEW c \in calls' PROVE c \in calls \/ c.what # "SHUT_DOWN_TIME"
    <3>1. c \in calls \/ c \in SyncCall(b, "POWER_OFF_TOGETHER")
      BY <1>2 DEF sys_auto_shut_down_deal
    <3>2. c \in SyncCall(b, "POWER_OFF_TOGETHER") => c.what = "POWER_OFF_TOGETHER"
      BY Syncs
    <3> QED
      BY <3>1, <3>2
  <2> QED
    BY <2>1, <2>2, <2>3 DEF QuietInv, InUse, Sharing
<1>3. ASSUME NEW b \in Buds, Ends(b) PROVE InUse(d)'
  <2>0. /\ OthersKept(b) /\ ~running'[b] /\ profile
        /\ on' = on \ {b} /\ master' = None /\ calls' \subseteq calls
        /\ phone' = IF phone = b THEN IF Linked THEN Sibling(b) ELSE None ELSE phone
        /\ events'[d] = IF d = b THEN <<>> ELSE IF Linked THEN Append(events[d], "DETACH") ELSE events[d]
    BY <1>0, <1>3, Disables DEF Ends
  <2>1. CASE d = b
    BY <2>0, <2>1, EmptyHolds DEF InUse, Sharing
  <2>2. CASE d # b
    <3>1. events'[d] = events[d] \/ Gets(d, "DETACH")
      BY <2>0, <2>2 DEF Gets
    <3>2. Sharing(d)' => Sharing(d)
      BY <1>0, <2>0, <2>2 DEF Sharing, Structure
    <3>3. running'[d] = running[d]
      BY <2>0, <2>2 DEF OthersKept
    <3>4. InUse(d)
      BY <2>0 DEF QuietInv
    <3>5. /\ ~Holds(events'[d], Earlier)
          /\ Holds(events[d], {"PHONE_CONNECTED"}) => Holds(events'[d], {"PHONE_CONNECTED"})
          /\ ~Holds(events[d], {"PAGE_TIMEOUT"}) => ~Holds(events'[d], {"PAGE_TIMEOUT"})
      <4>1. CASE events'[d] = events[d]
        BY <3>4, <4>1 DEF InUse
      <4>2. CASE Gets(d, "DETACH")
        <5>1. "DETACH" \in Posted /\ "DETACH" \notin Earlier
          BY DEF Posted, Earlier
        <5> QED
          BY <1>0, <3>4, <4>2, <5>1, AppendHolds DEF InUse, Gets
      <4> QED
        BY <3>1, <4>1, <4>2
    <3> QED
      BY <2>0, <3>2, <3>3, <3>4, <3>5 DEF InUse
  <2> QED
    BY <2>1, <2>2
<1>4. ASSUME NEW b \in Buds, PageFails(b) PROVE InUse(d)'
  <2>0. /\ b \in paging /\ UNCHANGED <<on, timers, calls, master, phone, profile>>
        /\ events'[d] = IF d = b THEN Append(events[d], "PAGE_TIMEOUT") ELSE events[d]
        /\ InUse(d)
    BY <1>0, <1>4 DEF PageFails, EventsType, QuietInv
  <2>1. CASE d # b
    BY <2>0, <2>1 DEF InUse, Sharing
  <2>2. CASE d = b
    <3>1. ~Sharing(b)
      BY <2>0 DEF Sharing, Structure
    <3>2. "PAGE_TIMEOUT" \in Posted /\ "PAGE_TIMEOUT" \notin Earlier
      BY DEF Posted, Earlier
    <3>3. ~Holds(events'[d], Earlier)
      BY <1>0, <2>0, <2>2, <3>2, AppendHolds DEF InUse
    <3> QED
      BY <2>0, <2>2, <3>1, <3>3 DEF InUse, Sharing
  <2> QED
    BY <2>1, <2>2
<1>5. ASSUME NEW b \in Buds, PowerOn(b) PROVE InUse(d)'
  <2>0. /\ OthersKept(b) /\ b \notin on /\ on' = on \cup {b}
        /\ UNCHANGED <<events, calls, master, phone, profile>>
        /\ InUse(d)
    BY <1>0, <1>5, Enables DEF PowerOn, QuietInv
  <2>1. d # b => (Sharing(d)' <=> Sharing(d)) /\ running'[d] = running[d]
    BY <2>0 DEF Sharing, OthersKept
  <2>2. ~Sharing(b)'
    BY <2>0 DEF Sharing, Structure
  <2> QED
    BY <2>0, <2>1, <2>2 DEF InUse
<1>6. ASSUME NEW b \in Buds, PhoneComes(b) PROVE InUse(d)'
  BY <1>6 DEF PhoneComes, Structure
<1>7. ASSUME NEW c \in calls, Executes(c) PROVE InUse(d)'
  <2>0. /\ c.to \in Buds /\ UNCHANGED <<on, events, link>> /\ calls' \subseteq calls
        /\ InUse(d)
    BY <1>0, <1>7 DEF Executes, CallTypes, Call, QuietInv
  <2>1. Sharing(d) => (running'[d] => running[d])
    <3>1. CASE c.what = "SHUT_DOWN_TIME"
      <4>1. Sharing(d) => c.to # d
        BY <2>0, <3>1 DEF InUse
      <4>2. OthersKept(c.to)
        BY <1>0, <1>7, <2>0, <3>1, Restarts DEF Executes
      <4> QED
        BY <4>1, <4>2 DEF OthersKept
    <3>2. CASE c.what # "SHUT_DOWN_TIME"
      BY <1>0, <1>7, <2>0, <3>2, Leaves DEF Executes, BudTypes, OthersKept
    <3> QED
      BY <3>1, <3>2
  <2> QED
    BY <2>0, <2>1 DEF InUse, Sharing
(* A bud that joins the one with the phone hears of the phone. *)
<1>8. CASE Link
  <2>0. /\ profile /\ phone # None /\ calls' = {} /\ UNCHANGED <<timers, on, phone>> /\ on = Buds
        /\ master' = phone /\ events[d] = <<>>
    BY <1>8, LinkPosts, <1>0 DEF Link, Structure, Settled
  <2>1. \/ d = phone /\ Gets(d, "CONNECTED_PHONE")
        \/ d # phone /\ events'[d] = Append(Append(events[d], "CONNECTED_PHONE"), "PHONE_CONNECTED")
    BY <1>0, <1>8, <2>0, LinkPosts
  <2>2. d = phone => ~running[d]
    BY <2>0, EmptyHolds DEF QuietInv, InUse, Sharing
  <2>3. /\ {"CONNECTED_PHONE", "PHONE_CONNECTED"} \subseteq Posted
        /\ ~Holds(events[d], Earlier) /\ ~Holds(events[d], {"PAGE_TIMEOUT"})
        /\ {"CONNECTED_PHONE", "PHONE_CONNECTED"} \cap (Earlier \cup {"PAGE_TIMEOUT"}) = {}
    BY <2>0, EmptyHolds DEF Posted, Earlier
  <2>4. /\ Append(events[d], "CONNECTED_PHONE") \in Seq(Posted)
        /\ ~Holds(Append(events[d], "CONNECTED_PHONE"), Earlier)
        /\ ~Holds(Append(events[d], "CONNECTED_PHONE"), {"PAGE_TIMEOUT"})
    BY <1>0, <2>3, AppendHolds
  <2>5. /\ ~Holds(events'[d], Earlier) /\ ~Holds(events'[d], {"PAGE_TIMEOUT"})
        /\ d # phone => Holds(events'[d], {"PHONE_CONNECTED"})
    <3>1. CASE d = phone
      <4>1. events'[d] = Append(events[d], "CONNECTED_PHONE")
        BY <2>1, <3>1 DEF Gets
      <4> QED
        BY <2>4, <3>1, <4>1
    <3>2. CASE d # phone
      <4> DEFINE q == Append(events[d], "CONNECTED_PHONE")
      <4>1. events'[d] = Append(q, "PHONE_CONNECTED") /\ q \in Seq(Posted)
        BY <2>1, <2>4, <3>2
      <4>2. \A E : Holds(Append(q, "PHONE_CONNECTED"), E) <=> Holds(q, E) \/ "PHONE_CONNECTED" \in E
        <5> HIDE DEF q
        <5> QED
          BY <2>3, <4>1, AppendHolds
      <4> QED
        BY <2>3, <2>4, <4>1, <4>2
    <3> QED
      BY <3>1, <3>2
  <2> QED
    BY <2>0, <2>2, <2>5 DEF InUse
<1>9. CASE Fade
  <2>0. /\ profile /\ UNCHANGED <<on, timers, phone>> /\ calls' \subseteq calls /\ Gets(d, "DETACH")
        /\ Sharing(d)' => Sharing(d)
    BY <1>0, <1>9, FadePosts DEF Fade, Cut, Sharing
  <2>1. InUse(d) /\ "DETACH" \in Posted /\ "DETACH" \notin Earlier
    BY <2>0 DEF QuietInv, Posted, Earlier
  <2>2. /\ ~Holds(events'[d], Earlier)
        /\ Holds(events[d], {"PHONE_CONNECTED"}) => Holds(events'[d], {"PHONE_CONNECTED"})
        /\ ~Holds(events[d], {"PAGE_TIMEOUT"}) => ~Holds(events'[d], {"PAGE_TIMEOUT"})
    BY <1>0, <2>0, <2>1, AppendHolds DEF InUse, Gets
  <2> QED
    BY <2>0, <2>1, <2>2 DEF InUse
<1>10. CASE ProfilesConnect
  <2>0. /\ calls' = {} /\ UNCHANGED <<on, timers, master, phone>> /\ events[d] = <<>>
        /\ IF Linked \/ phone = d THEN Gets(d, "PHONE_CONNECTED") ELSE events'[d] = events[d]
    <3>1. "PHONE_CONNECTED" \in Posted
      BY DEF Posted
    <3> QED
      BY <1>0, <1>10, <3>1, PhonePosts DEF ProfilesConnect, Settled
  <2>1. /\ "PHONE_CONNECTED" \in Posted /\ "PHONE_CONNECTED" \notin Earlier
        /\ ~Holds(events[d], Earlier) /\ ~Holds(events[d], {"PAGE_TIMEOUT"})
    BY <2>0, EmptyHolds DEF Posted, Earlier
  <2>2. /\ ~Holds(events'[d], Earlier) /\ ~Holds(events'[d], {"PAGE_TIMEOUT"})
        /\ Linked \/ phone = d => Holds(events'[d], {"PHONE_CONNECTED"})
    <3>1. \A E : Holds(Append(events[d], "PHONE_CONNECTED"), E)
                  <=> Holds(events[d], E) \/ "PHONE_CONNECTED" \in E
      BY <1>0, <2>1, AppendHolds
    <3> QED
      BY <2>0, <2>1, <3>1 DEF Gets
  <2> QED
    BY <2>0, <2>2 DEF InUse, Sharing
<1>11. ASSUME NEW ev \in PhoneEvents, PhoneGoes(ev) PROVE InUse(d)'
  BY <1>11 DEF PhoneGoes
<1>12. CASE Swap
  <2>0. /\ on = Buds /\ UNCHANGED <<on, timers, events, calls, profile>> /\ Linked
        /\ events[d] = <<>> /\ calls = {} /\ phone # None /\ InUse(d)
    BY <1>12 DEF Swap, Structure, Settled, QuietInv
  <2>1. Sharing(d)
    BY <2>0 DEF Sharing
  <2>2. ~running[d]
    BY <2>0, <2>1, EmptyHolds DEF InUse
  <2> QED
    BY <2>0, <2>2, EmptyHolds DEF InUse
<1>13. CASE Tick
  <2>1. UNCHANGED <<on, running, events, calls, link>>
    BY <1>13 DEF Tick
  <2> QED
    BY <2>1 DEF QuietInv, InUse, Sharing
<1>14. CASE UNCHANGED vars
  BY <1>14 DEF vars, QuietInv, InUse, Sharing
<1> QED
  BY <1>1, <1>2, <1>3, <1>4, <1>5, <1>6, <1>7, <1>8, <1>9, <1>10, <1>11, <1>12, <1>13, <1>14
  DEF Next, Bud, PowersOff, IntoCase

(* For any time of the timer and any number of disturbances: once the      *)
(* profiles of the phone are connected and the events handled, no bud that *)
(* shares them has a timer that runs.                                      *)
THEOREM AlwaysQuiet == Spec => []QuietInUse
<1> DEFINE Inv == TypeOK /\ Structure /\ QuietInv
<1>1. Init => Inv
  BY InitTypes, InitStructure, InitQuiet
<1>2. Inv /\ [Next]_vars => Inv'
  BY NextTypes, NextStructure, NextQuiet
<1>3. Inv => QuietInUse
  <2> SUFFICES ASSUME Structure, QuietInv, profile, NEW b \in on, TypeOK,
                      events[b] = <<>>, Linked \/ phone = b, calls = {}
               PROVE  ~running[b]
    BY DEF QuietInUse
  <2>1. b \in Buds /\ InUse(b)
    BY DEF QuietInv, TypeOK
  <2>2. Sharing(b)
    BY DEF Sharing, Structure
  <2>3. ~Holds(events[b], {"PHONE_CONNECTED"})
    BY EmptyHolds
  <2> QED
    BY <2>1, <2>2, <2>3 DEF InUse
<1> QED
  BY <1>1, <1>2, <1>3, PTL DEF Spec

-----------------------------------------------------------------------------
(* A timer that has run out on the master has asked for a power-off.       *)

(* The call of kind what that b has asked for and has still to execute. *)
Called(b, what) == \E c \in calls : c.to = b /\ c.from = b /\ c.what = what

(* A handle without a timer that no slave has kept. *)
RanOut(b) == handle[b] /\ ~running[b] /\ b \notin behind

HandleInv == \A b \in Buds : RanOut(b) /\ ~leaving[b] => Called(b, "POWER_OFF_TOGETHER")

(* No handler makes a handle without a timer, and only the events of Stops *)
(* take away what has started.                                             *)
LEMMA HandlersTimer ==
    ASSUME TimerTypes, NEW b \in Buds, Handles(b)
    PROVE  /\ RanOut(b)' => RanOut(b)
           /\ Head(events[b]) \notin Stops /\ (handle[b] \/ b \in behind) => handle'[b] \/ b \in behind'
<1> USE DEF RanOut, timers
<1>1. CASE TwsConnected(b)
  BY <1>1, Restarts DEF TwsConnected
<1>2. CASE TwsDetach(b)
  BY <1>2 DEF TwsDetach
<1>3. CASE PhoneLinkDetach(b)
  BY <1>3, Enables DEF PhoneLinkDetach
<1>4. CASE HciConnect(b) \/ PhoneConnected(b)
  BY <1>4, Disables DEF HciConnect, PhoneConnected, Receives, Stops
<1>5. CASE HciDisconnect(b)
  BY <1>5, Enables DEF HciDisconnect
<1>6. CASE PageTimeout(b) \/ HciTimeout(b)
  BY <1>6 DEF PageTimeout, HciTimeout
<1> QED
  BY <1>1, <1>2, <1>3, <1>4, <1>5, <1>6 DEF Handles

LEMMA NextHandle ==
    ASSUME TypeOK, Structure, HandleInv, [Next]_vars
    PROVE  HandleInv'
<1> SUFFICES ASSUME NEW d \in Buds, RanOut(d)', ~leaving'[d] PROVE Called(d, "POWER_OFF_TOGETHER")'
  BY DEF HandleInv
<1> USE DEF timers, link, RanOut
<1>0. /\ TimerTypes /\ BudTypes /\ CallTypes /\ EventsType
      /\ RanOut(d) /\ ~leaving[d] => Called(d, "POWER_OFF_TOGETHER")
      /\ calls \subseteq calls' /\ Called(d, "POWER_OFF_TOGETHER") => Called(d, "POWER_OFF_TOGETHER")'
  BY Types DEF HandleInv, Called
<1>1. ASSUME NEW b \in Buds, Handles(b) PROVE Called(d, "POWER_OFF_TOGETHER")'
  <2>1. OthersKept(b) /\ UNCHANGED leaving /\ calls \subseteq calls'
    BY <1>1, HandlersFrame DEF HandlerFrame
  <2>2. RanOut(d)
    BY <1>0, <1>1, <2>1, HandlersTimer DEF OthersKept
  <2> QED
    BY <1>0, <2>1, <2>2
<1>2. ASSUME NEW b \in Buds, sys_auto_shut_down_deal(b) PROVE Called(d, "POWER_OFF_TOGETHER")'
  <2>0. calls \subseteq calls'
    BY <1>2 DEF sys_auto_shut_down_deal
  <2>1. CASE ~sib[b] /\ ~leaving[b]
    <3>1. EntersPowerOff(b)
      BY <1>2, <2>1 DEF sys_auto_shut_down_deal
    <3>2. /\ OthersKept(b) /\ leaving'[b] /\ \A c \in Buds \ {b} : leaving'[c] = leaving[c]
      BY <1>0, <3>1, Leaves DEF BudTypes
    <3> QED
      BY <1>0, <2>0, <3>2 DEF OthersKept
  <2>2. CASE ~(~sib[b] /\ ~leaving[b])
    <3>1. /\ RunsOut(b) /\ UNCHANGED leaving
          /\ calls' = calls \cup IF sib[b] /\ IsMaster(b) THEN SyncCall(b, "POWER_OFF_TOGETHER") ELSE {}
      BY <1>2, <2>2 DEF sys_auto_shut_down_deal
    <3>2. RunsOutFacts(b)
      BY <1>0, <3>1, TimesOut
    <3>3. CASE d = b
      <4>1. IsMaster(b) /\ sib[b]
        BY <2>2, <3>1, <3>2, <3>3 DEF RunsOutFacts
      <4>2. \E c \in SyncCall(b, "POWER_OFF_TOGETHER") : c.to = b /\ c.from = b
                                                         /\ c.what = "POWER_OFF_TOGETHER"
        BY Syncs
      <4> QED
        BY <3>1, <3>3, <4>1, <4>2 DEF Called
    <3>4. CASE d # b
      BY <1>0, <2>0, <3>1, <3>2, <3>4 DEF RunsOutFacts, OthersKept
    <3> QED
      BY <3>3, <3>4
  <2> QED
    BY <2>1, <2>2
<1>3. ASSUME NEW b \in Buds, Ends(b) PROVE Called(d, "POWER_OFF_TOGETHER")'
  <2>1. OthersKept(b) /\ ~handle'[b]
    BY <1>0, <1>3, Disables DEF Ends
  <2>2. d # b /\ leaving'[d] = leaving[d] /\ calls' = {c \in calls : c.to # b /\ (c.to = c.from)}
    BY <1>0, <1>3, <2>1 DEF Ends, BudTypes
  <2>3. Called(d, "POWER_OFF_TOGETHER")
    BY <1>0, <2>1, <2>2 DEF OthersKept
  <2> QED
    BY <2>2, <2>3 DEF Called
<1>4. ASSUME NEW b \in Buds, PageFails(b) PROVE Called(d, "POWER_OFF_TOGETHER")'
  BY <1>0, <1>4 DEF PageFails
<1>5. ASSUME NEW b \in Buds, PowerOn(b) PROVE Called(d, "POWER_OFF_TOGETHER")'
  <2>1. sys_auto_shut_down_enable(b) /\ b \notin on /\ UNCHANGED <<leaving, calls>>
    BY <1>5 DEF PowerOn
  <2>2. /\ OthersKept(b) /\ running'[b]
    BY <1>0, <2>1, Enables DEF Structure
  <2> QED
    BY <1>0, <2>1, <2>2 DEF OthersKept
<1>6. ASSUME NEW b \in Buds, PhoneComes(b) PROVE Called(d, "POWER_OFF_TOGETHER")'
  BY <1>0, <1>6 DEF PhoneComes
<1>7. ASSUME NEW c \in calls, Executes(c) PROVE Called(d, "POWER_OFF_TOGETHER")'
  <2>0. c.to \in Buds /\ calls' = calls \ {c}
    BY <1>0, <1>7 DEF Executes, CallTypes, Call
  <2>1. CASE c.what = "SHUT_DOWN_TIME"
    <3>1. Restart(c.to) /\ UNCHANGED leaving
      BY <1>7, <2>1 DEF Executes
    <3>2. OthersKept(c.to) /\ running'[c.to]
      BY <1>0, <2>0, <3>1, Restarts
    <3>3. Called(d, "POWER_OFF_TOGETHER")
      BY <1>0, <3>1, <3>2 DEF OthersKept
    <3> QED
      BY <2>0, <2>1, <3>3 DEF Called
  <2>2. CASE c.what # "SHUT_DOWN_TIME"
    <3>1. EntersPowerOff(c.to)
      BY <1>7, <2>2 DEF Executes
    <3>2. /\ OthersKept(c.to) /\ leaving'[c.to]
          /\ \A e \in Buds \ {c.to} : leaving'[e] = leaving[e]
      BY <1>0, <2>0, <3>1, Leaves DEF BudTypes
    <3>3. d # c.to /\ Called(d, "POWER_OFF_TOGETHER")
      BY <1>0, <3>2 DEF OthersKept
    <3> QED
      BY <2>0, <3>3 DEF Called
  <2> QED
    BY <2>1, <2>2
<1>8. CASE Link \/ ProfilesConnect \/ Swap \/ Tick \/ UNCHANGED vars
  BY <1>0, <1>8 DEF Link, ProfilesConnect, Swap, Tick, vars
<1>9. CASE Fade
  <2>1. UNCHANGED <<timers, leaving>> /\ calls' = {c \in calls : c.to = c.from}
    BY <1>9 DEF Fade, Cut
  <2>2. Called(d, "POWER_OFF_TOGETHER")
    BY <1>0, <2>1
  <2> QED
    BY <2>1, <2>2 DEF Called
<1>10. ASSUME NEW ev \in PhoneEvents, PhoneGoes(ev) PROVE Called(d, "POWER_OFF_TOGETHER")'
  BY <1>0, <1>10 DEF PhoneGoes
<1> QED
  BY <1>1, <1>2, <1>3, <1>4, <1>5, <1>6, <1>7, <1>8, <1>9, <1>10
  DEF Next, Bud, PowersOff, IntoCase

-----------------------------------------------------------------------------
(* A bud that runs without a phone has a start behind it or before it: its *)
(* timer has a handle, or an event in its queue will start the timer and   *)
(* nothing after that event stops it, or its search for the phone goes on  *)
(* and its end will start the timer.                                       *)

(* What starts a timer. On a pair the end of a search starts it by a call  *)
(* of the master, which a bud that parts from its sibling can lose.        *)
Starts == {"CONNECTED", "DETACH", "PHONE_LINK_DETACH", "HCI_DISCONNECT", "HCI_LOST"}
          \cup IF Linked THEN {} ELSE {"HCI_TIMEOUT", "PAGE_TIMEOUT"}

Searches(b) == ~Linked /\ (b \in paging \/ Called(b, "SHUT_DOWN_TIME"))
Started(b) == handle[b] \/ b \in behind \/ Searches(b)

ToStart(b) == HoldsLast(events[b], Starts) \/ (~Holds(events[b], Stops) /\ Started(b))
Alone(b) == b \in on /\ ~leaving[b] /\ ~Sharing(b)
StartInv == \A b \in Buds : Alone(b) => ToStart(b)

LEMMA StartsPosted ==
    /\ Starts \subseteq Posted /\ Starts \cap Stops = {}
    /\ {"CONNECTED", "DETACH", "PHONE_LINK_DETACH", "HCI_DISCONNECT", "HCI_LOST"} \subseteq Starts
    /\ ~Linked => PhoneEvents \cup {"PAGE_TIMEOUT"} \subseteq Starts
  BY DEF Starts, Posted, Stops, PhoneEvents

(* What the event at the head of the queue starts, it starts at once. *)
LEMMA HandlesStart ==
    ASSUME TypeOK, Structure, QuietInv, NEW b \in Buds, Handles(b), Alone(b),
           Head(events[b]) \in Starts
    PROVE  Started(b)'
<1> USE DEF timers, link, Started
<1>0. /\ TimerTypes /\ events[b] \in Seq(Posted) /\ b \in on /\ ~leaving[b] /\ phone # b
  BY Types DEF EventsType, Alone, Sharing
<1>1. CASE TwsConnected(b)
  <2>1. Receives(b, "CONNECTED") \/ Receives(b, "CONNECTED_PHONE")
    BY <1>1 DEF TwsConnected
  <2>2. ~Receives(b, "CONNECTED_PHONE")
    BY DEF Receives, Starts
  <2> QED
    BY <1>0, <1>1, <2>2, Restarts DEF TwsConnected
<1>2. CASE TwsDetach(b)
  BY <1>0, <1>2 DEF TwsDetach
<1>3. CASE PhoneLinkDetach(b)
  BY <1>0, <1>3, Enables DEF PhoneLinkDetach
<1>4. CASE HciConnect(b) \/ PhoneConnected(b)
  BY <1>4, StartsPosted DEF HciConnect, PhoneConnected, Receives, Stops
<1>5. CASE HciDisconnect(b)
  <2>1. Head(events[b]) \in Earlier /\ events[b] # <<>>
    BY <1>5 DEF HciDisconnect, Receives, Earlier
  <2>2. ~profile
    BY <1>0, <2>1, TailHolds DEF QuietInv, InUse
  <2> QED
    BY <1>0, <1>5, <2>2, Enables DEF HciDisconnect
<1>6. CASE PageTimeout(b) \/ HciTimeout(b)
  <2>1. ~Linked
    BY <1>6 DEF PageTimeout, HciTimeout, Receives, Starts
  <2>2. ~Linked' /\ IsMaster(b)
    BY <1>6, <2>1 DEF PageTimeout, HciTimeout, Linked, IsMaster
  <2>3. CASE SyncsTimes(b)
    <3>1. \E c \in SyncCall(b, "SHUT_DOWN_TIME") : c.to = b /\ c.from = b /\ c.what = "SHUT_DOWN_TIME"
      BY Syncs
    <3> QED
      BY <2>2, <2>3, <3>1 DEF SyncsTimes, Searches, Called
  <2>4. CASE Pages(b)
    BY <1>0, <2>2, <2>4 DEF Pages, Searches
  <2> QED
    BY <1>6, <2>3, <2>4 DEF PageTimeout, HciTimeout
<1> QED
  BY <1>1, <1>2, <1>3, <1>4, <1>5, <1>6 DEF Handles

LEMMA HandlersStart ==
    ASSUME TypeOK, Structure, QuietInv, StartInv, NEW b \in Buds, Handles(b), NEW d \in Buds, Alone(d)'
    PROVE  ToStart(d)'
<1>0. /\ HandlerFrame(b) /\ TimerTypes /\ EventsType /\ events[b] \in Seq(Posted)
  BY Types, HandlersFrame DEF EventsType
<1>1. /\ UNCHANGED <<on, leaving, master, phone, profile>> /\ OthersKept(b)
      /\ calls \subseteq calls' /\ paging \subseteq paging'
      /\ events[b] # <<>> /\ Receives(b, Head(events[b]))
  BY <1>0 DEF HandlerFrame
<1>2. /\ events'[b] = Tail(events[b]) /\ \A c \in Buds \ {b} : events'[c] = events[c]
  BY <1>0, <1>1, Receipt DEF EventsType
<1>3. Alone(d) /\ Starts' = Starts
  BY <1>1 DEF Alone, Sharing, Linked, Starts
<1>4. ToStart(d)
  BY <1>3 DEF StartInv
<1>5. Searches(d) => Searches(d)'
  BY <1>1 DEF Searches, Called, Linked
<1>6. CASE d # b
  BY <1>1, <1>2, <1>3, <1>4, <1>5, <1>6 DEF ToStart, Started, OthersKept
<1>7. CASE d = b
  <2>1. HoldsLast(Tail(events[b]), Starts) \/ ~Holds(Tail(events[b]), Stops)
    BY <1>0, <1>1, <1>4, <1>7, TailHolds, TailHoldsLast DEF ToStart
  <2>2. CASE HoldsLast(Tail(events[b]), Starts)
    BY <1>2, <1>3, <1>7, <2>2 DEF ToStart
  <2>3. CASE Head(events[b]) \in Starts /\ ~HoldsLast(Tail(events[b]), Starts)
    BY <1>2, <1>3, <1>7, <2>1, <2>3, HandlesStart DEF ToStart
  <2>4. CASE Head(events[b]) \notin Starts /\ ~HoldsLast(Tail(events[b]), Starts)
    <3>1. ~Holds(events[b], Stops) /\ Started(b)
      BY <1>0, <1>1, <1>4, <1>7, <2>4, TailHoldsLast DEF ToStart
    <3>2. Head(events[b]) \notin Stops
      BY <1>0, <1>1, <3>1, TailHolds
    <3> QED
      BY <1>0, <1>2, <1>5, <1>7, <2>1, <2>4, <3>1, <3>2, HandlersTimer DEF ToStart, Started
  <2> QED
    BY <2>2, <2>3, <2>4
<1> QED
  BY <1>6, <1>7

LEMMA NextStart ==
    ASSUME TypeOK, Structure, QuietInv, StartInv, [Next]_vars
    PROVE  StartInv'
<1> SUFFICES ASSUME NEW d \in Buds, Alone(d)' PROVE ToStart(d)'
  BY DEF StartInv
<1> USE DEF timers, link
<1>0. /\ TimerTypes /\ EventsType /\ BudTypes /\ LinkTypes /\ CallTypes
      /\ events[d] \in Seq(Posted) /\ (Alone(d) => ToStart(d))
  BY Types DEF EventsType, StartInv
(* A bud that is alone before and after, with the same queue. *)
<1>K. ASSUME UNCHANGED master, Alone(d), events'[d] = events[d], Started(d) => Started(d)'
      PROVE  ToStart(d)'
  BY <1>0, <1>K DEF ToStart, Starts, Linked
<1>1. ASSUME NEW b \in Buds, Handles(b) PROVE ToStart(d)'
  BY <1>1, HandlersStart
<1>2. ASSUME NEW b \in Buds, sys_auto_shut_down_deal(b) PROVE ToStart(d)'
  <2>0. UNCHANGED <<on, events, link>> /\ calls \subseteq calls'
    BY <1>2 DEF sys_auto_shut_down_deal
  <2>1. Searches(d) => Searches(d)'
    BY <2>0 DEF Searches, Called, Linked
  <2>2. CASE EntersPowerOff(b)
    <3>1. /\ OthersKept(b) /\ leaving'[b] /\ \A c \in Buds \ {b} : leaving'[c] = leaving[c]
      BY <1>0, <2>2, Leaves DEF BudTypes
    <3>2. d # b /\ Alone(d)
      BY <2>0, <3>1 DEF Alone, Sharing, Linked
    <3> QED
      BY <1>K, <2>0, <2>1, <3>1, <3>2 DEF Started, OthersKept
  <2>3. CASE RunsOut(b) /\ UNCHANGED leaving
    <3>1. RunsOutFacts(b)
      BY <1>0, <2>3, TimesOut
    <3>2. Alone(d)
      BY <2>0, <2>3 DEF Alone, Sharing, Linked
    <3> QED
      BY <1>K, <2>0, <2>1, <3>1, <3>2 DEF Started, RunsOutFacts, OthersKept
  <2> QED
    BY <1>2, <2>2, <2>3 DEF sys_auto_shut_down_deal
<1>3. ASSUME NEW b \in Buds, Ends(b) PROVE ToStart(d)'
  <2>0. /\ OthersKept(b) /\ on' = on \ {b} /\ master' = None /\ paging' = paging \ {b}
        /\ phone' = IF phone = b THEN IF Linked THEN Sibling(b) ELSE None ELSE phone
        /\ calls' = {c \in calls : c.to # b /\ (c.to = c.from)}
        /\ leaving' = [leaving EXCEPT ![b] = FALSE]
    BY <1>0, <1>3, Disables DEF Ends
  <2>1. d # b /\ ~leaving[d] /\ d \in on
    BY <1>0, <2>0 DEF Alone, BudTypes
  <2>2. events'[d] = IF Linked THEN Append(events[d], "DETACH") ELSE events[d]
    BY <1>3, <2>1 DEF Ends
  <2>3. CASE Linked
    <3>1. "DETACH" \in Starts' /\ "DETACH" \in Posted /\ "DETACH" \notin Stops
      BY DEF Starts, Posted, Stops
    <3>2. \A E : "DETACH" \in E => HoldsLast(Append(events[d], "DETACH"), E)
      BY <1>0, <3>1, AppendHolds
    <3> QED
      BY <2>2, <2>3, <3>1, <3>2 DEF ToStart
  <2>4. CASE ~Linked
    <3>1. UNCHANGED master /\ events'[d] = events[d]
      BY <2>0, <2>2, <2>4 DEF Linked
    <3>2. Alone(d)
      BY <2>0, <2>1, <2>4 DEF Alone, Sharing, Linked
    <3>3. Started(d) => Started(d)'
      BY <2>0, <2>1, <3>1 DEF Started, Searches, Called, OthersKept, Linked
    <3> QED
      BY <1>K, <3>1, <3>2, <3>3
  <2> QED
    BY <2>3, <2>4
<1>4. ASSUME NEW b \in Buds, PageFails(b) PROVE ToStart(d)'
  <2>0. /\ b \in paging /\ paging' = paging \ {b}
        /\ UNCHANGED <<on, timers, leaving, calls, master, phone>>
        /\ events'[d] = IF d = b THEN Append(events[d], "PAGE_TIMEOUT") ELSE events[d]
    BY <1>0, <1>4 DEF PageFails, EventsType
  <2>1. Alone(d) /\ Starts' = Starts
    BY <2>0 DEF Alone, Sharing, Linked, Starts
  <2>2. CASE d # b
    <3>1. Started(d) => Started(d)'
      BY <2>0, <2>2 DEF Started, Searches, Called, Linked
    <3> QED
      BY <1>K, <2>0, <2>1, <2>2, <3>1
  <2>3. CASE d = b
    <3>1. /\ "PAGE_TIMEOUT" \in Posted /\ "PAGE_TIMEOUT" \notin Stops
      BY DEF Posted, Stops
    <3>2. /\ HoldsLast(events[d], Starts) \/ "PAGE_TIMEOUT" \in Starts
               => HoldsLast(events'[d], Starts)
      BY <1>0, <2>0, <2>3, <3>1, AppendHolds
    <3>3. ~Holds(events[d], Stops) => ~Holds(events'[d], Stops)
      BY <1>0, <2>0, <2>3, <3>1, AppendHolds
    <3>4. CASE Linked
      BY <1>0, <2>0, <2>1, <3>2, <3>3, <3>4 DEF ToStart, Started, Searches
    <3>5. CASE ~Linked
      BY <2>1, <3>2, <3>5, StartsPosted DEF ToStart
    <3> QED
      BY <3>4, <3>5
  <2> QED
    BY <2>2, <2>3
<1>5. ASSUME NEW b \in Buds, PowerOn(b) PROVE ToStart(d)'
  <2>0. /\ OthersKept(b) /\ handle'[b] /\ b \notin on /\ on' = on \cup {b} /\ paging \subseteq paging'
        /\ UNCHANGED <<leaving, events, calls, master, phone>>
    BY <1>0, <1>5, Enables DEF PowerOn
  <2>1. CASE d = b
    <3>1. events'[d] = <<>>
      BY <2>0, <2>1 DEF Structure
    <3> QED
      BY <2>0, <2>1, <3>1, EmptyHolds DEF ToStart, Started
  <2>2. CASE d # b
    <3>1. Alone(d)
      BY <2>0, <2>2 DEF Alone, Sharing, Linked
    <3>2. Started(d) => Started(d)'
      BY <2>0, <2>2 DEF Started, Searches, Called, OthersKept, Linked
    <3> QED
      BY <1>K, <2>0, <3>1, <3>2
  <2> QED
    BY <2>1, <2>2
<1>6. ASSUME NEW b \in Buds, PhoneComes(b) PROVE ToStart(d)'
  <2>0. /\ phone = None /\ phone' = b /\ paging' = paging \ {b}
        /\ UNCHANGED <<on, timers, leaving, calls, master>>
    BY <1>6 DEF PhoneComes
  <2>1. ~Linked /\ d # b /\ Alone(d)
    BY <2>0 DEF Alone, Sharing, Linked
  <2>2. events'[d] = events[d]
    <3>1. "HCI_CONNECT" \in Posted /\ d # None
      BY DEF Posted
    <3> QED
      BY <1>0, <1>6, <2>0, <2>1, <3>1, PhonePosts DEF PhoneComes
  <2>3. Started(d) => Started(d)'
    BY <2>0, <2>1 DEF Started, Searches, Called, Linked
  <2> QED
    BY <1>K, <2>0, <2>1, <2>2, <2>3
<1>7. ASSUME NEW c \in calls, Executes(c) PROVE ToStart(d)'
  <2>0. c.to \in Buds /\ calls' = calls \ {c} /\ UNCHANGED <<on, events, link>>
    BY <1>0, <1>7 DEF Executes, CallTypes, Call
  <2>1. c.to # d => (Searches(d) => Searches(d)')
    BY <2>0 DEF Searches, Called, Linked
  <2>2. CASE c.what = "SHUT_DOWN_TIME"
    <3>1. Restart(c.to) /\ UNCHANGED leaving
      BY <1>7, <2>2 DEF Executes
    <3>2. OthersKept(c.to) /\ handle'[c.to]
      BY <1>0, <2>0, <3>1, Restarts
    <3>3. Alone(d)
      BY <2>0, <3>1 DEF Alone, Sharing, Linked
    <3> QED
      BY <1>K, <2>0, <2>1, <3>2, <3>3 DEF Started, OthersKept
  <2>3. CASE c.what # "SHUT_DOWN_TIME"
    <3>1. EntersPowerOff(c.to)
      BY <1>7, <2>3 DEF Executes
    <3>2. /\ OthersKept(c.to) /\ leaving'[c.to]
          /\ \A e \in Buds \ {c.to} : leaving'[e] = leaving[e]
      BY <1>0, <2>0, <3>1, Leaves DEF BudTypes
    <3>3. d # c.to /\ Alone(d)
      BY <2>0, <3>2 DEF Alone, Sharing, Linked
    <3> QED
      BY <1>K, <2>0, <2>1, <3>2, <3>3 DEF Started, OthersKept
  <2> QED
    BY <2>2, <2>3
(* Without a phone both buds hear of the link, which starts their timers. *)
<1>8. CASE Link
  <2>1. /\ on' = Buds /\ UNCHANGED phone /\ master' \in Buds
    BY <1>0, <1>8, LinkPosts DEF Link
  <2>2. phone = None
    BY <2>1 DEF Alone, Sharing, Linked
  <2>3. events'[d] = Append(events[d], "CONNECTED")
    BY <1>0, <1>8, <2>2, LinkPosts DEF Gets
  <2>4. "CONNECTED" \in Starts' /\ "CONNECTED" \in Posted /\ "CONNECTED" \notin Stops
    BY DEF Starts, Posted, Stops
  <2>5. \A E : "CONNECTED" \in E => HoldsLast(Append(events[d], "CONNECTED"), E)
    BY <1>0, <2>4, AppendHolds
  <2> QED
    BY <2>3, <2>4, <2>5 DEF ToStart
<1>9. CASE Fade
  <2>1. events'[d] = Append(events[d], "DETACH")
    BY <1>0, <1>9, FadePosts DEF Gets
  <2>2. "DETACH" \in Starts' /\ "DETACH" \in Posted /\ "DETACH" \notin Stops
    BY DEF Starts, Posted, Stops
  <2>3. \A E : "DETACH" \in E => HoldsLast(Append(events[d], "DETACH"), E)
    BY <1>0, <2>2, AppendHolds
  <2> QED
    BY <2>1, <2>2, <2>3 DEF ToStart
<1>10. CASE ProfilesConnect
  <2>0. phone # None /\ UNCHANGED <<on, timers, leaving, calls, master, phone, paging>>
    BY <1>10 DEF ProfilesConnect
  <2>1. Alone(d) /\ ~Linked /\ d # phone
    BY <2>0 DEF Alone, Sharing, Linked
  <2>2. events'[d] = events[d]
    <3>1. "PHONE_CONNECTED" \in Posted
      BY DEF Posted
    <3> QED
      BY <1>0, <1>10, <2>0, <2>1, <3>1, PhonePosts DEF ProfilesConnect
  <2>3. Started(d) => Started(d)'
    BY <2>0 DEF Started, Searches, Called, Linked
  <2> QED
    BY <1>K, <2>0, <2>1, <2>2, <2>3
<1>11. ASSUME NEW ev \in PhoneEvents, PhoneGoes(ev) PROVE ToStart(d)'
  <2>0. phone' = None /\ UNCHANGED <<on, timers, leaving, calls, master, paging>>
    BY <1>11 DEF PhoneGoes
  <2>1. /\ ev \in Posted /\ "PHONE_LINK_DETACH" \in Posted /\ Starts' = Starts
        /\ ev \notin Stops /\ "PHONE_LINK_DETACH" \notin Stops
    BY <2>0 DEF PhoneEvents, Posted, Stops, Starts, Linked
  <2>2. CASE Linked
    <3> DEFINE q == Append(events[d], ev)
    <3>1. events'[d] = Append(q, "PHONE_LINK_DETACH") /\ "PHONE_LINK_DETACH" \in Starts
      BY <1>0, <1>11, <2>2, LeavingPosts, StartsPosted
    <3>2. q \in Seq(Posted)
      BY <1>0, <2>1, AppendHolds
    <3> HIDE DEF q
    <3>3. HoldsLast(Append(q, "PHONE_LINK_DETACH"), Starts)
      BY <2>1, <3>1, <3>2, AppendHolds
    <3> QED
      BY <2>1, <3>1, <3>3 DEF ToStart
  <2>3. CASE ~Linked /\ d = phone
    <3>1. events'[d] = Append(events[d], ev) /\ ev \in Starts
      BY <1>0, <1>11, <2>3, LeavingPosts, StartsPosted DEF Gets
    <3>2. HoldsLast(Append(events[d], ev), Starts)
      BY <1>0, <2>1, <3>1, AppendHolds
    <3> QED
      BY <2>1, <3>1, <3>2 DEF ToStart
  <2>4. CASE ~Linked /\ d # phone
    <3>1. events'[d] = events[d]
      BY <1>0, <1>11, <2>0, <2>4, LeavingPosts
    <3>2. Alone(d)
      BY <2>0, <2>4 DEF Alone, Sharing
    <3>3. Started(d) => Started(d)'
      BY <2>0 DEF Started, Searches, Called, Linked
    <3> QED
      BY <1>K, <2>0, <3>1, <3>2, <3>3
  <2> QED
    BY <2>2, <2>3, <2>4
<1>12. CASE Swap
  <2>0. /\ Linked /\ events[d] = <<>> /\ UNCHANGED <<on, timers, leaving, events>>
        /\ master' = Sibling(master) /\ phone' = IF phone = None THEN None ELSE Sibling(phone)
    BY <1>12 DEF Swap, Settled
  <2>1. Linked' /\ (phone # None => phone' # None)
    BY <1>0, <2>0, TwoBuds DEF LinkTypes, Linked
  <2>2. Alone(d)
    BY <2>0, <2>1 DEF Alone, Sharing
  <2>3. ~HoldsLast(events[d], Starts)
    BY <2>0, EmptyHolds
  <2> QED
    BY <1>0, <2>0, <2>1, <2>2, <2>3 DEF ToStart, Started, Searches
<1>13. CASE Tick \/ UNCHANGED vars
  <2>1. UNCHANGED <<on, handle, behind, leaving, events, calls, link>>
    BY <1>13 DEF Tick, vars
  <2>2. Alone(d) /\ (Started(d) => Started(d)')
    BY <2>1 DEF Alone, Sharing, Started, Searches, Called, Linked
  <2> QED
    BY <1>K, <2>1, <2>2
<1> QED
  BY <1>1, <1>2, <1>3, <1>4, <1>5, <1>6, <1>7, <1>8, <1>9, <1>10, <1>11, <1>12, <1>13
  DEF Next, Bud, PowersOff, IntoCase

(* For any time of the timer and any number of disturbances: whenever      *)
(* everything is handled, the bud the pair relies on to go off (the        *)
(* master, or a bud alone) has a timer that runs, unless it still searches *)
(* for its phone, is leaving, or is one of the two forgotten.              *)
THEOREM SomeoneAlwaysCounts == Spec => []SomeoneCounts
<1> DEFINE Inv == TypeOK /\ Structure /\ QuietInv /\ HandleInv /\ StartInv
<1>1. Init => Inv
  <2>1. Init => HandleInv /\ StartInv
    BY DEF Init, HandleInv, RanOut, StartInv, Alone
  <2> QED
    BY <2>1, InitTypes, InitStructure, InitQuiet
<1>2. Inv /\ [Next]_vars => Inv'
  BY NextTypes, NextStructure, NextQuiet, NextHandle, NextStart
<1>3. Inv => SomeoneCounts
  <2> SUFFICES ASSUME HandleInv, StartInv, Settled, NEW b \in Buds, Relied(b), b \notin behind
               PROVE  running[b]
    BY DEF SomeoneCounts, Forgotten, Relied
  <2>1. b \in on /\ phone = None /\ b \notin paging /\ ~leaving[b] /\ events[b] = <<>> /\ calls = {}
    BY DEF Relied, Settled
  <2>2. Alone(b) /\ ~HoldsLast(events[b], Starts) /\ \A what : ~Called(b, what)
    BY <2>1, EmptyHolds DEF Alone, Sharing, Called
  <2>3. handle[b]
    BY <2>1, <2>2 DEF StartInv, ToStart, Started, Searches
  <2> QED
    BY <2>1, <2>2, <2>3 DEF HandleInv, RanOut
<1> QED
  BY <1>1, <1>2, <1>3, PTL DEF Spec
=============================================================================
