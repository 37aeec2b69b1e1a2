---------------------------- MODULE BtTws_proofs ----------------------------
(***************************************************************************)
(* Invariants of the pair for any number of phones, any budgets of pages,  *)
(* any queue and any number of disturbances: a bud that has handled its    *)
(* events knows whether it has its sibling; a bud that has neither its     *)
(* sibling nor a phone has something that will get it out; a linked pair   *)
(* without a phone can be found by one; and a bud that has its phone pages *)
(* none, unless a role switch found it unready for the phone.              *)
(***************************************************************************)
EXTENDS BtTws, TLAPS, SequenceTheorems

USE BudsAssumption, TriesAssumption, ChancesAssumption

Reasons == {"none", "SUPER_TIMEOUT", "POWEROFF", "timeout", "refused", "left"}
EventRec ==
    {e \in [ev : EventKinds, role : {"none", "master", "slave"}, phone : BOOLEAN, reason : Reasons] :
        e.ev = "PHONE_LINK_DETACH" => e.reason \in {"timeout", "refused", "left"}}

Types ==
    /\ on \subseteq Buds /\ paired \subseteq Buds
    /\ bud \in [Buds -> Bud] /\ events \in [Buds -> Seq(EventRec)]
    /\ master \in Buds \union {None} /\ phone \in Buds \union {None}
    /\ profile \in BOOLEAN /\ call \in BOOLEAN
    /\ chances \in [Disturbances -> Nat]

-----------------------------------------------------------------------------
(* What a queue says of the link: nothing, or what the last of the events  *)
(* of the link says.                                                       *)
OfLink(e) == e.ev \in {"CONNECTED", "CONNECTION_DETACH"}
Silent(s) == \A i \in 1..Len(s) : ~OfLink(s[i])
LastSays(s, linked) ==
    \E i \in 1..Len(s) :
        /\ OfLink(s[i]) /\ (s[i].ev = "CONNECTED") = linked
        /\ \A j \in i+1..Len(s) : ~OfLink(s[j])

Knows(b) == (Silent(events[b]) /\ bud[b].sib = Linked) \/ LastSays(events[b], Linked)

(* Something will get the bud out: it is there already, or an event brings *)
(* it and no later one takes it away.                                      *)
Alive(r) == r.pair_timer # Idle \/ r.create # "none" \/ r.scan # "none"
Without(s, K) == \A i \in 1..Len(s) : s[i] \notin K
After(s, R, K) == \E i \in 1..Len(s) : s[i] \in R /\ \A j \in i+1..Len(s) : s[j] \notin K
Kills(e) == e.ev \in {"CONNECTED", "HCI_CONNECT"}
Revives(e) == e.ev \in {"CONNECTION_DETACH", "CONNECTION_TIMEOUT", "PHONE_LINK_DETACH",
                        "HCI_DISCONNECT", "HCI_LOST", "HCI_TIMEOUT", "HCI_EXIST"}
Killers == {e \in EventRec : Kills(e)}
Revivers == {e \in EventRec : Revives(e)}
Harmless(s) == Without(s, Killers)
Rescued(s) == After(s, Revivers, Killers)
Good(s, alive) == (alive /\ Harmless(s)) \/ Rescued(s)

(* The same for the master of a pair without a phone, and what lets a      *)
(* phone find it: its timer or a scan.                                     *)
Findable(r) == r.pair_timer # Idle \/ r.scan # "none"
Calls(e) == e.ev = "CONNECTED" /\ e.role = "master" /\ ~e.phone
Hides(e) ==
    \/ e.ev \in {"HCI_CONNECT", "CONNECTION_DETACH", "HCI_LOST", "HCI_TIMEOUT", "HCI_EXIST"}
    \/ e.ev = "CONNECTED" /\ ~Calls(e)
Shows(e) == e.ev \in {"CONNECTION_TIMEOUT", "PHONE_LINK_DETACH", "ROLE_SWITCH"} \/ Calls(e)
Hiders == {e \in EventRec : Hides(e)}
Showers == {e \in EventRec : Shows(e)}
Shown(s, found) == (found /\ Without(s, Hiders)) \/ After(s, Showers, Hiders)

(* The invariant of one running bud, and of the whole. *)
OnInv(b) ==
    /\ Knows(b)
    /\ bud[b].unpaired = (b \notin paired)
    /\ bud[b].sib => b \in paired
    /\ ~Linked /\ phone # b => Good(events[b], Alive(bud[b]))
    /\ phone = None /\ master = b => Shown(events[b], Findable(bud[b]))

IInv ==
    /\ Types
    /\ Linked => on = Buds
    /\ phone \in on \union {None}
    /\ \A b \in Buds \ on : events[b] = <<>>
    /\ \A b \in on : OnInv(b)

-----------------------------------------------------------------------------
(* Queues. *)

LEMMA Joined ==
  ASSUME NEW s \in Seq(EventRec), NEW t \in Seq(EventRec)
  PROVE  /\ s \o t \in Seq(EventRec) /\ Len(s \o t) = Len(s) + Len(t)
         /\ \A i \in 1..Len(s) : (s \o t)[i] = s[i]
         /\ \A i \in 1..Len(t) : (s \o t)[Len(s) + i] = t[i]
         /\ \A i \in 1..Len(s \o t) : i \notin 1..Len(s) => i - Len(s) \in 1..Len(t) /\ (s \o t)[i] = t[i - Len(s)]
  OBVIOUS

LEMMA Rests ==
  ASSUME NEW s \in Seq(EventRec), s # <<>>
  PROVE  /\ Head(s) = s[1] /\ Tail(s) \in Seq(EventRec)
         /\ Len(s) \in Nat /\ Len(s) >= 1 /\ Len(Tail(s)) = Len(s) - 1
         /\ \A i \in 1..Len(Tail(s)) : Tail(s)[i] = s[i + 1]
  OBVIOUS

(* Events that say nothing of the link change nothing. *)
LEMMA SilentJoined ==
  ASSUME NEW s \in Seq(EventRec), NEW t \in Seq(EventRec), Silent(t)
  PROVE  /\ Silent(s) => Silent(s \o t)
         /\ \A v \in BOOLEAN : LastSays(s, v) => LastSays(s \o t, v)
<1>1. ASSUME Silent(s) PROVE Silent(s \o t)
  BY <1>1, Joined DEF Silent
<1>2. ASSUME NEW v \in BOOLEAN, LastSays(s, v) PROVE LastSays(s \o t, v)
  <2>1. PICK i \in 1..Len(s) : /\ OfLink(s[i]) /\ (s[i].ev = "CONNECTED") = v
                               /\ \A j \in i+1..Len(s) : ~OfLink(s[j])
    BY <1>2 DEF LastSays
  <2>2. i \in 1..Len(s \o t) /\ (s \o t)[i] = s[i]
    BY Joined
  <2>3. ASSUME NEW j \in i+1..Len(s \o t) PROVE ~OfLink((s \o t)[j])
    <3>1. CASE j \in 1..Len(s)
      BY <2>1, <3>1, Joined
    <3>2. CASE j \notin 1..Len(s)
      <4>1. j \in 1..Len(s \o t)
        BY Joined
      <4>2. j - Len(s) \in 1..Len(t) /\ (s \o t)[j] = t[j - Len(s)]
        BY <3>2, <4>1, Joined
      <4> QED
        BY <4>2 DEF Silent
    <3> QED
      BY <3>1, <3>2
  <2> QED
    BY <2>1, <2>2, <2>3 DEF LastSays
<1> QED
  BY <1>1, <1>2

LEMMA SaysJoined ==
  ASSUME NEW s \in Seq(EventRec), NEW t \in Seq(EventRec), NEW v \in BOOLEAN, LastSays(t, v)
  PROVE  LastSays(s \o t, v)
<1>1. PICK i \in 1..Len(t) : /\ OfLink(t[i]) /\ (t[i].ev = "CONNECTED") = v
                             /\ \A j \in i+1..Len(t) : ~OfLink(t[j])
  BY DEF LastSays
<1>2. /\ Len(s) + i \in 1..Len(s \o t) /\ (s \o t)[Len(s) + i] = t[i]
  BY Joined
<1>3. ASSUME NEW j \in Len(s)+i+1..Len(s \o t) PROVE ~OfLink((s \o t)[j])
  <2>1. j \in 1..Len(s \o t) /\ j \notin 1..Len(s)
    BY Joined
  <2>2. j - Len(s) \in 1..Len(t) /\ (s \o t)[j] = t[j - Len(s)] /\ j - Len(s) \in i+1..Len(t)
    BY <2>1, Joined
  <2> QED
    BY <1>1, <2>2
<1> QED
  BY <1>1, <1>2, <1>3 DEF LastSays

(* An event is handled: others keep what the queue says, and one of the    *)
(* link leaves what a later one says, or is the last.                      *)
LEMMA SaysRest ==
  ASSUME NEW s \in Seq(EventRec), s # <<>>, NEW v \in BOOLEAN
  PROVE  /\ Silent(s) => Silent(Tail(s)) /\ ~OfLink(Head(s))
         /\ LastSays(s, v) /\ ~OfLink(Head(s)) => LastSays(Tail(s), v)
         /\ LastSays(s, v) /\ OfLink(Head(s)) =>
               \/ LastSays(Tail(s), v)
               \/ Silent(Tail(s)) /\ (Head(s).ev = "CONNECTED") = v
<1>1. ASSUME Silent(s) PROVE Silent(Tail(s)) /\ ~OfLink(Head(s))
  BY <1>1, Rests DEF Silent
<1>2. ASSUME LastSays(s, v)
      PROVE  \/ LastSays(Tail(s), v)
             \/ Silent(Tail(s)) /\ OfLink(Head(s)) /\ (Head(s).ev = "CONNECTED") = v
  <2>1. PICK i \in 1..Len(s) : /\ OfLink(s[i]) /\ (s[i].ev = "CONNECTED") = v
                               /\ \A j \in i+1..Len(s) : ~OfLink(s[j])
    BY <1>2 DEF LastSays
  <2>2. \A j \in i..Len(Tail(s)) : ~OfLink(Tail(s)[j])
    BY <2>1, Rests
  <2>3. CASE i = 1
    BY <2>1, <2>2, <2>3, Rests DEF Silent
  <2>4. CASE i # 1
    <3>1. i - 1 \in 1..Len(Tail(s)) /\ Tail(s)[i - 1] = s[i]
      BY <2>4, Rests
    <3>2. (i - 1) + 1 = i
      OBVIOUS
    <3>3. \A j \in (i-1)+1..Len(Tail(s)) : ~OfLink(Tail(s)[j])
      BY <2>2, <3>2
    <3> QED
      BY <2>1, <3>1, <3>3 DEF LastSays
  <2> QED
    BY <2>3, <2>4
<1> QED
  BY <1>1, <1>2

LEMMA WithoutJoined ==
  ASSUME NEW s \in Seq(EventRec), NEW t \in Seq(EventRec), NEW R, NEW K, Without(t, K)
  PROVE  /\ Without(s, K) => Without(s \o t, K)
         /\ After(s, R, K) => After(s \o t, R, K)
<1>1. ASSUME Without(s, K) PROVE Without(s \o t, K)
  BY <1>1, Joined DEF Without
<1>2. ASSUME After(s, R, K) PROVE After(s \o t, R, K)
  <2>1. PICK i \in 1..Len(s) : s[i] \in R /\ \A j \in i+1..Len(s) : s[j] \notin K
    BY <1>2 DEF After
  <2>2. i \in 1..Len(s \o t) /\ (s \o t)[i] = s[i]
    BY Joined
  <2>3. ASSUME NEW j \in i+1..Len(s \o t) PROVE (s \o t)[j] \notin K
    <3>1. CASE j \in 1..Len(s)
      BY <2>1, <3>1, Joined
    <3>2. CASE j \notin 1..Len(s)
      <4>1. j \in 1..Len(s \o t)
        BY Joined
      <4>2. j - Len(s) \in 1..Len(t) /\ (s \o t)[j] = t[j - Len(s)]
        BY <3>2, <4>1, Joined
      <4> QED
        BY <4>2 DEF Without
    <3> QED
      BY <3>1, <3>2
  <2> QED
    BY <2>1, <2>2, <2>3 DEF After
<1> QED
  BY <1>1, <1>2

LEMMA AfterJoined ==
  ASSUME NEW s \in Seq(EventRec), NEW t \in Seq(EventRec), NEW R, NEW K, After(t, R, K)
  PROVE  After(s \o t, R, K)
<1>1. PICK i \in 1..Len(t) : t[i] \in R /\ \A j \in i+1..Len(t) : t[j] \notin K
  BY DEF After
<1>2. /\ Len(s) + i \in 1..Len(s \o t) /\ (s \o t)[Len(s) + i] = t[i]
  BY Joined
<1>3. ASSUME NEW j \in Len(s)+i+1..Len(s \o t) PROVE (s \o t)[j] \notin K
  <2>1. j \in 1..Len(s \o t) /\ j \notin 1..Len(s)
    BY Joined
  <2>2. j - Len(s) \in 1..Len(t) /\ (s \o t)[j] = t[j - Len(s)] /\ j - Len(s) \in i+1..Len(t)
    BY <2>1, Joined
  <2> QED
    BY <1>1, <2>2
<1> QED
  BY <1>1, <1>2, <1>3 DEF After

(* An event is handled: after one of R the rest is without K or has one of *)
(* R again, one of K was not the last, others change nothing.              *)
LEMMA AfterRest ==
  ASSUME NEW s \in Seq(EventRec), s # <<>>, NEW R, NEW K
  PROVE  /\ Without(s, K) => Without(Tail(s), K) /\ Head(s) \notin K
         /\ After(s, R, K) => \/ After(Tail(s), R, K)
                              \/ Head(s) \in R /\ Without(Tail(s), K)
<1>1. ASSUME Without(s, K) PROVE Without(Tail(s), K) /\ Head(s) \notin K
  BY <1>1, Rests DEF Without
<1>2. ASSUME After(s, R, K)
      PROVE  After(Tail(s), R, K) \/ (Head(s) \in R /\ Without(Tail(s), K))
  <2>1. PICK i \in 1..Len(s) : s[i] \in R /\ \A j \in i+1..Len(s) : s[j] \notin K
    BY <1>2 DEF After
  <2>2. \A j \in i..Len(Tail(s)) : Tail(s)[j] \notin K
    BY <2>1, Rests
  <2>3. CASE i = 1
    BY <2>1, <2>2, <2>3, Rests DEF Without
  <2>4. CASE i # 1
    <3>1. i - 1 \in 1..Len(Tail(s)) /\ Tail(s)[i - 1] = s[i]
      BY <2>4, Rests
    <3>2. (i - 1) + 1 = i
      OBVIOUS
    <3>3. \A j \in (i-1)+1..Len(Tail(s)) : Tail(s)[j] \notin K
      BY <2>2, <3>2
    <3> QED
      BY <2>1, <3>1, <3>3 DEF After
  <2> QED
    BY <2>3, <2>4
<1> QED
  BY <1>1, <1>2

LEMMA HarmlessJoined ==
  ASSUME NEW s \in Seq(EventRec), NEW t \in Seq(EventRec), Harmless(t)
  PROVE  /\ Harmless(s) => Harmless(s \o t)
         /\ Rescued(s) => Rescued(s \o t)
  BY WithoutJoined DEF Harmless, Rescued

LEMMA RescuedJoined ==
  ASSUME NEW s \in Seq(EventRec), NEW t \in Seq(EventRec), Rescued(t)
  PROVE  Rescued(s \o t)
  BY AfterJoined DEF Rescued

LEMMA RescuedRest ==
  ASSUME NEW s \in Seq(EventRec), s # <<>>
  PROVE  /\ Harmless(s) => Harmless(Tail(s)) /\ ~Kills(Head(s))
         /\ Rescued(s) => \/ Rescued(Tail(s))
                          \/ Revives(Head(s)) /\ Harmless(Tail(s))
<1>1. Head(s) \in EventRec
  OBVIOUS
<1> QED
  BY <1>1, AfterRest DEF Harmless, Rescued, Killers, Revivers

LEMMA ShownRest ==
  ASSUME NEW s \in Seq(EventRec), s # <<>>, NEW found \in BOOLEAN, Shown(s, found)
  PROVE  \/ After(Tail(s), Showers, Hiders)
         \/ /\ Without(Tail(s), Hiders)
            /\ Shows(Head(s)) \/ (found /\ ~Hides(Head(s)))
<1>1. /\ Without(s, Hiders) => Without(Tail(s), Hiders) /\ Head(s) \notin Hiders
      /\ After(s, Showers, Hiders) => \/ After(Tail(s), Showers, Hiders)
                                      \/ Head(s) \in Showers /\ Without(Tail(s), Hiders)
  BY AfterRest
<1>2. Head(s) \in EventRec
  OBVIOUS
<1>3. (Head(s) \in Hiders => Hides(Head(s))) /\ (Head(s) \in Showers => Shows(Head(s)))
      /\ (Hides(Head(s)) => Head(s) \in Hiders)
  BY <1>2 DEF Hiders, Showers
<1> QED
  BY <1>1, <1>3 DEF Shown

(* A harmless queue that says in the end that the link is gone rescues.    *)
LEMMA LostRescues ==
  ASSUME NEW s \in Seq(EventRec), Harmless(s), LastSays(s, FALSE) PROVE Rescued(s)
<1>1. PICK i \in 1..Len(s) : /\ OfLink(s[i]) /\ (s[i].ev = "CONNECTED") = FALSE
                             /\ \A j \in i+1..Len(s) : ~OfLink(s[j])
  BY DEF LastSays
<1>2. s[i] \in EventRec /\ s[i].ev = "CONNECTION_DETACH"
  BY <1>1 DEF OfLink
<1>3. s[i] \in Revivers
  BY <1>2 DEF Revivers, Revives
<1>4. \A j \in i+1..Len(s) : s[j] \notin Killers
  BY DEF Harmless, Without
<1> QED
  BY <1>3, <1>4 DEF Rescued, After

-----------------------------------------------------------------------------
(* The operations of bt_tws.c keep what a bud knows of its sibling.        *)
Kept(r, s) == s \in Bud /\ s.sib = r.sib /\ s.unpaired = r.unpaired

LEMMA Budgets ==
  /\ PowerOnTries \in Tries /\ TimeoutTries \in Tries /\ RefusedTries \in Tries /\ 0 \in Tries
  /\ \A n \in Tries : n > 0 => n - 1 \in Tries
  /\ 0 \in 0..Phones /\ Phones \in 0..Phones /\ \A n \in 0..Phones : n > 0 => n - 1 \in 0..Phones
  BY DEF Tries

LEMMA Simple1 ==
  ASSUME NEW r \in Bud
  PROVE  /\ Kept(r, bt_tws_delete_pair_timer(r)) /\ Kept(r, wait_pair(r))
         /\ Kept(r, cancle_create_connection(r))
         /\ Kept(r, bt_tws_wait_sibling_connect(r))
         /\ \A timed \in BOOLEAN : Kept(r, create_connection(r, timed))
<1>1. Kept(r, bt_tws_delete_pair_timer(r))
  BY DEF Kept, Bud, Idle, bt_tws_delete_pair_timer
<1>2. Kept(r, wait_pair(r))
  BY DEF Kept, Bud, wait_pair
<1>3. Kept(r, cancle_create_connection(r))
  BY DEF Kept, Bud, cancle_create_connection
<1>4. Kept(r, bt_tws_wait_sibling_connect(r))
  BY <1>1 DEF Kept, Bud, bt_tws_wait_sibling_connect
<1>5. ASSUME NEW timed \in BOOLEAN PROVE Kept(r, create_connection(r, timed))
  BY DEF Kept, Bud, create_connection
<1> QED
  BY <1>1, <1>2, <1>3, <1>4, <1>5

LEMMA KeptTwice ==
  ASSUME NEW r, NEW s, NEW t, Kept(r, s), Kept(s, t) PROVE Kept(r, t)
  BY DEF Kept

LEMMA FoundAlive == ASSUME NEW r, Findable(r) PROVE Alive(r)
  BY DEF Findable, Alive

LEMMA WaitsAlive ==
  ASSUME NEW r \in Bud
  PROVE  /\ Findable(wait_pair(r)) /\ Findable(bt_tws_wait_sibling_connect(r))
         /\ Alive(wait_pair(r)) /\ Alive(bt_tws_wait_sibling_connect(r))
         /\ \A timed \in BOOLEAN : Alive(create_connection(r, timed))
  BY DEF Alive, Findable, Bud, wait_pair, bt_tws_delete_pair_timer, bt_tws_wait_sibling_connect, create_connection

LEMMA RefillKeeps ==
  ASSUME NEW r \in Bud PROVE Kept(r, NextPhone(r)) /\ Kept(r, Refill(r))
<1>1. Kept(r, r)
  BY DEF Kept
<1>2. ASSUME r.memory > 0
      PROVE  Kept(r, [r EXCEPT !.memory = @ - 1, !.counter = PowerOnTries])
  <2>1. r.memory \in 0..Phones
    BY DEF Bud
  <2>2. r.memory - 1 \in 0..Phones
    BY <1>2, <2>1, Budgets
  <2> QED
    BY <2>2, Budgets DEF Kept, Bud
<1>3. Kept(r, NextPhone(r))
  BY <1>1, <1>2 DEF NextPhone
<1>4. Kept(r, [r EXCEPT !.power_on = FALSE])
  BY DEF Kept, Bud
<1>5. Kept(r, Refill(r))
  BY <1>1, <1>3, <1>4 DEF Refill
<1> QED
  BY <1>3, <1>5

LEMMA PagesFound ==
  ASSUME NEW r \in Bud, r.counter > 0 PROVE Kept(r, PagePhone(r)) /\ Findable(PagePhone(r))
<1> DEFINE s == cancle_create_connection(r)
<1>1. Kept(r, s) /\ s.counter = r.counter
  <2>1. s.counter = r.counter
    BY DEF cancle_create_connection, Bud
  <2> QED
    BY <2>1, Simple1
<1>2. s \in Bud /\ s.counter > 0
  BY <1>1 DEF Kept
<1>3. s.counter - 1 \in Tries
  BY <1>2, Budgets DEF Bud
<1>4. PagePhone(r) = [s EXCEPT !.counter = @ - 1, !.scan = "none", !.page = TRUE, !.pair_timer = "connectable"]
  BY DEF PagePhone
<1> HIDE DEF s
<1>5. Kept(s, PagePhone(r)) /\ Findable(PagePhone(r))
  BY <1>2, <1>3, <1>4 DEF Kept, Bud, Findable, Idle
<1> QED
  BY <1>1, <1>5, KeptTwice

LEMMA ConnectableFound ==
  ASSUME NEW r \in Bud PROVE Kept(r, Connectable(r)) /\ Findable(Connectable(r))
<1> DEFINE q == IF r.sib THEN r ELSE create_connection(r, FALSE)
           s == wait_pair(q)
<1>1. Kept(r, q)
  BY Simple1 DEF Kept
<1>2. Kept(q, s) /\ s.scan = "pair"
  <2>1. q \in Bud
    BY <1>1 DEF Kept
  <2> HIDE DEF q
  <2>2. wait_pair(q).scan = "pair"
    BY <2>1 DEF wait_pair, Bud
  <2> QED
    BY <2>1, <2>2, Simple1
<1>3. \/ Connectable(r) = s
      \/ \E t \in {"pair", "phone"} : Connectable(r) = [s EXCEPT !.pair_timer = t]
  BY DEF Connectable
<1> HIDE DEF q, s
<1>4. s \in Bud
  BY <1>2 DEF Kept
<1>5. Kept(s, Connectable(r)) /\ Findable(Connectable(r))
  <2>1. CASE Connectable(r) = s
    BY <1>2, <1>4, <2>1 DEF Kept, Findable
  <2>2. ASSUME NEW t \in {"pair", "phone"}, Connectable(r) = [s EXCEPT !.pair_timer = t]
        PROVE  Kept(s, Connectable(r)) /\ Findable(Connectable(r))
    BY <1>2, <1>4, <2>2 DEF Kept, Bud, Findable
  <2> QED
    BY <1>3, <2>1, <2>2
<1> QED
  BY <1>1, <1>2, <1>5, KeptTwice

LEMMA SeekFound ==
  ASSUME NEW r \in Bud PROVE Kept(r, SeekPhone(r)) /\ Findable(SeekPhone(r))
<1> DEFINE s == Refill(r)
<1>1. Kept(r, s) /\ s \in Bud
  BY RefillKeeps DEF Kept
<1>2. SeekPhone(r) = IF HasBudget(s) THEN PagePhone(s) ELSE IF s.sib THEN wait_pair(s) ELSE Connectable(s)
  BY DEF SeekPhone
<1> HIDE DEF s
<1>3. Kept(s, SeekPhone(r)) /\ Findable(SeekPhone(r))
  BY <1>1, <1>2, PagesFound, ConnectableFound, Simple1, WaitsAlive DEF HasBudget
<1> QED
  BY <1>1, <1>3, KeptTwice

LEMMA CodeFound ==
  ASSUME NEW r \in Bud PROVE Kept(r, SeekByCode(r)) /\ Findable(SeekByCode(r))
  BY DEF SeekByCode, Kept, Bud, Findable, Idle

LEMMA SwitchFound ==
  ASSUME NEW r \in Bud, NEW sw \in {"phone", "connectable", "pair"}
  PROVE  /\ Kept(r, connect_and_connectable_switch(r, sw))
         /\ Findable(connect_and_connectable_switch(r, sw))
<1> DEFINE s == bt_tws_delete_pair_timer(r)
<1>1. Kept(r, s) /\ s \in Bud
  BY Simple1 DEF Kept
<1>2. connect_and_connectable_switch(r, sw) \in {SeekPhone(s), Connectable(s), SeekByCode(s)}
  BY DEF connect_and_connectable_switch
<1> HIDE DEF s
<1>3. Kept(s, connect_and_connectable_switch(r, sw)) /\ Findable(connect_and_connectable_switch(r, sw))
  BY <1>1, <1>2, SeekFound, ConnectableFound, CodeFound
<1> QED
  BY <1>1, <1>3, KeptTwice

LEMMA BtSwitchFound ==
  ASSUME NEW b \in Buds, NEW r \in Bud
  PROVE  /\ Kept(r, bt_tws_connect_and_connectable_switch(b, r))
         /\ IsMaster(b) => Findable(bt_tws_connect_and_connectable_switch(b, r))
  BY SwitchFound, Simple1 DEF bt_tws_connect_and_connectable_switch

LEMMA SiblingAlive ==
  ASSUME NEW b \in Buds, NEW r \in Bud, NEW s \in ConnectSibling(b, r)
  PROVE  Kept(r, s) /\ (IsMaster(b) => Alive(s))
<1> DEFINE q == bt_tws_delete_pair_timer(r)
<1>1. Kept(r, q) /\ q \in Bud
  BY Simple1 DEF Kept
<1>2. s \in {create_connection(q, TRUE), bt_tws_connect_and_connectable_switch(b, r)}
  BY DEF ConnectSibling
<1> HIDE DEF q
<1>3. Kept(q, create_connection(q, TRUE)) /\ Alive(create_connection(q, TRUE))
  BY <1>1, Simple1, WaitsAlive
<1> QED
  BY <1>1, <1>2, <1>3, KeptTwice, BtSwitchFound, FoundAlive

LEMMA DisconnectedAlive ==
  ASSUME NEW b \in Buds, NEW r \in Bud
  PROVE  /\ Kept(r, bt_tws_phone_disconnected(b, r))
         /\ IsMaster(b) /\ (Alive(r) \/ ~r.sib) => Alive(bt_tws_phone_disconnected(b, r))
         /\ IsMaster(b) /\ Findable(r) => Findable(bt_tws_phone_disconnected(b, r))
<1> DEFINE s == [r EXCEPT !.counter = 0]
<1>1. Kept(r, s) /\ s \in Bud /\ (Alive(r) => Alive(s)) /\ (Findable(r) => Findable(s)) /\ s.sib = r.sib
  BY Budgets DEF Kept, Bud, Alive, Findable
<1>2. bt_tws_phone_disconnected(b, r) = IF s.sib THEN s ELSE bt_tws_connect_and_connectable_switch(b, s)
  BY DEF bt_tws_phone_disconnected
<1> HIDE DEF s
<1>3. Kept(s, s)
  BY <1>1 DEF Kept
<1> QED
  BY <1>1, <1>2, <1>3, KeptTwice, BtSwitchFound, FoundAlive

LEMMA TimeoutAlive ==
  ASSUME NEW b \in Buds, NEW r \in Bud, NEW s \in bt_tws_phone_connect_timeout(b, r)
  PROVE  Kept(r, s) /\ (IsMaster(b) => Alive(s))
  BY BtSwitchFound, FoundAlive, SiblingAlive DEF bt_tws_phone_connect_timeout

-----------------------------------------------------------------------------
(* Steps that leave the link, the phone and the buds that run as they are. *)
Standing == UNCHANGED <<on, paired, master, phone>>

LEMMA MasterAlone == ASSUME ~Linked, NEW b \in Buds PROVE IsMaster(b)
  BY DEF Linked, IsMaster

LEMMA MasterLeads == ASSUME NEW b \in Buds, master = b PROVE IsMaster(b)
  BY DEF IsMaster

LEMMA BudTypes == ASSUME IInv, NEW b \in Buds PROVE bud[b] \in Bud /\ events[b] \in Seq(EventRec)
  BY DEF IInv, Types

(* A bud without events to handle moves, and no other does. *)
LEMMA MoveKeeps ==
  ASSUME IInv, NEW b \in on, NEW r, Becomes(b, r), Kept(bud[b], r), Standing,
         UNCHANGED <<events, profile, call, chances>>,
         ~Linked => (Alive(bud[b]) => Alive(r)), Findable(r)
  PROVE  IInv'
<1>1. b \in Buds /\ bud[b] \in Bud /\ r \in Bud
  BY BudTypes DEF IInv, Types, Kept
<1>2. bud' = [bud EXCEPT ![b] = r]
  BY DEF Becomes
<1>3. bud' \in [Buds -> Bud] /\ bud'[b] = r /\ \A c \in Buds : c # b => bud'[c] = bud[c]
  BY <1>1, <1>2 DEF IInv, Types
<1>4. Types'
  BY <1>3 DEF IInv, Types, Standing
<1>5. Linked' = Linked
  BY DEF Linked, Standing
<1>6. ASSUME NEW c \in on PROVE OnInv(c)'
  <2>1. c \in Buds /\ OnInv(c)
    BY DEF IInv, Types
  <2>2. bud'[c].sib = bud[c].sib /\ bud'[c].unpaired = bud[c].unpaired
    BY <1>3, <2>1 DEF Kept
  <2>3. Knows(c)'
    BY <1>5, <2>1, <2>2 DEF OnInv, Knows
  <2>4. ~Linked => (Alive(bud[c]) => Alive(bud'[c]))
    BY <1>3, <2>1
  <2>5. ~Linked' /\ phone' # c => Good(events'[c], Alive(bud'[c]))
    BY <1>5, <2>1, <2>4 DEF OnInv, Good, Standing
  <2>6. phone' = None /\ master' = c => Shown(events'[c], Findable(bud'[c]))
    BY <1>3, <2>1 DEF OnInv, Shown, Standing
  <2> QED
    BY <2>1, <2>2, <2>3, <2>5, <2>6 DEF OnInv, Standing
<1> QED
  BY <1>4, <1>5, <1>6 DEF IInv, Standing

LEMMA TimerKeeps == ASSUME IInv, NEW b \in Buds, TimerFires(b) PROVE IInv'
<1> DEFINE r == connect_and_connectable_switch(bud[b], bud[b].pair_timer)
<1>1. b \in on /\ bud[b] \in Bud /\ bud[b].pair_timer \in {"phone", "connectable", "pair"}
  BY BudTypes DEF TimerFires, Bud
<1>2. Kept(bud[b], r) /\ Findable(r) /\ Alive(r)
  BY <1>1, SwitchFound, FoundAlive
<1>3. Becomes(b, r) /\ Standing /\ UNCHANGED <<events, profile, call, chances>>
  BY DEF TimerFires, radio, Standing
<1> HIDE DEF r
<1> QED
  BY <1>1, <1>2, <1>3, MoveKeeps

(* An event that is not of the link is handled. What takes the bud's way   *)
(* out must be an event that kills, and what does not give one none that   *)
(* revives, unless the end of the link is still to be handled.  The same   *)
(* goes for a master that waits for a phone and what hides it or shows it. *)
LEMMA ShownKeeps ==
  ASSUME NEW s \in Seq(EventRec), s # <<>>, NEW was \in BOOLEAN, NEW is \in BOOLEAN, Shown(s, was),
         is \/ Hides(Head(s)) \/ (~was /\ ~Shows(Head(s)))
  PROVE  Shown(Tail(s), is)
<1>1. ~(Hides(Head(s)) /\ Shows(Head(s)))
  BY DEF Hides, Shows, Calls
<1> QED
  BY <1>1, ShownRest DEF Shown

LEMMA HandleKeeps ==
  ASSUME IInv, NEW b \in Buds, NEW ev, Receives(b, ev), NEW r, Becomes(b, r), Kept(bud[b], r),
         UNCHANGED radio, ~OfLink(Head(events[b])),
         ~Linked /\ phone # b =>
            \/ Alive(r) \/ Kills(Head(events[b]))
            \/ ~Alive(bud[b]) /\ ~Revives(Head(events[b]))
            \/ bud[b].sib,
         phone = None /\ master = b =>
            \/ Findable(r) \/ Hides(Head(events[b]))
            \/ ~Findable(bud[b]) /\ ~Shows(Head(events[b]))
  PROVE  IInv'
<1> DEFINE e == Head(events[b])
           q == Tail(events[b])
<1>1. b \in on /\ events[b] # <<>> /\ events' = [events EXCEPT ![b] = q]
      /\ bud[b] \in Bud /\ r \in Bud /\ events[b] \in Seq(EventRec)
  BY BudTypes DEF IInv, Types, Kept, Receives
<1>2. bud' = [bud EXCEPT ![b] = r]
  BY DEF Becomes
<1>3. /\ bud' \in [Buds -> Bud] /\ bud'[b] = r /\ \A c \in Buds : c # b => bud'[c] = bud[c]
      /\ q \in Seq(EventRec) /\ events' \in [Buds -> Seq(EventRec)]
      /\ events'[b] = q /\ \A c \in Buds : c # b => events'[c] = events[c]
  BY <1>1, <1>2, Rests DEF IInv, Types
<1>4. Types' /\ Standing
  BY <1>3 DEF IInv, Types, Standing, radio
<1>5. Linked' = Linked /\ Linked \in BOOLEAN
  BY <1>4 DEF Linked, Standing
<1>6. OnInv(b)
  BY <1>1 DEF IInv
<1>7. bud'[b].sib = bud[b].sib /\ bud'[b].unpaired = bud[b].unpaired
  BY <1>3 DEF Kept
<1>8. Knows(b)'
  <2>1. Silent(events[b]) => Silent(q)
    BY <1>1, <1>5, SaysRest
  <2>2. LastSays(events[b], Linked) => LastSays(q, Linked)
    BY <1>1, <1>5, SaysRest
  <2> HIDE DEF q
  <2> QED
    BY <1>3, <1>5, <1>6, <1>7, <2>1, <2>2 DEF OnInv, Knows
<1>9. ASSUME ~Linked, phone # b PROVE Good(q, Alive(r))
  <2>1. Good(events[b], Alive(bud[b]))
    BY <1>6, <1>9 DEF OnInv
  <2>2. Harmless(events[b]) => Harmless(q) /\ ~Kills(e)
    BY <1>1, RescuedRest
  <2>3. Rescued(events[b]) => Rescued(q) \/ (Revives(e) /\ Harmless(q))
    BY <1>1, RescuedRest
  <2>4. CASE Rescued(q)
    BY <2>4 DEF Good
  <2>5. CASE ~Rescued(q)
    <3>1. Harmless(q) /\ (Revives(e) \/ (Alive(bud[b]) /\ ~Kills(e)))
      BY <2>1, <2>2, <2>3, <2>5 DEF Good
    <3>2. CASE Alive(r)
      BY <3>1, <3>2 DEF Good
    <3>3. CASE bud[b].sib
      <4>1. bud[b].sib # Linked /\ LastSays(events[b], FALSE)
        BY <1>6, <1>9, <3>3 DEF OnInv, Knows, Linked
      <4>2. LastSays(q, FALSE)
        BY <1>1, <4>1, SaysRest
      <4>3. Rescued(q)
        BY <1>3, <3>1, <4>2, LostRescues
      <4> QED
        BY <2>5, <4>3
    <3>4. ~(Kills(e) /\ Revives(e))
      BY DEF Kills, Revives
    <3> QED
      BY <1>9, <3>1, <3>2, <3>3, <3>4
  <2> QED
    BY <2>4, <2>5
<1>10. ASSUME NEW c \in on PROVE OnInv(c)'
  <2>1. c \in Buds /\ OnInv(c)
    BY DEF IInv, Types
  <2>2. CASE c = b
    <3>1. ~Linked' /\ phone' # b => Good(events'[b], Alive(bud'[b]))
      BY <1>3, <1>4, <1>5, <1>9 DEF Standing
    <3>2. phone' = None /\ master' = b => Shown(events'[b], Findable(bud'[b]))
      <4> SUFFICES ASSUME phone = None, master = b PROVE Shown(q, Findable(r))
        BY <1>3, <1>4 DEF Standing
      <4>1. Shown(events[b], Findable(bud[b]))
        BY <1>6 DEF OnInv
      <4> QED
        BY <1>1, <4>1, ShownKeeps DEF Findable
    <3> QED
      BY <1>4, <1>6, <1>7, <1>8, <2>2, <3>1, <3>2 DEF OnInv, Standing
  <2>3. CASE c # b
    <3>1. events'[c] = events[c] /\ bud'[c] = bud[c]
      BY <1>3, <2>1, <2>3
    <3> HIDE DEF q
    <3> QED
      BY <1>4, <1>5, <2>1, <3>1 DEF OnInv, Knows, Standing
  <2> QED
    BY <2>2, <2>3
<1>11. \A c \in Buds \ on : events'[c] = <<>>
  BY <1>1, <1>3 DEF IInv
<1> QED
  BY <1>4, <1>5, <1>10, <1>11 DEF IInv, Standing

-----------------------------------------------------------------------------
(* The handlers of events that are not of the link. *)

LEMMA HeadTypes ==
  ASSUME IInv, NEW b \in Buds, NEW ev, Receives(b, ev)
  PROVE  bud[b] \in Bud /\ b \in on /\ Head(events[b]) \in EventRec /\ Head(events[b]).ev = ev
<1>1. bud[b] \in Bud /\ events[b] \in Seq(EventRec) /\ events[b] # <<>>
  BY BudTypes DEF Receives
<1>2. Head(events[b]) \in EventRec
  BY <1>1
<1> QED
  BY <1>1, <1>2 DEF Receives

LEMMA PutAsideKeeps == ASSUME NEW r \in Bud PROVE Kept(r, PutAside(r))
<1>1. r.counter \in Tries
  BY DEF Bud
<1> QED
  BY <1>1, Budgets DEF Kept, Bud, PutAside

LEMMA ConnectionTimeoutKeeps == ASSUME IInv, NEW b \in Buds, TwsConnectionTimeout(b) PROVE IInv'
<1> DEFINE r == bud[b]
           u == IF r.timeout THEN [PutAside(r) EXCEPT !.timeout = FALSE] ELSE r
           s == IF r.unpaired THEN bt_tws_connect_and_connectable_switch(b, r)
                ELSE IF Head(events[b]).phone THEN bt_tws_wait_sibling_connect(r)
                ELSE bt_tws_connect_and_connectable_switch(b, u)
<1>1. Receives(b, "CONNECTION_TIMEOUT") /\ Becomes(b, s) /\ UNCHANGED radio
  BY DEF TwsConnectionTimeout
<1>2. r \in Bud /\ Head(events[b]).ev = "CONNECTION_TIMEOUT"
  BY <1>1, HeadTypes
<1> HIDE DEF r
<1>3. Kept(r, u) /\ u \in Bud
  <2>1. PutAside(r) \in Bud /\ Kept(r, PutAside(r)) /\ Kept(r, r)
    BY <1>2, PutAsideKeeps DEF Kept
  <2> DEFINE q == PutAside(r)
  <2> HIDE DEF q
  <2>2. Kept(q, [q EXCEPT !.timeout = FALSE])
    BY <2>1 DEF Kept, Bud, q
  <2>3. Kept(r, [q EXCEPT !.timeout = FALSE])
    BY <2>1, <2>2, KeptTwice DEF q
  <2> QED
    BY <1>2, <2>1, <2>3 DEF Kept, q
<1> HIDE DEF u
<1>4. Kept(r, s) /\ (IsMaster(b) => Findable(s))
  <2>1. Kept(u, bt_tws_connect_and_connectable_switch(b, u))
        /\ (IsMaster(b) => Findable(bt_tws_connect_and_connectable_switch(b, u)))
    BY <1>3, BtSwitchFound
  <2>2. Kept(r, bt_tws_connect_and_connectable_switch(b, u))
    BY <1>3, <2>1, KeptTwice
  <2>3. Kept(r, bt_tws_connect_and_connectable_switch(b, r))
        /\ (IsMaster(b) => Findable(bt_tws_connect_and_connectable_switch(b, r)))
    BY <1>2, BtSwitchFound
  <2>4. Kept(r, bt_tws_wait_sibling_connect(r)) /\ Findable(bt_tws_wait_sibling_connect(r))
    BY <1>2, Simple1, WaitsAlive
  <2> QED
    BY <2>1, <2>2, <2>3, <2>4
<1> HIDE DEF s
<1> USE DEF r
<1> QED
  BY <1>1, <1>2, <1>4, MasterAlone, MasterLeads, FoundAlive, HandleKeeps DEF OfLink

LEMMA PhoneLinkDetachKeeps == ASSUME IInv, NEW b \in Buds, PhoneLinkDetach(b) PROVE IInv'
<1> DEFINE r == CASE Head(events[b]).reason = "timeout" -> bud[b]
                  [] Head(events[b]).reason = "refused" -> [bud[b] EXCEPT !.counter = RefusedTries]
                  [] Head(events[b]).reason = "left" -> [bud[b] EXCEPT !.counter = 0]
           s == bt_tws_connect_and_connectable_switch(b, r)
<1>1. Receives(b, "PHONE_LINK_DETACH") /\ Becomes(b, s) /\ UNCHANGED radio
  BY DEF PhoneLinkDetach
<1>2. bud[b] \in Bud /\ Head(events[b]).ev = "PHONE_LINK_DETACH" /\ Head(events[b]) \in EventRec
  BY <1>1, HeadTypes
<1>3. r \in {bud[b], [bud[b] EXCEPT !.counter = RefusedTries], [bud[b] EXCEPT !.counter = 0]}
  BY <1>2 DEF EventRec
<1> HIDE DEF r
<1>4. r \in Bud /\ Kept(bud[b], r)
  BY <1>2, <1>3, Budgets DEF Bud, Kept
<1>5. Kept(r, s) /\ (IsMaster(b) => Findable(s))
  BY <1>4, BtSwitchFound
<1> HIDE DEF s
<1>6. Kept(bud[b], s)
  BY <1>4, <1>5, KeptTwice
<1> QED
  BY <1>1, <1>2, <1>5, <1>6, MasterAlone, MasterLeads, FoundAlive, HandleKeeps DEF OfLink

LEMMA RoleSwitchKeeps == ASSUME IInv, NEW b \in Buds, RoleSwitch(b) PROVE IInv'
<1> DEFINE s == IF phone # None THEN bud[b]
                ELSE bt_tws_connect_and_connectable_switch(b, bud[b])
<1>1. Receives(b, "ROLE_SWITCH") /\ Becomes(b, s) /\ UNCHANGED radio
  BY DEF RoleSwitch
<1>2. bud[b] \in Bud /\ Head(events[b]).ev = "ROLE_SWITCH"
  BY <1>1, HeadTypes
<1>3. Kept(bud[b], s) /\ (IsMaster(b) => Findable(s) \/ (phone # None /\ s = bud[b]))
  BY <1>2, BtSwitchFound DEF Kept
<1> HIDE DEF s
<1> QED
  BY <1>1, <1>2, <1>3, MasterAlone, MasterLeads, FoundAlive, HandleKeeps DEF OfLink, Revives

LEMMA HciConnectKeeps == ASSUME IInv, NEW b \in Buds, HciConnect(b) PROVE IInv'
<1> DEFINE s == bt_tws_hci_event_connect(bud[b])
<1>1. Receives(b, "HCI_CONNECT") /\ Becomes(b, s) /\ UNCHANGED radio
  BY DEF HciConnect
<1>2. bud[b] \in Bud /\ Head(events[b]).ev = "HCI_CONNECT"
  BY <1>1, HeadTypes
<1>3. Kept(bud[b], s)
  <2>1. bt_tws_delete_pair_timer(bud[b]) \in Bud /\ Kept(bud[b], bt_tws_delete_pair_timer(bud[b]))
    BY <1>2, Simple1 DEF Kept
  <2> DEFINE q == bt_tws_delete_pair_timer(bud[b])
  <2>2. s = [q EXCEPT !.power_on = FALSE, !.counter = 0]
    BY DEF bt_tws_hci_event_connect
  <2> HIDE DEF q
  <2>3. Kept(q, [q EXCEPT !.power_on = FALSE, !.counter = 0])
    BY <2>1, Budgets DEF Kept, Bud, q
  <2> QED
    BY <2>1, <2>2, <2>3, KeptTwice DEF q
<1> HIDE DEF s
<1> QED
  BY <1>1, <1>2, <1>3, HandleKeeps DEF OfLink, Kills, Hides

LEMMA PhoneConnectedKeeps == ASSUME IInv, NEW b \in Buds, PhoneConnected(b) PROVE IInv'
<1> DEFINE s == IF bud[b].unpaired \/ bud[b].sib THEN bud[b] ELSE bt_tws_wait_sibling_connect(bud[b])
<1>1. Receives(b, "PHONE_CONNECTED") /\ Becomes(b, s) /\ UNCHANGED radio
  BY DEF PhoneConnected
<1>2. bud[b] \in Bud /\ Head(events[b]).ev = "PHONE_CONNECTED"
  BY <1>1, HeadTypes
<1>3. Kept(bud[b], s) /\ (Findable(s) \/ s = bud[b])
  BY <1>2, Simple1, WaitsAlive DEF Kept
<1> HIDE DEF s
<1>4. ~OfLink(Head(events[b])) /\ ~Revives(Head(events[b])) /\ ~Shows(Head(events[b]))
  BY <1>2 DEF OfLink, Revives, Shows, Calls
<1> QED
  BY <1>1, <1>3, <1>4, FoundAlive, HandleKeeps

LEMMA DisconnectKeeps ==
  ASSUME IInv, NEW b \in Buds, NEW ev \in {"HCI_DISCONNECT", "PAGE_TIMEOUT"}, Receives(b, ev),
         Becomes(b, bt_tws_phone_disconnected(b, bud[b])), UNCHANGED radio
  PROVE  IInv'
<1> DEFINE s == bt_tws_phone_disconnected(b, bud[b])
<1>1. Receives(b, ev) /\ Becomes(b, s) /\ UNCHANGED radio
  OBVIOUS
<1>2. bud[b] \in Bud /\ Head(events[b]).ev = ev
  BY <1>1, HeadTypes
<1>3. Kept(bud[b], s) /\ (IsMaster(b) /\ ~bud[b].sib => Alive(s))
      /\ (IsMaster(b) /\ Findable(bud[b]) => Findable(s))
  BY <1>2, DisconnectedAlive
<1> HIDE DEF s
<1>4. ~OfLink(Head(events[b])) /\ ~Shows(Head(events[b]))
  BY <1>2 DEF OfLink, Shows, Calls
<1> QED
  BY <1>1, <1>3, <1>4, MasterAlone, MasterLeads, HandleKeeps

LEMMA PhoneLostKeeps ==
  ASSUME IInv, NEW b \in Buds, NEW ev \in {"HCI_TIMEOUT", "HCI_EXIST"}, NEW tries \in Tries,
         PhoneLost(b, ev, tries)
  PROVE  IInv'
<1> DEFINE u == [bud[b] EXCEPT !.counter = tries]
<1>1. PICK s : /\ s \in IF bud[b].esco THEN {bt_tws_phone_disconnected(b, bud[b])}
                        ELSE bt_tws_phone_connect_timeout(b, u)
               /\ Receives(b, ev) /\ Becomes(b, s) /\ UNCHANGED radio
  BY DEF PhoneLost
<1>2. bud[b] \in Bud /\ Head(events[b]).ev = ev
  BY <1>1, HeadTypes
<1>3. u \in Bud /\ Kept(bud[b], u)
  BY <1>2, Budgets DEF Bud, Kept
<1> HIDE DEF u
<1>4. Kept(bud[b], s) /\ (IsMaster(b) /\ ~bud[b].sib => Alive(s))
  <2>1. CASE s = bt_tws_phone_disconnected(b, bud[b])
    BY <1>2, <2>1, DisconnectedAlive
  <2>2. CASE s \in bt_tws_phone_connect_timeout(b, u)
    <3>1. Kept(u, s) /\ (IsMaster(b) => Alive(s))
      BY <1>3, <2>2, TimeoutAlive
    <3> QED
      BY <1>3, <3>1, KeptTwice
  <2> QED
    BY <1>1, <2>1, <2>2
<1>5. ~OfLink(Head(events[b])) /\ Hides(Head(events[b]))
  BY <1>2 DEF OfLink, Hides
<1> QED
  BY <1>1, <1>4, <1>5, MasterAlone, HandleKeeps

LEMMA LostKeeps ==
  ASSUME IInv, NEW b \in Buds, Receives(b, "HCI_LOST"), NEW s \in bt_tws_phone_connect_timeout(b, bud[b]),
         Becomes(b, s), UNCHANGED radio
  PROVE  IInv'
<1>1. bud[b] \in Bud /\ Head(events[b]).ev = "HCI_LOST"
  BY HeadTypes
<1>2. Kept(bud[b], s) /\ (IsMaster(b) => Alive(s))
  BY <1>1, TimeoutAlive
<1>3. ~OfLink(Head(events[b])) /\ Hides(Head(events[b]))
  BY <1>1 DEF OfLink, Hides
<1> QED
  BY <1>2, <1>3, MasterAlone, HandleKeeps

LEMMA HciDisconnectKeeps == ASSUME IInv, NEW b \in Buds, HciDisconnect(b) \/ PageTimeout(b) PROVE IInv'
<1>1. CASE Receives(b, "HCI_LOST") /\ HciDisconnect(b)
  BY <1>1, LostKeeps DEF HciDisconnect, Receives
<1>2. CASE Receives(b, "HCI_DISCONNECT") /\ HciDisconnect(b)
  BY <1>2, DisconnectKeeps DEF HciDisconnect, Receives
<1>3. CASE PageTimeout(b)
  BY <1>3, DisconnectKeeps DEF PageTimeout
<1> QED
  BY <1>1, <1>2, <1>3 DEF HciDisconnect

LEMMA EscoOpenKeeps == ASSUME IInv, NEW b \in Buds, EscoOpen(b) PROVE IInv'
<1> DEFINE r == [bud[b] EXCEPT !.esco = TRUE]
           q == cancle_create_connection(bt_tws_delete_pair_timer(r))
           s == IF r.unpaired THEN r ELSE [q EXCEPT !.scan = "esco"]
<1>1. Receives(b, "ESCO_OPEN") /\ Becomes(b, s) /\ UNCHANGED radio
  BY DEF EscoOpen
<1>2. bud[b] \in Bud /\ Head(events[b]).ev = "ESCO_OPEN"
  BY <1>1, HeadTypes
<1>3. Kept(bud[b], r) /\ r \in Bud /\ (Findable(bud[b]) => Findable(r)) /\ (Alive(bud[b]) => Alive(r))
  BY <1>2 DEF Bud, Kept, Alive, Findable
<1> HIDE DEF r
<1>4. Kept(r, q) /\ q \in Bud
  <2>1. Kept(r, bt_tws_delete_pair_timer(r)) /\ bt_tws_delete_pair_timer(r) \in Bud
    BY <1>3, Simple1 DEF Kept
  <2> QED
    BY <2>1, Simple1, KeptTwice DEF Kept
<1> HIDE DEF q
<1>5. Kept(q, [q EXCEPT !.scan = "esco"]) /\ Findable([q EXCEPT !.scan = "esco"])
  BY <1>4 DEF Bud, Kept, Findable
<1>6. Kept(bud[b], s) /\ (Alive(s) \/ ~Alive(bud[b])) /\ (Findable(s) \/ ~Findable(bud[b]))
  BY <1>3, <1>4, <1>5, KeptTwice, FoundAlive
<1> HIDE DEF s
<1> QED
  BY <1>1, <1>2, <1>6, HandleKeeps DEF OfLink, Revives, Shows, Calls

LEMMA EscoCloseKeeps == ASSUME IInv, NEW b \in Buds, EscoClose(b) PROVE IInv'
<1> DEFINE r == [bud[b] EXCEPT !.esco = FALSE]
           s == IF r.unpaired \/ r.sib THEN r ELSE [r EXCEPT !.scan = "sibling"]
<1>1. Receives(b, "ESCO_CLOSE") /\ Becomes(b, s) /\ UNCHANGED radio
  BY DEF EscoClose
<1>2. bud[b] \in Bud /\ Head(events[b]).ev = "ESCO_CLOSE"
  BY <1>1, HeadTypes
<1>3. Kept(bud[b], r) /\ r \in Bud /\ (Findable(bud[b]) => Findable(r)) /\ (Alive(bud[b]) => Alive(r))
  BY <1>2 DEF Bud, Kept, Alive, Findable
<1> HIDE DEF r
<1>4. Kept(r, [r EXCEPT !.scan = "sibling"]) /\ Findable([r EXCEPT !.scan = "sibling"])
  BY <1>3 DEF Bud, Kept, Findable
<1>5. Kept(bud[b], s) /\ (Alive(s) \/ ~Alive(bud[b])) /\ (Findable(s) \/ ~Findable(bud[b]))
  BY <1>3, <1>4, KeptTwice, FoundAlive
<1> HIDE DEF s
<1> QED
  BY <1>1, <1>2, <1>5, HandleKeeps DEF OfLink, Revives, Shows, Calls

-----------------------------------------------------------------------------
(* The handlers of the events of the link. *)

LEMMA LinkHandleKeeps ==
  ASSUME IInv, NEW b \in Buds, NEW ev \in {"CONNECTED", "CONNECTION_DETACH"}, Receives(b, ev),
         NEW r \in Bud, Becomes(b, r), UNCHANGED <<on, master, phone, profile, call, chances>>,
         paired' = paired \/ paired' = paired \union {b},
         r.sib = (ev = "CONNECTED"), r.unpaired = (b \notin paired'), r.sib => b \in paired',
         ev = "CONNECTION_DETACH" /\ ~Linked => Alive(r),
         phone = None /\ master = b => Findable(r) \/ Hides(Head(events[b]))
  PROVE  IInv'
<1> DEFINE e == Head(events[b])
           q == Tail(events[b])
<1>1. b \in on /\ events[b] # <<>> /\ events' = [events EXCEPT ![b] = q] /\ e.ev = ev
      /\ bud[b] \in Bud /\ events[b] \in Seq(EventRec)
  BY BudTypes DEF Receives
<1>2. bud' = [bud EXCEPT ![b] = r]
  BY DEF Becomes
<1>3. /\ bud' \in [Buds -> Bud] /\ bud'[b] = r /\ \A c \in Buds : c # b => bud'[c] = bud[c]
      /\ q \in Seq(EventRec) /\ events' \in [Buds -> Seq(EventRec)]
      /\ events'[b] = q /\ \A c \in Buds : c # b => events'[c] = events[c]
  BY <1>1, <1>2, Rests DEF IInv, Types
<1>4. Types'
  BY <1>3 DEF IInv, Types
<1>5. Linked' = Linked /\ Linked \in BOOLEAN
  BY DEF Linked
<1>6. OnInv(b)
  BY <1>1 DEF IInv
<1>7. OfLink(e) /\ (Kills(e) \/ ev = "CONNECTION_DETACH") /\ ~(Kills(e) /\ Revives(e))
  BY <1>1 DEF OfLink, Kills, Revives
<1>8. Knows(b)'
  <2>1. LastSays(events[b], Linked)
    BY <1>1, <1>5, <1>6, <1>7, SaysRest DEF OnInv, Knows
  <2>2. LastSays(q, Linked) \/ (Silent(q) /\ (e.ev = "CONNECTED") = Linked)
    BY <1>1, <1>5, <1>7, <2>1, SaysRest
  <2> HIDE DEF q, e
  <2> QED
    BY <1>1, <1>3, <1>5, <2>2 DEF Knows
<1>9. ASSUME ~Linked, phone # b PROVE Good(q, Alive(r))
  <2>1. Good(events[b], Alive(bud[b]))
    BY <1>6, <1>9 DEF OnInv
  <2>2. Harmless(events[b]) => Harmless(q) /\ ~Kills(e)
    BY <1>1, RescuedRest
  <2>3. Rescued(events[b]) => Rescued(q) \/ (Revives(e) /\ Harmless(q))
    BY <1>1, RescuedRest
  <2> QED
    BY <1>7, <1>9, <2>1, <2>2, <2>3 DEF Good
<1>10. ASSUME NEW c \in on PROVE OnInv(c)'
  <2>1. c \in Buds /\ OnInv(c)
    BY DEF IInv, Types
  <2>2. CASE c = b
    <3>1. ~Linked' /\ phone' # b => Good(events'[b], Alive(bud'[b]))
      BY <1>3, <1>5, <1>9
    <3>2. phone' = None /\ master' = b => Shown(events'[b], Findable(bud'[b]))
      <4> SUFFICES ASSUME phone = None, master = b PROVE Shown(q, Findable(r))
        BY <1>3
      <4>1. Shown(events[b], Findable(bud[b]))
        BY <1>6 DEF OnInv
      <4> QED
        BY <1>1, <4>1, ShownKeeps DEF Findable
    <3> QED
      BY <1>3, <1>8, <2>2, <3>1, <3>2 DEF OnInv
  <2>3. CASE c # b
    <3>1. events'[c] = events[c] /\ bud'[c] = bud[c] /\ (c \in paired') = (c \in paired)
      BY <1>3, <2>1, <2>3
    <3> HIDE DEF q
    <3> QED
      BY <1>5, <2>1, <3>1 DEF OnInv, Knows
  <2> QED
    BY <2>2, <2>3
<1>11. \A c \in Buds \ on : events'[c] = <<>>
  BY <1>1, <1>3 DEF IInv
<1> QED
  BY <1>4, <1>5, <1>10, <1>11 DEF IInv

LEMMA ConnectedKeeps == ASSUME IInv, NEW b \in Buds, TwsConnected(b) PROVE IInv'
<1> DEFINE e == Head(events[b])
           p == RecordSibling(b, bud[b])
           q == TakeBack(p, e.role)
           r == JoinPair(q)
           s == IF e.phone THEN r
                ELSE IF e.role = "master" THEN bt_tws_connect_and_connectable_switch(b, r)
                ELSE [r EXCEPT !.scan = "none"]
<1>1. Receives(b, "CONNECTED") /\ Becomes(b, s) /\ paired' = paired \union {b}
      /\ UNCHANGED <<on, master, phone, profile, call, chances>>
  BY DEF TwsConnected
<1>2. bud[b] \in Bud /\ b \in on
  BY <1>1, HeadTypes
<1>3. p \in Bud /\ p.unpaired = FALSE
  <2>1. bud[b].unpaired = (b \notin paired)
    BY <1>2 DEF IInv, OnInv
  <2>2. CASE b \in paired
    BY <1>2, <2>1, <2>2 DEF RecordSibling
  <2>3. CASE b \notin paired
    <3> DEFINE x == bud[b]
    <3>1. x \in Bud /\ p = [x EXCEPT !.unpaired = FALSE, !.power_on = FALSE]
      BY <1>2, <2>3 DEF RecordSibling
    <3> HIDE DEF x, p
    <3> QED
      BY <3>1 DEF Bud
  <2> QED
    BY <2>2, <2>3
<1> HIDE DEF p
<1>4. q \in Bud /\ q.unpaired = FALSE
  <2>1. p.connect_time \in Tries /\ p.counter \in Tries
    BY <1>3 DEF Bud
  <2> QED
    BY <1>3, <2>1, Budgets DEF TakeBack, Bud
<1> HIDE DEF q
<1>5. r \in Bud /\ r.unpaired = FALSE /\ r.sib = TRUE
  <2> DEFINE d == bt_tws_delete_pair_timer(q)
  <2>1. d \in Bud /\ d.unpaired = FALSE
    BY <1>4, Simple1 DEF Kept
  <2>2. r = [d EXCEPT !.timeout = FALSE, !.sib = TRUE]
    BY DEF JoinPair
  <2> HIDE DEF d, r
  <2> QED
    BY <2>1, <2>2 DEF Bud
<1> HIDE DEF r
<1>6. Kept(r, s) /\ (master = b => Findable(s) \/ Hides(e))
  <2>1. Kept(r, r) /\ Kept(r, [r EXCEPT !.scan = "none"])
    BY <1>5 DEF Kept, Bud
  <2>2. e.ev = "CONNECTED"
    BY <1>1, HeadTypes
  <2>3. ~Hides(e) => ~e.phone /\ e.role = "master"
    BY <2>2 DEF Hides, Calls
  <2> QED
    BY <1>5, <2>1, <2>3, BtSwitchFound, MasterLeads
<1> HIDE DEF s
<1>7. s \in Bud /\ s.sib = TRUE /\ s.unpaired = FALSE /\ b \in paired'
  BY <1>1, <1>5, <1>6 DEF Kept
<1> QED
  BY <1>1, <1>6, <1>7, LinkHandleKeeps

LEMMA DetachKeeps == ASSUME IInv, NEW b \in Buds, TwsDetach(b) PROVE IInv'
<1> DEFINE e == Head(events[b])
           r == LeavePair(bud[b])
<1>1. PICK s \in AfterDetach(b, e, r) :
         Receives(b, "CONNECTION_DETACH") /\ Becomes(b, s) /\ UNCHANGED radio
  BY DEF TwsDetach
<1>2. bud[b] \in Bud /\ b \in on
  BY <1>1, HeadTypes
<1>3. r \in Bud /\ r.sib = FALSE /\ r.unpaired = (b \notin paired)
  BY <1>2 DEF LeavePair, Bud, IInv, OnInv
<1> HIDE DEF r
<1>4. Kept(r, s) /\ (IsMaster(b) => Alive(s))
  <2>1. CASE s = [r EXCEPT !.scan = "esco"]
    BY <1>3, <2>1 DEF Kept, Bud, Alive
  <2>2. CASE s = bt_tws_wait_sibling_connect(r)
    BY <1>3, <2>2, Simple1, WaitsAlive
  <2>3. CASE s = bt_tws_connect_and_connectable_switch(b, r)
    BY <1>3, <2>3, BtSwitchFound, FoundAlive
  <2>4. CASE s \in ConnectSibling(b, IF e.role = "slave" THEN [PutAside(r) EXCEPT !.timeout = TRUE] ELSE r)
    <3> DEFINE q == PutAside(r)
               t == IF e.role = "slave" THEN [q EXCEPT !.timeout = TRUE] ELSE r
    <3>1. Kept(r, q) /\ q \in Bud
      BY <1>3, PutAsideKeeps DEF Kept
    <3> HIDE DEF q
    <3>2. Kept(q, [q EXCEPT !.timeout = TRUE]) /\ Kept(r, r)
      BY <1>3, <3>1 DEF Kept, Bud
    <3>3. Kept(r, t) /\ t \in Bud
      BY <3>1, <3>2, KeptTwice DEF Kept
    <3>4. s \in ConnectSibling(b, t)
      BY <2>4 DEF q
    <3> HIDE DEF t
    <3>5. Kept(t, s) /\ (IsMaster(b) => Alive(s))
      BY <3>3, <3>4, SiblingAlive
    <3> QED
      BY <3>3, <3>5, KeptTwice
  <2> QED
    BY <1>1, <2>1, <2>2, <2>3, <2>4 DEF AfterDetach
<1>5. s \in Bud /\ s.sib = FALSE /\ s.unpaired = (b \notin paired)
  BY <1>3, <1>4 DEF Kept
<1>6. UNCHANGED <<on, paired, master, phone, profile, call, chances>>
  BY <1>1 DEF radio
<1>7. Hides(e)
  <2>1. e.ev = "CONNECTION_DETACH"
    BY <1>1, HeadTypes
  <2> QED
    BY <2>1 DEF Hides
<1> QED
  BY <1>1, <1>4, <1>5, <1>6, <1>7, MasterAlone, LinkHandleKeeps

-----------------------------------------------------------------------------
(* The controllers, the phone and the user only add to the queues. *)

LEMMA NoEvent == <<>> \in Seq(EventRec) /\ Silent(<<>>) /\ Harmless(<<>>) /\ Without(<<>>, Hiders)
  BY DEF Silent, Harmless, Without

LEMMA NothingAdded == ASSUME NEW s \in Seq(EventRec) PROVE s \o <<>> = s
  OBVIOUS

LEMMA OneEvent ==
  ASSUME NEW e \in EventRec
  PROVE  /\ <<e>> \in Seq(EventRec)
         /\ ~OfLink(e) => Silent(<<e>>)
         /\ OfLink(e) => LastSays(<<e>>, e.ev = "CONNECTED")
         /\ ~Kills(e) => Harmless(<<e>>)
         /\ Revives(e) => Rescued(<<e>>)
         /\ ~Hides(e) => Without(<<e>>, Hiders)
         /\ Shows(e) => After(<<e>>, Showers, Hiders)
<1>1. <<e>> \in Seq(EventRec) /\ Len(<<e>>) = 1 /\ <<e>>[1] = e
  OBVIOUS
<1>2. ~OfLink(e) => Silent(<<e>>)
  BY <1>1 DEF Silent
<1>3. OfLink(e) => LastSays(<<e>>, e.ev = "CONNECTED")
  BY <1>1 DEF LastSays
<1>4. ~Kills(e) => Harmless(<<e>>)
  BY <1>1 DEF Harmless, Without, Killers
<1>5. ~Hides(e) => Without(<<e>>, Hiders)
  BY <1>1 DEF Without, Hiders
<1>6. ASSUME NEW R, NEW K, e \in R PROVE After(<<e>>, R, K)
  BY <1>1, <1>6 DEF After
<1>7. (Revives(e) => e \in Revivers) /\ (Shows(e) => e \in Showers)
  BY DEF Revivers, Showers
<1> QED
  BY <1>1, <1>2, <1>3, <1>4, <1>5, <1>6, <1>7 DEF Rescued

LEMMA Events ==
  ASSUME NEW ev \in EventKinds, NEW role \in {"none", "master", "slave"}, NEW ph \in BOOLEAN,
         NEW reason \in Reasons,
         ev = "PHONE_LINK_DETACH" => reason \in {"timeout", "refused", "left"}
  PROVE  Event(ev, role, ph, reason) \in EventRec /\ Event(ev, role, ph, reason).ev = ev
  BY DEF Event, EventRec

(* An event of one kind, and what it is to the invariant. *)
LEMMA SimpleEvent ==
  ASSUME NEW ev \in EventKinds \ {"PHONE_LINK_DETACH", "CONNECTED", "CONNECTION_DETACH"}
  PROVE  /\ Simple(ev) \in Seq(EventRec) /\ Silent(Simple(ev))
         /\ ev # "HCI_CONNECT" => Harmless(Simple(ev))
         /\ ev \in {"PHONE_CONNECTED", "ESCO_OPEN", "ESCO_CLOSE"} => Without(Simple(ev), Hiders)
         /\ ev \in {"HCI_DISCONNECT", "HCI_LOST", "HCI_TIMEOUT", "HCI_EXIST"} => Rescued(Simple(ev))
<1>1. Event(ev, "none", FALSE, "none") \in EventRec /\ Event(ev, "none", FALSE, "none").ev = ev
  BY Events DEF Reasons
<1> QED
  BY <1>1, OneEvent DEF Simple, OfLink, Kills, Revives, Hides

(* What an addition to a queue has to be. *)
Adds(c, t) ==
    /\ t \in Seq(EventRec) /\ events'[c] = events[c] \o t
    /\ (Linked' = Linked /\ Silent(t)) \/ LastSays(t, Linked')
    /\ ~Linked' /\ phone' # c =>
          \/ Rescued(t)
          \/ Harmless(t) /\ ~Linked /\ phone # c /\ (Alive(bud[c]) => Alive(bud'[c]))
    /\ phone' = None /\ master' = c =>
          \/ After(t, Showers, Hiders)
          \/ /\ Without(t, Hiders) /\ phone = None /\ master = c
             /\ Findable(bud[c]) => Findable(bud'[c])

LEMMA AddKeeps ==
  ASSUME IInv, NEW c \in on, NEW t, Adds(c, t), Kept(bud[c], bud'[c]), paired' = paired
  PROVE  OnInv(c)'
<1>1. OnInv(c) /\ events[c] \in Seq(EventRec) /\ t \in Seq(EventRec)
      /\ Linked \in BOOLEAN /\ Linked' \in BOOLEAN /\ events'[c] = events[c] \o t
  BY BudTypes DEF IInv, Types, Adds, Linked
<1>2. bud'[c].sib = bud[c].sib /\ bud'[c].unpaired = bud[c].unpaired
  BY DEF Kept
<1>3. Knows(c)'
  <2>1. CASE Linked' = Linked /\ Silent(t)
    <3>1. /\ Silent(events[c]) => Silent(events'[c])
          /\ LastSays(events[c], Linked) => LastSays(events'[c], Linked)
      BY <1>1, <2>1, SilentJoined
    <3> QED
      BY <1>1, <1>2, <2>1, <3>1 DEF OnInv, Knows
  <2>2. CASE LastSays(t, Linked')
    BY <1>1, <2>2, SaysJoined DEF Knows
  <2> QED
    BY <2>1, <2>2 DEF Adds
<1>4. ASSUME ~Linked', phone' # c PROVE Good(events'[c], Alive(bud'[c]))
  <2>1. CASE Rescued(t)
    BY <1>1, <2>1, RescuedJoined DEF Good
  <2>2. CASE Harmless(t) /\ ~Linked /\ phone # c /\ (Alive(bud[c]) => Alive(bud'[c]))
    <3>1. Good(events[c], Alive(bud[c]))
      BY <1>1, <2>2 DEF OnInv
    <3>2. /\ Harmless(events[c]) => Harmless(events'[c])
          /\ Rescued(events[c]) => Rescued(events'[c])
      BY <1>1, <2>2, HarmlessJoined
    <3> QED
      BY <2>2, <3>1, <3>2 DEF Good
  <2> QED
    BY <1>4, <2>1, <2>2 DEF Adds
<1>5. ASSUME phone' = None, master' = c PROVE Shown(events'[c], Findable(bud'[c]))
  <2>1. CASE After(t, Showers, Hiders)
    BY <1>1, <2>1, AfterJoined DEF Shown
  <2>2. CASE Without(t, Hiders) /\ phone = None /\ master = c /\ (Findable(bud[c]) => Findable(bud'[c]))
    <3>1. Shown(events[c], Findable(bud[c]))
      BY <1>1, <2>2 DEF OnInv
    <3>2. /\ Without(events[c], Hiders) => Without(events'[c], Hiders)
          /\ After(events[c], Showers, Hiders) => After(events'[c], Showers, Hiders)
      BY <1>1, <2>2, WithoutJoined
    <3> QED
      BY <2>2, <3>1, <3>2 DEF Shown
  <2> QED
    BY <1>5, <2>1, <2>2 DEF Adds
<1> QED
  BY <1>1, <1>2, <1>3, <1>4, <1>5 DEF OnInv

LEMMA OthersOff ==
  ASSUME IInv, NEW b \in Buds \ on PROVE ~Linked /\ events[b] = <<>>
  BY DEF IInv

LEMMA KeptSame == ASSUME IInv, NEW c \in Buds PROVE Kept(bud[c], bud[c])
  BY BudTypes DEF Kept

(* A step that adds t[c] to the queue of each bud c that runs. *)
LEMMA AllAdd ==
  ASSUME IInv, NEW t, UNCHANGED <<on, paired>>,
         bud' \in [Buds -> Bud], events' \in [Buds -> Seq(EventRec)],
         master' \in Buds \union {None}, phone' \in on \union {None},
         profile' \in BOOLEAN, call' \in BOOLEAN, chances' \in [Disturbances -> Nat],
         Linked' => on = Buds,
         \A c \in Buds \ on : events'[c] = events[c],
         \A c \in on : Adds(c, t[c]) /\ Kept(bud[c], bud'[c])
  PROVE  IInv'
<1>1. Types'
  BY DEF IInv, Types
<1>2. \A c \in on : OnInv(c)'
  BY AddKeeps
<1> QED
  BY <1>1, <1>2 DEF IInv

LEMMA Spends ==
  ASSUME IInv, NEW what \in Disturbances, Spend(what)
  PROVE  chances' \in [Disturbances -> Nat]
<1>1. chances \in [Disturbances -> Nat] /\ chances[what] > 0 /\ chances[what] \in Nat
  BY DEF IInv, Types, Spend
<1>2. chances[what] - 1 \in Nat
  BY <1>1
<1> QED
  BY <1>1, <1>2 DEF Spend

-----------------------------------------------------------------------------
(* The steps of the environment, one by one. *)

LEMMA PowerOnKeeps == ASSUME IInv, NEW b \in Buds, PowerOn(b) PROVE IInv'
<1> DEFINE o == [Off EXCEPT !.unpaired = b \notin paired, !.power_on = TRUE, !.memory = Phones]
           q == NextPhone(o)
<1>1. PICK r \in ConnectSibling(b, q) : Becomes(b, r)
  BY DEF PowerOn
<1>2. b \in Buds \ on /\ on' = on \union {b}
      /\ UNCHANGED <<paired, events, master, phone, profile, call, chances>>
  BY DEF PowerOn
<1>3. o \in Bud /\ o.sib = FALSE /\ o.unpaired = (b \notin paired)
  BY Budgets DEF Off, Bud, Idle
<1> HIDE DEF o
<1>4. Kept(o, q) /\ q \in Bud
  BY <1>3, RefillKeeps DEF Kept
<1> HIDE DEF q
<1>5. Kept(q, r) /\ (IsMaster(b) => Alive(r))
  BY <1>1, <1>4, SiblingAlive
<1>6. r \in Bud /\ r.sib = FALSE /\ r.unpaired = (b \notin paired)
  BY <1>3, <1>4, <1>5 DEF Kept
<1>7. bud' \in [Buds -> Bud] /\ bud'[b] = r /\ \A c \in Buds : c # b => bud'[c] = bud[c]
  BY <1>1, <1>6 DEF Becomes, IInv, Types
<1>8. Types'
  BY <1>2, <1>7 DEF IInv, Types
<1>9. ~Linked /\ ~Linked' /\ Linked' = Linked /\ Linked' = FALSE /\ events[b] = <<>> /\ Alive(r)
  <2>1. ~Linked /\ events[b] = <<>>
    BY <1>2, OthersOff
  <2>2. ~Linked'
    BY <1>2, <2>1 DEF Linked
  <2> QED
    BY <1>5, <2>1, <2>2, MasterAlone DEF Linked
<1>10. OnInv(b)'
  <2>1. Knows(b)'
    <3>1. Silent(events'[b]) /\ bud'[b].sib = Linked'
      BY <1>2, <1>6, <1>7, <1>9, NoEvent
    <3> QED
      BY <3>1 DEF Knows
  <2>2. Good(events'[b], Alive(bud'[b]))
    BY <1>2, <1>7, <1>9, NoEvent DEF Good
  <2>3. master' # b
    BY <1>9, BudsAssumption DEF Linked
  <2> QED
    BY <1>2, <1>6, <1>7, <2>1, <2>2, <2>3 DEF OnInv
<1>11. ASSUME NEW c \in on PROVE OnInv(c)'
  <2>1. OnInv(c) /\ c # b /\ c \in Buds
    BY <1>2 DEF IInv, Types
  <2>2. bud'[c] = bud[c] /\ events'[c] = events[c]
    BY <1>2, <1>7, <2>1
  <2>3. Knows(c)'
    BY <1>9, <2>1, <2>2 DEF OnInv, Knows
  <2>4. master' # c
    BY <1>9, <2>1, BudsAssumption DEF Linked
  <2> QED
    BY <1>2, <1>9, <2>1, <2>2, <2>3, <2>4 DEF OnInv
<1> QED
  BY <1>2, <1>8, <1>9, <1>10, <1>11 DEF IInv

LEMMA FollowKeeps ==
  ASSUME NEW r \in Bud, NEW b \in Buds, NEW m
  PROVE  Kept(r, Follow(r, b, m)) /\ (Alive(r) => Alive(Follow(r, b, m)))
  BY DEF Follow, Kept, Bud, Alive

LEMMA Pair == ASSUME NEW b \in Buds PROVE Sibling(b) \in Buds /\ Sibling(b) # b
<1>1. \E c \in Buds : c # b
  BY BudsAssumption
<1> QED
  BY <1>1 DEF Sibling

LEMMA Roles == \A m, b : RoleIn(m, b) \in {"none", "master", "slave"}
  BY DEF RoleIn

LEMMA LinkEvents ==
  ASSUME NEW ev \in {"CONNECTED", "CONNECTION_DETACH", "ROLE_SWITCH"}, NEW m, NEW b, NEW ph \in BOOLEAN,
         NEW reason \in {"none", "POWEROFF", "SUPER_TIMEOUT"}
  PROVE  Event(ev, RoleIn(m, b), ph, reason) \in EventRec /\ Event(ev, RoleIn(m, b), ph, reason).ev = ev
<1>1. RoleIn(m, b) \in {"none", "master", "slave"}
  BY Roles
<1>2. ev \in EventKinds /\ reason \in Reasons /\ ev # "PHONE_LINK_DETACH"
  BY DEF EventKinds, Reasons
<1> QED
  BY <1>1, <1>2, Events

LEMMA LinkKeeps == ASSUME IInv, Link PROVE IInv'
<1> DEFINE e(b) == Event("CONNECTED", RoleIn(master', b), phone # None, "none")
           esco(b) == IF call /\ b # master' THEN Simple("ESCO_OPEN") ELSE <<>>
           t == [b \in Buds |-> <<e(b)>> \o esco(b)]
<1>1. /\ on = Buds /\ master' \in Buds
      /\ events' = [b \in Buds |-> events[b] \o t[b]]
      /\ bud' = [b \in Buds |-> Follow(cancle_create_connection(bud[b]), b, master')]
      /\ UNCHANGED <<on, paired, phone, profile, call, chances>>
  BY DEF Link, PostBoth, IInv, Types
<1>2. Linked' /\ Linked' \in BOOLEAN
  BY <1>1, BudsAssumption DEF Linked
<1>3. ASSUME NEW c \in Buds
      PROVE  /\ t[c] \in Seq(EventRec) /\ LastSays(t[c], TRUE) /\ Kept(bud[c], bud'[c])
             /\ phone = None /\ master' = c => After(t[c], Showers, Hiders)
  <2>1. e(c) \in EventRec /\ e(c).ev = "CONNECTED"
    <3> DEFINE ph == phone # None
    <3>1. ph \in BOOLEAN /\ e(c) = Event("CONNECTED", RoleIn(master', c), ph, "none")
      OBVIOUS
    <3> HIDE DEF ph, e
    <3> QED
      BY <3>1, LinkEvents
  <2>2. <<e(c)>> \in Seq(EventRec) /\ LastSays(<<e(c)>>, TRUE)
    BY <2>1, OneEvent DEF OfLink
  <2>3. esco(c) \in Seq(EventRec) /\ Silent(esco(c))
    BY SimpleEvent, NoEvent DEF EventKinds
  <2>4. t[c] = <<e(c)>> \o esco(c)
    OBVIOUS
  <2>10. ASSUME phone = None, master' = c PROVE After(t[c], Showers, Hiders)
    <3>1. esco(c) = <<>> /\ t[c] = <<e(c)>>
      BY <2>2, <2>10, NothingAdded
    <3>2. e(c).role = "master" /\ e(c).phone = FALSE
      BY <2>10 DEF Event, RoleIn
    <3>3. Shows(e(c))
      BY <2>1, <3>2 DEF Shows, Calls
    <3> HIDE DEF e, esco, t
    <3> QED
      BY <2>1, <3>1, <3>3, OneEvent
  <2> HIDE DEF e, esco, t
  <2>5. t[c] \in Seq(EventRec)
    BY <2>2, <2>3, <2>4, Joined
  <2>6. LastSays(<<e(c)>> \o esco(c), TRUE)
    BY <2>2, <2>3, SilentJoined
  <2>7. bud[c] \in Bud
    BY BudTypes
  <2>8. Kept(bud[c], cancle_create_connection(bud[c]))
    BY <2>7, Simple1
  <2>9. Kept(cancle_create_connection(bud[c]), bud'[c])
    BY <1>1, <2>8, FollowKeeps DEF Kept
  <2> QED
    BY <2>4, <2>5, <2>6, <2>8, <2>9, <2>10, KeptTwice
<1> HIDE DEF t
<1>4. bud' \in [Buds -> Bud] /\ events' \in [Buds -> Seq(EventRec)]
  BY <1>1, <1>3, BudTypes, Joined DEF Kept
<1>5. \A c \in on : Adds(c, t[c])
  BY <1>1, <1>2, <1>3 DEF Adds
<1> QED
  BY <1>1, <1>3, <1>4, <1>5, AllAdd DEF IInv, Types

LEMMA DetachedEvents ==
  ASSUME IInv, NEW c \in Buds, NEW reason \in {"POWEROFF", "SUPER_TIMEOUT"}
  PROVE  /\ Detached(c, reason) \in Seq(EventRec)
         /\ LastSays(Detached(c, reason), FALSE) /\ Rescued(Detached(c, reason))
<1> DEFINE e == Event("CONNECTION_DETACH", RoleIn(master, c), phone = c, reason)
           esco == IF call /\ c # phone THEN Simple("ESCO_CLOSE") ELSE <<>>
<1>1. e \in EventRec /\ e.ev = "CONNECTION_DETACH"
  <2> DEFINE ph == phone = c
  <2>1. ph \in BOOLEAN /\ e = Event("CONNECTION_DETACH", RoleIn(master, c), ph, reason)
    OBVIOUS
  <2> HIDE DEF ph, e
  <2> QED
    BY <2>1, LinkEvents
<1>2. <<e>> \in Seq(EventRec) /\ LastSays(<<e>>, FALSE) /\ Rescued(<<e>>)
  BY <1>1, OneEvent DEF OfLink, Revives
<1>3. esco \in Seq(EventRec)
  BY SimpleEvent, NoEvent DEF EventKinds
<1>4. Detached(c, reason) = esco \o <<e>>
  BY DEF Detached
<1> HIDE DEF e, esco
<1> QED
  BY <1>2, <1>3, <1>4, Joined, SaysJoined, RescuedJoined

LEMMA FadeKeeps == ASSUME IInv, Fade PROVE IInv'
<1> DEFINE t == [b \in Buds |-> Detached(b, "SUPER_TIMEOUT")]
<1>1. /\ on = Buds /\ master' = None /\ Spend("fade")
      /\ events' = [b \in Buds |-> events[b] \o t[b]]
      /\ UNCHANGED <<on, paired, bud, phone, profile, call>>
  BY DEF Fade, PostBoth, IInv
<1>2. ~Linked' /\ Linked' = FALSE /\ \A c \in Buds : master' # c
  BY <1>1, BudsAssumption DEF Linked
<1>3. \A c \in Buds : t[c] \in Seq(EventRec) /\ LastSays(t[c], FALSE) /\ Rescued(t[c])
  BY DetachedEvents
<1> HIDE DEF t
<1>4. events' \in [Buds -> Seq(EventRec)]
  BY <1>1, <1>3, BudTypes, Joined
<1>5. \A c \in on : Adds(c, t[c]) /\ Kept(bud[c], bud'[c])
  BY <1>1, <1>2, <1>3, KeptSame DEF Adds
<1>6. chances' \in [Disturbances -> Nat]
  BY <1>1, Spends DEF Disturbances
<1> QED
  BY <1>1, <1>2, <1>4, <1>5, <1>6, AllAdd DEF IInv, Types

LEMMA LeaveKeeps == ASSUME IInv, NEW b \in Buds, Leave(b) PROVE IInv'
<1>1. /\ b \in on /\ on' = on \ {b} /\ master' = None /\ paired' = paired /\ Spend("leave")
      /\ bud' = [bud EXCEPT ![b] = Off]
      /\ phone = b => phone' = None /\ profile' = FALSE /\ call' = FALSE
      /\ phone # b => UNCHANGED <<phone, profile, call>>
  BY DEF Leave, Becomes
<1>2. PICK reason \in {"POWEROFF", "SUPER_TIMEOUT"} :
        events' = [c \in Buds |-> IF c = b THEN <<>>
                                  ELSE IF Linked THEN events[c] \o Detached(c, reason)
                                  ELSE events[c]]
  BY DEF Leave
<1> DEFINE t(c) == IF Linked THEN Detached(c, reason) ELSE <<>>
<1>3. ~Linked' /\ Linked' = FALSE /\ \A c \in Buds : master' # c
  BY <1>1, BudsAssumption DEF Linked
<1>4. Off \in Bud
  BY Budgets DEF Off, Bud, Idle
<1>5. bud' \in [Buds -> Bud] /\ \A c \in Buds : c # b => bud'[c] = bud[c]
  BY <1>1, <1>4 DEF IInv, Types
<1>6. ASSUME NEW c \in Buds
      PROVE  /\ t(c) \in Seq(EventRec) /\ events[c] \in Seq(EventRec)
             /\ c # b => events'[c] = events[c] \o t(c)
             /\ Linked => LastSays(t(c), FALSE) /\ Rescued(t(c))
             /\ ~Linked => Silent(t(c)) /\ Harmless(t(c))
  <2>1. events[c] \in Seq(EventRec)
    BY BudTypes
  <2>2. c # b => events'[c] = IF Linked THEN events[c] \o Detached(c, reason) ELSE events[c]
    BY <1>2
  <2> QED
    BY <2>1, <2>2, DetachedEvents, NoEvent, NothingAdded
<1> HIDE DEF t
<1>7. events' \in [Buds -> Seq(EventRec)]
  <2>1. ASSUME NEW c \in Buds PROVE events'[c] \in Seq(EventRec)
    <3>1. CASE c = b
      BY <1>2, <3>1, NoEvent
    <3>2. CASE c # b
      <4> DEFINE u == t(c)
      <4>1. u \in Seq(EventRec) /\ events[c] \in Seq(EventRec) /\ events'[c] = events[c] \o u
        BY <1>6, <3>2
      <4> HIDE DEF u
      <4> QED
        BY <4>1, Joined
    <3> QED
      BY <3>1, <3>2
  <2> QED
    BY <1>2, <2>1
<1>8. chances' \in [Disturbances -> Nat]
  BY <1>1, Spends DEF Disturbances
<1>9. Types'
  BY <1>1, <1>5, <1>7, <1>8 DEF IInv, Types
<1>10. ASSUME NEW c \in on' PROVE OnInv(c)'
  <2>1. c \in on /\ c # b /\ c \in Buds
    BY <1>1 DEF IInv, Types
  <2>2. phone' # c => phone # c
    BY <1>1, <2>1
  <2>3. Kept(bud[c], bud'[c]) /\ bud'[c] = bud[c]
    BY <1>5, <2>1, KeptSame
  <2>4. Adds(c, t(c))
    <3>1. CASE Linked
      BY <1>3, <1>6, <2>1, <3>1 DEF Adds
    <3>2. CASE ~Linked
      <4>1. Linked' = Linked
        BY <1>3, <3>2 DEF Linked
      <4> QED
        BY <1>3, <1>6, <2>1, <2>2, <2>3, <3>2, <4>1 DEF Adds
    <3> QED
      BY <3>1, <3>2
  <2> QED
    BY <1>1, <2>1, <2>3, <2>4, AddKeeps
<1>11. \A c \in Buds \ on' : events'[c] = <<>>
  <2>1. ASSUME NEW c \in Buds, c \notin on' PROVE events'[c] = <<>>
    <3>1. CASE c = b
      BY <1>2, <3>1
    <3>2. CASE c # b
      <4>1. c \in Buds \ on
        BY <1>1, <2>1, <3>2
      <4>2. ~Linked /\ events[c] = <<>>
        BY <4>1, OthersOff
      <4> QED
        BY <1>2, <3>2, <4>2
    <3> QED
      BY <3>1, <3>2
  <2> QED
    BY <2>1
<1>12. phone' \in on' \union {None}
  <2>1. phone \in on \union {None}
    BY DEF IInv
  <2> QED
    BY <1>1, <2>1
<1> QED
  BY <1>3, <1>9, <1>10, <1>11, <1>12 DEF IInv

(* One bud's controller posts an event and changes what it was told. *)
LEMMA OnePosts ==
  ASSUME IInv, NEW b \in on, NEW r, Becomes(b, r), Kept(bud[b], r),
         NEW ev \in {"CONNECTION_TIMEOUT", "PAGE_TIMEOUT"}, NEW ph \in BOOLEAN,
         Post(b, <<Event(ev, "none", ph, "none")>>), UNCHANGED radio,
         ev = "CONNECTION_TIMEOUT" \/ (Alive(bud[b]) => Alive(r)), Findable(bud[b]) => Findable(r)
  PROVE  IInv'
<1> DEFINE u == <<Event(ev, "none", ph, "none")>>
           t == [c \in Buds |-> IF c = b THEN u ELSE <<>>]
<1>1. b \in Buds /\ on \subseteq Buds
  BY DEF IInv, Types
<1>2. Event(ev, "none", ph, "none") \in EventRec /\ Event(ev, "none", ph, "none").ev = ev
  BY Events DEF EventKinds, Reasons
<1>3. /\ u \in Seq(EventRec) /\ Silent(u)
      /\ ev = "CONNECTION_TIMEOUT" => Rescued(u)
      /\ ev = "PAGE_TIMEOUT" => Harmless(u)
      /\ Without(u, Hiders)
  BY <1>2, OneEvent DEF OfLink, Kills, Revives, Hides
<1>4. events' = [events EXCEPT ![b] = @ \o u] /\ bud' = [bud EXCEPT ![b] = r]
      /\ UNCHANGED <<on, paired, master, phone, profile, call, chances>>
  BY DEF Post, Becomes, radio
<1>5. t[b] = u /\ \A c \in Buds : c # b => t[c] = <<>>
  BY <1>1
<1> HIDE DEF u, t
<1>6. /\ events' \in [Buds -> Seq(EventRec)] /\ events'[b] = events[b] \o u
      /\ \A c \in Buds : c # b => events'[c] = events[c]
  BY <1>1, <1>3, <1>4, Joined DEF IInv, Types
<1>7. bud' \in [Buds -> Bud] /\ bud'[b] = r /\ \A c \in Buds : c # b => bud'[c] = bud[c]
  BY <1>1, <1>4 DEF IInv, Types, Kept
<1>8. Linked' = Linked
  BY <1>4 DEF Linked
<1>9. ASSUME NEW c \in on PROVE Adds(c, t[c]) /\ Kept(bud[c], bud'[c])
  <2>1. c \in Buds
    BY <1>1
  <2>2. CASE c = b
    BY <1>3, <1>4, <1>5, <1>6, <1>7, <1>8, <2>2 DEF Adds
  <2>3. CASE c # b
    <3>1. events'[c] = events[c] \o t[c] /\ t[c] \in Seq(EventRec)
      BY <1>5, <1>6, <2>1, <2>3, NothingAdded, NoEvent, BudTypes
    <3>2. t[c] = <<>> /\ bud'[c] = bud[c]
      BY <1>5, <1>7, <2>1, <2>3
    <3> QED
      BY <1>4, <1>8, <2>1, <3>1, <3>2, NoEvent, KeptSame DEF Adds
  <2> QED
    BY <2>2, <2>3
<1>10. \A c \in Buds \ on : events'[c] = events[c]
  BY <1>6
<1>11. /\ UNCHANGED <<on, paired>> /\ master' \in Buds \union {None} /\ phone' \in on \union {None}
       /\ profile' \in BOOLEAN /\ call' \in BOOLEAN /\ chances' \in [Disturbances -> Nat]
       /\ Linked' => on = Buds
  BY <1>4, <1>8 DEF IInv, Types
<1> QED
  BY <1>6, <1>7, <1>9, <1>10, <1>11, AllAdd

LEMMA OneTimerKeeps == ASSUME IInv, NEW b \in Buds, CreateTimesOut(b) \/ PageFails(b) PROVE IInv'
<1>1. b \in on /\ bud[b] \in Bud /\ UNCHANGED radio
  BY BudTypes DEF CreateTimesOut, PageFails
<1>2. CASE CreateTimesOut(b)
  <2> DEFINE ph == phone = b
  <2>1. ph \in BOOLEAN /\ Post(b, <<Event("CONNECTION_TIMEOUT", "none", ph, "none")>>)
        /\ Becomes(b, cancle_create_connection(bud[b]))
    BY <1>2 DEF CreateTimesOut
  <2>2. Kept(bud[b], cancle_create_connection(bud[b]))
    BY <1>1, Simple1
  <2>3. Findable(bud[b]) => Findable(cancle_create_connection(bud[b]))
    BY <1>1 DEF Findable, Bud, cancle_create_connection
  <2> HIDE DEF ph
  <2> QED
    BY <1>1, <2>1, <2>2, <2>3, OnePosts
<1>3. CASE PageFails(b)
  <2>1. Post(b, <<Event("PAGE_TIMEOUT", "none", FALSE, "none")>>)
        /\ Becomes(b, [bud[b] EXCEPT !.page = FALSE])
    BY <1>3 DEF PageFails, Simple
  <2>2. Kept(bud[b], [bud[b] EXCEPT !.page = FALSE])
        /\ (Alive(bud[b]) => Alive([bud[b] EXCEPT !.page = FALSE]))
        /\ (Findable(bud[b]) => Findable([bud[b] EXCEPT !.page = FALSE]))
    BY <1>1 DEF Kept, Bud, Alive, Findable
  <2> QED
    BY <1>1, <2>1, <2>2, OnePosts
<1> QED
  BY <1>2, <1>3

(* The phone's steps: a bud it leaves hears of it. *)
LEMMA PhonePosts ==
  ASSUME IInv, NEW new \in Seq(EventRec), Silent(new), PostPhone(new),
         UNCHANGED <<on, paired, master>>, phone' \in on \union {None},
         profile' \in BOOLEAN, call' \in BOOLEAN, chances' \in [Disturbances -> Nat],
         bud' \in [Buds -> Bud],
         \A c \in Buds : /\ Kept(bud[c], bud'[c]) /\ (Alive(bud[c]) => Alive(bud'[c]))
                         /\ Findable(bud[c]) => Findable(bud'[c]),
         phone \in {None, phone'} \/ Rescued(new),
         Linked /\ phone' = None =>
            After(new, Showers, Hiders) \/ (phone = None /\ Without(new, Hiders))
  PROVE  IInv'
<1> DEFINE t == [c \in Buds |-> IF Linked \/ c \in {phone, phone'} THEN new ELSE <<>>]
<1>1. events' = [c \in Buds |-> events[c] \o t[c]]
  BY DEF PostPhone, PostBoth
<1>2. \A c \in Buds : t[c] = IF Linked \/ c \in {phone, phone'} THEN new ELSE <<>>
  OBVIOUS
<1> HIDE DEF t
<1>3. ASSUME NEW c \in Buds
      PROVE  t[c] \in Seq(EventRec) /\ Silent(t[c]) /\ events'[c] = events[c] \o t[c]
             /\ events[c] \in Seq(EventRec)
  BY <1>1, <1>2, NoEvent, BudTypes
<1>4. events' \in [Buds -> Seq(EventRec)]
  <2>1. ASSUME NEW c \in Buds PROVE events'[c] \in Seq(EventRec)
    <3> DEFINE u == t[c]
    <3>1. u \in Seq(EventRec) /\ events[c] \in Seq(EventRec) /\ events'[c] = events[c] \o u
      BY <1>3
    <3> HIDE DEF u
    <3> QED
      BY <3>1, Joined
  <2> QED
    BY <1>1, <2>1
<1>5. Linked' = Linked /\ (Linked' => on = Buds)
  BY DEF Linked, IInv
<1>6. on \subseteq Buds /\ phone \in on \union {None}
  BY DEF IInv, Types
<1>7. ASSUME NEW c \in on PROVE Adds(c, t[c]) /\ Kept(bud[c], bud'[c])
  <2>1. c \in Buds /\ c # None
    BY <1>6, BudsAssumption
  <2>2. ASSUME ~Linked', phone' # c
        PROVE  Rescued(t[c]) \/ (Harmless(t[c]) /\ ~Linked /\ phone # c /\ (Alive(bud[c]) => Alive(bud'[c])))
    <3>1. CASE phone = c
      BY <1>2, <2>1, <2>2, <3>1
    <3>2. CASE phone # c
      BY <1>2, <1>5, <2>1, <2>2, <3>2, NoEvent
    <3> QED
      BY <3>1, <3>2
  <2>3. ASSUME phone' = None, master' = c
        PROVE  \/ After(t[c], Showers, Hiders)
               \/ /\ Without(t[c], Hiders) /\ phone = None /\ master = c
                  /\ Findable(bud[c]) => Findable(bud'[c])
    <3>1. Linked /\ t[c] = new
      BY <1>2, <2>1, <2>3 DEF Linked
    <3> QED
      BY <2>1, <2>3, <3>1
  <2> QED
    BY <1>3, <1>5, <2>1, <2>2, <2>3 DEF Adds
<1>8. ASSUME NEW c \in Buds \ on PROVE events'[c] = events[c]
  <2>1. ~Linked /\ c \notin {phone, phone'}
    BY <1>6, OthersOff, BudsAssumption
  <2>2. t[c] = <<>>
    BY <1>2, <2>1
  <2> QED
    BY <1>3, <2>2, NothingAdded
<1>9. master' \in Buds \union {None}
  BY DEF IInv, Types
<1> QED
  BY <1>4, <1>5, <1>7, <1>8, <1>9, AllAdd

LEMMA SameBuds ==
  ASSUME IInv, bud' = bud
  PROVE  bud' \in [Buds -> Bud] /\ \A c \in Buds : Kept(bud[c], bud'[c]) /\ (Alive(bud[c]) => Alive(bud'[c]))
                                                    /\ (Findable(bud[c]) => Findable(bud'[c]))
  BY KeptSame DEF IInv, Types

LEMMA PhoneComesKeeps == ASSUME IInv, NEW b \in Buds, PhoneComes(b) PROVE IInv'
<1>1. /\ b \in on /\ phone = None /\ phone' = b /\ PostPhone(Simple("HCI_CONNECT")) /\ Spend("phone")
      /\ bud' = [bud EXCEPT ![b] = [bud[b] EXCEPT !.page = FALSE]]
      /\ UNCHANGED <<on, paired, master, profile, call>>
  BY DEF PhoneComes, Becomes
<1>2. Simple("HCI_CONNECT") \in Seq(EventRec) /\ Silent(Simple("HCI_CONNECT"))
  BY SimpleEvent DEF EventKinds
<1>3. chances' \in [Disturbances -> Nat]
  BY <1>1, Spends DEF Disturbances
<1> DEFINE r == [bud[b] EXCEPT !.page = FALSE]
<1>4. Kept(bud[b], r) /\ r \in Bud /\ (Alive(bud[b]) => Alive(r)) /\ (Findable(bud[b]) => Findable(r))
  <2>1. bud[b] \in Bud
    BY BudTypes
  <2> QED
    BY <2>1 DEF Kept, Bud, Alive, Findable
<1>5. bud' \in [Buds -> Bud] /\ bud'[b] = r /\ \A c \in Buds : c # b => bud'[c] = bud[c]
  BY <1>1, <1>4 DEF IInv, Types
<1> HIDE DEF r
<1>6. \A c \in Buds : /\ Kept(bud[c], bud'[c]) /\ (Alive(bud[c]) => Alive(bud'[c]))
                      /\ Findable(bud[c]) => Findable(bud'[c])
  BY <1>4, <1>5, KeptSame
<1>7. profile' \in BOOLEAN /\ call' \in BOOLEAN /\ phone' \in on \union {None} /\ phone' # None
  BY <1>1, BudsAssumption DEF IInv, Types
<1> QED
  BY <1>1, <1>2, <1>3, <1>5, <1>6, <1>7, PhonePosts

LEMMA PhoneStaysKeeps == ASSUME IInv, ProfilesConnect \/ CallStarts \/ CallEnds PROVE IInv'
<1>1. PICK ev \in {"PHONE_CONNECTED", "ESCO_OPEN", "ESCO_CLOSE"} : PostPhone(Simple(ev))
  BY DEF ProfilesConnect, CallStarts, CallEnds
<1>2. UNCHANGED <<on, paired, bud, master, phone>> /\ profile' \in BOOLEAN /\ call' \in BOOLEAN
  BY DEF ProfilesConnect, CallStarts, CallEnds, IInv, Types
<1>3. chances' \in [Disturbances -> Nat]
  BY Spends DEF ProfilesConnect, CallStarts, CallEnds, IInv, Types, Disturbances
<1>4. Simple(ev) \in Seq(EventRec) /\ Silent(Simple(ev)) /\ Without(Simple(ev), Hiders)
  BY SimpleEvent DEF EventKinds
<1>5. phone' \in on \union {None}
  BY <1>2 DEF IInv
<1> QED
  BY <1>1, <1>2, <1>3, <1>4, <1>5, SameBuds, PhonePosts

LEMMA PhoneGoesKeeps ==
  ASSUME IInv, NEW ev \in {"HCI_DISCONNECT", "HCI_LOST", "HCI_TIMEOUT", "HCI_EXIST"}, NEW reason \in {"timeout", "refused", "left"},
         PhoneGoes(ev, reason)
  PROVE  IInv'
<1> DEFINE esco == IF call THEN Simple("ESCO_CLOSE") ELSE <<>>
           both == IF Linked THEN <<Event("PHONE_LINK_DETACH", "none", FALSE, reason)>> ELSE <<>>
<1>1. PICK own \in {esco \o Simple(ev), Simple(ev) \o esco} : PostPhone(own \o both)
  BY DEF PhoneGoes
<1>2. phone' = None /\ profile' = FALSE /\ call' = FALSE /\ UNCHANGED <<on, paired, bud, master, chances>>
  BY DEF PhoneGoes
<1>3. esco \in Seq(EventRec) /\ Silent(esco) /\ Harmless(esco)
  BY SimpleEvent, NoEvent DEF EventKinds
<1>4. both \in Seq(EventRec) /\ Silent(both) /\ Harmless(both) /\ (Linked => After(both, Showers, Hiders))
  <2> DEFINE e == Event("PHONE_LINK_DETACH", "none", FALSE, reason)
  <2>1. e \in EventRec /\ e.ev = "PHONE_LINK_DETACH"
    BY DEF Event, EventRec, EventKinds, Reasons
  <2>2. <<e>> \in Seq(EventRec) /\ Silent(<<e>>) /\ Harmless(<<e>>) /\ After(<<e>>, Showers, Hiders)
    BY <2>1, OneEvent DEF OfLink, Kills, Shows
  <2> QED
    BY <2>2, NoEvent
<1> HIDE DEF esco, both
<1>5. Simple(ev) \in Seq(EventRec) /\ Silent(Simple(ev)) /\ Rescued(Simple(ev))
  BY SimpleEvent DEF EventKinds
<1>6. own \in Seq(EventRec) /\ Silent(own) /\ Rescued(own)
  <2>1. CASE own = esco \o Simple(ev)
    BY <1>3, <1>5, <2>1, Joined, SilentJoined, RescuedJoined
  <2>2. CASE own = Simple(ev) \o esco
    BY <1>3, <1>5, <2>2, Joined, SilentJoined, HarmlessJoined
  <2> QED
    BY <1>1, <2>1, <2>2
<1>7. /\ own \o both \in Seq(EventRec) /\ Silent(own \o both) /\ Rescued(own \o both)
      /\ Linked => After(own \o both, Showers, Hiders)
  BY <1>4, <1>6, Joined, SilentJoined, HarmlessJoined, AfterJoined
<1>8. chances' \in [Disturbances -> Nat] /\ profile' \in BOOLEAN /\ call' \in BOOLEAN
  BY <1>2 DEF IInv, Types
<1> QED
  BY <1>1, <1>2, <1>7, <1>8, SameBuds, PhonePosts

LEMMA SwapKeeps == ASSUME IInv, Swap PROVE IInv'
<1> DEFINE e(b) == Event("ROLE_SWITCH", RoleIn(Sibling(master), b), phone # None, "none")
           t == [b \in Buds |-> <<e(b)>>]
<1>1. /\ Linked /\ on = Buds /\ master' = Sibling(master) /\ Spend("swap")
      /\ phone' = (IF phone = None THEN None ELSE Sibling(phone))
      /\ events' = [b \in Buds |-> events[b] \o t[b]]
      /\ bud' = [b \in Buds |-> Follow(bud[b], b, master')]
      /\ UNCHANGED <<on, paired, profile, call>>
  BY DEF Swap, PostBoth, IInv
<1>2. master' \in Buds /\ phone' \in Buds \union {None}
  BY <1>1, Pair DEF IInv, Types, Linked
<1>3. Linked' /\ Linked' = Linked
  BY <1>1, <1>2, BudsAssumption DEF Linked
<1>4. ASSUME NEW c \in Buds
      PROVE  /\ t[c] \in Seq(EventRec) /\ Silent(t[c]) /\ Kept(bud[c], bud'[c])
             /\ After(t[c], Showers, Hiders)
  <2>1. e(c) \in EventRec /\ e(c).ev = "ROLE_SWITCH"
    <3> DEFINE ph == phone # None
    <3>1. ph \in BOOLEAN /\ e(c) = Event("ROLE_SWITCH", RoleIn(Sibling(master), c), ph, "none")
      OBVIOUS
    <3> HIDE DEF ph, e
    <3> QED
      BY <3>1, LinkEvents
  <2>2. <<e(c)>> \in Seq(EventRec) /\ Silent(<<e(c)>>) /\ After(<<e(c)>>, Showers, Hiders)
    BY <2>1, OneEvent DEF OfLink, Shows
  <2>3. t[c] = <<e(c)>>
    OBVIOUS
  <2> HIDE DEF e, t
  <2>4. Kept(bud[c], bud'[c])
    BY <1>1, BudTypes, FollowKeeps
  <2> QED
    BY <2>2, <2>3, <2>4
<1> HIDE DEF t
<1>5. events' \in [Buds -> Seq(EventRec)]
  <2>1. ASSUME NEW c \in Buds PROVE events'[c] \in Seq(EventRec)
    BY <1>1, <1>4, BudTypes, Joined
  <2> QED
    BY <1>1, <2>1
<1>6. bud' \in [Buds -> Bud]
  BY <1>1, <1>4 DEF Kept
<1>7. \A c \in on : Adds(c, t[c]) /\ Kept(bud[c], bud'[c])
  BY <1>1, <1>3, <1>4 DEF Adds
<1>8. /\ chances' \in [Disturbances -> Nat] /\ profile' \in BOOLEAN /\ call' \in BOOLEAN
      /\ \A c \in Buds \ on : events'[c] = events[c]
  BY <1>1, Spends DEF Disturbances, IInv, Types
<1> QED
  BY <1>1, <1>2, <1>5, <1>6, <1>7, <1>8, AllAdd

-----------------------------------------------------------------------------
LEMMA InitIInv == Init => IInv
<1> SUFFICES ASSUME Init PROVE IInv
  OBVIOUS
<1>1. Off \in Bud
  BY Budgets DEF Off, Bud, Idle
<1>2. on = {} /\ paired \subseteq Buds /\ master = None /\ phone = None /\ profile = FALSE /\ call = FALSE
      /\ chances \in [Disturbances -> Nat]
  BY ChancesAssumption DEF Init
<1>3. bud \in [Buds -> Bud] /\ events \in [Buds -> Seq(EventRec)] /\ \A b \in Buds : events[b] = <<>>
  BY <1>1, NoEvent DEF Init
<1> QED
  BY <1>2, <1>3 DEF IInv, Types, Linked

LEMMA HandlesKeep == ASSUME IInv, NEW b \in Buds, Handles(b) PROVE IInv'
  BY ConnectedKeeps, ConnectionTimeoutKeeps, DetachKeeps, PhoneLinkDetachKeeps, RoleSwitchKeeps,
     HciConnectKeeps, PhoneConnectedKeeps, HciDisconnectKeeps, PhoneLostKeeps, Budgets, EscoOpenKeeps, EscoCloseKeeps
     DEF Handles, HciTimeout, HciExist

LEMMA EnvironmentKeeps == ASSUME IInv, Environment PROVE IInv'
  BY LinkKeeps, FadeKeeps, PhoneStaysKeeps, PhoneGoesKeeps, SwapKeeps
     DEF Environment, PhoneLeaves, PhoneDrops, PhoneRefuses, PhoneFades

LEMMA NextKeeps == IInv /\ [Next]_vars => IInv'
<1> SUFFICES ASSUME IInv, [Next]_vars PROVE IInv'
  OBVIOUS
<1>1. CASE UNCHANGED vars
  BY <1>1 DEF vars, IInv, Types, OnInv, Knows, Linked
<1>2. CASE Environment
  BY <1>2, EnvironmentKeeps
<1>3. ASSUME NEW b \in Buds,
             \/ Handles(b) \/ PowerOn(b) \/ TimerFires(b) \/ Leave(b)
             \/ CreateTimesOut(b) \/ PageFails(b) \/ PhoneComes(b)
      PROVE  IInv'
  BY <1>3, HandlesKeep, PowerOnKeeps, TimerKeeps, LeaveKeeps, OneTimerKeeps, PhoneComesKeeps
<1> QED
  BY <1>1, <1>2, <1>3 DEF Next

LEMMA Invariant == Spec => []IInv
  BY InitIInv, NextKeeps, PTL DEF Spec

(* Whatever the order of the events of the link against the controllers,   *)
(* a bud that has handled its events knows whether it has its sibling, and *)
(* a linked one has it in flash: bt_tws.c keeps gtws.state right.          *)
THEOREM PairAlwaysKnown == Spec => []PairKnown
<1>1. IInv => PairKnown
  <2> SUFFICES ASSUME IInv, NEW b \in Buds, Drained(b)
               PROVE  bud[b].sib = Linked /\ (Linked => b \in paired /\ ~bud[b].unpaired)
    BY DEF PairKnown
  <2>1. OnInv(b) /\ events[b] = <<>>
    BY DEF IInv, Drained
  <2>2. bud[b].sib = Linked
    BY <2>1 DEF OnInv, Knows, LastSays
  <2> QED
    BY <2>1, <2>2 DEF OnInv
<1> QED
  BY <1>1, Invariant, PTL

(* A running bud with neither sibling nor phone has, once its events are   *)
(* handled, a timer, a search or a scan that gets it out.                  *)
THEOREM NeverDeadEnd == Spec => []NoDeadEnd
<1>1. IInv => NoDeadEnd
  <2> SUFFICES ASSUME IInv, NEW b \in Buds, Drained(b), ~Linked, phone # b PROVE Alive(bud[b])
    BY DEF NoDeadEnd, Alive
  <2>1. Good(events[b], Alive(bud[b])) /\ events[b] = <<>>
    BY DEF IInv, OnInv, Drained
  <2> QED
    BY <2>1 DEF Good, Rescued, After
<1> QED
  BY <1>1, Invariant, PTL

(* A pair without a phone can be found by one once its events are handled, *)
(* however roles switched and phones went meanwhile: a handler that takes  *)
(* the master's timer away has another event behind it that sets it again. *)
THEOREM AlwaysFindable == Spec => []PairFindable
<1>1. IInv => PairFindable
  <2> SUFFICES ASSUME IInv, Linked, phone = None, \A b \in Buds : Drained(b) PROVE Findable(bud[master])
    BY DEF PairFindable, Findable
  <2>1. master \in Buds /\ events[master] = <<>> /\ master \in on
    BY DEF IInv, Types, Linked, Drained
  <2>2. Shown(events[master], Findable(bud[master]))
    BY <2>1 DEF IInv, OnInv
  <2> QED
    BY <2>1, <2>2 DEF Shown, After
<1> QED
  BY <1>1, Invariant, PTL

-----------------------------------------------------------------------------
(* The master has the phone of a linked pair. *)
Led ==
    /\ surprised \subseteq Buds
    /\ Linked /\ phone # None => phone = master

LEMMA HandlesLed == ASSUME NEW b \in Buds, Handles(b) PROVE UNCHANGED <<master, phone, surprised>>
  BY DEF Handles, TwsConnected, TwsConnectionTimeout, TwsDetach, PhoneLinkDetach, RoleSwitch, HciConnect,
         PhoneConnected, HciDisconnect, PageTimeout, HciTimeout, HciExist, PhoneLost, EscoOpen, EscoClose, radio

LEMMA LedKeeps == ASSUME IInv, Led, [Next]_vars PROVE Led'
<1>1. CASE UNCHANGED <<master, phone, surprised>>
  BY <1>1 DEF Led, Linked
<1>2. CASE Link
  BY <1>2 DEF Led, Link, Linked
<1>3. CASE Fade
  BY <1>3 DEF Led, Fade, Linked
<1>4. ASSUME NEW b \in Buds, Leave(b) PROVE Led'
  BY <1>4 DEF Led, Leave, Linked
<1>5. ASSUME NEW b \in Buds, PhoneComes(b) PROVE Led'
  BY <1>5 DEF Led, PhoneComes, IsMaster, Linked
<1>6. CASE PhoneLeaves \/ PhoneDrops \/ PhoneRefuses \/ PhoneFades
  BY <1>6 DEF Led, PhoneLeaves, PhoneDrops, PhoneRefuses, PhoneFades, PhoneGoes
<1>7. CASE Swap
  <2>1. /\ Linked /\ master' = Sibling(master)
        /\ phone' = (IF phone = None THEN None ELSE Sibling(phone))
        /\ surprised' = (IF phone = None THEN {} ELSE {b \in Buds : ~Ready(b)})
    BY <1>7 DEF Swap
  <2> QED
    BY <2>1 DEF Led
<1>8. CASE ProfilesConnect \/ CallStarts \/ CallEnds
  BY <1>1, <1>8 DEF ProfilesConnect, CallStarts, CallEnds
<1>9. ASSUME NEW b \in Buds, PowerOn(b) \/ TimerFires(b) \/ CreateTimesOut(b) \/ PageFails(b) PROVE Led'
  BY <1>1, <1>9 DEF PowerOn, TimerFires, CreateTimesOut, PageFails, radio
<1>10. ASSUME NEW b \in Buds, Handles(b) PROVE Led'
  BY <1>1, <1>10, HandlesLed
<1>11. CASE UNCHANGED vars
  BY <1>1, <1>11 DEF vars
<1> QED
  BY <1>2, <1>3, <1>4, <1>5, <1>6, <1>7, <1>8, <1>9, <1>10, <1>11 DEF Next, Environment

LEMMA AlwaysLed == Spec => []Led
<1>1. Init => Led
  BY DEF Init, Led, Linked
<1> QED
  BY <1>1, Invariant, LedKeeps, PTL DEF Spec

(* Every variable keeps its type, for any budgets: no count of pages goes  *)
(* below zero or above what it may start from.                             *)
THEOREM TypeCorrect == Spec => []TypeOK
<1>1. IInv /\ Led => TypeOK
  <2> SUFFICES ASSUME IInv, Led PROVE TypeOK
    OBVIOUS
  <2>1. ASSUME NEW b \in Buds, NEW i \in DOMAIN events[b] PROVE events[b][i].ev \in EventKinds
    <3>1. events[b] \in Seq(EventRec)
      BY BudTypes
    <3>2. events[b][i] \in EventRec
      BY <3>1
    <3> QED
      BY <3>2 DEF EventRec
  <2>2. {master, phone} \subseteq Buds \union {None}
    BY DEF IInv, Types
  <2> QED
    BY <2>1, <2>2 DEF IInv, Types, TypeOK, Led
<1> QED
  BY <1>1, Invariant, AlwaysLed, PTL

-----------------------------------------------------------------------------
(* Paging ends, but for the buds that a role switch found unready.          *)
(* A bud that has its phone begins no turn of paging: it has no budget for  *)
(* one and no remembered phone in turn, or a budget and no timer.           *)
Calm(r) ==
    /\ ~r.power_on
    /\ \/ r.counter = 0 /\ r.pair_timer # "connectable"
       \/ r.pair_timer = Idle /\ ~r.unpaired

(* The connection makes it calm; what was posted before it could end that.  *)
Stirs(e) ==
    \/ e.ev \in {"PHONE_LINK_DETACH", "HCI_LOST", "HCI_TIMEOUT", "HCI_EXIST"}
    \/ e.ev \in {"CONNECTED", "CONNECTION_TIMEOUT", "CONNECTION_DETACH"} /\ ~e.phone
Stirrers == {e \in EventRec : Stirs(e)}
Hushers == {e \in EventRec : e.ev = "HCI_CONNECT"}
Hushed(s, calm) == (calm /\ Without(s, Stirrers)) \/ After(s, Hushers, Stirrers)

(* The slave's timer is off, or an event that stops it is to come. A role   *)
(* switch stops the timer of a pair without a phone only.                   *)
Stoppers == {e \in EventRec : e.ev \in {"CONNECTED", "HCI_CONNECT"}}
Switches == {e \in EventRec : e.ev = "ROLE_SWITCH"}
Stopped(s, none, idle) ==
    idle \/ After(s, Stoppers, {}) \/ (none /\ After(s, Switches, {}))

PagingInv(b) ==
    /\ phone = b /\ b \notin surprised => Hushed(events[b], Calm(bud[b]))
    /\ Linked /\ master # b /\ b \notin surprised => Stopped(events[b], phone = None, bud[b].pair_timer = Idle)

PInv == \A b \in on : PagingInv(b)

-----------------------------------------------------------------------------
(* Without a budget a turn of the switch begins no paging.                  *)
Still(r) == ~r.power_on /\ r.counter = 0 /\ r.pair_timer # "connectable"

LEMMA StillCalm == ASSUME NEW r, Still(r) PROVE Calm(r)
  BY DEF Still, Calm

LEMMA SetsKeepStill ==
  ASSUME NEW r \in Bud, ~r.power_on, r.counter = 0
  PROVE  /\ Still(bt_tws_delete_pair_timer(r)) /\ bt_tws_delete_pair_timer(r) \in Bud
         /\ Still(bt_tws_wait_sibling_connect(r))
         /\ Still(r) => Still(wait_pair(r))
         /\ \A timed \in BOOLEAN : Still(r) => Still(create_connection(r, timed))
         /\ Still(r) => Still(cancle_create_connection(r))
<1>1. Still(bt_tws_delete_pair_timer(r)) /\ bt_tws_delete_pair_timer(r) \in Bud
  BY DEF Bud, Still, bt_tws_delete_pair_timer, Idle
<1>2. Still(bt_tws_wait_sibling_connect(r))
  BY <1>1 DEF Bud, Still, bt_tws_wait_sibling_connect
<1>3. Still(r) => Still(wait_pair(r)) /\ Still(cancle_create_connection(r))
  BY DEF Bud, Still, wait_pair, cancle_create_connection
<1>4. \A timed \in BOOLEAN : Still(r) => Still(create_connection(r, timed))
  BY DEF Bud, Still, create_connection
<1> QED
  BY <1>1, <1>2, <1>3, <1>4

LEMMA ConnectableStill ==
  ASSUME NEW r \in Bud, Still(r) PROVE Still(Connectable(r))
<1> DEFINE q == IF r.sib THEN r ELSE create_connection(r, FALSE)
           s == wait_pair(q)
<1>1. Still(q) /\ q \in Bud
  BY SetsKeepStill, Simple1 DEF Still, Kept
<1> HIDE DEF q
<1>2. Still(s) /\ s \in Bud
  BY <1>1, SetsKeepStill, Simple1 DEF Still, Kept
<1>3. Connectable(r) = s \/ Connectable(r) = [s EXCEPT !.pair_timer = "pair"]
  BY DEF Connectable, Still, q
<1> HIDE DEF s
<1> QED
  BY <1>2, <1>3 DEF Still, Bud

LEMMA SeekStill ==
  ASSUME NEW r \in Bud, Still(r) PROVE Still(SeekPhone(r))
<1>1. Refill(r) = r /\ ~HasBudget(r)
  BY DEF Refill, HasBudget, Still
<1>2. SeekPhone(r) = IF r.sib THEN wait_pair(r) ELSE Connectable(r)
  BY <1>1 DEF SeekPhone
<1> QED
  BY <1>2, ConnectableStill, SetsKeepStill DEF Still

LEMMA SwitchStill ==
  ASSUME NEW r \in Bud, ~r.power_on, r.counter = 0, NEW sw \in {"phone", "connectable", "pair"}
  PROVE  Still(connect_and_connectable_switch(r, sw))
<1> DEFINE s == bt_tws_delete_pair_timer(r)
<1>1. Still(s) /\ s \in Bud
  BY SetsKeepStill
<1>2. connect_and_connectable_switch(r, sw) \in {SeekPhone(s), Connectable(s), SeekByCode(s)}
  BY DEF connect_and_connectable_switch
<1> HIDE DEF s
<1>3. Still(SeekByCode(s))
  BY <1>1 DEF Still, SeekByCode, Bud
<1> QED
  BY <1>1, <1>2, <1>3, SeekStill, ConnectableStill

LEMMA BtSwitchStill ==
  ASSUME NEW b \in Buds, NEW r \in Bud, ~r.power_on, r.counter = 0
  PROVE  Still(bt_tws_connect_and_connectable_switch(b, r))
  BY SwitchStill, SetsKeepStill DEF bt_tws_connect_and_connectable_switch

LEMMA DisconnectedStill ==
  ASSUME NEW b \in Buds, NEW r \in Bud, Calm(r)
  PROVE  Still(bt_tws_phone_disconnected(b, r))
<1> DEFINE s == [r EXCEPT !.counter = 0]
<1>1. s \in Bud /\ ~s.power_on /\ s.counter = 0 /\ s.pair_timer # "connectable"
  BY Budgets DEF Bud, Calm, Idle
<1>2. bt_tws_phone_disconnected(b, r) = IF s.sib THEN s ELSE bt_tws_connect_and_connectable_switch(b, s)
  BY DEF bt_tws_phone_disconnected
<1> HIDE DEF s
<1> QED
  BY <1>1, <1>2, BtSwitchStill DEF Still

(* What the link and the calls do to a bud leaves its budget, and the timer *)
(* or stops it.                                                             *)
Quieter(r, s) ==
    /\ s.power_on = r.power_on /\ s.counter = r.counter /\ s.unpaired = r.unpaired
    /\ s.pair_timer \in {Idle, r.pair_timer}

LEMMA QuieterCalm == ASSUME NEW r, NEW s, Calm(r), Quieter(r, s) PROVE Calm(s)
  BY DEF Calm, Quieter, Idle

LEMMA Quiets ==
  ASSUME NEW r \in Bud
  PROVE  /\ Quieter(r, r) /\ Quieter(r, cancle_create_connection(r))
         /\ Quieter(r, bt_tws_wait_sibling_connect(r)) /\ bt_tws_wait_sibling_connect(r).pair_timer = Idle
         /\ Quieter(r, bt_tws_delete_pair_timer(r)) /\ bt_tws_delete_pair_timer(r).pair_timer = Idle
         /\ \A c \in {"sibling", "esco"} : Quieter(r, [r EXCEPT !.scan = c])
         /\ \A v \in BOOLEAN : Quieter(r, [r EXCEPT !.esco = v])
         /\ Quieter(r, LeavePair(r))
         /\ Quieter(r, [r EXCEPT !.page = FALSE])
<1>1. Quieter(r, r) /\ Quieter(r, cancle_create_connection(r)) /\ Quieter(r, LeavePair(r))
  BY DEF Quieter, Bud, cancle_create_connection, LeavePair
<1>2. Quieter(r, bt_tws_delete_pair_timer(r)) /\ bt_tws_delete_pair_timer(r).pair_timer = Idle
  BY DEF Quieter, Bud, bt_tws_delete_pair_timer, Idle
<1>3. Quieter(r, bt_tws_wait_sibling_connect(r)) /\ bt_tws_wait_sibling_connect(r).pair_timer = Idle
  BY DEF Quieter, Bud, bt_tws_delete_pair_timer, bt_tws_wait_sibling_connect, Idle
<1>4. /\ \A c \in {"sibling", "esco"} : Quieter(r, [r EXCEPT !.scan = c])
      /\ \A v \in BOOLEAN : Quieter(r, [r EXCEPT !.esco = v])
      /\ Quieter(r, [r EXCEPT !.page = FALSE])
  BY DEF Quieter, Bud
<1> QED
  BY <1>1, <1>2, <1>3, <1>4

(* A slave's switch only stops its timer. *)
LEMMA SlaveStops ==
  ASSUME NEW b \in Buds, ~IsMaster(b), NEW r \in Bud
  PROVE  /\ bt_tws_connect_and_connectable_switch(b, r).pair_timer = Idle
         /\ r.pair_timer = Idle => bt_tws_phone_disconnected(b, r).pair_timer = Idle
         /\ \A s \in ConnectSibling(b, r) \union bt_tws_phone_connect_timeout(b, r) : s.pair_timer = Idle
<1>1. bt_tws_connect_and_connectable_switch(b, r).pair_timer = Idle
  BY Quiets DEF bt_tws_connect_and_connectable_switch
<1>2. ASSUME r.pair_timer = Idle PROVE bt_tws_phone_disconnected(b, r).pair_timer = Idle
  <2> DEFINE s == [r EXCEPT !.counter = 0]
  <2>1. s \in Bud /\ s.pair_timer = Idle
    BY <1>2, Budgets DEF Bud
  <2>2. bt_tws_phone_disconnected(b, r) = IF s.sib THEN s ELSE bt_tws_connect_and_connectable_switch(b, s)
    BY DEF bt_tws_phone_disconnected
  <2> HIDE DEF s
  <2>3. bt_tws_connect_and_connectable_switch(b, s).pair_timer = Idle
    BY <2>1, Quiets DEF bt_tws_connect_and_connectable_switch
  <2> QED
    BY <2>1, <2>2, <2>3
<1>3. \A s \in ConnectSibling(b, r) : s.pair_timer = Idle
  <2> DEFINE q == bt_tws_delete_pair_timer(r)
  <2>1. q \in Bud /\ q.pair_timer = Idle
    BY Quiets, Simple1 DEF Kept
  <2> HIDE DEF q
  <2>2. create_connection(q, TRUE).pair_timer = Idle
    BY <2>1 DEF create_connection, Bud
  <2> QED
    BY <1>1, <2>2 DEF ConnectSibling, q
<1> QED
  BY <1>1, <1>2, <1>3 DEF bt_tws_phone_connect_timeout

-----------------------------------------------------------------------------
(* A handler takes its event from the queue. *)
LEMMA HushedRest ==
  ASSUME NEW s \in Seq(EventRec), s # <<>>, NEW was \in BOOLEAN, NEW is \in BOOLEAN, Hushed(s, was),
         \/ is
         \/ Head(s).ev # "HCI_CONNECT" /\ (Stirs(Head(s)) \/ ~was)
  PROVE  Hushed(Tail(s), is)
<1>1. /\ Without(s, Stirrers) => Without(Tail(s), Stirrers) /\ Head(s) \notin Stirrers
      /\ After(s, Hushers, Stirrers) => \/ After(Tail(s), Hushers, Stirrers)
                                        \/ Head(s) \in Hushers /\ Without(Tail(s), Stirrers)
  BY AfterRest
<1>2. Head(s) \in EventRec
  OBVIOUS
<1>3. (Head(s) \in Hushers => Head(s).ev = "HCI_CONNECT") /\ (Stirs(Head(s)) => Head(s) \in Stirrers)
  BY <1>2 DEF Hushers, Stirrers
<1> QED
  BY <1>1, <1>3 DEF Hushed

LEMMA StoppedRest ==
  ASSUME NEW s \in Seq(EventRec), s # <<>>, NEW was \in BOOLEAN, NEW is \in BOOLEAN, NEW none \in BOOLEAN,
         Stopped(s, none, was),
         \/ is
         \/ /\ ~was /\ Head(s).ev \notin {"CONNECTED", "HCI_CONNECT"}
            /\ Head(s).ev = "ROLE_SWITCH" => ~none
  PROVE  Stopped(Tail(s), none, is)
<1>1. /\ After(s, Stoppers, {}) => After(Tail(s), Stoppers, {}) \/ Head(s) \in Stoppers
      /\ After(s, Switches, {}) => After(Tail(s), Switches, {}) \/ Head(s) \in Switches
  BY AfterRest
<1>2. (Head(s) \in Stoppers => Head(s).ev \in {"CONNECTED", "HCI_CONNECT"})
      /\ (Head(s) \in Switches => Head(s).ev = "ROLE_SWITCH")
  BY DEF Stoppers, Switches
<1> QED
  BY <1>1, <1>2 DEF Stopped

LEMMA SlaveIs == ASSUME NEW b \in Buds PROVE (~IsMaster(b)) = (Linked /\ master # b)
  BY DEF IsMaster, Linked

LEMMA HandlePages ==
  ASSUME IInv, PInv, NEW b \in Buds, NEW ev, Receives(b, ev), NEW r, Becomes(b, r),
         UNCHANGED <<on, master, phone, surprised>>,
         phone = b =>
            \/ Calm(r)
            \/ ev # "HCI_CONNECT" /\ (Stirs(Head(events[b])) \/ ~Calm(bud[b])),
         ~IsMaster(b) =>
            \/ r.pair_timer = Idle
            \/ /\ bud[b].pair_timer # Idle /\ ev \notin {"CONNECTED", "HCI_CONNECT"}
               /\ ev = "ROLE_SWITCH" => phone # None
  PROVE  PInv'
<1>1. /\ b \in on /\ events[b] \in Seq(EventRec) /\ events[b] # <<>> /\ Head(events[b]).ev = ev
      /\ events' = [events EXCEPT ![b] = Tail(events[b])] /\ bud' = [bud EXCEPT ![b] = r]
  BY BudTypes DEF Receives, Becomes
<1>2. /\ events'[b] = Tail(events[b]) /\ bud'[b] = r
      /\ \A c \in Buds : c # b => events'[c] = events[c] /\ bud'[c] = bud[c]
  BY <1>1 DEF IInv, Types
<1>3. on \subseteq Buds /\ on' = on /\ Linked' = Linked
  BY DEF IInv, Types, Linked
<1>4. ASSUME phone = b, b \notin surprised PROVE Hushed(events'[b], Calm(r))
  <2>1. Hushed(events[b], Calm(bud[b]))
    BY <1>1, <1>4 DEF PInv, PagingInv
  <2>2. Calm(bud[b]) \in BOOLEAN /\ Calm(r) \in BOOLEAN
    BY DEF Calm
  <2>3. Calm(r) \/ (Head(events[b]).ev # "HCI_CONNECT" /\ (Stirs(Head(events[b])) \/ ~Calm(bud[b])))
    BY <1>1, <1>4
  <2>4. Hushed(Tail(events[b]), Calm(r))
    BY <1>1, <2>1, <2>2, <2>3, HushedRest
  <2> QED
    BY <1>2, <2>4
<1>5. ASSUME Linked, master # b, b \notin surprised PROVE Stopped(events'[b], phone = None, r.pair_timer = Idle)
  <2> DEFINE none == phone = None
             was == bud[b].pair_timer = Idle
             is == r.pair_timer = Idle
  <2>1. Stopped(events[b], none, was)
    BY <1>1, <1>5 DEF PInv, PagingInv
  <2>2. none \in BOOLEAN /\ was \in BOOLEAN /\ is \in BOOLEAN
    OBVIOUS
  <2>3. \/ is
        \/ /\ ~was /\ Head(events[b]).ev \notin {"CONNECTED", "HCI_CONNECT"}
           /\ Head(events[b]).ev = "ROLE_SWITCH" => ~none
    BY <1>1, <1>5, SlaveIs
  <2> HIDE DEF none, was, is
  <2>4. Stopped(Tail(events[b]), none, is)
    BY <1>1, <2>1, <2>2, <2>3, StoppedRest
  <2> QED
    BY <1>2, <2>4 DEF none, is
<1>6. ASSUME NEW c \in on PROVE PagingInv(c)'
  <2>1. CASE c = b
    BY <1>2, <1>3, <1>4, <1>5, <2>1 DEF PagingInv
  <2>2. CASE c # b
    <3>1. events'[c] = events[c] /\ bud'[c] = bud[c] /\ PagingInv(c)
      BY <1>2, <1>3, <2>2 DEF PInv
    <3> QED
      BY <1>3, <3>1 DEF PagingInv
  <2> QED
    BY <2>1, <2>2
<1> QED
  BY <1>3, <1>6 DEF PInv

LEMMA TimerPages == ASSUME IInv, PInv, NEW b \in Buds, TimerFires(b) PROVE PInv'
<1> DEFINE r == connect_and_connectable_switch(bud[b], bud[b].pair_timer)
<1>1. /\ b \in on /\ bud[b] \in Bud /\ bud[b].pair_timer \in {"phone", "connectable", "pair"}
      /\ bud' = [bud EXCEPT ![b] = r] /\ UNCHANGED <<events, on, master, phone, surprised>>
  BY BudTypes DEF TimerFires, Bud, Becomes, radio
<1>2. bud'[b] = r /\ \A c \in Buds : c # b => bud'[c] = bud[c]
  BY <1>1 DEF IInv, Types
<1>3. Calm(bud[b]) => Calm(r)
  <2> SUFFICES ASSUME Calm(bud[b]) PROVE Calm(r)
    OBVIOUS
  <2>1. ~bud[b].power_on /\ bud[b].counter = 0
    BY <1>1 DEF Calm, Idle
  <2> HIDE DEF r
  <2> QED
    BY <1>1, <2>1, SwitchStill, StillCalm DEF r
<1>4. bud[b].pair_timer # Idle
  BY DEF TimerFires
<1> HIDE DEF r
<1>5. Linked' = Linked /\ on' = on /\ on \subseteq Buds
  BY <1>1 DEF Linked, IInv, Types
<1>6. ASSUME NEW c \in on PROVE PagingInv(c)'
  <2>1. PagingInv(c)
    BY DEF PInv
  <2>2. CASE c = b
    BY <1>1, <1>2, <1>3, <1>4, <1>5, <2>1, <2>2 DEF PagingInv, Hushed, Stopped
  <2>3. CASE c # b
    BY <1>1, <1>2, <1>5, <2>1, <2>3 DEF PagingInv
  <2> QED
    BY <2>2, <2>3
<1> QED
  BY <1>5, <1>6 DEF PInv

LEMMA QuietPages ==
  ASSUME IInv, PInv, NEW b \in Buds, NEW ev, ev \notin {"CONNECTED", "HCI_CONNECT", "ROLE_SWITCH"},
         Receives(b, ev), NEW r, Becomes(b, r), UNCHANGED radio, Quieter(bud[b], r)
  PROVE  PInv'
<1>1. UNCHANGED <<on, master, phone, surprised>>
  BY DEF radio
<1>2. Calm(bud[b]) => Calm(r)
  BY QuieterCalm
<1>3. r.pair_timer = Idle \/ (r.pair_timer = bud[b].pair_timer /\ bud[b].pair_timer # Idle)
  BY DEF Quieter
<1> QED
  BY <1>1, <1>2, <1>3, HandlePages

LEMMA HciConnectPages == ASSUME IInv, PInv, NEW b \in Buds, HciConnect(b) PROVE PInv'
<1> DEFINE r == bt_tws_hci_event_connect(bud[b])
<1>1. Receives(b, "HCI_CONNECT") /\ Becomes(b, r) /\ UNCHANGED <<on, master, phone, surprised>> /\ bud[b] \in Bud
  BY BudTypes DEF HciConnect, radio
<1>2. Calm(r) /\ r.pair_timer = Idle
  <2> DEFINE s == bt_tws_delete_pair_timer(bud[b])
  <2>1. s \in Bud /\ s.pair_timer = Idle /\ r = [s EXCEPT !.power_on = FALSE, !.counter = 0]
    BY <1>1, Quiets, Simple1 DEF Kept, bt_tws_hci_event_connect
  <2> HIDE DEF s, r
  <2> QED
    BY <2>1, Budgets DEF Bud, Calm, Idle
<1> HIDE DEF r
<1> QED
  BY <1>1, <1>2, HandlePages

LEMMA PhonePages ==
  ASSUME IInv, PInv, NEW b \in Buds, PhoneConnected(b) \/ EscoOpen(b) \/ EscoClose(b)
  PROVE  PInv'
<1>1. bud[b] \in Bud
  BY BudTypes
<1>2. CASE PhoneConnected(b)
  <2>1. PICK r \in {bud[b], bt_tws_wait_sibling_connect(bud[b])} : Becomes(b, r)
    BY <1>2 DEF PhoneConnected
  <2>2. Receives(b, "PHONE_CONNECTED") /\ UNCHANGED radio /\ Quieter(bud[b], r)
    BY <1>1, <1>2, <2>1, Quiets DEF PhoneConnected
  <2> QED
    BY <2>1, <2>2, QuietPages
<1>3. CASE EscoOpen(b)
  <2> DEFINE q == [bud[b] EXCEPT !.esco = TRUE]
             d == bt_tws_delete_pair_timer(q)
             c == cancle_create_connection(d)
             r == IF q.unpaired THEN q ELSE [c EXCEPT !.scan = "esco"]
  <2>1. Receives(b, "ESCO_OPEN") /\ UNCHANGED radio /\ Becomes(b, r)
    BY <1>3 DEF EscoOpen
  <2>2. q \in Bud /\ Quieter(bud[b], q)
    <3>1. q \in Bud
      BY <1>1 DEF Bud
    <3> QED
      BY <1>1, <3>1, Quiets
  <2> HIDE DEF q
  <2>3. d \in Bud /\ Quieter(q, d)
    BY <2>2, Quiets, Simple1 DEF Kept
  <2> HIDE DEF d
  <2>4. c \in Bud /\ Quieter(d, c)
    BY <2>3, Quiets, Simple1 DEF Kept
  <2> HIDE DEF c
  <2>5. Quieter(c, [c EXCEPT !.scan = "esco"])
    BY <2>4, Quiets
  <2>6. Quieter(bud[b], r)
    BY <2>2, <2>3, <2>4, <2>5 DEF Quieter
  <2> HIDE DEF r
  <2> QED
    BY <2>1, <2>6, QuietPages
<1>4. CASE EscoClose(b)
  <2> DEFINE q == [bud[b] EXCEPT !.esco = FALSE]
             r == IF q.unpaired \/ q.sib THEN q ELSE [q EXCEPT !.scan = "sibling"]
  <2>1. Receives(b, "ESCO_CLOSE") /\ UNCHANGED radio /\ Becomes(b, r)
    BY <1>4 DEF EscoClose
  <2>2. q \in Bud /\ Quieter(bud[b], q)
    <3>1. q \in Bud
      BY <1>1 DEF Bud
    <3> QED
      BY <1>1, <3>1, Quiets
  <2> HIDE DEF q
  <2>3. Quieter(q, [q EXCEPT !.scan = "sibling"])
    BY <2>2, Quiets
  <2>4. Quieter(bud[b], r)
    BY <2>2, <2>3 DEF Quieter
  <2> HIDE DEF r
  <2> QED
    BY <2>1, <2>4, QuietPages
<1> QED
  BY <1>2, <1>3, <1>4

LEMMA DisconnectPages ==
  ASSUME IInv, PInv, NEW b \in Buds, NEW ev \in {"HCI_DISCONNECT", "PAGE_TIMEOUT"}, Receives(b, ev),
         Becomes(b, bt_tws_phone_disconnected(b, bud[b])), UNCHANGED radio
  PROVE  PInv'
<1> DEFINE r == bt_tws_phone_disconnected(b, bud[b])
<1>1. Becomes(b, r) /\ UNCHANGED <<on, master, phone, surprised>> /\ bud[b] \in Bud
  BY BudTypes DEF radio
<1>2. Calm(bud[b]) => Calm(r)
  BY <1>1, DisconnectedStill, StillCalm
<1>3. ~IsMaster(b) => r.pair_timer = Idle \/ bud[b].pair_timer # Idle
  BY <1>1, SlaveStops
<1> HIDE DEF r
<1> QED
  BY <1>1, <1>2, <1>3, HandlePages

LEMMA LostPages ==
  ASSUME IInv, PInv, NEW b \in Buds, Receives(b, "HCI_LOST"), NEW r \in bt_tws_phone_connect_timeout(b, bud[b]),
         Becomes(b, r), UNCHANGED radio
  PROVE  PInv'
<1>1. UNCHANGED <<on, master, phone, surprised>> /\ bud[b] \in Bud
  BY BudTypes DEF radio
<1>2. ~IsMaster(b) => r.pair_timer = Idle
  BY <1>1, SlaveStops
<1>3. Stirs(Head(events[b]))
  BY DEF Stirs, Receives
<1> QED
  BY <1>1, <1>2, <1>3, HandlePages

LEMMA HciDisconnectPages == ASSUME IInv, PInv, NEW b \in Buds, HciDisconnect(b) \/ PageTimeout(b) PROVE PInv'
<1>1. CASE Receives(b, "HCI_LOST") /\ HciDisconnect(b)
  BY <1>1, LostPages DEF HciDisconnect, Receives
<1>2. CASE Receives(b, "HCI_DISCONNECT") /\ HciDisconnect(b)
  BY <1>2, DisconnectPages DEF HciDisconnect, Receives
<1>3. CASE PageTimeout(b)
  BY <1>3, DisconnectPages DEF PageTimeout
<1> QED
  BY <1>1, <1>2, <1>3 DEF HciDisconnect

LEMMA PhoneLostPages ==
  ASSUME IInv, PInv, NEW b \in Buds, NEW ev \in {"HCI_TIMEOUT", "HCI_EXIST"}, NEW tries \in Tries,
         PhoneLost(b, ev, tries)
  PROVE  PInv'
<1> DEFINE q == [bud[b] EXCEPT !.counter = tries]
<1>1. Receives(b, ev) /\ UNCHANGED <<on, master, phone, surprised>> /\ bud[b] \in Bud
  BY BudTypes DEF PhoneLost, radio
<1>2. PICK r : Becomes(b, r) /\ r \in IF bud[b].esco THEN {bt_tws_phone_disconnected(b, bud[b])}
                                     ELSE bt_tws_phone_connect_timeout(b, q)
  BY DEF PhoneLost
<1>3. q \in Bud
  BY <1>1 DEF Bud
<1> HIDE DEF q
<1>4. ~IsMaster(b) => r.pair_timer = Idle \/ bud[b].pair_timer # Idle
  BY <1>1, <1>2, <1>3, SlaveStops
<1>5. Stirs(Head(events[b]))
  BY <1>1 DEF Stirs, Receives
<1> QED
  BY <1>1, <1>2, <1>4, <1>5, HandlePages

LEMMA LinkDetachPages == ASSUME IInv, PInv, NEW b \in Buds, PhoneLinkDetach(b) PROVE PInv'
<1>1. Receives(b, "PHONE_LINK_DETACH") /\ UNCHANGED <<on, master, phone, surprised>> /\ bud[b] \in Bud
      /\ Head(events[b]) \in EventRec
  BY HeadTypes DEF PhoneLinkDetach, radio
<1>2. PICK q \in {bud[b], [bud[b] EXCEPT !.counter = RefusedTries], [bud[b] EXCEPT !.counter = 0]} :
         Becomes(b, bt_tws_connect_and_connectable_switch(b, q))
  BY <1>1 DEF PhoneLinkDetach, EventRec, Receives
<1>3. q \in Bud
  BY <1>1, <1>2, Budgets DEF Bud
<1> DEFINE r == bt_tws_connect_and_connectable_switch(b, q)
<1>4. ~IsMaster(b) => r.pair_timer = Idle
  BY <1>3, SlaveStops
<1>5. Stirs(Head(events[b]))
  BY <1>1 DEF Stirs, Receives
<1> HIDE DEF r
<1> QED
  BY <1>1, <1>2, <1>4, <1>5, HandlePages DEF r

LEMMA RoleSwitchPages == ASSUME IInv, PInv, NEW b \in Buds, RoleSwitch(b) PROVE PInv'
<1> DEFINE r == IF phone # None THEN bud[b] ELSE bt_tws_connect_and_connectable_switch(b, bud[b])
<1>1. Receives(b, "ROLE_SWITCH") /\ UNCHANGED <<on, master, phone, surprised>> /\ bud[b] \in Bud /\ Becomes(b, r)
  BY BudTypes DEF RoleSwitch, radio
<1>2. phone = b => r = bud[b]
  BY BudsAssumption
<1>3. ~IsMaster(b) => r.pair_timer = Idle \/ (bud[b].pair_timer # Idle /\ phone # None)
  BY <1>1, SlaveStops
<1> HIDE DEF r
<1> QED
  BY <1>1, <1>2, <1>3, HandlePages

LEMMA ConnectionTimeoutPages == ASSUME IInv, PInv, NEW b \in Buds, TwsConnectionTimeout(b) PROVE PInv'
<1> DEFINE r == bud[b]
           e == Head(events[b])
           u == IF r.timeout THEN [PutAside(r) EXCEPT !.timeout = FALSE] ELSE r
           s == IF r.unpaired THEN bt_tws_connect_and_connectable_switch(b, r)
                ELSE IF e.phone THEN bt_tws_wait_sibling_connect(r)
                ELSE bt_tws_connect_and_connectable_switch(b, u)
<1>1. Receives(b, "CONNECTION_TIMEOUT") /\ Becomes(b, s) /\ UNCHANGED <<on, master, phone, surprised>>
  BY DEF TwsConnectionTimeout, radio
<1>2. r \in Bud /\ e.ev = "CONNECTION_TIMEOUT"
  BY <1>1, HeadTypes
<1>3. u \in Bud
  <2> DEFINE q == PutAside(r)
  <2>1. q \in Bud
    BY <1>2, PutAsideKeeps DEF Kept
  <2> HIDE DEF q
  <2>2. [q EXCEPT !.timeout = FALSE] \in Bud
    BY <2>1 DEF Bud
  <2> QED
    BY <1>2, <2>2 DEF q
<1>4. ~e.phone => Stirs(e)
  BY <1>2 DEF Stirs
<1>5. Calm(r) /\ e.phone => Calm(s)
  <2> SUFFICES ASSUME Calm(r), e.phone PROVE Calm(s)
    OBVIOUS
  <2>1. CASE r.unpaired
    <3>1. ~r.power_on /\ r.counter = 0
      BY <2>1 DEF Calm
    <3> HIDE DEF r
    <3> QED
      BY <1>2, <2>1, <3>1, BtSwitchStill, StillCalm
  <2>2. CASE ~r.unpaired
    BY <1>2, <2>2, Quiets, QuieterCalm
  <2> QED
    BY <2>1, <2>2
<1> HIDE DEF u
<1>6. ~IsMaster(b) => s.pair_timer = Idle
  BY <1>2, <1>3, SlaveStops, Quiets
<1> HIDE DEF s
<1> QED
  BY <1>1, <1>4, <1>5, <1>6, HandlePages

LEMMA DetachPages == ASSUME IInv, PInv, NEW b \in Buds, TwsDetach(b) PROVE PInv'
<1> DEFINE e == Head(events[b])
           r == LeavePair(bud[b])
<1>1. PICK s \in AfterDetach(b, e, r) :
         Receives(b, "CONNECTION_DETACH") /\ Becomes(b, s) /\ UNCHANGED <<on, master, phone, surprised>>
  BY DEF TwsDetach, radio
<1>2. bud[b] \in Bud /\ e.ev = "CONNECTION_DETACH"
  BY <1>1, HeadTypes
<1>3. r \in Bud /\ Quieter(bud[b], r)
  <2>1. r \in Bud
    BY <1>2 DEF LeavePair, Bud
  <2> QED
    BY <1>2, <2>1, Quiets
<1> HIDE DEF r
<1>4. ~e.phone => Stirs(e)
  BY <1>2 DEF Stirs
<1> DEFINE q == PutAside(r)
           t == IF e.role = "slave" THEN [q EXCEPT !.timeout = TRUE] ELSE r
<1>5. t \in Bud
  <2>1. q \in Bud
    BY <1>3, PutAsideKeeps DEF Kept
  <2> HIDE DEF q
  <2>2. [q EXCEPT !.timeout = TRUE] \in Bud
    BY <2>1 DEF Bud
  <2> QED
    BY <1>3, <2>2
<1>6. \/ r.esco /\ s = [r EXCEPT !.scan = "esco"]
      \/ ~r.esco /\ e.phone /\ s = bt_tws_wait_sibling_connect(r)
      \/ ~r.esco /\ ~e.phone /\ (s \in ConnectSibling(b, t) \/ s = bt_tws_connect_and_connectable_switch(b, r))
  BY <1>1 DEF AfterDetach
<1> HIDE DEF t
<1>7. ~e.phone \/ Quieter(r, s)
  BY <1>3, <1>6, Quiets
<1>8. Calm(bud[b]) /\ e.phone => Calm(s)
  BY <1>3, <1>7, QuieterCalm
<1>9. ~IsMaster(b) => s.pair_timer = Idle \/ bud[b].pair_timer # Idle
  <2> SUFFICES ASSUME ~IsMaster(b), bud[b].pair_timer = Idle PROVE s.pair_timer = Idle
    OBVIOUS
  <2>1. r.pair_timer = Idle
    BY <1>3 DEF Quieter
  <2>2. CASE s = [r EXCEPT !.scan = "esco"] \/ s = bt_tws_wait_sibling_connect(r)
    <3>1. Quieter(r, s)
      BY <1>3, <2>2, Quiets
    <3> QED
      BY <2>1, <3>1 DEF Quieter
  <2>3. CASE s \in ConnectSibling(b, t) \/ s = bt_tws_connect_and_connectable_switch(b, r)
    BY <1>3, <1>5, <2>3, SlaveStops
  <2> QED
    BY <1>6, <2>2, <2>3
<1> QED
  BY <1>1, <1>4, <1>8, <1>9, HandlePages

LEMMA ConnectedPages == ASSUME IInv, PInv, NEW b \in Buds, TwsConnected(b) PROVE PInv'
<1> DEFINE e == Head(events[b])
           p == RecordSibling(b, bud[b])
           q == TakeBack(p, e.role)
           d == bt_tws_delete_pair_timer(q)
           r == JoinPair(q)
           s == IF e.phone THEN r
                ELSE IF e.role = "master" THEN bt_tws_connect_and_connectable_switch(b, r)
                ELSE [r EXCEPT !.scan = "none"]
<1>1. Receives(b, "CONNECTED") /\ Becomes(b, s) /\ UNCHANGED <<on, master, phone, surprised>>
  BY DEF TwsConnected
<1>2. bud[b] \in Bud /\ b \in on /\ e.ev = "CONNECTED"
  BY <1>1, HeadTypes
<1>3. p \in Bud /\ p.unpaired = FALSE /\ (~bud[b].power_on => ~p.power_on)
  <2>1. bud[b].unpaired = (b \notin paired)
    BY <1>2 DEF IInv, OnInv
  <2>2. CASE b \in paired
    BY <1>2, <2>1, <2>2 DEF RecordSibling
  <2>3. CASE b \notin paired
    <3> DEFINE x == bud[b]
    <3>1. x \in Bud /\ p = [x EXCEPT !.unpaired = FALSE, !.power_on = FALSE]
      BY <1>2, <2>3 DEF RecordSibling
    <3> HIDE DEF x, p
    <3> QED
      BY <3>1 DEF Bud
  <2> QED
    BY <2>2, <2>3
<1> HIDE DEF p
<1>4. q \in Bud /\ q.unpaired = FALSE /\ q.power_on = p.power_on
  <2>1. p.connect_time \in Tries /\ p.counter \in Tries
    BY <1>3 DEF Bud
  <2> QED
    BY <1>3, <2>1, Budgets DEF TakeBack, Bud
<1> HIDE DEF q
<1>5. d \in Bud /\ d.unpaired = FALSE /\ d.power_on = p.power_on /\ d.pair_timer = Idle
  BY <1>4, Quiets, Simple1 DEF Kept, Quieter
<1>6. r = [d EXCEPT !.timeout = FALSE, !.sib = TRUE]
  BY DEF JoinPair
<1> HIDE DEF d, r
<1>7. r \in Bud /\ r.unpaired = FALSE /\ r.power_on = p.power_on /\ r.pair_timer = Idle
  BY <1>5, <1>6 DEF Bud
<1>8. ~e.phone => Stirs(e)
  BY <1>2 DEF Stirs
<1>9. Calm(bud[b]) /\ e.phone => Calm(s)
  BY <1>3, <1>7 DEF Calm
<1>10. ~IsMaster(b) => s.pair_timer = Idle
  <2>1. [r EXCEPT !.scan = "none"].pair_timer = Idle
    BY <1>7 DEF Bud
  <2> QED
    BY <1>7, <2>1, SlaveStops
<1> HIDE DEF s
<1> QED
  BY <1>1, <1>8, <1>9, <1>10, HandlePages

-----------------------------------------------------------------------------
(* The environment adds to the queues. *)
LEMMA OnePages ==
  ASSUME NEW e \in EventRec
  PROVE  /\ <<e>> \in Seq(EventRec)
         /\ ~Stirs(e) => Without(<<e>>, Stirrers)
         /\ e.ev = "HCI_CONNECT" => After(<<e>>, Hushers, Stirrers)
         /\ e.ev \in {"CONNECTED", "HCI_CONNECT"} => After(<<e>>, Stoppers, {})
         /\ e.ev = "ROLE_SWITCH" => After(<<e>>, Switches, {})
<1>1. <<e>> \in Seq(EventRec) /\ Len(<<e>>) = 1 /\ <<e>>[1] = e
  OBVIOUS
<1>2. ~Stirs(e) => Without(<<e>>, Stirrers)
  BY <1>1 DEF Without, Stirrers
<1>3. ASSUME NEW R, NEW K, e \in R PROVE After(<<e>>, R, K)
  BY <1>1, <1>3 DEF After
<1>4. /\ e.ev = "HCI_CONNECT" => e \in Hushers
      /\ e.ev \in {"CONNECTED", "HCI_CONNECT"} => e \in Stoppers
      /\ e.ev = "ROLE_SWITCH" => e \in Switches
  BY DEF Hushers, Stoppers, Switches
<1> QED
  BY <1>1, <1>2, <1>3, <1>4

LEMMA SimplePages ==
  ASSUME NEW ev \in EventKinds \ {"PHONE_LINK_DETACH", "CONNECTED", "CONNECTION_DETACH"}
  PROVE  /\ Simple(ev) \in Seq(EventRec)
         /\ ev \notin {"CONNECTION_TIMEOUT", "HCI_LOST", "HCI_TIMEOUT", "HCI_EXIST"} => Without(Simple(ev), Stirrers)
         /\ ev = "HCI_CONNECT" => After(Simple(ev), Hushers, Stirrers) /\ After(Simple(ev), Stoppers, {})
<1>1. Event(ev, "none", FALSE, "none") \in EventRec /\ Event(ev, "none", FALSE, "none").ev = ev
  BY Events DEF Reasons
<1> QED
  BY <1>1, OnePages DEF Simple, Stirs

LEMMA NonePages == Without(<<>>, Stirrers)
  BY DEF Without

LEMMA NoneOf == ASSUME NEW s PROVE Without(s, {})
  BY DEF Without

LEMMA AddPages ==
  ASSUME IInv, PInv, NEW c \in on, NEW t \in Seq(EventRec), events'[c] = events[c] \o t,
         Quieter(bud[c], bud'[c]),
         phone' = c /\ c \notin surprised' =>
            \/ After(t, Hushers, Stirrers)
            \/ phone = c /\ c \notin surprised /\ Without(t, Stirrers),
         Linked' /\ master' # c /\ c \notin surprised' =>
            \/ After(t, Stoppers, {})
            \/ phone' = None /\ After(t, Switches, {})
            \/ Linked /\ master # c /\ c \notin surprised /\ phone' \in {None, phone}
  PROVE  PagingInv(c)'
<1>1. PagingInv(c) /\ events[c] \in Seq(EventRec) /\ c \in Buds
  BY BudTypes DEF PInv, IInv, Types
<1>2. Calm(bud[c]) => Calm(bud'[c])
  BY QuieterCalm
<1>3. ASSUME phone' = c, c \notin surprised' PROVE Hushed(events'[c], Calm(bud'[c]))
  <2>1. CASE After(t, Hushers, Stirrers)
    BY <1>1, <2>1, AfterJoined DEF Hushed
  <2>2. CASE phone = c /\ c \notin surprised /\ Without(t, Stirrers)
    <3>1. Hushed(events[c], Calm(bud[c]))
      BY <1>1, <2>2 DEF PagingInv
    <3>2. /\ Without(events[c], Stirrers) => Without(events'[c], Stirrers)
          /\ After(events[c], Hushers, Stirrers) => After(events'[c], Hushers, Stirrers)
      BY <1>1, <2>2, WithoutJoined
    <3> QED
      BY <1>2, <3>1, <3>2 DEF Hushed
  <2> QED
    BY <1>3, <2>1, <2>2
<1>4. ASSUME Linked', master' # c, c \notin surprised' PROVE Stopped(events'[c], phone' = None, bud'[c].pair_timer = Idle)
  <2>1. CASE After(t, Stoppers, {}) \/ (phone' = None /\ After(t, Switches, {}))
    BY <1>1, <2>1, AfterJoined DEF Stopped
  <2>2. CASE Linked /\ master # c /\ c \notin surprised /\ phone' \in {None, phone}
    <3>1. Stopped(events[c], phone = None, bud[c].pair_timer = Idle)
      BY <1>1, <2>2 DEF PagingInv
    <3>2. /\ After(events[c], Stoppers, {}) => After(events'[c], Stoppers, {})
          /\ After(events[c], Switches, {}) => After(events'[c], Switches, {})
      BY <1>1, WithoutJoined, NoneOf
    <3>3. bud[c].pair_timer = Idle => bud'[c].pair_timer = Idle
      BY DEF Quieter
    <3>4. phone = None => phone' = None
      BY <2>2
    <3> QED
      BY <3>1, <3>2, <3>3, <3>4 DEF Stopped
  <2> QED
    BY <1>4, <2>1, <2>2
<1> QED
  BY <1>3, <1>4 DEF PagingInv

LEMMA PostPages ==
  ASSUME IInv, PInv, NEW new \in Seq(EventRec), PostPhone(new), UNCHANGED <<on, master>>,
         \A c \in Buds : Quieter(bud[c], bud'[c]),
         phone' # None => \/ After(new, Hushers, Stirrers)
                          \/ phone' = phone /\ surprised' = surprised /\ Without(new, Stirrers),
         (phone' \in {None, phone} /\ surprised' = surprised) \/ After(new, Stoppers, {})
  PROVE  PInv'
<1> SUFFICES ASSUME NEW c \in on PROVE PagingInv(c)'
  BY DEF PInv
<1> DEFINE t == IF Linked \/ c \in {phone, phone'} THEN new ELSE <<>>
<1>1. c \in Buds /\ c # None
  BY BudsAssumption DEF IInv, Types
<1>2. t \in Seq(EventRec) /\ events'[c] = events[c] \o t
  BY <1>1, NoEvent DEF PostPhone, PostBoth
<1>3. Linked' = Linked
  BY DEF Linked
<1>4. phone' = c /\ c \notin surprised' =>
         \/ After(t, Hushers, Stirrers)
         \/ phone = c /\ c \notin surprised /\ Without(t, Stirrers)
  BY <1>1
<1>5. Linked' /\ master' # c /\ c \notin surprised' =>
         \/ After(t, Stoppers, {})
         \/ Linked /\ master # c /\ c \notin surprised /\ phone' \in {None, phone}
  BY <1>1, <1>3
<1> HIDE DEF t
<1> QED
  BY <1>1, <1>2, <1>4, <1>5, AddPages

LEMMA SameQuiet == ASSUME IInv, NEW c \in Buds PROVE Quieter(bud[c], bud[c])
  BY BudTypes, Quiets

LEMMA PhoneComesPages == ASSUME IInv, PInv, NEW b \in Buds, PhoneComes(b) PROVE PInv'
<1>1. /\ PostPhone(Simple("HCI_CONNECT")) /\ UNCHANGED <<on, master>>
      /\ bud' = [bud EXCEPT ![b] = [bud[b] EXCEPT !.page = FALSE]]
  BY DEF PhoneComes, Becomes
<1>2. /\ Simple("HCI_CONNECT") \in Seq(EventRec) /\ After(Simple("HCI_CONNECT"), Hushers, Stirrers)
      /\ After(Simple("HCI_CONNECT"), Stoppers, {})
  BY SimplePages DEF EventKinds
<1> DEFINE r == [bud[b] EXCEPT !.page = FALSE]
<1>3. Quieter(bud[b], r)
  BY BudTypes, Quiets
<1>4. bud'[b] = r /\ \A c \in Buds : c # b => bud'[c] = bud[c]
  BY <1>1 DEF IInv, Types
<1> HIDE DEF r
<1>5. \A c \in Buds : Quieter(bud[c], bud'[c])
  BY <1>3, <1>4, SameQuiet
<1> QED
  BY <1>1, <1>2, <1>5, PostPages

LEMMA PhoneStaysPages == ASSUME IInv, PInv, ProfilesConnect \/ CallStarts \/ CallEnds PROVE PInv'
<1>1. PICK ev \in {"PHONE_CONNECTED", "ESCO_OPEN", "ESCO_CLOSE"} : PostPhone(Simple(ev))
  BY DEF ProfilesConnect, CallStarts, CallEnds
<1>2. UNCHANGED <<on, bud, master, phone, surprised>>
  BY DEF ProfilesConnect, CallStarts, CallEnds
<1>3. Simple(ev) \in Seq(EventRec) /\ Without(Simple(ev), Stirrers)
  BY SimplePages DEF EventKinds
<1> QED
  BY <1>1, <1>2, <1>3, SameQuiet, PostPages

LEMMA PhoneGoesPages ==
  ASSUME IInv, PInv, NEW ev \in {"HCI_DISCONNECT", "HCI_LOST", "HCI_TIMEOUT", "HCI_EXIST"}, NEW reason \in {"timeout", "refused", "left"},
         PhoneGoes(ev, reason)
  PROVE  PInv'
<1> DEFINE esco == IF call THEN Simple("ESCO_CLOSE") ELSE <<>>
           both == IF Linked THEN <<Event("PHONE_LINK_DETACH", "none", FALSE, reason)>> ELSE <<>>
<1>1. PICK own \in {esco \o Simple(ev), Simple(ev) \o esco} : PostPhone(own \o both)
  BY DEF PhoneGoes
<1>2. phone' = None /\ UNCHANGED <<on, bud, master, surprised>>
  BY DEF PhoneGoes
<1>3. esco \in Seq(EventRec) /\ Simple(ev) \in Seq(EventRec)
  BY SimplePages, NoEvent DEF EventKinds
<1>4. both \in Seq(EventRec)
  <2> DEFINE e == Event("PHONE_LINK_DETACH", "none", FALSE, reason)
  <2>1. e \in EventRec
    BY DEF Event, EventRec, EventKinds, Reasons
  <2> QED
    BY <2>1, OnePages, NoEvent
<1> HIDE DEF esco, both
<1>5. own \o both \in Seq(EventRec)
  BY <1>1, <1>3, <1>4, Joined
<1> QED
  BY <1>1, <1>2, <1>5, SameQuiet, PostPages

LEMMA OneTimerPages == ASSUME IInv, PInv, NEW b \in Buds, CreateTimesOut(b) \/ PageFails(b) PROVE PInv'
<1>1. b \in on /\ bud[b] \in Bud /\ on \subseteq Buds /\ UNCHANGED <<on, master, phone, surprised>>
  BY BudTypes DEF CreateTimesOut, PageFails, radio, IInv, Types
<1> DEFINE ph == phone = b
<1>2. PICK r \in Bud, ev \in {"CONNECTION_TIMEOUT", "PAGE_TIMEOUT"}, f \in {FALSE, ph} :
         /\ Becomes(b, r) /\ Quieter(bud[b], r) /\ Post(b, <<Event(ev, "none", f, "none")>>)
         /\ ev = "CONNECTION_TIMEOUT" => f = ph
  <2>1. CASE CreateTimesOut(b)
    <3>1. cancle_create_connection(bud[b]) \in Bud /\ Quieter(bud[b], cancle_create_connection(bud[b]))
      BY <1>1, Quiets, Simple1 DEF Kept
    <3>2. /\ Becomes(b, cancle_create_connection(bud[b]))
          /\ Post(b, <<Event("CONNECTION_TIMEOUT", "none", ph, "none")>>)
      BY <2>1 DEF CreateTimesOut
    <3> QED
      BY <3>1, <3>2
  <2>2. CASE PageFails(b)
    <3>1. [bud[b] EXCEPT !.page = FALSE] \in Bud /\ Quieter(bud[b], [bud[b] EXCEPT !.page = FALSE])
      BY <1>1, Quiets DEF Bud
    <3>2. /\ Becomes(b, [bud[b] EXCEPT !.page = FALSE])
          /\ Post(b, <<Event("PAGE_TIMEOUT", "none", FALSE, "none")>>)
      BY <2>2 DEF PageFails, Simple
    <3> QED
      BY <3>1, <3>2
  <2> QED
    BY <2>1, <2>2
<1> DEFINE e == Event(ev, "none", f, "none")
<1>3. e \in EventRec /\ e.ev = ev /\ e.phone = f
  <2>1. f \in BOOLEAN
    OBVIOUS
  <2>2. e \in EventRec /\ e.ev = ev
    BY <2>1, Events DEF EventKinds, Reasons
  <2> QED
    BY <2>2 DEF Event
<1> HIDE DEF e
<1>4. <<e>> \in Seq(EventRec) /\ (phone = b => Without(<<e>>, Stirrers))
  BY <1>2, <1>3, OnePages DEF Stirs
<1>5. events' = [events EXCEPT ![b] = @ \o <<e>>] /\ bud' = [bud EXCEPT ![b] = r]
  BY <1>2 DEF Post, Becomes, e
<1>6. /\ events'[b] = events[b] \o <<e>> /\ bud'[b] = r
      /\ \A c \in Buds : c # b => events'[c] = events[c] /\ bud'[c] = bud[c]
  BY <1>1, <1>5 DEF IInv, Types
<1>7. Linked' = Linked
  BY <1>1 DEF Linked
<1>8. ASSUME NEW c \in on PROVE PagingInv(c)'
  <2>1. CASE c = b
    BY <1>1, <1>2, <1>4, <1>6, <1>7, <2>1, AddPages
  <2>2. CASE c # b
    <3>1. events'[c] = events[c] /\ bud'[c] = bud[c] /\ PagingInv(c)
      BY <1>1, <1>6, <2>2 DEF PInv
    <3> QED
      BY <1>1, <1>7, <3>1 DEF PagingInv
  <2> QED
    BY <2>1, <2>2
<1> QED
  BY <1>1, <1>8 DEF PInv

LEMMA LinkPages == ASSUME IInv, PInv, Link PROVE PInv'
<1> DEFINE e(b) == Event("CONNECTED", RoleIn(master', b), phone # None, "none")
           esco(b) == IF call /\ b # master' THEN Simple("ESCO_OPEN") ELSE <<>>
           t == [b \in Buds |-> <<e(b)>> \o esco(b)]
<1>1. /\ events' = [b \in Buds |-> events[b] \o t[b]]
      /\ bud' = [b \in Buds |-> Follow(cancle_create_connection(bud[b]), b, master')]
      /\ surprised' = surprised \cap {phone} /\ UNCHANGED <<on, phone>>
  BY DEF Link, PostBoth
<1> SUFFICES ASSUME NEW c \in on PROVE PagingInv(c)'
  BY <1>1 DEF PInv
<1>2. c \in Buds /\ c # None /\ bud[c] \in Bud
  BY BudTypes, BudsAssumption DEF IInv, Types
<1>3. e(c) \in EventRec /\ e(c).ev = "CONNECTED" /\ e(c).phone = (phone # None)
  <2> DEFINE ph == phone # None
  <2>1. ph \in BOOLEAN /\ e(c) = Event("CONNECTED", RoleIn(master', c), ph, "none")
    OBVIOUS
  <2>2. e(c).phone = ph
    BY DEF Event
  <2> HIDE DEF ph, e
  <2>3. e(c) \in EventRec /\ e(c).ev = "CONNECTED"
    BY <1>2, <2>1, LinkEvents
  <2> QED
    BY <2>2, <2>3 DEF ph
<1>4. esco(c) \in Seq(EventRec) /\ Without(esco(c), Stirrers)
  BY SimplePages, NonePages, NoEvent DEF EventKinds
<1>5. t[c] = <<e(c)>> \o esco(c)
  BY <1>2
<1> HIDE DEF e, esco, t
<1>6. /\ <<e(c)>> \in Seq(EventRec) /\ After(<<e(c)>>, Stoppers, {})
      /\ phone = c => Without(<<e(c)>>, Stirrers)
  BY <1>2, <1>3, OnePages DEF Stirs
<1>7. t[c] \in Seq(EventRec) /\ After(t[c], Stoppers, {}) /\ (phone = c => Without(t[c], Stirrers))
  <2>1. Without(esco(c), {})
    BY NoneOf
  <2>2. <<e(c)>> \o esco(c) \in Seq(EventRec)
    BY <1>4, <1>6, Joined
  <2>3. After(<<e(c)>> \o esco(c), Stoppers, {})
    BY <1>4, <1>6, <2>1, WithoutJoined
  <2>4. phone = c => Without(<<e(c)>> \o esco(c), Stirrers)
    BY <1>4, <1>6, WithoutJoined
  <2> QED
    BY <1>5, <2>2, <2>3, <2>4
<1>8. Quieter(bud[c], bud'[c])
  <2> DEFINE q == cancle_create_connection(bud[c])
  <2>1. q \in Bud /\ Quieter(bud[c], q) /\ bud'[c] = Follow(q, c, master')
    BY <1>1, <1>2, Quiets, Simple1 DEF Kept
  <2> HIDE DEF q
  <2>2. Quieter(q, Follow(q, c, master'))
    BY <2>1 DEF Quieter, Follow, Bud
  <2> QED
    BY <2>1, <2>2 DEF Quieter
<1>9. events'[c] = events[c] \o t[c]
  BY <1>1, <1>2
<1> QED
  BY <1>1, <1>7, <1>8, <1>9, AddPages

(* A detached bud with the phone hears so. *)
LEMMA DetachedPages ==
  ASSUME IInv, NEW c \in Buds, NEW reason \in {"POWEROFF", "SUPER_TIMEOUT"}
  PROVE  Detached(c, reason) \in Seq(EventRec) /\ (phone = c => Without(Detached(c, reason), Stirrers))
<1> DEFINE e == Event("CONNECTION_DETACH", RoleIn(master, c), phone = c, reason)
           esco == IF call /\ c # phone THEN Simple("ESCO_CLOSE") ELSE <<>>
<1>1. e \in EventRec /\ (phone = c => ~Stirs(e))
  <2> DEFINE ph == phone = c
  <2>1. ph \in BOOLEAN /\ e = Event("CONNECTION_DETACH", RoleIn(master, c), ph, reason) /\ e.phone = ph
    BY DEF Event
  <2> HIDE DEF ph, e
  <2>2. e \in EventRec /\ e.ev = "CONNECTION_DETACH"
    BY <2>1, LinkEvents
  <2> QED
    BY <2>1, <2>2 DEF Stirs, ph
<1>2. esco \in Seq(EventRec) /\ Without(esco, Stirrers)
  BY SimplePages, NonePages, NoEvent DEF EventKinds
<1>3. Detached(c, reason) = esco \o <<e>>
  BY DEF Detached
<1> HIDE DEF e, esco
<1>4. <<e>> \in Seq(EventRec) /\ (phone = c => Without(<<e>>, Stirrers))
  BY <1>1, OnePages
<1> QED
  BY <1>2, <1>3, <1>4, Joined, WithoutJoined

LEMMA FadePages == ASSUME IInv, PInv, Fade PROVE PInv'
<1>1. /\ events' = [b \in Buds |-> events[b] \o Detached(b, "SUPER_TIMEOUT")]
      /\ master' = None /\ UNCHANGED <<on, bud, phone, surprised>>
  BY DEF Fade, PostBoth
<1> SUFFICES ASSUME NEW c \in on PROVE PagingInv(c)'
  BY <1>1 DEF PInv
<1>2. c \in Buds /\ ~Linked'
  BY <1>1 DEF Linked, IInv, Types
<1>3. events'[c] = events[c] \o Detached(c, "SUPER_TIMEOUT")
  BY <1>1, <1>2
<1> QED
  BY <1>1, <1>2, <1>3, DetachedPages, SameQuiet, AddPages

LEMMA LeavePages == ASSUME IInv, PInv, NEW b \in Buds, Leave(b) PROVE PInv'
<1>1. /\ on' = on \ {b} /\ master' = None /\ bud' = [bud EXCEPT ![b] = Off]
      /\ phone' \in {None, phone} /\ (phone = b => phone' = None) /\ surprised' = surprised
  BY DEF Leave, Becomes
<1>2. PICK reason \in {"POWEROFF", "SUPER_TIMEOUT"} :
        events' = [c \in Buds |-> IF c = b THEN <<>>
                                  ELSE IF Linked THEN events[c] \o Detached(c, reason)
                                  ELSE events[c]]
  BY DEF Leave
<1> SUFFICES ASSUME NEW c \in on, c # b PROVE PagingInv(c)'
  BY <1>1 DEF PInv
<1>3. c \in Buds /\ c # None /\ ~Linked' /\ events[c] \in Seq(EventRec)
  BY <1>1, BudTypes, BudsAssumption DEF Linked, IInv, Types
<1> DEFINE t == IF Linked THEN Detached(c, reason) ELSE <<>>
<1>4. t \in Seq(EventRec) /\ (phone = c => Without(t, Stirrers))
  BY <1>3, DetachedPages, NonePages, NoEvent
<1>5. events'[c] = events[c] \o t
  BY <1>2, <1>3, NothingAdded
<1>6. bud'[c] = bud[c]
  BY <1>1, <1>3 DEF IInv, Types
<1> HIDE DEF t
<1> QED
  BY <1>1, <1>3, <1>4, <1>5, <1>6, SameQuiet, AddPages

LEMMA PowerOnPages == ASSUME IInv, PInv, NEW b \in Buds, PowerOn(b) PROVE PInv'
<1>1. /\ b \notin on /\ on' = on \union {b} /\ UNCHANGED <<events, master, phone, surprised>>
      /\ \E r : bud' = [bud EXCEPT ![b] = r]
  BY DEF PowerOn, Becomes
<1>2. ~Linked /\ ~Linked' /\ phone # b
  BY <1>1, OthersOff, BudsAssumption DEF Linked, IInv
<1> SUFFICES ASSUME NEW c \in on', phone = c PROVE PagingInv(c)'
  BY <1>1, <1>2 DEF PInv, PagingInv
<1>3. c \in on /\ bud'[c] = bud[c]
  BY <1>1, <1>2 DEF IInv, Types
<1> QED
  BY <1>1, <1>2, <1>3 DEF PInv, PagingInv

(* Roles switch without a phone. *)
LEMMA SwapPages == ASSUME IInv, PInv, Swap, phone = None PROVE PInv'
<1> DEFINE e(b) == Event("ROLE_SWITCH", RoleIn(Sibling(master), b), phone # None, "none")
<1>1. /\ events' = [b \in Buds |-> events[b] \o <<e(b)>>]
      /\ bud' = [b \in Buds |-> Follow(bud[b], b, master')]
      /\ on' = on /\ phone' = None
  BY DEF Swap, PostBoth
<1> SUFFICES ASSUME NEW c \in on PROVE PagingInv(c)'
  BY <1>1 DEF PInv
<1>2. c \in Buds /\ c # None /\ bud[c] \in Bud
  BY BudTypes, BudsAssumption DEF IInv, Types
<1>3. e(c) \in EventRec /\ e(c).ev = "ROLE_SWITCH"
  <2> DEFINE ph == phone # None
  <2>1. ph \in BOOLEAN /\ e(c) = Event("ROLE_SWITCH", RoleIn(Sibling(master), c), ph, "none")
    OBVIOUS
  <2> HIDE DEF ph, e
  <2> QED
    BY <1>2, <2>1, LinkEvents
<1>4. events'[c] = events[c] \o <<e(c)>>
  BY <1>1, <1>2
<1> HIDE DEF e
<1>5. <<e(c)>> \in Seq(EventRec) /\ After(<<e(c)>>, Switches, {})
  BY <1>3, OnePages
<1>6. Quieter(bud[c], bud'[c])
  BY <1>1, <1>2 DEF Quieter, Follow, Bud
<1> QED
  BY <1>1, <1>2, <1>4, <1>5, <1>6, AddPages

(* Roles switch with a phone: the buds it finds ready stay so. *)
LEMMA SwapTakesPages == ASSUME IInv, Led, Swap, phone # None PROVE PInv'
<1> DEFINE e(b) == Event("ROLE_SWITCH", RoleIn(Sibling(master), b), phone # None, "none")
<1>1. /\ events' = [b \in Buds |-> events[b] \o <<e(b)>>]
      /\ bud' = [b \in Buds |-> Follow(bud[b], b, master')]
      /\ on' = on /\ master' = Sibling(master) /\ master \in Buds
      /\ surprised' = {b \in Buds : ~Ready(b)}
  BY DEF Swap, PostBoth, Linked, IInv, Types
<1> SUFFICES ASSUME NEW c \in on, c \notin surprised' PROVE PagingInv(c)'
  BY <1>1 DEF PInv, PagingInv
<1>2. c \in Buds /\ bud[c] \in Bud /\ Ready(c)
  BY <1>1, BudTypes DEF IInv, Types
<1>3. e(c) \in EventRec /\ e(c).ev = "ROLE_SWITCH"
  <2> DEFINE ph == phone # None
  <2>1. ph \in BOOLEAN /\ e(c) = Event("ROLE_SWITCH", RoleIn(Sibling(master), c), ph, "none")
    OBVIOUS
  <2> HIDE DEF ph, e
  <2> QED
    BY <1>2, <2>1, LinkEvents
<1>4. events'[c] = events[c] \o <<e(c)>>
  BY <1>1, <1>2
<1> HIDE DEF e
<1>5. <<e(c)>> \in Seq(EventRec) /\ Without(<<e(c)>>, Stirrers)
  BY <1>3, OnePages DEF Stirs
<1>6. Quieter(bud[c], bud'[c])
  BY <1>1, <1>2 DEF Quieter, Follow, Bud
<1>7. CASE c = master
  <2>1. bud'[c].pair_timer = Idle
    BY <1>2, <1>6, <1>7 DEF Ready, Quieter
  <2>2. Sibling(master) # c
    BY <1>1, <1>7, Pair
  <2>3. phone' # c
    BY <2>2, <1>7 DEF Swap, Led
  <2> QED
    BY <2>1, <2>3 DEF PagingInv, Stopped
<1>8. CASE c # master
  <2>1. master' = c
    BY <1>1, <1>2, <1>8, BudsAssumption, Pair
  <2>2. events[c] = <<>> /\ Still(bud[c])
    BY <1>2, <1>8 DEF Ready, Still
  <2>3. Calm(bud'[c])
    BY <1>6, <2>2, StillCalm, QuieterCalm
  <2>4. Without(events'[c], Stirrers)
    BY <1>4, <1>5, <2>2
  <2> QED
    BY <2>1, <2>3, <2>4 DEF PagingInv, Hushed
<1> QED
  BY <1>7, <1>8

-----------------------------------------------------------------------------
LEMMA InitPages == Init => PInv
  BY DEF Init, PInv

LEMMA HandlesPages == ASSUME IInv, PInv, NEW b \in Buds, Handles(b) PROVE PInv'
  BY ConnectedPages, ConnectionTimeoutPages, DetachPages, LinkDetachPages, RoleSwitchPages,
     HciConnectPages, PhonePages, HciDisconnectPages, PhoneLostPages, Budgets
     DEF Handles, HciTimeout, HciExist

LEMMA EnvironmentPages == ASSUME IInv, Led, PInv, Environment PROVE PInv'
  BY LinkPages, FadePages, PhoneStaysPages, PhoneGoesPages, SwapPages, SwapTakesPages
     DEF Environment, PhoneLeaves, PhoneDrops, PhoneRefuses, PhoneFades

LEMMA NextPages == IInv /\ Led /\ PInv /\ [Next]_vars => PInv'
<1> SUFFICES ASSUME IInv, Led, PInv, [Next]_vars PROVE PInv'
  OBVIOUS
<1>1. CASE UNCHANGED vars
  BY <1>1 DEF vars, PInv, PagingInv, Linked
<1>2. CASE Environment
  BY <1>2, EnvironmentPages
<1>3. ASSUME NEW b \in Buds,
             \/ Handles(b) \/ PowerOn(b) \/ TimerFires(b) \/ Leave(b)
             \/ CreateTimesOut(b) \/ PageFails(b) \/ PhoneComes(b)
      PROVE  PInv'
  BY <1>3, HandlesPages, PowerOnPages, TimerPages, LeavePages, OneTimerPages, PhoneComesPages
<1> QED
  BY <1>1, <1>2, <1>3 DEF Next

(* A bud that has its phone pages none, and the slave of a pair leaves it   *)
(* to the master, once events are handled, for any budgets, any number of   *)
(* phones in flash and any disturbances, but for the buds that a role       *)
(* switch with the phone found with something left to page for, and only    *)
(* until the phone connects or the buds link again.                         *)
(* bt_tws_hci_event_connect and the CONNECTED event stop what went before;  *)
(* what older events start again they stop.                                 *)
THEOREM PagingStops == Spec => []PagingEnds
<1>1. IInv /\ PInv => PagingEnds
  <2> SUFFICES ASSUME IInv, PInv PROVE PagingEnds
    OBVIOUS
  <2>1. ASSUME NEW b \in Buds \ surprised, Drained(b), phone = b
        PROVE  /\ bud[b].pair_timer # "connectable"
               /\ bud[b].pair_timer = Idle \/ ~HasBudget(Refill(bud[b]))
    <3>1. Hushed(events[b], Calm(bud[b])) /\ events[b] = <<>>
      BY <2>1 DEF PInv, PagingInv, Drained
    <3>2. Calm(bud[b])
      BY <3>1 DEF Hushed, After
    <3> QED
      BY <3>2 DEF Calm, Idle, HasBudget, Refill
  <2>2. ASSUME Linked, Sibling(master) \notin surprised, \A b \in Buds : Drained(b)
        PROVE  bud[Sibling(master)].pair_timer = Idle
    <3> DEFINE c == Sibling(master)
    <3>1. c \in Buds /\ c # master /\ c \notin surprised
      BY <2>2, Pair DEF Linked, IInv, Types
    <3> HIDE DEF c
    <3>2. c \in on /\ events[c] = <<>>
      BY <2>2, <3>1 DEF Drained
    <3>3. Stopped(events[c], phone = None, bud[c].pair_timer = Idle)
      BY <2>2, <3>1, <3>2 DEF PInv, PagingInv
    <3> QED
      BY <3>2, <3>3 DEF Stopped, After, c
  <2> QED
    BY <2>1, <2>2 DEF PagingEnds
<1> QED
  BY <1>1, Invariant, AlwaysLed, InitPages, NextPages, PTL DEF Spec
=============================================================================
