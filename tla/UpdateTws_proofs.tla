--------------------------- MODULE UpdateTws_proofs ---------------------------
(***************************************************************************)
(* Proofs about UpdateTws, for images of any length, any numbering of the  *)
(* messages and any number of updates and faults.                          *)
(***************************************************************************)
EXTENDS UpdateTws, TLAPS

USE UpdateTwsAssumption

-----------------------------------------------------------------------------
(* Lemmas about the queues of the link. The head may be a message that was *)
(* handled and will be handed over again; the rest is fresh.               *)

Fresh(q) == IF q # <<>> /\ Head(q).seen THEN Tail(q) ELSE q

SeenFirst(q) == \A i \in 1..Len(q) : q[i].seen => i = 1

(* What is handed over again has the number that was handled last. *)
Kept(q, number) == SeenFirst(q) /\ (q # <<>> /\ Head(q).seen => Head(q).sn = number)

(* What goes to the master are answers, of one bit. *)
Replies(q) == \A i \in 1..Len(q) : q[i].rsp /\ q[i].value \in {0, 1}

Again(q) == <<[Head(q) EXCEPT !.seen = TRUE]>> \o Tail(q)

LEMMA FreshPart ==
    ASSUME NEW q \in Seq(Message)
    PROVE  /\ Fresh(q) \in Seq(Message)
           /\ \A i \in 1..Len(Fresh(q)) : \E j \in 1..Len(q) : Fresh(q)[i] = q[j]
           /\ q = <<>> => Fresh(q) = <<>>
<1>1. CASE q # <<>> /\ Head(q).seen
  <2>1. /\ Fresh(q) = Tail(q) /\ Tail(q) \in Seq(Message) /\ Len(Tail(q)) = Len(q) - 1 /\ Len(q) \in Nat
        /\ \A i \in 1..Len(Tail(q)) : Tail(q)[i] = q[i + 1]
    BY <1>1 DEF Fresh
  <2>2. \A i \in 1..Len(Tail(q)) : i + 1 \in 1..Len(q)
    BY <2>1
  <2> QED
    BY <1>1, <2>1, <2>2
<1>2. CASE ~(q # <<>> /\ Head(q).seen)
  BY <1>2 DEF Fresh
<1> QED
  BY <1>1, <1>2

LEMMA FreshAppend ==
    ASSUME NEW q \in Seq(Message), NEW m \in Message, ~m.seen
    PROVE  /\ Append(q, m) \in Seq(Message) /\ Append(q, m) # <<>>
           /\ Fresh(Append(q, m)) = Append(Fresh(q), m)
           /\ SeenFirst(q) => SeenFirst(Append(q, m))
           /\ q # <<>> => Head(Append(q, m)) = Head(q)
           /\ q = <<>> => Head(Append(q, m)) = m
           /\ Replies(q) /\ m.rsp /\ m.value \in {0, 1} => Replies(Append(q, m))
<1>1. /\ Append(q, m) \in Seq(Message) /\ Len(Append(q, m)) = Len(q) + 1 /\ Len(q) \in Nat
      /\ \A i \in 1..Len(q) : Append(q, m)[i] = q[i]
      /\ Append(q, m)[Len(q) + 1] = m
      /\ Append(q, m) # <<>> /\ Head(Append(q, m)) = Append(q, m)[1]
  <2>1. Append(q, m) \in Seq(Message) /\ Len(Append(q, m)) = Len(q) + 1 /\ Len(q) \in Nat
    OBVIOUS
  <2>2. \A i \in 1..Len(q) : Append(q, m)[i] = q[i]
    OBVIOUS
  <2>3. Append(q, m)[Len(q) + 1] = m
    OBVIOUS
  <2>4. Append(q, m) # <<>> /\ Head(Append(q, m)) = Append(q, m)[1]
    OBVIOUS
  <2> QED
    BY <2>1, <2>2, <2>3, <2>4
<1>2. CASE q = <<>>
  BY <1>1, <1>2 DEF Fresh, SeenFirst, Replies
<1>3. CASE q # <<>>
  <2>1. Head(Append(q, m)) = Head(q) /\ Tail(Append(q, m)) = Append(Tail(q), m)
    BY <1>3
  <2>2. Fresh(Append(q, m)) = Append(Fresh(q), m)
    BY <1>1, <1>3, <2>1 DEF Fresh
  <2> QED
    BY <1>1, <1>3, <2>1, <2>2 DEF SeenFirst, Replies
<1> QED
  BY <1>2, <1>3

LEMMA FreshTail ==
    ASSUME NEW q \in Seq(Message), q # <<>>
    PROVE  /\ Tail(q) \in Seq(Message) /\ Head(q) \in Message
           /\ SeenFirst(q) => /\ \A number : Kept(Tail(q), number)
                              /\ Fresh(Tail(q)) = IF Head(q).seen THEN Fresh(q) ELSE Tail(Fresh(q))
           /\ Replies(q) => Replies(Tail(q))
<1>1. /\ Tail(q) \in Seq(Message) /\ Len(Tail(q)) = Len(q) - 1 /\ Len(q) \in Nat \ {0}
      /\ \A i \in 1..Len(Tail(q)) : Tail(q)[i] = q[i + 1] /\ i + 1 \in 1..Len(q) /\ i + 1 # 1
      /\ Head(q) = q[1] /\ (Tail(q) # <<>> => Head(Tail(q)) = Tail(q)[1] /\ 1 \in 1..Len(Tail(q)))
  OBVIOUS
<1>2. SeenFirst(q) => \A i \in 1..Len(Tail(q)) : ~Tail(q)[i].seen
  BY <1>1 DEF SeenFirst
<1>3. SeenFirst(q) => Fresh(Tail(q)) = Tail(q)
  BY <1>1, <1>2 DEF Fresh
<1>4. /\ Fresh(q) = IF Head(q).seen THEN Tail(q) ELSE q
      /\ SeenFirst(q) => \A number : Kept(Tail(q), number)
  BY <1>1, <1>2 DEF Fresh, Kept, SeenFirst
<1>5. Replies(q) => Replies(Tail(q))
  BY <1>1 DEF Replies
<1> QED
  BY <1>1, <1>3, <1>4, <1>5

LEMMA FreshAgain ==
    ASSUME NEW q \in Seq(Message), q # <<>>, SeenFirst(q)
    PROVE  /\ Again(q) \in Seq(Message) /\ Again(q) # <<>> /\ Head(Again(q)).sn = Head(q).sn
           /\ SeenFirst(Again(q)) /\ Fresh(Again(q)) = Tail(q)
           /\ Replies(q) => Replies(Again(q))
<1> DEFINE m == [Head(q) EXCEPT !.seen = TRUE]
<1>1. /\ Tail(q) \in Seq(Message) /\ Head(q) \in Message /\ Head(q) = q[1]
      /\ Len(Tail(q)) = Len(q) - 1 /\ Len(q) \in Nat \ {0}
      /\ \A i \in 1..Len(Tail(q)) : Tail(q)[i] = q[i + 1]
  OBVIOUS
<1>2. m \in Message /\ m.seen /\ m.sn = Head(q).sn /\ m.rsp = Head(q).rsp /\ m.value = Head(q).value
  BY <1>1 DEF Message
<1> HIDE DEF m
<1>3. /\ Again(q) = <<m>> \o Tail(q) /\ Again(q) \in Seq(Message) /\ Again(q) # <<>>
      /\ Len(Again(q)) = Len(q) /\ Head(Again(q)) = m /\ Tail(Again(q)) = Tail(q)
      /\ Again(q)[1] = m /\ \A i \in 2..Len(q) : Again(q)[i] = q[i]
  <2> DEFINE t == Tail(q)
  <2>1. Again(q) = <<m>> \o t
    BY DEF Again, m
  <2>2. t \in Seq(Message) /\ Len(q) = Len(t) + 1 /\ \A i \in 2..Len(q) : t[i - 1] = q[i]
    BY <1>1
  <2> HIDE DEF t
  <2>3. /\ <<m>> \o t \in Seq(Message) /\ <<m>> \o t # <<>> /\ Len(<<m>> \o t) = 1 + Len(t)
        /\ Head(<<m>> \o t) = m /\ (<<m>> \o t)[1] = m
        /\ \A i \in 2..Len(t) + 1 : (<<m>> \o t)[i] = t[i - 1]
    BY <1>2, <2>2
  <2>4. Tail(<<m>> \o t) = t
    BY <1>2, <2>2
  <2> QED
    BY <2>1, <2>2, <2>3, <2>4 DEF t
<1> HIDE DEF Again
<1>4. Fresh(Again(q)) = Tail(q)
  BY <1>2, <1>3 DEF Fresh
<1>5. \A i \in 1..Len(Again(q)) : i = 1 \/ (Again(q)[i] = q[i] /\ i \in 1..Len(q))
  BY <1>1, <1>3
<1>6. SeenFirst(Again(q))
  BY <1>5 DEF SeenFirst
<1>7. ASSUME Replies(q) PROVE Replies(Again(q))
  <2>1. ASSUME NEW i \in 1..Len(Again(q)) PROVE Again(q)[i].rsp /\ Again(q)[i].value \in {0, 1}
    <3>1. CASE i = 1
      BY <1>1, <1>2, <1>3, <1>7, <3>1 DEF Replies
    <3>2. CASE i # 1
      BY <1>5, <1>7, <3>2 DEF Replies
    <3> QED
      BY <3>1, <3>2
  <2> QED
    BY <2>1 DEF Replies
<1> QED
  BY <1>2, <1>3, <1>4, <1>6, <1>7

-----------------------------------------------------------------------------
(* The link.                                                               *)

(* A message that will be handed over again is dropped then, what goes to  *)
(* the master are answers, and a link that is down carries nothing.        *)
Queues ==
    /\ \A b \in Bud : Kept(inbox[b], last[b]) /\ (~linked => inbox[b] = <<>>)
    /\ Replies(inbox["master"])

(* What a bud has still to handle. *)
Q(b) == Fresh(inbox[b])

Boxes == [Bud -> Seq(Message)]
Numbers == [Bud -> 0..SnMod-1]

Grows(b, kind, value, at) ==
    IF linked THEN \E m \in Message : /\ m.kind = kind /\ m.value = value /\ m.at = at
                                      /\ Q(b)' = Append(Q(b), m)
    ELSE Q(b) = <<>> /\ Q(b)' = <<>>

LEMMA Siblings == Sibling("master") = "slave" /\ Sibling("slave") = "master"
  BY DEF Sibling, Bud

LEMMA NextNumbers == sn \in Numbers => \A b \in Bud : NextSn(b) \in 0..SnMod-1
  BY DEF NextSn, Numbers

LEMMA KeptAppend ==
    ASSUME NEW q \in Seq(Message), NEW number, Kept(q, number), NEW m \in Message, ~m.seen
    PROVE  Kept(Append(q, m), number)
  BY FreshAppend DEF Kept

LEMMA AsksFacts ==
    ASSUME inbox \in Boxes, sn \in Numbers, Queues, NEW kind \in Kind, NEW value \in 0..Packets,
           NEW at \in 0..MaxTries, Asks(kind, value, at), UNCHANGED <<last, linked>>
    PROVE  /\ inbox' \in Boxes /\ sn' \in Numbers /\ Queues'
           /\ Q("master")' = Q("master") /\ Grows("slave", kind, value, at)
<1>0. NextSn("master") \in 0..SnMod-1
  BY NextNumbers DEF Bud
<1> DEFINE m == [kind |-> kind, rsp |-> FALSE, value |-> value, at |-> at,
                 sn |-> NextSn("master"), seen |-> FALSE]
<1>1. /\ m \in Message /\ m.kind = kind /\ ~m.rsp /\ m.value = value /\ m.at = at /\ ~m.seen
      /\ inbox' = IF linked THEN [inbox EXCEPT !["slave"] = Append(@, m)] ELSE inbox
  BY <1>0, Siblings DEF Asks, SendTo, Message
<1> HIDE DEF m
<1>2. sn' \in Numbers
  BY <1>0 DEF Asks, Numbers
<1>3. inbox["slave"] \in Seq(Message) /\ Kept(inbox["slave"], last["slave"])
  BY DEF Boxes, Bud, Queues
<1>4. CASE linked
  <2>1. /\ inbox' \in Boxes /\ inbox'["master"] = inbox["master"]
        /\ inbox'["slave"] = Append(inbox["slave"], m)
    BY <1>1, <1>3, <1>4, FreshAppend DEF Boxes, Bud
  <2>2. Kept(inbox'["slave"], last["slave"]) /\ Q("slave")' = Append(Q("slave"), m)
    BY <1>1, <1>3, <2>1, FreshAppend, KeptAppend DEF Q
  <2>3. Queues'
    BY <1>4, <2>1, <2>2 DEF Queues, Bud
  <2> QED
    BY <1>1, <1>2, <1>4, <2>1, <2>2, <2>3 DEF Grows, Q
<1>5. CASE ~linked
  <2>1. inbox' = inbox /\ inbox["slave"] = <<>>
    BY <1>1, <1>5 DEF Queues, Bud
  <2> QED
    BY <1>2, <1>5, <2>1 DEF Queues, Grows, Q, Fresh
<1> QED
  BY <1>4, <1>5

LEMMA AnswersFacts ==
    ASSUME inbox \in Boxes, sn \in Numbers, Queues, NEW box \in Boxes, box["master"] = inbox["master"],
           Kept(box["slave"], last'["slave"]), ~linked => box["slave"] = <<>>,
           NEW kind \in Kind, NEW value \in {0, 1}, NEW at \in 0..MaxTries, Answers(box, kind, value, at),
           linked' = linked, last'["master"] = last["master"]
    PROVE  /\ inbox' \in Boxes /\ sn' \in Numbers /\ Queues'
           /\ inbox'["slave"] = box["slave"] /\ Grows("master", kind, value, at)
<1>0. NextSn("slave") \in 0..SnMod-1 /\ value \in 0..Packets
  BY NextNumbers DEF Bud
<1> DEFINE m == [kind |-> kind, rsp |-> TRUE, value |-> value, at |-> at,
                 sn |-> NextSn("slave"), seen |-> FALSE]
<1>1. /\ m \in Message /\ m.kind = kind /\ m.rsp /\ m.value = value /\ m.at = at /\ ~m.seen
      /\ inbox' = IF linked THEN [box EXCEPT !["master"] = Append(@, m)] ELSE box
  <2>1. m \in Message
    BY <1>0 DEF Message
  <2>2. inbox' = SendTo(box, "slave", kind, TRUE, value, at)
    BY DEF Answers
  <2> QED
    BY <2>1, <2>2, Siblings DEF SendTo
<1> HIDE DEF m
<1>2. sn' \in Numbers
  BY <1>0 DEF Answers, Numbers
<1>3. /\ inbox["master"] \in Seq(Message) /\ Kept(inbox["master"], last["master"])
      /\ Replies(inbox["master"])
  BY DEF Boxes, Bud, Queues
<1>4. CASE linked
  <2>1. /\ inbox' \in Boxes /\ inbox'["slave"] = box["slave"]
        /\ inbox'["master"] = Append(inbox["master"], m)
    BY <1>1, <1>3, <1>4, FreshAppend DEF Boxes, Bud
  <2>2. /\ Kept(inbox'["master"], last["master"]) /\ Q("master")' = Append(Q("master"), m)
        /\ Replies(inbox'["master"])
    BY <1>1, <1>3, <2>1, FreshAppend, KeptAppend DEF Q
  <2>3. Queues'
    BY <1>4, <2>1, <2>2 DEF Queues, Bud
  <2> QED
    BY <1>1, <1>2, <1>4, <2>1, <2>2, <2>3 DEF Grows
<1>5. CASE ~linked
  <2>1. inbox' = box /\ inbox["master"] = <<>> /\ box["slave"] = <<>>
    BY <1>1, <1>5 DEF Queues, Bud
  <2>2. Queues'
    BY <1>5, <2>1 DEF Queues, Bud
  <2> QED
    BY <1>2, <1>5, <2>1, <2>2 DEF Grows, Q, Fresh
<1> QED
  BY <1>4, <1>5

(* A message that arrives: what is left may hold it once more. *)
LEMMA Taken ==
    ASSUME inbox \in Boxes, Queues, NEW b \in Bud, Arrives(b), NEW box \in Rest(b)
    PROVE  /\ box \in Boxes /\ \A c \in Bud \ {b} : box[c] = inbox[c]
           /\ Kept(box[b], Head(inbox[b]).sn) /\ Head(inbox[b]) \in Message /\ linked
           /\ Q(b) = inbox[b] /\ inbox[b] # <<>> /\ Fresh(box[b]) = Tail(Q(b))
           /\ b = "master" => Replies(box[b]) /\ Head(inbox[b]).value \in {0, 1}
<1>1. /\ inbox[b] # <<>> /\ inbox[b] \in Seq(Message) /\ SeenFirst(inbox[b]) /\ linked
      /\ ~Head(inbox[b]).seen /\ (b = "master" => Replies(inbox[b]))
  BY DEF Arrives, Queues, Boxes, Kept
<1>2. /\ box = [inbox EXCEPT ![b] = Tail(@)] \/ box = [inbox EXCEPT ![b] = Again(@)]
  BY DEF Rest, Again
<1>3. Q(b) = inbox[b]
  BY <1>1 DEF Q, Fresh
<1>4. b = "master" => Head(inbox[b]).value \in {0, 1}
  BY <1>1 DEF Replies
<1>5. CASE box = [inbox EXCEPT ![b] = Tail(@)]
  <2>1. /\ box[b] = Tail(inbox[b]) /\ box \in Boxes /\ \A c \in Bud \ {b} : box[c] = inbox[c]
        /\ Tail(inbox[b]) \in Seq(Message) /\ Head(inbox[b]) \in Message
        /\ Kept(Tail(inbox[b]), Head(inbox[b]).sn)
        /\ Fresh(Tail(inbox[b])) = Tail(Fresh(inbox[b]))
        /\ b = "master" => Replies(Tail(inbox[b]))
    BY <1>1, <1>5, FreshTail DEF Boxes
  <2>2. Kept(box[b], Head(inbox[b]).sn)
    BY <2>1
  <2> QED
    BY <1>1, <1>3, <1>4, <2>1, <2>2 DEF Q
<1>6. CASE box = [inbox EXCEPT ![b] = Again(@)]
  <2>1. /\ box[b] = Again(inbox[b]) /\ box \in Boxes /\ \A c \in Bud \ {b} : box[c] = inbox[c]
    BY <1>1, <1>6, FreshAgain DEF Boxes
  <2>2. Kept(box[b], Head(inbox[b]).sn) /\ Head(inbox[b]) \in Message
    BY <1>1, <2>1, FreshAgain, FreshTail DEF Kept
  <2> QED
    BY <1>1, <1>3, <1>4, <2>1, <2>2, FreshAgain
<1> QED
  BY <1>2, <1>5, <1>6

(* A message that is dropped, because it was handled or because its number *)
(* is the last one's again.                                                *)
LEMMA Dropped ==
    ASSUME inbox \in Boxes, Queues, NEW b \in Bud, Repeat(b)
    PROVE  /\ inbox' \in Boxes /\ Queues'
           /\ Q(b)' = Q(b) \/ (Q(b) # <<>> /\ Q(b)' = Tail(Q(b)))
           /\ \A c \in Bud \ {b} : Q(c)' = Q(c)
<1>1. /\ inbox[b] # <<>> /\ inbox[b] \in Seq(Message) /\ SeenFirst(inbox[b])
      /\ inbox' = [inbox EXCEPT ![b] = Tail(@)] /\ UNCHANGED <<last, linked>> /\ linked
  BY DEF Repeat, Queues, Boxes, Kept
<1>2. /\ Tail(inbox[b]) \in Seq(Message)
      /\ Kept(Tail(inbox[b]), last[b])
      /\ Fresh(Tail(inbox[b])) = IF Head(inbox[b]).seen THEN Fresh(inbox[b]) ELSE Tail(Fresh(inbox[b]))
      /\ Replies(inbox[b]) => Replies(Tail(inbox[b]))
  BY <1>1, FreshTail
<1>3. inbox' \in Boxes /\ inbox'[b] = Tail(inbox[b]) /\ \A c \in Bud \ {b} : inbox'[c] = inbox[c]
  BY <1>1, <1>2 DEF Boxes
<1>4. Kept(inbox'[b], last[b])
  BY <1>2, <1>3
<1>5. Queues'
  BY <1>1, <1>2, <1>3, <1>4 DEF Queues, Bud
<1>6. ~Head(inbox[b]).seen => Fresh(inbox[b]) # <<>>
  BY <1>1 DEF Fresh
<1> QED
  BY <1>2, <1>3, <1>5, <1>6 DEF Q

(* What the slave does with a message, and what it means to the link. *)
LinkTypes == inbox \in Boxes /\ sn \in Numbers

SlaveTakes(m) ==
    /\ LinkTypes' /\ Queues' /\ UNCHANGED <<service, wait, linked>>
    /\ m \in Message /\ Q("slave") # <<>> /\ m = Head(Q("slave")) /\ Q("slave")' = Tail(Q("slave"))
    /\ \/ /\ m.kind = "START" /\ Opened("slave")
          /\ \E value \in {0, 1} : Grows("master", "START", value, 0)
       \/ /\ m.kind = "DATA" /\ Queued("slave", ToWrite(m.value)) /\ Q("master")' = Q("master")
       \/ /\ m.kind = "VERIFY" /\ Queued("slave", ToVerify(m.at)) /\ session["slave"] /\ Q("master")' = Q("master")
       \/ /\ m.kind = "VERIFY" /\ Queued("slave", ToVerify(m.at)) /\ ~session["slave"]
          /\ \E value \in {0, 1} : Grows("master", "VERIFY", value, m.at)
       \/ /\ m.kind = "BOOT" /\ Queued("slave", ToBurn(m.at)) /\ Q("master")' = Q("master")

LEMMA SlaveReceipt ==
    ASSUME LinkTypes, last \in Numbers, Queues, SlaveReceives
    PROVE  SlaveTakes(Head(inbox["slave"])) /\ last' \in Numbers
<1> DEFINE m == Head(inbox["slave"])
<1>1. PICK box \in Rest("slave") : SlaveDoes(m, box)
  BY DEF SlaveReceives
<1>2. /\ Arrives("slave") /\ last' = [last EXCEPT !["slave"] = m.sn] /\ UNCHANGED <<service, wait, linked>>
  BY DEF SlaveReceives
<1>3. /\ box \in Boxes /\ box["master"] = inbox["master"] /\ Kept(box["slave"], m.sn) /\ m \in Message
      /\ linked /\ Q("slave") = inbox["slave"] /\ inbox["slave"] # <<>>
      /\ Fresh(box["slave"]) = Tail(Q("slave"))
  BY <1>1, <1>2, Taken DEF LinkTypes, Bud
<1>4. last' \in Numbers /\ last'["slave"] = m.sn /\ last'["master"] = last["master"]
  BY <1>2, <1>3 DEF Numbers, Message, Bud
<1> HIDE DEF m
<1>5. ASSUME inbox' = box, UNCHANGED sn
      PROVE  /\ LinkTypes' /\ Queues' /\ Q("slave")' = Tail(Q("slave")) /\ Q("master")' = Q("master")
  BY <1>2, <1>3, <1>4, <1>5 DEF LinkTypes, Queues, Bud, Q
<1>6. ASSUME NEW kind \in Kind, NEW value \in {0, 1}, NEW at \in 0..MaxTries, Answers(box, kind, value, at)
      PROVE  /\ LinkTypes' /\ Queues' /\ Q("slave")' = Tail(Q("slave")) /\ Grows("master", kind, value, at)
  BY <1>2, <1>3, <1>4, <1>6, AnswersFacts DEF LinkTypes, Q
<1>7. CASE m.kind = "START" /\ Start(box)
  <2>1. PICK value \in {0, 1} : Answers(box, "START", value, 0)
    BY <1>7 DEF Start
  <2>2. "START" \in Kind /\ Opened("slave") /\ 0 \in 0..MaxTries
    BY <1>7 DEF Kind, Start
  <2> QED
    BY <1>2, <1>3, <1>4, <1>6, <1>7, <2>1, <2>2 DEF SlaveTakes, m
<1>8. CASE m.kind = "DATA" /\ Data(box, m.value)
  BY <1>2, <1>3, <1>4, <1>5, <1>8 DEF SlaveTakes, Data, m
<1>9. CASE m.kind = "VERIFY" /\ Verify(box, m.at)
  <2>1. CASE session["slave"]
    BY <1>2, <1>3, <1>4, <1>5, <1>9, <2>1 DEF SlaveTakes, Verify, m
  <2>2. CASE ~session["slave"]
    <3>1. PICK value \in {0, 1} : Answers(box, "VERIFY", value, m.at)
      BY <1>9, <2>2 DEF Verify
    <3>2. "VERIFY" \in Kind /\ Queued("slave", ToVerify(m.at)) /\ m.at \in 0..MaxTries
      BY <1>3, <1>9 DEF Kind, Verify, Message
    <3> QED
      BY <1>2, <1>3, <1>4, <1>6, <1>9, <2>2, <3>1, <3>2 DEF SlaveTakes, m
  <2> QED
    BY <2>1, <2>2
<1>10. CASE m.kind = "BOOT" /\ Boot(box, m.at)
  BY <1>2, <1>3, <1>4, <1>5, <1>10 DEF SlaveTakes, Boot, m
<1> QED
  BY <1>1, <1>7, <1>8, <1>9, <1>10 DEF SlaveDoes, m

MasterTakes(m) ==
    /\ LinkTypes' /\ Queues' /\ UNCHANGED <<service, linked>> /\ sem' = sem + m.value
    /\ round' = IF m.value = 1 /\ ~Awaited(m) THEN 0 ELSE round
    /\ m \in Message /\ m.value \in {0, 1} /\ Q("master") # <<>> /\ m = Head(Q("master")) /\ Q("master")' = Tail(Q("master"))
    /\ Q("slave")' = Q("slave")

LEMMA MasterReceipt ==
    ASSUME LinkTypes, last \in Numbers, Queues, MasterReceives
    PROVE  MasterTakes(Head(inbox["master"])) /\ last' \in Numbers
<1> DEFINE m == Head(inbox["master"])
<1>1. /\ inbox' \in Rest("master") /\ Arrives("master") /\ last' = [last EXCEPT !["master"] = m.sn]
      /\ UNCHANGED <<service, sn, linked>> /\ sem' = sem + m.value
      /\ round' = IF m.value = 1 /\ ~Awaited(m) THEN 0 ELSE round
  BY DEF MasterReceives
<1>2. /\ inbox' \in Boxes /\ inbox'["slave"] = inbox["slave"] /\ Kept(inbox'["master"], m.sn)
      /\ m \in Message /\ linked /\ Q("master") = inbox["master"] /\ inbox["master"] # <<>>
      /\ Fresh(inbox'["master"]) = Tail(Q("master")) /\ Replies(inbox'["master"]) /\ m.value \in {0, 1}
  BY <1>1, Taken DEF LinkTypes, Bud
<1>3. last' \in Numbers /\ last'["master"] = m.sn /\ last'["slave"] = last["slave"]
  BY <1>1, <1>2 DEF Numbers, Message, Bud
<1> HIDE DEF m
<1>4. Queues'
  BY <1>1, <1>2, <1>3 DEF Queues, Bud
<1> QED
  BY <1>1, <1>2, <1>3, <1>4 DEF MasterTakes, LinkTypes, Q, m

-----------------------------------------------------------------------------
(* The library's sessions.                                                 *)

FlashTypes ==
    /\ session \in [Bud -> BOOLEAN] /\ image \in [Bud -> Seq(0..Packets)]
    /\ jobs \in [Bud -> Seq(Job)] /\ boot \in [Bud -> {"old", "new", "bad"}]

LEMMA Jobs ==
    /\ \A at \in 0..MaxTries : ToVerify(at) \in Job /\ ToBurn(at) \in Job
    /\ \A k \in 0..Packets : ToWrite(k) \in Job
    /\ \A job \in Job : /\ job.what \in {"write", "verify", "burn"} /\ job.packet \in 0..Packets
                         /\ job.at \in 0..MaxTries
    /\ \A at : /\ ToVerify(at).what = "verify" /\ ToVerify(at).at = at
              /\ ToBurn(at).what = "burn" /\ ToBurn(at).at = at
    /\ \A k : ToWrite(k).what = "write" /\ ToWrite(k).at = 0
  BY DEF Job, ToVerify, ToBurn, ToWrite

(* b's session ends or begins anew, and the other bud's is left alone. *)
OthersFlash(b) ==
    /\ FlashTypes'
    /\ \A c \in Bud \ {b} : /\ session'[c] = session[c] /\ image'[c] = image[c]
                            /\ jobs'[c] = jobs[c] /\ boot'[c] = boot[c]

LEMMA Opens ==
    ASSUME FlashTypes, NEW b \in Bud, Opened(b)
    PROVE  OthersFlash(b) /\ session'[b] /\ image'[b] = <<>> /\ jobs'[b] = <<>> /\ boot'[b] = boot[b]
  BY DEF Opened, FlashTypes, OthersFlash

LEMMA Refuses ==
    ASSUME FlashTypes, Refused
    PROVE  OthersFlash("master") /\ jobs'["master"] = <<>> /\ boot' = boot
  BY DEF Refused, FlashTypes, OthersFlash, Bud

LEMMA Exits ==
    ASSUME FlashTypes, NEW b \in Bud, Exited(b)
    PROVE  OthersFlash(b) /\ ~session'[b] /\ image'[b] = image[b] /\ jobs'[b] = <<>> /\ boot'[b] = boot[b]
  BY DEF Exited, FlashTypes, OthersFlash

LEMMA Orders ==
    ASSUME FlashTypes, NEW b \in Bud, NEW job \in Job, Queued(b, job)
    PROVE  /\ OthersFlash(b) /\ session'[b] = session[b] /\ image'[b] = image[b] /\ boot'[b] = boot[b]
           /\ jobs'[b] = IF session[b] THEN Append(jobs[b], job) ELSE jobs[b]
<1>1. jobs[b] \in Seq(Job) /\ Append(jobs[b], job) \in Seq(Job)
  BY DEF FlashTypes
<1> QED
  BY <1>1 DEF Queued, FlashTypes, OthersFlash

SlaveEnds(job) ==
    /\ LinkTypes' /\ Queues' /\ UNCHANGED <<service, wait, last, linked, session>> /\ Q("slave")' = Q("slave")
    /\ job \in Job /\ jobs["slave"] # <<>> /\ job = Head(jobs["slave"]) /\ jobs'["slave"] = Tail(jobs["slave"])
    /\ FlashTypes' /\ image'["master"] = image["master"] /\ jobs'["master"] = jobs["master"]
    /\ boot'["master"] = boot["master"]
    /\ \/ /\ job.what = "write" /\ boot' = boot /\ Grows("master", "DATA", 1, 0)
       \/ /\ job.what = "verify" /\ boot' = boot /\ image' = image
          /\ Grows("master", "VERIFY", IF Whole("slave") THEN 1 ELSE 0, job.at)
       \/ job.what = "burn" /\ Burnt("slave") /\ image' = image /\ Grows("master", "BOOT", 1, job.at)
       \/ job.what = "burn" /\ boot' = boot /\ image' = image /\ Q("master")' = Q("master")

LEMMA JobEnds ==
    ASSUME FlashTypes, NEW b \in Bud, jobs[b] # <<>>, Finished(b)
    PROVE  /\ jobs' \in [Bud -> Seq(Job)] /\ jobs'[b] = Tail(jobs[b]) /\ Head(jobs[b]) \in Job
           /\ \A c \in Bud \ {b} : jobs'[c] = jobs[c]
<1>1. jobs[b] \in Seq(Job) /\ Tail(jobs[b]) \in Seq(Job) /\ Head(jobs[b]) \in Job
  BY DEF FlashTypes
<1> QED
  BY <1>1 DEF Finished, FlashTypes

LEMMA BurntTypes ==
    ASSUME FlashTypes, NEW b \in Bud, Burnt(b)
    PROVE  /\ boot' \in [Bud -> {"old", "new", "bad"}] /\ \A c \in Bud \ {b} : boot'[c] = boot[c]
           /\ boot'[b] = IF Whole(b) THEN "new" ELSE "bad"
  BY DEF Burnt, FlashTypes

LEMMA SlaveWork ==
    ASSUME LinkTypes, FlashTypes, Queues, Works("slave")
    PROVE  SlaveEnds(Head(jobs["slave"]))
<1> DEFINE job == Head(jobs["slave"])
<1>0. "slave" \in Bud /\ "master" \in Bud /\ {"DATA", "VERIFY", "BOOT"} \subseteq Kind /\ 0 \in 0..MaxTries
  BY DEF Bud, Kind
<1>1. /\ jobs["slave"] # <<>> /\ Finished("slave") /\ UNCHANGED <<service, wait, last, linked>>
      /\ \/ job.what = "write" /\ SlaveWrites(job.packet)
         \/ job.what = "verify" /\ SlaveVerifies(job.at)
         \/ job.what = "burn" /\ SlaveBurns(job.at)
  BY DEF Works
<1>2. /\ jobs' \in [Bud -> Seq(Job)] /\ jobs'["slave"] = Tail(jobs["slave"]) /\ job \in Job
      /\ jobs'["master"] = jobs["master"]
  BY <1>0, <1>1, JobEnds
<1>9. job.at \in 0..MaxTries
  BY <1>2, Jobs
<1> HIDE DEF job
<1>3. /\ inbox \in Boxes /\ sn \in Numbers /\ Kept(inbox["slave"], last'["slave"])
      /\ last'["master"] = last["master"] /\ linked' = linked /\ (~linked => inbox["slave"] = <<>>)
  BY <1>0, <1>1 DEF LinkTypes, Queues
<1>4. ASSUME NEW kind \in Kind, NEW value \in {0, 1}, NEW at \in 0..MaxTries, Answers(inbox, kind, value, at)
      PROVE  LinkTypes' /\ Queues' /\ Q("slave")' = Q("slave") /\ Grows("master", kind, value, at)
  BY <1>3, <1>4, AnswersFacts DEF LinkTypes, Q
<1>5. CASE job.what = "write" /\ SlaveWrites(job.packet)
  <2>1. PICK s \in Stored("slave", job.packet) : image' = [image EXCEPT !["slave"] = Append(@, s)]
    BY <1>5 DEF SlaveWrites
  <2>2. Answers(inbox, "DATA", 1, 0) /\ UNCHANGED <<session, boot>>
    BY <1>5 DEF SlaveWrites
  <2>3. s \in 0..Packets
    BY <1>2, <2>1, Jobs DEF Stored
  <2>4. image["slave"] \in Seq(0..Packets) /\ Append(image["slave"], s) \in Seq(0..Packets)
    BY <1>0, <2>3 DEF FlashTypes
  <2>5. FlashTypes' /\ image'["master"] = image["master"]
    BY <1>0, <1>2, <2>1, <2>2, <2>4 DEF FlashTypes
  <2>6. LinkTypes' /\ Queues' /\ Q("slave")' = Q("slave") /\ Grows("master", "DATA", 1, 0)
    BY <1>0, <1>4, <1>9, <2>2
  <2> QED
    BY <1>1, <1>2, <1>5, <2>2, <2>5, <2>6 DEF SlaveEnds, job
<1>6. CASE job.what = "verify" /\ SlaveVerifies(job.at)
  <2>1. Answers(inbox, "VERIFY", IF Whole("slave") THEN 1 ELSE 0, job.at) /\ UNCHANGED <<session, image, boot>>
    BY <1>6 DEF SlaveVerifies
  <2>2. /\ LinkTypes' /\ Queues' /\ Q("slave")' = Q("slave")
        /\ Grows("master", "VERIFY", IF Whole("slave") THEN 1 ELSE 0, job.at)
    BY <1>0, <1>4, <1>9, <2>1
  <2>3. FlashTypes'
    BY <1>2, <2>1 DEF FlashTypes
  <2> QED
    BY <1>1, <1>2, <1>6, <2>1, <2>2, <2>3 DEF SlaveEnds, job
<1>7. CASE job.what = "burn" /\ SlaveBurns(job.at)
  <2>1. UNCHANGED <<session, image>>
    BY <1>7 DEF SlaveBurns
  <2>2. CASE Burnt("slave") /\ Answers(inbox, "BOOT", 1, job.at)
    <3>1. LinkTypes' /\ Queues' /\ Q("slave")' = Q("slave") /\ Grows("master", "BOOT", 1, job.at)
      BY <1>0, <1>4, <1>9, <2>2
    <3>2. FlashTypes' /\ boot'["master"] = boot["master"]
      BY <1>0, <1>2, <2>1, <2>2, BurntTypes DEF FlashTypes
    <3> QED
      BY <1>1, <1>2, <1>7, <2>1, <2>2, <3>1, <3>2 DEF SlaveEnds, job
  <2>3. CASE boot' = boot /\ inbox' = inbox /\ sn' = [sn EXCEPT !["slave"] = NextSn("slave")]
    <3>1. LinkTypes' /\ Queues'
      BY <1>0, <1>1, <1>3, <2>3, NextNumbers DEF LinkTypes, Queues, Numbers
    <3>2. FlashTypes'
      BY <1>2, <2>1, <2>3 DEF FlashTypes
    <3> QED
      BY <1>1, <1>2, <1>7, <2>1, <2>3, <3>1, <3>2 DEF SlaveEnds, job, Q
  <2> QED
    BY <1>7, <2>2, <2>3 DEF SlaveBurns
<1> QED
  BY <1>1, <1>5, <1>6, <1>7

MasterEnds ==
    /\ UNCHANGED <<service, wait, last, linked, session, image, inbox, sn>> /\ FlashTypes'
    /\ jobs["master"] # <<>> /\ jobs'["master"] = Tail(jobs["master"]) /\ jobs'["slave"] = jobs["slave"]
    /\ Burnt("master") \/ UNCHANGED boot

LEMMA MasterWork ==
    ASSUME FlashTypes, Works("master")
    PROVE  MasterEnds
<1>1. /\ jobs["master"] # <<>> /\ Finished("master") /\ MasterBurns
      /\ UNCHANGED <<service, wait, last, linked>>
  BY DEF Works
<1>2. "master" \in Bud /\ "slave" \in Bud
  BY DEF Bud
<1>3. /\ jobs' \in [Bud -> Seq(Job)] /\ jobs'["master"] = Tail(jobs["master"])
      /\ jobs'["slave"] = jobs["slave"]
  BY <1>1, <1>2, JobEnds
<1>4. FlashTypes'
  BY <1>1, <1>2, <1>3, BurntTypes DEF FlashTypes, MasterBurns
<1> QED
  BY <1>1, <1>3, <1>4 DEF MasterEnds, MasterBurns

(* A bud starts again: what it had is gone, and so is the link. *)
Fresher(b) ==
    /\ LinkTypes' /\ Queues' /\ last' \in Numbers /\ Q("master")' = <<>> /\ Q("slave")' = <<>>
    /\ OthersFlash(b) /\ ~session'[b] /\ image'[b] = <<>> /\ jobs'[b] = <<>> /\ boot' = boot
    /\ IF b = "master" THEN /\ pc' = "idle" /\ passed' = 0 /\ sem' = 0 /\ pkt_flag' = TRUE
                            /\ info' = "zero" /\ api' = FALSE /\ round' = 0
       ELSE UNCHANGED <<service, wait>>

LEMMA StartsAgain ==
    ASSUME LinkTypes, last \in Numbers, FlashTypes, NEW b \in Bud, Restarts(b)
    PROVE  Fresher(b)
<1>1. <<>> \in Seq(Message) /\ <<>> \in Seq(0..Packets) /\ <<>> \in Seq(Job)
  OBVIOUS
<1>2. OthersFlash(b) /\ ~session'[b] /\ image'[b] = <<>> /\ jobs'[b] = <<>> /\ boot' = boot
  BY <1>1 DEF Restarts, FlashTypes, OthersFlash
<1>3. LinkTypes' /\ last' \in Numbers /\ (\A c \in Bud : inbox'[c] = <<>>) /\ ~linked'
  BY <1>1 DEF Restarts, LinkTypes, Boxes, Numbers
<1>4. Queues' /\ Q("master")' = <<>> /\ Q("slave")' = <<>>
  BY <1>3 DEF Queues, Bud, Kept, SeenFirst, Replies, Q, Fresh
<1> QED
  BY <1>2, <1>3, <1>4 DEF Fresher, Restarts

-----------------------------------------------------------------------------
(* Types, and the link with them.                                          *)

ServiceTypes ==
    /\ pc \in {"idle", "START", "ready", "DATA", "stop", "VERIFY", "BOOT"}
    /\ sem \in Nat /\ pkt_flag \in BOOLEAN /\ passed \in 0..Packets
    /\ info \in {"zero", "file"} /\ api \in BOOLEAN /\ round \in 0..MaxTries

EventTypes ==
    /\ timer \in BOOLEAN /\ events \in [Bud -> SUBSET {"detach", "err", "over"}]
    /\ linked \in BOOLEAN /\ tries \in 0..MaxTries /\ faults \in 0..MaxFaults

LEMMA Types ==
    /\ TypeOK <=> ServiceTypes /\ EventTypes /\ FlashTypes /\ LinkTypes /\ last \in Numbers
    /\ TypeOK' <=> ServiceTypes' /\ EventTypes' /\ FlashTypes' /\ LinkTypes' /\ last' \in Numbers
  BY DEF TypeOK, ServiceTypes, EventTypes, FlashTypes, LinkTypes, Numbers, Boxes

(* Where the service stands in the image. *)
Places == (pc = "START" => passed = 0) /\ (pc = "DATA" => passed < Packets)

Sound == TypeOK /\ Queues /\ Places

LEMMA InitSound == Init => Sound
<1> SUFFICES ASSUME Init PROVE Sound
  OBVIOUS
<1>1. <<>> \in Seq(Message) /\ <<>> \in Seq(0..Packets) /\ <<>> \in Seq(Job)
  OBVIOUS
<1>2. LinkTypes /\ last \in Numbers
  BY <1>1 DEF Init, LinkTypes, Boxes, Numbers
<1>3. ServiceTypes /\ EventTypes /\ FlashTypes /\ Places
  <2>1. FlashTypes
    BY <1>1 DEF Init, FlashTypes
  <2>2. ServiceTypes /\ Places
    <3>1. 0 \in 0..MaxTries /\ 0 \in 0..Packets
      OBVIOUS
    <3> QED
      BY <3>1 DEF Init, ServiceTypes, Places
  <2>3. EventTypes
    <3>1. 0 \in 0..MaxTries /\ 0 \in 0..MaxFaults
      OBVIOUS
    <3> QED
      BY <3>1 DEF Init, EventTypes
  <2> QED
    BY <2>1, <2>2, <2>3
<1>4. Queues
  BY DEF Init, Queues, Kept, SeenFirst, Replies, Bud
<1> QED
  BY <1>2, <1>3, <1>4, Types DEF Sound

(* The master's service passes something on, or does not. *)
LEMMA ServiceLink ==
    ASSUME Sound, [Next]_vars, Request \/ FileEnd \/ Service
    PROVE  LinkTypes' /\ Queues' /\ last' \in Numbers
<1> USE DEF link
<1>0. /\ inbox \in Boxes /\ sn \in Numbers /\ LinkTypes /\ Queues /\ last \in Numbers
      /\ passed \in 0..Packets /\ round \in 0..MaxTries /\ tries \in 0..MaxTries
  BY Types DEF Sound, LinkTypes, ServiceTypes, EventTypes
<1>1. UNCHANGED <<last, linked>>
  BY DEF Request, FileEnd, Service, StartWaits, DataWaits, StopWaits, VerifyWaits, BootWaits
<1> SUFFICES LinkTypes' /\ Queues'
  BY <1>0, <1>1
<1>2. ASSUME UNCHANGED <<inbox, sn>> PROVE LinkTypes' /\ Queues'
  BY <1>0, <1>1, <1>2 DEF LinkTypes, Queues
<1>3. ASSUME NEW kind \in Kind, NEW value \in 0..Packets, NEW at \in 0..MaxTries, Asks(kind, value, at)
      PROVE  LinkTypes' /\ Queues'
  BY <1>0, <1>1, <1>3, AsksFacts DEF LinkTypes
<1>4. ASSUME NEW n \in {1, 2}, NotSent(n) PROVE LinkTypes' /\ Queues'
  <2>1. sn["master"] \in 0..SnMod-1 /\ (sn["master"] + n) % SnMod \in 0..SnMod-1
    BY <1>0 DEF Numbers, Bud
  <2>2. sn' \in Numbers /\ inbox' = inbox
    BY <1>0, <1>4, <2>1 DEF NotSent, Numbers
  <2> QED
    BY <1>0, <1>1, <2>2 DEF LinkTypes, Queues
<1>5. /\ Asks("START", 0, 0) => LinkTypes' /\ Queues'
      /\ \A k \in 0..Packets : Asks("DATA", k, 0) => LinkTypes' /\ Queues'
      /\ \A at \in 0..MaxTries : Asks("VERIFY", 0, at) \/ Asks("BOOT", 0, at) => LinkTypes' /\ Queues'
  <2>1. 0 \in 0..Packets /\ 0 \in 0..MaxTries
    OBVIOUS
  <2>2. "START" \in Kind /\ "DATA" \in Kind /\ "VERIFY" \in Kind /\ "BOOT" \in Kind
    BY DEF Kind
  <2> QED
    BY <1>3, <2>1, <2>2
<1>6. CASE Request
  BY <1>2, <1>5, <1>6 DEF Request
<1>7. CASE FileEnd
  <2>1. NextRound \in 0..MaxTries
    BY <1>0, <1>7 DEF FileEnd, NextRound
  <2> QED
    BY <1>2, <1>4, <1>5, <1>7, <2>1 DEF FileEnd
<1>8. CASE StartWaits \/ BootWaits
  BY <1>2, <1>8 DEF StartWaits, BootWaits
<1>9. CASE DataWaits
  <2>1. passed + 1 \in 0..Packets
    BY <1>0, <1>9 DEF DataWaits, Sound, Places
  <2> QED
    BY <1>2, <1>5, <1>9, <2>1 DEF DataWaits, PassesOn
<1>10. CASE StopWaits
  <2>1. 0 \in 0..Packets
    OBVIOUS
  <2> QED
    BY <1>2, <1>5, <1>10, <2>1 DEF StopWaits, PassesOn
<1>11. CASE VerifyWaits
  BY <1>0, <1>2, <1>4, <1>5, <1>11 DEF VerifyWaits, ExitVerify
<1> QED
  BY <1>6, <1>7, <1>8, <1>9, <1>10, <1>11 DEF Service

(* The master writes the packet it has received. *)
LEMMA OwnWritten ==
    ASSUME FlashTypes, ServiceTypes, passed < Packets, WritesOwn
    PROVE  /\ FlashTypes' /\ UNCHANGED <<session, jobs, boot>> /\ image'["slave"] = image["slave"]
<1>1. PICK k \in Stored("master", passed + 1) :
        image' = [image EXCEPT !["master"] = IF session["master"] THEN Append(@, k) ELSE @]
  BY DEF WritesOwn
<1>2. k \in 0..Packets
  BY <1>1 DEF Stored, ServiceTypes
<1>3. image["master"] \in Seq(0..Packets) /\ Append(image["master"], k) \in Seq(0..Packets)
  BY <1>2 DEF FlashTypes, Bud
<1> QED
  BY <1>1, <1>3 DEF WritesOwn, FlashTypes, Bud

LEMMA NextSound ==
    ASSUME Sound, [Next]_vars
    PROVE  Sound'
<1> USE DEF link, service, wait, flash, bounds
<1>0. ServiceTypes /\ EventTypes /\ FlashTypes /\ LinkTypes /\ last \in Numbers /\ Queues /\ Places
  BY Types DEF Sound
<1> SUFFICES ServiceTypes' /\ EventTypes' /\ FlashTypes' /\ LinkTypes' /\ last' \in Numbers
             /\ Queues' /\ Places'
  BY Types DEF Sound
<1>1. /\ UNCHANGED <<session, image, jobs, boot>> => FlashTypes'
      /\ UNCHANGED <<inbox, sn, last, linked>> => LinkTypes' /\ Queues' /\ last' \in Numbers
      /\ UNCHANGED <<pc, passed, pkt_flag, info, api, sem, round>> => ServiceTypes' /\ Places'
      /\ UNCHANGED <<timer, events, linked, tries, faults>> => EventTypes'
  BY <1>0 DEF FlashTypes, LinkTypes, Queues, ServiceTypes, Places, EventTypes
<1>2. \A c \in Bud : OthersFlash(c) => FlashTypes'
  BY DEF OthersFlash
<1>3. CASE Request
  <2>1. LinkTypes' /\ Queues' /\ last' \in Numbers
    BY <1>3, ServiceLink
  <2>2. FlashTypes'
    BY <1>0, <1>2, <1>3, Opens, Refuses DEF Request, Bud
  <2>3. api' \in BOOLEAN
    BY <1>0, <1>3 DEF Request, ServiceTypes
  <2>4. sem' \in Nat /\ round' \in 0..MaxTries
    BY <1>0, <1>3 DEF Request, ServiceTypes
  <2>5. ServiceTypes' /\ Places' /\ EventTypes'
    BY <1>0, <1>3, <2>3, <2>4 DEF Request, ServiceTypes, Places, EventTypes
  <2> QED
    BY <2>1, <2>2, <2>5
<1>4. CASE StartWaits
  BY <1>0, <1>1, <1>4 DEF StartWaits, Posted, TimeOut, ServiceTypes, Places
<1>5. CASE Write \/ Stop \/ DataStopped
  <2>1. FlashTypes'
    BY <1>0, <1>1, <1>5, OwnWritten DEF Write, Stop, DataStopped
  <2>2. ServiceTypes' /\ Places'
    BY <1>0, <1>5 DEF Write, Stop, DataStopped, ServiceTypes, Places
  <2> QED
    BY <1>1, <1>5, <2>1, <2>2 DEF Write, Stop, DataStopped
<1>6. CASE DataWaits
  <2>1. LinkTypes' /\ Queues' /\ last' \in Numbers
    BY <1>0, <1>6, ServiceLink DEF Service
  <2>2. ServiceTypes' /\ Places'
    <3>1. pkt_flag' \in BOOLEAN
      BY <1>0, <1>6 DEF DataWaits, PassesOn, ServiceTypes
    <3>2. sem' \in Nat
      BY <1>0, <1>6 DEF DataWaits, PassesOn, TimeOut, ServiceTypes
    <3> QED
      BY <1>0, <1>6, <3>1, <3>2 DEF DataWaits, ServiceTypes, Places
  <2> QED
    BY <1>1, <1>6, <2>1, <2>2 DEF DataWaits
<1>7. CASE StopWaits
  <2>1. LinkTypes' /\ Queues' /\ last' \in Numbers
    BY <1>0, <1>7, ServiceLink DEF Service
  <2>2. ServiceTypes' /\ Places'
    <3>1. pkt_flag' \in BOOLEAN
      BY <1>0, <1>7 DEF StopWaits, PassesOn, ServiceTypes
    <3>2. sem' \in Nat
      BY <1>0, <1>7 DEF StopWaits, PassesOn, TimeOut, ServiceTypes
    <3> QED
      BY <1>0, <1>7, <3>1, <3>2 DEF StopWaits, ServiceTypes, Places
  <2>3. FlashTypes'
    BY <1>0, <1>2, <1>7, Exits DEF StopWaits, Bud
  <2>4. EventTypes'
    BY <1>0, <1>7 DEF StopWaits, EventTypes
  <2> QED
    BY <2>1, <2>2, <2>3, <2>4
<1>8. CASE FileEnd
  <2>1. LinkTypes' /\ Queues' /\ last' \in Numbers
    BY <1>8, ServiceLink
  <2>2. sem' \in Nat /\ round' \in 0..MaxTries /\ tries' \in 0..MaxTries
    BY <1>0, <1>8 DEF FileEnd, NextRound, ServiceTypes, EventTypes
  <2>3. ServiceTypes' /\ Places'
    BY <1>0, <1>8, <2>2 DEF FileEnd, ServiceTypes, Places
  <2>4. FlashTypes'
    <3>1. ToBurn(0) \in Job /\ "master" \in Bud
      BY Jobs DEF Bud
    <3> QED
      BY <1>0, <1>1, <1>2, <1>8, <3>1, Orders DEF FileEnd
  <2>5. EventTypes'
    BY <1>0, <1>8, <2>2 DEF FileEnd, EventTypes
  <2> QED
    BY <2>1, <2>3, <2>4, <2>5
<1>9. CASE VerifyWaits
  <2>1. LinkTypes' /\ Queues' /\ last' \in Numbers
    BY <1>0, <1>9, ServiceLink DEF Service
  <2>2. ServiceTypes' /\ Places'
    BY <1>0, <1>9 DEF VerifyWaits, ExitVerify, Posted, TimeOut, ServiceTypes, Places
  <2> QED
    BY <1>1, <1>9, <2>1, <2>2 DEF VerifyWaits
<1>10. CASE BootWaits
  <2>1. ServiceTypes' /\ Places'
    BY <1>0, <1>10 DEF BootWaits, Posted, TimeOut, ServiceTypes, Places
  <2>2. FlashTypes'
    <3>1. ToBurn(round) \in Job /\ "master" \in Bud
      BY <1>0, Jobs DEF ServiceTypes, Bud
    <3> QED
      BY <1>0, <1>1, <1>2, <1>10, <3>1, Orders DEF BootWaits
  <2> QED
    BY <1>1, <1>10, <2>1, <2>2 DEF BootWaits
<1>11. CASE SlaveReceives
  <2>1. SlaveTakes(Head(inbox["slave"])) /\ last' \in Numbers
    BY <1>0, <1>11, SlaveReceipt
  <2>2. FlashTypes'
    <3>1. /\ ToWrite(Head(inbox["slave"]).value) \in Job /\ ToVerify(Head(inbox["slave"]).at) \in Job
          /\ ToBurn(Head(inbox["slave"]).at) \in Job /\ "slave" \in Bud
      BY <2>1, Jobs DEF SlaveTakes, Message, Bud
    <3> QED
      BY <1>0, <1>2, <2>1, <3>1, Opens, Orders DEF SlaveTakes
  <2>3. EventTypes'
    <3>1. PICK box \in Rest("slave") : Takes("slave", box) /\ SlaveDoes(Head(inbox["slave"]), box)
      BY <1>11 DEF SlaveReceives
    <3>2. events' \in [Bud -> SUBSET {"detach", "err", "over"}]
      BY <1>0, <3>1 DEF SlaveDoes, Start, Data, Verify, Boot, EventTypes
    <3>3. faults' \in 0..MaxFaults /\ tries' \in 0..MaxTries
      BY <1>0, <3>1 DEF Takes, EventTypes
    <3> QED
      BY <1>0, <1>11, <3>2, <3>3 DEF SlaveReceives, EventTypes
  <2> QED
    BY <1>1, <2>1, <2>2, <2>3 DEF SlaveTakes
<1>12. CASE MasterReceives
  <2>1. MasterTakes(Head(inbox["master"])) /\ last' \in Numbers
    BY <1>0, <1>12, MasterReceipt
  <2>2. ServiceTypes' /\ Places'
    BY <1>0, <2>1 DEF MasterTakes, ServiceTypes, Places
  <2>3. EventTypes'
    <3>1. PICK box \in Rest("master") : Takes("master", box)
      BY <1>12 DEF MasterReceives
    <3>2. faults' \in 0..MaxFaults /\ tries' \in 0..MaxTries
      BY <1>0, <3>1 DEF Takes, EventTypes
    <3> QED
      BY <1>0, <1>12, <3>2 DEF MasterReceives, EventTypes
  <2> QED
    BY <1>1, <1>12, <2>1, <2>2, <2>3 DEF MasterReceives, MasterTakes
<1>13. CASE SlaveTimeout
  BY <1>0, <1>1, <1>2, <1>13, Exits DEF SlaveTimeout, Bud, EventTypes
<1>14. CASE LinkDown
  <2>1. <<>> \in Seq(Message)
    OBVIOUS
  <2>2. LinkTypes' /\ Queues'
    <3>1. LinkTypes' /\ \A b \in Bud : inbox'[b] = <<>>
      BY <1>0, <1>14, <2>1 DEF LinkDown, LinkTypes, Boxes
    <3> QED
      BY <3>1 DEF Queues, Kept, SeenFirst, Replies, Bud
  <2>3. EventTypes'
    <3>1. events' \in [Bud -> SUBSET {"detach", "err", "over"}]
      BY <1>0, <1>14 DEF LinkDown, EventTypes
    <3>2. linked' \in BOOLEAN /\ timer' \in BOOLEAN
      BY <1>0, <1>14 DEF LinkDown, EventTypes
    <3> QED
      BY <1>0, <1>14, <3>1, <3>2 DEF LinkDown, EventTypes
  <2> QED
    BY <1>0, <1>1, <1>14, <2>2, <2>3 DEF LinkDown
<1>15. CASE LinkUp
  <2>1. LinkTypes' /\ Queues' /\ last' \in Numbers
    BY <1>0, <1>15 DEF LinkUp, LinkTypes, Queues
  <2> QED
    BY <1>0, <1>1, <1>15, <2>1 DEF LinkUp, EventTypes
<1>16. ASSUME NEW b \in Bud, Repeat(b)
       PROVE  ServiceTypes' /\ EventTypes' /\ FlashTypes' /\ LinkTypes' /\ last' \in Numbers
              /\ Queues' /\ Places'
  BY <1>0, <1>1, <1>16, Dropped DEF Repeat, LinkTypes
<1>17. ASSUME NEW b \in Bud, Works(b)
       PROVE  ServiceTypes' /\ EventTypes' /\ FlashTypes' /\ LinkTypes' /\ last' \in Numbers
              /\ Queues' /\ Places'
  <2>1. EventTypes'
    <3>1. events' \in [Bud -> SUBSET {"detach", "err", "over"}]
      BY <1>0, <1>17 DEF Works, SlaveWrites, SlaveVerifies, SlaveBurns, MasterBurns, EventTypes, Bud
    <3> QED
      BY <1>0, <1>17, <3>1 DEF Works, EventTypes
  <2>2. CASE b = "slave"
    BY <1>0, <1>1, <1>17, <2>1, <2>2, SlaveWork DEF SlaveEnds
  <2>3. CASE b = "master"
    BY <1>0, <1>1, <1>17, <2>1, <2>3, MasterWork DEF MasterEnds
  <2> QED
    BY <2>2, <2>3 DEF Bud
<1>18. ASSUME NEW b \in Bud, Restarts(b), tries' = tries, faults' \in 0..MaxFaults
       PROVE  ServiceTypes' /\ EventTypes' /\ FlashTypes' /\ LinkTypes' /\ last' \in Numbers
              /\ Queues' /\ Places'
  <2>1. Fresher(b)
    BY <1>0, <1>18, StartsAgain
  <2>2. ServiceTypes' /\ Places'
    <3>1. CASE b = "master"
      <4>1. pkt_flag' \in BOOLEAN /\ api' \in BOOLEAN
        BY <2>1, <3>1 DEF Fresher
      <4>2. ServiceTypes'
        <5>1. 0 \in 0..MaxTries /\ 0 \in 0..Packets
          OBVIOUS
        <5> QED
          BY <2>1, <3>1, <4>1, <5>1 DEF Fresher, ServiceTypes
      <4> QED
        BY <2>1, <3>1, <4>2 DEF Fresher, Places
    <3>2. CASE b # "master"
      BY <1>1, <2>1, <3>2 DEF Fresher
    <3> QED
      BY <3>1, <3>2
  <2>3. EventTypes'
    BY <1>0, <1>18 DEF Restarts, EventTypes
  <2> QED
    BY <1>2, <2>1, <2>2, <2>3 DEF Fresher
<1>19. ASSUME NEW b \in Bud, Handle(b)
       PROVE  ServiceTypes' /\ EventTypes' /\ FlashTypes' /\ LinkTypes' /\ last' \in Numbers
              /\ Queues' /\ Places'
  <2>1. CASE Restarts(b) /\ UNCHANGED bounds
    BY <1>0, <1>18, <2>1 DEF EventTypes
  <2>2. CASE ~(Restarts(b) /\ UNCHANGED bounds)
    <3>1. PICK e \in {"detach", "err"} : events' = [events EXCEPT ![b] = @ \ {e}]
      BY <1>19, <2>2 DEF Handle
    <3>2. Exited(b) /\ UNCHANGED <<service, wait, sn, last, timer, link, bounds>>
      BY <1>19, <2>2 DEF Handle
    <3>3. EventTypes'
      BY <1>0, <3>1, <3>2 DEF EventTypes
    <3> QED
      BY <1>0, <1>1, <1>2, <3>2, <3>3, Exits
  <2> QED
    BY <2>1, <2>2
<1>20. ASSUME NEW b \in Bud, Reset(b)
       PROVE  ServiceTypes' /\ EventTypes' /\ FlashTypes' /\ LinkTypes' /\ last' \in Numbers
              /\ Queues' /\ Places'
  BY <1>0, <1>18, <1>20 DEF Reset, EventTypes
<1>21. CASE UNCHANGED vars
  BY <1>1, <1>21 DEF vars
<1> QED
  BY <1>3, <1>4, <1>5, <1>6, <1>7, <1>8, <1>9, <1>10, <1>11, <1>12, <1>13, <1>14, <1>15,
     <1>16, <1>17, <1>19, <1>20, <1>21 DEF Next, Service

(* Whatever the phone, the link, the flash and resets do, every state has  *)
(* the types of update_tws_new.c.                                          *)
THEOREM TypeCorrect == Spec => []TypeOK
<1>1. Sound => TypeOK
  BY DEF Sound
<1> QED
  BY <1>1, InitSound, NextSound, PTL DEF Spec
-----------------------------------------------------------------------------
(* The protocol of an update. The master may wait for the slave's answer   *)
(* with answers to older questions still on their way. What is proved is   *)
(* that the wait its round stands for ends with the right answer, or with  *)
(* none, or is not of a round any more.                                    *)

(* Lemmas about where in a sequence the elements of a set are.             *)
None(q, X) == \A i \in 1..Len(q) : q[i] \notin X
OnlyLast(q, X) == \A i \in 1..Len(q) : q[i] \in X => i = Len(q)
OnlyFirst(q, X) == \A i \in 1..Len(q) : q[i] \in X => i = 1

(* The whole of it, all but the head, or nothing. *)
Less(q, r) == r = q \/ r = <<>> \/ (q # <<>> /\ r = Tail(q))

LEMMA Nothing == ASSUME NEW X PROVE None(<<>>, X) /\ OnlyLast(<<>>, X) /\ OnlyFirst(<<>>, X)
  BY DEF None, OnlyLast, OnlyFirst

LEMMA NoneFacts ==
    ASSUME NEW T, NEW q \in Seq(T), NEW X, None(q, X)
    PROVE  /\ OnlyLast(q, X) /\ OnlyFirst(q, X) /\ \A Y \in SUBSET X : None(q, Y)
           /\ q # <<>> => Head(q) \notin X
  BY DEF None, OnlyLast, OnlyFirst

LEMMA NoLength == ASSUME NEW T, NEW t \in Seq(T), Len(t) = 0 PROVE t = <<>>
  OBVIOUS

LEMMA TailFacts ==
    ASSUME NEW T, NEW q \in Seq(T), q # <<>>, NEW X
    PROVE  /\ Tail(q) \in Seq(T) /\ Head(q) \in T
           /\ None(q, X) => None(Tail(q), X)
           /\ OnlyLast(q, X) => OnlyLast(Tail(q), X) /\ (Head(q) \in X => Tail(q) = <<>>)
           /\ OnlyFirst(q, X) => None(Tail(q), X) /\ (Head(q) \notin X => None(q, X))
<1>1. /\ Tail(q) \in Seq(T) /\ Head(q) \in T /\ Head(q) = q[1]
      /\ Len(q) \in Nat \ {0} /\ Len(Tail(q)) = Len(q) - 1
      /\ \A i \in 1..Len(Tail(q)) : Tail(q)[i] = q[i + 1] /\ i + 1 \in 1..Len(q) /\ i + 1 # 1
  OBVIOUS
<1>2. Len(Tail(q)) = 0 => Tail(q) = <<>>
  BY <1>1, NoLength
<1>3. None(q, X) => None(Tail(q), X)
  BY <1>1 DEF None
<1>4. ASSUME OnlyLast(q, X) PROVE OnlyLast(Tail(q), X) /\ (Head(q) \in X => Tail(q) = <<>>)
  <2> DEFINE t == Tail(q)
  <2>1. /\ Len(t) = Len(q) - 1 /\ Len(t) \in Nat /\ Len(q) \in Nat
        /\ \A i \in 1..Len(t) : t[i] = q[i + 1] /\ i + 1 \in 1..Len(q)
    BY <1>1
  <2> HIDE DEF t
  <2>2. \A i \in 1..Len(t) : t[i] \in X => i + 1 = Len(q)
    BY <1>4, <2>1 DEF OnlyLast
  <2>3. OnlyLast(t, X)
    BY <2>1, <2>2 DEF OnlyLast
  <2>4. 1 \in 1..Len(q) /\ Head(q) = q[1]
    BY <1>1
  <2>5. Head(q) \in X => Len(q) = 1
    BY <1>4, <2>4 DEF OnlyLast
  <2>6. Head(q) \in X => Len(t) = 0
    BY <2>1, <2>5
  <2> QED
    BY <1>2, <2>3, <2>6 DEF t
<1>5. ASSUME OnlyFirst(q, X) PROVE None(Tail(q), X) /\ (Head(q) \notin X => None(q, X))
  BY <1>1, <1>5 DEF OnlyFirst, None
<1> QED
  BY <1>1, <1>3, <1>4, <1>5

LEMMA AppendFacts ==
    ASSUME NEW T, NEW q \in Seq(T), NEW m \in T, NEW X
    PROVE  /\ Append(q, m) \in Seq(T) /\ Append(q, m) # <<>>
           /\ None(q, X) => OnlyLast(Append(q, m), X) /\ (m \notin X => None(Append(q, m), X))
           /\ OnlyFirst(q, X) /\ (q = <<>> \/ m \notin X) => OnlyFirst(Append(q, m), X)
<1>1. /\ Append(q, m) \in Seq(T) /\ Len(Append(q, m)) = Len(q) + 1 /\ Len(q) \in Nat
  OBVIOUS
<1>2. \A i \in 1..Len(q) : Append(q, m)[i] = q[i]
  OBVIOUS
<1>3. Append(q, m)[Len(q) + 1] = m /\ Append(q, m) # <<>>
  OBVIOUS
<1>4. \A i \in 1..Len(Append(q, m)) : i \in 1..Len(q) \/ i = Len(Append(q, m))
  BY <1>1
<1>5. q = <<>> => Len(q) = 0
  OBVIOUS
<1>6. None(q, X) => OnlyLast(Append(q, m), X) /\ (m \notin X => None(Append(q, m), X))
  BY <1>1, <1>2, <1>3, <1>4 DEF None, OnlyLast
<1>7. ASSUME OnlyFirst(q, X), q = <<>> \/ m \notin X PROVE OnlyFirst(Append(q, m), X)
  BY <1>1, <1>2, <1>3, <1>4, <1>5, <1>7 DEF OnlyFirst
<1> QED
  BY <1>1, <1>3, <1>6, <1>7

LEMMA LessFacts ==
    ASSUME NEW T, NEW q \in Seq(T), NEW r, Less(q, r), NEW X
    PROVE  /\ None(q, X) => None(r, X)
           /\ OnlyLast(q, X) => OnlyLast(r, X)
           /\ OnlyFirst(q, X) => OnlyFirst(r, X)
           /\ q = <<>> => r = <<>>
<1>1. CASE r = q
  BY <1>1
<1>2. CASE r = <<>>
  BY <1>2, Nothing
<1>3. CASE q # <<>> /\ r = Tail(q)
  BY <1>3, TailFacts, NoneFacts
<1> QED
  BY <1>1, <1>2, <1>3 DEF Less

-----------------------------------------------------------------------------
(* The invariant.                                                          *)

Qs == Q("slave")
Qm == Q("master")
Js == jobs["slave"]
Jm == jobs["master"]

(* The question the master waits in, its answer, and the slave's job for it. *)
Cur == {m \in Message : m.kind = pc /\ m.at = round}
CurYes == {m \in Message : m.kind = pc /\ m.at = round /\ m.value = 1}
CurJob == {j \in Job : j.what = (IF pc = "VERIFY" THEN "verify" ELSE "burn") /\ j.at = round}

(* Asked in a wait of a round, and not on an answer to something else. *)
SureBoot == {m \in Message : m.kind = "BOOT" /\ m.at # 0}
SureBurn == {j \in Job : j.what = "burn" /\ j.at # 0}

(* What would change the slave's image. *)
Noise == {m \in Message : m.kind \in {"START", "DATA"}}
Writing == {j \in Job : j.what = "write"}

NotBurn == {j \in Job : j.what # "burn"}
Newer == {m \in Message : m.at > tries}
NewerJob == {j \in Job : j.at > tries}

Idle == Qs = <<>> /\ Js = <<>>
SlaveIntact == session["slave"] => Whole("slave")
Good == SlaveIntact /\ (pc = "BOOT" => boot["slave"] = "new")

(* The question is on its way or with the slave, its answer is on its way, *)
(* or the master has been told.                                            *)
Asked ==
    /\ sem = 0 /\ None(Qm, Cur) /\ OnlyLast(Qs, Cur) /\ OnlyLast(Js, CurJob)
    /\ None(Js, CurJob) \/ Qs = <<>>
Answered == sem = 0 /\ Idle /\ OnlyLast(Qm, Cur) /\ (None(Qm, CurYes) \/ Good)
Told == sem = 1 /\ Idle /\ Qm = <<>> /\ Good

WaitInv == pc \in {"VERIFY", "BOOT"} /\ round # 0 => Asked \/ Answered \/ Told

(* Boot information asked for in a round is burnt next, over a whole image. *)
SureInv ==
    /\ OnlyFirst(Qs, SureBoot) /\ (None(Qs, SureBoot) \/ (Js = <<>> /\ SlaveIntact))
    /\ OnlyFirst(Js, SureBurn) /\ (None(Js, SureBurn) \/ Whole("slave"))

Settled ==
    /\ Whole("master") /\ boot["slave"] = "new" /\ SlaveIntact
    /\ None(Qs, Noise) /\ None(Js, Writing)

OwnInv ==
    /\ Jm # <<>> => pc \in {"idle", "VERIFY", "BOOT"}
    /\ None(Jm, NotBurn) /\ (None(Jm, SureBurn) \/ Settled)

RoundInv ==
    /\ round # 0 => pc \in {"VERIFY", "BOOT"} /\ info = "file" /\ round = tries
    /\ pc = "BOOT" /\ round # 0 => Whole("master")

PastInv ==
    /\ None(Qs, Newer) /\ None(Qm, Newer) /\ None(Js, NewerJob)
    /\ ~session["slave"] => Js = <<>>

Protocol == WaitInv /\ SureInv /\ OwnInv /\ RoundInv /\ PastInv

LEMMA QueueTypes ==
    ASSUME Sound
    PROVE  /\ Qs \in Seq(Message) /\ Qm \in Seq(Message) /\ Js \in Seq(Job) /\ Jm \in Seq(Job)
           /\ FlashTypes /\ LinkTypes /\ Queues /\ last \in Numbers /\ ServiceTypes /\ tries \in Nat
<1>1. LinkTypes /\ FlashTypes /\ Queues /\ last \in Numbers /\ ServiceTypes /\ EventTypes
  BY Types DEF Sound
<1> QED
  BY <1>1, FreshPart DEF LinkTypes, FlashTypes, EventTypes, Boxes, Bud, Q, Qs, Qm, Js, Jm

LEMMA WholeKept == \A b \in Bud : image'[b] = image[b] => (Whole(b)' <=> Whole(b))
  BY DEF Whole

(* The slave's session and image are left alone. *)
SlaveSame == session'["slave"] = session["slave"] /\ image'["slave"] = image["slave"]

LEMMA IntactKept ==
    /\ SlaveSame => (Whole("slave")' <=> Whole("slave")) /\ (SlaveIntact' <=> SlaveIntact)
    /\ ~session'["slave"] => SlaveIntact'
  BY WholeKept DEF SlaveSame, SlaveIntact, Bud

LEMMA SameRound ==
    ASSUME pc' = pc, round' = round
    PROVE  Cur' = Cur /\ CurYes' = CurYes /\ CurJob' = CurJob
  BY DEF Cur, CurYes, CurJob

LEMMA SameTries == tries' = tries => Newer' = Newer /\ NewerJob' = NewerJob
  BY DEF Newer, NewerJob

LEMMA MoreTries ==
    ASSUME tries \in Nat, tries' \in Nat, tries' >= tries
    PROVE  Newer' \subseteq Newer /\ NewerJob' \subseteq NewerJob
  BY DEF Newer, NewerJob, Message, Job

-----------------------------------------------------------------------------
(* Messages are lost, a session ends, the master gives up.                 *)
Loses ==
    /\ Less(Qs, Qs') /\ Less(Qm, Qm') /\ boot' = boot
    /\ tries' \in Nat /\ tries' >= tries
    /\ (SlaveSame /\ Js' = Js) \/ (~session'["slave"] /\ Js' = <<>>)
    /\ (image'["master"] = image["master"] /\ Jm' = Jm) \/ Jm' = <<>>
    /\ \/ UNCHANGED <<pc, sem, info, round, tries>> /\ image'["master"] = image["master"]
       \/ pc' = "idle" /\ round' = 0

LEMMA LosesKeeps ==
    ASSUME Sound, Protocol, Loses
    PROVE  Protocol'
<1>1. Qs \in Seq(Message) /\ Qm \in Seq(Message) /\ Js \in Seq(Job) /\ tries \in Nat
  BY QueueTypes
<1>2. \A X : /\ None(Qs, X) => None(Qs', X)
             /\ OnlyLast(Qs, X) => OnlyLast(Qs', X)
             /\ OnlyFirst(Qs, X) => OnlyFirst(Qs', X)
             /\ Qs = <<>> => Qs' = <<>>
  BY <1>1, LessFacts DEF Loses
<1>3. \A X : /\ None(Qm, X) => None(Qm', X)
             /\ OnlyLast(Qm, X) => OnlyLast(Qm', X)
             /\ Qm = <<>> => Qm' = <<>>
  BY <1>1, LessFacts DEF Loses
<1>4. \A X : /\ None(Js, X) => None(Js', X)
             /\ OnlyLast(Js, X) => OnlyLast(Js', X)
             /\ OnlyFirst(Js, X) => OnlyFirst(Js', X)
             /\ Js = <<>> => Js' = <<>>
  BY Nothing DEF Loses
<1>5. /\ SlaveIntact => SlaveIntact'
      /\ Js' = <<>> \/ (Whole("slave")' <=> Whole("slave"))
  BY IntactKept DEF Loses
<1>6. image'["master"] = image["master"] => (Whole("master")' <=> Whole("master"))
  BY WholeKept DEF Bud
<1>7. WaitInv'
  <2>1. CASE pc' = "idle"
    BY <2>1 DEF WaitInv
  <2>2. CASE UNCHANGED <<pc, sem, round>> /\ boot' = boot
    <3>1. /\ Cur' = Cur /\ CurYes' = CurYes /\ CurJob' = CurJob
          /\ Good => Good'
      BY <1>5, <2>2, SameRound DEF Good
    <3>2. Asked => Asked'
      BY <1>2, <1>3, <1>4, <2>2, <3>1 DEF Asked
    <3>3. Answered => Answered'
      BY <1>2, <1>3, <1>4, <2>2, <3>1 DEF Answered, Idle
    <3>4. Told => Told'
      BY <1>2, <1>3, <1>4, <2>2, <3>1 DEF Told, Idle
    <3> QED
      BY <2>2, <3>2, <3>3, <3>4 DEF WaitInv, Protocol
  <2> QED
    BY <2>1, <2>2 DEF Loses
<1>8. SureInv'
  <2>1. SureBoot' = SureBoot /\ SureBurn' = SureBurn /\ SureInv
    BY DEF SureBoot, SureBurn, Protocol
  <2>2. OnlyFirst(Qs', SureBoot) /\ (None(Qs', SureBoot) \/ (Js' = <<>> /\ SlaveIntact'))
    BY <1>2, <1>4, <1>5, <2>1 DEF SureInv
  <2>3. OnlyFirst(Js', SureBurn) /\ (None(Js', SureBurn) \/ Whole("slave")')
    BY <1>4, <1>5, <2>1, Nothing DEF SureInv
  <2> QED
    BY <2>1, <2>2, <2>3 DEF SureInv
<1>9. OwnInv'
  <2>1. /\ NotBurn' = NotBurn /\ SureBurn' = SureBurn /\ Noise' = Noise /\ Writing' = Writing /\ OwnInv
    BY DEF NotBurn, SureBurn, Noise, Writing, Protocol
  <2>2. CASE Jm' = <<>>
    BY <2>2, Nothing DEF OwnInv
  <2>3. CASE image'["master"] = image["master"] /\ Jm' = Jm
    <3>1. Settled => Settled'
      BY <1>2, <1>4, <1>5, <1>6, <2>1, <2>3 DEF Settled, Loses
    <3>2. pc' = pc \/ pc' = "idle"
      BY DEF Loses
    <3> QED
      BY <2>1, <2>3, <3>1, <3>2 DEF OwnInv
  <2> QED
    BY <2>2, <2>3 DEF Loses
<1>10. RoundInv'
  BY <1>6 DEF RoundInv, Loses, Protocol
<1>11. PastInv'
  <2>1. Newer' \in SUBSET Newer /\ NewerJob' \in SUBSET NewerJob
    BY <1>1, MoreTries DEF Loses
  <2>2. None(Qs', Newer) /\ None(Qm', Newer) /\ None(Js', NewerJob)
    BY <1>2, <1>3, <1>4 DEF PastInv, Protocol
  <2>3. None(Qs', Newer') /\ None(Qm', Newer') /\ None(Js', NewerJob')
    BY <2>1, <2>2 DEF None
  <2>4. ~session'["slave"] => Js' = <<>>
    BY DEF PastInv, Protocol, Loses, SlaveSame
  <2> QED
    BY <2>3, <2>4 DEF PastInv
<1> QED
  BY <1>7, <1>8, <1>9, <1>10, <1>11 DEF Protocol

(* The steps that lose something and do nothing else.                      *)
LEMMA Lossy ==
    ASSUME Sound, Sound', Protocol,
           \/ SlaveTimeout \/ LinkDown \/ LinkUp \/ UNCHANGED vars
           \/ \E b \in Bud : Repeat(b) \/ Handle(b) \/ Reset(b)
           \/ Request /\ pc' = "idle"
           \/ FileEnd /\ pc' = "idle" /\ UNCHANGED flash
           \/ (StartWaits \/ VerifyWaits \/ BootWaits) /\ pc' = "idle" /\ UNCHANGED flash
    PROVE  Loses
<1> USE DEF link, service, wait, flash, bounds
<1>0. /\ FlashTypes /\ LinkTypes /\ Queues /\ last \in Numbers /\ tries \in Nat /\ tries' \in Nat
      /\ "master" \in Bud /\ "slave" \in Bud
  BY QueueTypes, Types DEF Sound, EventTypes, Bud
<1>1. UNCHANGED inbox => Less(Qs, Qs') /\ Less(Qm, Qm')
  BY DEF Less, Q, Qs, Qm
<1>2. UNCHANGED <<session, image, jobs, boot>> =>
         SlaveSame /\ Js' = Js /\ image'["master"] = image["master"] /\ Jm' = Jm /\ boot' = boot
  BY DEF SlaveSame, Js, Jm
<1>3. ASSUME NEW b \in Bud, Exited(b), UNCHANGED <<inbox, pc, sem, info, round, tries>>
             \/ (UNCHANGED inbox /\ pc' = "idle" /\ round' = 0 /\ tries' = tries)
      PROVE Loses
  <2>1. OthersFlash(b) /\ ~session'[b] /\ image'[b] = image[b] /\ jobs'[b] = <<>> /\ boot' = boot
    BY <1>0, <1>3, Exits DEF Exited
  <2>2. (SlaveSame /\ Js' = Js) \/ (~session'["slave"] /\ Js' = <<>>)
    BY <1>0, <2>1 DEF OthersFlash, SlaveSame, Js, Bud
  <2>3. image'["master"] = image["master"] /\ (Jm' = Jm \/ Jm' = <<>>)
    BY <1>0, <2>1 DEF OthersFlash, Jm, Bud
  <2> QED
    BY <1>0, <1>1, <1>3, <2>1, <2>2, <2>3 DEF Loses
<1>4. ASSUME NEW b \in Bud, Restarts(b), tries' = tries PROVE Loses
  <2>1. Fresher(b)
    BY <1>0, <1>4, StartsAgain
  <2>2. Less(Qs, Qs') /\ Less(Qm, Qm')
    BY <2>1 DEF Fresher, Less, Qs, Qm
  <2>3. CASE b = "slave"
    <3>1. ~session'["slave"] /\ Js' = <<>> /\ image'["master"] = image["master"] /\ Jm' = Jm
      BY <1>0, <2>1, <2>3 DEF Fresher, OthersFlash, Js, Jm
    <3> QED
      BY <1>0, <1>4, <2>1, <2>2, <2>3, <3>1 DEF Fresher, Loses
  <2>4. CASE b = "master"
    <3>1. SlaveSame /\ Js' = Js /\ Jm' = <<>>
      BY <1>0, <2>1, <2>4 DEF Fresher, OthersFlash, SlaveSame, Js, Jm
    <3> QED
      BY <1>0, <1>4, <2>1, <2>2, <2>4, <3>1 DEF Fresher, Loses
  <2> QED
    BY <2>3, <2>4 DEF Bud
<1>5. CASE SlaveTimeout
  BY <1>0, <1>3, <1>5 DEF SlaveTimeout
<1>6. CASE LinkDown
  <2>1. Qs' = <<>> /\ Qm' = <<>>
    BY <1>0, <1>6 DEF LinkDown, Q, Qs, Qm, Fresh
  <2> QED
    BY <1>0, <1>2, <1>6, <2>1 DEF LinkDown, Less, Loses
<1>7. CASE LinkUp \/ UNCHANGED vars
  BY <1>0, <1>1, <1>2, <1>7 DEF LinkUp, Loses, vars
<1>8. ASSUME NEW b \in Bud, Repeat(b) PROVE Loses
  <2>1. Less(Qs, Qs') /\ Less(Qm, Qm')
    BY <1>0, <1>8, Dropped DEF LinkTypes, Less, Qs, Qm, Bud
  <2> QED
    BY <1>0, <1>2, <1>8, <2>1 DEF Repeat, Loses
<1>9. ASSUME NEW b \in Bud, Handle(b) PROVE Loses
  <2>1. CASE Restarts(b) /\ UNCHANGED bounds
    BY <1>4, <2>1
  <2>2. CASE Exited(b) /\ UNCHANGED <<service, wait, sn, last, timer, link, bounds>>
    BY <1>3, <2>2
  <2> QED
    BY <1>9, <2>1, <2>2 DEF Handle
<1>10. ASSUME NEW b \in Bud, Reset(b) PROVE Loses
  BY <1>4, <1>10 DEF Reset
<1>11. CASE Request /\ pc' = "idle"
  <2>1. OthersFlash("master") /\ Jm' = <<>> /\ boot' = boot
    BY <1>0, <1>11, Opens, Refuses DEF Request, Opened, Jm
  <2>2. UNCHANGED inbox /\ round' = 0 /\ tries' = tries + 1
    BY <1>11 DEF Request
  <2>3. SlaveSame /\ Js' = Js
    BY <1>0, <2>1 DEF OthersFlash, SlaveSame, Js
  <2> QED
    BY <1>0, <1>1, <1>11, <2>1, <2>2, <2>3 DEF Loses
<1>12. CASE FileEnd /\ pc' = "idle" /\ UNCHANGED flash
  <2>1. UNCHANGED inbox /\ round' = 0 /\ tries' = tries + 1
    BY <1>12 DEF FileEnd, NotSent
  <2> QED
    BY <1>0, <1>1, <1>2, <1>12, <2>1 DEF Loses
<1>13. CASE (StartWaits \/ VerifyWaits \/ BootWaits) /\ pc' = "idle" /\ UNCHANGED flash
  <2>1. UNCHANGED <<inbox, tries>>
    BY <1>13 DEF StartWaits, VerifyWaits, ExitVerify, BootWaits, NotSent
  <2>2. round' = 0
    BY <1>13 DEF StartWaits, VerifyWaits, ExitVerify, BootWaits, RoundInv, Protocol
  <2> QED
    BY <1>0, <1>1, <1>2, <1>13, <2>1, <2>2 DEF Loses
<1> QED
  BY <1>5, <1>6, <1>7, <1>8, <1>9, <1>10, <1>11, <1>12, <1>13

-----------------------------------------------------------------------------
(* The master's service outside its last two waits.                        *)
Unasked ==
    /\ round' = 0 /\ Jm' = <<>> /\ boot' = boot /\ SlaveSame /\ Js' = Js /\ Qm' = Qm
    /\ tries' \in Nat /\ tries' >= tries
    /\ Qs' = Qs \/ \E m \in Message : m.at = 0 /\ Qs' = Append(Qs, m)

LEMMA UnaskedKeeps ==
    ASSUME Sound, Protocol, Unasked
    PROVE  Protocol'
<1>1. Qs \in Seq(Message) /\ tries \in Nat
  BY QueueTypes
<1>2. WaitInv' /\ OwnInv' /\ RoundInv'
  BY Nothing DEF WaitInv, OwnInv, RoundInv, Unasked
<1>3. \A m \in Message : m.at = 0 => m \notin SureBoot /\ m \notin Newer
  BY <1>1 DEF SureBoot, Newer
<1>4. \A X : (\A m \in Message : m.at = 0 => m \notin X) =>
                (None(Qs, X) => None(Qs', X)) /\ (OnlyFirst(Qs, X) => OnlyFirst(Qs', X))
  BY <1>1, AppendFacts DEF Unasked
<1>5. Whole("slave")' <=> Whole("slave")
  BY IntactKept DEF Unasked
<1>6. SlaveIntact' <=> SlaveIntact
  BY IntactKept DEF Unasked
<1>7. SureInv'
  <2>1. SureBoot' = SureBoot /\ SureBurn' = SureBurn /\ Js' = Js
    BY DEF SureBoot, SureBurn, Unasked
  <2> QED
    BY <1>3, <1>4, <1>5, <1>6, <2>1 DEF SureInv, Protocol
<1>8. PastInv'
  <2>1. Newer' \in SUBSET Newer /\ NewerJob' \in SUBSET NewerJob
    BY <1>1, MoreTries DEF Unasked
  <2>2. None(Qs', Newer) /\ None(Qm', Newer) /\ None(Js', NewerJob)
    BY <1>3, <1>4 DEF PastInv, Protocol, Unasked
  <2>3. None(Qs', Newer') /\ None(Qm', Newer') /\ None(Js', NewerJob')
    BY <2>1, <2>2 DEF None
  <2> QED
    BY <2>3 DEF PastInv, Protocol, Unasked, SlaveSame
<1> QED
  BY <1>2, <1>7, <1>8 DEF Protocol

LEMMA ServiceUnasked ==
    ASSUME Sound, Sound', Protocol, [Next]_vars,
           \/ Request /\ pc' = "START"
           \/ StartWaits /\ pc' = "ready"
           \/ Write \/ Stop \/ DataStopped \/ DataWaits \/ StopWaits
    PROVE  Unasked
<1> USE DEF link, service, wait, flash, bounds
<1>0. /\ FlashTypes /\ LinkTypes /\ Queues /\ ServiceTypes /\ tries \in Nat /\ tries' \in Nat
      /\ "master" \in Bud /\ "slave" \in Bud /\ 0 \in 0..MaxTries /\ 0 \in 0..Packets
  BY QueueTypes, Types DEF Sound, EventTypes, Bud
<1>1. pc \in {"START", "ready", "DATA", "stop"} => round = 0 /\ Jm = <<>>
  BY DEF Protocol, RoundInv, OwnInv
<1>2. ASSUME UNCHANGED inbox \/ \E kind \in Kind, value \in 0..Packets : Asks(kind, value, 0),
             UNCHANGED <<last, linked>>
      PROVE  Qm' = Qm /\ (Qs' = Qs \/ \E m \in Message : m.at = 0 /\ Qs' = Append(Qs, m))
  <2>1. CASE UNCHANGED inbox
    BY <2>1 DEF Q, Qs, Qm
  <2>2. ASSUME NEW kind \in Kind, NEW value \in 0..Packets, Asks(kind, value, 0)
        PROVE  Qm' = Qm /\ (Qs' = Qs \/ \E m \in Message : m.at = 0 /\ Qs' = Append(Qs, m))
    BY <1>0, <1>2, <2>2, AsksFacts DEF LinkTypes, Grows, Qs, Qm
  <2> QED
    BY <1>2, <2>1, <2>2
<1>3. "START" \in Kind /\ "DATA" \in Kind
  BY DEF Kind
<1>4. OthersFlash("master") => SlaveSame /\ Js' = Js
  BY <1>0 DEF OthersFlash, SlaveSame, Js
<1>5. UNCHANGED <<session, image, jobs, boot>> => SlaveSame /\ Js' = Js /\ Jm' = Jm /\ boot' = boot
  BY DEF SlaveSame, Js, Jm
<1>6. CASE Request /\ pc' = "START"
  <2>1. Opened("master") /\ Asks("START", 0, 0) /\ round' = 0 /\ tries' = tries + 1 /\ UNCHANGED <<last, linked>>
    BY <1>6 DEF Request
  <2>2. OthersFlash("master") /\ Jm' = <<>> /\ boot' = boot
    BY <1>0, <2>1, Opens DEF Opened, Jm
  <2>3. Qm' = Qm /\ (Qs' = Qs \/ \E m \in Message : m.at = 0 /\ Qs' = Append(Qs, m))
    BY <1>0, <1>2, <1>3, <2>1
  <2> QED
    BY <1>0, <1>4, <2>1, <2>2, <2>3 DEF Unasked
<1>7. CASE (StartWaits /\ pc' = "ready") \/ DataStopped
  <2>1. /\ pc \in {"START", "ready"} /\ round' = round /\ tries' = tries
        /\ UNCHANGED <<session, image, jobs, boot>> /\ UNCHANGED inbox /\ UNCHANGED <<last, linked>>
    BY <1>7 DEF StartWaits, DataStopped
  <2> QED
    BY <1>0, <1>1, <1>2, <1>5, <2>1 DEF Unasked
<1>8. CASE Write \/ Stop
  <2>1. /\ pc = "ready" /\ round' = round /\ tries' = tries /\ UNCHANGED inbox /\ UNCHANGED <<last, linked>>
        /\ UNCHANGED <<session, jobs, boot>> /\ image'["slave"] = image["slave"]
    BY <1>0, <1>8, OwnWritten DEF Write, Stop
  <2> QED
    BY <1>0, <1>1, <1>2, <2>1 DEF Unasked, SlaveSame, Js, Jm
<1>9. CASE DataWaits
  <2>1. passed + 1 \in 0..Packets
    BY <1>0, <1>9 DEF DataWaits, Sound, Places, ServiceTypes
  <2>2. /\ pc = "DATA" /\ round' = round /\ tries' = tries /\ UNCHANGED <<session, image, jobs, boot>>
        /\ UNCHANGED <<last, linked>> /\ (UNCHANGED inbox \/ Asks("DATA", passed + 1, 0))
    BY <1>9 DEF DataWaits, PassesOn
  <2>3. Qm' = Qm /\ (Qs' = Qs \/ \E m \in Message : m.at = 0 /\ Qs' = Append(Qs, m))
    BY <1>2, <1>3, <2>1, <2>2
  <2> QED
    BY <1>0, <1>1, <1>5, <2>2, <2>3 DEF Unasked
<1>10. CASE StopWaits
  <2>1. /\ pc = "stop" /\ round' = round /\ tries' = tries /\ Exited("master")
        /\ UNCHANGED <<last, linked>> /\ (UNCHANGED inbox \/ Asks("DATA", 0, 0))
    BY <1>10 DEF StopWaits, PassesOn
  <2>2. OthersFlash("master") /\ Jm' = <<>> /\ boot' = boot
    BY <1>0, <2>1, Exits DEF Exited, Jm
  <2>3. Qm' = Qm /\ (Qs' = Qs \/ \E m \in Message : m.at = 0 /\ Qs' = Append(Qs, m))
    BY <1>0, <1>2, <1>3, <2>1
  <2> QED
    BY <1>0, <1>1, <1>4, <2>1, <2>2, <2>3 DEF Unasked
<1> QED
  BY <1>6, <1>7, <1>8, <1>9, <1>10

-----------------------------------------------------------------------------
(* The end of an update.                                                   *)

LEMMA EndKeeps ==
    ASSUME Sound, Sound', Protocol, [Next]_vars, FileEnd
    PROVE  Protocol'
<1> USE DEF link
<1>0. /\ FlashTypes /\ LinkTypes /\ Queues /\ tries \in Nat /\ tries' \in Nat
      /\ Qs \in Seq(Message) /\ Qm \in Seq(Message) /\ Js \in Seq(Job) /\ Jm \in Seq(Job)
      /\ "master" \in Bud /\ 0 \in 0..Packets /\ tries' = tries + 1 /\ UNCHANGED <<last, linked>>
      /\ NextRound \in 0..MaxTries
  BY QueueTypes, Types DEF FileEnd, NextRound, Sound, EventTypes, Bud
<1>1. CASE pc' = "idle" /\ UNCHANGED flash
  BY <1>1, Lossy, LosesKeeps
<1>2. CASE Queued("master", ToBurn(0)) /\ pc' = "idle" /\ round' = 0 /\ UNCHANGED <<sem, sn, inbox>>
  <2>1. ToBurn(0) \in Job /\ ToBurn(0).what = "burn" /\ ToBurn(0).at = 0
    BY Jobs
  <2>2. /\ OthersFlash("master") /\ image'["master"] = image["master"] /\ boot'["master"] = boot["master"]
        /\ Jm' = IF session["master"] THEN Append(Jm, ToBurn(0)) ELSE Jm
    BY <1>0, <1>2, <2>1, Orders DEF Jm
  <2>3. SlaveSame /\ Js' = Js /\ boot' = boot /\ Qs' = Qs /\ Qm' = Qm
    BY <1>2, <2>2 DEF Queued, OthersFlash, SlaveSame, Js, Q, Qs, Qm, Bud
  <2>4. ToBurn(0) \notin NotBurn /\ ToBurn(0) \notin SureBurn
    BY <2>1 DEF NotBurn, SureBurn
  <2>5. /\ None(Jm', NotBurn)
        /\ None(Jm, SureBurn) => None(Jm', SureBurn)
    BY <1>0, <2>1, <2>2, <2>4, AppendFacts DEF OwnInv, Protocol
  <2>6. Settled' <=> Settled
    <3>1. Whole("master")' <=> Whole("master")
      BY <1>0, <2>2, WholeKept
    <3>2. SlaveIntact' <=> SlaveIntact
      BY <2>3, IntactKept
    <3>3. Noise' = Noise /\ Writing' = Writing
      BY DEF Noise, Writing
    <3> QED
      BY <2>3, <3>1, <3>2, <3>3 DEF Settled
  <2>7. OwnInv'
    <3>1. NotBurn' = NotBurn /\ SureBurn' = SureBurn
      BY DEF NotBurn, SureBurn
    <3> QED
      BY <1>2, <2>5, <2>6, <3>1 DEF OwnInv, Protocol
  <2>8. SureInv'
    <3>1. SureBoot' = SureBoot /\ SureBurn' = SureBurn
      BY DEF SureBoot, SureBurn
    <3>2. (SlaveIntact' <=> SlaveIntact) /\ (Whole("slave")' <=> Whole("slave"))
      BY <2>3, IntactKept
    <3> QED
      BY <2>3, <3>1, <3>2 DEF SureInv, Protocol
  <2>9. PastInv'
    <3>1. Newer' \in SUBSET Newer /\ NewerJob' \in SUBSET NewerJob
      BY <1>0, MoreTries
    <3>2. None(Qs', Newer') /\ None(Qm', Newer') /\ None(Js', NewerJob')
      BY <2>3, <3>1 DEF PastInv, Protocol, None
    <3> QED
      BY <2>3, <3>2 DEF PastInv, Protocol, SlaveSame
  <2> QED
    BY <1>2, <2>7, <2>8, <2>9 DEF Protocol, WaitInv, RoundInv
<1>3. CASE /\ linked /\ pc' = "VERIFY" /\ sem' = 0 /\ round' = NextRound
           /\ Asks("VERIFY", 0, NextRound) /\ UNCHANGED flash
  <2>1. PICK m \in Message : m.kind = "VERIFY" /\ m.at = round' /\ Qs' = Append(Qs, m)
    <3>1. "VERIFY" \in Kind
      BY DEF Kind
    <3> QED
      BY <1>0, <1>3, <3>1, AsksFacts DEF LinkTypes, Grows, Qs
  <2>2. Qm' = Qm
    <3>1. "VERIFY" \in Kind
      BY DEF Kind
    <3> QED
      BY <1>0, <1>3, <3>1, AsksFacts DEF LinkTypes, Qm
  <2>3. /\ SlaveSame /\ Js' = Js /\ Jm' = Jm /\ boot' = boot /\ image'["master"] = image["master"]
        /\ info' = info
    BY <1>3 DEF flash, SlaveSame, Js, Jm, FileEnd
  <2>4. (SlaveIntact' <=> SlaveIntact) /\ (Whole("slave")' <=> Whole("slave"))
    BY <2>3, IntactKept
  <2>5. RoundInv' /\ (round' # 0 => round' = tries + 1)
    BY <1>0, <1>3, <2>3 DEF NextRound, RoundInv
  <2>6. round' # 0 => Cur' \in SUBSET Newer /\ CurJob' \in SUBSET NewerJob
    BY <1>0, <2>5 DEF Cur, CurJob, Newer, NewerJob
  <2>7. WaitInv'
    <3> SUFFICES ASSUME round' # 0 PROVE Asked'
      BY DEF WaitInv
    <3>1. None(Qs, Cur') /\ None(Qm, Cur') /\ None(Js, CurJob')
      BY <2>6 DEF PastInv, Protocol, None
    <3>2. OnlyLast(Qs', Cur') /\ OnlyLast(Js, CurJob')
      BY <1>0, <2>1, <3>1, AppendFacts, NoneFacts
    <3> QED
      BY <1>3, <2>2, <2>3, <3>1, <3>2 DEF Asked
  <2>8. SureInv'
    <3>1. m \notin SureBoot /\ SureBoot' = SureBoot /\ SureBurn' = SureBurn
      BY <2>1 DEF SureBoot, SureBurn
    <3>2. OnlyFirst(Qs', SureBoot) /\ (None(Qs, SureBoot) => None(Qs', SureBoot))
      BY <1>0, <2>1, <3>1, AppendFacts DEF SureInv, Protocol
    <3> QED
      BY <2>3, <2>4, <3>1, <3>2 DEF SureInv, Protocol
  <2>9. OwnInv'
    <3>1. /\ m \notin Noise /\ Noise' = Noise /\ Writing' = Writing
          /\ NotBurn' = NotBurn /\ SureBurn' = SureBurn
      BY <2>1 DEF Noise, Writing, NotBurn, SureBurn
    <3>2. None(Qs, Noise) => None(Qs', Noise)
      BY <1>0, <2>1, <3>1, AppendFacts
    <3>3. Whole("master")' <=> Whole("master")
      BY <1>0, <2>3, WholeKept
    <3>4. Settled => Settled'
      BY <2>3, <2>4, <3>1, <3>2, <3>3 DEF Settled
    <3> QED
      BY <1>3, <2>3, <3>1, <3>4 DEF OwnInv, Protocol
  <2>10. PastInv'
    <3>1. Newer' \in SUBSET Newer /\ NewerJob' \in SUBSET NewerJob
      BY <1>0, MoreTries
    <3>2. None(Qs, Newer') /\ None(Qm, Newer') /\ None(Js, NewerJob')
      BY <3>1 DEF PastInv, Protocol, None
    <3>3. m \notin Newer'
      BY <1>0, <1>3, <2>1, <2>5 DEF Newer
    <3>4. None(Qs', Newer')
      BY <1>0, <2>1, <3>2, <3>3, AppendFacts
    <3> QED
      BY <2>2, <2>3, <3>2, <3>4 DEF PastInv, Protocol, SlaveSame
  <2> QED
    BY <2>5, <2>7, <2>8, <2>9, <2>10 DEF Protocol
<1> QED
  BY <1>1, <1>2, <1>3 DEF FileEnd

(* A wait of a round that ends on an answer ends on the right one.         *)
LEMMA RightAnswer ==
    ASSUME Protocol, sem # 0, pc \in {"VERIFY", "BOOT"}, round # 0
    PROVE  Told
  BY DEF Protocol, WaitInv, Asked, Answered

LEMMA VerifyKeeps ==
    ASSUME Sound, Sound', Protocol, [Next]_vars, VerifyWaits
    PROVE  Protocol'
<1> USE DEF link
<1>0. /\ FlashTypes /\ LinkTypes /\ Queues /\ tries \in Nat /\ ServiceTypes /\ round \in 0..MaxTries
      /\ Qs \in Seq(Message) /\ "BOOT" \in Kind /\ 0 \in 0..Packets /\ "master" \in Bud
  BY QueueTypes DEF ServiceTypes, Kind, Bud
<1>1. CASE pc' = "idle"
  BY <1>1, Lossy, LosesKeeps DEF VerifyWaits
<1>2. CASE pc' = "BOOT"
  <2>1. /\ pc = "VERIFY" /\ Asks("BOOT", 0, round) /\ round' = round /\ UNCHANGED <<last, linked, flash, info, tries>>
        /\ linked /\ (round # 0 => sem # 0 /\ sem' = sem - 1 /\ Whole("master"))
    BY <1>0, <1>2 DEF VerifyWaits, ExitVerify, Posted, bounds, RoundInv, Protocol, ServiceTypes
  <2>2. Qm' = Qm
    BY <1>0, <2>1, AsksFacts DEF LinkTypes, Qm
  <2>3. PICK m \in Message : m.kind = "BOOT" /\ m.at = round /\ Qs' = Append(Qs, m)
    BY <1>0, <2>1, AsksFacts DEF LinkTypes, Grows, Qs
  <2>4. SlaveSame /\ Js' = Js /\ Jm' = Jm /\ boot' = boot /\ image'["master"] = image["master"]
    BY <2>1 DEF flash, SlaveSame, Js, Jm
  <2>5. (SlaveIntact' <=> SlaveIntact) /\ (Whole("slave")' <=> Whole("slave"))
    BY <2>4, IntactKept
  <2>6. Whole("master")' <=> Whole("master")
    BY <1>0, <2>4, WholeKept
  <2>7. round # 0 => sem = 1 /\ sem' = 0 /\ Qs = <<>> /\ Js = <<>> /\ Qm = <<>> /\ SlaveIntact
    BY <2>1, RightAnswer DEF Told, Idle, Good
  <2>8. WaitInv'
    <3> SUFFICES ASSUME round # 0 PROVE Asked'
      BY <2>1 DEF WaitInv
    <3>1. None(Qm', Cur') /\ OnlyLast(Js', CurJob') /\ None(Js', CurJob') /\ None(Qs, Cur')
      BY <2>2, <2>4, <2>7, Nothing
    <3>2. OnlyLast(Qs', Cur')
      BY <1>0, <2>3, <3>1, AppendFacts
    <3> QED
      BY <2>7, <3>1, <3>2 DEF Asked
  <2>9. SureInv'
    <3>1. SureBoot' = SureBoot /\ SureBurn' = SureBurn /\ (round = 0 => m \notin SureBoot)
      BY <2>3 DEF SureBoot, SureBurn
    <3>2. /\ OnlyFirst(Qs', SureBoot)
          /\ round = 0 /\ None(Qs, SureBoot) => None(Qs', SureBoot)
      BY <1>0, <2>3, <2>7, <3>1, AppendFacts DEF SureInv, Protocol
    <3> QED
      BY <2>4, <2>5, <2>7, <3>1, <3>2 DEF SureInv, Protocol
  <2>10. OwnInv'
    <3>1. /\ m \notin Noise /\ Noise' = Noise /\ Writing' = Writing
          /\ NotBurn' = NotBurn /\ SureBurn' = SureBurn
      BY <2>3 DEF Noise, Writing, NotBurn, SureBurn
    <3>2. None(Qs, Noise) => None(Qs', Noise)
      BY <1>0, <2>3, <3>1, AppendFacts
    <3>3. Settled => Settled'
      BY <2>4, <2>5, <2>6, <3>1, <3>2 DEF Settled
    <3> QED
      BY <1>2, <2>4, <3>1, <3>3 DEF OwnInv, Protocol
  <2>11. RoundInv'
    BY <1>2, <2>1, <2>6 DEF RoundInv, Protocol
  <2>12. PastInv'
    <3>1. Newer' = Newer /\ NewerJob' = NewerJob
      BY <2>1, SameTries
    <3>2. m \notin Newer
      BY <1>0, <2>3 DEF Newer, RoundInv, Protocol
    <3>3. None(Qs', Newer)
      BY <1>0, <2>3, <3>2, AppendFacts DEF PastInv, Protocol
    <3> QED
      BY <2>2, <2>4, <3>1, <3>3 DEF PastInv, Protocol, SlaveSame
  <2> QED
    BY <2>8, <2>9, <2>10, <2>11, <2>12 DEF Protocol
<1> QED
  BY <1>1, <1>2 DEF VerifyWaits, ExitVerify

LEMMA BootKeeps ==
    ASSUME Sound, Sound', Protocol, BootWaits
    PROVE  Protocol'
<1> USE DEF link
<1>0. /\ FlashTypes /\ ServiceTypes /\ round \in 0..MaxTries /\ Jm \in Seq(Job) /\ "master" \in Bud
      /\ pc = "BOOT" /\ pc' = "idle" /\ round' = 0 /\ UNCHANGED <<inbox, tries>>
  BY QueueTypes DEF ServiceTypes, BootWaits, bounds, Bud
<1>1. CASE UNCHANGED flash
  BY <1>0, <1>1, Lossy, LosesKeeps
<1>2. CASE Posted /\ Queued("master", ToBurn(round))
  <2>1. ToBurn(round) \in Job /\ ToBurn(round).what = "burn" /\ ToBurn(round).at = round
    BY <1>0, Jobs
  <2>2. /\ OthersFlash("master") /\ image'["master"] = image["master"]
        /\ Jm' = IF session["master"] THEN Append(Jm, ToBurn(round)) ELSE Jm
    BY <1>0, <1>2, <2>1, Orders DEF Jm
  <2>3. SlaveSame /\ Js' = Js /\ boot' = boot /\ Qs' = Qs /\ Qm' = Qm
    BY <1>0, <1>2, <2>2 DEF Queued, OthersFlash, SlaveSame, Js, Q, Qs, Qm, Bud
  <2>4. (SlaveIntact' <=> SlaveIntact) /\ (Whole("slave")' <=> Whole("slave"))
    BY <2>3, IntactKept
  <2>5. Settled' <=> Settled
    <3>1. Whole("master")' <=> Whole("master")
      BY <1>0, <2>2, WholeKept
    <3>2. Noise' = Noise /\ Writing' = Writing
      BY DEF Noise, Writing
    <3> QED
      BY <2>3, <2>4, <3>1, <3>2 DEF Settled
  <2>6. round # 0 => Settled
    <3> SUFFICES ASSUME round # 0 PROVE Settled
      OBVIOUS
    <3>1. Told /\ Whole("master")
      <4>1. sem # 0
        BY <1>0, <1>2 DEF Posted, ServiceTypes
      <4> QED
        BY <1>0, <4>1, RightAnswer DEF RoundInv, Protocol
    <3> QED
      BY <1>0, <3>1, Nothing DEF Told, Idle, Good, Settled
  <2>7. OwnInv'
    <3>1. NotBurn' = NotBurn /\ SureBurn' = SureBurn
      BY DEF NotBurn, SureBurn
    <3>2. ToBurn(round) \notin NotBurn /\ (round = 0 => ToBurn(round) \notin SureBurn)
      BY <2>1 DEF NotBurn, SureBurn
    <3>3. None(Jm', NotBurn) /\ (round = 0 /\ None(Jm, SureBurn) => None(Jm', SureBurn))
      BY <1>0, <2>1, <2>2, <3>2, AppendFacts DEF OwnInv, Protocol
    <3> QED
      BY <1>0, <2>5, <2>6, <3>1, <3>3 DEF OwnInv, Protocol
  <2>8. SureInv'
    <3>1. SureBoot' = SureBoot /\ SureBurn' = SureBurn
      BY DEF SureBoot, SureBurn
    <3> QED
      BY <2>3, <2>4, <3>1 DEF SureInv, Protocol
  <2>9. PastInv'
    BY <1>0, <2>3, SameTries DEF PastInv, Protocol, SlaveSame
  <2> QED
    BY <1>0, <2>7, <2>8, <2>9 DEF Protocol, WaitInv, RoundInv
<1> QED
  BY <1>1, <1>2 DEF BootWaits

-----------------------------------------------------------------------------
(* Messages that are handled.                                              *)

LEMMA MasterTakesKeeps ==
    ASSUME Sound, Protocol, UNCHANGED <<flash, tries>>, NEW m, MasterTakes(m)
    PROVE  Protocol'
<1>0. Qm \in Seq(Message) /\ ServiceTypes /\ sem \in Nat
  BY QueueTypes DEF ServiceTypes
<1>1. /\ UNCHANGED <<pc, info, tries>> /\ sem' = sem + m.value /\ m \in Message /\ m.value \in {0, 1}
      /\ round' = IF m.value = 1 /\ ~Awaited(m) THEN 0 ELSE round
      /\ Qm # <<>> /\ m = Head(Qm) /\ Qm' = Tail(Qm) /\ Qs' = Qs
  BY DEF MasterTakes, service, Qs, Qm
<1>2. /\ Js' = Js /\ Jm' = Jm /\ boot' = boot /\ SlaveSame /\ image'["master"] = image["master"]
  BY DEF flash, Js, Jm, SlaveSame
<1>3. /\ (Whole("slave")' <=> Whole("slave")) /\ (SlaveIntact' <=> SlaveIntact)
      /\ (Whole("master")' <=> Whole("master"))
  BY <1>2, IntactKept, WholeKept DEF Bud
<1>4. \A X : /\ None(Qm, X) => None(Qm', X) /\ m \notin X
             /\ OnlyLast(Qm, X) => OnlyLast(Qm', X) /\ (m \in X => Qm' = <<>>)
  BY <1>0, <1>1, TailFacts, NoneFacts
<1>5. m \in Cur <=> Awaited(m)
  BY <1>1 DEF Cur, Awaited
<1>6. WaitInv'
  <2> SUFFICES ASSUME pc \in {"VERIFY", "BOOT"}, round' # 0 PROVE Asked' \/ Answered' \/ Told'
    BY <1>1 DEF WaitInv
  <2>1. round' = round /\ (m.value = 1 => m \in Cur)
    BY <1>1, <1>5
  <2>2. Cur' = Cur /\ CurYes' = CurYes /\ CurJob' = CurJob /\ (Good' <=> Good)
    BY <1>1, <1>2, <1>3, <2>1, SameRound DEF Good
  <2>3. Asked \/ Answered
    BY <1>1, <2>1 DEF WaitInv, Protocol, Told
  <2>4. CASE Asked
    BY <1>0, <1>1, <1>2, <1>4, <2>1, <2>2, <2>4 DEF Asked
  <2>5. CASE Answered /\ m.value = 0
    BY <1>0, <1>1, <1>2, <1>4, <2>2, <2>5 DEF Answered, Idle
  <2>6. CASE Answered /\ m.value = 1
    <3>1. m \in Cur /\ m \in CurYes
      BY <2>1, <2>6 DEF Cur, CurYes
    <3> QED
      BY <1>0, <1>1, <1>2, <1>4, <2>2, <2>6, <3>1 DEF Answered, Told, Idle
  <2> QED
    BY <1>1, <2>3, <2>4, <2>5, <2>6
<1>7. SureInv'
  <2>1. SureBoot' = SureBoot /\ SureBurn' = SureBurn
    BY DEF SureBoot, SureBurn
  <2> QED
    BY <1>1, <1>2, <1>3, <2>1 DEF SureInv, Protocol
<1>8. OwnInv'
  <2>1. NotBurn' = NotBurn /\ SureBurn' = SureBurn /\ Noise' = Noise /\ Writing' = Writing
    BY DEF NotBurn, SureBurn, Noise, Writing
  <2>2. Settled' <=> Settled
    BY <1>1, <1>2, <1>3, <2>1 DEF Settled
  <2> QED
    BY <1>1, <1>2, <2>1, <2>2 DEF OwnInv, Protocol
<1>9. RoundInv'
  BY <1>1, <1>3 DEF RoundInv, Protocol
<1>10. PastInv'
  BY <1>1, <1>2, <1>4, SameTries DEF PastInv, Protocol, SlaveSame
<1> QED
  BY <1>6, <1>7, <1>8, <1>9, <1>10 DEF Protocol

(* What the master may be sent by a step of the slave.                     *)
Reply(kind, value, at) ==
    \/ Qm' = Qm
    \/ \E m \in Message : m.kind = kind /\ m.value = value /\ m.at = at /\ Qm' = Append(Qm, m)

LEMMA GrowsReply ==
    ASSUME NEW kind, NEW value, NEW at, Grows("master", kind, value, at)
    PROVE  Reply(kind, value, at)
  BY DEF Grows, Reply, Qm

LEMMA ReplyFacts ==
    ASSUME Qm \in Seq(Message), NEW kind, NEW value, NEW at, Reply(kind, value, at), NEW X
    PROVE  /\ None(Qm, X) => OnlyLast(Qm', X)
           /\ None(Qm, X) /\ (\A m \in Message : m.kind = kind /\ m.value = value /\ m.at = at => m \notin X)
                => None(Qm', X)
<1>1. CASE Qm' = Qm
  BY <1>1, NoneFacts
<1>2. CASE \E m \in Message : m.kind = kind /\ m.value = value /\ m.at = at /\ Qm' = Append(Qm, m)
  BY <1>2, AppendFacts
<1> QED
  BY <1>1, <1>2 DEF Reply

(* A step of the slave: what it has to show for the protocol to be kept.   *)
LEMMA SlaveStep ==
    ASSUME Protocol, UNCHANGED <<pc, sem, round, info, tries>>, Jm' = Jm,
           image'["master"] = image["master"],
           pc \in {"VERIFY", "BOOT"} /\ round # 0 => Asked' \/ Answered' \/ Told',
           SureInv', Settled /\ ~None(Jm, SureBurn) => Settled', PastInv'
    PROVE  Protocol'
<1>1. NotBurn' = NotBurn /\ SureBurn' = SureBurn
  BY DEF NotBurn, SureBurn
<1>2. Whole("master")' <=> Whole("master")
  BY WholeKept DEF Bud
<1>3. OwnInv'
  BY <1>1 DEF OwnInv, Protocol
<1>4. RoundInv' /\ WaitInv'
  BY <1>2 DEF RoundInv, WaitInv, Protocol
<1> QED
  BY <1>3, <1>4 DEF Protocol

LEMMA SlaveTakesKeeps ==
    ASSUME Sound, Protocol, tries' = tries, NEW m, SlaveTakes(m)
    PROVE  Protocol'
<1>0. /\ FlashTypes /\ Qs \in Seq(Message) /\ Qm \in Seq(Message) /\ Js \in Seq(Job)
      /\ tries \in Nat /\ "slave" \in Bud /\ "master" \in Bud
  BY QueueTypes DEF Bud
<1>1. /\ UNCHANGED <<pc, sem, round, info>> /\ m \in Message
      /\ Qs # <<>> /\ m = Head(Qs) /\ Qs' = Tail(Qs)
  BY DEF SlaveTakes, service, wait, Qs
<1>2. \A X : /\ None(Qs, X) => None(Qs', X) /\ m \notin X
             /\ OnlyLast(Qs, X) => OnlyLast(Qs', X) /\ (m \in X => Qs' = <<>>)
             /\ OnlyFirst(Qs, X) => None(Qs', X) /\ OnlyFirst(Qs', X)
  BY <1>0, <1>1, TailFacts, NoneFacts
<1>3. /\ Cur' = Cur /\ CurYes' = CurYes /\ CurJob' = CurJob /\ SureBoot' = SureBoot /\ SureBurn' = SureBurn
      /\ Noise' = Noise /\ Writing' = Writing /\ Newer' = Newer /\ NewerJob' = NewerJob
  BY <1>1, SameRound, SameTries DEF SureBoot, SureBurn, Noise, Writing
<1>4. None(Qs', SureBoot) /\ OnlyFirst(Qs', SureBoot)
  BY <1>2 DEF SureInv, Protocol
<1>5. None(Qs', Newer) /\ m.at <= tries
  <2>1. None(Qs', Newer) /\ m \notin Newer
    BY <1>2 DEF PastInv, Protocol
  <2>2. m.at \in Nat
    BY <1>1 DEF Message
  <2> QED
    BY <1>0, <1>1, <2>1, <2>2 DEF Newer
<1>6. pc \in {"VERIFY", "BOOT"} /\ round # 0 => Asked /\ None(Js, CurJob)
  BY <1>1 DEF Protocol, WaitInv, Asked, Answered, Told, Idle
<1>7. Settled => m \notin Noise /\ None(Qs', Noise)
  BY <1>2 DEF Settled
<1>8. OnlyFirst(Js, SureBurn) /\ (None(Js, SureBurn) \/ Whole("slave")) /\ None(Js, NewerJob)
  BY DEF Protocol, SureInv, PastInv
<1>9. /\ m.at \in 0..MaxTries /\ m.value \in 0..Packets
      /\ ToWrite(m.value) \in Job /\ ToVerify(m.at) \in Job /\ ToBurn(m.at) \in Job
  BY <1>1, Jobs DEF Message
<1>10. OthersFlash("slave") => Jm' = Jm /\ image'["master"] = image["master"]
  BY <1>0 DEF OthersFlash, Jm
<1>11. ASSUME m.kind = "START", Opened("slave"), NEW value \in {0, 1}, Grows("master", "START", value, 0)
       PROVE  Protocol'
  <2>1. OthersFlash("slave") /\ session'["slave"] /\ Js' = <<>>
    BY <1>0, <1>11, Opens DEF Js
  <2>2. Reply("START", value, 0)
    BY <1>11, GrowsReply
  <2>3. \A X : (\A a \in Message : a.kind = "START" /\ a.at = 0 => a \notin X) /\ None(Qm, X) => None(Qm', X)
    BY <1>0, <2>2, ReplyFacts
  <2>4. pc \in {"VERIFY", "BOOT"} /\ round # 0 => Asked'
    BY <1>1, <1>2, <1>3, <1>6, <2>1, <2>3, Nothing DEF Asked, Cur
  <2>5. SureInv'
    BY <1>3, <1>4, <2>1, Nothing DEF SureInv
  <2>6. ~Settled
    BY <1>1, <1>7, <1>11 DEF Noise
  <2>7. PastInv'
    <3>1. None(Qm', Newer)
      BY <1>0, <2>3 DEF PastInv, Protocol, Newer
    <3> QED
      BY <1>3, <1>5, <2>1, <3>1, Nothing DEF PastInv
  <2> QED
    BY <1>1, <1>10, <2>1, <2>4, <2>5, <2>6, <2>7, SlaveStep
<1>12. ASSUME NEW job \in Job, Queued("slave", job), session["slave"] \/ job.what # "verify", Qm' = Qm,
              job.at <= tries, job \in CurJob /\ pc \in {"VERIFY", "BOOT"} /\ round # 0 => m \in Cur,
              job \in SureBurn => m \in SureBoot, job \in Writing => m \in Noise
       PROVE  Protocol'
  <2>1. /\ OthersFlash("slave") /\ SlaveSame /\ boot' = boot
        /\ Js' = IF session["slave"] THEN Append(Js, job) ELSE Js
    BY <1>0, <1>12, Orders DEF Js, SlaveSame, Queued
  <2>2. (Whole("slave")' <=> Whole("slave")) /\ (SlaveIntact' <=> SlaveIntact)
    BY <2>1, IntactKept
  <2>3. \A X : None(Js, X) => OnlyLast(Js', X) /\ (job \notin X => None(Js', X))
    BY <1>0, <1>12, <2>1, AppendFacts, NoneFacts
  <2>4. pc \in {"VERIFY", "BOOT"} /\ round # 0 => Asked'
    <3> SUFFICES ASSUME pc \in {"VERIFY", "BOOT"}, round # 0 PROVE Asked'
      OBVIOUS
    <3>1. OnlyLast(Js', CurJob) /\ (job \notin CurJob => None(Js', CurJob))
      BY <1>6, <2>3
    <3>2. job \in CurJob => Qs' = <<>>
      BY <1>2, <1>6, <1>12 DEF Asked
    <3> QED
      BY <1>1, <1>2, <1>3, <1>6, <1>12, <3>1, <3>2 DEF Asked
  <2>5. SureInv'
    <3>1. CASE job \in SureBurn
      <4>1. m \in SureBoot
        BY <1>12, <3>1
      <4>2. Js = <<>> /\ SlaveIntact
        BY <1>2, <4>1 DEF SureInv, Protocol
      <4>3. OnlyFirst(Js', SureBurn)
        BY <1>0, <1>8, <1>12, <2>1, <4>2, AppendFacts
      <4>4. None(Js', SureBurn) \/ Whole("slave")
        BY <2>1, <4>2, Nothing DEF SlaveIntact
      <4> QED
        BY <1>3, <1>4, <2>2, <4>3, <4>4 DEF SureInv
    <3>2. CASE job \notin SureBurn
      <4>1. OnlyFirst(Js', SureBurn)
        BY <1>0, <1>8, <1>12, <2>1, <3>2, AppendFacts
      <4>2. None(Js', SureBurn) \/ Whole("slave")
        BY <1>8, <2>3, <3>2
      <4> QED
        BY <1>3, <1>4, <2>2, <4>1, <4>2 DEF SureInv
    <3> QED
      BY <3>1, <3>2
  <2>6. Settled => Settled'
    <3>1. Whole("master")' <=> Whole("master")
      BY <1>0, <1>10, <2>1, WholeKept
    <3>2. Settled => None(Js', Writing)
      BY <1>7, <1>12, <2>3 DEF Settled
    <3> QED
      BY <1>3, <1>7, <2>1, <2>2, <3>1, <3>2 DEF Settled
  <2>7. PastInv'
    <3>1. None(Js', NewerJob)
      <4>1. job \notin NewerJob
        BY <1>0, <1>12, Jobs DEF NewerJob
      <4> QED
        BY <1>8, <2>3, <4>1
    <3>2. ~session'["slave"] => Js' = <<>>
      BY <2>1 DEF PastInv, Protocol, SlaveSame
    <3> QED
      BY <1>3, <1>5, <1>12, <3>1, <3>2 DEF PastInv, Protocol
  <2> QED
    BY <1>1, <1>10, <2>1, <2>4, <2>5, <2>6, <2>7, SlaveStep
<1>13. ASSUME m.kind = "VERIFY", Queued("slave", ToVerify(m.at)), ~session["slave"],
              NEW value \in {0, 1}, Grows("master", "VERIFY", value, m.at)
       PROVE  Protocol'
  <2>1. /\ OthersFlash("slave") /\ SlaveSame /\ boot' = boot /\ Js' = Js /\ Js = <<>>
    BY <1>0, <1>9, <1>13, Orders DEF Js, SlaveSame, Queued, PastInv, Protocol
  <2>2. (Whole("slave")' <=> Whole("slave")) /\ (SlaveIntact' <=> SlaveIntact) /\ SlaveIntact
    BY <1>13, <2>1, IntactKept DEF SlaveIntact
  <2>3. Reply("VERIFY", value, m.at)
    BY <1>13, GrowsReply
  <2>4. \A X : /\ None(Qm, X) => OnlyLast(Qm', X)
               /\ (\A a \in Message : a.kind = "VERIFY" /\ a.at = m.at => a \notin X) /\ None(Qm, X) => None(Qm', X)
    BY <1>0, <2>3, ReplyFacts
  <2>5. pc \in {"VERIFY", "BOOT"} /\ round # 0 => Asked' \/ Answered'
    <3> SUFFICES ASSUME pc \in {"VERIFY", "BOOT"}, round # 0 PROVE Asked' \/ Answered'
      OBVIOUS
    <3>1. CASE m \in Cur
      <4>1. pc = "VERIFY" /\ Qs' = <<>>
        BY <1>2, <1>6, <1>13, <3>1 DEF Asked, Cur
      <4>2. Good'
        BY <1>1, <2>2, <4>1 DEF Good
      <4> QED
        BY <1>1, <1>3, <1>6, <2>1, <2>4, <4>1, <4>2 DEF Asked, Answered, Idle
    <3>2. CASE m \notin Cur
      <4>1. \A a \in Message : a.kind = "VERIFY" /\ a.at = m.at => a \notin Cur
        BY <1>1, <1>13, <3>2 DEF Cur
      <4> QED
        BY <1>1, <1>2, <1>3, <1>6, <2>1, <2>4, <4>1 DEF Asked
    <3> QED
      BY <3>1, <3>2
  <2>6. SureInv'
    BY <1>3, <1>4, <2>1, Nothing DEF SureInv
  <2>7. Settled => Settled'
    <3>1. Whole("master")' <=> Whole("master")
      BY <1>0, <1>10, <2>1, WholeKept
    <3> QED
      BY <1>3, <1>7, <2>1, <2>2, <3>1 DEF Settled
  <2>8. PastInv'
    <3>1. None(Qm', Newer)
      BY <1>0, <1>5, <1>9, <2>4 DEF PastInv, Protocol, Newer
    <3> QED
      BY <1>3, <1>5, <2>1, <3>1, Nothing DEF PastInv
  <2> QED
    BY <1>1, <1>10, <2>1, <2>5, <2>6, <2>7, <2>8, SlaveStep
<1>14. CASE m.kind = "DATA" /\ Queued("slave", ToWrite(m.value)) /\ Q("master")' = Q("master")
  <2>1. ToWrite(m.value).what = "write" /\ ToWrite(m.value).at = 0
    BY Jobs
  <2>2. ToWrite(m.value) \notin SureBurn /\ ToWrite(m.value) \notin CurJob /\ m \in Noise
    BY <1>1, <1>14, <2>1 DEF SureBurn, CurJob, Noise
  <2> QED
    BY <1>0, <1>9, <1>12, <1>14, <2>1, <2>2 DEF Qm
<1>15. CASE /\ m.kind = "VERIFY" /\ Queued("slave", ToVerify(m.at)) /\ session["slave"]
            /\ Q("master")' = Q("master")
  <2>1. ToVerify(m.at).what = "verify" /\ ToVerify(m.at).at = m.at
    BY Jobs
  <2>2. /\ ToVerify(m.at) \notin SureBurn /\ ToVerify(m.at) \notin Writing
        /\ ToVerify(m.at) \in CurJob /\ pc \in {"VERIFY", "BOOT"} => m \in Cur
    BY <1>1, <1>15, <2>1 DEF SureBurn, CurJob, Writing, Cur
  <2> QED
    BY <1>5, <1>9, <1>12, <1>15, <2>1, <2>2 DEF Qm
<1>16. CASE m.kind = "BOOT" /\ Queued("slave", ToBurn(m.at)) /\ Q("master")' = Q("master")
  <2>1. ToBurn(m.at).what = "burn" /\ ToBurn(m.at).at = m.at
    BY Jobs
  <2>2. /\ ToBurn(m.at) \in SureBurn => m \in SureBoot
        /\ ToBurn(m.at) \notin Writing
        /\ ToBurn(m.at) \in CurJob /\ pc \in {"VERIFY", "BOOT"} => m \in Cur
    BY <1>1, <1>16, <2>1 DEF SureBurn, SureBoot, CurJob, Writing, Cur
  <2> QED
    BY <1>5, <1>9, <1>12, <1>16, <2>1, <2>2 DEF Qm
<1> QED
  BY <1>11, <1>13, <1>14, <1>15, <1>16 DEF SlaveTakes

-----------------------------------------------------------------------------
(* The library's jobs.                                                     *)

LEMMA SlaveEndsKeeps ==
    ASSUME Sound, Protocol, tries' = tries, NEW job, SlaveEnds(job)
    PROVE  Protocol'
<1>0. /\ FlashTypes /\ Qs \in Seq(Message) /\ Qm \in Seq(Message) /\ Js \in Seq(Job)
      /\ tries \in Nat /\ "slave" \in Bud /\ "master" \in Bud
  BY QueueTypes DEF Bud
<1>1. /\ UNCHANGED <<pc, sem, round, info>> /\ job \in Job /\ session'["slave"] = session["slave"]
      /\ Js # <<>> /\ job = Head(Js) /\ Js' = Tail(Js) /\ Qs' = Qs
      /\ Jm' = Jm /\ image'["master"] = image["master"]
  BY DEF SlaveEnds, service, wait, Qs, Js, Jm
<1>2. \A X : /\ None(Js, X) => None(Js', X) /\ job \notin X
             /\ OnlyLast(Js, X) => OnlyLast(Js', X) /\ (job \in X => Js' = <<>>)
             /\ OnlyFirst(Js, X) => None(Js', X) /\ OnlyFirst(Js', X) /\ (job \notin X => None(Js, X))
  BY <1>0, <1>1, TailFacts, NoneFacts
<1>3. /\ Cur' = Cur /\ CurYes' = CurYes /\ CurJob' = CurJob /\ SureBoot' = SureBoot /\ SureBurn' = SureBurn
      /\ Noise' = Noise /\ Writing' = Writing /\ Newer' = Newer /\ NewerJob' = NewerJob
  BY <1>1, SameRound, SameTries DEF SureBoot, SureBurn, Noise, Writing
<1>4. pc \in {"VERIFY", "BOOT"} /\ round # 0 => Asked
  BY <1>1 DEF Protocol, WaitInv, Answered, Told, Idle
<1>5. SureInv'
  BY <1>1, <1>2, <1>3, NoneFacts DEF SureInv, Protocol
<1>6. job.at \in 0..MaxTries /\ job.at <= tries /\ session["slave"]
  <2>1. job \notin NewerJob
    BY <1>2 DEF PastInv, Protocol
  <2>2. job.at \in 0..MaxTries
    BY <1>1, Jobs
  <2> QED
    BY <1>0, <1>1, <2>1, <2>2 DEF NewerJob, PastInv, Protocol
<1>7. Whole("master")' <=> Whole("master")
  BY <1>0, <1>1, WholeKept
<1>8. Settled => None(Qs', Noise) /\ None(Js', Writing) /\ job \notin Writing /\ Whole("slave")
  BY <1>1, <1>2, <1>6 DEF Settled, SlaveIntact
<1>9. ASSUME NEW kind, NEW value, NEW at, Reply(kind, value, at), at \in 0..MaxTries, at <= tries
      PROVE  PastInv'
  <2>1. \A m \in Message : m.at = at => m \notin Newer
    BY <1>0, <1>9 DEF Newer
  <2>2. None(Qm', Newer)
    BY <1>0, <1>9, <2>1, ReplyFacts DEF PastInv, Protocol
  <2> QED
    BY <1>1, <1>2, <1>3, <2>2 DEF PastInv, Protocol
(* An answer to a question the master does not wait in: it goes on waiting. *)
<1>10. ASSUME NEW kind, NEW value, NEW at, Reply(kind, value, at),
              ~(kind = pc /\ at = round), pc \in {"VERIFY", "BOOT"}, round # 0
       PROVE  Asked'
  <2>1. \A m \in Message : m.kind = kind /\ m.value = value /\ m.at = at => m \notin Cur
    BY <1>10 DEF Cur
  <2>2. None(Qm', Cur)
    BY <1>0, <1>4, <1>10, <2>1, ReplyFacts DEF Asked
  <2> QED
    BY <1>1, <1>2, <1>3, <1>4, <1>10, <2>2 DEF Asked
(* The answer the master waits for. *)
<1>11. ASSUME NEW kind, NEW value, NEW at, Reply(kind, value, at), job \in CurJob,
              pc \in {"VERIFY", "BOOT"}, round # 0, value = 1 => Good'
       PROVE  Answered'
  <2>1. Qs' = <<>> /\ Js' = <<>>
    BY <1>1, <1>2, <1>4, <1>11 DEF Asked
  <2>2. OnlyLast(Qm', Cur)
    BY <1>0, <1>4, <1>11, ReplyFacts DEF Asked
  <2>3. None(Qm', CurYes) \/ Good'
    <3>1. CASE value = 1
      BY <1>11, <3>1
    <3>2. CASE value # 1
      <4>1. \A m \in Message : m.kind = kind /\ m.value = value /\ m.at = at => m \notin CurYes
        BY <3>2 DEF CurYes
      <4>2. None(Qm, CurYes)
        BY <1>0, <1>4, <1>11, NoneFacts DEF Asked, Cur, CurYes
      <4> QED
        BY <1>0, <1>11, <4>1, <4>2, ReplyFacts
    <3> QED
      BY <3>1, <3>2
  <2> QED
    BY <1>1, <1>3, <1>4, <1>11, <2>1, <2>2, <2>3 DEF Answered, Idle, Asked
<1>12. ASSUME SlaveSame, boot' = boot
       PROVE  Settled => Settled'
  BY <1>1, <1>3, <1>7, <1>8, <1>12, IntactKept DEF Settled
<1>13. CASE job.what = "write" /\ boot' = boot /\ Grows("master", "DATA", 1, 0)
  <2>1. Reply("DATA", 1, 0)
    BY <1>13, GrowsReply
  <2>2. pc \in {"VERIFY", "BOOT"} /\ round # 0 => Asked'
    BY <1>10, <2>1
  <2>3. PastInv'
    BY <1>0, <1>9, <2>1
  <2>4. ~Settled
    BY <1>1, <1>8, <1>13 DEF Writing
  <2> QED
    BY <1>1, <1>5, <2>2, <2>3, <2>4, SlaveStep
<1>14. CASE /\ job.what = "verify" /\ boot' = boot /\ image' = image
            /\ Grows("master", "VERIFY", IF Whole("slave") THEN 1 ELSE 0, job.at)
  <2>0. SlaveSame
    BY <1>1, <1>14 DEF SlaveSame
  <2>1. Reply("VERIFY", IF Whole("slave") THEN 1 ELSE 0, job.at)
    BY <1>14, GrowsReply
  <2>2. pc \in {"VERIFY", "BOOT"} /\ round # 0 => Asked' \/ Answered'
    <3> SUFFICES ASSUME pc \in {"VERIFY", "BOOT"}, round # 0 PROVE Asked' \/ Answered'
      OBVIOUS
    <3>1. CASE pc = "VERIFY" /\ job.at = round
      <4>1. job \in CurJob
        BY <1>1, <1>14, <3>1 DEF CurJob
      <4>2. (IF Whole("slave") THEN 1 ELSE 0) = 1 => Good'
        BY <1>1, <2>0, <3>1, IntactKept DEF Good, SlaveIntact
      <4> QED
        BY <1>11, <2>1, <4>1, <4>2
    <3>2. CASE ~(pc = "VERIFY" /\ job.at = round)
      BY <1>10, <2>1, <3>2
    <3> QED
      BY <3>1, <3>2
  <2>3. PastInv'
    BY <1>6, <1>9, <2>1
  <2> QED
    BY <1>1, <1>5, <1>12, <1>14, <2>0, <2>2, <2>3, SlaveStep
<1>15. CASE job.what = "burn" /\ Burnt("slave") /\ image' = image /\ Grows("master", "BOOT", 1, job.at)
  <2>0. SlaveSame /\ (SlaveIntact' <=> SlaveIntact)
    BY <1>1, <1>15, IntactKept DEF SlaveSame
  <2>1. Reply("BOOT", 1, job.at)
    BY <1>15, GrowsReply
  <2>2. Whole("slave") => boot'["slave"] = "new"
    BY <1>0, <1>15, BurntTypes
  <2>3. pc \in {"VERIFY", "BOOT"} /\ round # 0 => Asked' \/ Answered'
    <3> SUFFICES ASSUME pc \in {"VERIFY", "BOOT"}, round # 0 PROVE Asked' \/ Answered'
      OBVIOUS
    <3>1. CASE pc = "BOOT" /\ job.at = round
      <4>1. job \in CurJob /\ job \in SureBurn
        BY <1>1, <1>15, <3>1 DEF CurJob, SureBurn
      <4>2. Whole("slave")
        BY <1>2, <4>1 DEF SureInv, Protocol
      <4>3. Good'
        BY <2>0, <2>2, <4>2 DEF Good, SlaveIntact
      <4> QED
        BY <1>11, <2>1, <4>1, <4>3
    <3>2. CASE ~(pc = "BOOT" /\ job.at = round)
      BY <1>10, <2>1, <3>2
    <3> QED
      BY <3>1, <3>2
  <2>4. PastInv'
    BY <1>6, <1>9, <2>1
  <2>5. Settled => Settled'
    BY <1>1, <1>3, <1>7, <1>8, <2>0, <2>2 DEF Settled
  <2> QED
    BY <1>1, <1>5, <1>15, <2>0, <2>3, <2>4, <2>5, SlaveStep
<1>16. CASE job.what = "burn" /\ boot' = boot /\ image' = image /\ Q("master")' = Q("master")
  <2>0. SlaveSame
    BY <1>1, <1>16 DEF SlaveSame
  <2>1. Qm' = Qm
    BY <1>16 DEF Qm
  <2>2. pc \in {"VERIFY", "BOOT"} /\ round # 0 => Asked'
    BY <1>1, <1>2, <1>3, <1>4, <2>1 DEF Asked
  <2>3. PastInv'
    BY <1>1, <1>2, <1>3, <2>1 DEF PastInv, Protocol
  <2> QED
    BY <1>1, <1>5, <1>12, <1>16, <2>0, <2>2, <2>3, SlaveStep
<1> QED
  BY <1>13, <1>14, <1>15, <1>16 DEF SlaveEnds

LEMMA MasterEndsKeeps ==
    ASSUME Sound, Protocol, tries' = tries, MasterEnds
    PROVE  Protocol'
<1>0. FlashTypes /\ Jm \in Seq(Job) /\ "slave" \in Bud /\ "master" \in Bud
  BY QueueTypes DEF Bud
<1>1. /\ UNCHANGED <<pc, sem, round, info, tries>> /\ Qs' = Qs /\ Qm' = Qm /\ Js' = Js /\ SlaveSame
      /\ Jm # <<>> /\ Jm' = Tail(Jm) /\ image' = image /\ boot'["slave"] = boot["slave"]
  BY <1>0, BurntTypes DEF MasterEnds, service, wait, Q, Qs, Qm, Js, Jm, SlaveSame
<1>2. \A X : None(Jm, X) => None(Jm', X)
  BY <1>0, <1>1, TailFacts
<1>3. /\ Cur' = Cur /\ CurYes' = CurYes /\ CurJob' = CurJob /\ SureBoot' = SureBoot /\ SureBurn' = SureBurn
      /\ Noise' = Noise /\ Writing' = Writing /\ Newer' = Newer /\ NewerJob' = NewerJob
      /\ NotBurn' = NotBurn
  BY <1>1, SameRound, SameTries DEF SureBoot, SureBurn, Noise, Writing, NotBurn
<1>4. /\ Whole("slave")' <=> Whole("slave")
      /\ Whole("master")' <=> Whole("master")
      /\ SlaveIntact' <=> SlaveIntact
  BY <1>0, <1>1, IntactKept, WholeKept
<1>5. WaitInv'
  <2>1. (Asked' <=> Asked) /\ (Answered' <=> Answered) /\ (Told' <=> Told)
    BY <1>1, <1>3, <1>4 DEF Asked, Answered, Told, Idle, Good
  <2> QED
    BY <1>1, <2>1 DEF WaitInv, Protocol
<1>6. SureInv'
  BY <1>1, <1>3, <1>4 DEF SureInv, Protocol
<1>7. OwnInv'
  <2>1. Settled' <=> Settled
    BY <1>1, <1>3, <1>4 DEF Settled
  <2> QED
    BY <1>1, <1>2, <1>3, <2>1 DEF OwnInv, Protocol
<1>8. RoundInv' /\ PastInv'
  BY <1>1, <1>3, <1>4 DEF RoundInv, PastInv, Protocol, SlaveSame
<1> QED
  BY <1>5, <1>6, <1>7, <1>8 DEF Protocol

-----------------------------------------------------------------------------
(* Every step.                                                             *)

Strong == Sound /\ Protocol

LEMMA InitStrong == Init => Strong
<1> SUFFICES ASSUME Init PROVE Strong
  OBVIOUS
<1>1. /\ Qs = <<>> /\ Qm = <<>> /\ Js = <<>> /\ Jm = <<>> /\ pc = "idle" /\ round = 0
  BY DEF Init, Q, Qs, Qm, Js, Jm, Fresh, Bud
<1> QED
  BY <1>1, InitSound, Nothing DEF Strong, Protocol, WaitInv, SureInv, OwnInv, RoundInv, PastInv

LEMMA NextStrong ==
    ASSUME Strong, [Next]_vars
    PROVE  Strong'
<1>1. Sound /\ Protocol /\ LinkTypes /\ FlashTypes /\ Queues /\ last \in Numbers
  BY Types DEF Strong, Sound
<1>2. Sound'
  BY <1>1, NextSound
<1> SUFFICES Protocol'
  BY <1>2 DEF Strong
<1>3. CASE \/ SlaveTimeout \/ LinkDown \/ LinkUp \/ UNCHANGED vars
           \/ \E b \in Bud : Repeat(b) \/ Handle(b) \/ Reset(b)
           \/ Request /\ pc' = "idle"
           \/ StartWaits /\ pc' = "idle"
  <2>1. StartWaits => UNCHANGED flash
    BY DEF StartWaits
  <2> QED
    BY <1>1, <1>2, <1>3, <2>1, Lossy, LosesKeeps
<1>4. CASE \/ Request /\ pc' = "START"
           \/ StartWaits /\ pc' = "ready"
           \/ Write \/ Stop \/ DataStopped \/ DataWaits \/ StopWaits
  BY <1>1, <1>2, <1>4, ServiceUnasked, UnaskedKeeps
<1>5. CASE FileEnd \/ VerifyWaits \/ BootWaits
  BY <1>1, <1>2, <1>5, EndKeeps, VerifyKeeps, BootKeeps
<1>6. CASE SlaveReceives
  <2>1. tries' = tries
    BY <1>6 DEF SlaveReceives, Takes
  <2> QED
    BY <1>1, <1>6, <2>1, SlaveReceipt, SlaveTakesKeeps
<1>7. CASE MasterReceives
  <2>1. UNCHANGED <<flash, tries>>
    BY <1>7 DEF MasterReceives, Takes
  <2> QED
    BY <1>1, <1>7, <2>1, MasterReceipt, MasterTakesKeeps
<1>8. ASSUME NEW b \in Bud, Works(b) PROVE Protocol'
  <2>1. tries' = tries
    BY <1>8 DEF Works, bounds
  <2> QED
    BY <1>1, <1>8, <2>1, SlaveWork, MasterWork, SlaveEndsKeeps, MasterEndsKeeps DEF Bud
<1>9. /\ Request => pc' = "idle" \/ pc' = "START"
      /\ StartWaits => pc' = "idle" \/ pc' = "ready"
  BY DEF Request, StartWaits
<1> QED
  BY <1>3, <1>4, <1>5, <1>6, <1>7, <1>8, <1>9 DEF Next, Service

(* Boot information is written over a whole image, the master's after the  *)
(* slave's, or the bud is loose.                                           *)
LEMMA StepPair ==
    ASSUME Strong, [Next]_vars
    PROVE  Pair!Next
<1> USE DEF flash
<1>1. /\ Sound /\ Protocol /\ LinkTypes /\ FlashTypes /\ Queues
      /\ Qs \in Seq(Message) /\ Js \in Seq(Job) /\ Jm \in Seq(Job)
      /\ "master" \in Bud /\ "slave" \in Bud
  BY QueueTypes DEF Strong, Bud
<1>2. Bud = Pair!Bud /\ (\A b \in Bud : Intact[b] = Whole(b))
  BY DEF Bud, Pair!Bud, Intact
<1>3. Intact' \in [Pair!Bud -> BOOLEAN] /\ Loose' \in SUBSET Pair!Bud
  BY <1>2 DEF Intact, Whole, Loose
<1>4. (boot' = boot \/ \E b \in Bud : Pair!Adopt(b) \/ Pair!Slip(b)) => Pair!Next
  BY <1>2, <1>3 DEF Pair!Next, Pair!Receive
<1>5. ASSUME Works("slave") PROVE Pair!Next
  <2> DEFINE job == Head(jobs["slave"])
  <2>1. SlaveEnds(job)
    BY <1>1, <1>5, SlaveWork
  <2> HIDE DEF job
  <2>2. job \in Job /\ Js # <<>> /\ job = Head(Js)
    BY <2>1 DEF SlaveEnds, Js, job
  <2>3. boot' = boot \/ (job.what = "burn" /\ Burnt("slave"))
    BY <2>1 DEF SlaveEnds
  <2>4. CASE job.what = "burn" /\ Burnt("slave") /\ job.at # 0
    <3>1. job \in SureBurn
      BY <2>2, <2>4 DEF SureBurn
    <3>2. Whole("slave")
      BY <1>1, <2>2, <3>1, NoneFacts DEF SureInv, Protocol
    <3>3. Pair!Adopt("slave")
      BY <1>1, <1>2, <2>4, <3>2 DEF Burnt, Pair!Adopt
    <3> QED
      BY <1>1, <1>4, <3>3
  <2>5. CASE job.what = "burn" /\ Burnt("slave") /\ job.at = 0
    <3>1. "slave" \in Loose
      BY <1>1, <2>2, <2>5 DEF Loose, Js
    <3>2. Pair!Slip("slave")
      BY <1>1, <1>2, <2>5, <3>1 DEF Burnt, Pair!Slip
    <3> QED
      BY <1>1, <1>4, <3>2
  <2> QED
    BY <1>4, <2>3, <2>4, <2>5
<1>6. ASSUME Works("master") PROVE Pair!Next
  <2> DEFINE job == Head(Jm)
  <2>1. Jm # <<>> /\ (boot' = boot \/ Burnt("master"))
    BY <1>1, <1>6, MasterWork DEF MasterEnds, Jm
  <2>2. job \in Job /\ job.what = "burn" /\ (job.at # 0 => Settled)
    <3>1. job \in Job /\ job \notin NotBurn /\ (job \in SureBurn => Settled)
      BY <1>1, <2>1, TailFacts, NoneFacts DEF OwnInv, Protocol
    <3> QED
      BY <3>1 DEF NotBurn, SureBurn
  <2> HIDE DEF job
  <2>3. CASE Burnt("master") /\ job.at # 0
    <3>1. Pair!Adopt("master")
      BY <1>1, <1>2, <2>2, <2>3 DEF Burnt, Settled, Pair!Adopt
    <3> QED
      BY <1>1, <1>4, <3>1
  <2>4. CASE Burnt("master") /\ job.at = 0
    <3>1. "master" \in Loose
      BY <1>1, <2>1, <2>2, <2>4 DEF Loose, Jm, job
    <3>2. Pair!Slip("master")
      BY <1>1, <1>2, <2>4, <3>1 DEF Burnt, Pair!Slip
    <3> QED
      BY <1>1, <1>4, <3>2
  <2> QED
    BY <1>4, <2>1, <2>3, <2>4
<1>7. CASE Request \/ Write \/ Stop \/ DataStopped \/ FileEnd \/ Service
  <2>1. boot' = boot
    BY <1>7 DEF Request, Opened, Refused, Write, Stop, WritesOwn, DataStopped, FileEnd, Queued, Service,
       StartWaits, DataWaits, StopWaits, Exited, VerifyWaits, BootWaits
  <2> QED
    BY <1>4, <2>1
<1>8. CASE SlaveReceives \/ MasterReceives \/ SlaveTimeout \/ LinkDown \/ LinkUp \/ UNCHANGED vars
  <2>1. SlaveReceives => boot' = boot
    BY DEF SlaveReceives, SlaveDoes, Start, Data, Verify, Boot, Opened, Queued
  <2>2. boot' = boot
    BY <1>8, <2>1 DEF MasterReceives, SlaveTimeout, Exited, LinkDown, LinkUp, vars
  <2> QED
    BY <1>4, <2>2
<1>9. ASSUME NEW b \in Bud, Repeat(b) \/ Handle(b) \/ Reset(b) PROVE Pair!Next
  BY <1>4, <1>9 DEF Repeat, Handle, Reset, Restarts, Exited
<1> QED
  BY <1>5, <1>6, <1>7, <1>8, <1>9 DEF Next, Bud

(* The update keeps what it promises: whatever the phone, the link, the    *)
(* flash, timeouts and resets do, a bud's boot information is written over *)
(* a whole image only, and the master's after the slave's                  *)
(* (update_tws_new.c: tws_ota_enter_verify, tws_ota_exit_verify), unless   *)
(* it is written on an answer to another question than the one it was      *)
(* asked, or on the end of an update that was not let start.               *)
THEOREM PairKept == Spec => ImplementsPairUpdate
<1>1. Init => Pair!Init
  <2> SUFFICES ASSUME Init PROVE Pair!Init
    OBVIOUS
  <2>1. Loose = {}
    BY DEF Init, Loose, Bud
  <2>2. Intact \in [Bud -> BOOLEAN]
    BY DEF Intact, Whole
  <2> QED
    BY <2>1, <2>2 DEF Init, Pair!Init, Pair!Bud, Bud
<1>2. Strong /\ [Next]_vars => Strong' /\ [Pair!Next]_(Pair!vars)
  BY NextStrong, StepPair
<1> QED
  BY <1>1, <1>2, InitStrong, PTL DEF Spec, ImplementsPairUpdate, Pair!Spec

-----------------------------------------------------------------------------
(* A slave in an update is on the clock of tws_ota_timeout.                *)

OnClock == session["slave"] \/ jobs["slave"] # <<>> => timer

LEMMA SameClock == ASSUME OnClock, UNCHANGED <<session, jobs, timer>> PROVE OnClock'
  BY DEF OnClock

LEMMA OthersClock ==
    ASSUME FlashTypes, OnClock, OthersFlash("master"), UNCHANGED timer PROVE OnClock'
  BY DEF OnClock, OthersFlash, Bud

LEMMA LeavesClock ==
    ASSUME FlashTypes, Exited("slave") PROVE OnClock'
  BY Exits DEF OnClock, Bud

LEMMA QueuedClock ==
    ASSUME FlashTypes, OnClock, NEW job, Queued("master", job), UNCHANGED timer PROVE OnClock'
  BY DEF OnClock, Queued, FlashTypes, Bud

LEMMA NextClock ==
    ASSUME FlashTypes, OnClock, [Next]_vars
    PROVE  OnClock'
<1> USE DEF flash
<1>0. "master" \in Bud /\ "slave" \in Bud /\ \A b \in Bud : b = "master" \/ b = "slave"
  BY DEF Bud
<1>1. CASE Request
  BY <1>0, <1>1, Opens, Refuses, OthersClock DEF Request
<1>2. CASE StartWaits \/ DataWaits \/ VerifyWaits
  BY <1>2, SameClock DEF StartWaits, DataWaits, VerifyWaits
<1>3. CASE Write \/ Stop \/ DataStopped
  BY <1>3, SameClock DEF Write, Stop, DataStopped, WritesOwn
<1>4. CASE StopWaits
  BY <1>0, <1>4, Exits, OthersClock DEF StopWaits
<1>5. CASE FileEnd \/ BootWaits
  <2>1. ASSUME Queued("master", ToBurn(0)) \/ Queued("master", ToBurn(round)), UNCHANGED timer PROVE OnClock'
    BY <1>0, <2>1, QueuedClock
  <2>2. ASSUME UNCHANGED flash, UNCHANGED timer PROVE OnClock'
    BY <2>2, SameClock
  <2> QED
    BY <1>5, <2>1, <2>2 DEF FileEnd, BootWaits
<1>6. CASE SlaveReceives
  BY <1>6 DEF SlaveReceives, OnClock
<1>7. CASE MasterReceives \/ LinkDown \/ LinkUp
  BY <1>7, SameClock DEF MasterReceives, LinkDown, LinkUp
<1>8. CASE SlaveTimeout
  BY <1>8, LeavesClock DEF SlaveTimeout
<1>9. ASSUME NEW b \in Bud, Repeat(b) PROVE OnClock'
  BY <1>9, SameClock DEF Repeat
<1>10. ASSUME NEW b \in Bud, Works(b) PROVE OnClock'
  <2>1. jobs[b] # <<>> /\ Finished(b) /\ UNCHANGED <<session, timer>>
    BY <1>10 DEF Works, SlaveWrites, SlaveVerifies, SlaveBurns, MasterBurns
  <2>2. jobs'["slave"] # <<>> => jobs["slave"] # <<>>
    BY <1>0, <2>1, JobEnds
  <2> QED
    BY <2>1, <2>2 DEF OnClock
<1>11. ASSUME NEW b \in Bud, Restarts(b) PROVE OnClock'
  <2>1. CASE b = "slave"
    BY <1>11, <2>1 DEF Restarts, OnClock, FlashTypes, Bud
  <2>2. CASE b = "master"
    <3>1. session'["slave"] = session["slave"] /\ jobs'["slave"] = jobs["slave"]
      BY <1>11, <2>2 DEF Restarts, FlashTypes, Bud
    <3>2. timer => timer'
      BY <1>11, <2>2 DEF Restarts
    <3> QED
      BY <3>1, <3>2 DEF OnClock
  <2> QED
    BY <1>0, <2>1, <2>2
<1>12. ASSUME NEW b \in Bud, Handle(b) PROVE OnClock'
  <2>1. CASE Restarts(b)
    BY <1>11, <2>1
  <2>2. CASE Exited(b) /\ UNCHANGED timer
    BY <1>0, <2>2, Exits, OthersClock, LeavesClock
  <2> QED
    BY <1>12, <2>1, <2>2 DEF Handle
<1>13. ASSUME NEW b \in Bud, Reset(b) PROVE OnClock'
  BY <1>11, <1>13 DEF Reset
<1>14. CASE UNCHANGED vars
  BY <1>14, SameClock DEF vars
<1> QED
  BY <1>1, <1>2, <1>3, <1>4, <1>5, <1>6, <1>7, <1>8, <1>9, <1>10, <1>12, <1>13, <1>14
  DEF Next, Service

(* A slave that is in an update, or has flash still to write for one, has  *)
(* the timer of tws_ota_timeout_reset running: whatever the master, the    *)
(* link and resets do, there is nothing in it that only the master could   *)
(* end. SlaveLeaves adds that the timer ends.                              *)
THEOREM AlwaysOnClock == Spec => []OnClock
<1>1. Init => OnClock
  BY DEF Init, OnClock, Bud
<1>2. Sound => FlashTypes
  BY Types DEF Sound
<1> QED
  BY <1>1, <1>2, InitSound, NextSound, NextClock, PTL DEF Spec
=============================================================================
