------------------------------ MODULE UpdateTws ------------------------------
(***************************************************************************)
(* Updating both earbuds at the same time (update_tws_new.c), driven by    *)
(* the phone's service of the LLSync build (ble_qiot_llsync_ota.c).        *)
(*                                                                         *)
(* The phone talks to the master. The master passes each packet on to the  *)
(* slave and waits for its answer on one semaphore, tws_ota_sem, which all *)
(* answers post, whatever they answer. In the end the slave verifies, then *)
(* writes its boot information, and then the master writes its own; one    *)
(* synchronised call resets both. The link between the buds keeps order,   *)
(* may go down with what it carries, and may hand a message over twice: a  *)
(* bud drops a message whose number is the one it handled last.            *)
(*                                                                         *)
(* The phone may ask for an update, or end one, at any moment. round, and  *)
(* the field at of messages and jobs, are history: which end of an update  *)
(* a question and its answer belong to. No action depends on them.         *)
(*                                                                         *)
(* The writing of flash is the dual-bank library's: one job after another, *)
(* each followed by a callback; nothing is done without an open session.   *)
(***************************************************************************)
EXTENDS Naturals, Sequences

CONSTANTS
    Packets,      \* packets of the image
    SnMod,        \* numbers of messages: 2^8
    MaxTries,     \* bound: updates the phone asks for, and ends
    MaxFaults,    \* bound: messages handed over twice, losses of the link, resets
    Flawed        \* buds whose flash may take a packet wrongly

ASSUME UpdateTwsAssumption ==
    /\ Packets \in Nat \ {0} /\ SnMod \in Nat \ {0, 1}
    /\ MaxTries \in Nat /\ MaxFaults \in Nat
    /\ Flawed \subseteq {"master", "slave"}

VARIABLES
    pc,           \* where the master's service is: idle, or in which wait
    sem,          \* tws_ota_sem
    pkt_flag,     \* PKT_FLAG_FIRST, or not
    passed,       \* packets passed on to the slave
    info,         \* sg_ota_info: zero, or of the file of an update that was let start
    api,          \* sg_ota_tws_same_api is set
    round,        \* history: the end the master waits in, 0 once its waits mean nothing
    sn, last,     \* sync_update_sn, last_sync_update_sn
    timer,        \* the slave's timer of tws_ota_timeout_reset
    session,      \* dual_bank_passive_update_init and not yet _exit
    image,        \* the packets written since then, 0 if wrongly
    jobs,         \* what the library still has to do
    boot,         \* what the bud boots next: "old", "new", "bad"
    events,       \* events for app_core: "detach", "err", "over"
    linked, inbox,      \* the link, and what it carries to each bud
    tries, faults           \* how often it has happened (bounded)

service == <<pc, pkt_flag, passed, info, api>>
wait == <<sem, round>>
flash == <<session, image, jobs, boot>>
link == <<linked, inbox>>
bounds == <<tries, faults>>
vars == <<service, wait, sn, last, timer, flash, events, link, bounds>>

Bud == {"master", "slave"}
Sibling(b) == CHOOSE c \in Bud : c # b

Kind == {"START", "DATA", "VERIFY", "BOOT"}
Message == [kind : Kind, rsp : BOOLEAN, value : 0..Packets, at : 0..MaxTries, sn : 0..SnMod-1, seen : BOOLEAN]
Job == [what : {"write", "verify", "burn"}, packet : 0..Packets, at : 0..MaxTries]
ToWrite(k) == [what |-> "write", packet |-> k, at |-> 0]
ToVerify(at) == [what |-> "verify", packet |-> 0, at |-> at]
ToBurn(at) == [what |-> "burn", packet |-> 0, at |-> at]

TypeOK ==
    /\ pc \in {"idle", "START", "ready", "DATA", "stop", "VERIFY", "BOOT"}
    /\ sem \in Nat /\ pkt_flag \in BOOLEAN /\ passed \in 0..Packets
    /\ info \in {"zero", "file"} /\ api \in BOOLEAN /\ round \in 0..MaxTries
    /\ sn \in [Bud -> 0..SnMod-1] /\ last \in [Bud -> 0..SnMod-1]
    /\ timer \in BOOLEAN
    /\ session \in [Bud -> BOOLEAN] /\ image \in [Bud -> Seq(0..Packets)]
    /\ jobs \in [Bud -> Seq(Job)] /\ boot \in [Bud -> {"old", "new", "bad"}]
    /\ events \in [Bud -> SUBSET {"detach", "err", "over"}]
    /\ linked \in BOOLEAN /\ inbox \in [Bud -> Seq(Message)]
    /\ tries \in 0..MaxTries /\ faults \in 0..MaxFaults

Whole(b) == image[b] = [k \in 1..Packets |-> k]

-----------------------------------------------------------------------------
(* Messages. A message sent without a link is lost, its number is used.    *)

NextSn(b) == (sn[b] + 1) % SnMod

SendTo(box, b, kind, rsp, value, at) ==
    IF ~linked THEN box
    ELSE [box EXCEPT ![Sibling(b)] =
             Append(@, [kind |-> kind, rsp |-> rsp, value |-> value, at |-> at,
                        sn |-> NextSn(b), seen |-> FALSE])]

Asks(kind, value, at) ==
    /\ inbox' = SendTo(inbox, "master", kind, FALSE, value, at)
    /\ sn' = [sn EXCEPT !["master"] = NextSn("master")]

(* OTA_TWS_CMD_SUCC is 1 here. *)
Answers(box, kind, value, at) ==
    /\ inbox' = SendTo(box, "slave", kind, TRUE, value, at)
    /\ sn' = [sn EXCEPT !["slave"] = NextSn("slave")]

(* os_sem_pend on tws_ota_sem: posted, or the time is up. *)
Posted == sem > 0 /\ sem' = sem - 1
TimeOut == sem = 0 /\ UNCHANGED sem

(* The master's task is free for the phone: in an update, or not. *)
Free == pc \in {"idle", "ready"}

-----------------------------------------------------------------------------
(* The library's session. *)

Opened(b) ==
    /\ session' = [session EXCEPT ![b] = TRUE]
    /\ image' = [image EXCEPT ![b] = <<>>]
    /\ jobs' = [jobs EXCEPT ![b] = <<>>]
    /\ UNCHANGED boot

(* dual_bank_passive_update_exit *)
Exited(b) ==
    /\ session' = [session EXCEPT ![b] = FALSE]
    /\ jobs' = [jobs EXCEPT ![b] = <<>>]
    /\ UNCHANGED <<image, boot>>

(* dual_bank_update_allow_check says no: what was opened is closed again. *)
Refused ==
    /\ session' = [session EXCEPT !["master"] = FALSE]
    /\ image' = [image EXCEPT !["master"] = <<>>]
    /\ jobs' = [jobs EXCEPT !["master"] = <<>>]
    /\ UNCHANGED boot

Queued(b, job) ==
    /\ jobs' = [jobs EXCEPT ![b] = IF session[b] THEN Append(@, job) ELSE @]
    /\ UNCHANGED <<session, image, boot>>

(* What flash holds after a packet was written. *)
Stored(b, k) == {k} \cup (IF b \in Flawed THEN {0} ELSE {})

-----------------------------------------------------------------------------
(* The master's service: one task, blocked in a wait or ready for the phone. *)

(* ble_ota_request_handle with ble_ota_is_enable and tws_ota_open: refused *)
(* by the library, which ends the session; refused without a link, which   *)
(* leaves it open; or the slave is asked.                                  *)
Request ==
    /\ Free /\ tries < MaxTries /\ tries' = tries + 1
    /\ passed' = 0 /\ info' = "zero" /\ round' = 0
    /\ \/ Refused /\ pc' = "idle" /\ UNCHANGED <<api, sem, sn, inbox>>
       \/ ~linked /\ Opened("master") /\ pc' = "idle" /\ api' = FALSE /\ UNCHANGED <<sem, sn, inbox>>
       \/ linked /\ Opened("master") /\ pc' = "START" /\ api' = TRUE /\ sem' = 0 /\ Asks("START", 0, 0)
    /\ UNCHANGED <<pkt_flag, last, timer, events, linked, faults>>

StartWaits ==
    /\ pc = "START"
    /\ \/ Posted /\ pc' = "ready" /\ info' = "file"
       \/ TimeOut /\ pc' = "idle" /\ UNCHANGED info
    /\ UNCHANGED <<pkt_flag, passed, api, round, sn, last, timer, flash, events, link, bounds>>

(* The master writes its own copy first, and waits until it is written. *)
WritesOwn ==
    /\ \E k \in Stored("master", passed + 1) :
         image' = [image EXCEPT !["master"] = IF session["master"] THEN Append(@, k) ELSE @]
    /\ UNCHANGED <<session, jobs, boot>>

(* ble_ota_write_data_to_flash with the next packet. *)
Write ==
    /\ pc = "ready" /\ passed < Packets
    /\ Len(image["master"]) <= Packets
    /\ WritesOwn
    /\ pc' = "DATA"
    /\ UNCHANGED <<pkt_flag, passed, info, api, wait, sn, last, timer, events, link, bounds>>

(* ble_ota_stop: the phone is gone. What has come is still written and     *)
(* passed on.                                                              *)
Stop ==
    /\ pc = "ready"
    /\ IF passed < Packets /\ Len(image["master"]) <= Packets THEN WritesOwn ELSE UNCHANGED flash
    /\ pc' = "stop"
    /\ UNCHANGED <<pkt_flag, passed, info, api, wait, sn, last, timer, events, link, bounds>>

(* ble_ota_timer_callback: the data stopped. The flags are cleared first,  *)
(* so ble_ota_stop does nothing and the master's session stays open.       *)
DataStopped ==
    /\ pc = "ready" /\ pc' = "idle"
    /\ UNCHANGED <<pkt_flag, passed, info, api, wait, sn, last, timer, flash, events, link, bounds>>

(* tws_ota_data_send_m_to_s: after the answer to the packet before.        *)
PassesOn(k) ==
    /\ IF pkt_flag THEN TRUE ELSE sem > 0
    /\ sem' = 0 /\ pkt_flag' = FALSE
    /\ Asks("DATA", k, 0)

DataWaits ==
    /\ pc = "DATA" /\ pc' = "ready"
    /\ \/ PassesOn(passed + 1) /\ passed' = passed + 1
       \/ ~pkt_flag /\ TimeOut /\ UNCHANGED <<passed, pkt_flag, sn, inbox>>
    /\ UNCHANGED <<info, api, round, last, timer, flash, events, linked, bounds>>

(* The end of ble_ota_stop: tws_ota_err posts an event to the master only. *)
StopWaits ==
    /\ pc = "stop" /\ pc' = "idle"
    /\ \/ PassesOn(0)
       \/ ~pkt_flag /\ TimeOut /\ UNCHANGED <<pkt_flag, sn, inbox>>
    /\ Exited("master")
    /\ events' = [events EXCEPT !["master"] = @ \cup {"err"}]
    /\ UNCHANGED <<passed, info, api, round, last, timer, linked, bounds>>

(* tws_ota_enter_verify and _exit_verify without a link: numbers are used. *)
NotSent(n) ==
    /\ sn' = [sn EXCEPT !["master"] = (@ + n) % SnMod]
    /\ UNCHANGED inbox

NextRound == IF info = "file" THEN tries + 1 ELSE 0

(* ble_ota_file_end_handle up to the wait of tws_ota_enter_verify, whether *)
(* an update is on or not, complete or not. Nobody waits for the answer to *)
(* the last packet. With sg_ota_info zero nothing is read and any outcome  *)
(* of the verification will do; without the slave there is none.           *)
FileEnd ==
    /\ Free /\ tries < MaxTries /\ tries' = tries + 1
    /\ \/ ~api /\ Queued("master", ToBurn(0)) /\ pc' = "idle" /\ round' = 0 /\ UNCHANGED <<sem, sn, inbox>>
       \/ /\ api /\ linked /\ pc' = "VERIFY" /\ sem' = 0
          /\ round' = NextRound /\ Asks("VERIFY", 0, NextRound) /\ UNCHANGED flash
       \/ /\ api /\ ~linked /\ pc' = "idle" /\ sem' = 0 /\ round' = 0
          /\ NotSent(IF info = "file" THEN 1 ELSE 2) /\ UNCHANGED flash
    /\ UNCHANGED <<pkt_flag, passed, info, api, last, timer, events, linked, faults>>

(* tws_ota_exit_verify does not clear the semaphore before it waits. *)
ExitVerify ==
    \/ linked /\ pc' = "BOOT" /\ Asks("BOOT", 0, round) /\ UNCHANGED round
    \/ ~linked /\ pc' = "idle" /\ NotSent(1) /\ round' = 0

VerifyWaits ==
    /\ pc = "VERIFY"
    /\ \/ info = "zero" /\ (Posted \/ TimeOut) /\ ExitVerify
       \/ info = "file" /\ Posted /\ Whole("master") /\ ExitVerify
       \/ /\ info = "file" /\ ((Posted /\ ~Whole("master")) \/ TimeOut)
          /\ pc' = "idle" /\ round' = 0 /\ UNCHANGED <<inbox, sn>>
    /\ UNCHANGED <<pkt_flag, passed, info, api, last, timer, flash, events, linked, bounds>>

(* Mutant: the master does not care for the slave's answer. *)
BootWaitsMutant ==
    /\ pc = "BOOT" /\ pc' = "idle" /\ round' = 0
    /\ (Posted \/ TimeOut) /\ Queued("master", ToBurn(round))
    /\ UNCHANGED <<pkt_flag, passed, info, api, sn, last, timer, events, link, bounds>>

BootWaits ==
    /\ pc = "BOOT" /\ pc' = "idle" /\ round' = 0
    /\ \/ Posted /\ Queued("master", ToBurn(round))
       \/ TimeOut /\ UNCHANGED flash
    /\ UNCHANGED <<pkt_flag, passed, info, api, sn, last, timer, events, link, bounds>>

-----------------------------------------------------------------------------
(* deal_sibling_tws_ota_trans. The link may hand the head over again.      *)

Rest(b) ==
    { [inbox EXCEPT ![b] = Tail(@)],
      [inbox EXCEPT ![b] = <<[Head(@) EXCEPT !.seen = TRUE]>> \o Tail(@)] }

Takes(b, box) ==
    /\ box \in Rest(b)
    /\ faults' = faults + (IF box[b] = Tail(inbox[b]) THEN 0 ELSE 1)
    /\ faults' <= MaxFaults
    /\ UNCHANGED tries

Arrives(b) == inbox[b] # <<>> /\ Head(inbox[b]).sn # last[b]

Repeat(b) ==
    /\ inbox[b] # <<>> /\ Head(inbox[b]).sn = last[b]
    /\ inbox' = [inbox EXCEPT ![b] = Tail(@)]
    /\ UNCHANGED <<service, wait, sn, last, timer, flash, events, linked, bounds>>

(* What the slave does with a message; box is what the link still carries. *)
Start(box) ==
    /\ Opened("slave")
    /\ \/ Answers(box, "START", 1, 0) /\ UNCHANGED events
       \/ Answers(box, "START", 0, 0) /\ events' = [events EXCEPT !["slave"] = @ \cup {"err"}]

Data(box, k) == Queued("slave", ToWrite(k)) /\ inbox' = box /\ UNCHANGED <<sn, events>>

(* A verification that cannot start is answered by two bytes: the third,   *)
(* which the master reads, is whatever its buffer holds.                   *)
Verify(box, at) ==
    /\ Queued("slave", ToVerify(at))
    /\ IF session["slave"] THEN inbox' = box /\ UNCHANGED sn
       ELSE \E garbage \in {0, 1} : Answers(box, "VERIFY", garbage, at)
    /\ UNCHANGED events

Boot(box, at) == Queued("slave", ToBurn(at)) /\ inbox' = box /\ UNCHANGED <<sn, events>>

SlaveDoes(m, box) ==
    \/ m.kind = "START" /\ Start(box)
    \/ m.kind = "DATA" /\ Data(box, m.value)
    \/ m.kind = "VERIFY" /\ Verify(box, m.at)
    \/ m.kind = "BOOT" /\ Boot(box, m.at)

(* Mutant: the start of an update does not start the timer. *)
SlaveReceivesMutant ==
    /\ Arrives("slave")
    /\ last' = [last EXCEPT !["slave"] = Head(inbox["slave"]).sn]
    /\ \E box \in Rest("slave") : Takes("slave", box) /\ SlaveDoes(Head(inbox["slave"]), box)
    /\ timer' = (timer \/ Head(inbox["slave"]).kind # "START")
    /\ UNCHANGED <<service, wait, linked>>

SlaveReceives ==
    /\ Arrives("slave")
    /\ last' = [last EXCEPT !["slave"] = Head(inbox["slave"]).sn]
    /\ \E box \in Rest("slave") : Takes("slave", box) /\ SlaveDoes(Head(inbox["slave"]), box)
    /\ timer' = TRUE
    /\ UNCHANGED <<service, wait, linked>>

(* What the master waits for; anything else that posts is counted for it.  *)
Awaited(m) == m.kind = pc /\ m.at = round

MasterReceives ==
    /\ Arrives("master")
    /\ last' = [last EXCEPT !["master"] = Head(inbox["master"]).sn]
    /\ sem' = sem + Head(inbox["master"]).value
    /\ round' = IF Head(inbox["master"]).value = 1 /\ ~Awaited(Head(inbox["master"])) THEN 0 ELSE round
    /\ \E box \in Rest("master") : Takes("master", box) /\ inbox' = box
    /\ UNCHANGED <<service, sn, timer, flash, events, linked>>

-----------------------------------------------------------------------------
(* The library finishes a job and calls back. *)

Finished(b) == jobs' = [jobs EXCEPT ![b] = Tail(@)]

SlaveWrites(k) ==
    /\ \E s \in Stored("slave", k) : image' = [image EXCEPT !["slave"] = Append(@, s)]
    /\ Answers(inbox, "DATA", 1, 0)
    /\ UNCHANGED <<session, boot, events>>

SlaveVerifies(at) ==
    /\ Answers(inbox, "VERIFY", IF Whole("slave") THEN 1 ELSE 0, at)
    /\ UNCHANGED <<session, image, boot, events>>

(* dual_bank_update_burn_boot_info_callback *)
Burnt(b) == boot' = [boot EXCEPT ![b] = IF Whole(b) THEN "new" ELSE "bad"]

SlaveBurns(at) ==
    /\ \/ Burnt("slave") /\ Answers(inbox, "BOOT", 1, at)
       \/ boot' = boot /\ inbox' = inbox /\ sn' = [sn EXCEPT !["slave"] = NextSn("slave")]
    /\ UNCHANGED <<session, image, events>>

(* tws_ota_result: SYNC_CMD_UPDATE_OVER and _ERR do the same. *)
MasterBurns ==
    /\ Burnt("master") \/ UNCHANGED boot
    /\ events' = [b \in Bud |-> IF linked \/ b = "master" THEN events[b] \cup {"over"} ELSE events[b]]
    /\ UNCHANGED <<session, image, inbox, sn>>

Works(b) ==
    /\ jobs[b] # <<>> /\ Finished(b)
    /\ \/ b = "slave" /\ Head(jobs[b]).what = "write" /\ SlaveWrites(Head(jobs[b]).packet)
       \/ b = "slave" /\ Head(jobs[b]).what = "verify" /\ SlaveVerifies(Head(jobs[b]).at)
       \/ b = "slave" /\ Head(jobs[b]).what = "burn" /\ SlaveBurns(Head(jobs[b]).at)
       \/ b = "master" /\ MasterBurns
    /\ UNCHANGED <<service, wait, last, timer, linked, bounds>>

-----------------------------------------------------------------------------
(* app_core, timers, the radio and the user. *)

(* cpu_reset. The sibling sees the link go. *)
Restarts(b) ==
    /\ session' = [session EXCEPT ![b] = FALSE]
    /\ image' = [image EXCEPT ![b] = <<>>]
    /\ jobs' = [jobs EXCEPT ![b] = <<>>]
    /\ sn' = [sn EXCEPT ![b] = 1] /\ last' = [last EXCEPT ![b] = 0]
    /\ linked' = FALSE /\ inbox' = [c \in Bud |-> <<>>]
    /\ events' = [c \in Bud |-> IF c = b THEN {} ELSE IF linked THEN events[c] \cup {"detach"} ELSE events[c]]
    /\ timer' = (timer /\ b # "slave")
    /\ IF b = "master" THEN /\ pc' = "idle" /\ passed' = 0 /\ pkt_flag' = TRUE
                            /\ info' = "zero" /\ api' = FALSE /\ sem' = 0 /\ round' = 0
       ELSE UNCHANGED <<service, wait>>
    /\ UNCHANGED boot

(* SYNC_CMD_UPDATE_OVER, and tws_ota_stop or bt_ota_event_handler. *)
Handle(b) ==
    \/ "over" \in events[b] /\ Restarts(b) /\ UNCHANGED bounds
    \/ /\ \E e \in {"detach", "err"} : e \in events[b] /\ events' = [events EXCEPT ![b] = @ \ {e}]
       /\ Exited(b)
       /\ UNCHANGED <<service, wait, sn, last, timer, link, bounds>>

(* tws_ota_timeout *)
SlaveTimeout ==
    /\ timer /\ timer' = FALSE
    /\ Exited("slave")
    /\ UNCHANGED <<service, wait, sn, last, events, link, bounds>>

LinkDown ==
    /\ linked /\ faults < MaxFaults /\ faults' = faults + 1
    /\ linked' = FALSE /\ inbox' = [b \in Bud |-> <<>>]
    /\ events' = [b \in Bud |-> events[b] \cup {"detach"}]
    /\ UNCHANGED <<service, wait, sn, last, timer, flash, tries>>

LinkUp ==
    /\ ~linked /\ linked' = TRUE
    /\ UNCHANGED <<service, wait, sn, last, timer, flash, events, inbox, bounds>>

Reset(b) ==
    /\ faults < MaxFaults /\ faults' = faults + 1
    /\ Restarts(b)
    /\ UNCHANGED tries

Init ==
    /\ pc = "idle" /\ pkt_flag = TRUE /\ passed = 0
    /\ info = "zero" /\ api = FALSE /\ sem = 0 /\ round = 0
    /\ sn = [b \in Bud |-> 1] /\ last = [b \in Bud |-> 0]
    /\ timer = FALSE
    /\ session = [b \in Bud |-> FALSE] /\ image = [b \in Bud |-> <<>>]
    /\ jobs = [b \in Bud |-> <<>>] /\ boot = [b \in Bud |-> "old"]
    /\ events = [b \in Bud |-> {}]
    /\ linked = TRUE /\ inbox = [b \in Bud |-> <<>>]
    /\ tries = 0 /\ faults = 0

Service == StartWaits \/ DataWaits \/ StopWaits \/ VerifyWaits \/ BootWaits

Next ==
    \/ Request \/ Write \/ Stop \/ DataStopped \/ FileEnd \/ Service
    \/ SlaveReceives \/ MasterReceives \/ SlaveTimeout
    \/ LinkDown \/ LinkUp
    \/ \E b \in Bud : Repeat(b) \/ Works(b) \/ Handle(b) \/ Reset(b)

(* The timer ends. Nothing is assumed of the service, the phone, the radio. *)
Fairness == WF_vars(SlaveTimeout)

Spec == Init /\ [][Next]_vars /\ Fairness

-----------------------------------------------------------------------------
(* The buds whose next job is to burn boot information that no answer to   *)
(* the question asked stands for: an answer that came late was counted for *)
(* another, or the end was one of an update that was not let start.        *)
Loose == {b \in Bud : jobs[b] # <<>> /\ Head(jobs[b]).what = "burn" /\ Head(jobs[b]).at = 0}

Intact == [b \in Bud |-> Whole(b)]

Pair == INSTANCE PairUpdate WITH Master <- "master", Slave <- "slave", whole <- Intact, loose <- Loose

(* The update implements what it promises: whatever the link, the phone    *)
(* and resets do, a bud boots a new image only if it has it whole, and the *)
(* master only if the slave boots it too, except when the boot information *)
(* is burnt on an answer to another question than the one it was asked     *)
(* (update_tws_new.c:219, 251) or on the end of an update that was not let *)
(* start (ble_qiot_llsync_ota.c:466). That the slave boots an image the    *)
(* master does not is allowed, and happens.                                *)
ImplementsPairUpdate == Pair!Spec

(* A slave does not stay in an update its master has given up or forgotten. *)
SlaveLeaves == session["slave"] ~> ~session["slave"]

(* update_tws_new.c:410: a message is dropped because it was handed over   *)
(* twice, not because its number happens to be the one of another.         *)
DropsOnlyRepeats == \A b \in Bud : inbox[b] # <<>> /\ ~Head(inbox[b]).seen => Head(inbox[b]).sn # last[b]
=============================================================================
