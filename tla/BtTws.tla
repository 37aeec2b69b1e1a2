------------------------------- MODULE BtTws -------------------------------
(***************************************************************************)
(* How the two earbuds of a pair find each other and the phone:            *)
(* apps/earphone/bt_tws.c, and the handlers of earphone.c that call it     *)
(* (TWS enabled, CONFIG_NEW_BREDR_ENABLE, pairing by CONFIG_TWS_PAIR_BY_   *)
(* AUTO with CONFIG_TWS_AUTO_PAIR_WITHOUT_UNPAIR, no test box).            *)
(*                                                                         *)
(* Each bud runs its handlers in its app_core task, one event at a time;   *)
(* the Bluetooth controllers of the two buds decide, concurrently with     *)
(* the queues, when the buds link, who is master, and when the phone comes *)
(* and goes.  A handler therefore reads a role and a link that may be newer*)
(* than the event it handles.  The controller and the phone are external:  *)
(* they do what the tws_api.h comments promise and nothing more.           *)
(***************************************************************************)
EXTENDS Integers, Sequences

CONSTANTS
    Buds,           \* the two earbuds
    None,           \* no bud
    PowerOnTries,   \* phone pages that POWERON_AUTO_CONN_TIME lasts for
    TimeoutTries,   \* phone pages that TIMEOUT_CONN_TIME lasts for
    RefusedTries,   \* phone pages that the 8 s after a refused page last for
    Phones,         \* phones remembered in flash, paged in turn at power-on
    QueueCap,       \* bound on a bud's event queue
    Chances         \* bounds: how often each disturbance may happen, by scenario

ASSUME BudsAssumption == None \notin Buds /\ \E b, c \in Buds : b # c /\ Buds = {b, c}
ASSUME TriesAssumption ==
    {PowerOnTries, TimeoutTries, RefusedTries, Phones, QueueCap} \subseteq Nat
Disturbances == {"leave", "fade", "phone", "call", "swap"}
ASSUME ChancesAssumption == Chances \subseteq [Disturbances -> Nat]

VARIABLES
    on,         \* the buds that run
    paired,     \* the buds whose flash holds the sibling's address
    bud,        \* gtws, the paging budget and the scan state of each bud
    events,     \* events posted to the app task of each bud, oldest first
    master,     \* the master of the linked pair, None when not linked
    phone,      \* the bud that has a link to the phone, None for none
    profile,    \* the phone's profiles are connected
    call,       \* the phone has a call on its link
    surprised,  \* history: the buds that a role switch with the phone found unready
    chances     \* disturbances left

vars == <<on, paired, bud, events, master, phone, profile, call, surprised, chances>>
radio == <<on, paired, master, phone, profile, call, surprised, chances>>

Idle == "none"      \* gtws.pair_timer is not set
Off == [unpaired |-> FALSE, sib |-> FALSE, timeout |-> FALSE, power_on |-> FALSE,
        counter |-> 0, connect_time |-> 0, pair_timer |-> Idle, memory |-> 0,
        scan |-> "none", create |-> "none", limited |-> FALSE, page |-> FALSE,
        esco |-> FALSE]

Tries == 0..(PowerOnTries + TimeoutTries + RefusedTries)
\* gtws.state is the first four fields; counter and connect_time count pages;
\* pair_timer is the step the timer will run; scan, create and page are what
\* the controller was last told to do, limited when create has a timeout
Bud == [unpaired : BOOLEAN, sib : BOOLEAN, timeout : BOOLEAN, power_on : BOOLEAN,
        counter : Tries, connect_time : Tries, pair_timer : {Idle, "connectable", "pair", "phone"},
        memory : 0..Phones, scan : {"none", "pair", "sibling", "esco"},
        create : {"none", "sibling", "code"}, limited : BOOLEAN, page : BOOLEAN,
        esco : BOOLEAN]

Linked == master # None
Sibling(b) == CHOOSE c \in Buds : c # b
\* tws_api_get_role: a bud without its sibling is a master
IsMaster(b) == master \in {b, None}
Room(b, n) == Len(events[b]) + n <= QueueCap
Event(ev, role, ph, reason) == [ev |-> ev, role |-> role, phone |-> ph, reason |-> reason]
RoleIn(m, b) == IF m = b THEN "master" ELSE "slave"

Spend(what) == chances[what] > 0 /\ chances' = [chances EXCEPT ![what] = @ - 1]
Receives(b, ev) ==
    /\ b \in on /\ events[b] # <<>> /\ Head(events[b]).ev = ev
    /\ events' = [events EXCEPT ![b] = Tail(@)]
Becomes(b, r) == bud' = [bud EXCEPT ![b] = r]

-----------------------------------------------------------------------------
(* The operations of bt_tws.c on one bud's state.                            *)

bt_tws_delete_pair_timer(r) == [r EXCEPT !.pair_timer = Idle]
wait_pair(r) == [r EXCEPT !.scan = "pair"]
cancle_create_connection(r) == [r EXCEPT !.create = "none", !.limited = FALSE]
\* the pairing code an unpaired bud set as its quick-connect address
create_connection(r, timed) ==
    [r EXCEPT !.create = IF r.unpaired THEN "code" ELSE "sibling", !.limited = timed]
bt_tws_wait_sibling_connect(r) ==
    [bt_tws_delete_pair_timer(r) EXCEPT !.scan = "sibling"]

\* bt_init_ok_search_index: take the next remembered phone
NextPhone(r) ==
    IF r.counter = 0 /\ r.memory > 0
    THEN [r EXCEPT !.memory = @ - 1, !.counter = PowerOnTries]
    ELSE r

\* the budget is over: at power-on the next remembered phone gets one
Refill(r) ==
    IF r.counter > 0 \/ ~r.power_on THEN r
    ELSE IF r.memory > 0 THEN NextPhone(r)
    ELSE [r EXCEPT !.power_on = FALSE]

PagePhone(r) ==
    [cancle_create_connection(r) EXCEPT !.counter = @ - 1, !.scan = "none",
              !.page = TRUE, !.pair_timer = "connectable"]

EndSwMutant(r) == FALSE
EndSw(r) == ~r.sib /\ ~r.unpaired

\* discoverable and, without the sibling, looking for it; a paired bud goes on
\* to look for one that has lost the pairing
Connectable(r) ==
    LET s == wait_pair(IF r.sib THEN r ELSE create_connection(r, FALSE))
    IN  IF EndSw(r) THEN [s EXCEPT !.pair_timer = "pair"]
        ELSE IF r.counter = 0 THEN s
        ELSE [s EXCEPT !.pair_timer = "phone"]

HasBudget(r) == r.counter > 0

SeekPhone(r) ==
    LET s == Refill(r)
    IN  IF HasBudget(s) THEN PagePhone(s)
        ELSE IF s.sib THEN wait_pair(s)
        ELSE Connectable(s)

\* quick-connect address := the pairing code, for this one call
SeekByCode(r) == [r EXCEPT !.create = "code", !.limited = FALSE, !.pair_timer = "phone"]

connect_and_connectable_switch(r, sw) ==
    LET s == bt_tws_delete_pair_timer(r)
    IN  CASE sw = "phone" -> SeekPhone(s)
          [] sw = "connectable" -> Connectable(s)
          [] sw = "pair" -> SeekByCode(s)

bt_tws_connect_and_connectable_switchMutant(b, r) == connect_and_connectable_switch(r, "phone")
bt_tws_connect_and_connectable_switch(b, r) ==
    IF IsMaster(b) THEN connect_and_connectable_switch(r, "phone")
    ELSE bt_tws_delete_pair_timer(r)

\* tws_api_create_connection may refuse: then the switch takes over
ConnectSiblingMutant(b, r) ==
    {create_connection(bt_tws_delete_pair_timer(r), TRUE), bt_tws_delete_pair_timer(r)}
ConnectSibling(b, r) ==
    {create_connection(bt_tws_delete_pair_timer(r), TRUE),
     bt_tws_connect_and_connectable_switch(b, r)}

bt_tws_phone_disconnected(b, r) ==
    LET s == [r EXCEPT !.counter = 0]
    IN  IF s.sib THEN s ELSE bt_tws_connect_and_connectable_switch(b, s)

bt_tws_phone_connect_timeout(b, r) ==
    IF r.unpaired \/ r.sib
    THEN {bt_tws_connect_and_connectable_switch(b, r)}
    ELSE ConnectSibling(b, r)

-----------------------------------------------------------------------------
(* Power-on, timers and the events of the pair.                              *)

\* BT_STATUS_INIT_OK and bt_tws_poweron: 4 s for a known sibling, 6 s for any
PowerOn(b) ==
    /\ b \notin on
    /\ on' = on \union {b}
    /\ \E r \in ConnectSibling(b, NextPhone([Off EXCEPT
            !.unpaired = b \notin paired, !.power_on = TRUE, !.memory = Phones])) :
            Becomes(b, r)
    /\ UNCHANGED <<paired, events, master, phone, profile, call, surprised, chances>>

TimerFires(b) ==
    /\ b \in on /\ bud[b].pair_timer # Idle
    /\ Becomes(b, connect_and_connectable_switch(bud[b], bud[b].pair_timer))
    /\ UNCHANGED <<events, radio>>

\* CONNECTED: a new sibling is written to flash and gtws.state starts again
RecordSibling(b, r) ==
    IF b \in paired THEN r
    ELSE [r EXCEPT !.unpaired = FALSE, !.power_on = FALSE]

TakeBack(r, role) ==
    [r EXCEPT !.counter = IF r.connect_time > 0 /\ role = "master" THEN r.connect_time ELSE @,
              !.connect_time = 0]

JoinPair(r) == [bt_tws_delete_pair_timer(r) EXCEPT !.timeout = FALSE, !.sib = TRUE]

TwsConnected(b) ==
    /\ Receives(b, "CONNECTED")
    /\ LET e == Head(events[b])
           r == JoinPair(TakeBack(RecordSibling(b, bud[b]), e.role))
       IN  Becomes(b, IF e.phone THEN r
                      ELSE IF e.role = "master"
                           THEN bt_tws_connect_and_connectable_switch(b, r)
                           ELSE [r EXCEPT !.scan = "none"])
    /\ paired' = paired \union {b}
    /\ UNCHANGED <<on, master, phone, profile, call, surprised, chances>>

\* what the slave was paging for is put aside while it looks for the sibling
PutAside(r) == [r EXCEPT !.connect_time = r.counter, !.counter = 0]

TwsConnectionTimeout(b) ==
    /\ Receives(b, "CONNECTION_TIMEOUT")
    /\ LET e == Head(events[b])
           r == bud[b]
       IN  Becomes(b,
             IF r.unpaired THEN bt_tws_connect_and_connectable_switch(b, r)
             ELSE IF e.phone THEN bt_tws_wait_sibling_connect(r)
             ELSE bt_tws_connect_and_connectable_switch(b,
                     IF r.timeout THEN [PutAside(r) EXCEPT !.timeout = FALSE] ELSE r))
    /\ UNCHANGED radio

LeavePairMutant(r) == IF r.esco THEN r ELSE [r EXCEPT !.sib = FALSE]
LeavePair(r) == [r EXCEPT !.sib = FALSE]

AfterDetach(b, e, r) ==
    IF r.esco THEN {[r EXCEPT !.scan = "esco"]}
    ELSE IF e.phone THEN {bt_tws_wait_sibling_connect(r)}
    ELSE IF e.reason = "SUPER_TIMEOUT"
    THEN ConnectSibling(b, IF e.role = "slave" THEN [PutAside(r) EXCEPT !.timeout = TRUE] ELSE r)
    ELSE {bt_tws_connect_and_connectable_switch(b, r)}

TwsDetach(b) ==
    /\ Receives(b, "CONNECTION_DETACH")
    /\ \E r \in AfterDetach(b, Head(events[b]), LeavePair(bud[b])) : Becomes(b, r)
    /\ UNCHANGED radio

PhoneLinkDetach(b) ==
    /\ Receives(b, "PHONE_LINK_DETACH")
    /\ LET e == Head(events[b])
           r == CASE e.reason = "timeout" -> bud[b]
                  [] e.reason = "refused" -> [bud[b] EXCEPT !.counter = RefusedTries]
                  [] e.reason = "left" -> [bud[b] EXCEPT !.counter = 0]
       IN  Becomes(b, bt_tws_connect_and_connectable_switch(b, r))
    /\ UNCHANGED radio

RoleSwitchMutant(b) ==
    /\ Receives(b, "ROLE_SWITCH")
    /\ Becomes(b, IF phone = None THEN bud[b]
                  ELSE bt_tws_connect_and_connectable_switch(b, bud[b]))
    /\ UNCHANGED radio
RoleSwitch(b) ==
    /\ Receives(b, "ROLE_SWITCH")
    /\ Becomes(b, IF phone # None THEN bud[b]
                  ELSE bt_tws_connect_and_connectable_switch(b, bud[b]))
    /\ UNCHANGED radio

-----------------------------------------------------------------------------
(* The events of the phone.                                                  *)

bt_tws_hci_event_connectMutant(r) == [r EXCEPT !.power_on = FALSE, !.counter = 0]
bt_tws_hci_event_connect(r) ==
    [bt_tws_delete_pair_timer(r) EXCEPT !.power_on = FALSE, !.counter = 0]

HciConnect(b) ==
    /\ Receives(b, "HCI_CONNECT")
    /\ Becomes(b, bt_tws_hci_event_connect(bud[b]))
    /\ UNCHANGED radio

PhoneConnected(b) ==
    /\ Receives(b, "PHONE_CONNECTED")
    /\ Becomes(b, IF bud[b].unpaired \/ bud[b].sib THEN bud[b]
                  ELSE bt_tws_wait_sibling_connect(bud[b]))
    /\ UNCHANGED radio

\* HCI_LOST is a disconnection with the value ERROR_CODE_CONNECTION_TIMEOUT
HciDisconnect(b) ==
    /\ \/ Receives(b, "HCI_DISCONNECT") /\ Becomes(b, bt_tws_phone_disconnected(b, bud[b]))
       \/ /\ Receives(b, "HCI_LOST")
          /\ \E r \in bt_tws_phone_connect_timeout(b, bud[b]) : Becomes(b, r)
    /\ UNCHANGED radio

PageTimeout(b) ==
    /\ Receives(b, "PAGE_TIMEOUT")
    /\ Becomes(b, bt_tws_phone_disconnected(b, bud[b]))
    /\ UNCHANGED radio

\* a link that timed out, or that the phone refuses because it has not noticed,
\* is paged for again, unless a call still holds the codec
PhoneLost(b, ev, tries) ==
    /\ Receives(b, ev)
    /\ \E r \in IF bud[b].esco THEN {bt_tws_phone_disconnected(b, bud[b])}
                ELSE bt_tws_phone_connect_timeout(b, [bud[b] EXCEPT !.counter = tries]) :
            Becomes(b, r)
    /\ UNCHANGED radio
HciTimeout(b) == PhoneLost(b, "HCI_TIMEOUT", TimeoutTries)
HciExist(b) == PhoneLost(b, "HCI_EXIST", RefusedTries)

EscoOpen(b) ==
    /\ Receives(b, "ESCO_OPEN")
    /\ LET r == [bud[b] EXCEPT !.esco = TRUE]
       IN  Becomes(b, IF r.unpaired THEN r
                      ELSE [cancle_create_connection(bt_tws_delete_pair_timer(r)) EXCEPT !.scan = "esco"])
    /\ UNCHANGED radio

EscoClose(b) ==
    /\ Receives(b, "ESCO_CLOSE")
    /\ LET r == [bud[b] EXCEPT !.esco = FALSE]
       IN  Becomes(b, IF r.unpaired \/ r.sib THEN r ELSE [r EXCEPT !.scan = "sibling"])
    /\ UNCHANGED radio

-----------------------------------------------------------------------------
(* The controllers, the phone and the user.  A linked pair hears everything  *)
(* of the phone on both buds: the slave listens in.                          *)

Post(b, new) == events' = [events EXCEPT ![b] = @ \o new]
PostBoth(new(_)) == events' = [b \in Buds |-> events[b] \o new(b)]
Simple(ev) == <<Event(ev, "none", FALSE, "none")>>
PostPhone(new) == PostBoth(LAMBDA b : IF Linked \/ b \in {phone, phone'} THEN new ELSE <<>>)

\* one bud reaches the other: both look under the same address, or the other
\* waits where its sibling finds it
Reaches(b, c) ==
    \/ bud[b].create # "none" /\ bud[c].create = bud[b].create
    \/ bud[b].create = "sibling" /\ bud[c].scan # "none" /\ ~bud[c].unpaired

\* a slave's controller leaves the phone to the master
Follow(r, b, m) == [r EXCEPT !.page = @ /\ b = m]

Link ==
    /\ ~Linked /\ on = Buds /\ \A b \in Buds : Room(b, 2)
    /\ \E b \in Buds : Reaches(b, Sibling(b))
    /\ \E m \in IF phone = None THEN Buds ELSE {phone} :
        /\ master' = m
        /\ PostBoth(LAMBDA b : <<Event("CONNECTED", RoleIn(m, b), phone # None, "none")>>
                               \o IF call /\ b # m THEN Simple("ESCO_OPEN") ELSE <<>>)
    /\ bud' = [b \in Buds |-> Follow(cancle_create_connection(bud[b]), b, master')]
    /\ surprised' = surprised \cap {phone}
    /\ UNCHANGED <<on, paired, phone, profile, call, chances>>

\* the slave's share of a call ends with the link that carried it
Detached(b, reason) ==
    (IF call /\ b # phone THEN Simple("ESCO_CLOSE") ELSE <<>>)
        \o <<Event("CONNECTION_DETACH", RoleIn(master, b), phone = b, reason)>>

\* the radio between the two buds fades until both give up
Fade ==
    /\ Linked /\ Spend("fade") /\ \A b \in Buds : Room(b, 2)
    /\ master' = None
    /\ PostBoth(LAMBDA b : Detached(b, "SUPER_TIMEOUT"))
    /\ UNCHANGED <<on, paired, bud, phone, profile, call, surprised>>

\* bt_tws_poweroff tells the sibling; a reset does not
Leave(b) ==
    /\ b \in on /\ Spend("leave")
    /\ on' = on \ {b} /\ Becomes(b, Off)
    /\ master' = None
    /\ \E reason \in {"POWEROFF", "SUPER_TIMEOUT"} :
        /\ Linked => Room(Sibling(b), 2)
        /\ events' = [c \in Buds |-> IF c = b THEN <<>>
                                     ELSE IF Linked THEN events[c] \o Detached(c, reason)
                                     ELSE events[c]]
    /\ IF phone = b THEN phone' = None /\ profile' = FALSE /\ call' = FALSE
       ELSE UNCHANGED <<phone, profile, call>>
    /\ UNCHANGED <<paired, surprised>>

\* tws_api_create_connection(timeout) gives up
CreateTimesOut(b) ==
    /\ b \in on /\ bud[b].create # "none" /\ bud[b].limited /\ Room(b, 1)
    /\ Becomes(b, cancle_create_connection(bud[b]))
    /\ Post(b, <<Event("CONNECTION_TIMEOUT", "none", phone = b, "none")>>)
    /\ UNCHANGED radio

PageFails(b) ==
    /\ b \in on /\ bud[b].page /\ Room(b, 1)
    /\ Becomes(b, [bud[b] EXCEPT !.page = FALSE])
    /\ Post(b, Simple("PAGE_TIMEOUT"))
    /\ UNCHANGED radio

PhoneRoom == \A b \in Buds : Room(b, 1)

PhoneComes(b) ==
    /\ b \in on /\ phone = None /\ IsMaster(b) /\ Spend("phone") /\ PhoneRoom
    /\ bud[b].page \/ bud[b].scan # "none"
    /\ phone' = b /\ Becomes(b, [bud[b] EXCEPT !.page = FALSE])
    /\ PostPhone(Simple("HCI_CONNECT"))
    /\ surprised' = {}
    /\ UNCHANGED <<on, paired, master, profile, call>>

ProfilesConnect ==
    /\ phone # None /\ ~profile /\ PhoneRoom
    /\ profile' = TRUE /\ UNCHANGED phone /\ PostPhone(Simple("PHONE_CONNECTED"))
    /\ UNCHANGED <<on, paired, bud, master, call, surprised, chances>>

CallStarts ==
    /\ profile /\ ~call /\ Spend("call") /\ PhoneRoom
    /\ call' = TRUE /\ UNCHANGED phone /\ PostPhone(Simple("ESCO_OPEN"))
    /\ UNCHANGED <<on, paired, bud, master, profile, surprised>>

CallEnds ==
    /\ call /\ PhoneRoom
    /\ call' = FALSE /\ UNCHANGED phone /\ PostPhone(Simple("ESCO_CLOSE"))
    /\ UNCHANGED <<on, paired, bud, master, profile, surprised, chances>>

\* the call closes before or after the link, and a linked pair hears of both
PhoneGoes(ev, reason) ==
    /\ phone # None /\ \A b \in Buds : Room(b, 3)
    /\ phone' = None /\ profile' = FALSE /\ call' = FALSE
    /\ LET esco == IF call THEN Simple("ESCO_CLOSE") ELSE <<>>
           both == IF Linked THEN <<Event("PHONE_LINK_DETACH", "none", FALSE, reason)>> ELSE <<>>
       IN  \E own \in {esco \o Simple(ev), Simple(ev) \o esco} : PostPhone(own \o both)
    /\ UNCHANGED <<on, paired, bud, master, surprised, chances>>

PhoneLeaves == PhoneGoes("HCI_DISCONNECT", "left")
PhoneDrops == PhoneGoes("HCI_LOST", "timeout")
PhoneRefuses == PhoneGoes("HCI_EXIST", "refused")
PhoneFades == PhoneGoes("HCI_TIMEOUT", "timeout")

\* A role switch that takes the phone along finds a bud ready for it when the
\* one that gets the phone has nothing to handle and nothing left to page for,
\* and the timer of the one that gives it is off: bt_tws.c does not look.
Ready(b) ==
    IF b = master THEN bud[b].pair_timer = Idle
    ELSE /\ events[b] = <<>> /\ ~bud[b].power_on
         /\ bud[b].counter = 0 /\ bud[b].pair_timer # "connectable"

\* tws_conn_switch_role, or the library by itself: the phone's link goes along
Swap ==
    /\ Linked /\ ~call /\ Spend("swap") /\ \A b \in Buds : Room(b, 1)
    /\ master' = Sibling(master)
    /\ phone' = IF phone = None THEN None ELSE Sibling(phone)
    /\ PostBoth(LAMBDA b : <<Event("ROLE_SWITCH", RoleIn(Sibling(master), b), phone # None, "none")>>)
    /\ bud' = [b \in Buds |-> Follow(bud[b], b, master')]
    /\ surprised' = IF phone = None THEN {} ELSE {b \in Buds : ~Ready(b)}
    /\ UNCHANGED <<on, paired, profile, call>>

-----------------------------------------------------------------------------

Init ==
    /\ on = {} /\ paired \in SUBSET Buds
    /\ bud = [b \in Buds |-> Off] /\ events = [b \in Buds |-> <<>>]
    /\ master = None /\ phone = None /\ profile = FALSE /\ call = FALSE
    /\ surprised = {} /\ chances \in Chances

Handles(b) ==
    \/ TwsConnected(b) \/ TwsConnectionTimeout(b) \/ TwsDetach(b) \/ PhoneLinkDetach(b)
    \/ RoleSwitch(b) \/ HciConnect(b) \/ PhoneConnected(b) \/ HciDisconnect(b)
    \/ PageTimeout(b) \/ HciTimeout(b) \/ HciExist(b) \/ EscoOpen(b) \/ EscoClose(b)

Environment ==
    \/ Link \/ Fade \/ ProfilesConnect \/ CallStarts \/ CallEnds
    \/ PhoneLeaves \/ PhoneDrops \/ PhoneRefuses \/ PhoneFades \/ Swap

Next ==
    \/ \E b \in Buds :
        \/ Handles(b) \/ PowerOn(b) \/ TimerFires(b) \/ Leave(b)
        \/ CreateTimesOut(b) \/ PageFails(b) \/ PhoneComes(b)
    \/ Environment

\* the app task serves its queue and its timer, the controller gives up a timed
\* search, two buds that can reach each other again and again do link, and a
\* phone that connected goes on to its profiles
Fairness ==
    /\ \A b \in Buds : WF_vars(Handles(b)) /\ WF_vars(TimerFires(b)) /\ WF_vars(CreateTimesOut(b))
    /\ SF_vars(Link) /\ WF_vars(ProfilesConnect)

Spec == Init /\ [][Next]_vars /\ Fairness

-----------------------------------------------------------------------------

EventKinds == {"CONNECTED", "CONNECTION_TIMEOUT", "CONNECTION_DETACH", "PHONE_LINK_DETACH",
    "ROLE_SWITCH", "HCI_CONNECT", "PHONE_CONNECTED", "HCI_DISCONNECT", "HCI_LOST", "HCI_TIMEOUT",
    "HCI_EXIST", "PAGE_TIMEOUT", "ESCO_OPEN", "ESCO_CLOSE"}

TypeOK ==
    /\ on \subseteq Buds /\ paired \subseteq Buds
    /\ bud \in [Buds -> Bud]
    /\ \A b \in Buds : \A i \in DOMAIN events[b] : events[b][i].ev \in EventKinds
    /\ {master, phone} \subseteq Buds \union {None}
    /\ profile \in BOOLEAN /\ call \in BOOLEAN /\ surprised \subseteq Buds
    /\ chances \in [Disturbances -> Nat]

Drained(b) == b \in on /\ events[b] = <<>>

\* A bud with nothing left to handle knows whether it has its sibling, and a
\* linked bud has the sibling in flash: no order of CONNECTED and DETACH events
\* against the controller leaves BT_TWS_SIBLING_CONNECTED or the pairing stale.
PairKnown ==
    \A b \in Buds : Drained(b) =>
        /\ bud[b].sib = Linked
        /\ Linked => b \in paired /\ ~bud[b].unpaired

\* A running bud with neither sibling nor phone and nothing left to handle has
\* something that will get it out: its switch timer, a search, or a scan that
\* its sibling and its phone can find (bt_tws.c promises one of the four states
\* of connect_and_connectable_switch).
NoDeadEnd ==
    \A b \in Buds : (Drained(b) /\ ~Linked /\ phone # b) =>
        bud[b].pair_timer # Idle \/ bud[b].create # "none" \/ bud[b].scan # "none"

\* A linked pair without a phone, all its events handled, can be found by one:
\* the master is discoverable or its timer will make it so, however roles
\* switch and phones go while older events wait (connect_and_connectable_switch
\* runs on the master alone, and the role is read when a handler runs).
PairFindable ==
    (Linked /\ phone = None /\ \A b \in Buds : Drained(b)) =>
        bud[master].pair_timer # Idle \/ bud[master].scan # "none"

\* Paging ends with its reason.  A bud that has its phone does not go on paging:
\* whatever sibling events, role switches and remains of the phone's former
\* links are handled around the connection, no turn of paging is under way (its
\* timer's next step would be "connectable") and no timer has a budget to begin
\* another with.  And the slave of a pair leaves the phone to the master: with
\* all events handled its switch timer is off.  Neither is promised of a bud
\* that a role switch found unready, until the phone connects or the buds link
\* again: ROLE_SWITCH stops nothing in a pair that has a phone (bt_tws.c:1887).
PagingEnds ==
    /\ \A b \in Buds \ surprised : (Drained(b) /\ phone = b) =>
        /\ bud[b].pair_timer # "connectable"
        /\ bud[b].pair_timer = Idle \/ ~HasBudget(Refill(bud[b]))
    /\ (Linked /\ Sibling(master) \notin surprised /\ \A b \in Buds : Drained(b)) =>
        bud[Sibling(master)].pair_timer = Idle

\* Two running buds get together again and again, whatever separates them: a
\* fade, a reset between the two halves of a pairing, a call.  While one of them
\* has the phone it waits passively, so a bud that lost the pairing waits for
\* the phone to go.
Apart == on = Buds /\ ~Linked
Together == []<>(~Apart \/ (phone # None /\ paired # Buds))
=============================================================================
