----------------------------- MODULE AutoShutDown -----------------------------
(***************************************************************************)
(* Automatic shutdown of a pair without a phone: the timer of earphone.c   *)
(* (sys_auto_shut_down_enable, _disable, _deal) and the handlers of        *)
(* earphone.c and bt_tws.c that start and stop it.                         *)
(*                                                                         *)
(* Each bud has a timer of its own. When it runs out, a bud without its    *)
(* sibling goes off, a master takes both buds off by a synchronised call,  *)
(* and a slave does nothing: it relies on its master. The handle of a      *)
(* timer that has run out is not cleared, and enable starts nothing while  *)
(* there is a handle.                                                      *)
(*                                                                         *)
(* Time goes in ticks; events and calls are over before the next one.      *)
(***************************************************************************)
EXTENDS Integers, Sequences

CONSTANTS
    Buds, None,     \* the two earbuds, no bud
    AutoOff,        \* ticks of auto_off_time
    Chances         \* bounds: how often each disturbance may happen, by scenario

Disturbances == {"on", "part", "phone", "swap"}

ASSUME AutoShutDownAssumption ==
    /\ None \notin Buds /\ \E b, c \in Buds : b # c /\ Buds = {b, c}
    /\ AutoOff \in Nat \ {0}
    /\ Chances \subseteq [Disturbances -> Nat]

VARIABLES
    on,             \* the buds that run
    handle,         \* app_var.auto_shut_down_timer # 0
    running, left,  \* the timer, and the ticks it has left
    leaving,        \* app_var.goto_poweroff_flag
    sib,            \* gtws.state & BT_TWS_SIBLING_CONNECTED
    events,         \* the queue of app_core
    calls,          \* synchronised calls in progress
    master,         \* master of the link, None when there is none
    phone,          \* the bud with the link to the phone, None for none
    paging,         \* the buds that page for a phone
    profile,        \* the phone's profiles are connected
    behind,         \* history: the buds a timer or a link has left without a start
    chances

timers == <<handle, running, left, behind>>
link == <<master, phone, profile, paging>>
vars == <<on, timers, leaving, sib, events, calls, link, chances>>

TypeOK ==
    /\ on \subseteq Buds
    /\ handle \in [Buds -> BOOLEAN] /\ running \in [Buds -> BOOLEAN]
    /\ left \in [Buds -> 0..AutoOff]
    /\ leaving \in [Buds -> BOOLEAN] /\ sib \in [Buds -> BOOLEAN]
    /\ events \in [Buds -> Seq({"CONNECTED", "CONNECTED_PHONE", "DETACH", "PHONE_LINK_DETACH",
                                "HCI_CONNECT", "PHONE_CONNECTED", "PAGE_TIMEOUT",
                                "HCI_DISCONNECT", "HCI_LOST", "HCI_TIMEOUT"})]
    /\ calls \subseteq [to : Buds, from : Buds, what : {"SHUT_DOWN_TIME", "POWER_OFF_TOGETHER"}]
    /\ {master, phone} \subseteq Buds \cup {None} /\ profile \in BOOLEAN /\ paging \subseteq Buds
    /\ behind \subseteq Buds /\ chances \in [Disturbances -> Nat]

Linked == master # None
Sibling(b) == CHOOSE c \in Buds : c # b
\* tws_api_get_role: a bud without its sibling is a master
IsMaster(b) == master \in {b, None}
Due(b) == running[b] /\ left[b] = 0

-----------------------------------------------------------------------------
(* The timer. *)

Timer(b, h, r, l) ==
    /\ handle' = [handle EXCEPT ![b] = h]
    /\ running' = [running EXCEPT ![b] = r]
    /\ left' = [left EXCEPT ![b] = l]
    /\ behind' = (IF r THEN behind \ {b} ELSE behind)

sys_auto_shut_down_disable(b) == Timer(b, FALSE, FALSE, 0)

sys_auto_shut_down_enable(b) ==
    IF handle[b] THEN UNCHANGED timers ELSE Timer(b, TRUE, TRUE, AutoOff)

(* disable and enable: another start, whatever there was before. *)
Restart(b) == Timer(b, TRUE, TRUE, AutoOff)

(* Mutant: the call goes to the sibling only. *)
SyncCallMutant(b, what) ==
    {[to |-> c, from |-> b, what |-> what] : c \in IF Linked THEN Buds \ {b} ELSE {b}}

(* tws_api_sync_call_by_uuid *)
SyncCall(b, what) ==
    {[to |-> c, from |-> b, what |-> what] : c \in IF Linked THEN Buds ELSE {b}}

(* sys_enter_soft_poweroff; what follows is PowerOff. *)
EntersPowerOff(b) ==
    IF leaving[b] THEN UNCHANGED <<timers, leaving>>
    ELSE leaving' = [leaving EXCEPT ![b] = TRUE] /\ sys_auto_shut_down_disable(b)

(* The timer has run out: its handle stays. *)
RunsOut(b) ==
    /\ running' = [running EXCEPT ![b] = FALSE] /\ UNCHANGED <<handle, left>>
    /\ behind' = IF IsMaster(b) THEN behind ELSE behind \cup {b}

sys_auto_shut_down_deal(b) ==
    /\ Due(b)
    /\ IF ~sib[b] /\ ~leaving[b] THEN UNCHANGED calls /\ EntersPowerOff(b)
       ELSE RunsOut(b) /\ UNCHANGED leaving
            /\ calls' = calls \cup IF sib[b] /\ IsMaster(b) THEN SyncCall(b, "POWER_OFF_TOGETHER") ELSE {}
    /\ UNCHANGED <<on, sib, events, link, chances>>

Executes(c) ==
    /\ calls' = calls \ {c}
    /\ IF c.what = "SHUT_DOWN_TIME" THEN Restart(c.to) /\ UNCHANGED leaving ELSE EntersPowerOff(c.to)
    /\ UNCHANGED <<on, sib, events, link, chances>>

-----------------------------------------------------------------------------
(* The handlers. *)

Receives(b, ev) ==
    /\ events[b] # <<>> /\ Head(events[b]) = ev
    /\ events' = [events EXCEPT ![b] = Tail(@)]

TwsConnected(b) ==
    /\ \/ Receives(b, "CONNECTED") /\ Restart(b)
       \/ Receives(b, "CONNECTED_PHONE") /\ UNCHANGED timers
    /\ sib' = [sib EXCEPT ![b] = TRUE]
    /\ UNCHANGED <<on, leaving, calls, link, chances>>

(* The timer is left as it is. *)
TwsDetach(b) ==
    /\ Receives(b, "DETACH")
    /\ sib' = [sib EXCEPT ![b] = @ /\ leaving[b]]
    /\ behind' = (IF handle[b] \/ phone = b THEN behind ELSE behind \cup {b})
    /\ UNCHANGED <<on, handle, running, left, leaving, calls, link, chances>>

(* TWS_EVENT_PHONE_LINK_DETACH; the search for the phone is HciTimeout's. *)
PhoneLinkDetach(b) ==
    /\ Receives(b, "PHONE_LINK_DETACH")
    /\ IF leaving[b] THEN UNCHANGED timers ELSE sys_auto_shut_down_enable(b)
    /\ UNCHANGED <<on, leaving, sib, calls, link, chances>>

(* bt_hci_event_connection: the phone begins to connect. *)
HciConnect(b) ==
    /\ Receives(b, "HCI_CONNECT") /\ sys_auto_shut_down_disable(b)
    /\ UNCHANGED <<on, leaving, sib, calls, link, chances>>

(* Mutant: the timer is left to bt_hci_event_connection. *)
PhoneConnectedMutant(b) ==
    /\ Receives(b, "PHONE_CONNECTED")
    /\ UNCHANGED <<on, timers, leaving, sib, calls, link, chances>>

(* BT_STATUS_FIRST_CONNECTED *)
PhoneConnected(b) ==
    /\ Receives(b, "PHONE_CONNECTED") /\ sys_auto_shut_down_disable(b)
    /\ UNCHANGED <<on, leaving, sib, calls, link, chances>>

(* bt_tws_phone_disconnected: the master restarts both timers. *)
SyncsTimes(b) == calls' = calls \cup IF IsMaster(b) THEN SyncCall(b, "SHUT_DOWN_TIME") ELSE {}

(* The search for the phone goes on; the end of it restarts the timers. *)
Pages(b) == paging' = IF IsMaster(b) /\ phone # b THEN paging \cup {b} ELSE paging

(* bt_hci_event_disconnect, for a phone that leaves and one that is lost. *)
HciDisconnect(b) ==
    /\ \/ Receives(b, "HCI_DISCONNECT") /\ UNCHANGED paging
          /\ IF leaving[b] THEN UNCHANGED calls ELSE SyncsTimes(b)
       \/ Receives(b, "HCI_LOST") /\ UNCHANGED calls
          /\ IF leaving[b] THEN UNCHANGED paging ELSE Pages(b)
    /\ IF leaving[b] \/ profile THEN UNCHANGED timers ELSE sys_auto_shut_down_enable(b)
    /\ UNCHANGED <<on, leaving, sib, master, phone, profile, chances>>

(* Mutant: only the end of a connection restarts the timers. *)
PageTimeoutMutant(b) ==
    /\ Receives(b, "PAGE_TIMEOUT")
    /\ UNCHANGED <<on, timers, leaving, sib, calls, link, chances>>

PageTimeout(b) ==
    /\ Receives(b, "PAGE_TIMEOUT") /\ SyncsTimes(b)
    /\ UNCHANGED <<on, timers, leaving, sib, link, chances>>

(* bt_hci_event_connection_timeout starts no timer, unless the phone was lost *)
(* in a call.                                                                 *)
HciTimeout(b) ==
    /\ Receives(b, "HCI_TIMEOUT")
    /\ \/ Pages(b) /\ UNCHANGED calls
       \/ SyncsTimes(b) /\ UNCHANGED paging
    /\ UNCHANGED <<on, timers, leaving, sib, master, phone, profile, chances>>

Spend(what) == chances[what] > 0 /\ chances' = [chances EXCEPT ![what] = @ - 1]

(* EARPHONE_STATE_INIT and what follows in the application's start. *)
PowerOn(b) ==
    /\ b \notin on /\ Spend("on")
    /\ on' = on \cup {b} /\ sys_auto_shut_down_enable(b)
    /\ paging' \in {paging, paging \cup {b}}
    /\ UNCHANGED <<leaving, sib, events, calls, master, phone, profile>>

-----------------------------------------------------------------------------
(* The controllers, the phone and the user. *)

PostBoth(new(_)) == events' = [b \in Buds |-> events[b] \o new(b)]
PostPhone(new) == PostBoth(LAMBDA b : IF Linked \/ b \in {phone, phone'} THEN new ELSE <<>>)

Settled ==
    /\ \A b \in Buds : events[b] = <<>> /\ ~Due(b)
    /\ calls = {}

Link ==
    /\ ~Linked /\ on = Buds /\ Settled /\ \A b \in Buds : ~leaving[b] /\ ~sib[b]
    /\ \E m \in IF phone = None THEN Buds ELSE {phone} :
        /\ master' = m /\ paging' = paging \cap {m}
        /\ PostBoth(LAMBDA b :
               IF phone = None THEN <<"CONNECTED">>
               ELSE <<"CONNECTED_PHONE">> \o IF b # m /\ profile THEN <<"PHONE_CONNECTED">> ELSE <<>>)
    /\ UNCHANGED <<on, timers, leaving, sib, calls, phone, profile, chances>>

(* What is on its way to the other bud is lost with the link. *)
Cut == master' = None /\ calls' = {c \in calls : c.to = c.from}

Fade ==
    /\ Linked /\ Spend("part")
    /\ Cut /\ PostBoth(LAMBDA b : <<"DETACH">>)
    /\ UNCHANGED <<on, timers, leaving, sib, phone, profile, paging>>

(* A bud ends: its own power-off, or the charging case. Its sibling sees the *)
(* link go and takes over the phone.                                         *)
Ends(b) ==
    /\ on' = on \ {b} /\ sys_auto_shut_down_disable(b)
    /\ leaving' = [leaving EXCEPT ![b] = FALSE] /\ sib' = [sib EXCEPT ![b] = FALSE]
    /\ master' = None /\ calls' = {c \in calls : c.to # b /\ (c.to = c.from)}
    /\ events' = [c \in Buds |-> IF c = b THEN <<>> ELSE IF Linked THEN Append(events[c], "DETACH") ELSE events[c]]
    /\ phone' = (IF phone = b THEN IF Linked THEN Sibling(b) ELSE None ELSE phone)
    /\ profile' = (profile /\ phone' # None)
    /\ paging' = paging \ {b}

(* The other bud's share of a call comes before the end of a power-off. *)
PowersOff(b) == leaving[b] /\ calls = {} /\ Ends(b) /\ UNCHANGED chances
IntoCase(b) == b \in on /\ ~leaving[b] /\ Settled /\ Spend("part") /\ Ends(b)

PhoneComes(b) ==
    /\ b \in on /\ phone = None /\ IsMaster(b) /\ ~leaving[b] /\ Spend("phone")
    /\ phone' = b /\ paging' = paging \ {b} /\ PostPhone(<<"HCI_CONNECT">>)
    /\ UNCHANGED <<on, timers, leaving, sib, calls, master, profile>>

(* The profiles take longer than a synchronised call. *)
ProfilesConnect ==
    /\ phone # None /\ ~profile /\ Settled
    /\ profile' = TRUE /\ UNCHANGED phone /\ PostPhone(<<"PHONE_CONNECTED">>)
    /\ UNCHANGED <<on, timers, leaving, sib, calls, master, paging, chances>>

PhoneEvents == {"HCI_DISCONNECT", "HCI_LOST", "HCI_TIMEOUT"}

(* A linked pair hears of its phone on both buds. *)
PhoneGoes(ev) ==
    /\ phone # None /\ phone' = None /\ profile' = FALSE
    /\ PostPhone(<<ev>> \o IF Linked THEN <<"PHONE_LINK_DETACH">> ELSE <<>>)
    /\ UNCHANGED <<on, timers, leaving, sib, calls, master, paging, chances>>

PageFails(b) ==
    /\ b \in paging /\ paging' = paging \ {b}
    /\ events' = [events EXCEPT ![b] = Append(@, "PAGE_TIMEOUT")]
    /\ UNCHANGED <<on, timers, leaving, sib, calls, master, phone, profile, chances>>

(* The phone's link goes along, and so does the search for it. *)
Swap ==
    /\ Linked /\ Settled /\ Spend("swap")
    /\ master' = Sibling(master) /\ phone' = (IF phone = None THEN None ELSE Sibling(phone))
    /\ paging' = (IF paging = {} THEN {} ELSE {master'})
    /\ UNCHANGED <<on, timers, leaving, sib, events, calls, profile>>

Tick ==
    /\ Settled
    /\ left' = [b \in Buds |-> IF running[b] THEN left[b] - 1 ELSE 0]
    /\ UNCHANGED <<on, handle, running, behind, leaving, sib, events, calls, link, chances>>

-----------------------------------------------------------------------------
Init ==
    /\ on = {} /\ handle = [b \in Buds |-> FALSE] /\ running = handle
    /\ left = [b \in Buds |-> 0] /\ leaving = handle /\ sib = handle
    /\ events = [b \in Buds |-> <<>>] /\ calls = {}
    /\ master = None /\ phone = None /\ profile = FALSE /\ paging = {} /\ behind = {}
    /\ chances \in Chances

Handles(b) ==
    \/ TwsConnected(b) \/ TwsDetach(b) \/ PhoneLinkDetach(b) \/ HciConnect(b)
    \/ PhoneConnected(b) \/ HciDisconnect(b) \/ PageTimeout(b) \/ HciTimeout(b)

Bud(b) == Handles(b) \/ sys_auto_shut_down_deal(b) \/ PowersOff(b) \/ PageFails(b)

Next ==
    \/ \E b \in Buds : Bud(b) \/ PowerOn(b) \/ IntoCase(b) \/ PhoneComes(b)
    \/ \E c \in calls : Executes(c)
    \/ Link \/ Fade \/ ProfilesConnect \/ \E ev \in PhoneEvents : PhoneGoes(ev)
    \/ Swap \/ Tick

(* Queues and calls are served, a bud that leaves goes, a page comes to its  *)
(* end, time passes.                                                         *)
Fairness ==
    /\ \A b \in Buds : WF_vars(Handles(b)) /\ WF_vars(sys_auto_shut_down_deal(b))
                       /\ WF_vars(PowersOff(b)) /\ WF_vars(PageFails(b))
    /\ WF_vars(\E c \in calls : Executes(c)) /\ WF_vars(Tick)

Spec == Init /\ [][Next]_vars /\ Fairness

-----------------------------------------------------------------------------
(* The two ways to be left without a timer: one that ran out on a slave and  *)
(* kept its handle, and a master that fades with the phone.                  *)
Forgotten(b) == b \in on \cap behind

(* Buds that are left without a phone are off in the end, unless one of the  *)
(* two ways of Forgotten stops them: the board's "no Bluetooth connection,   *)
(* automatic shutdown" (board_jl701n_demo_cfg.h:954).                        *)
GoesOff == <>[](phone = None /\ \A b \in Buds : ~Forgotten(b)) => <>[](on = {})

(* No timer asks for a power-off while the phone's profiles are connected:   *)
(* all the buds that share them have stopped theirs once they have handled   *)
(* their events.                                                             *)
QuietInUse ==
    profile => \A b \in on : (events[b] = <<>> /\ (Linked \/ phone = b) /\ calls = {}) => ~running[b]

(* The bud everybody relies on has a timer: the master of a pair without a   *)
(* phone, and a bud alone, unless it still pages for its phone or leaves.    *)
Relied(b) == b \in on /\ IsMaster(b) /\ phone = None /\ b \notin paging /\ ~leaving[b]
SomeoneCounts == Settled => \A b \in Buds : Relied(b) => running[b] \/ Forgotten(b)
=============================================================================
