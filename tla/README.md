# JL701N earphone: verification

TLA+ models, TLC runs and TLAPS proofs about the firmware of a pair of true
wireless earbuds (SDK of the JL701N/BR28 chip with the LiteEMF layer). Paths
below are relative to `src/sdk/`.

- [1. The system](#1-the-system): components, their state, what is hard in them
- [2. What is modelled](#2-what-is-modelled): module by module, against the code
- [3. The runs](#3-the-runs): what each checks, bounds, fairness
- [4. The proofs](#4-the-proofs)
- [5. Where code and comments disagree](#5-where-code-and-comments-disagree)
- [6. What is assumed](#6-what-is-assumed)
- [7. What is not modelled](#7-what-is-not-modelled)
- [8. Plan](#8-plan)

Each model is `X.tla` (state, actions, specification, properties), `MCX.tla`
with `X.cfg` (a small instance for TLC). What is proved stands in the `_proofs`
modules ([4](#4-the-proofs)). An operator whose name ends in `Mutant` is the operator below
it with one plausible mistake; it is used by no specification and shows, put in
place of the right one, that a property notices.

## 1. The system

Each bud runs an RTOS. Most of the product's logic is in one task,
**app_core**: it takes events from a queue (`task_post_msg`, `sys_event_notify`)
and runs the handler of the running application to its end; software timers
(`sys_timer_add`, `sys_timeout_add`) call back in the same task. Beside it run
hardware-timer callbacks in the interrupt (`usr_timer_add`), pin wake-up
interrupts, decoder tasks, and closed libraries (Bluetooth controller and
stack, TWS library, decoders) that post events. Two buds are joined by a TWS
link over which one calls a function on both at about the same time
(`tws_api_sync_call_by_uuid`). A charging case supplies the buds and may talk to
them over the supply contact.

So what is hard here: interrupts that share static variables with the task
without a lock; handlers that read the present state for an event of the past;
chains of timers and events that no function sees as a whole; queues that are
flushed; the two buds in different steps of the same chain; and a contact that
moves while all of this goes on.

### Components

| component | code | state | operations | what makes it correct |
|---|---|---|---|---|
| battery monitoring | `apps/earphone/power_manage/app_power_manage.c` | timers `vbat_slow_timer`, `vbat_fast_timer`, `lowpower_timer`; counters of the sampling window; level | `vbat_check` in the 10 ms interrupt; `vbat_check_slow`, `vbat_check_init`, `vbat_timer_delete` and the event handler in the task | one sampling timer, which its variable names; monitoring never lost on battery; a low battery switches off |
| pair and phone links | `apps/earphone/bt_tws.c`, `earphone.c` | `gtws.state`, the switch timer, the paging budget, what was last asked of the controller; the sibling's address in flash | handlers of TWS and HCI events, `connect_and_connectable_switch` | flags agree with the link; no bud waits for something that never comes; two running buds meet; a pair can be found by a phone |
| power-off | `earphone.c` (`sys_enter_soft_poweroff`), `idle.c`, `app_main.c` | `goto_poweroff_flag`, `goto_poweroff_cnt`, `wait_exit_timer`, the application, the power-off tone | requests; `power_off_at_same_time`, `wait_exit_btstack_flag`; idle state machine; end of the tone | a power-off that began ends; nothing is lost in the flush of the queue; a bud in the case charges |
| charger contact | `cpu/br28/charge.c` (`ldo5v_detect`, `ldoin_wakeup_isr`, stop/restart) | level counters, `charge_flag`, `ldo5v_timer`, `detect_stop` | 2 ms sampling, edge interrupt, stop and restart around talk with the case | no change missed; what stays is reported; a bounce is not |
| charging | `cpu/br28/charge.c` (`charge_start`, `charge_close`, `charge_full_detect`, `charge_cc_check`), `power_manage/app_charge.c` | charge enable, current, wake-up of the full flag, two timers, `charge_full_flag`, `ldo5v_keep_timer` | events IN / KEEP / OFF / START / CLOSE / FULL; the timers | a full battery is noticed; a closed charge leaves no timer; a bud in the case ends full, its charge closed |
| key scan | `apps/common/device/key/key_driver.c` | filter, `last_key`, `press_cnt`, clicks, `is_key_active` | the 10 ms scan, key wake-up, idle query | the chip does not sleep over a click; filtered; LONG, HOLD, UP in order |
| audio clock | `cpu/br28/audio_codec_clock.c` | list of modes with clocks | `audio_codec_clock_set`, `_del`, `_check` | whatever plays has the clock it needs, in any order of starts and ends |
| automatic shutdown | `earphone.c:986`, `bt_tws.c` | one timer per bud, `auto_shut_down_timer` | started and stopped around connections of both buds; expiry | quiet while a phone is there; a pair left without one goes off |
| power-on | `app_main.c` | `app_var`, the first application | `app_main`: start by key, charger or reset | the start fits the charger and the battery |
| application switch | `app_task_switch.c` | current application | `app_task_switch_to`, `_next`, `_prev` | one application at a time; a switch that is refused leaves the old one |
| case, on the wire | `cpu/br28/umidigi_chargestore.c` | counters of samples, bits and silence, the message | a falling edge; the 2 ms timer | what is handed over was sent; the timer ends |
| case, its commands | `power_manage/app_umidigi_chargestore.c` | `cover_status`, timers of the open and the closed lid, `switch2bt` | open, close and pair in the interrupt; their events; the callbacks two seconds later | handles name running timers; lid and application agree in the end |
| firmware update of a pair | `apps/common/update/update_tws_new.c`, `ble_qiot_llsync_ota.c` | the semaphore, message numbers, the slave's time-out | the phone's requests; messages between the buds; verify and boot information | no bud boots half an image; the master never overtakes the slave |
| ADC scheduler | `cpu/br28/adc_api.c` | queue of channels, `cur_ch`, `adc_sample_flag` | 2 ms timer, converter interrupt, add and remove | each result under its own channel; every channel read again |
| case with messages | `power_manage/app_chargestore.c`, `cpu/br28/chargestore.c` | (not built) | | |
| tone player | `cpu/br28/tone_player.c`, `audio_dec.c` | current tone, list, synchronisation | play, stop, preempt, end | each tone ends with one event; clocks given back |
| clock manager | `cpu/br28/clock_manager.c` | mask of clock users | add, remove, delayed set | clock is that of the mask |
| volume synchronisation | `apps/earphone/vol_sync.c` | volumes of music and call | key, phone, sync call | both buds end with one volume |
| phone calls and ringing | `earphone.c`, `bt_tws.c` | `phone_ring_flag`, `phone_num_flag`, `phone_timer_id` | incoming call, number, hang-up; the 10 ms waits for the number and for the slave | both buds ring together; no timer rings after the hang-up |
| key events, UI, LED | `key_event_deal.c`, `ui_manage.c`, `cpu/br28/pwm_led.c` | pattern queue | one call per key | |
| in-ear detection | `apps/common/device/in_ear_detect/` | debounce, in-ear state of both | music stop and resume | music stops and resumes in pairs |
| touch keys, ANC, UART, flash, USB, BLE/app, test box, wireless microphone, third-party protocols, audio effects, LiteEMF layer | see `PROJECT.json` | | | see [7](#7-what-is-not-modelled) |

### How they meet

- The **contact** reports IN, KEEP and OFF to app_core; `app_charge.c` starts and
  closes **charging**, starts a **power-off** that ends in a reset if Bluetooth
  runs, and starts or stops the **battery monitor**.
- The battery monitor, a held **key**, the **automatic shutdown** and the charger
  ask for a power-off; a power-off of both buds is a synchronised call over the
  **TWS link**, and so is its tone.
- Music, calls, tones and the voice trigger take and give back the **audio
  clock**.
- The **lid** of the case switches a bud between charging in Bluetooth mode and
  charging in the idle application. Its commands come as **frames** over the same
  contact, so the detection of the charger is stopped while they are exchanged.
- The **ADC scheduler** gives the battery monitor and the keys their values.
- An **update** is driven by the phone over the master, which takes the slave along
  over the TWS link and resets both by a synchronised call.

`PROJECT.json` lists, under "hazards", the places of this code that a test would
hardly reach, with the properties that watch them.

## 2. What is modelled

A state variable keeps the name of the variable of the code where it has one, an
action that of the function or, where a function has several outcomes, of the
outcome. `PROJECT.json` "map" gives the lines of every definition.

### PowerManage — battery monitoring

`vbat_check` runs in an interrupt and may come between any two accesses of the
task. The task's `if (vbat_fast_timer == 0) vbat_fast_timer = usr_timer_add(...)`
is therefore three steps (`TestFast`, `AddFast`, `StoreFast`), its deletion two
(`vbat_timer_delete`, `DelFast`). `live` is the set of hardware timers that
really run, so that a lost one can be seen. One action per way a window ends:
`SampleMid`, `WindowLow`, `WindowWarning`, `WindowNormal`, `WindowCharging`. The
handlers of the charger (`Ldo5vIn`, `Ldo5vOff`, `ChargeFull`) are there for what
they do to the monitor, `BootSample` is `check_power_on_voltage`.

### BtTws — the pair and the phone

Two buds, each with a queue of events and one record `bud[b]` that holds
`gtws`, the paging budget and what its controller was last told. The functions of
`bt_tws.c` are operators on that record (`connect_and_connectable_switch` with its
branches `SeekPhone`, `Connectable`, `SeekByCode`; `ConnectSibling`; `PutAside` and
`TakeBack` of the budget), the event handlers are actions. The controllers and
the phone are external: `Link`, `Fade`, `Swap`, `PhoneComes`, `PhoneGoes`, ...
change the link at once and put events into the queues, which the handlers take
later, when the role and the link may be different again. `PhoneLost` is what a
bud does when its phone is gone without leave, or refuses it because it has not
noticed that (`HciExist`). HCI_LOST is the DISCONNECT event whose reason is a time-out
(`PhoneDrops`): the bud then seeks its sibling first, if it has lost that too.
`surprised` is history for `PagingEnds`: the buds that a role switch brought the phone to, or
took it from, while they still had something to page for (see
[5](#5-where-code-and-comments-disagree)). A bud may `Leave` at any
moment, by power-off or reset, also between the CONNECTED event of one bud and
that of the other; `paired` (flash) survives.

### PowerOff — switching off, and the case

The whole chain on two buds: `AskTogether` and `AskAlone` (key, automatic
shutdown, low battery), `PowerOffSameTime` and `PowerOffAlone`
(`sys_enter_soft_poweroff`), the ticks of `wait_exit_timer`, `IdleMain` and
`IdlePowerOff` (the idle application, which flushes the queue), the synchronised
tone (`Deliver`, `ToneComes`, `ToneEnds`, `ToneEndComes`), `SoftOff`, and the
charger (`LdoIn`, `LdoOff`, `ResetDelay`, `Boot`). A synchronised call is an
element of `calls` for each bud until it is in that bud's queue; `Breaks` takes
away what has not reached the other bud when the link goes. `Plug` moves a bud
into and out of the case at any step.

### BudLife — what a power-off promises

`PowerOff` seen from outside: each bud is on, leaving, off, starting or charging; a
power-off that began is not taken back and ends. `LifeOf` maps application and flag
of `PowerOff` to a life, and `ImplementsBudLife` is `BudLife`'s whole specification
under that mapping, its fairness included: timers, flushes, tones and calls do
amount to `WF(Finish)`.

### AutoShutDown — a pair without a phone

`sys_auto_shut_down_enable`, `_disable` and `_deal` on two buds, with every handler
of `earphone.c` and `bt_tws.c` that calls them (`TwsConnected`, `TwsDetach`,
`HciConnect`, `PhoneConnected`, `HciDisconnect`, `PageTimeout`, ...). The calls
`SHUT_DOWN_TIME` (restart both timers) and `POWER_OFF_TOGETHER` are elements of
`calls` until each bud has executed them. `handle` and `running` are apart because the
code does not clear the handle of a timer that ran out, and `enable` does nothing
while there is a handle. `behind` is history for `Forgotten`: the two ways the code
leaves a bud without a timer (a timer that ran out on a slave; a slave whose master
fades together with the phone), see [5](#5-where-code-and-comments-disagree).

### ChargeDetect and Contact — the contact

`Sample` is one tick of `ldo5v_detect` with its three outcomes (`Counts`, `Waits`
before the task is ready, `Reports`); `EdgeInterrupt`, `ModuleStop`,
`ModuleRestart`, `DetectStop`, `TaskReady` as in `charge.c`. `Changes` is the
contact, bouncing as it likes. `run` counts samples in a row, for a property.

`Contact` is what the rest of the firmware may rely on: a report is of the level of
that moment and news, nothing is reported while the case talks, and a contact that
goes on being different from what was reported is reported, though it bounces
between other levels. `ImplementsContact` says that ChargeDetect keeps it; Charging and
UmidigiCase take their reports from it.

### Charging — current, full battery, lid

`charge_start` and `charge_close` are lists of steps in `todo`; `Settles`
(`charge_wakeup_isr`), `FullDetect` (four outcomes) and `CcCheck` come between any
two of them. `Takes` and the actions that use it are the cases of
`app_charge_event_handler`. ChargeDetect appears here as what it promises: `Report`
is `Contact`'s own `Reports` (as in UmidigiCase). PowerOff appears as `Leave`: a power-off that
ends in a reset. `OpenCase` and `CloseCase` are the two seconds' callbacks of the
lid in the UMIDIGI case. `Sleep` is the soft power-off of the idle task, which asks every
task for a time-out to come: it needs the idle application, a closed lid and the slow timer
of the battery gone (`monitor`), which only a FULL handled with the lid open deletes
(`app_charge.c:262`). Nothing rests on it.

### KeyDriver — keys

`Scan` is one call of `key_driver_scan`: the filter (`Bounces`, `Filters`), then one
of the six branches on the filtered value. The timer that scans does not keep the
chip awake and stands still while it sleeps; `is_key_active` is what keeps it
awake. `streak` and `held` are history for the properties.

### AudioClock — clocks of the decoders

The list of modes in use. `Set` and `Del` are `audio_codec_clock_set` and `_del`,
each whole: the place in the list, the clock of the new entry over or instead of
the first, and the background clock added to or taken from every entry. `own` is
history: what a mode was given without the background.

### UmidigiFrame — the case on the wire

One step is one sample of the 2 ms timer. The line (`Begin`, `Displaced`, `Spike`) is
external: a frame of fifteen bits whose edges come early or late, a wrong sample amid
a run, a falling edge with nothing behind it. `Samples` is `get_port_status`: a run
ends after three samples at the other level (`Turns`), makes bits by its rounded
length (`Bits`), and a whole frame with its check bits (`Valid`) is handed over. All
counters are bytes and wrap. A message is the set of its bits that are 1.

### UmidigiCase — the lid

`TellsOpen`, `TellsClose`, `TellsPair` are the interrupt: `cover_status` and a post that
may fail when the queue is full. `OpenDeal`, `CloseDeal`, `PairDeal`, `InDeal` and `OffDeal`
are the events in app_core, `OpenCallback` and `CloseCallback` the timers, which may end
at any moment after they start. `task_switch_to_bt` blocks app_core (`app` is
"starting") until `Switched`, while the interrupt goes on. `opening` and `closing` are the
timers that run, `open_case_timer` and `timer` what their handles say. A bud in Bluetooth mode that
comes into the case leaves at once or, while the other bud does not yet listen to the phone
of this one, when `ldo5v_in_reset_timer` (`resetting`, `ResetDelay`) gives up; nothing
deletes that timer when the bud is taken out again. A boot in the case reports LDO5V_IN
(`Found`).

### UpdateTws and PairUpdate — updating both buds

`pc` is the wait the master's service is in. Each wait is over when the semaphore is
posted, by whatever answer (`Posted`), or times out. The phone may ask for an update or end
one (`Request`, `FileEnd`) whenever that task is free, in an update or not, complete or not:
the service does not look (`ble_qiot_service.c:628`). A request is refused by the library,
which closes the session, or for want of a link, which leaves it open, or passed on. When the
phone is gone (`Stop`) the slave's share is sent and the session closed; when only the data
stops (`DataStopped`) the flags are cleared first, so `ble_ota_stop` does nothing and the
master's session stays open. An end after a request that was not let start finds
`sg_ota_info` zero and verifies nothing.

The slave's side is one action per message (`Start`, `Data`, `Verify`, `Boot` in
`SlaveReceives`), with the check against the number handled last and the timer that frees
it. The dual-bank library is a queue of jobs (external). The link may hand a message over
twice or go down with what it carries; a bud may be reset. `round`, and the field `at` of
messages and jobs, are history: which end of an update a question, its answer and the job
done for it belong to. `round` is zeroed when the semaphore is posted by anything but the
answer awaited (`Awaited`).

`PairUpdate` is what this is for: a bud boots an image only when it has it whole, the
master only after the slave has adopted it. Nothing is promised of a bud that is `loose`:
one about to burn boot information that no answer to the question asked stands for
(`Loose`; how that comes about is in [5](#5-where-code-and-comments-disagree)).

### AdcScan — the converter

`adc_scan` is one call, from the timer (`Tick`) or from `adc_isr` (`Looks`), with its ways
out: `Busy` (a result is given up), `SecondHalf` of a temperature, `MovesOn` (file,
choose the next entry, start it when it is due). `adc_reset` may come between any two steps
of a task. `adc_isr` is two steps, since a
tick may come after it cleared the converter and before it looks at
`adc_sample_flag`. A result is the channel it was converted from; so what is filed
can be compared with where. `adc_add_sample_ch` is two steps for the same reason.

## 3. The runs

"States" are distinct states TLC finds. Every property is also shown to fail for
one mutant of the code.

| run | states | what it shows |
|---|---|---|
| `power_manage` | 263 653 | under every interleaving of interrupt and task, plugging and reset: every sampling timer is the one `vbat_fast_timer` names or is about to name (`NoOrphanTimer`), the variable never names a deleted one (`NoStaleHandle`), the slow timer is there on battery (`MonitorRunsOnBattery`), a battery that stays low switches off (`LowBatteryShutsDown`) |
| `tws` | 668 881 | with the queue drained a bud's flags agree with the link and the flash (`PairKnown`); a lonely bud always has a timer, a search or a scan (`NoDeadEnd`); a pair without a phone can be found by one (`PairFindable`); a bud with its phone does not go on paging, nor does a slave, unless a role switch found it unready (`PagingEnds`); two running buds meet again (`Together`) |
| `power_off` | 78 349 | a flagged bud has its timer (`TimerArmed`) or, idle, a tone, its end or a call to come (`NotStuckIdle`); each bud lives as `BudLife` says, so a power-off ends (`ImplementsBudLife`); a bud left in the case comes to charge (`ChargesInCase`) |
| `auto_shut_down` | 630 589 | no timer runs on buds that share a connected phone (`QuietInUse`); the bud everybody relies on has a timer (`SomeoneCounts`); buds left without a phone are off in the end (`GoesOff`), both but for `Forgotten` |
| `charge_detect` | 24 962 | no change of the contact is missed (`NothingMissed`); the detection implements `Contact` (`ImplementsContact`) |
| `charging` | 465 706 | a bud that charges can find out that it is full (`NotBlind`), its supply mode follows (`ModeFollows`), a closed charge gets quiet (`ClosedGoesQuiet`), a bud left in the case ends full, its charge closed and its timers gone (`EndsFull`) |
| `umidigi_case` | 52 822 | handles stand for running timers (`NoStaleHandle`); a bud that stays in the open case ends in Bluetooth mode (`OpenEndsInBt`), in the closed case idle (`ClosedEndsIdle`), out of the case in Bluetooth mode or off (`OutEndsInBt`), for good: no reset again and again |
| `umidigi_frame` | 237 817 | a frame that finds the timer free is handed over once, as sent (`HeardAsSent`); a timer that was started ends (`TimerEnds`) |
| `update_tws` | 2 143 597 | the update implements `PairUpdate`, whatever the phone asks for and ends and when (`ImplementsPairUpdate`); a slave does not stay in an update its master gave up (`SlaveLeaves`) |
| `adc_scan` | 545 200 | what is filed under a channel was converted from it, temperature and averages included (`FiledRight`); every channel is read again though results are given up (`Renewed`) |
| `key_driver` | 7 464 | the chip does not sleep over a click (`AwakeWhilePending`), filter (`Debounced`), HOLD and UP after LONG (`LongFirst`), what was pressed is said (`SaidInTheEnd`), a held key goes on sending HOLD (`HoldGoesOn`) |
| `audio_clock` | 577 | every foreground clock is its own plus the background's (`SumOfBoth`), none in use has less than it was given (`EnoughForAll`), the background alone gets its headroom (`HeadroomComes`) |

### Bounds, and why they are enough

- **PowerManage.** Windows of 2 samples, 3 low windows to shut down, readings
  that shut down, warn and do neither, queue of 3. Each counter still
  passes below, at and beyond its limit; two timer ids suffice because a second
  live timer already violates `NoOrphanTimer`. The invariants about timers are
  proved for all values.
- **BtTws.** Budgets of one page and one remembered phone: a budget is only
  tested for zero, kept aside and refilled. Disturbances are limited per
  scenario (`Chances`): one leave; one fade with a phone and one call; a fade with
  a role switch; and a phone that comes
  twice, to the same bud or the other one, before or after a role switch, so that what
  remains of its former link meets both. The hazards listed for this component are each
  about one disturbance racing the queues, or about two of the ones paired here. The
  queue holds three events per bud; a disturbance waits when its events do not fit. The
  four invariants are proved without these bounds; a role switch during a call is
  left to these proofs, so `Together` is not checked for it.
- **PowerOff.** Two buds, since the pair has two. One of them goes into the case
  (`Cased`), the other is asked to power off (`Tired`), both have phone and audio;
  `MaxWait` 1 instead of 200 ticks: the count is reset, compared and exceeded.
  The invariants are proved without these bounds.
- **ChargeDetect.** Filters of 2 and 3 samples keep the three levels apart and
  allow a bounce at every count. Proved for all filters.
- **Charging.** One sample before the deciding one, one report in the queue: the
  handlers post at most START, CLOSE and FULL beside it. `NotBlind`, `ModeFollows`
  and that a closed charge starts no timer are proved for all values.
- **KeyDriver.** Filter 2, click delay 2, LONG 3, HOLD 5, active time 7 keep the
  order of the real ones (filter 2 or 4, click
  delay 20, LONG 75, HOLD 90, active 35) with the smallest active time that
  `KeyDriverAssumption` allows, so an off-by-one shows. Proved for all times that
  satisfy it.
- **AudioClock.** Three modes in the foreground, one of them over others, one in
  the background, with real clocks. `MaxClock` 300 MHz cuts
  off stacks of tones started over tones. The sums are proved for any modes and
  clocks with one mode in the background.
- **AutoShutDown.** Two buds, a timer of two ticks (it can be restarted before it
  ends, and two timers can be a tick apart), three starts of a bud, and one each of: a
  bud put into the case or a fade, a phone that comes, a role switch; or else nothing
  but a phone that comes twice. A phone may go in each of its three ways. That is one
  disturbance more than any of the hazards needs, and the two invariants are proved for
  all of them in any number.
- **UmidigiCase.** One bud: the lid acts on each for itself. Two places in the queue,
  so that a command can find it full while another waits. Proved for every length.
- **UmidigiFrame.** The real ten samples a bit and fifteen bits. Eight frames give
  every combination of three bits among runs of 0 and of 1; edges up to three samples
  early or one late, one wrong sample, one spike before a frame. Proved for any frames.
- **UpdateTws.** Three requests or ends in any order (an update, its end, and one more of
  either to meet what they leave behind), one packet, one fault at any step, one slave whose
  flash may fail. With one packet an end may still come before it, after it, or while its
  answer is on its way, and a packet too few or too many makes an image that is not whole.
  Message numbers modulo 4 instead of 256: only the number handled last is compared,
  and a small modulus makes coincidences likelier, not rarer. The refinement is proved for
  images of any length, any modulus from two on and any number of updates and faults.
- **AdcScan.** The reference, the battery, the temperature, a key and one channel that
  comes and goes, in six entries: every branch on the channel, an entry that stays
  free, the wrap at the end. Two ticks that find the converter at work, which may fall
  on the two halves of one temperature, or resets. `FiledRight` is proved for every queue.

### Fairness, and why the code justifies it

Nothing is assumed of the user, the phone, the battery, the contact, the lid or
the radio, with the one exception named for BtTws. Deadlock is not checked where the
system may really stop: a pair that is off, or a full bud asleep in its case.

- **Timers tick and the task drains its queue** (weak fairness of the timer
  callbacks, of interrupts, of the handlers): RTOS timers are periodic and
  app_core blocks only on its queue.
- **PowerOff:** an accepted synchronised call runs on the bud that issued it, a
  tone that plays ends, a reset bud boots.
- **BtTws:** `Link` is strongly fair: two buds that can reach each other again and
  again do link. Page and scan windows alternate, so a meeting may be missed any
  number of times but not for ever. `CreateTimesOut` is weakly fair: a search with a
  timeout ends.
- **AutoShutDown:** queues and calls are served, a bud that leaves goes (which is what
  PowerOff shows), a page ends, time passes.
- **UmidigiCase:** the case repeats its commands as long as the contact is there and
  pauses longer than the two seconds of the timers (else a lid that goes on telling
  would restart them for ever); a reset that is put off comes (`delay_timeout`); a weak battery is charged by the case.
- **UpdateTws:** the slave's timer ends; nothing is assumed of the master's service, the
  link or the phone.
- **UmidigiFrame:** the timer ticks. **AdcScan:** the timer ticks, interrupts are
  served, periods pass; a tick finds the converter at work only `MaxLate` times,
  because a conversion takes a small part of the 2 ms between ticks.
- **KeyDriver:** only the scan.
- **AudioClock:** the check, while the voice trigger, whose task asks for it, is in
  use.
- **Charging:** a battery that is charged rises; steps, handlers, timers,
  interrupts; the power-off ends (which is what PowerOff shows). Nothing of the sleep.

## 4. The proofs

TLAPS checks every theorem and lemma of the `_proofs` modules to the last leaf,
for every value of the constants that the assumptions named below allow. Each
safety theorem follows the same path: an invariant that is inductive (TLC has found no
state of the runs outside it), one lemma per action, and PTL for the last step. Every
component has its types proved. Three of the modules are about several components that
share no variable; names that two components would share carry the component's own
(`ScanSpec` of AdcScan, `DetectSpec` of ChargeDetect, `ClockSpec` of AudioClock,
`FrameSpec` of UmidigiFrame).

TLAPS does not do liveness under fairness. What a liveness property says beyond fairness
is proved where it can be stated as a step: either a **ranking**, a natural number that
the fair step lowers and no other raises until the goal (`SaidInTime`, `HoldInTime`,
`ReportedInTime`, `TimerRunsOut`), or that the goal, once reached, is **kept**
(`ClosedStaysQuiet`, `RestsForGood`), or that what brings it about is **under way**
(`AlwaysOnClock`). The rest, that the step is taken again and again, is the fairness named
above.

### The battery and the converter: `Battery_proofs`

- **PowerManage**: `OrphanFree`, `HandleFresh`, `MonitorKept`. The property
  alone is not inductive: between the test of `vbat_fast_timer` and the store of
  the new id the interrupt may clear the variable. `AddInProgress` says what the
  task may rely on there: the variable is and stays 0 (the interrupt can only
  clear it), and the new timer, which the interrupt cannot name, still runs.
  `MonitorTypeCorrect` is the types with the bound of each count; it needs `WindowFits`, that
  a window counts no more low readings than it has samples. Its proof showed that `voice` may pass
  its limit when the limit is 1, which no run's constants did.
- **AdcScan**: `AlwaysFiledRight` and `ScanTypeCorrect`, for every queue, set of channels and
  lateness. `FiledRight` says nothing of a conversion still going on; the invariant
  `Kept` says what `adc_sample_flag` promises of the result to come (`FlagMeans`): 1, it
  belongs to the entry `cur_ch`; 2, it is the first half of a temperature; 3, the first
  half is put aside and this is the reference; and nothing at 0, where it will not be
  filed. An entry that a channel left and came back to is the reason for
  `Belongs`: only the one channel that comes and goes can be in it.

### Contact, keys and clock: `Drivers_proofs`

- **ChargeDetect**: `DetectTypeCorrect` (with the bound of each counter by its
  filter) and `AllNoticed`, which is inductive with the types: an edge is pending or
  the timer runs whenever the level has changed. `PromiseKept` is the safety half of
  the refinement of `Contact`: the filters bound the counters, so a report is made in
  the very sample that sees the level. `ReportedInTime` is the ranking of its liveness half:
  no count is lost to a bounce (`charge.c:288` clears only at a filter), so the samples
  left until every counter is at its filter go down with each one that reports nothing.
- **KeyDriver**: `SleepsBetweenClicks`: `AwakeInv` says that, while something
  is pending, `is_key_active` has lost at most one for each scan of the filter and
  of the wait for another click, so `FilterTime + ClickDelay + 2 < ActiveTime` is
  what the sleep needs. `FilterWorks` rests on `filter_cnt <= streak`,
  `HoldAndUpAfterLong` on `held = last_key` in a long press, and `UpFollowsLong`
  shows that with one key the UP is never lost (with two it is, see
  [5](#5-where-code-and-comments-disagree)). `KeysTypeCorrect` includes what an event may
  be. `SaidInTime` and `HoldInTime` are rankings: the scans left to the filter
  (`FilterRank`) and then to the wait for another click or to the next HOLD; with
  `AwakeInv`, the chip does not sleep while there are any. They give numbers, too: a click
  is said within FilterTime + ClickDelay + 3 scans, HOLD sent at least every
  FilterTime + HoldTime + 1.
- **AudioClock**: `ClockTypeCorrect`, `SumKept`, `AlwaysEnough`, for any modes and clocks
  with at most one mode in the background (`OneBehind`; with two the sum is wrong, see
  [5](#5-where-code-and-comments-disagree)). `ClockInv` says there is a number b, the
  clock of the background, such that every entry has its own clock and b; it adds that
  the clocks of the foreground descend in the list and that `sys` is at least that of
  the first entry, which is what makes a `Del` of the first leave enough for all the
  others. `BackgroundIs` evaluates the fold the code's loop is modelled by.

### The pair: `BtTws_proofs`, `AutoShutDown_proofs`, `PowerOff_proofs`

- **BtTws**: `PairAlwaysKnown`, `NeverDeadEnd`, `AlwaysFindable`, `PagingStops`, `TypeCorrect`, for any
  budgets, queues and disturbances. The properties speak of empty queues; the invariant
  says what the queue of each running bud has to hold otherwise. `Knows`: the last event
  of the link in the queue tells of the link as it is, or there is none and the flag is
  right. `Good`: a bud without sibling and phone has a timer, a search or a scan and no
  event that would take it away, or an event to come that gives it one (`Revives`) with
  none after it that takes it (`Kills`). `Shown` is the same for the master of a pair
  without a phone, with the events that take away the scan or bring it (`Hides`,
  `Shows`). Both are instances of one statement about queues (`Without`, `After`), whose
  lemmas say what appending and taking an event do to it; `HandleKeeps` and `AllAdd` are
  the two shapes of a step, a handler and a change of the radio. `PagingStops` has the exception of
  the property and no hypothesis. It needs `Led`, that the master of a linked pair is the
  one with the phone, so that a role switch with the phone makes unready only the buds it
  names. `Hushed`
  says of a bud that has its phone that it is calm and no event in its queue stirs it, or
  that HCI_CONNECT, which calms it, is to come and nothing after it stirs; `Stopped` that
  the timer of a slave is off, or CONNECTED or HCI_CONNECT, which stop it, are to come, or
  ROLE_SWITCH, which does when there is no phone.
- **AutoShutDown**: `AlwaysQuiet`, `SomeoneAlwaysCounts`, `TypeCorrect`, for any length
  of the timer and any disturbances. `QuietInv` says for each bud that shares a connected
  phone what will still stop its timer: an event in its queue or a call under way that
  disables it and nothing after it that starts it again. `HandleInv`: a bud whose timer
  has run out, and which is not leaving yet, has its POWER_OFF_TOGETHER under way (the
  handle stays set for a timer that no longer runs). `StartInv`: a bud that is on and
  shares no phone has an event in its queue that starts its timer and none after it that
  stops it, or no event that stops it and a timer, a search or a call that leads to one.
- **PowerOff**: `AlwaysArmed`, `NeverStuckIdle`, for any finite number of buds. `Sound`
  relates application, flag, timer and handle of a bud at every step; `~Stuck`
  follows the tone from the call to its end. The case that matters is the flush:
  a bud empties its queue in the very step that issues the call for its tone.
  `LivesAsPromised` is the safety half of the refinement of `BudLife`: with the same
  invariant every step moves one bud as `BudLife` allows or none. `PowerOffTypeCorrect` is
  the types.

### The case: `Charging_proofs`, `UmidigiCase_proofs`

- **Charging**: `NeverBlind`, `ModeAlwaysFollows`, `ClosedStaysQuiet`, `ChargingTypeCorrect`. `NotBlind` speaks of a task between two
  calls; the invariant carries it through their steps by the place the task is at: before
  "go" of `charge_start` something already watches, after "disable" of
  `charge_close` nothing charges. Only `FullReached` closes the wake-up, and it has
  posted FULL then, which stays in the queue until `charge_full_deal` closes the
  charge. `ModeInv` adds to `ModeFollows` what holds while events wait: the last START or CLOSE
  in the queue says whether the bud charges. `ClosedStaysQuiet` rests on
  `Trickles`: `cc_timer` runs only while the bud charges or at the two places in a task
  where it is about to be started or deleted; so after a close it is off, and
  `charge_timer`, which only it starts again, can only stop.
- **UmidigiCase**: `HandlesLive`, `RestsForGood`, `Typed`, for every length of the queue. The handle of
  the open lid is kept while it switches the bud on, so the invariant carries with it
  when that is: `switch2bt` only in "starting", and no timer then. `RestsForGood` is about
  the states in which a bud is as the case wants it and nothing queued or timed would
  change that (`OpenRest`, `ClosedRest`, `OutRest`): as long as the user leaves lid and bud
  alone, no step leaves them. That the bud gets there is TLC's part of `OpenEndsInBt`,
  `ClosedEndsIdle` and `OutEndsInBt`.
- **UmidigiFrame**: `FramesHeard` and `FrameTypeCorrect`, for any frames and both lengths of
  a bit, and `TimerRunsOut` for bits of 20 ms. `FrameInv` knows of each sample of a frame where the receiver is: it believes the
  level of the line (`Settled`), or the line has turned and that has been seen up to twice
  (`Turning`); either way `keep_cnt` is the number of samples since the run was noticed
  (`Since`), and the message is the frame up to the run. So a run of n bits is measured as
  10 n samples and a few (`RunCounted`), which `Bits` rounds to n if they are between
  -5 and 4. That gives the hypothesis `Punctual`: an edge comes at most one sample late,
  edges stray by at most four samples in all, and at most two samples of a frame are read
  wrongly. TLC finds a frame that is lost if any of the three is one more. `TimerRunsOut`
  needs none of the three: `Rank` counts what the line has left of a frame, then the
  samples until the level is believed high and `timeout_cnt` reaches its limit. `InTime`
  says that the byte `timeout_cnt` does not wrap before the limit of 160 samples; at 40 ms
  the limit is 320 and it does, so the theorem is for 20 ms only.

### The update: `UpdateTws_proofs`

- `PairKept`: every behaviour of UpdateTws is one of `PairUpdate`, for images of any
  length, any modulus of the message numbers from two on, any flaw of the flash and any
  number of requests, ends and faults. It has no hypothesis; what `PairUpdate` does not
  promise of a loose bud is the property's own exception. `Protocol`, the invariant
  beside the types (`Sound`), says what a round is worth. `WaitInv`: while the master waits
  in one, its question is still on its way to the slave or being done (`Asked`), or the
  slave is idle and the answer on its way (`Answered`) or counted (`Told`), and a yes is true
  of the flash. Old answers may still be under way; the one that is counted for another ends
  the round, so nothing is claimed then. `SureInv`: boot information the slave was asked for
  in a round is its next job, over a whole image. `OwnInv`: the same of the master, over two
  whole images, the slave's adopted, and nothing under way that would touch it (`Settled`).
  `RoundInv` and `PastInv` bind a round to the latest end. So what is not loose keeps the
  promise, and what is loose is an answer taken for another or an end that verified nothing.
- `TypeCorrect`, and `AlwaysOnClock`: a slave in an update, or with flash still to
  write for one, has its timer running. So nothing in it can be ended by the master alone,
  which may have given up; that the timer ends it is `SlaveLeaves`.

### What the theorems assume, and what is only model-checked

The assumptions are the named ASSUMEs of the modules (sets are finite, bounds
are naturals, and for KeyDriver the order of the times); TLC evaluates them with
the values of each run. Where a theorem has a hypothesis of its own (`OneKey`,
`OneBehind`, `Punctual`, `Timer2CMessage = 20`) the text above says why it cannot do
without. The runs satisfy all but `OneKey`, which `UpSent` alone needs.

Only model-checked: all liveness (`LowBatteryShutsDown`, `Together`, `ChargesInCase`,
`GoesOff`, `SaidInTheEnd`, `HoldGoesOn`, `HeadroomComes`, `ClosedGoesQuiet`, `EndsFull`,
`OpenEndsInBt`, `ClosedEndsIdle`, `OutEndsInBt`, `TimerEnds`, `SlaveLeaves`, `Renewed`, and
the fairness of `BudLife` and `Contact`), since TLAPS does not do liveness under
fairness; of some of these the part that does not need it is proved, as said above, and
the step from there to the property is TLC's.

## 5. Where code and comments disagree

Each was found as a counterexample of TLC to the property or with the constants named.
The runs listed in [3](#3-the-runs) keep clear of them, so none of those runs shows
them; to see one, give the module's configuration the change named. For the last two,
where the runs do meet the case and the property excepts it, take the exception away.

- **A weak bud in the case** (PowerOff with every bud in `Weak`, `ChargesInCase`):
  `charge_ldo5v_off_deal` powers a weak bud off without a look
  at the charger (`app_charge.c:587`). A bud taken out and put back before the
  event is handled is switched off in the case, and the edge that would wake it
  has passed. The comment at `app_charge.c:409` gives the avoidance of just this as
  the reason for a reset.
- **OFF without a steady low level** (ChargeDetect, `OffWhenSteadilyOff`): `ldo5v_detect` clears the counters of the other levels only when
  a count is reached (`charge.c:288`), so low samples that are not in a row add up;
  `charge.h:113` asks for a level below 0.6 V for longer than the filter time.
- **A lost UP** (KeyDriver with two keys, `UpSent`): on a ladder of keys a finger that slides from a long-pressed key to
  another takes the branch for a key pressed from none (`key_driver.c:144`); the UP
  of the first key that line 136 promises is never sent.
- **Counted twice** (AudioClock with two modes in `Background`, `SumOfBoth`): with two modes in the background the clock of the second is added
  to the entry of the first too (`audio_codec_clock.c:171`), so later sums count it
  twice; the comment at line 234 says the clock is the sum.
- **Full detection in trickle** (Charging, `DetectsInCC`): `charge_start` in trickle leaves the wake-up of the full flag
  as it is (`charge.c:173`). After a short loss of supply and a fallen voltage it is
  still open; the comment at line 165 says it opens in constant current.

- **A message taken for a repeated one** (UpdateTws with `SnMod = 256`,
  `DropsOnlyRepeats`): `update_tws_new.c:405` drops a message whose number is the one
  handled last. The number outlives a reset of the sibling, whose numbers start again
  at 1, so the first message of the next update can be dropped. The update is then
  given up and can be repeated.
- **The bit of 40 ms** (UmidigiFrame with `Timer2CMessage = 40` and the frames
  `MCFewFrames`, `TimerEnds`): the header
  `include_lib/driver/cpu/br28/asm/umidigi_chargestore.h:11` and the boards offer it. The
  limit of the time-out is 320 samples then, but `timeout_cnt` is a byte, so the time-out of
  `umidigi_chargestore.c:72` never comes, and after a falling edge without a frame the
  timer runs for ever.
- **A bud that is forgotten** (AutoShutDown, `GoesOff` or `SomeoneCounts` without
  `Forgotten`): the board promises "no Bluetooth connection, automatic shutdown"
  (`board_jl701n_demo_cfg.h:954`). A timer that runs out on a slave keeps its handle
  (`earphone.c:986`), and `enable` later starts nothing when that bud is alone or
  master; and a slave that loses its master together with the phone gets no timer at
  DETACH (`bt_tws.c:1672`). Both stay on.
- **Paging on after a role switch** (BtTws, `PagingEnds` without `surprised`): `ROLE_SWITCH`
  leaves alone a bud whose pair has a phone (`bt_tws.c:1887`). The new master may get the
  phone with a search to time out, phones of its list or power-on tries still to page for;
  the old one may keep the timer of a turn. Both go on until the budget or the phone is
  gone. Two links of a phone and one role switch are enough. The handler of a phone's
  connection deletes the timer (`bt_tws.c:1041`); this way a bud comes by the phone
  without it.
- **An answer taken for another** (UpdateTws, `ImplementsPairUpdate` with nothing `Loose`).
  All answers post one semaphore, and the phone need not wait for them. The answer to the last packet,
  when it comes after `tws_ota_enter_verify` has cleared the semaphore
  (`update_tws_new.c:219`), counts as a verification passed; the verification's own, a
  no included if a third answer is late, may then count for the boot information, since
  `tws_ota_exit_verify` clears nothing (`:251`). And an end without a request that was let
  start compares the crc of nothing with the zero of an empty `sg_ota_info`
  (`ble_qiot_llsync_ota.c:466`, `:484`) and burns. So a slave can burn boot information over
  an image that is not whole, or the master before its slave. Unless one of the two
  happens, it cannot: that is what is proved.
- **A session left open** (UpdateTws): when the data stops, `ble_ota_timer_callback` clears
  `sg_ota_flag` (`ble_qiot_llsync_ota.c:264`) and then calls `ble_ota_stop`, which returns
  at `:331` because of it. The master's session is closed only by the next request or the
  loss of the link; the slave's timer closes its own.

## 6. What is assumed

- **Pins.** The filter of a wake-up pin delays an edge by more than a sample
  takes, so in ChargeDetect a sample is one step.
- **AudioClock.** Each call is one step, though the list has no lock and decoder
  tasks call too. A mode that preempts starts after the others gave up their
  entries, which is what the decoder queue (external) does.
- **PowerOff.** A user's held key is slower than a synchronised call. A battery does
  not fill up during a power-off. The tone of the synchronised call can be
  played; the one played locally may fail. Both buds are up and unlinked at first.
- **BtTws.** Built with `CONFIG_NEW_BREDR_ENABLE`, automatic pairing without
  unpairing, no test box. The controllers do what the comments of `tws_api.h` say;
  when the link goes, the slave's share of a call is closed before the loss is
  reported.
- **KeyDriver.** One driver at a time; a press (an edge) wakes the chip and sets
  `is_key_active`; the scan timer stands still in sleep.
- **Charging.** Interrupts do not nest. The full flag is right at once when
  charging is enabled, does not rise in trickle, stays up when the supply goes
  for a moment and is arbitrary (`Noise`) while there is none. The battery is
  slower than the filters, and it is not weak when it is taken out. The lid's
  callbacks come when the contact is known. `TCFG_CHARGE_POWERON_ENABLE` is off, as
  the board of the tree has it.

- **AutoShutDown.** Links are made, roles switched and buds put into the case, and
  the profiles of a phone connect, when queues and calls are empty: hands and radio are
  slower than app_core. Noise cancellation, which keeps the timer off
  (`earphone.c:1004`), is off.
- **UmidigiFrame.** A bit is ten samples but for the edges named in the bounds: the
  first run measures three samples long, so more than one sample late is not tolerated
  there by the code either.
- **UmidigiCase.** The charger's report after a boot (some 100 ms) comes before a timer of
  the lid (two seconds) can end. The delayed reset may take any time (three seconds).
- **UpdateTws.** The library writes, verifies and burns in the order asked, and nothing
  without an open session. The crc of an image that is not whole is not the file's.
- **AdcScan.** `adc_scan` is one step also when `adc_isr` calls it: it is a few
  instructions, two milliseconds after the tick before. One channel at most
  comes and goes, as `ntc_det` would have it: with two, a result could be filed under
  the other. Nobody occupies the converter (`adc_queue[ADC_MAX_CH]`).

## 7. What is not modelled

Parts that later work should add are in [8](#8-plan). The rest stays out:

- **Behind closed libraries**: controller and stack, decoders, noise cancellation,
  image writing in updates, USB controllers. The models take what the source
  around them relies on.
- **Output only**: LED patterns, user interface, effects and their tuning.
- **Not built for the boards of this tree**: the other charging case, the external
  charger, background Bluetooth, line-in and PC modes, the wireless microphone.
- **Production**: test box, automatic tests, ANC tuning.
- **Built or used by no board of the tree**: in-ear detection, applications beside
  Bluetooth, the clock manager (its callers are PC audio and an adapter).
- **Little state of its own**: volume synchronisation, a table and one call per change.
- **Drivers and vendored code**: registers, DMA rings, flash, file systems, Tuya,
  Tencent, cJSON. The LiteEMF layer is thin wrappers; the framework behind it is not
  in the tree.
- **Touch keys**: the filter runs in a low-power core whose program is not in the
  tree.

In the parts that are modelled, logging, UI calls, the volume ramp and the
data of settings are left out.

## 8. Plan

In this order; each is a module of its own with its run, and the theorems follow
where the invariant allows it.

1. **TonePlayer** with the list of a synchronised tone, and its calls into AudioClock: a
   tone that fails to open leaves its entry today. Tones have a priority of their own
   in the decoder queue, and only tones of a file are recognised at their end by a
   number, not those of a sine.
2. **Ringing**: an incoming call on both buds. `phone_timer_id` is not cleared when its
   timer ends, and the waits start one another again (`bt_tws.c:372`, `:396`), so what a
   hang-up deletes need not be what runs.
3. **UartRx**: the ring the DMA of the serial port writes and a task reads.
4. Compositions: Charging, AutoShutDown and BtTws on `BudLife` instead of their own
   short forms of it; PowerManage and KeyDriver on the values of AdcScan;
   Charging's lid on UmidigiCase.

Theorems worth proving next: the clock of AudioClock with more modes in the background,
once their sums are right; the steps of the compositions of item 4, from the safety halves
of the refinements already proved.
