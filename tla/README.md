# A verification project for the MC20 vehicle tracker firmware

The repository is the firmware of a vehicle tracker: a Quectel MC20 module
(GSM/GPRS and GNSS) running user tasks on the vendor's real-time system
(OpenCPU).  It reports positions to a monitoring platform over TCP (protocol
JT/T 808), stores the reports that are not acknowledged in flash ("blind
area"), uploads them later, takes commands from the platform, by SMS and over
the serial line, updates its own firmware, and powers down between reports.
This directory holds TLA+ models of its core, the TLC runs that check them, and
proofs checked by TLAPS.

## 1. Inventory

Five tasks of the user run concurrently (`custom/config/custom_task_cfg.h`):
main, report, blind, system control and indicator.  They share plain global
variables; there is one semaphore and no mutex.  Timer callbacks, socket
callbacks, serial input, text messages and messages to the main task run one at
a time inside the main task: a timer can be started only by the task that
registered it (`ql_timer.h:82-84`), and main registers all timers, the serial
port and the sockets.  So every handler of a platform command runs in main.

| Component | State | Operations | Hard behaviour |
|---|---|---|---|
| Blind-area queue (`Blind.c`) | control record `head`, `tail`, `queueLen` in RAM; slots and a copy of the record in flash | enqueue, dequeue, backup, resume, write record | three tasks update one record without a lock; wrap round; full/empty; the record in flash lags behind |
| Blind-area upload (`Blind.c`, `main.c`) | semaphore, `blindProbe`, `reportAck`, `shamLinkCount`, one timer | `proc_blind_task`, upload timeout, reply, login | lost, late and repeated replies; saves during an upload; the token that allows the next upload; dead links |
| Connection (`tcp_log.c`) | `m_tcp_state`, two timers, `m_socketid`, login flag, failure count, receive buffer | tick every 800 ms, 90 s watchdog, socket and GPRS callbacks, send, close | callbacks in unexpected states; waits without end; leaked sockets; the other tasks close the socket |
| Timed tasks (`SysCtrl.c`, `Taskschedule.c`) | table of entries, mailbox, shared result variable | scan every 25 ms, run a handler, switch an entry on or off | stale messages; a full mailbox; a result that outlives its handler |
| Delayed commands (`Report.c`) | `DelayAckCommand` | accept, delay, carry out | one slot for all commands; reset two steps after the backup |
| Reports and low power (`Report.c`) | report status, second counter, alarm offset, intervals, tracking record in FRAM, reply flag, save timer | report, wait 15 s, save or not, power down or not, wake up | a reply races the flag; the next report races the wait; the alarm is computed before commands change the interval; restarts |
| Protocol (`RadioProtocol.c`) | receive length, transmit buffer, serial number | find a frame, unescape, check, dispatch, answer | frames cut and joined by reads; escapes; commands that change the other components |
| Remote upgrade (`UpdateFirmware.c`, `custom/fota`) | upgrade flag, result byte in FRAM, note state | order, download, retry, update, note the result | the retry shares a timer with low power; every end is a restart; the note meets lost links and orders |
| Parameters (`FilePram.c`, `E2ParamApp.c`, `ComParam.c`, `SystemInit.c`) | one file, a record and an additive check sum for each parameter; copies in RAM | write, read back, write again, compare, refresh, defaults | failing and torn writes; a first start that is interrupted; two tasks refresh the copies |
| Files of the blind area (`BlindFile.c`) | one file | create | a creation that is interrupted |
| Watchdogs (`Watchdog.c`), low voltage (`LedCtr.c`) | counters | feed, shut down | shutdown in the middle of a save |
| Inputs (`Io.c`), positioning (`Gps_*.c`), mileage, time, SMS | sensor data | scan, convert, parse | little interaction beyond the saves and commands they cause |
| RIL, cloud client, examples, headers | vendor code | | outside the project |

### What makes each component correct

* Queue: slots stay inside the flash area; length, head and tail agree; oldest
  first; a slot never written is never presented.
* Upload: one pack at a time; a record leaves the store only to the platform or
  by eviction; an online terminal always has a token; a dead link is noticed.
* Connection: every wait ends; the machine keeps its motor; no socket is
  forgotten; the terminal comes back from every state.
* Timed tasks: the inputs are scanned for ever; the last acknowledged command is
  kept and carried out.
* Reports: every report is acknowledged or saved; a device that sleeps is woken
  for its next report; reports go on; the device gets back to low power; a
  tracking survives restarts.
* Upgrade: it ends; the device stays awake under it; the platform is told the
  true outcome of every order.
* Parameters: every one can be read; the copies agree with the file; what an
  answered command has written is in the file.
* Protocol: only what was sent is handled; every command is answered with its
  own number; a damaged frame does not spoil the next.

## 2. Modules

| Module | Models | Proofs |
|---|---|---|
| `BlindStore` | abstract: what the blind-area store promises | |
| `BlindQueue` | pure updates of the control record | lemmas in `BlindUpload_proofs` |
| `BlindUpload` | tasks and environment around the queue; extends `BlindQueue`, implements `BlindStore` | `BlindUpload_proofs`, `BlindStore_proofs` |
| `TcpLink` | connection state machine | `TcpLink_proofs` |
| `SysCtrl` | timed tasks and delayed commands | `SysCtrl_proofs` |
| `Report` | position reports, low power, temporary tracking | `Report_proofs` |
| `Upgrade` | remote upgrade and the note of its result | `Upgrade_proofs` |
| `Params` | parameter file, its writers, its copies | `Params_proofs` |
| `Receive` | frames of JT/T 808 as bytes, dispatch, answers | `Receive_proofs` |

The constant `Hazards` of a module is the set of disturbances admitted: each
one is something the code does not exclude, and names the guard it removes.
With `Hazards = {}` a model is the ordinary course of events.  A property that
also holds under a disturbance is checked with it; section 3 lists the
disturbances that break one.

### `BlindStore`, `BlindQueue` and `BlindUpload`

A record is the number of its save, a slot index stands for its flash address.
The control record in RAM is `q`, the one in flash `node`, the copy that
`Blind_NodeBackup` takes `backup`.  The blind task is split at every point where
another task can see or change shared state: take the semaphore and read the
flag, test for empty, backup, read a slot, advance past it, send and request the
timer, set the probe.  The upload timeout `ReportTimeout` is one step of the
main task up to the release of the semaphore, and `ResetProbe` is its last
statement, because the blind task can run between the two.  A save is split at
its flash write (`SaveWrite`, `SaveCount`).  The connection appears as three
facts: the login flag `auth`, whether the link really reaches the platform
(`link`), and the packs and replies on the way; the module `TcpLink` refines it.

`Crash` may happen between any two steps; `PlannedReset`, `BackUpNode` and
`PowerDown` write the record first, as the code does.  `evicted` is history: what
was overwritten when the store was full, and what a crash gave up because it was
saved after the record was last written.  A planned stop gives nothing up.

`BlindStore` knows neither packs nor copies: records are put, the oldest gives
way when there is no room, and the oldest ones leave once the platform has them.
The refinement mapping of `BlindUpload` shows it the queue that would remain if
the pack under way failed (`Settled`): the copy, with the save that the probe
has noticed, until the pack is confirmed.

Disturbances: `second_save` (several saves during one upload), `overlapping_save`
(a save during the preparation of a pack), `relogin` (a login while a token is in
use), `late_reply`, `late_probe_reset` (the blind task runs before the callback
has reset the probe), `reset_in_save` (another task writes the record or stops
the device in the middle of a save).

### `TcpLink`

One action for each state of `Timer_Callback` and each outcome of its library
call, one per callback, and the things the other parts do to the connection.
`sock` is the socket that `m_socketid` names or named last, `leaked` counts the
open sockets it no longer names, `pdp` is the PDP context.  The library is
external: its behaviour is taken from its header and its use.  `SleepAtLogin` is
the power down inside `Net_First_Login`; `Restart` is what any reset leaves.
`SendError` is a failed send of the main task, or of another one that the main
task does not preempt; `SendStarts`, `SendDone`, `SendCloses` and `SendForgets`
are the statements of a send of another task (`Communication_SndMsg2Svr`), one
such task at a time, with any steps of the main task between them.

Disturbances: `close_success`, `deauthorise`, `sync_connect`, `slow_dns`,
`deactivate_fails`, `gsm_drop` (a drop that leaves the context up), `slow_send`
(the main task runs in the middle of a send of another task).

### `SysCtrl`

`Tick` is `TimerTaskScheduler`; a count is kept as the ticks `left` until it is
reached.  `Accept` and `SetTimerTask` are the two statements of a command's
handler in the main task (the system control task can run between them);
`StartDelayed` ... `ClrTimerTask` are `DelayTrigTimeTask` and the test that
follows it.  The commands are those that the build can set: 7 (`reset`), 5
(`restart`), 12 (`shutdown`), 14 (`report`), 0x0500 (`control`).  Entries that
are never switched on are left out.

A command may come at any time, because the main task looks at nothing before
it sets `DelayAckCommand` (only 0x0500 waits until the entry is off).  So a
command may overwrite one that waits, and one that comes while the control task
stands between the start of `DelayTrigTimeTask` and the `ClrTimerTask` after it
(`SysCtrl.c:84-87`), also for a stale message that found nothing to do, may be
cleared or switched off with the old one.  The history variable `owed` is the
last command acknowledged outside that window, until it is carried out:
`NoCommandStranded` and `EveryCommandRuns` speak of that one.

Disturbance: `backlog` (a delayed command takes longer than a tick, which a
flash write or a socket send does).

### `Report`

`now` is the clock modulo `Cycle`; `Second` advances it.  The report task is
`ReportInit`, `Reached`/`CountSecond`, `SendReport` and `ClearAck`: between the
last two statements of a report the reply can arrive, which is why the module
splits them.  The main task has the rest: `StartSaveTimer` (the message
`MSG_ID_BLIND_SAVE`), `SaveTimeout` (save the report or not, power down or not),
`Report_CmdAck`, `Net_First_Login` with its own power down, the two halves of
0x8202 (`TrackSpace`, `TrackCount`; the report task can run between them), a new
interval by text or by the platform, and the alarm.  `fOffset`, `fTrack`,
`eSleep`, `eTrack` survive a restart.  `dropped` is history: a report that was
neither taken by the platform nor saved.

Disturbances: `slow_task`, `late_reply`, `foreign_ack`, `quick_report`,
`stop_track`, `retrack`, `rtc_change`, `key_wake`; each is explained where it is
declared.

### `Upgrade`

`stage` says how far the download in the main task has come, `flag` is
`NetOther_FtpVal.flag`, `flash` the byte that survives, `armed` the timer
`LOGIC_BLIND_SAVE_TMR_ID` that reports and retries share.  The note of the
result is the machine of `Updata_SendResultNoteTimeTask` (`step`, `polls`).
`updated` and `owed` are history: whether the firmware of the last order runs,
and whether its outcome has yet to be sent over a link that was up.

Disturbances: `report_in_retry`, `get_refused`, `crash_in_update`,
`order_during_note`, `drop_during_note`, `off_before_note`, `slow_login`.

### `Params`

A record in the file is a value, was never written (`Blank`) or has a check sum
that does not fit (`Bad`).  The main task's write is split into write, read
back, write again, what the caller does with the result, compare and refresh,
because power fails and the report task reads between them.  The report task
refreshes its copies after a login (`ReportRead`, `ReportAssign`).  A write may
fail any number of times.  `PassOver` is what happens to the entries of a list
that are not written: a value with more bytes than its parameter, or of a
parameter that cannot be set (`Long`), is skipped and the list goes on to its
answer; an identifier that no parameter has (`Unknown`) ends the list without an
answer, and what stood before it stays written.  So `AnswerTrue` speaks of the
values that fit.

Disturbances: `crash_in_first_start`, `fail_in_first_start`, `half_write`,
`short_value`, `stale_update`.

### `Receive`

A message is one byte of each field of its header, a body and a check sum
between two flags; escapes, the search for the flags, the length and the
exclusive-or are computed on bytes, by recursive functions (`TransMean`,
`unTransMean`, `XorVerify`, `Xor` bit by bit).  What JT/T 808 prescribes is
written apart from them (`Escapes`, `Checksum`, `Prescribed`).  A read of the socket is one frame, or with
`many` several, or with `cut` a part of one, and the buffer may be too short.
There are two limits: the buffer of the read (`RecvBufferLen`, 2048 bytes) and
the longest message that `RadioProtocol_CheckRecvData` takes
(`ProtocolBufferSize`, 1024).  A whole frame between the two is dropped without
a word (`RadioProtocol.c:1624`), and `WholeFrameHandled` speaks of the others.
The body of `RadioProtocol_AddRecvDataForParse` is a comment, so the receive
length is always zero and nothing is kept between reads.

## 3. Runs

Passing runs:

| Run | Shows |
|---|---|
| `blind_calm` | `OnePackOut`, `NoSilentLoss`, `QueueShape`, and that the upload implements `BlindStore`, through lost replies, dropped and dead links, repeated logins and evictions |
| `blind_all` | `TypeOK`, `TokenHeld`, `NoPhantom`, `DrainsWhenOnline`, `DeadLinkNoticed` with two savers, several saves per upload, late replies, and a crash or a planned stop anywhere |
| `link_calm` | `MachineRuns`, `NotStranded`, `NoSocketForgotten`, and `Reconnects`: connected and logged in, again and again |
| `link_all` | `TypeOK`, `WaitsAreWatched` under every disturbance, sends of another task statement by statement among them |
| `sys_all` | `TypeOK`, `IoNeverStops`, `NoCommandStranded`, `EveryCommandRuns` with commands at any time, slow ones, stale messages and a mailbox that overflows |
| `report_calm` | `NoReportDropped`, `WakesBeforeReport`, `ReportsGoOn`, `LowPowerAgain` through lost links, crashes, upgrades, tracking, new intervals |
| `report_all` | `TypeOK`, `TrackingSurvives` with reports that overlap, trackings that are stopped, changed intervals, lost links, power-ons by key and a crash between any two steps |
| `upgrade` | `TypeOK`, `ResultTrue`, `OutcomeKept`, `NoPowerDownInUpgrade`, `UpgradeEnds`, `OutcomeSent` through failing downloads, retries, lost links and crashes |
| `params` | `TypeOK`, `Readable`, `RamAgrees`, `AnswerTrue`, `CommandsEnd` with failing writes, logins, delayed restarts and a power failure |
| `receive` | `TypeOK`, `HandledWasSent`, `AnswersMatch`, `WholeFrameHandled` over frames that are whole, cut or joined, and all bytes that need an escape |

Violation runs.  Each checks what a comment of the repository says and finds
what the code does instead.

| Run | The comment says | The code does |
|---|---|---|
| `receive_many` | several commands may arrive at once and are registered in a list (`RadioProtocol.c:1669`) | only the first frame of a read is handled |
| `upgrade_retry_lost` | five attempts to connect, or the module restarts (`fota_ftp.c:18`) | a report during the wait for a retry ends the retries without a restart |

### Known divergences

Other places where the code does not do what a comment says, or where a
disturbance that it does not exclude breaks a property.  Each can be reproduced
by adding the disturbance to `Hazards` (and to the limits of the run what it
needs) and checking the property.

| Property | Disturbance | What happens |
|---|---|---|
| `BlindUpload!ConfirmedPackArrived` | `late_reply` | a late reply confirms the pack sent after it, against `Blind.c:9-10` |
| `BlindUpload!NoSilentLoss` | `second_save` | of several saves during one upload one is kept, against `Blind.c:391` |
| `BlindUpload!NoSilentLoss` | none, with a planned stop (`MaxBoot` 1) | the record is written without the pack under way |
| `BlindUpload!DrainedBeforeLowPower` | none, with a planned stop (`MaxBoot` 1) | the device sleeps while the last pack waits for its reply, against `22G.txt:6` |
| `BlindUpload!OnePackOut`, `NoPhantom` | `relogin` | a login during an upload starts the next pack |
| `TcpLink!Reconnects` | `close_success` | a close reported with success starts a timer in a state that does nothing, against `tcp_log.c:623` |
| `TcpLink!Reconnects` | `deauthorise` | a refused terminal keeps its socket and rests, offline |
| `TcpLink!NoSocketForgotten` | `slow_dns` | each tick repeats the name query, the second answer opens a second socket |
| `TcpLink!NoSocketForgotten`, `Reconnects` | `slow_send` | a tick creates the next socket between the close and the `m_socketid=-1` of a failed send in another task (`tcp_log.c:1247-1248`): the new one is forgotten, and when all of them are none can be created |
| `SysCtrl!HeartbeatNeverStops` | none | the result of a finished command switches off the next entry that runs, against `UpdateFirmware.c:77` |
| `SysCtrl!ResetAfterBackup` | none | records saved between backup and reset are lost, against `Report.c:553` |
| `SysCtrl!WaitingCommandTimed` | none | a command acknowledged while `DelayTrigTimeTask` ends, also one that found nothing to do, is switched off by the `ClrTimerTask` after it (`SysCtrl.c:84-87`) and waits for the next command; one that comes before `DelayAckCommand = 0` (`Report.c:618`) or that another overwrites is lost |
| `Report!WakesBeforeReport` | none, with `LoginMin` not above an interval | the login's alarm adds the time passed, not the time to go (`tcp_log.c:857`): with intervals of 30 minutes and more it rings off the grid |
| `Report!LowPowerAgain` | `stop_track` | 0x8202 with two bytes leaves the count of the tracking, and the device stays up |
| `Report!ReportsGoOn` | `rtc_change` | an interval or a tracking set after a wake-up by the alarm leaves an offset that the counter never meets |
| `Report!NoReportDropped` | `foreign_ack`, `late_reply`, `quick_report`, or none with an interval of at most `Overtime` | the reply to another report, or the next report, lets one through |
| `Report!NoReportDropped`, `WakesBeforeReport` | `key_wake` | a device switched on before its alarm goes over to the stored offset when the alarm rings, in the middle of a report |
| `Report!WakesBeforeReport` | `quick_report`, with intervals of which none divides the other | the interval changes while a report is undecided: the device sleeps towards a report of the old one |
| `Report!WakesBeforeReport` | none, with a tracking interval above `StayUp` | the last report of a tracking sets the alarm and the offset by the interval of the tracking (`Report.c:454`), the first one awake is timed by the other |
| `Report!TrackingSurvives` | `retrack`, with a lost link (`MaxDrop` 1) | the last report of a tracking, sent between the two halves of a new 0x8202, sets the interval to 0, and the new count is recorded with it; a login takes the interval from the parameter again, a restart forgets the tracking |
| `Upgrade!UpgradeEnds` | `get_refused` | a refused file sends a message that nobody reads; the flag stays |
| `Upgrade!ResultTrue` | `crash_in_update` | success is on record before the update has succeeded |
| `Upgrade!OutcomeKept` | `order_during_note`, `drop_during_note` | the byte is cleared by a note that was not sent, or belongs to another order |
| `Upgrade!OutcomeSent` | `off_before_note`, `slow_login` | a device that sleeps or logs in late at every start never notes |
| `Params!Readable` | `crash_in_first_start`, `fail_in_first_start` | an interrupted first start is not repeated |
| `Params!Readable` | `half_write`, `short_value` | a torn record, or a number that is too short, stays unreadable |
| `Params!AnsweredWhole` | none | a value longer than its parameter is skipped and the serial command answered (`E2ParamApp.c:155`, `210-213`) |
| `Params!RamAgrees` | `stale_update` | the report task assigns what it read before a write |

### Bounds

* `Cap` 2 or 3 (262 in the firmware) wraps within the records of a run, and
  `MaxRec` is large enough to fill the queue, evict and go round; `PackNum` 2
  (5) gives full and partial packs.
* `ShamLimit` 0 or 1 (5) makes giving up a link reachable.  `MaxLogin` 2 gives a
  second login after a lost link or a restart, `MaxBoot` 1 a crash or a planned
  stop anywhere.  `Transit` bounds the packs on the way.  The proofs of `TypeOK`
  and `TokenHeld` have all bounds, and every disturbance, as parameters.
* `FailLimit` 3 is the code's, `MaxSockets` 6 the library's (3 in `link_all`,
  where sockets leak until none is left).  `MaxDns` 2 lets one late answer
  follow another.
* `Second` of `SysCtrl` stands for the 40 ticks of a second.  In `sys_all` it is
  1, every entry but the delay is due at every tick, and `BoxSize` 9 lets the
  mailbox both overflow and post a delay message that is stale when it is read,
  while the handler of a slow command holds the control task.
* `Report`: `Cycle` 4 with intervals 2 and 4: a device that stays up and one that
  sleeps, each with all phases between a report, its timeout (`Overtime` 1) and
  the alarm (`Lead` 1).  All times are divisors of the cycle, so the clock may
  wrap.  `LoginMin` 5 keeps the login's own power down out of `report_calm` (see
  the known divergences) and 4 admits it in `report_all`.
* `Upgrade`: `MaxRetry` 1 (5) gives a retry and the end of retries; `LoginWait` 2
  (120) and `NoteTries` 3, the code's; two orders, two lost links, two crashes,
  so that an order can meet the outcome of the one before.  The theorems have
  all of them as parameters.
* `Params`: one parameter of the report module and one of another, one whose
  default is written once, two values, commands of up to two parameters, so that
  a list can set one parameter twice, or set one before or after an entry that
  is passed over; three commands, two logins, one power failure.  Failing writes are not bounded.
* `Receive`: bodies of up to two bytes of each kind (plain, 0x7d, 0x7e and their
  substitutes), serial numbers that start at 124 and at 255, so that the number
  itself must be escaped and wraps; two messages; a buffer of 12 bytes, which a
  read of two frames overfills, and so do the longest frames alone; a limit of 8
  bytes between the flags, so that frames of up to 10 bytes are handled and those
  of 11, shorter than the buffer, are dropped.

Deadlock is checked for `TcpLink`, `SysCtrl`, `Report` and `Upgrade`.
`BlindUpload`, `Params` and `Receive` may stop: with their bounded numbers of
records, commands or messages used up nothing need happen.

### Fairness

* `BlindUpload`: every task is scheduled and every timer expires (weak), because
  the operating system is preemptive and the timers are hardware timers; a
  platform that gets packs for ever answers one for ever (strong).  Nothing is
  assumed about saves, logins or the link: `DrainsWhenOnline` supposes that the
  terminal is online from some time on.
* `TcpLink`: timers expire (weak).  A step that needs the network succeeds if it
  is tried for ever (strong): without it no program can connect.  The ticks of
  800 ms come before a 90 second timer fires often enough, hence strong fairness
  of the steps that a tick can always take.  A dead link that is believed alive
  is given up (weak on `GiveUpLink` while the socket is not connected): this is
  what `DeadLinkNoticed` of `BlindUpload` shows for a device that has records
  waiting, and a device whose reports fail has.
* `SysCtrl`: both tasks are scheduled (weak); sending an answer succeeds if it is
  tried for ever (strong).
* `Report`: the tasks, the clock, the timer and the alarm (weak); a device that is
  on gets online, a reply on its way arrives and the store drains (weak), which
  are what `TcpLink` and `BlindUpload` show.
* `Upgrade`: the main task, the timer and the note's task (weak); an attempt at
  the server and a download end (weak: the library has a limit of 3 minutes); a
  device that is switched on again and again logs in (strong).
* `Params`: the two tasks run and a delayed command comes (weak).

## 4. Proofs

All proofs are for every value of the constants, with the assumptions named in
the modules (`Cap >= 2`, `PackNum >= 1`, `MaxSockets >= 1`, `Second >= 1`,
`NoteTries >= 1`, sets of known disturbances).

* `BlindUpload!TypeCorrect`, under every disturbance.  `TypeOK` alone is not
  inductive: a dequeue decrements the length, so the invariant adds that while
  the blind task stands between the test for empty and the advance, the queue
  is not empty; no other task shortens it, except the timeout, which restores a
  copy, and that copy was not empty when the pack was begun.
* `BlindUpload!TokenNeverLost` counts the places where the token can be: the
  semaphore, the message that asks for the timer, the timer, the blind task.
  While the terminal is online the count never reaches zero; the sleeping
  task keeps its token only if the flag it read before the sleep was set.
* `BlindUpload!OnePackAtATime`: without `relogin` the same count never exceeds
  one, so the next pack finds no timer and no message.
* `BlindUpload!QueueKeepsShape`: without `overlapping_save` and `reset_in_save`
  and with the main task as the only saver, the tail is `head + len` round the
  ring, in RAM, in the backup and in flash.  It needs what holds in the middle of
  a save (room made, record not yet counted) and the lemmas about wrapping.
* `BlindUpload!NothingPhantom`, with crashes, planned stops, late replies and
  several saves per upload, without the other disturbances: the slot under the
  tail is written before the save is counted, and a timeout that replays a save
  finds the slot under the copy's tail written since the copy was taken.
* `BlindUpload!NothingLost` and `ImplementsTheStore`, in the ordinary course of
  events and between restarts (`Ordinary`: no disturbance, the main task saves,
  `MaxBoot` is 0).  Both rest on `StoreInv`: the queue in RAM ends where
  `Settled`, the queue that the abstract store is shown, ends, so it holds its
  later records; the records it has passed are in the pack that is out; a reply
  on its way belongs to that pack, which the platform then has.  A save appends to
  `Settled` and is the abstract `Put`, an acknowledged timeout drops the passed
  records and is `Confirm`, a pack's arrival is `Receive`, and every other
  step changes nothing that the abstract store shows.
* `TcpLink!TypeCorrect`, `EveryWaitWatched` under every disturbance; `MotorRuns`
  without `slow_dns` and `sync_connect`; `NeverStranded` without the
  disturbances that strand it; all of them with `slow_send`.  The invariant says which states a socket that is
  still connecting, or a context still being activated, allows.
* `SysCtrl!InputsAlwaysScanned` under every disturbance: the entry's own handler
  assigns the shared variable, and a stale result can switch off any entry but
  this one.  `SysCtrl!TypeCorrect` under every disturbance and for every size of
  the mailbox.  `SysCtrl!CommandsKept` under every disturbance and with commands
  at any time: while `DelayTrigTimeTask` stands between the start of a command
  and the clearing of the slot, the command owed, if there is one, is the one it
  has in hand, and once it is carried out none is owed until the handler rests.
* `Upgrade!TypeCorrect` and `UpgradeStaysUp` under every disturbance: the counter
  of retries is bounded only together with the flag and the stage, and between
  the decision to power down and the power-down the main task sleeps, so no order
  can raise the flag.  `OutcomeOnRecord` without the disturbances that meet a
  note: while a result is noted no upgrade is under way, and a note that has been
  sent was sent over a live link.  `NoteTellsTruth` without `crash_in_update` and
  `order_during_note`: the byte says success exactly if the new firmware runs,
  except between the file and the end of the update.
* `Report!TypeCorrect` under every disturbance: the second counter is taken
  modulo the interval, so every place where the interval changes must leave one
  that it was read with.  `TrackingOnRecord` without `retrack`: outside 0x8202
  and the report that ends a tracking, what is in force is what the record
  says; between the two halves of the command no tracking is in force, and a
  whole record has the interval of the parameter.
* `Report!EveryReportTakenOrSaved`, with intervals longer than `Overtime` and no
  disturbance but a late report task and a tracking that is stopped (`InTime`).
  The point is that no report becomes due while one is undecided.  Awake on its
  own the task has counted no more seconds than the timer has run (`Counted`);
  awake on the alarm the seconds that have the offset are an interval apart
  (`OnOffset`, with lemmas about remainders), provided that a device the alarm
  woke has no tracking (`AwakeOnAlarm`, which needs the record of
  `TrackingOnRecord`).  So the flag the timer finds is the answer to the report
  in the buffer (`Answered`).
* `Report!SleepsTowardsReport` (`OnGrid`: no power-on by key, no change of the
  interval while a report is undecided, no login that powers down, trackings
  that keep the device on).  The alarm of an undecided report fits the offset in
  force, and after a wake-up by the alarm that is still the offset in FRAM,
  which such a device does not write again.
* `TcpLink!SocketsNamed` without `slow_dns`, `sync_connect`, `deactivate_fails`,
  `gsm_drop` and `slow_send`: a socket is open only while the machine connects or is
  connected, or while the context it hangs on is still going down, and never in
  the states that lead to a new one.
* `Params!TypeCorrect` under every disturbance.  `AlwaysReadable`, with a first
  start that neither a power failure nor a failing write interrupts (`Calm`): until
  the device is in service each parameter has its value or its default still
  waits in the list.  `AnswersTrue`: the list in hand is the rest of what was
  asked, what has been passed, fits and is not asked again is in the file, and
  no unknown identifier has been passed.
  `CopiesAgree`, without `stale_update`: a copy follows the file except while a
  restart is due, before its refresh, or while its parameter is being written,
  and what the report task holds in its hand is in the file.
* `Receive!OnlySentOnceInOrder`, `AnswersAsPrescribed`, `WholeFrameAlwaysHandled`
  and `TypeCorrect`, for every cut and join of the frames, every set of payload
  bytes, bodies of up to 63 bytes and every length of both buffers.  The invariant
  says that the stream is what is left of the frames sent, whole but for the
  beginning of the first (`StreamInv`); that what was handled came, in order, from
  frames read to their end (`OrderInv`); that flag, serial number and answers are
  those the handled messages call for (`AnswerInv`).  In any part of such bytes
  neighbouring flags hold the inside of one frame or less than two bytes (`Holds`),
  because escaped bytes hold no flag, so a read yields at most one message, of a
  frame it gets to the end.
  This rests on theorems about the codec: `UnescapeEscapes` (unescaping undoes
  escaping, on all sequences of bytes), `XorVerifyChecksum` (the checksum added up
  from the front is the one from the back, by associativity of the exclusive or)
  and `Understood` (the device reads in the bytes of a message what was sent).
  The functions are recursive, so even their existence needs a proof.  The
  induction theorems of the library take an operator, which the provers cannot
  instantiate; here induction is stated for membership in a set, from the
  well-foundedness of `<` (`SetInduction`, `SizeInduction`), and `Recursion` shows
  that a definition by a predecessor of smaller size has a solution.

Only model-checked: all liveness (`DrainsWhenOnline`, `DeadLinkNoticed`,
`Reconnects`, `EveryCommandRuns`, `ReportsGoOn`, `LowPowerAgain`, `UpgradeEnds`,
`OutcomeSent`, `CommandsEnd`), which is out of the prover's reach.  Every safety
property of a passing run has its theorem; the disturbances a theorem leaves out,
where the run admits more, are named above.

## 5. Not modelled, and why

* `queueLen++` and `queueLen--` of two tasks as separate loads and stores; a
  torn update of the shared counters is possible and not covered.
* The transmit buffer and the serial number, globals that four tasks use without
  a lock: `Receive` answers in the main task only.
* The CRC of the control record: a reset in the middle of the flash write of the
  record would give an empty queue.  An interrupted creation of the blind-area
  file (`BlindFile.c:12-24`) leaves it too short for ever.
* `ShareBuffer`, used by several parts, and the contents of messages.
* An order for tracking with an interval of zero and a duration, which divides by
  zero (`RadioProtocol.c:752`).
* The authentication exchange, switched off in this build; GNSS, mileage, sleep
  control, speed and area monitoring (`configUSE_GNSS` is 0, their entries in
  `SysCtrl.c` are comments).
* The hardware watchdog is fed from one timer whatever the tasks do, and the task
  of the software watchdog is a comment: there is nothing to relate.
* The low-voltage counter of `LedCtr.c` and the debouncing in `Io.c`: counters of
  one task each; what they cause (a shutdown, saves) is in `BlindUpload`.
* Vendor code: RIL, the library's part of FOTA, cloud client, examples.
* Wrap round of the 32-bit tick counter (3.4 years), and the time between a
  command and its start: with a backlog a stale message can run a command before
  its three seconds have passed.

## 6. Extensions

In the order of their worth: the serial number and the transmit buffer under
four tasks, at the level of statements; `Report`, `BlindUpload` and `TcpLink`
composed over the login flag, for end-to-end delivery and sleep; an abstract
store that forgets what a restart gives up, to take the refinement through
crashes.
