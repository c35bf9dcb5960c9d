# A verification project for ws63-examples

TLA+ models of the example firmware in this repository, the TLC configurations that
check them and the TLAPS proofs of their main results. The repository is a
collection of programs for the HiSilicon WS63 (RISC-V): two Wi-Fi fixtures that talk to each
other on two boards, a Wi-Fi smoke test, conformance programs for the `hisi-rtos` scheduler, and small
single-peripheral examples. The three Wi-Fi programs hold most of the logic, and the
project starts with them.

Contents: [inventory](#1-inventory), [the modules](#2-the-modules-and-the-code),
[the runs](#3-the-runs), [the proofs](#4-the-proofs),
[what is not modelled](#5-what-is-not-modelled), [plan](#6-plan).

## 1. Inventory

| Component | State | Operations | Hard behaviours | What makes it correct |
| --- | --- | --- | --- | --- |
| `wifi_connectivity/src/network_runner.rs`: the station's IPv4 runner | the smoltcp interface (address, routes), DHCP and UDP sockets; `lease`, `active_lease`, `dhcp_restart_at`, the probe's and the query's locals, report flags | `run`, `poll_network`, `local_neighbor_probe`, `dns_probe`, `keep_polling`, `wait_poll_interval` | late, duplicated, reordered replies; renewals that change or refuse a lease; timers that fire in the iteration that makes them needless; a disconnection in any of four loops | lease, interface and client agree; a report rests on evidence; retries are paced and end; every radio event is seen once |
| `wifi_connectivity/src/main.rs`: the control plane | `connectivity`'s program point and retry count; the radio's bounded event queue | initialize, scan (one retry), connect, session, reconnect; `expect_event`, `halt` | an operation returns before, after or without its event; the queue overflows; a loss is reported twice | the events match the operations; no wait is endless; a lost link ends its session |
| `wifi_connectivity/src/dns_contract.rs` | none | `build_query`, `validate_response` | malformed answers, answers to another query | only a well-formed answer to this query is accepted |
| `wifi_connectivity/src/config.rs` | none | `parse_decimal_u32` | overflow, empty input | |
| `wifi_init_smoke/src/main.rs`: the vendor log | `VendorLogBuffer` (ring, start, len, dropped), the log sink, `flushed` | `push`, `copy_from`, `rf_log_buffered`, `flush_vendor_log` | wrapping and oversized calls; a task pushes between two chunks of the flush | the ring is the tail of the log; the flush writes it once and accounts for all of it |
| `wifi_init_smoke/src/network_runner.rs`, and `run_arp_probe` of `main.rs`: the smoke test's pings, over smoltcp or by hand | `lease`, the sample under way, `PingStats`; the ICMP socket's buffers, or the receive queue | `run`, `poll_network`, `ping_series`, `keep_polling`; `run_arp_probe`, `run_ping_series` | both series use the same identifier and sequence numbers; replies late, doubled or behind others; a packet that cannot leave; a lease that goes | a sample is answered by its own reply; each gets one verdict; the statistics are those of the verdicts; each series ends |
| `wifi_init_smoke/src/main.rs`: bring-up | main's program point, the radio's event queue, the guard `VendorLogGuard`, the log sink | `run_wifi_smoke` in four builds, `radio_block_on`, `radio_runner_task` | cooperative tasks that poll instead of blocking; a dozen ways to give up and one that never returns | the bring-up ends; the vendor log is written on every way out, once |
| `wifi_softap/src/network.rs`: the access point's services | two UDP sockets with small buffers, `NetworkDiagnostics`, `started`, `acceptance_reported`; the coexistence controller's queue | `run`, `service_ble`, `service_sle`, `service_dhcp`, `service_echo`, the acceptance report | bursts against 2 and 16 slots; a device that takes nothing; events dropped between two looks; a client that gives up its address while a reply waits | requests are answered once, in order, to whoever asked; a dropped event is fatal and never silent |
| `wifi_softap/src/main.rs` | none of its own | boot, diagnostics dumps | | |
| `net_ping/src/main.rs` | the MAC's registers, `IRQ_HITS`, the bridge filled by the interrupt handler, the loop's locals and sockets | `drain_rx`, `nmac_handle`, the ping loop | handler against loop; the order of acknowledging and clearing | no frame is lost or read twice |
| `rtos_scheduler_stress`, `rtos_preemption`, `rtos_priority_inheritance`, `rtos_budget_enforcement`, `rtos_embassy_coexist` | atomics shared by tasks of different priority and interrupt handlers | the tasks, the handlers, and `main` that judges the outcome | preemption between any two statements; a wait that times out, is granted or is cancelled; a handler that wakes a task; time lost anywhere | the success line is written only if the scheduler has the property, and is always written if it has |
| `gpio_irq`, `timer_irq`, `software_irq` | a counter and a flag | a handler and a loop that reports | two interrupts between two looks | each interrupt is visible |
| `embassy_async_io`, `async_delay`, `async_bus`, `embassy_multitask` | executor tasks, an edge-triggered wait | | an edge between two waits | |
| `rf_port_demo`, `wifi_blob_link` | none | link and call checks of the vendor library | | |
| `blinky`, `uart_*`, `dma_loopback`, `spi_loopback`, `i2c_scan`, `semihost_selftest`, `reset_demo`, `custom_memory`, `xip_flash_clk_hazard` | registers | straight-line programs | | |

How they interact: on the station board, `connectivity` and `radio_runner` are two tasks of one executor;
`radio_runner` steps the radio, which completes operations and posts events into a
queue that drops what does not fit; `connectivity` takes them, and hands the controller to
the network runner for the length of a session, which takes events in its turn. `halt`
spins inside the executor, so it stops both tasks. Through the network the runner talks to
the access point's DHCP server and echo. On the access point's board one loop serves both, and
the coexistence controller's events arrive from another task. In the smoke test the vendor's tasks call the
log callback while the main task flushes; main polls the radio's future between its yields, a runner task steps the radio, and the event queue is between
them. In the fixtures `rtos_*` the tasks, the handlers and `main` share flags in critical sections, and meet in the scheduler's objects.

The hazards of this code, line by line, are listed in `PROJECT.json`, each with the property that covers it or the
reason why none does.

## 2. The modules and the code

| Module | Models | Role |
| --- | --- | --- |
| `NetSession` | what `network_runner::run` promises its caller | abstract specification |
| `StationNet` (+ `MCStationNet`) | `wifi_connectivity/src/network_runner.rs` | detailed specification, implements `NetSession` |
| `DnsContract` | `wifi_connectivity/src/dns_contract.rs` | the query and what answers it; extended by `StationNet` |
| `StationNetProofs` | | theorems about `StationNet` |
| `Station` | `wifi_connectivity/src/main.rs` | composes the control plane with `NetSession` (EXTENDS) and the radio |
| `StationProofs` | | theorems about `Station` |
| `LogTail` | a bounded log that keeps the newest bytes | abstract specification |
| `VendorLog` | the vendor log of `wifi_init_smoke/src/main.rs` | implements `LogTail` |
| `VendorLogProofs` | | theorems about `VendorLog` |
| `Responder` | a datagram service with bounded buffers | abstract specification |
| `SoftAp` | `wifi_softap/src/network.rs` | its two services each implement `Responder` |
| `SoftApProofs` | | theorems about `SoftAp` |
| `NetPing` | `net_ping/src/main.rs` | the handler and the loop over an external MAC |
| `NetPingProofs` | | theorems about `NetPing` |
| `PingSeries` | a series of pings and its statistics | abstract specification |
| `SmokePing` | `wifi_init_smoke/src/network_runner.rs`, `run_arp_probe` and `run_ping_series` of its `main.rs` | each of its two series implements `PingSeries` |
| `SmokePingProofs` | | theorems about `SmokePing` |
| `SmokeBringUp` | `main`, `run_wifi_smoke` and `radio_runner_task` of `wifi_init_smoke/src/main.rs` | around `VendorLog` (the log) and `SmokePing` (the session) |
| `SmokeBringUpProofs` | | a theorem about `SmokeBringUp` |
| `Kernel` | hisi-rtos, as the fixtures use it | external; extended by the four images |
| `PriorityInheritance` | `rtos_priority_inheritance/src/main.rs` | an image and its verdict |
| `RtosPreemption` | `rtos_preemption/src/main.rs` | an image and its verdict |
| `RtosBudget` | `rtos_budget_enforcement/src/main.rs` | an image and its verdict |
| `SchedulerStress` | `rtos_scheduler_stress/src/main.rs` | an image and its verdict |
| `RtosFixtures` | the campaign of the four | composes them (INSTANCE ... WITH), one image flashed |
| `RtosFixturesProofs` | | theorems about two of the images |

**StationNet.** `phase` says which loop of `run` is executing and how it ended, `pc` where in
the loop: "body" is the code between two waits, "wait" is `wait_poll_interval`, "send" the
start of a DNS attempt, which has no poll before it, and "start" the look at the hardware address (`Start`). `AcquireLease` and `DhcpTimedOut` are the DHCP loop,
`StartProbe`, `ProbeNeighbor` and `ProbeDone` the local probe with `run`'s verdict on it,
`SendQuery`, `AwaitAnswer` and `AnswerTimedOut` the DNS probe, `KeepPolling` the steady
loop; `IntervalElapsed`, `EventIgnored` and `SessionEnds` are the branches of
`wait_poll_interval`, common to all four. `PollNetwork` is `poll_network` with everything it changes: what smoltcp does
(`StackSteps`, external), the Configured and Deconfigured handlers
(`LeaseAfter`, `AddrAfter`, `RouteAfter`), and the reset of the client that the second of them performs
(`ClientAfter`). Time is in ticks: a wait lets 1 to `MaxDelay` of them pass, since another task may hold
the executor. External: the DHCP client is the state machine that the events show (discovering, requesting,
bound, renewing); servers may grant any lease of `Leases`, refuse a renewal, or be
silent; datagrams may be lost, late, duplicated, reordered or foreign; the transmit slot is freed at any poll or at none.
The DNS probe goes through `DnsContract`: a query holds the transmit slot until a poll sends it (`LeftBy` puts its number in `asked`), and from then on its answer may come at any poll,
late, again and again, from the server asked or from another address. An answer is what a server makes of that very query (`Respond`: it repeats the id and the question, or
reflects the query, truncates it, fails, cuts it short), and `Accepts` compares the endpoint and runs `validate_response` with the id of the attempt in progress, as the code does. The
attempt the answer was for is known to the property alone. The reports are written when the probes are over (`KeepFromNow`), from what `local_neighbor_probe` returned, the
stack's count of ARP replies (external) and the DNS probe.
One note on the documents: README.md:13 and main.rs:4 speak of repeated ICMP; the probe is a UDP echo, in
the code and in the model.

**Station.** `pc` names the operation or event that `connectivity` awaits. An operation's result and its event come apart:
`RadioCompletes` decides the result, `RadioReports` posts the event, before or after the result is
returned, and `Enqueue` drops an event if the queue is full. `RadioStrays` lets the
radio report a loss although there is no connection, so that its effect is seen. A scan may also fail with an error that is neither the backend's nor a breach of its protocol ("unmatched"):
`expect_scan_event` has no event that matches it, so the task halts over whatever comes, or waits for nothing until the deadline. `tags` is history: whether an event belongs to the
operation under way. In a session the task behaves as `NetSession` says; `StationNet` is shown to implement that
module, so the two models together speak of the whole program.

**VendorLog.** The four fields of `VendorLogBuffer` and the flush's locals. A byte is the number of its position in
everything logged, so that contents, order and loss can be read off the ring. Each call of `push` is one step, since it runs in a critical section;
each chunk of the flush is one step for the same reason, and `LogBuffered` may come in between: `FetchSink` lets
a task fetch the callback before it is replaced and push afterwards.

**SoftAp.** `pc` is the place in `run`'s loop. The stack moves one datagram at a
time during either poll (`ReceiveEcho`, `ReceiveDhcp`, `TransmitEcho`, `TransmitDhcp`), and a poll may end after any number of
them, so a reply may stay behind. `ServiceDhcp` and `ServiceEcho` each serve at most one datagram;
a datagram the stack has no room for is discarded, by the slots or, as the payload buffer is shared by bytes, with a slot still free; a reply may be refused for the same reason (`Sendings`).
An echo request is `long` if it fits the socket's 512 bytes and not the 256 of `service_echo`: `recv_slice` then takes it out and returns an error, so it is gone and `echo_rx` does not move (`TruncateEcho`).
`ServiceEvent` is one turn of the loop over `next_event` and `ServicesDone` the look at `dropped_events` after it. `Activity` selects the build: none, BLE or SLE.
The stations run smoltcp's DHCP client, whose messages each have an id of their own (the random transaction
id), and accept only a reply to the latest one.

**NetPing.** `pc` is where `main` is, from the enabling of the MAC to the loop after the verdict; `handler` is the
interrupt handler's next step. The handler runs with interrupts off, so `Main` stands still meanwhile, but the MAC does not:
`MacTakes` may come between any two steps. `DrainRx` is `drain_rx` up to `rx_push`, `AckRx` its last register write, `CountHit` and
`ClearPending` the rest of `nmac_handle`. External: the MAC holds one frame until it is acknowledged, its line is high
while it holds one, and the pending bit latches the line; the gateway answers a frame once or never; a poll moves any number of frames, one at a time.
`IRQ_HITS` is counted without its wrap at 2^32.

**SmokePing.** `build` is chosen in the initial state: the two builds ping the same targets with the same verdicts, so they share the
sample (`SendSample`, `Report`, `SampleTimedOut`, `SeriesEnds`), and a run checks both. `phase` is the part of the program, `pc` the
place in its loop: "sample" before a sample, "head" at the loop's condition, "poll" inside `poll_network`. With the stack, frames arrive and packets leave
only during a poll, one at a time, and `PollEnds` is the rest of an iteration: the DHCP client's event, the drain of the socket, then the verdict (`Answered`) or the
sleep (`Unanswered`). In the raw build frames arrive at any time and each `SampleStep` takes one. `txq` and `rxq` are the socket's buffers; in the raw build `rxq` is the receive queue.
External: a reply may come late, any number of times or never, frames may overtake each other, and a lease may come and go, with a router ("routed") or
without ("bare"). It is assumed that the router is not 1.1.1.1 itself. `heard` is history: the samples whose reply was received, with room for it, while they were waited for.

**SmokeBringUp.** `step` is what `main` does next, from the boot to "session" (`network_runner::run`, which never returns) or "returned". `build` selects `run_wifi_smoke`: without the
feature `full-init` ("disabled"), the open one, where an operation is a call that waits for the workers by itself, and the two native ones, where `radio_block_on`
polls and yields (`MainWaits`). `turn` is the task that has the CPU: all are cooperative, so it changes only in `MainWaits`, `RunnerYields`, `SessionSleeps` and the end of the workers' turn.
External: the order of the turns, the same for all tasks whatever their priorities (the comment at main.rs:1221-1223 counts on it: the runner has the better priority, 10, and never blocks); the result of an
operation, its event, events posted by the radio on its own, and the workers' lines. `kept` counts the lines in the ring; what the ring and the flush do
with them is `VendorLog`. `run_arp_probe` is one step here and `SmokePing` there. After a return main spins and no other task runs again.

**The fixtures.** Each image judges a scheduler whose source is not in this repository. `Kernel` is that scheduler as the images use it: who has the CPU, the queue of those who
could run, priorities, the timer. Each image's module adds what it is about (the mutex, the trap frame, the budget, the semaphores and handles) with a variable
that says what is wrong with it: nothing, or one of a list of faults. So the environment is every kernel of the list, and the property is the image's correctness
as a test: OK always on a conforming kernel, never on a faulty one.
`PriorityInheritance` has the three tasks and main, with the faults that nothing is inherited or nothing counted; a kernel that gives the inherited priority back
late passes, as nothing in the image looks at that. A faulty kernel that inherits nothing hangs the image: it prints nothing, which is no OK.
`RtosPreemption` keeps `ft0` and the frames of the two workers, who are interrupted between any two steps of `worker`.
`RtosBudget` counts milliseconds: three ways to refill a budget are taken as right, since the image cannot and need not tell them apart.
The image does not measure the budget: a worker that was given twice as much would pass as well, so that is no fault of the list; the count of lock
overruns, a third condition of the verdict, stays 0 in an image that takes no lock, and is left out.
`SchedulerStress` runs main's calls from a table (`Script`, a row for each call with the answer it asks for and whether another one panics) and the handler `SOFT_INT0` step by step. `lock_scheduler` and `unlock_scheduler` around
the grant and the cancellation are the rows "up" and "cancel" following each other without a switch, which a cooperative main would not see anyway.
`RtosFixtures` chooses the image in the initial state and runs that one, on any of its kernels.

Definitions named in a comment as a "Variant" are plausible mistakes in the operator after them. No specification uses them; they show that
each property can fail.

## 3. The runs

| Run | Question | Result |
| --- | --- | --- |
| `station_net` (`MCStationNet`, `StationNet.cfg`) | Does the runner keep lease, interface and client together, base its reports on evidence, pace and end its retries, and implement `NetSession`? | holds, about 250,000 states |
| `renew_marker` (`StationNetRenew.cfg`) | Does `A4_DHCP_RENEW_OK` mean that a lease was renewed? | **violated** |
| `station` (`Station.cfg`) | Do the control plane's operations and events stay in step, and do its waits end? | holds |
| `vendor_log` (`VendorLog.cfg`) | Is the ring the tail of the log, and does the flush account for all of it? | holds |
| `soft_ap_echo` (`SoftAp`, `SoftApEcho.cfg`) | Are echoes conserved, in order and answered once, and is a dropped event never silent? | holds, about 1,550,000 states |
| `soft_ap_dhcp` (`SoftAp`, `SoftApDhcp.cfg`) | Does a reply that is waited for reach its station, in order, and does no message block another? | holds, about 700,000 states |
| `net_ping` (`NetPing.cfg`) | Does a frame ever get lost in the MAC or read twice, and is the verdict earned and reached? | holds, about 140,000 states |
| `smoke_ping` (`SmokePing.cfg`) | Does a sample ever get a verdict it does not deserve, in either build, and does each series end with statistics of its own? | holds, about 980,000 states |
| `smoke_bring_up` (`SmokeBringUp.cfg`) | Does the bring-up end in all builds, and is the vendor log written on every way out? | holds, about 10,000 states |
| `rtos_fixtures` (`RtosFixtures.cfg`) | Does each image print OK always on a right scheduler and never on a wrong one? | holds, about 34,000 states |
| `fp_registers` (`RtosPreemption`, `RtosFpRegisters.cfg`) | Does OK of `rtos_preemption` mean that all floating-point registers are saved? | **violated** |
| `open_log` (`SmokeBringUp`, `SmokeLogFlushed.cfg`) | Is the vendor log flushed after the radio operation whenever `rf-vendor-log` is set? | **violated** |

**The findings.** `keep_polling` writes `A4_DHCP_RENEW_OK` once the DHCP diagnostics count at
least one packet sent and one received since the first lease. CHANGELOG.md says that the fixture "now proves WPA2, DHCP, direct
ARP, UDP echo, and lease renewal". In `renew_marker` TLC shows the marker written
although no server acknowledged a renewal: the server refuses it, the lease is lost, and the packets counted are the refusal or those of
a new acquisition. A counter of acknowledged renewals, or a comparison of the lease's expiry, would say what the marker says.

The header of `rtos_preemption` says that the "test only passes when the runtime trap frame saves and restores all floating-point registers". Workers and handler use `ft0` alone. In
`fp_registers` TLC shows OK on a kernel that saves `ft0` and no other register; what `PreemptionVerdict` says of `ft0` and of the turns holds.

Cargo.toml of the smoke test says that `rf-vendor-log` retains the vendor's diagnostics and flushes them to UART0 "after the radio operation". The sink is
installed in every build with `full-init`, but the guard that flushes exists in the personal and upstream builds only. In `open_log` TLC shows the open build return with lines in
the ring that nothing will write; `LogWritten` holds for the other builds.

**What the properties say.**

- `LeaseAgreement`: between two polls the lease of the runner is the client's configuration, and the interface has its address and
  default route and no other.
- `RestartDeadlineKept`: the deadline of `keep_polling` runs exactly while there is no lease and no iteration postpones it.
- `ProbeEvidence`, `ProbePacing`: replies are counted once and only for probes that were sent; probes are
  an interval apart however long an iteration takes.
- `AnswerIsOwn`: `RF5C_PUBLIC_DNS_OK` is written exactly if one answer was accepted, and that one is the affirmative answer of the server asked to the very query of the attempt then in progress. The code sees a 16-bit id only; attempts
  share servers, some fail before they are sent, a query may leave long after it was queued, and answers to attempts given up keep coming.
- `ProbesTerminate`, `EveryWaitEnds`, `LossNoticed`, `RequestsServed`: what must happen in the end. For `EveryWaitEnds` a halt is an end too, so it says nothing of what stops with a halt. `LossNoticed` is about a disconnection that
  is in the queue or on its way to it; one that the full queue dropped keeps its session, in the model as in the code.
- `SessionRefined`, `TailRefined`, `EchoRefined`, `DhcpRefined`, `SeriesRefined`: the detailed specification implements the abstract one.
- `SessionEventsCurrent`, `OnlyStraysUnexpected`: no event of an earlier operation is taken for a later one's; the task halts over an unexpected event only if the
  radio reported a loss without a connection, or over the event of a scan whose error no event matches.
- `RingIsTail`, `FlushInOrder`, `FlushAccounts`: contents of the ring, order of the flush, and the sum of what it wrote and what it reports as dropped.
- `EchoConserved`, `ReplyReachesClient`, `NoSilentDrop`: each echo request was discarded on arrival, waits, was lost as too long, or is counted by `echo_rx`, and `echo_tx` is the replies that wait or have left; a reply that a station
  waits for when it leaves can reach it; after a dropped event at most the echo of that iteration is served.
- `FramesAccounted`, `NoSpuriousTrap`, `FrameDrained`: every frame the MAC took is in one place and `IRQ_HITS` counts the frames read; the handler never
  runs without a frame, which is why the acknowledgement comes before the pending bit is cleared; and a frame is never left in the MAC.
- `SamplesHonest`, `SeriesRefined`: a sample is "ok" only if its own reply came in its own time, and with the stack always then; each series writes one verdict for each
  sample in order, `tx`, `rx` and `tx_errors` are those of the verdicts, and it ends.
- `LogWritten`, `BringUpServed`: on every way out of the bring-up each line logged before has been written once; the bring-up ends although main and the runner only poll and yield, and in a session the runner
  has its turns for ever.
- `InheritanceVerdict`, `PreemptionVerdict`, `BudgetVerdict`, `StressVerdict`: the image's OK is reached on every run of a conforming kernel and on no run of a faulty one, wherever interrupts and lost time fall, the time lost within the bounds below.
- `VerdictEarned`, `VerdictReached`: PASS needs a reply, a resolved gateway and two interrupts; FAIL needs the deadline and no reply in the socket; one of them comes.

**Bounds.** `StationNet.cfg` has two hosts and two leases, one with a router and one without, so that renewals can add, change and remove
the route; two DNS targets with two attempts each, so that attempts 1 and 3 share a target; three probes of which two are recovery probes;
time-outs of 2 to 7 ticks with delays of 1 or 2, so that a deadline is met, passed by one, and
passed between two polls. `Burst`, the datagrams that one poll delivers, is 1: with 2 TLC reaches the same states, since a
second datagram has the effect of a second poll.
`TransactionBase` is the code's, 0x5753; an id is computed modulo 2^16. `EventCap = 2` lets a disconnection follow an event of no interest. `Station.cfg` has a queue of three: the events of two scans and a stray fit, a fourth overflows.
`VendorLog.cfg` has four bytes, chunks of two and calls of one to six, so calls that fit, wrap, fill exactly and exceed the
ring all occur, and two tasks that can push late. `SoftApEcho.cfg` has a receive buffer of three and a transmit buffer of two against four
requests from two stations, each short or long, and one event slot against three events, so every buffer overflows; it is checked for the SLE build, which has the
stricter handling of events (BLE differs in `Fatal` alone). `SoftApDhcp.cfg` has the code's two slots
and three messages of one station, enough for discover, request and renewal, for a retry of each, and for a full
buffer on either side, and one echo beside them. `NetPing.cfg` has two pings, two ARP requests and a frame of no interest against a bridge
of two frames and a socket of one packet, so both overflow, and a deadline that passes before, between and after the replies. `SmokePing.cfg` has two samples for each target, so that
numbers repeat within and across the series, a receive buffer of two and a transmit buffer of one, so that both are full, a frame of no interest to fill them, and limits of two that a sleep of one or two ticks meets or
passes. Its raw build ends when the probe returns, hence `CHECK_DEADLOCK FALSE`.
`SmokeBringUp.cfg` has a queue of two (`RADIO_EVENT_DEPTH` is eight) with three events of the radio's own, so that it overflows and the awaited event is lost, and three lines, enough for one before, during and after the bring-up; it stops when main has returned,
hence `CHECK_DEADLOCK FALSE`. `RtosFixtures.cfg` has the code's budgets, periods, thresholds and limits in ticks of a length of each image's own
(10 ms for the mutex, a slice of 5 ms for the preemption, 1 ms for the budget, 5 ms for the stress); `LoopTicks` of two slices makes a loop of `retain_ft0` longer than a slice, as in the code, counters saturate at two, and the two sleeps of
`rtos_preemption`, 20 and 500 ms, are shortened to two and ten slices. `MutexDelay`, `WaitDelay` and `Lag` are the time that may be lost in steps that are no wait. `Lag = 1`: a main
that is late by three ticks or more can finish with so few hand-offs counted that the kernel that refills after two periods is no longer told from a right one. An image stops after its verdict, or hangs on a faulty kernel, hence `CHECK_DEADLOCK FALSE`. No constant of a bound limits what the code itself would do: the bounds named as such in the modules are `MaxCalls`, `MaxAppend`,
`MaxEchoes`, `MaxXid`, `MaxEvents`, `OtherEvents`, `Burst`, `MaxDelay`, `MaxArps`, `MaxOther`, `MaxStep` (`TimeCap` follows from it), `MaxLines`, `MaxStrays`, `MaxLoops`, `MaxCount`, `MaxTime`, `MutexDelay`, `WaitDelay` and `Lag`.

**Fairness.** Only steps of the code itself are fair, never the network, the radio, a station or a
controller. `WF(Runner)` and `WF(Connectivity)`: the executor polls a task again once its timer or its event is
ready, and every wait has a timer, except that of a session, which
`EveryWaitEnds` counts as an end. `WF(Run)` in `SoftAp`: `wait_for_work(5)` returns after 5 ms and a poll ends when the device has nothing more to give;
the bounded messages of the model stand for that. In `NetPing` the loop goes on and a poll ends, as in `SoftAp`, and
`WF(Handler)`: the processor takes a pending interrupt that is enabled, and a handler returns. `WF(Smoke)`: `sleep_ms` and `osal_msleep` return, and a poll ends. In `SmokeBringUp`, `WF(Main)`, `WF(Runner)` and `WF(WorkersBlock)`: the task that has the CPU
goes on, and a vendor worker blocks or yields some time. `SF(RunnerEnds)`, `SF(RunnerPosts)` and `SF(WorkersEnd)` are about the radio: an operation carries a time-out (15 or 30 seconds), so stepped again and again it ends the operation and posts its event. The strength matters: the runner takes other steps in
between. The radio is not stepped by itself, so nothing of this helps an image whose runner is starved. In `RtosFixtures`, `WF(Next)`: the CPU executes whoever has it; `WF(BudgetTicks)`: time does not stop while main loops. In `StationNet`, `halt` is a loop that never returns: a halted phase takes no further step.

## 4. The proofs

The eight modules named `...Proofs` are checked by TLAPS for all values of the constants that satisfy the assumptions in the modules.
Those are few: `LeaseAssumption` (leases are leases, and "none" is not one of them), `TimeAssumption`
(time-outs are positive), `BoundAssumption` (attempts are positive and the primary ones are not more than all), `EventCapAssumption` (the event queue has a slot),
`LogAssumption` (sizes are positive), `SoftApAssumption` (the build is one of three, every buffer has a slot),
`NetPingAssumption` and `SmokePingAssumption` (counts are numbers; intervals and sizes are positive), and of `FixturesAssumption` that the tasks
are finitely many, the image's own among them and the idle task not, and that loops and counters have a length. `SmokeBringUpProofs` uses none. No theorem depends on how time-outs compare with each other.

| Theorem | Says |
| --- | --- |
| `TypeCorrect`, `LeaseAgrees` | `[]TypeOK`, `[]LeaseAgreement` |
| `DeadlineKept` | `RestartDeadlineKept`, an action property |
| `EvidenceKept`, `PacingKept`, `AnswersAreOwn` | `[]ProbeEvidence`, `[]ProbePacing`, `[]AnswerIsOwn` |
| `SessionImplemented` | every behaviour of `StationNet` is one of `NetSession`'s, without its fairness |
| `StationTyped`, `SessionSeesOwnEvents` | `[]TypeOK`, `[]SessionEventsCurrent` of `Station` |
| `UnexpectedOnlyAfterStray` | `[]OnlyStraysUnexpected` |
| `LogTyped`, `RingHoldsTail`, `WrittenInOrder` | `[]TypeOK`, `[]RingIsTail`, `[]FlushInOrder` |
| `FlushAccountsForAll` | `FlushAccounts`, an action property |
| `RingRefinesTail` | `TailRefined`: the ring implements `LogTail` |
| `SoftApTypeCorrect`, `EchoesConserved` | `[]TypeOK`, `[]EchoConserved` |
| `DropNoticed` | `[]NoSilentDrop` |
| `EchoImplemented`, `DhcpImplemented` | `EchoRefined`, `DhcpRefined`: the two services implement `Responder` |
| `RepliesReachClients` | `[]ReplyReachesClient` |
| `NetPingTypeCorrect`, `NoFrameLost` | `[]TypeOK`, `[]FramesAccounted` |
| `NoHandlerForNothing`, `VerdictIsEarned` | `[]NoSpuriousTrap`, `[]VerdictEarned` |
| `SmokePingTyped`, `SamplesAreHonest` | `[]TypeOK`, `[]SamplesHonest` |
| `SeriesImplemented` | every behaviour of `SmokePing` is one of `PingSeries` for both series, without its fairness |
| `LogIsWritten` | `[]LogWritten` |
| `PreemptionNeverWrong`, `InheritanceNeverWrong` | the image's OK is earned, `[]OkEarned`: the safety half of `PreemptionVerdict` and `InheritanceVerdict` |

So every invariant and every other safety property that a passing run checks is a theorem, except the safety halves of `BudgetVerdict` and `StressVerdict`.

The argument for the runner: `LeaseAgreement` is not inductive by itself, because what a poll leaves depends on the state of
the DHCP client and on the event it still has to deliver. `LeaseInv` adds the types and `ClientOK`: between two polls the client has a
configuration exactly when it is bound, and then every change of it has been delivered. Every step of `Next` either
polls the network or leaves lease, interface and client alone; so the lemmas `StackStep`, `PollAgrees` and `PollStep` treat
`PollNetwork` once (each smoltcp transition, then each handler), `Untouched` covers the rest, and
`StepLeaseInv` has a step for each action. The other theorems use `LeaseInv` for types only: `StepEvidence` needs that a sequence number is added to `received` when and only when it is counted
(`CountedOnce`), `StepPacing` is arithmetic on `sent`, `sinceSend` and `elapsed`, `StepAnswer` needs that the ids of two attempts differ although they are taken modulo 2^16 (`OwnId`, since there are fewer
than 2^16 attempts: the total saturates), that what passes `validate_response` is an affirmative answer (`Validated`), and that it ends the probe and with it the attempts. `StepSession` maps each action to a step of `NetSession`
or to a stutter.

For the control plane `StationInv` is about order in the event queue. `CurrentLast` (what is posted after a current event is current too) and `ConnectedOnce` (there is one "connected", owed or
in the queue, and it belongs to the connect in progress) give `SessionEventsCurrent`: the session starts when that one is taken, and only current events are behind it. `Orderly` says what holds until the radio strays: a loss is the last event in the queue,
so every operation finds its own event first, and between two operations the queue is empty; after a scan with an unmatched error there may be no event at all.

For the vendor log `RingInv` is the types with `RingIsTail`. `PushKeepsTail` splits `push` into the oversized case and the case that fits, and
reduces both to `StoreKeepsRing`: the bytes kept are still where they were, counted from the new start, and the two copies put the new ones after them, modulo the capacity (`Wrap`).
The flush adds `WrittenInv` (what it wrote is in order and lies before what it has still to read, however far late pushes moved the ring on) and `FlushInv` (a task can be late only once the callback is replaced); both are needed since
a push between two chunks moves the start of the ring under the flush. For `TailRefined` the step `push` is shown to be one append of `LogTail`, and every step of the flush a stutter.

For the access point `EchoInv` is the types with `EchoConserved` and `EchoOrdered`: the ids of the requests that wait, first those
in the transmit buffer and then those in the receive buffer, increase, are above those of the answered ones and at most the number that arrived.
The order is needed for the count, since a request answered twice would be counted once in `echoed`. The lemma `EchoStep`
reduces every step of `Next` to one of five effects on that sequence: unmoved, one appended, one discarded on arrival, one removed
anywhere, or the head answered. From it follow `StepOrdered` and the refinement; `StepConserved` looks at the actions
themselves, since it is about the counters. `DropNoticed` rests on `DropInv`, which adds where in an iteration the loop can be after it served an echo that late.
The DHCP service discards what it does not answer, so `DhcpInv` has no order to keep; it says that a transaction id denotes one message (`Numbered`) and that a message on its way has not arrived (`Separate`). So it is taken once, which is
what `Responder` asks. `ReachInv` adds for `ReplyReachesClient` that neither a discover nor a request still wanted was sent from an address, and that a reply is what `ReplyTo` makes of its request.

For the ping `FramesInv` adds to types and count `HandlerOK`: a handler that drains or acknowledges has a frame before it, and a pending bit that no
handler is at work on has one too. The second part is what the order of acknowledging and clearing gives, and `NoSpuriousTrap` follows. For the
verdict `VerdictInv` follows the chain backwards: a reply in the socket, the bridge, the MAC or the air implies that a ping was sent to an
address which an earlier frame told; so two frames were settled, and by `FramesAccounted` two were counted.

For the smoke test's pings `HonestInv` adds two things to the types. `Causal`: whatever is in the air, in a buffer or heard answers a request that was
handed over, so nothing answers a sample before it starts. `Current`: while a sample waits, its reply in the buffer was heard in its time; and with the stack, between polls
there is none, because the drain found it and ended the sample or left the buffer empty. The lemma `Kinds` reduces every step to one of four effects on the series (it goes on, a sample is asked, one is
judged, a series is entered), `BufferStep` and `HeardStep` say once what a step can add to buffers, air and history, and `Verdicts` looks at the four actions that judge.
Types rest on `PingInv`: beside `Flow` the sum of `tx` and `tx_errors` is the samples reported and the one under way (`Tally`), and a sleep takes a loop past its limit by less than `MaxDelay` (`Clock`). From the same invariant each of the
steps of a series (`SeriesKeeps`, `SeriesBegins`, `SeriesHears`, `SeriesReports`) maps to its step of `PingSeries`, which is `SeriesImplemented`.

For the bring-up `LogInv` says what `LogWritten`, a property of the end, needs on the way: before the sink is installed no task but main has run
(`Unstarted`), then the ring takes every line and nothing is written (`Collected`). `FlushedEnd` treats the end with the flush once, `QuietStep` a step that goes on, and `StepLogInv` has a step for each action.

For the fixtures the scheduler comes first: `BestExists`, `Dispatching` and `Ticking` say what a switch and a tick do to the queue as a set, from the definition of the best place in it. `SliceInv` of `rtos_preemption` says that without the trap frame
every loop that ends is spoilt, since the tick that let it end has passed in it (`ValueLost`), and counts its failure first (`FailureFirst`); that without slices no worker takes the CPU from the other (`NoTurns`), as all have one priority; and
that main, once it looks, keeps the CPU until it reports (`MainLooks`). For `rtos_priority_inheritance` a kernel that counts nothing shows zero (`Uncounted`). One that raises nobody is followed through the course of the run
(`Course`, seven phases from the reset to main's sleep): the low task sleeps with the mutex, the high one waits for it, and the medium one, better than everyone who can still become ready, keeps the CPU for ever (`LowStarves`), so main never looks.
How many ticks are lost, and where, does not matter to it.

Model-checked only:

- Liveness (`ProbesTerminate`, `EveryWaitEnds`, `LossNoticed`, `RequestsServed`, `FrameDrained`, `VerdictReached`, `BringUpServed`, the half of each verdict of `RtosFixtures` that says OK is reached, the fairness of `SessionRefined` and
  `SeriesRefined`): it needs ENABLED and is beyond the prover.
- The safety half of `BudgetVerdict`: it holds because of how the code's numbers compare (budget, period, thresholds, the length of the run), and is false for others; as an arithmetic statement about them it is a matter for TLC.
- The safety half of `StressVerdict`: ten wrong kernels, each found by another line of main's script, so the invariant has to follow the script line by line.
- The runs that expect a violation.

## 5. What is not modelled

- smoltcp, hisi-rf, hisi-rtos and the executor: code of other repositories. They appear as far as this code sees them.
- UART output, formatting and the diagnostics dumps, except for the markers that a property is about.
- In the network runner: sizes in bytes (an answer longer than the 128 bytes of the receive buffer is one that never comes), late echo replies among the DNS answers and which error `validate_response` returns (both only
  raise the count of invalid datagrams), the other counts of both probes, the fields of the DHCP diagnostics apart
  from the two that feed the renewal marker.
- In the smoke test: round-trip times, the renewal marker and heartbeat of `keep_polling`, which are those of `StationNet` in an earlier form, and the
  diagnostic with a static address after a failed DHCP.
- In the access point: the data-path timeline, the fields of a DHCP reply, that two stations would be leased the same address
  (the fixture is documented for one), counters saturating at 2^32, the sizes of datagrams but for the one that separates a long echo request.
- In the control plane: the disable-power-save diagnostic of one feature, and what is printed.
- In the smoke test's bring-up: the vendor hooks and dumps of diagnostics, which only print, and the exception handler.
- In the fixtures: `rtos_embassy_coexist`, and inside hisi-rtos whatever the images do not exercise.
- Boot sequences and straight-line programs: no interaction a model could show anything about. The whole list with the reason for each is
  under "components" in `PROJECT.json`.

## 6. Plan

Done: the modules above, in this order, the most important behaviour first. Next:

1. `TwoBoards`: the station's sessions one after another against the access point's services, for what a single session
   cannot show: ports and transaction ids are the same in each session, so answers to the queries of the last one may reach the next.
2. Interrupt handlers: `gpio_irq` and `timer_irq` (a count compared
   for equality), `software_irq`, the edge that `embassy_async_io` may miss between two waits; `rtos_embassy_coexist`.
3. Pure algorithms against reference definitions over bounded inputs: `parse_decimal_u32`, the cursors of the access point's transmit timeline with 2^w arithmetic.
4. Proofs: the safety half of `StressVerdict`, kernel by kernel, the wrong kernels of the waits first; for `BudgetVerdict` the inequality
   between the constants that it needs.
