# A TLA+ model of fips-shield

fips-shield protects services on a mesh network: nginx listeners with an njs
engine inspect connections and WebSocket traffic, a fail2ban sidecar turns their
verdicts into bans, and a ban is enforced either by nginx (the banlist file) or
in the kernel (an eBPF classifier with pinned maps).

This directory holds TLA+ modules for the parts of it that keep state or decide
something, TLC
configurations that check them on small instances, and TLAPS proofs of the
properties that are proved for all instances. `PROJECT.json` lists every run
with its properties, maps every definition to the lines it models, and records
hazards, findings and theorems. Paths below are relative to the repository.

    tlc -config WsStream.cfg MCWsEngine       # one run (see PROJECT.json)
    tlapm BanFileProofs.tla                   # one module's proofs

## 1. The system

| Part | Source | State | Operations | Who calls it |
|---|---|---|---|---|
| Accept stage | `core/njs/shield_core.js` | shared dict `shield_connrate` (counters, warning gates); per-VM ban cache | `access`, `connRateExceeded`, `warnPeriodically`, `isBanned` | nginx, once per connection |
| Ban cache | `core/njs/shield_core.js` | `banCache` of each session's VM: mtime, size, map | `loadBans`, `isBanned` | accept stage; the WebSocket engine's recheck |
| WebSocket engine | `core/njs/shield_ws.js` | one object per session: mode, byte buffers, held frames, message under assembly, subscriptions, three token buckets, ban recheck time, `killed` | callbacks `upstream` (`onData`, `pump`, `inspect`) and `downstream`; `violate` | nginx, for data in either direction |
| Handshake sniffer | same | bytes held, reads, scan position | `headerBlockEnd`, `hasBareLf`, the handshake branch of `onData` | the engine |
| Query budget | same | none (pure) | `checkFilters`, `isNarrowing` | `inspect` |
| Token bucket | same | tokens, last time | `bucket`, `takeToken` | `inspect` |
| Banlist file backend | `core/actions/shield-ban` | the file, its lock, a temporary file per run | `ban`, `unban`, `check`, `list`, `health` | fail2ban's action, operators |
| eBPF backend: bans | `guard/src/main.rs` | pinned map `shield_bans` | `ban`, `unban`, `check`, `list`, `stats` | the wrapper `guard/shield-ban`, operators |
| eBPF backend: life cycle | `guard/src/main.rs` | tc filter on the interface, pins, `shield_config`, heartbeat in `shield_health` | `load`, `unload [--purge]`, `throttle`, `status`, `watchdog`, `health` | systemd, the watchdog timer, fail2ban's actioncheck, operators |
| eBPF classifier | `guard/bpf/shield_guard.bpf.c` | `shield_bans` (read), `shield_throttle` (one bucket per source), counters | one run per packet, on any CPU | the kernel |
| Wrapper | `guard/shield-ban` | none; both backends behind it | file backend, then guard | fail2ban |
| Build script | `guard/build.rs` | none | chooses a compiler for the BPF object | cargo |
| Detection | `core/fail2ban` | fail2ban's tickets | jails, action | log lines |
| Configuration | `bin/shield-config`, `presets`, templates | none | layered lookup, rendering | deployment |
| Admin UI | `ui/src` | a thread per connection; files and maps of others | `serve`, `read_request`, `handle`, `tail`; `collect`, `json` (pure) | operators, over a loopback listener |

How they interact: njs and shield-ban share the banlist file (rename under a
lock on one side, stat and read on the other); fips-guard commands, the
watchdog and the classifier share pinned maps; all listeners share one dict;
the classifier's CPUs share the bucket of a source; the dashboard runs the query
verbs of shield-config, shield-ban and fips-guard and reads logs that nginx writes
and logrotate moves. There is no message
passing; everything hard here comes from *unlocked shared state between short
processes*, from *bytes that arrive in arbitrary pieces*, and from *clocks*.

Hard behaviours, and what would be correct there (the full list, with lines, is
`hazards` in PROJECT.json):

* **engine**: reads cut frames, messages and the handshake anywhere; control
  frames come between fragments; either callback may end the session or throw.
  The relay must get exactly the approved messages, in order; nothing decidable
  may wait; buffers stay bounded; one verdict per cut.
* **accept stage**: fixed windows, one dict for all listeners, evictions, an
  banlist that is missing or cannot be read. A node is judged by its own
  connections; enforcement should never be off in silence.
* **banlist file**: concurrent runs, kills between any two steps, readers
  between stat and read. No update is lost; no answer is older than its stat.
* **eBPF bans**: a full map, a sweep in two loops, no lock. Ban entries in force
  stay; a command fails only for a cause.
* **both backends**: the wrapper calls them one after the other, ignores a failure
  of the first, may be killed in between, and runs in several copies. Where an
  order reached both, they must agree.
* **life cycle**: kills and interface losses between detach and attach; the
  timer against an operator. No filter without reachable maps; the throttle
  survives a repair; a lost filter comes back; `health` does not lie.
* **classifier**: several CPUs in one bucket, unsigned wrap, integer division.
* **dashboard**: a peer that drips, stalls or stops; a log that grows, moves or
  shrinks between two system calls; tools that fail each in their own way; text
  from clients in JSON. Reading is bounded, every connection ends, lines are whole
  and recent, each panel tells the truth about its tool.

## 2. Modules

| Module | Models | Notes |
|---|---|---|
| `Buckets` | `bucket`, `takeToken` | operators; tokens in 1/1000 of the code's unit, and whether rounding has left the code's number below that |
| `TokenBucket` | one bucket and a clock that runs and is set back | `PartsProofs` |
| `WsFilters` | `checkFilters`, `isNarrowing` | operators with early returns, and the budget they are for (`WithinBudget`); `WsLemmas` |
| `HttpQuery` | request targets: split, pairs, percent-decoding | operators on bytes |
| `JsonWriter` | `ui/src/json.rs` | operators on characters, and a JSON reader as reference |
| `Collect` | what the dashboard makes of the output of its tools; `api_status` | operators; `cmd_stats` of the guard is here too, since its rows are what is parsed |
| `BpfBuild` | `guard/build.rs` | operators |
| `Sorting` | `sort_by_key` of Rust's slices, external | stable, by ranks, so that it means the same to TLC and to the prover also where keys are equal |
| `MCAlgorithms` | the algorithms above, over every small input | `PartsProofs`; one step from an input to an output |
| `MCParts` | nothing of its own | `TokenBucket`, `WsHandshake`, `Dashboard` or `MCAlgorithms`, any one of them, in one run |
| `WsHandshake` | the handshake branch of `onData`, byte by byte | `PartsProofs`; every stream over its alphabet and every cut into reads |
| `WsEngine`, `MCWsEngine` | one session: both callbacks, `pump`, `inspect`, `violate` | `WsEngineProofs`; extends `WsFilters` and `Buckets`; the relay and its reassembly are in the module, as what the properties are about; the MC module has frames, grammars and policies |
| `Access`, `MCAccess` | `access` and the shared dict | `AccessProofs`; one call is one step: `incr` and `add` are atomic |
| `BanEntries` | the data of a ban list, common to all backends | |
| `BanRegistry` | the abstract specification of a backend: each ban/unban takes effect once or not at all and touches no other entry in force (a backend that may tear its list may also lose entries, but never invents one) | refined by `BanFile` and `GuardBans` |
| `BanFile` | `shield-ban` runs and njs readers on one file | `BanFileProofs` |
| `GuardBans` | fips-guard's ban commands, one map operation a step | extended by `Backends` |
| `Backends`, `MCBackends` | the wrapper: the file backend, then the guard, in one process | `BackendsProofs`; `MCBackends` has the symmetry |
| `Guard`, `MCGuard` | attachment, pins, throttle setting, watchdog, health | `GuardProofs` |
| `Throttle`, `MCThrottle` | the classifier for one source, one load or store a step, and the throttle setting it reads | `ThrottleProofs`; unsigned numbers wrap at `Modulus`; `MCThrottle` has settings and the symmetry |
| `Dashboard` | a connection to shield-ui, its peer, and the log it serves | `PartsProofs`; one system call a step |

A definition whose name carries a suffix, such as `Flock_shared`, is a *slip*: a
plausible mistake in the code of the definition that follows it. No
specification uses them; the mutants of PROJECT.json put each in the place of
the real definition to show that a property notices.

### Correspondence and abstraction

*WsEngine.* `pc` is "pump" while a callback is inside `pump()`'s loop; otherwise
a callback is one step. Bytes are counted; payload bytes are symbols, and
`Grammar` says which payloads parse as JSON and to what. `acc`, `pendingLen` and
`need` are the code's. History variables (`up`, `down`, `approved`, `consumed`,
`passed`, `verdicts`) record what was sent and decided. The end of the client's
data arrives as an event of its own, as epoll reports it. nginx's own tolerance
for leading blank lines in a request is not modelled.

*Buckets.* The code's tokens are a floating-point number. Whole tokens and whole
seconds are exact in it; any other refill may round by far less than a unit of the
model, which shows only where the sum is compared with exactly one token. `refill`
takes whether this one loses as a choice, and `short` remembers it: with rate 1 and
burst 3, messages at 0, 300, 600 and 1000 ms are one too many for the code and not for
exact arithmetic. `RefusedOnlyOverRate` says so: a refusal means more than the bucket
pays for, or exactly that with a refill in between.

*WsHandshake.* Indices are the code's. "U" stands for the upgrade header's text,
which keeps streams short enough to enumerate. "B" is a byte that is no UTF-8: the
head becomes a string and a buffer again (`shield_ws.js:538`, `:541`), which puts
U+FFFD in its place (`Utf8`); what follows the head is passed on as it is. How many
bytes U+FFFD takes the model does not count.

*Access.* The ban list is a set; when it is read is `BanFile`'s subject. A VM has
no past, so a list it does not get to read means an empty one. `list` tells the two
ways this happens: "gone", where the stat fails, and "unreadable", where the stat
works and the read does not (or the file goes between the two).

*BanFile.* A run is idle, waiting for the lock, past its lock, or before its
move. The history `log` holds all lists ever in place; a file's stamp is its
place in it, that is, every replacement is taken to change (mtime, size).
`ReadFaults` lets the filter in the pipeline fail half way; the run is then at
"torn", and its move is the registry's `Tear`. Temporary files that a killed run
leaves behind are not tracked; nobody reads them.

*GuardBans, Guard.* A command is a process; each map operation, tc call or
unlink is a step; a kill can come between any two. All maps of one load are
created in one step. `Guard` numbers maps by creation to tell a pinned map from
one only a filter still holds; its time of day is `now - skew`, and `SetBack`
moves it back. Nothing in the code keeps commands apart. Histories record where
they have met: `crossed` in `GuardBans` for each run in progress, `overlap` in
`Guard` for ever; some properties except what happens then, and the observations
below say what that is.

*Backends.* A run of the file backend is one step, as `BanFile` shows it to be: it
takes effect, tears the list, or does nothing. `order` is the wrapper's command
line, `exec` turns the same process into a command of `GuardBans`. Both clocks run
at one rate. `agreed` is a history: for each address the delay of the last order
that reached both backends, until another order on it or a torn list.

*Dashboard.* One connection at a time: threads share nothing but the listener.
Bytes from the peer are counted and only line ends told apart; a log is a
sequence of bytes that know their line, so that a fragment can be seen. An open
file that was moved away stays open (`fd`). `Route` answers every page but the log
at once; what those pages say is `Collect`. Wording, headers of the response and
page.html are left out.

*Collect, JsonWriter.* Keys are pairs of family and name; a value is a sequence of
parts; a document is a sequence of characters. A number is one character.

*Throttle.* The compiler may reload or reuse `tokens_milli` in the decrement, so
`Spend` chooses. The setting is read where the code reads it: the rate, then the
burst, then the rate again at a refill, with changes in between. Packet counters
are left out. The LRU map drops the bucket only while no CPU works on it. The
history `overlapped` records whether a packet ever came in while another CPU was
at work on one of the same source.

## 3. Runs

Runs expected to pass:

| Run | Shows |
|---|---|
| Parts: bucket | in no stretch of time are more messages admitted than burst plus rate, also when the clock is set back; a client below its rate is never refused, and one exactly at it only through the rounding of a refill |
| Parts: sniffer | it decides as if it saw the stream at once: no end of a header block is missed, no bare LF goes upstream, no refusal without its reason; what it read goes on, the head as text and the rest byte for byte |
| Parts: dashboard | a connection reads a bounded number of bytes and ends, whatever the peer does; the lines served are whole, the last ones, and as many as were asked for or fit, unless the log is written to between the two seeks of `tail` or emptied under its read |
| Parts: functions | for every small input: `checkFilters` accepts exactly the lists within the budget; however a target is spelled, the path and pairs meant are read; no text gets out of its JSON string; of the limits that belong to a service each is shown with its own; each panel tells what its own tool printed or why it said nothing, the longest bans first; the object is built by the operator's compiler, by plain clang or by the newest that runs |
| WsStream | fragments, control frames, good and bad headers of all length encodings, cut into reads: the relay reassembles exactly the approved messages and never part of another; decisions are prompt, buffers bounded, and every frame is decided in the end |
| WsSession | all message types and policy faults over time, with bans, exceptions, all handshake classes and replies: what reaches the relay is within type, kind, filter, subscription and rate policy; one verdict per cut; no traffic of a banned node after the recheck interval |
| Access | refused only for one's own connections to that listener; at most twice the rate in any window-long stretch, and once more per eviction; where the banlist is missing, or none is configured, a listed node gets in only past a warning about that listener |
| BanFile | no lost update; implements `BanRegistry`; no run waits for a dead lock holder; no answer from a list older than the stat (if the read fails, from none older than the copy kept) |
| Backends | after an order that reached both backends uncrossed, what the file bans the guard drops, and after the wrapper's delay the reverse; a ban fails only if the map is full of bans in force even after the sweep, an unban only if another command came between; the map implements `BanRegistry` at its limit in every step in which no run has been crossed |
| Guard | `health` says ok only if a filter was attached recently enough, give or take what the clock was set back, and a missing filter comes back, with commands interleaved freely; as long as they do not overlap, no orphaned filter, and the throttle survives repairs |
| Throttle | two CPUs: a packet covered by a ban throughout is dropped; while the CPUs take turns the throttle lets through at most the largest burst plus what the largest rate earns in the stretch and in the millisecond running at its start, one more burst per eviction, however the setting changes |

`Parts` is one run: an initial state chooses the part, and the others stay as they are.

Runs in which the code disagrees with what the repository says of it (each a finding
in PROJECT.json with the line it contradicts):

| Run | What TLC shows |
|---|---|
| ThrottleSlowRate | the part of a millisecond is discarded at each refill, so a source within its rate is dropped |
| BanReadFails | the banlist can be stat'ed and not read: `banLoadFailed` is cleared before the read (`shield_core.js:105`) and its failure returns a new VM's empty map (`:120-123`), so listed nodes get in and nothing is logged, which the comment at `:268-270` means to prevent |
| GuardCounters | `cmd_stats` prints one space after "dropped (throttle)" (`guard/src/main.rs:587`) and `guard_stats` cuts at two (`collect.rs:231`): the dashboard never shows that counter, though labels may have spaces (`:228-230`) |
| PinnedPreset | the preset shown is that of the connection rate alone (`collect.rs:151`): a service with other limits pinned keeps the preset's name, against `docs/admin-ui.md:95-97` |

### Observations

Behaviours of the models, each met as a TLC counterexample to a stronger
property than the ones kept, that a reader of the code should know:

* `Throttle`: a source can gain up to a millisecond of its rate. A fresh bucket
  and every refill are stamped with the packet's own time, and whole milliseconds
  are paid for in full; a packet that comes within the millisecond after the stamp
  spends what was paid up to the stamp, so a stretch that begins with it sees the
  next refill pay for time before its start (`shield_guard.bpf.c:206-213`). For rates above a
  packet per millisecond this is worth packets; it is the `NsPerMs - 1` in
  `AdmissionBound`, and an attempt to prove the bound without it is what showed it.
* `Throttle`: without `~overlapped`, `AdmissionBound` fails. Two CPUs can spend
  the same token, replace each other's fresh bucket, or make `now - last_ns` wrap
  (`shield_guard.bpf.c:206`).
* `GuardBans`: without the exception for crossed runs, `KeepsRegistryAlone`
  fails. `prune_expired` removes by key what its first loop collected, so a ban
  renewed by another command in between is deleted although it is in force
  (`main.rs:447`). `list` and `stats` sweep too, and the dashboard runs both every
  five seconds: it is not quite as read-only as `docs/admin-ui.md:7` says.
* `GuardBans`: the deadline of a ban is fixed before the insert, so a ban that is
  held up is inserted when it has already lapsed; a map can then be full of such
  entries after a sweep, and the next ban fails (`main.rs:471`, `:485`).
* `Backends`: an unban whose file backend fails is reported as done while nginx
  goes on refusing the address (`guard/shield-ban:21`); two wrappers that cross
  may leave the backends in opposite states.
* `Guard`: a clock set back makes an old heartbeat fresh for as long again, which
  is why `HealthMeansEnforced` allows for `skew` (`main.rs:302`).
* `Guard`: without `~overlap`, `RepairKeepsThrottle` fails, since the watchdog
  writes back the configuration it read before its reload and so undoes a
  `throttle` that ran meanwhile (`main.rs:255`); so does `NotOrphaned`: a
  repair between the detach of a purge and its unpinning leaves the filter with
  maps that nobody can open (`main.rs:395`), the outcome `main.rs:391-392` names.
* `Guard`: a purge with nothing attached is refused as "still attached", because
  every failure to detach is taken for a filter that stayed (`main.rs:390`); a
  purge does not unpin `shield_health` (`main.rs:395`).
* `BanFile`: if `active_entries` fails half way, `rewrite` at the other end of the
  pipe moves the shortened list into place; this is why `BanRegistry` has `Tear`.
* `WsEngine`: `msgReads` counts every read of an open WebSocket and only the end of
  a data message resets it, so control frames between messages use it up and a
  client is cut with `frame-flood` in the middle of no message
  (`shield_ws.js:558`), although `:475` says "a long-lived client sending many
  messages is fine".
* `WsEngine`: a violation found in the downstream callback sends its closing
  frame to the client and none to the relay (`shield_ws.js:630`); what the relay
  sends after a kill still reaches the client (`:633`); NEG-CLOSE frees the slot
  of a REQ of the same id (`:363`); and a banned client that only listens is not
  cut, since the recheck belongs to the upstream callback (`:493`):
  `BanCutsWithinRecheck` speaks of what the client sends for that reason.
* `Dashboard`: if the log grows between the two seeks, the window moves and with
  `want = len` its first line is a fragment that is kept (`collect.rs:247`, `:255`);
  if it is emptied there, the answer is 500. If the window starts at the start of
  a line, that whole line is dropped as a fragment.
* `Dashboard`: the timeout is per read, so a peer that sends a byte every ten
  seconds holds a thread for as long as the byte bound of `ReadBounded` lasts
  (some 50000 bytes), though not for ever. A header line of exactly
  `MAX_REQUEST_LINE` bytes before its CRLF leaves the CRLF to look like the end of
  the headers (`http.rs:168`).
* `Dashboard`: when shield-config fails, every log is "unknown service"
  (`ui/src/main.rs:103`, `:248`).
* `Collect`: a limit without a profile's prefix, such as `SHIELD_CONNRATE_TIMEOUT`, is
  shown nowhere, while `docs/admin-ui.md:86` has "every limit in force" in the row of
  a service. `LimitsWithTheirService` says nothing about limits of no service.
* `WsHandshake`: bytes of a request head that are no UTF-8 reach the relay changed
  (`shield_ws.js:538`, `:541`).
* `Buckets`: a client that sends exactly at its rate can be cut by the last bit of a
  sum (`shield_ws.js:188`).
* `HttpQuery`: `%+f` is an escape, since Rust's radix parser takes a sign.

### Bounds, and why they are enough

* Engine limits are scaled down (two fragments, messages of two bytes, one
  subscription, one to three held frames) so that each can be exceeded within
  `MaxFrames` = 3 frames. `WsStream` reads one byte, seven, or all there is, and
  has two frames in flight, so that every boundary is cut and merged; there a
  message of three fragments overruns the fragment limit. `WsSession` reads whole
  arrivals, holds at most one frame, and has two ticks: enough for a bucket to
  run dry and refill, and for a recheck to be passed and armed again. The two runs
  share the module and divide frames and events, because the product is out of
  reach and the questions are independent.
* Sniffer (`WsHandshake`): 8 bytes hold two header ends and everything between, or an
  upgrade head and a byte after it; with 3 reads and a limit of 7 bytes both limits are
  exceeded. `MaxOdd` = 1 byte that is no UTF-8 and one upgrade header are enough to meet
  every place: a second of either changes no decision.
* Functions (`MCAlgorithms`): three filters exceed `maxFilters` = 2, four items and a text of
  three are exceeded by the values offered; targets have every separator and the
  escape character in every place of names of two bytes and values of one, spelled
  with as few escapes as possible and with as many; texts of three characters hold
  every escape next to every other character; configurations have every subset of
  eight keys, one or more for each rule of `relevant_to`; four ways for each tool to
  end, with lists of three ban lines, two of them malformed, for a page of two.
* Bucket (`TokenBucket`): four takes exceed a burst of three after refills of less than
  a token that add up to one, exactly or with a loss, or to more, within `MaxTime` =
  1100 ms; `Throttle` likewise with four packets under three settings (one
  of them off) and two changes, so that a bucket meets a lower burst, and the
  throttle after a pause, with 3 ticks to the
  millisecond and a rate of two packets in one, so that a refill is worth more than
  a packet and a fraction of a millisecond counts; `Modulus` is far above any sum
  (the wrap occurs only through a negative difference, as in the code).
* `BanFile`: two runs and two operations give every pair of overlapping
  operations, next to a session that checks again and again; two addresses tell
  "mine" from "another's"; the times let a ban lapse before, during and after a
  run. The proofs cover any number of each.
* `Backends`: two runs and three orders, two addresses for a capacity of one: one
  order fills the map and two more meet at its limit. Addresses and runs are
  symmetric, and the run has only safety properties, for which symmetry is sound.
* `Guard`: two commands and two faults between the timer's own
  runs, which are not bounded.
* Dashboard: lines of two to four bytes in a window of six, and at most four of
  them: windows that hold the file, start in a line and start between lines, with
  fragments inside and outside of what is asked for. A request line of three bytes
  and a header budget of five let each of the three limits be the one that is hit.
* `Access`: four connections over two windows exceed the rate of the first
  listener by as much as fixed windows can, and that of the second in one window.

Deadlock is checked in the run of `Guard`, where the timer goes on for ever; the
other systems may come to rest (the client has sent everything, the bounds are
used up), so their configurations say so.

### Fairness

* `WsEngine`: weak fairness of the callbacks for data that has arrived, and of
  the loop in `pump()`: nginx calls the filter for what epoll reports, and njs
  runs a callback to its end. None for the client, bans or the clock.
* `BanFile`: strong fairness of a run's own steps: a process is scheduled, and
  flock wakes a waiter. None for starts, kills, or readers.
* `Dashboard`: weak fairness of the server as a whole: the thread is scheduled, the
  tools it runs end, and a read or a write that nothing else ends is ended by its
  timeout (`http.rs:228-229`). None for the peer, nginx or logrotate.
* `Guard`: weak fairness of the steps of runs, of the timer, and of the return
  of the interface. The timer unit is wanted by `timers.target`, and the service
  it starts requires `fips-guard.service` to be active; with the timer disabled,
  or that service stopped, `WatchdogRepairs` does not hold, and is not claimed.

## 4. Proofs

Each `...Proofs` module extends the modules it is about; `WsLemmas` has what the
operators of the WebSocket engine compute, for the two modules that need it. The
theorems hold for all values of the constants that satisfy the modules'
assumptions: any number of processes, CPUs, listeners, addresses and frames, any
limits, rates and bounds. All but three name a property that a run checks too; the
three, `BudgetExact`, `DocumentsExact` and `BuildBest`, say of an algorithm for every
input what the run `Parts` checks for small ones, and each has its theorem about
the run next to it.

| Module | Theorem | States |
|---|---|---|
| `WsEngineProofs` | `OnlyInspected` | `OnlyApprovedUpstream`: the relay gets a prefix of the client's frames, in order, each of a message inspected whole and approved |
| | `DecidesPromptly` | `PromptDecision`: nothing decidable waits for another read |
| | `HoldsLittle` | `HeldBytesBounded`: what is held between callbacks is bounded |
| | `SubscriptionsCounted` | `SubsAccounted`: the counter is the number of open ids, within the limit |
| | `OneVerdict` | `OneVerdictPerCut` |
| | `BanCuts` | `BanCutsWithinRecheck`: no bytes of a banned client after the interval |
| | `RelayGetsWhatPassed` | `RelayReassembles`: the relay puts together exactly the approved messages and is never left inside one |
| | `RelayGetsOnlyAllowed` | `PolicyHolds`: each of them is allowed by type, kind and query budget |
| | `RelayGetsAtRate` | `RatesHold`: no more of a class than its burst and rate pay for |
| `WsLemmas` | `BudgetExact` | `checkFilters` accepts exactly the lists within the budget, for every list |
| `AccessProofs` | `MissingListWarned` | `MissingListIsSaid`: past a missing or unconfigured list, no listed node without a warning |
| | `RefusedOverOwnRate` | `RefusedOnlyOverOwnRate` |
| | `AcceptedInTwoWindows` | `AcceptedBound`: at most twice the rate in a window-long stretch, once more per eviction |
| `BanFileProofs` | `FileTypeCorrect` | every list in place is well-formed; a run that reads or replaces it holds the lock |
| | `NoLostUpdate` | `TmpFromCurrent`: what a run moves into place was made from the list it replaces; a torn copy has no foreign entry |
| | `FileKeepsRegistry` | `KeepsRegistry`: implements `BanRegistry`, which tears a list only if `ReadFaults` and loses it only if `VolumeLoss` |
| | `AnswersAreFresh` | `ChecksAreFresh`: no answer by a list older than the stat |
| `BackendsProofs` | `MapKeepsRegistry` | `KeepsRegistryAlone`: the map implements `BanRegistry` in uncrossed steps |
| | `FailuresHaveCauses` | `FailsOnlyForCause` |
| | `BackendsStayAgreed` | `BackendsAgree` |
| `GuardProofs` | `NeverOrphaned` | `NotOrphaned`, while runs have not overlapped |
| | `ThrottleSurvivesRepair` | `RepairKeepsThrottle`, likewise |
| | `HealthIsHonest` | `HealthMeansEnforced`, with runs overlapping freely |
| `ThrottleProofs` | `NoPacketUnderBan` | `BanEnforced` |
| | `ThrottleAdmits` | `AdmissionBound` |
| `PartsProofs` | `BucketTypeCorrect` | the content is an integer no larger than the burst |
| | `BucketAdmission` | `AdmissionBound`: between any two admissions at most burst plus what the rate earned |
| | `BucketRefusal` | `RefusedOnlyOverRate`: no refusal below the rate, and none at it without a refill |
| | `SniffsAsWhole` | `SameAsWholeScan`: the sniffer decides as one scan of all bytes would, however they are cut, and forwards what it read |
| | `ConnectionReadBounded` | `ReadBounded` |
| | `TailServesTheEnd` | `TailIsRecent`: whole lines, the last ones, as many as asked for or fit |
| | `BudgetChecked` | `AcceptsExactlyWithinBudget`, for all limits |
| | `DocumentsExact` | log, service and error documents say what they were made from, for every text over every alphabet |
| | `DocumentsChecked` | `NothingBreaksOut` |
| | `BuildBest` | the best compiler is chosen, on every host |
| | `BuildChecked` | `BestCompiler` |

The arguments, and why the invariants are what they are:

*WsEngineProofs.* A step of a session either cuts it, or follows the cut and
changes nothing that was sent or decided (`Frozen`), or is one of the kinds of
`OpenStep`; the lemmas `FrozenStep`, `CutStep` and `OpenSteps` sort the actions once,
and every conjunct of `EngineInv` is then kept by three cases. `OnlyApprovedUpstream`
says nothing about what is still held, so it is not inductive: `Tally` adds that the
frames consumed split into n that were sent, each of a message decided among them,
and the rest, which are exactly `pending` and hold no end of a message.
`PromptDecision` needs `Waiting`: `need` is never more than the decision about the head
frame takes, and between callbacks fewer bytes are there. `HeldBytesBounded` needs
that and `Assembly`, the limits on the message in progress. `BanCutsWithinRecheck` needs
that the recheck is due no later than an interval after the ban (`Recheck`), which is
kept because only a callback that just found no ban puts it off. The subscription
set is finite (`Ids`), or its cardinality would mean nothing.

What the relay makes of its frames is a recursive function of `up`, and `up` grows by
whole messages: `Reassembly` says that the relay is at rest with the approved messages
in hand, and that `pending` by itself holds no whole message, only the one the engine
has in assembly, with the same text. The release of
`pending` with a last fragment then adds that one message, and a control frame between
fragments adds none. An approved text is allowed because `inspect` has
tested it, with `BudgetExact` for a query. For the rates `Accounts` holds for each
bucket that what it let through and what it still has are paid for (`Funds`), and
`AllPaid` that so are the messages approved.

*WsLemmas.* `checkFilters` adds up keys and array lengths as it goes and stops at the
first fault; the budget is a cardinality, of the set of all places of all filters. The
sum up to a field is the cardinality of the places up to it (`ItemsCounted`), and up to a
filter likewise (`ScanKnows`); a fault found means a filter that is not sound, and if
none is found all are (`FaultMeansUnsound`).

*AccessProofs.* A counter is never ahead of the connections it counts (`Behind`),
which gives that a refusal is deserved; and never behind by more than the rate for
each time it was dropped (`Covered`), which bounds what one window lets in. A stretch
as long as a window meets at most two (`TwoWindows`). A warning's gate in the dict
implies a logged warning (`Gated`), so a missing list is said (`MissingListIsSaid`); the list
is whole, gone or unreadable (`ListKnown`), and the last of these is excepted.

*BanFileProofs.* The type invariant includes "past flock means holding the
lock"; that is what makes `TmpFromCurrent` inductive, since no other run can
then replace the file and the passing of time only lets entries expire. The
refinement maps a move to the registry's `Apply`, the move of a torn copy to
`Tear`, a kill to `Fail`, the loss of the volume to `Lose`, and every reader's step
to a stutter; it needs in addition that a run past its start has an operation,
and is torn only if `ReadFaults` (`Busy`). For the readers, `CacheInv` says that a
session's copy was in place at or after the moment its stamp names.

*BackendsProofs.* `RunInv` ties a run's label to its job, its result and the
wrapper's order (`Control`), and says that two runs at work have crossed (`Crossing`).
What an uncrossed run has found out about the map is still true (`Fresh`), and the
map is within its capacity (`Fits`). So in the refinement a removal by an uncrossed
sweep or check is `Expire`, an insert or a delete is `Apply`, a refused insert or a kill
is `Fail`, and the rest stutters; and a ban fails only against a full map. For `BackendsAgree`,
`Agreement` adds that no run has an order open on an agreed address, that what any
run, crossed or not, is about to remove there has lapsed, and that an uncrossed
wrapper past its file backend finds there what it ordered.

*GuardProofs.* While runs have not overlapped at most one is at work (`Alone`); then
the first filter's maps are the pinned ones, also in the hands of a `load` on its
way, and a purge unpins only with nothing attached (`Linked`); a repairing watchdog
carries the throttle setting in force, and storing a setting twice is storing it
once (`Carried`). Without any assumption on overlaps, the run behind a heartbeat
began no later than the filter was last seen (`Witnessed`).

*ThrottleProofs.* `BanEnforced` needs only that a packet is covered by a ban no longer
than up to its lookup, whatever other CPUs do. `AdmissionBound` speaks of packets
passed and not of the bucket: `Paid` says, for every packet passed, that the packets
since and the credit in the bucket are paid for by one burst, the evictions, the rate
up to the last refill and one millisecond, also half way through a refill, where the
credit is in a register (`Settling`). `InTurn` and `Turn` say that one CPU is at work,
that its packet is the latest, and that what it read of the bucket is still true.
Sums may wrap at `Modulus` and only lower the credit; the assumption excludes a burst
that does not fit, and a rate without burst, which `set_config` never stores
(`main.rs:418-420`).

*PartsProofs.* The bucket's `AdmissionBound` speaks of pairs of past admissions and is
not inductive: it says nothing about what is left in the bucket. `IInv` adds, for
each admission in the history, that the tokens now in the bucket plus what was
taken since then are covered by the burst plus the time since (`Paid`). A refill
adds to both sides the same amount or is capped; a take moves a token from the
bucket to the history; a clock set back takes credit away on both sides. The other
direction needs an equation: while the clock has not been set back, the bucket holds
exactly what is left of a full one since some admission (`Exact`, `FullAt`), and it can be
short of that only if a refill came after.

The sniffer: what is held of a stream has no end of a header block in it (`HsInv`), so
one that a read completes begins at most two bytes before the read, which is
where the scan resumes (`ResumeScan`); and an end found in what has been read is the
first of the whole (`SameEnd`).

A connection: every byte read is in the request line, in `total`, or in the line
being read, which `take()` keeps short (`Accounted`).

The tail: the ends of the lines of a window are the ends in the log that lie in it,
moved (`WindowEnds`: both are the one increasing sequence of the same set), so every line
of the window but the first, which `tail` drops, is a line of the log (`WindowLines`); and if
fewer than were asked for are left, one more would not have fit (`LastBytes`).
`TailState` says what `tail` knows between its system calls: while the open file is not
written to between the seeks, the length is still that of the file, and whatever is
appended or moved away later, the window shows what was there at the seek.

The JSON: `Means(C, d, ts)` says that a reader outside a string, wherever it is, finds
the tokens `ts` in `d` and is outside again. This is kept by concatenation, so it is
enough to show it of a text between quotes (`MeansText`, by induction over the text
with one case for each escape) and of punctuation.

The compiler: ranks are places because of two elements one precedes the other and then
has fewer before it (`Ranks`); so the candidates are plain clang and every versioned
name, none before a newer one (`Candidates`), and the first that runs is the best.

Recursive functions and `FlattenSeq` are within reach of the prover by an induction
over sets of naturals (`NatInd`), after a lemma that the function exists (`ScanExists`,
`ReadExists`, `FlatExists`, ...).

Only model-checked:

* liveness (`EveryRunEnds`, `EveryFrameDecided`, `WatchdogRepairs`,
  `EveryConnectionEnds`): fairness and ENABLED are out of the prover's reach;
* `TargetUnderstood`, `LimitsWithTheirService` and `StatusHonest` of `Parts`: they
  go through `SelectSeq`, of which the prover knows no definition, and compare with
  tables of the instance.

## 5. Not modelled

* fail2ban's jails, filters and action: settings and regular expressions; the
  tickets, ban times and the actioncheck loop are fail2ban's own code. What its
  action calls is in `Backends` and `Guard`.
* `bin/shield-config`, presets and templates: text substitution without state.
  What they set are constants; what `show --porcelain` prints is read by `Collect`.
* containers, units, Makefile, tests, page.html.
* inside modelled parts: contents of log lines, IPv6 parsing in the classifier,
  packet counters, a corrupt line in the banlist, two replacements of the
  banlist that leave mtime and size unchanged.

## 6. Plan

Theorems: that percent-decoding undoes every spelling of a text, and that the ban panel
shows the bans that last longest, by `Sorted`; both first need the selection of a
subsequence in a form the prover can expand.

Model: a split status line in `WsEngine`'s downstream callback.
