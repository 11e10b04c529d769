# Blackwire: TLA+ verification project

Blackwire is a proxy in Rust: inbounds accept connections in several protocols and
transports, a dispatcher sniffs and routes each of them, an outbound connects to the
destination, and a relay copies bytes until one side ends. Around that data path run
tasks that share state with it: a health checker, connection pool refills, a config
watcher with hot reload, a gRPC management API, per-session drivers of datagram
transports. The models here are about those shared states. Bytes, cryptography and
formats are abstracted; control, order and failure are kept.

Every module names the source it models in its header, and `PROJECT.json` maps each
definition to source lines.

## 1. Inventory

| part | shared state | concurrent or failing steps | what has to be right |
|---|---|---|---|
| freedom pool (`protocol/freedom.rs`) | map of destination pools, in-flight counters, global idle budget | connects, refill tasks, eviction | counters match sockets, budget and caps hold |
| health checker (`app/health.rs`) | health map | probe rounds, members going up and down | flag agrees with failures, working members come back |
| balancer (`app/balancer.rs`) | health map, round-robin counter, adaptive state | picks read the map member by member while probes write | dead members are skipped, picks do not fail |
| config watcher, CLI loop, API (`config/manager.rs`, `cli/main.rs`) | current config, instance slot | file edits, failed builds, rollback, API calls that may be dropped | one instance at a time, the file is applied, users are revoked |
| hot reload (`core/reload.rs`) | routing rules, user registry | apply in several steps beside connections | failed reloads leave the old state |
| mKCP ARQ (`transport/mkcp/kcp.rs`) | send and receive windows of two ends | loss, duplication, reordering, timeouts, window probes | in-order delivery of whole messages, progress |
| mKCP listener (`transport/mkcp.rs`) | session table, cleanup channel, accept channel | reconnects, driver exits, full channels | entries follow sessions |
| mux demultiplexer (`protocol/vless/mux.rs`) | session maps, writer lock, upstream locks | reader tasks per session | frames reach their session, no lock cycle |
| dispatcher, router (`app/dispatcher.rs`, `app/router.rs`) | live rules, fake-IP maps, gauges | a swap during a dispatch, errors on every step | one rule set per decision, gauge returns to zero |
| relay, splice (`app/relay.rs`, `common/splice.rs`) | pipes, completion ring | half-close, drain timeouts, fallback | no byte lost, repeated or reordered |
| FakeIP, DNS cache (`app/dns/*`) | address maps | recycling under concurrent lookups | a fake address maps back to its own name |
| replay windows, TUN NAT, packet-up queue, Hysteria2 sessions, black-ui | tables with expiry | expiry races with use | nothing is used after it was recycled |
| protocol codecs, REALITY, ShadowTLS, TLS | handshake position | partial reads, errors, fallback | no step out of order |

`PROJECT.json` lists every part under `components` with its status, and under
`hazards` the places where the code is exposed.

## 2. Modules

| module | models | proofs |
|---|---|---|
| `FreedomPool` | the adaptive connection pool | `FreedomPoolProofs` |
| `HealthChecker` | probe rounds | `BalancerProofs` |
| `Balancer` (extends `HealthChecker`) | picks against the live health map | `BalancerProofs` |
| `ConfigReload` | watcher, CLI loop, API, apply, registry | `ConfigReloadProofs` |
| `Kcp` | both ends of the ARQ and the network between | `KcpProofs` |
| `MkcpListener` | server session table and accept loop | |

An `MC…` module gives each one small sets and symmetry; the `.cfg` files are the runs.
A definition whose comment starts with "Mutation of" is a deliberately wrong variant
of the one after it: replacing the original by it must break the property it is
paired with in `PROJECT.json`.

### FreedomPool

A *slot* is one unit of the global idle budget: free, dialled by a refill, idle in a
queue, or held by a connect. Every atomic or DashMap operation is a step of its own;
the code between two of them is not. The clock is abstracted: which sockets are
stale, how hot a destination is and which pool is the least recently used are choices
of the environment.

* `pool`: with evictions under running refills, the in-flight counters equal the
  refills they count, queues stay within their cap, the budget stays bounded, and until
  the first eviction it equals the units in use.

Bounds: two tasks, two destinations and a map of one, so that an insertion evicts; three
pool identities and two slots, enough for a refill, an eviction and a take to overlap on
one pool. A pool identity is reused once nothing refers to it. After an eviction units
can be given back twice, so `global_idle` has no lower bound of its own: `DebtBound` is
how far below zero the run follows it. A behaviour may stop at that bound, hence no
deadlock check here.

### HealthChecker and Balancer

A round probes every member; a probe succeeds when its member works. `consecutive
failures` saturates at `FailCap`, above which all counts behave alike. A pick of the
balancer scans the map one member per step; history variables record which members
were alive or dead at some or all moments of the pick, which is what its result can
be judged by. Scores are any value of a small set; cooldowns expire at any time.

* `health_checker` (fair probe rounds: the interval task always runs and every probe
  has a timeout): flag and count agree; a member that stays up or down is eventually
  seen as such.
* `balancer`: all four strategies (the strategy is chosen in `Init`) under concurrent
  probes and two callers. Except for the adaptive strategy, the picked member was seen
  alive during the pick, or it is the first one and every member was seen dead; a least
  latency pick that no probe overtook has the lowest latency of the alive members; a
  pick fails only when a probe overtook it; an adaptive switch avoids cooling members
  unless each of the others is cooling or was seen dead.

Bounds: two members, two callers, one failure marks a member dead, connection failures
saturate at the threshold. A member has the one probed latency or the never-probed
value, so a pick compares different latencies and also breaks ties.

### ConfigReload

A config is the outbounds it defines, its balancers with their members, the outbound
its rule names and, for each VLESS inbound, the clients in order; one client may be
unparsable. The file, the watcher, the start-up path, the reload loop and each API
client have a program counter; mutex-protected sections are single steps, awaits are
not. `apply` refreshes one registry after the other and stops at the first error. An
API call may be dropped at any of its awaits (`ApiDropped`), which is what tonic does
with a handler whose client resets the stream or whose deadline passes.

Three history variables tell what to judge by: `applied`, the file config that start-up,
a rebuild or an apply of the loop last put into effect; `drifted`, set when since then an
apply broke off in a registry or something was built from a config with other clients;
`lost`, set when a rollback failed or a call was dropped in its rebuild.

* `reload_safety`: with two edits, two API clients, two inbounds and failing builds,
  rebuilds exclude each other; the started process is without an instance exactly during
  a rebuild or once it is lost; and the registries hold the users of `applied`, up to what
  the API did to them since, outside a refresh and unless the state has drifted.
* `reload_live` (weak fairness for the tasks: each is an always-ready tokio task):
  a good file is applied, users included.
* `reload_api_stops_loop` (violation): a file change that meets an API rebuild ends the
  reload loop, against the help text of the command.
* `reload_failed_apply` (violation): an apply that fails in a registry keeps neither the
  prior routing nor the prior users, against the message it is logged with.

`MaxEdits = 2` suffices: the second edit meets the state the first one left. `MaxCalls = 3`
lets two structural calls overlap and a third, of either kind, follow. With two inbounds an
apply fails with one registry refreshed and the other half filled. The liveness runs start from the
subscription of the loop and use configs that add no balancer (see Known departures).

The system may stop (the watcher ends, builds fail for good), so deadlock is not
checked.

### Kcp

One direction of a session: sender queue and buffer, network as a set of packets that
may be lost, duplicated and reordered, receiver buffer, queue and pending list, user.
Fragments are numbered; a message is a run of fragments. Time is abstracted: any set
of unacknowledged segments may be due at a tick. Sequence numbers are unbounded.

* `kcp_safety`: order, whole messages, the sender gives up only what arrived, and no
  stale window announcement overfills the receiver.
* `kcp_live`: under fair ticks, a fair user and a network that does not lose or hold
  back one kind of packet for ever, everything arrives or the link is declared dead. This
  is claimed for *receivable* configurations only (`Receivable`): `rcv_wnd` is not zero,
  every message fits the receive window, and a full window fits the 65535-byte buffer of
  `recv`. The code enforces none of the three, and the default window of 128 segments
  does not meet the last (see `kcp_peeksize` and Known departures).
* `kcp_peeksize` (violation): a comment on a too small buffer that the code does not keep.

Bounds: four fragments, a receive window of two and a network of two packets let a batch
become deliverable at once, a window close, and stale acknowledgements arrive late. The
liveness run writes five fragments, in messages of one and two, before the first tick: two
messages pending and a full queue leave one fragment to meet the closed window. Its
network holds one packet in each direction (`LaneCap`), so packets are lost and repeated
there but overtake each other only in the safety run. `PendingCap` is `rcv_wnd` as
configured: a zero is ignored by the ARQ but not by the drain.

### MkcpListener

Drivers are numbered in the order they start; each has its peer, conversation, task
state and the state of its stream. A packet of a known session changes nothing here
(module `Kcp` says what the driver does with it).

* `mkcp_table` (strong fairness of the cleanup arm: `select!` polls its arms in random
  order): entries belong to running drivers or ones whose exit is still to be read, and
  entries of exited drivers disappear.
* `mkcp_cleanup_by_peer` (violation): cleanup by peer address removes the entry of a
  newer session.

Bounds: two peers, a table of one, channel and permits of one, so each limit is reached.
A driver that panics, and so never sends its cleanup message, is not modelled.
Once listener and drivers have ended nothing is left to do, so deadlock is not checked.

## 3. Proofs

All theorems hold for every value of the constants that satisfies the named
assumption of the module; TLC evaluates the assumptions on every run.

* **FreedomPool** (`PoolAssumption`). `PoolTypeCorrect`, `PoolInFlightExact`,
  `PoolBudgetBound`, and `PoolBudgetExact` (exact until a pool is evicted). The
  counters are related to cardinalities of slot sets; the inductive invariant adds
  which slots a program point of a task owns. Finite-set lemmas say how moving one
  slot changes the counts. `PoolBudgetExact` also needs that, before an eviction, every
  pool a task or a bound slot refers to is in the map; there is one lemma per action.
* **HealthChecker, Balancer**. `HealthDeadIffFailing` is inductive with the type
  invariant. `BalancerDeadSkipped` (every strategy but adaptive) needs the history: what
  a scan has tallied is covered by what was observed since the pick began.
* **ConfigReload** (`ReloadAssumption`). Two layers. `ControlInv` says who holds the
  instance at each program point: it gives type correctness, `ReloadOneInstance` and
  `ReloadInstanceKept` (an equivalence, so it also says that a lost instance stays lost).
  `UsersInv` rests on it and says what the registries hold while apply is under way: those
  before the current one the new clients, the current one the clients added so far; it
  gives `ReloadRevokesUsers` for any number of inbounds, users and callers.
* **Kcp**. `KcpInOrder` and `KcpNothingForgotten`: the invariant says that every
  packet in flight describes a past state of its sender (a push carries the fragment
  of its number, an acknowledgement a fragment that was received), that the receive
  queue continues what was delivered, and that the send buffer starts no later than
  the receiver's next number.

Only model-checked: liveness (fairness and `ENABLED` are outside the prover),
`WholeMessages` and `WindowBounded` of Kcp, the latency and adaptive properties of
the balancer, everything about `MkcpListener`.

## 4. Known departures

Met while modelling and visible in the models; those without a violation run of their
own are not asserted by any property.

* Pool: a refund computed from a queue read before concurrent refills ended lets
  `global_idle` drift after an eviction; two concurrent insertions may exceed
  `max_dests`; idle sockets may exceed `max_global_idle` after an eviction.
* Balancer: a round-robin or random pick overtaken by a probe may fail with "balancer
  has no outbounds" although members exist.
* Reload: an edit between the first config snapshot and the subscription, or before the
  watcher has registered, is not applied until the next one; the user registry is empty
  during a refill; a rule of a hot-applied file that names a new balancer resolves to
  nothing.
* Reload and API: a hot reload does not update the config kept with the instance, so a
  structural API call or a rollback rebuilds from the older one: users the file has revoked
  since the last build return, and user changes made through the API are undone. An API
  call dropped while it rebuilds leaves the process without an instance for good. Calls
  that add or remove a VLESS inbound are modelled as rebuilds only: the set of inbounds is
  fixed.
* mKCP: a segment is acknowledged even when the pending list is full. A write of more than
  `rcv_wnd` fragments or 65535 bytes is accepted and never becomes readable, one of 256
  fragments or more is dropped; with `rcv_wnd` configured as zero nothing is ever handed
  to the user. A session evicted from the table keeps running, so more sessions than
  `MAX_SERVER_SESSIONS` may run at once although the table keeps its limit.

## 5. Plan

1. Router and dispatcher: rule matching against a reference definition; a swap during
   a dispatch; the connection gauge.
2. Mux demultiplexer: sessions, reader tasks, locks; deadlock freedom.
3. Relay and splice: an abstract byte pipe that the io_uring and epoll loops implement.
4. FakeIP, DNS cache, replay windows.
5. TCP listener limits, instance lifecycle and TUN.
6. SplitHTTP packet-up queue, Hysteria2 UDP, Shadowsocks UDP sessions.
7. Handshake control flow of VLESS, VMess, Trojan, SOCKS, REALITY and ShadowTLS.
8. Black-UI server.

Theorems planned: the listener table, splice conservation, the FakeIP bijection.
