# containerlab-adapter: models, checks and proofs

TLA+ models of `containerlab-adapter`: an MCP server that deploys a containerlab
fabric for a named scenario, reads its counters over `docker exec` and `ssh`,
and answers in a fixed schema. Paths below are relative to the repository;
`driver/`, `adapter/`, `scenarios/` and `topologies/` are under
`src/containerlab_adapter/`.

## The system

| Component | State it keeps | Operations | What makes it correct |
|---|---|---|---|
| `adapter/server.py` | `session["client"]`, `run_id_to_scenario_name`, both in memory only | `run_scenario`, four `get_*` tools, `list_scenarios` | run ids and binding agree after any sequence of calls; a deployment is announced once; what an answer leaves out is accounted for; calls come back |
| `driver/client.py` | the topology path | `deploy`, `destroy`, `inspect`, `exec_on_node`, one subprocess each | the exec reaches the container it is meant for; a failure becomes an error |
| `driver/scenarios.py` | none | deploy, then the not-running check | ready is said only if every container that deploy reported is running |
| `driver/topology.py` | none; the topology file on disk | inspect, then the file, to a graph | refuses an undeployed lab; links are not older than the lab, and lead nowhere only after an edit or for nodes that were not counted |
| `driver/counters.py` | none | per switch: dump script, parser, join by object id; per host: `ethtool -S` | the parser rebuilds what Redis printed; a counter ends up under the object it belongs to |
| `adapter/schema_v1.py` | none | native records to the schema | PFC and watermark arrays land on the queue of their index; what is unknown is omitted, not 0 |
| `driver/_node_utils.py` | none | role of a container | every switch that inspect lists is read |
| `scenarios/`, `topologies/` | constants | the registry and its YAML | |
| `terraform/smoke_step3.py`, `scripts/smoke_topology.py`, `terraform/run-smoke.sh` | none, the lab itself | destroy, deploy, read, destroy | no lab is left up, none is in the way, what is read is of the lab that was deployed |
| `scripts/check_setup.py`, `scripts/smoke_vrspike_1port.py`, other `terraform/` | | print, provision | |
| containerlab, docker, SONiC (external) | the labs; Redis | deploy, destroy, a container exits; `swss` restarts | |

The server calls the driver, the driver calls containerlab, docker and ssh, and
everything durable is in the labs. A server does not own its lab: another
server, an operator or a smoke script can deploy and destroy it between any two
subprocesses of a call, and containers exit on their own. On a switch, the
databases go on changing while the dump script reads them one `redis-cli` after
another. That is where the difficult behaviour is; there are no threads inside
the server and nothing is persisted.

The hazards this gives rise to are listed in `PROJECT.json`, each at its line
and with the properties that cover it.

## Modules

```
Lab ──EXTENDS── AdapterServer ── MCAdapterServer      sessions rivals mgmtnet flow_unbound
 │                    ├───────── AdapterServerProofs
 │                    ├─INSTANCE─ DeploymentLedger     (implemented: rivals)
 │                    │           DeploymentLedgerProofs
 │                    └─EXTENDS── FabricGraph ── MCFabricGraph      fabric
 │                                      └─────── FabricGraphProofs
 ├──EXTENDS──── SmokeRun ─────── MCSmokeRun           smoke
 │                    └───────── SmokeRunProofs
 └─ LabProofs (lemmas on the lab's operations, used by both proof modules)

FabricDump ───────────────────── MCFabricDump         dump dump_blank
      └───────────────────────── FabricDumpProofs
SwitchCounters ───────────────── MCSwitchCounters     switch cold_boot
      └───────────────────────── SwitchCountersProofs
HostCounters ─────────────────── MCHostCounters       hosts host_sum
      └───────────────────────── HostCountersProofs
```

Three layers of one read. `AdapterServer` says which container a call reads and
from which deployment; its records have an origin and no contents. `FabricDump`
says that what a switch printed is what the parser returns, but for hashes with
an empty value (`DamageContained`). On that ground, and taking it from SONiC
that name maps and counters have no empty values, `SwitchCounters` lets the
script's reads go straight into the name maps and the hashes, and follows their
values into the answer; `HostCounters` does the same for a host.
`FabricGraph` composes `AdapterServer` with the files
that the labs are cabled from, and builds `get_topology`'s answer. `SmokeRun` is
a part of what `AdapterServer` calls the outside world.

`DeploymentLedger` is the abstract specification of what `run_scenario`
promises about deployments; `AdapterServer` implements it.

### Lab

Labs as containerlab and docker make them, from how the driver uses them:
`deploy` refuses a lab that exists and otherwise creates its containers, each
running with an address nobody holds or exited; `destroy` removes them; an
exited container stays listed without address. A deploy may create all, some or
none of the containers, whether it exits 0 or not, because the driver has
nothing that depends on it. All labs share one management
network, so an address given back may go to a container of another lab.
`epoch[t]` counts the deployments of lab `t`, and `cameUp[t]` remembers which
containers were running when it last came up; neither exists in the
code, they are what the properties compare answers with. `deploy` and `destroy`
are one step each: how containerlab interleaves with itself is not modelled.

### AdapterServer

| Model | Code |
|---|---|
| `client[s]`, `runName[s]` | `session["client"]`, `run_id_to_scenario_name` |
| `stage`, `req`, `seen`, `got` | where the call in progress is, its arguments, the last report, the records so far; after the return, the answer |
| `RunUnknown`, `RunNoFile`, `RunRefused`, `RunAccepted` | the branches of `run_scenario` before the deploy |
| `DeployFails`, `DeployReturns`, `RunNotRunning`, `RunInvalid`, `RunCompleted` | the driver's `run_scenario`, and the registration of the run, before or without a valid answer |
| `ReadUnbound`, `ReadStarted` | `_require_client`, `_resolve_read_args` |
| `InspectFails`, `InspectEmpty`, `InspectReturns` | the inspect of the `get_*` tools |
| `YamlRead`, `YamlFails` | `get_topology` reads the topology file |
| `ExecReturns`, `ExecFails`, `ExecFinished` | the exec loop of the counters tools |
| `ReadInvalid` | `validate_response` refuses a read's answer |
| `Restart` | a new process and `build_server` |
| `OutsideDeploy`, `OutsideDestroy`, `ContainerExit` | everybody else |

`DeployReturns` takes any report on any of the lab's containers, an empty one
too: `driver/scenarios.py:86-91` looks at the records it is given and compares
them with nothing, and `tests/test_server.py:169-181` has one of seven nodes
reported and the run completed. What was reported is kept in the claim's
`nodes` (the driver's `node_count`, which the schema drops). `ExecReturns` may
yield no record: a switch is in a counters answer by its ports, and one whose
name map is empty has none (`driver/counters.py:360`,
`tests/test_counters.py:425-455`); when that happens is what `SwitchCounters`
is about. A host always yields one.

A step ends with a subprocess, the read of a file or a return. A server has one call in progress:
the tools are plain `def`s, which the MCP library's FastMCP calls inline in its
event loop (an assumption about the library). The initial states include the
pre-bound client that `build_server(client=...)` takes. `Reaches` is the heart of
`exec_on_node`: a `sonic-vm` is reached by ssh to the address that inspect
reported, hence by whichever VM holds the address now, everything else by name.

### DeploymentLedger

`made[t]` counts the deployments of a topology, `held[s]` is the deployment that
a server made and has not answered for, `announced` the ready answers. A server
may announce only what it holds, and what it forgets is nobody's for good: there
is no action that takes up a deployment that already exists. The mapping, at the
end of `AdapterServer`, is

| Ledger | AdapterServer |
|---|---|
| `made` | `epoch` |
| `held[s]` | while the call is between deploy and answer (`stage[s] = "check"`), its topology and the epoch in its report; otherwise nothing |
| `announced` | server, topology and epoch of the `claims` |

`DeployReturns` is a `MakeHeld`; `DeployFails`, when it left containers, and
`OutsideDeploy` are `MakeUnheld`; `RunCompleted` is an `Announce`;
`RunNotRunning`, `RunInvalid` and a `Restart` in between are `Forget`; every
other step is a stutter.

### FabricGraph

`get_topology` joins two sources read at two times: the nodes are the ones that
inspect reported, the links those the topology file declares when it is read
afterwards, and the lab was made from the same file at an earlier time. `file[t]`
is the file's version, `cabled[t]` the version of the last deploy. `wiring[s]`
(the version of the lab that `s` inspected) exists in the model only;
`read[s]` is the version of the text in the call. `InspectGraph` and `ReadLinks`
are the server's `InspectReturns` and `YamlRead` with these, `EditFile` is
whoever works on the scenario, and `OtherStep` every other step of
`AdapterServer`. `TopologyAnswer` is what the driver and `translate_topology`
make of it; a link with one endpoint is declared in the instance and dropped by
the code.

An edit may change anything: each version of a file has nodes (`Declares`) and
links (`Links`) of its own, and a link may be to a node that no version
declares, since `get_topology` parses whatever is on disk. What ties the lab to
the file is the deploy: it takes a file whose links join its nodes (containerlab
refuses others, `WellFormed`) and creates nodes that this declares, all or some
(`MadeFromFile`).

### FabricDump

The dump script prints a line, and `parse_fabric_dump` consumes it, in one step:
the parser is a fold over the lines, so nothing is lost by running both in
lockstep, and its intermediate state can be compared with what has been printed.
A line is a field, a value, blank, or a marker with the name in it. Every
`hgetall` and every key listing returns anything at all, and `--scan` may repeat a key.
An empty value is the constant `BlankLine`; a hash without one is `Intact`.

### SwitchCounters

A counter is a pair of the object and the name of the stat, so that a value in
the answer tells where it came from. `number` is the numbering of the objects
that `swss` gave out; the name maps (`PortNames`, ...) and the counter hashes
are read by it, in one action per `redis-cli`. `swss` may restart between two of
them, name maps and counters appear when they like, and a reply may be lost,
since the script goes on after an error and exits 0. `ComposePortRecord` and
`TranslatePort` are `_compose_port_record` and `_translate_port`; `Answer` is
what they make of the dump. A row of `PORT_TABLE` has an `oper_status` and an
`admin_status` or lacks either. `StateOf` is the code's `or` of the two
(`driver/counters.py:305`), and `TranslatePort` puts it under both names if it
is up or down (`adapter/schema_v1.py:158-161`): the answer's `admin_status` is
the port's operational state, and its `oper_status` may be the administrative
one.

### HostCounters

`ReadHost` is one turn of `get_host_counters`' loop with whatever `ethtool -S`
printed, `TranslateHostCounters` the translation. A statistic's name is a record
of its parts, enough to decide the substring tests of `_sum_drops`, and `Total` is
its loop: a fold over the matching names, in no particular order. What a kernel
prints is finite; there may be any number of names it can print.

### SmokeRun

Any number of runs of the three scripts on one lab: the clean slate whose error
is ignored, the deploy that is refused, fails half-way or exits 0 with all or
some of the lab, the reads, the `finally` clause of `smoke_step3`, the exits of `run-smoke.sh` under `set -e`
that skip its destroy, and a kill at any point, with the command the killed
process waited for ending as it may. `ReadLab` is one inspect or exec of a
reading step, as many as there may be, each of the lab that is up at its moment.
`mine[r]` is the deployment a run made, `base[r]` the one its first destroy
cleared away, and `saw[r]` the ones it has read from.

### Fault... operators

Each module has a few operators named `Fault...`. They are not part of the
model: each is a mapped definition as a plausible bug would have it, and
`PROJECT.json` pairs it with the property that has to notice.

## Runs

| Run | Instance | Properties |
|---|---|---|
| `sessions` | 1 server, 2 topologies, 3 scenarios of which 2 share one, an unknown name, 2 run ids | `RunsMatchBinding`, `CallsReturn` |
| `rivals` | 2 servers and the outside, 1 lab of a host, 2 deployments | `EpochClaimedOnce`, `CountedStaysListed`, `ReadsNotStale`, `ImplementsLedger` |
| `fabric` | 1 server, 1 lab that is 2 VMs or a VM and a host, 2 addresses, 2 deployments, a file of 3 versions, one of them with a link to nowhere | `AllOrNothing`, `Attribution`, `ReadyMeansUp`, `CountedStaysListed`, `LooseEndsExplained`, `LinksNotOlder`, `CallsSpareLabs`, `CallsAdvance` |
| `mgmtnet` | 1 server, 2 labs on one management network, one without its file | `TypeOK`, `Attribution` |
| `flow_unbound` | 1 server that may have been built with a client, 1 host | `FlowNeedsDeployment` is violated |
| `dump` | 2 fields, 2 blocks, 1 repeated key, values that may be empty, at most 4 pairs | `DamageContained`, `NothingCarriedOver` |
| `dump_blank` | the same, any number of pairs | `RoundTrip` is violated |
| `switch` | 2 ports, 3 queues, 1 group, 2 tables, 2 numberings, 1 restart, 1 lost reply | `OwnCounters`, `CompleteAnswer` |
| `cold_boot` | the same, no restart, no loss | `ColdBootAnswered` is violated |
| `hosts` | 2 hosts, 4 statistics | `NoDropHidden`, `OmitNotZero`, `ExactWhenOthersZero` |
| `host_sum` | 1 host, 5 statistics | `RxDropsAreDrops` is violated |
| `smoke` | 1 run of each script, 1 container, 3 deployments | `NothingLeftBehind`, `FreshStart`, `ReadsExplained` |

What they show, for all orders of the steps:

- `RunsMatchBinding`: the client is bound before the deploy is known to
  succeed, and a binding never changes; run ids are registered after. They agree
  after refusals, failed deploys, reused ids and restarts.
- `EpochClaimedOnce`: no two successful answers, of whatever servers, are about
  the same deployment: a server that finds the lab up gets an error.
- `ReadyMeansUp`: every container that deploy reported had come up, whatever
  exits or is redeployed before the answer. Not that these are all: a ready
  answer for a lab that lacks nodes of its topology occurs.
- `ImplementsLedger`: more than `EpochClaimedOnce`, since it is about steps: a
  ready answer is about a deployment made in its own call. A deployment whose
  check failed, whose answer was invalid or whose server died stays up without
  ever being announced.
- `ReadsNotStale`: the tools drop their `run_id`; an answer may be about a later
  deployment than the one asked about, never about an earlier.
- `CountedStaysListed`: a lab that lacks containers is read without complaint, but
  an answer about a deployment that somebody announced ready is made from all
  the containers counted then, exited ones included.
- `LooseEndsExplained`: in the graph of an announced deployment a link end that
  is no node of the graph has one of two reasons, and both occur: the file was
  edited after the deploy, or the end is a node of the deployed file that was not
  counted. An exited container or the time between the two reads is no reason.
- `LinksNotOlder`: the links are those of the deployed file or of a later edit.
  They may be later: a graph can show a link that the lab does not have.
- `Attribution`: counters filed under another container's name occur, and only
  in one way: the record was read over ssh and the lab it came from was deployed
  after the call's inspect. A lab that is not redeployed during a call is read
  right. In `mgmtnet` an address goes from one lab to another, in `fabric` from
  one VM of a lab to the other.
- `AllOrNothing`: a counters answer has records of containers of the kind asked
  for, of a lab that existed, and of no others. One that it lacks was not
  skipped: it is a switch, its dump was read, and it had no port. So a snapshot
  can lack a switch without saying so, but not because a read failed.
- `CallsSpareLabs`: a call creates a lab or leaves it alone.
- `CallsAdvance`: a step changes a call in progress only by bringing it to a
  later stage or, in the exec loop, by reading one more of the containers it
  began with. Nothing sends a call back, so `CallsReturn` asks of the
  environment only that each subprocess ends.
- `DamageContained`, `NothingCarriedOver`: the parser rebuilds every hash that has
  no empty value, and at every line only lines of the hash being printed are in
  its buffer. An empty value spoils the hash it is in (`dump_blank`) and no
  other: the flush also clears the line that has lost its partner.
- `OwnCounters`: no counter is under a wrong label, but for the owner if `swss`
  restarted during the dump. Losses and gaps only omit. A status is the port's
  own and up or down, but the answer's two are one value: the row's
  `oper_status`, or its `admin_status` in a row without. Neither can be relied
  on to be what it is called.
- `CompleteAnswer`: with the databases populated when the dump begins, no
  restart and no loss, nothing is omitted, but for the statuses of a port whose
  row says neither up nor down.
- `NoDropHidden`, `OmitNotZero`: `rx_drops` is at least the receive queues'
  drops, at most what was printed, and absent if nothing was.
- `ExactWhenOthersZero`: when `rx_drops` is the sum of the `rx_queue_N_drops`, as
  the docstring has it, and when not. Of the kernel captured in
  `scout-outputs/host1-ethtool_S_eth1.txt`, which prints `rx_queue_0_xdp_packets`
  and `rx_queue_0_xdp_bytes` too, it is so as long as those are 0, as they are there.
- `NothingLeftBehind`, `FreshStart`: the smoke scripts' "always tears down" and
  "destroys any prior deployment", with the exceptions they really have:
  `run-smoke.sh` leaves its lab up when a `docker ps` or its inspect fails, and
  the two scripts without `finally` when their deploy fails half-way.
- `ReadsExplained`: a script reads another lab than its own only after another
  run has deployed one, never one that was there before.

### Bounds

`MaxEpoch` bounds the deployments of one lab: two are the lab that a call saw and
its replacement, and in `smoke` three are one for every run. `MaxEdits = 2` has
the file change before, between or after any two steps of a read and of a
deploy; of its three versions the second cannot be deployed and the third has
another node in place of one of the first. `sessions` and `mgmtnet` need no
redeployment of one lab (in `mgmtnet` each lab is deployed once, before or after
the other), so they have one.
Two servers are needed where they compete for one lab. Elsewhere one is enough:
a server has no shared memory with another, and all that one does to the lab the
outside may do as well. `rivals` has one run id, which both servers use: ids only
label announcements, and that one server announces a deployment twice under one
id is excluded by `ImplementsLedger`. `rivals` has a lab of one container: what is
told apart there is deployments, and labs that come up or are reported in part
are in `fabric`. So has `smoke`, whose scripts treat a lab as one thing.
Addresses are as many as containers that run together, so one that is given back
is soon given out. `MaxRepeats = 1`: each
repetition is like the first. `MaxRestarts = 1` and `MaxLost = 1`: after one
restart nothing is claimed about owners any more, and `CompleteAnswer` wants no
loss. `MaxPairs = 4` in `dump` is
two spoilt hashes one after the other, or one and what it could run into: a
hash is at most two pairs. `TwoTables` has a port that is
down but not shut, one whose row lacks its `oper_status`, one that is up and one
that is neither up nor down. The queues of the `switch` instance are one on a column, one past the last
column and one whose alias ends in a word. The second numbering gives an id of
one port to the other and one of a queue to a port. `Counts` has 0, the value
that `or` treats as absent. Symmetry is used only under safety properties.

`CHECK_DEADLOCK FALSE` stands in the configurations of `FabricDump`,
`SwitchCounters`, `HostCounters` and `SmokeRun`: these programs end.
`AdapterServer` is checked for deadlock.

### Fairness

Only `CallsReturn` needs any. `FairSpec` is weakly fair to `Progress(s)`, the
steps of a call in progress: the subprocess it waits for ends, and the server
process is scheduled. `subprocess.run` is called without a timeout, so that the
subprocesses end is an assumption about containerlab, docker and ssh (which has
`ConnectTimeout=15`), not something the code enforces. The outside world is not
fair: a lab need never come up, and a container need never return.

## Where code and documentation disagree

1. `flow_unbound`: `get_flow_records` answers when no lab is deployed. Its
   docstring promises `NoActiveDeploymentError`; it asks only for a bound client
   (`adapter/server.py:249-254`), which a server built with
   `build_server(client=...)` has from the start, and which stays bound when a
   deploy fails or the lab is destroyed.
2. `dump_blank`: an empty hash value breaks the pairing of everything after it in
   that hash, since blank lines are dropped before lines are paired
   (`driver/counters.py:181, 195, 199`).
3. `cold_boot`: a switch whose port name map is not populated is missing from
   the answer, though reading COUNTERS_DB was meant to avoid just that
   (`driver/counters.py:7-14` and `:360`).
4. `host_sum`: `rx_drops` is not the sum of `rx_queue_N_drops`: it adds up every
   integer statistic with `rx_queue_` in its name, packets and bytes included,
   and if that is 0 every one with `_drops`, the transmit queues' included
   (`adapter/schema_v1.py:263, 282`).

## Proofs

For every value of the constants under their named assumptions
(`LabAssumption`, `ServerAssumption`, `DumpAssumption`, `SwitchAssumption`,
`HostAssumption`, `SmokeAssumption`, `GraphAssumption`, which TLC evaluates in the runs):

| Theorem | States |
|---|---|
| `TypeCorrect` | `TypeOK` of `AdapterServer` |
| `RunsStayInSession` | `RunsMatchBinding` |
| `DeploymentsClaimedOnce` | `EpochClaimedOnce` |
| `ReadyIsUp` | `ReadyMeansUp` |
| `AnswersComplete` | `AllOrNothing` |
| `RecordsAttributed` | `Attribution` |
| `LabsSpared` | `CallsSpareLabs` |
| `CallsMoveAhead` | `CallsAdvance` |
| `NoReadStale`, `CountedListed` | `ReadsNotStale`, `CountedStaysListed` |
| `ServersKeepLedger` | `ImplementsLedger`: `AdapterServer` implements `DeploymentLedger` |
| `GraphRefinesServer` | `GraphSpec => Spec`: the composition with the files implements `AdapterServer` |
| `LooseEndsAlwaysExplained`, `LinksNeverOlder` | `LooseEndsExplained`, `LinksNotOlder` |
| `DamageIsLocal`, `NothingCarries` | `DamageContained`, `NothingCarriedOver`, whatever values are empty |
| `DumpRoundTrips` | `RoundTrip`, which `dump_blank` refutes, if no value is empty |
| `CountersAreOwn` | `OwnCounters` |
| `AnswerLeavesNothingOut` | `CompleteAnswer` |
| `QueueDropsShown`, `AbsentNotZero` | `NoDropHidden`, `OmitNotZero` |
| `SumExactWhen` | `ExactWhenOthersZero`: when `RxDropsAreDrops`, which `host_sum` refutes, does hold |
| `SmokeTearsDown`, `SmokeStartsFresh`, `SmokeReadsExplained` | `NothingLeftBehind`, `FreshStart`, `ReadsExplained` |

How they go:

- *Sessions.* `RunsMatchBinding` is not inductive: registering a run needs to
  know that the binding has not moved since the call began. `SessionInv` adds
  `TypeOK` and `CallShape`, what a call at each stage may rely on: during a
  deploy the server is bound to the topology of the scenario asked for; a read
  is by a bound server; the loop is over a lab that inspect listed.
- *Claims.* `ClaimsInv` adds that a report in a call between deploy and check
  belongs to a deployment nobody has claimed, and that no two such calls hold
  the same: a deployment is created by one deploy only, and epochs only grow.
  `ReadyInv` ties the containers in that report, and in a claim, to `cameUp`.
- *Attribution.* `AttributionInv` says that no two containers hold one address,
  that reports are of the past, and that a container which holds an address that
  a report gave to another one got it in a deployment made since that report.
  `LabsMove` and `CallMoves` sort the steps by what they do to the labs and to a
  call, so that the cases are distinguished once.
- *Reads.* `ReadsInv` adds to `ReadsNotStale` two facts about the reports that a
  deploy returned (`Vouched`: claimed, or about to be), each a deployment and the
  containers counted in it. While such a deployment is up none of those
  containers is absent (`VouchedThere`): an exit does not unlist a container, and
  a destroy unlists all. So a report of one lists all of them (`VouchedSeen`),
  which is `CountedStaysListed`.
- *Loops.* `AllOrNothing` needs that a call which has ended its loop has done
  every target (`NothingSkipped`, `LoopEnds`), whatever came of each exec.
- *Ledger.* The initial states map to the ledger's, and each step, sorted as in
  the table above, to one of its actions or a stutter (`ServerLedger` by server,
  `OthersKept` for what the others hold). It needs `SessionInv` only.
- *Graph.* `GraphRefinesServer` gives `SessionInv` and the theorems on reads to
  the composition. `Ages`: no lab was cabled from, and no inspect saw, a later
  version than the file has. `FormedInv`: the version a lab was made from is
  `WellFormed`, as is the one that the lab in an answer was made from. If the
  file was not edited since, an end of a link is thus a node that it declares, and
  by `CountedStaysListed` it is in the graph if it was counted.
- *Calls.* `Remaining` and `Pending` are a variant: each of a call's own steps
  lowers one of them (`ProgressIsNearer`), and all other steps leave its locals
  alone (`OthersStandStill`). Only `TypeOK` is needed.
- *Dump.* `DumpInv` relates the parser's state to the script's at every line:
  what is closed rebuilds what was read, and the buffer holds lines of the hash
  being printed, exactly its printed pairs if the hash is intact. A flush makes
  of the buffer what may be made of the hash and empties it (`FlushPrinted`).
  This needs no hypothesis, and `DamageContained` is what it says at the end.
  `RoundTrip` follows where every hash is intact, under `NoEmptyValue`,
  `BlankLine \notin Values`; `dump_blank` shows that it is needed.
- *Join.* `ReadInv`: while undisturbed, the name maps hold the current ids of
  their objects and each hash is filed under its object's id. Ids are one to
  one, so a lookup through the name map finds the object's own hash. A restart
  makes the claim void for good, because `begun` is not set again.
  `CompleteAnswer` needs the loops too: by `WholeInv`, as long as the dump is
  `Smooth` (undisturbed, nothing lost, everything populated when it began), the
  databases stay populated, each name map that has been read has all its
  objects, and each object's hash has been read or its turn in the loop is still
  to come. At the end no turn is. The statuses come from the port's own row by
  definition of the script; that the answer's two agree with it as far as stated
  is the lemma `Statuses`, by the cases of `StateOf`.
- *Sums.* `HostInv` says only that the answer is made of what kernels printed;
  the work is in `Total`. The induction over the matching names is derived from
  the least number outside a set (`AllNumbers`, `AllSubsets`), with a set of sets
  in place of a predicate. With it, the fold exists (`FoldExists`), may start
  with any name (`FoldAny`) and grows with the set (`TotalGrows`). The two
  properties then compare sets of names: the receive queues' drops are among
  what `rx_drops` adds up, and if that adds up to 0 they are 0 as well and
  among the `_drops` (`RxDropsFrom`). For `SumExactWhen` a sum is that of a part
  and of the rest (`FoldSplits`, `TotalSplits`), so that equality with the part is
  the rest's being 0 (`OthersDecide`).
- *Smoke runs.* `SmokeInv`: a lab that is up was deployed by some run, later than
  every clean slate; runs that have not deployed hold no epoch. `Reads` adds that
  a run at a reading step has deployed, and that a run deploys only once.

Only model-checked: `CallsReturn`. Its variant is proved (`CallsMoveAhead`); that
fairness makes each step happen speaks of ENABLED, which is beyond the prover.
The four violated properties are counterexamples of their runs.

## Not modelled

`translate_run_scenario`, `empty_flow_records`, `list_scenarios` and the
envelope: they put given values into a dictionary and keep no state. Times:
`started_at_ns` and the duration are differences of a clock that nothing else in
the code reads. The wording of `source`: the docstring of `_extract_lab_name`
says that `driver/scenarios.py` names the lab there, while it names the scenario
(`adapter/server.py:58-62`); no property is about it. The shape and the counts of
`get_topology`, which the server drops. `driver/flows.py` only raises and is never
called. Regular expressions, sorting and wording. The schema library: what makes
an answer invalid is left open, any may be. That inspect reports wrongly: unlike
deploy's report, which may lack containers, it is taken to list a lab as it is.
That a node changes its kind from one version of a topology file to the next.
A subprocess that never ends: the code has no timeout for one, and the server,
which takes one call at a time, would answer nobody any more. `check_setup.py` and
`smoke_vrspike_1port.py` print; `main.tf` and `setup-host.sh` provision.

## Plan

Done, in this order: `Lab` with `AdapterServer`; its invariants and their
proofs; `FabricDump` and the round trip; `SwitchCounters` and the join;
`HostCounters`; `SmokeRun`; `DeploymentLedger` and the refinement;
`FabricGraph`; `run-smoke.sh` and the reads of the smoke scripts. Then the proofs of what
was only model-checked: `CompleteAnswer`, the bounds on `rx_drops`,
`CallsAdvance`, and `DamageContained`, which makes the round trip's invariant
independent of `NoEmptyValue`. Then deploys and reports that are partial,
switches without ports, files edited in their nodes, and the ports' statuses, with the properties
and proofs restated for them.

Left: which steps of a call are enabled when, as far as it can be said without
ENABLED, for what `CallsReturn` leaves to TLC.
