--------------------------- MODULE SwitchCounters ----------------------------
(***************************************************************************)
(* One switch's part of a fabric counters answer: the dump script's reads  *)
(* of the switch's Redis databases, _compose_port_record of                *)
(* driver/counters.py, which joins the name maps with the counter hashes   *)
(* by object id, and _translate_port of adapter/schema_v1.py, which folds  *)
(* the PFC and priority-group arrays into the queues.  swss may restart    *)
(* between two reads, and name every object anew.                          *)
(*                                                                         *)
(* That the parser hands over what the script read is FabricDump's         *)
(* RoundTrip.  A counter is not a number here but <<its object, its name>>.*)
(*                                                                         *)
(* An operator Fault... is not part of the model: it is a definition as a  *)
(* plausible bug would have it, for checking that the properties notice.   *)
(***************************************************************************)
EXTENDS Naturals

CONSTANTS
    Ports,        \* Ethernet0, ...
    Queues,       \* <<port, index>> for every queue alias, Ethernet0:3
    Groups,       \* <<port, index>> for every priority-group alias
    Columns,      \* _PFC_COLUMNS and _PG_COLUMNS
    Oids,         \* SAI object ids
    Numberings,   \* the ids swss may give the objects
    Polled,       \* the sets of objects whose hashes are first written together
    States,       \* what a status field of PORT_TABLE may say
    Tables,       \* what PORT_TABLE may hold
    MaxRestarts,  \* bound: restarts of swss
    MaxLost,      \* bound: replies that redis-cli fails to print
    None          \* Python's None, and a field the answer omits

PortObj(p) == <<"port", p>>
QueueObj(p, i) == <<"queue", p, i>>
GroupObj(p, i) == <<"group", p, i>>

PortObjects == {PortObj(p) : p \in Ports}
QueueObjects == {QueueObj(q[1], q[2]) : q \in Queues}
GroupObjects == {GroupObj(g[1], g[2]) : g \in Groups}
Objects == PortObjects \cup QueueObjects \cup GroupObjects

\* The stats in the hashes of the objects; <<"OK">> stands for the packet,
\* error and discard counts that are read each by its own name.
PortStats == {<<"OK">>} \cup ({"PFC_RX", "PFC_TX"} \X (0 .. Columns - 1))
QueueStats == {<<"PKTS">>}
GroupStats == {<<"WATERMARK">>}
Stats == PortStats \cup QueueStats \cup GroupStats

\* A row of PORT_TABLE may lack either field.
Rows == [oper_status : States \cup {None}, admin_status : States \cup {None}]

\* A queue's alias may end in a word (UC0) in place of a number.
ASSUME SwitchAssumption ==
    /\ \A q \in Queues \cup Groups : q = <<q[1], q[2]>> /\ q[1] \in Ports
    /\ \A g \in Groups : g[2] \in Nat
    /\ Columns \in Nat
    /\ \A num \in Numberings :
         /\ num \in [Objects -> Oids]
         /\ \A x, y \in Objects : num[x] = num[y] => x = y
    /\ Polled \subseteq SUBSET Objects
    /\ Tables \subseteq [Ports -> Rows]
    /\ MaxRestarts \in Nat /\ MaxLost \in Nat
    /\ None \notin Objects \X Stats
    /\ None \notin States /\ None \notin {"up", "down"}

VARIABLES
    (* the databases *)
    number,    \* the id of every object, since swss last started
    named,     \* the name maps are populated
    counted,   \* the objects whose COUNTERS: hash exists
    restarts,
    table,     \* table[p]: the row of PORT_TABLE, as it is when it is read
    (* the script *)
    stage,     \* the section it is in
    left,      \* the keys its loop has still to read
    portMap, queueMap, pgMap,
    oids,      \* of every id read, the object whose hash it was
    portOper,  \* the ports whose PORT_TABLE row was read
    lost,      \* replies lost so far
    (* for the properties *)
    begun      \* restarts, and what was populated, when the dump began

dbVars == <<number, named, counted, restarts, table>>
readVars == <<portMap, queueMap, pgMap, oids, portOper>>
vars == <<number, named, counted, restarts, table, stage, left,
          portMap, queueMap, pgMap, oids, portOper, lost, begun>>

Empty == [x \in {} |-> None]
Put(d, k, v) == [x \in DOMAIN d \cup {k} |-> IF x = k THEN v ELSE d[x]]

Init ==
    /\ number \in Numberings
    /\ named \in BOOLEAN
    /\ counted \in {{}, Objects}
    /\ restarts = 0
    /\ table \in Tables
    /\ stage = "begin" /\ left = {} /\ lost = 0
    /\ portMap = Empty /\ queueMap = Empty /\ pgMap = Empty
    /\ oids = Empty /\ portOper = {}
    /\ begun = [restarts |-> 0, named |-> FALSE, counted |-> {}]

-----------------------------------------------------------------------------
(* The databases: swss restarts, and populates them bit by bit. *)

scriptVars == <<stage, left, portMap, queueMap, pgMap, oids, portOper, lost, begun>>

SwssRestart ==
    /\ restarts < MaxRestarts
    /\ restarts' = restarts + 1
    /\ number' \in Numberings
    /\ named' = FALSE
    /\ counted' = {}
    /\ UNCHANGED <<table, scriptVars>>

NamesAppear ==
    /\ ~ named
    /\ named' = TRUE
    /\ UNCHANGED <<number, counted, restarts, table, scriptVars>>

CountersAppear(objects) ==
    /\ ~ objects \subseteq counted
    /\ counted' = counted \cup objects
    /\ UNCHANGED <<number, named, restarts, table, scriptVars>>

-----------------------------------------------------------------------------
(* The script: one redis-cli a step. *)

\* A reply that redis-cli fails to print is lost, and the script goes on.
Reply(x, y) ==
    \/ x' = y /\ UNCHANGED lost
    \/ lost < MaxLost /\ lost' = lost + 1 /\ UNCHANGED x

\* A name map: its aliases with the ids of their objects.
PortNames == IF named THEN [p \in Ports |-> number[PortObj(p)]] ELSE Empty
QueueNames == IF named THEN [q \in Queues |-> number[QueueObj(q[1], q[2])]] ELSE Empty
GroupNames == IF named THEN [g \in Groups |-> number[GroupObj(g[1], g[2])]] ELSE Empty

ReadPortMap ==
    /\ stage = "begin"
    /\ stage' = "PORT_MAP"
    /\ Reply(portMap, PortNames)
    /\ begun' = [restarts |-> restarts, named |-> named, counted |-> counted]
    /\ UNCHANGED <<dbVars, left, queueMap, pgMap, oids, portOper>>

ReadQueueMap ==
    /\ stage = "PORT_MAP"
    /\ stage' = "QUEUE_MAP"
    /\ Reply(queueMap, QueueNames)
    /\ UNCHANGED <<dbVars, left, portMap, pgMap, oids, portOper, begun>>

ReadPgMap ==
    /\ stage = "QUEUE_MAP"
    /\ stage' = "PG_MAP"
    /\ Reply(pgMap, GroupNames)
    /\ UNCHANGED <<dbVars, left, portMap, queueMap, oids, portOper, begun>>

\* PORT_TABLE is in STATE_DB, which a restart of swss is taken to leave alone.
\* Each row is read once, so when the others change does not matter.
ListPorts ==
    /\ stage = "PG_MAP"
    /\ stage' = "PORT_OPER"
    /\ Reply(left, Ports)
    /\ UNCHANGED <<dbVars, readVars, begun>>

ReadOper(p) ==
    /\ stage = "PORT_OPER" /\ p \in left
    /\ left' = left \ {p}
    /\ Reply(portOper, portOper \cup {p})
    /\ UNCHANGED <<dbVars, stage, portMap, queueMap, pgMap, oids, begun>>

\* The scan ends before the first hgetall.
ListOids ==
    /\ stage = "PORT_OPER" /\ left = {}
    /\ stage' = "OIDS_BEGIN"
    /\ Reply(left, {number[x] : x \in counted})
    /\ UNCHANGED <<dbVars, readVars, begun>>

\* The hash may be another object's by now, or gone: an empty hash counts as
\* one that was not read.
ReadOid(o) ==
    /\ stage = "OIDS_BEGIN" /\ o \in left
    /\ left' = left \ {o}
    /\ \/ \E x \in counted : number[x] = o /\ Reply(oids, Put(oids, o, x))
       \/ /\ \A x \in counted : number[x] # o
          /\ UNCHANGED <<oids, lost>>
    /\ UNCHANGED <<dbVars, stage, portMap, queueMap, pgMap, portOper, begun>>

EndDump ==
    /\ stage = "OIDS_BEGIN" /\ left = {}
    /\ stage' = "done"
    /\ UNCHANGED <<dbVars, left, readVars, lost, begun>>

\* What the databases do once the dump is over is of no account.
Databases ==
    /\ stage # "done"
    /\ \/ SwssRestart \/ NamesAppear
       \/ \E objects \in Polled : CountersAppear(objects)

Next ==
    \/ Databases
    \/ ReadPortMap \/ ReadQueueMap \/ ReadPgMap \/ ListPorts \/ ListOids \/ EndDump
    \/ \E p \in Ports : ReadOper(p)
    \/ \E o \in Oids : ReadOid(o)

Spec == Init /\ [][Next]_vars

-----------------------------------------------------------------------------
(* _compose_port_record. *)

StatsOf(x) ==
    CASE x \in PortObjects  -> PortStats
      [] x \in QueueObjects -> QueueStats
      [] OTHER              -> GroupStats

\* dump["oids"].get(oid, {}).get(stat).
Stat(oid, stat) ==
    IF oid \in DOMAIN oids /\ stat \in StatsOf(oids[oid])
      THEN <<oids[oid], stat>> ELSE None

\* Fault: an index of zero is taken for none.
FaultSkipsZero(map, p) ==
    {a[2] : a \in {b \in DOMAIN map : b[1] = p /\ b[2] \in Nat \ {0}}}

\* The indices of the aliases in a map that belong to a port: those that
\* begin with its name and the colon, and end in a number.
IndicesOf(map, p) == {a[2] : a \in {b \in DOMAIN map : b[1] = p /\ b[2] \in Nat}}

\* Fault: the received column is read from the sent stats.
FaultPfcColumn(oid, way) == [i \in 0 .. Columns - 1 |-> Stat(oid, <<"PFC_TX", i>>)]

PfcColumn(oid, way) == [i \in 0 .. Columns - 1 |-> Stat(oid, <<way, i>>)]

PgColumn(p) ==
    LET found == IndicesOf(pgMap, p) \cap (0 .. Columns - 1)
    IN  [i \in (IF found = {} THEN {} ELSE 0 .. Columns - 1) |->
            IF i \in found THEN Stat(pgMap[<<p, i>>], <<"WATERMARK">>) ELSE None]

\* oper.get("oper_status") or oper.get("admin_status").
StateOf(p) ==
    CASE p \notin portOper            -> None
      [] table[p].oper_status # None -> table[p].oper_status
      [] OTHER                       -> table[p].admin_status

ComposePortRecord(p) ==
    [port   |-> p,
     state  |-> StateOf(p),
     ok     |-> Stat(portMap[p], <<"OK">>),
     pfc_rx |-> PfcColumn(portMap[p], "PFC_RX"),
     pfc_tx |-> PfcColumn(portMap[p], "PFC_TX"),
     pg     |-> PgColumn(p),
     queues |-> {[txq |-> i, pkts |-> Stat(queueMap[<<p, i>>], <<"PKTS">>)] :
                    i \in IndicesOf(queueMap, p)}]

(* _translate_port and _translate_queue. *)

\* column[i] if i < len(column) else None.
At(column, i) == IF i \in DOMAIN column THEN column[i] ELSE None

TranslateQueue(r, q) ==
    [q_index              |-> q.txq,
     tx_packets           |-> q.pkts,
     pfc_pause_sent_count |-> At(r.pfc_tx, q.txq),
     pfc_pause_rcvd_count |-> At(r.pfc_rx, q.txq),
     pg_watermark_bytes   |-> At(r.pg, q.txq)]

\* A state that the schema has no literal for is omitted; both statuses are set
\* from the one state.
TranslatePort(r) ==
    LET shown == IF r.state \in {"up", "down"} THEN r.state ELSE None
    IN  [name         |-> r.port,
         oper_status  |-> shown,
         admin_status |-> shown,
         rx_packets   |-> r.ok,
         queues       |-> {TranslateQueue(r, q) : q \in r.queues}]

\* The switch's ports in the answer.
Answer == {TranslatePort(ComposePortRecord(p)) : p \in DOMAIN portMap}

-----------------------------------------------------------------------------
Undisturbed == restarts = begun.restarts

\* A value of the answer is omitted, or a stat of this name, of this object if
\* no restart came between.
Is(value, object, stat) ==
    value # None => value[2] = stat /\ (Undisturbed => value[1] = object)

(* Safety: every counter in the answer is the one it is labelled as: the     *)
(* port's own, the queue's own, the PFC counter of that direction and        *)
(* priority, the watermark of that group.  Lost replies and half-populated   *)
(* databases only leave fields out.  If swss restarts during the dump, the   *)
(* label still holds but for whose counter it is.  The statuses are the      *)
(* port's own too, but not always what they are labelled as: both are up or  *)
(* down as its oper_status says, or, in a row without one, its admin_status. *)
OwnCounters ==
    stage = "done" =>
        \A r \in Answer :
            /\ r.admin_status = r.oper_status
            /\ r.oper_status # None =>
                 /\ r.oper_status \in {"up", "down"}
                 /\ \/ r.oper_status = table[r.name].oper_status
                    \/ /\ table[r.name].oper_status = None
                       /\ r.oper_status = table[r.name].admin_status
            /\ Is(r.rx_packets, PortObj(r.name), <<"OK">>)
            /\ \A q \in r.queues :
                 /\ Is(q.tx_packets, QueueObj(r.name, q.q_index), <<"PKTS">>)
                 /\ Is(q.pfc_pause_sent_count, PortObj(r.name), <<"PFC_TX", q.q_index>>)
                 /\ Is(q.pfc_pause_rcvd_count, PortObj(r.name), <<"PFC_RX", q.q_index>>)
                 /\ Is(q.pg_watermark_bytes, GroupObj(r.name, q.q_index), <<"WATERMARK">>)

(* Safety: a dump of populated databases from which no reply was lost leaves *)
(* nothing out: every port is in the answer with every numbered queue, its   *)
(* counters, and the PFC counters and watermark of its index as far as there *)
(* are columns, and with its statuses if its row says up or down.            *)
CompleteAnswer ==
    /\ stage = "done" /\ Undisturbed /\ lost = 0
    /\ begun.named /\ begun.counted = Objects
    => /\ {r.name : r \in Answer} = Ports
       /\ \A r \in Answer :
            /\ r.rx_packets # None
            /\ table[r.name].oper_status \in {"up", "down"} =>
                 None \notin {r.oper_status, r.admin_status}
            /\ {q.q_index : q \in r.queues} =
                 {a[2] : a \in {b \in Queues : b[1] = r.name /\ b[2] \in Nat}}
            /\ \A q \in r.queues :
                 /\ q.tx_packets # None
                 /\ q.q_index < Columns =>
                      None \notin {q.pfc_pause_sent_count, q.pfc_pause_rcvd_count}
                 /\ q.q_index < Columns /\ <<r.name, q.q_index>> \in Groups =>
                      q.pg_watermark_bytes # None

(* What the repository says and the code does not do.  counters.py, on the   *)
(* state in which the counters of every object tick but the name maps are    *)
(* not populated before swss restarts: "Reading COUNTERS_DB directly avoids  *)
(* that fragility", so a dump that finds the counters answers with them.     *)
ColdBootAnswered ==
    stage = "done" /\ Undisturbed /\ lost = 0 /\ begun.counted = Objects =>
        {r.name : r \in Answer} = Ports
=============================================================================
