------------------------ MODULE SwitchCountersProofs -------------------------
(***************************************************************************)
(* That every value of a switch's answer is the one it is labelled as, for *)
(* any ports, queues and numberings, any lost replies and any restarts.    *)
(***************************************************************************)
EXTENDS SwitchCounters, TLAPS

MapsType ==
    /\ number \in Numberings
    /\ counted \subseteq Objects
    /\ DOMAIN portMap \subseteq Ports
    /\ DOMAIN queueMap \subseteq Queues
    /\ DOMAIN pgMap \subseteq Groups
    /\ \A o \in DOMAIN oids : oids[o] \in Objects

(* Nothing has been read before the dump begins; a restart is one after it.  *)
Begun ==
    /\ restarts \in Nat /\ begun.restarts \in Nat
    /\ begun.restarts <= restarts
    /\ stage = "begin" =>
         portMap = Empty /\ queueMap = Empty /\ pgMap = Empty /\ oids = Empty

(* What has been read speaks of the objects by the ids they have. *)
Current ==
    /\ \A p \in DOMAIN portMap : portMap[p] = number[PortObj(p)]
    /\ \A q \in DOMAIN queueMap : queueMap[q] = number[QueueObj(q[1], q[2])]
    /\ \A g \in DOMAIN pgMap : pgMap[g] = number[GroupObj(g[1], g[2])]
    /\ \A o \in DOMAIN oids : number[oids[o]] = o

ReadInv == MapsType /\ Begun /\ (Undisturbed => Current)

-----------------------------------------------------------------------------
(* Lemma: the name maps in the database list the aliases with current ids.   *)
LEMMA NameMaps ==
  /\ DOMAIN PortNames \subseteq Ports
  /\ DOMAIN QueueNames \subseteq Queues
  /\ DOMAIN GroupNames \subseteq Groups
  /\ \A p \in DOMAIN PortNames : PortNames[p] = number[PortObj(p)]
  /\ \A q \in DOMAIN QueueNames : QueueNames[q] = number[QueueObj(q[1], q[2])]
  /\ \A g \in DOMAIN GroupNames : GroupNames[g] = number[GroupObj(g[1], g[2])]
<1>1. CASE named
  BY <1>1 DEF PortNames, QueueNames, GroupNames
<1>2. CASE ~ named
  BY <1>2 DEF PortNames, QueueNames, GroupNames, Empty
<1> QED  BY <1>1, <1>2

(* Lemma: the invariant holds when nothing has been read. *)
LEMMA ReadInit == Init => ReadInv
<1> SUFFICES ASSUME Init PROVE ReadInv
  OBVIOUS
<1>1. /\ DOMAIN portMap = {} /\ DOMAIN queueMap = {}
      /\ DOMAIN pgMap = {} /\ DOMAIN oids = {}
  BY DEF Init, Empty
<1>2. MapsType
  BY <1>1 DEF Init, MapsType
<1>3. Begun
  BY DEF Init, Begun
<1>4. Current
  BY <1>1 DEF Current
<1> QED  BY <1>2, <1>3, <1>4 DEF ReadInv

(* Lemma: what the databases do keeps it: a restart disturbs the dump. *)
LEMMA DatabasesStep == ReadInv /\ Databases => ReadInv'
<1> SUFFICES ASSUME ReadInv, Databases PROVE ReadInv'
  OBVIOUS
<1> USE SwitchAssumption
<1>1. CASE SwssRestart
  <2>1. UNCHANGED <<portMap, queueMap, pgMap, oids, begun, stage>>
    BY <1>1 DEF SwssRestart, scriptVars
  <2>2. MapsType'
    BY <1>1, <2>1 DEF ReadInv, MapsType, SwssRestart
  <2>3. restarts' = restarts + 1
    BY <1>1 DEF SwssRestart
  <2>4. Begun' /\ ~ Undisturbed'
    BY <2>1, <2>3 DEF ReadInv, Begun, Undisturbed
  <2> QED  BY <2>2, <2>4 DEF ReadInv
<1>2. CASE NamesAppear
  BY <1>2 DEF NamesAppear, scriptVars, ReadInv, MapsType, Begun, Current, Undisturbed
<1>3. ASSUME NEW objects \in Polled, CountersAppear(objects)
      PROVE  ReadInv'
  <2>1. UNCHANGED <<portMap, queueMap, pgMap, oids, begun, stage, number, restarts>>
    BY <1>3 DEF CountersAppear, scriptVars
  <2>2. counted' \subseteq Objects
    BY <1>3 DEF CountersAppear, ReadInv, MapsType
  <2> QED  BY <2>1, <2>2 DEF ReadInv, MapsType, Begun, Current, Undisturbed
<1> QED  BY <1>1, <1>2, <1>3 DEF Databases

(* Lemma: reading a name map keeps it, the dump's first read included. *)
LEMMA MapsStep == ReadInv /\ (ReadPortMap \/ ReadQueueMap \/ ReadPgMap) => ReadInv'
<1> SUFFICES ASSUME ReadInv, ReadPortMap \/ ReadQueueMap \/ ReadPgMap
             PROVE  ReadInv'
  OBVIOUS
<1>1. CASE ReadPortMap
  <2>1. /\ UNCHANGED <<number, counted, restarts, queueMap, pgMap, oids>>
        /\ stage' # "begin" /\ begun'.restarts = restarts
        /\ portMap' = PortNames \/ portMap' = portMap
    BY <1>1 DEF ReadPortMap, Reply, dbVars
  <2>2. portMap = Empty /\ queueMap = Empty /\ pgMap = Empty /\ oids = Empty
    BY <1>1 DEF ReadPortMap, ReadInv, Begun
  <2>3. MapsType'
    BY <2>1, NameMaps DEF ReadInv, MapsType
  <2>4. Begun'
    BY <2>1 DEF ReadInv, Begun
  <2>5. Current'
    BY <2>1, <2>2, NameMaps DEF Current, Empty
  <2> QED  BY <2>3, <2>4, <2>5 DEF ReadInv
<1>2. CASE ReadQueueMap
  <2>1. /\ UNCHANGED <<number, counted, restarts, portMap, pgMap, oids, begun>>
        /\ stage' # "begin"
        /\ queueMap' = QueueNames \/ queueMap' = queueMap
    BY <1>2 DEF ReadQueueMap, Reply, dbVars
  <2> QED  BY <2>1, NameMaps DEF ReadInv, MapsType, Begun, Current, Undisturbed
<1>3. CASE ReadPgMap
  <2>1. /\ UNCHANGED <<number, counted, restarts, portMap, queueMap, oids, begun>>
        /\ stage' # "begin"
        /\ pgMap' = GroupNames \/ pgMap' = pgMap
    BY <1>3 DEF ReadPgMap, Reply, dbVars
  <2> QED  BY <2>1, NameMaps DEF ReadInv, MapsType, Begun, Current, Undisturbed
<1> QED  BY <1>1, <1>2, <1>3

(* Lemma: reading the hash of an id keeps it: it is filed under the id that  *)
(* its object has.                                                           *)
LEMMA OidStep == ASSUME NEW o \in Oids PROVE ReadInv /\ ReadOid(o) => ReadInv'
<1> SUFFICES ASSUME ReadInv, ReadOid(o) PROVE ReadInv'
  OBVIOUS
<1>1. /\ UNCHANGED <<number, counted, restarts, portMap, queueMap, pgMap, begun>>
      /\ stage = "OIDS_BEGIN" /\ stage' = stage
  BY DEF ReadOid, dbVars
<1>2. CASE oids' = oids
  BY <1>1, <1>2 DEF ReadInv, MapsType, Begun, Current, Undisturbed
<1>3. ASSUME NEW x \in counted, number[x] = o, oids' = Put(oids, o, x)
      PROVE  ReadInv'
  <2>1. /\ DOMAIN oids' = DOMAIN oids \cup {o}
        /\ \A k \in DOMAIN oids' : oids'[k] = IF k = o THEN x ELSE oids[k]
    BY <1>3 DEF Put
  <2>2. MapsType'
    BY <1>1, <2>1 DEF ReadInv, MapsType
  <2>3. Begun'
    BY <1>1 DEF ReadInv, Begun
  <2>4. Undisturbed' => Current'
    BY <1>1, <1>3, <2>1 DEF ReadInv, Current, Undisturbed
  <2> QED  BY <2>2, <2>3, <2>4 DEF ReadInv
<1> QED  BY <1>2, <1>3 DEF ReadOid, Reply

(* Lemma: every step keeps the invariant. *)
LEMMA ReadStep == ReadInv /\ [Next]_vars => ReadInv'
<1> SUFFICES ASSUME ReadInv, [Next]_vars PROVE ReadInv'
  OBVIOUS
<1> DEFINE Same == /\ UNCHANGED <<dbVars, portMap, queueMap, pgMap, oids, begun>>
                   /\ stage' # "begin" \/ stage' = stage
<1>1. Same => ReadInv'
  BY DEF dbVars, ReadInv, MapsType, Begun, Current, Undisturbed
<1>2. CASE Databases
  BY <1>2, DatabasesStep
<1>3. CASE ReadPortMap \/ ReadQueueMap \/ ReadPgMap
  BY <1>3, MapsStep
<1>4. CASE ListPorts \/ ListOids \/ EndDump
  BY <1>1, <1>4 DEF ListPorts, ListOids, EndDump, readVars
<1>5. ASSUME NEW p \in Ports, ReadOper(p) PROVE ReadInv'
  BY <1>1, <1>5 DEF ReadOper
<1>6. ASSUME NEW o \in Oids, ReadOid(o) PROVE ReadInv'
  BY <1>6, OidStep
<1>7. CASE UNCHANGED vars
  BY <1>1, <1>7 DEF vars, dbVars
<1> QED  BY <1>2, <1>3, <1>4, <1>5, <1>6, <1>7 DEF Next

-----------------------------------------------------------------------------
(* Lemma: a stat looked up by the id of an object is that object's. *)
LEMMA OwnStat ==
  ASSUME ReadInv, NEW oid, NEW x \in Objects, NEW stat,
         Undisturbed => oid = number[x]
  PROVE  Is(Stat(oid, stat), x, stat)
<1> SUFFICES ASSUME Stat(oid, stat) # None
             PROVE  /\ Stat(oid, stat)[2] = stat
                    /\ Undisturbed => Stat(oid, stat)[1] = x
  BY DEF Is
<1>1. Stat(oid, stat) = <<oids[oid], stat>> /\ oid \in DOMAIN oids
  BY DEF Stat
<1>2. ASSUME Undisturbed PROVE oids[oid] = x
  <2>1. number[oids[oid]] = number[x] /\ oids[oid] \in Objects
    BY <1>1, <1>2 DEF ReadInv, MapsType, Current
  <2> QED  BY <2>1, SwitchAssumption DEF ReadInv, MapsType
<1> QED  BY <1>1, <1>2

(* Lemma: an index found in a map belongs to an alias of the port. *)
LEMMA Aliases ==
  ASSUME ReadInv, NEW p, NEW i
  PROVE  /\ i \in IndicesOf(queueMap, p) => i \in Nat /\ <<p, i>> \in DOMAIN queueMap
         /\ i \in IndicesOf(pgMap, p) => i \in Nat /\ <<p, i>> \in DOMAIN pgMap
<1>1. \A a \in DOMAIN queueMap \cup DOMAIN pgMap : a = <<a[1], a[2]>>
  BY SwitchAssumption DEF ReadInv, MapsType
<1> QED  BY <1>1 DEF IndicesOf

(* Lemma: the columns of the port's record hold its own PFC counts and       *)
(* watermarks.                                                               *)
LEMMA OwnColumns ==
  ASSUME ReadInv, NEW p \in DOMAIN portMap, NEW i \in Nat
  PROVE  /\ \A way \in {"PFC_RX", "PFC_TX"} :
              Is(At(PfcColumn(portMap[p], way), i), PortObj(p), <<way, i>>)
         /\ Is(At(PgColumn(p), i), GroupObj(p, i), <<"WATERMARK">>)
<1>1. p \in Ports /\ PortObj(p) \in Objects
  BY DEF ReadInv, MapsType, Objects, PortObjects
<1>2. Undisturbed => portMap[p] = number[PortObj(p)]
  BY DEF ReadInv, Current
<1>3. ASSUME NEW way \in {"PFC_RX", "PFC_TX"}
      PROVE  Is(At(PfcColumn(portMap[p], way), i), PortObj(p), <<way, i>>)
  <2>1. CASE i \in 0 .. Columns - 1
    <3>1. At(PfcColumn(portMap[p], way), i) = Stat(portMap[p], <<way, i>>)
      BY <2>1 DEF At, PfcColumn
    <3> QED  BY <3>1, <1>1, <1>2, OwnStat
  <2>2. CASE i \notin 0 .. Columns - 1
    BY <2>2 DEF At, PfcColumn, Is
  <2> QED  BY <2>1, <2>2
<1>4. Is(At(PgColumn(p), i), GroupObj(p, i), <<"WATERMARK">>)
  <2> DEFINE found == IndicesOf(pgMap, p) \cap (0 .. Columns - 1)
  <2>1. CASE i \in found
    <3>1. At(PgColumn(p), i) = Stat(pgMap[<<p, i>>], <<"WATERMARK">>)
      BY <2>1 DEF At, PgColumn
    <3>2. <<p, i>> \in DOMAIN pgMap
      BY <2>1, Aliases
    <3>3. GroupObj(p, i) \in Objects
      <4>1. <<p, i>> \in Groups
        BY <3>2 DEF ReadInv, MapsType
      <4> QED  BY <4>1 DEF Objects, GroupObjects, GroupObj
    <3>4. Undisturbed => pgMap[<<p, i>>] = number[GroupObj(p, i)]
      BY <3>2 DEF ReadInv, Current
    <3> QED  BY <3>1, <3>3, <3>4, OwnStat
  <2>2. CASE i \notin found
    <3>1. At(PgColumn(p), i) = None
      BY <2>2 DEF At, PgColumn
    <3> QED  BY <3>1 DEF Is
  <2> QED  BY <2>1, <2>2
<1> QED  BY <1>3, <1>4

(* What OwnCounters says of the statuses of a port. *)
OwnStatus(r) ==
    /\ r.admin_status = r.oper_status
    /\ r.oper_status # None =>
         /\ r.oper_status \in {"up", "down"}
         /\ \/ r.oper_status = table[r.name].oper_status
            \/ /\ table[r.name].oper_status = None
               /\ r.oper_status = table[r.name].admin_status

(* Lemma: the statuses of a port are its state, where that is up or down. *)
LEMMA Statuses ==
  ASSUME NEW p
  PROVE  LET r == TranslatePort(ComposePortRecord(p))
         IN  /\ r.name = p
             /\ r.admin_status = r.oper_status
             /\ r.oper_status = IF StateOf(p) \in {"up", "down"} THEN StateOf(p) ELSE None
             /\ OwnStatus(r)
<1> DEFINE r == TranslatePort(ComposePortRecord(p))
<1>1. ComposePortRecord(p).state = StateOf(p) /\ ComposePortRecord(p).port = p
  BY DEF ComposePortRecord
<1>2. /\ r.name = p
      /\ r.admin_status = r.oper_status
      /\ r.oper_status = IF StateOf(p) \in {"up", "down"} THEN StateOf(p) ELSE None
  <2> HIDE DEF ComposePortRecord
  <2> DEFINE record == ComposePortRecord(p)
  <2>1. record.state = StateOf(p) /\ record.port = p
    BY <1>1
  <2> HIDE DEF record
  <2>2. /\ TranslatePort(record).name = record.port
        /\ TranslatePort(record).admin_status = TranslatePort(record).oper_status
        /\ TranslatePort(record).oper_status =
             IF record.state \in {"up", "down"} THEN record.state ELSE None
    BY DEF TranslatePort
  <2> QED  BY <2>1, <2>2 DEF record
<1> HIDE DEF r
<1>3. r.oper_status # None =>
        /\ r.oper_status \in {"up", "down"}
        /\ r.oper_status = StateOf(p) /\ StateOf(p) # None
  BY <1>2
<1>4. StateOf(p) # None =>
        \/ StateOf(p) = table[p].oper_status
        \/ table[p].oper_status = None /\ StateOf(p) = table[p].admin_status
  BY DEF StateOf
<1>5. OwnStatus(r)
  BY <1>2, <1>3, <1>4 DEF OwnStatus
<1> QED  BY <1>2, <1>5 DEF r

(* Lemma: the invariant makes every counter of the answer the labelled one,  *)
(* and the statuses the port's own.                                          *)
LEMMA ReadOwn == ReadInv => OwnCounters
<1> SUFFICES ASSUME ReadInv, NEW p \in DOMAIN portMap
             PROVE  LET r == TranslatePort(ComposePortRecord(p))
                    IN  /\ OwnStatus(r)
                        /\ Is(r.rx_packets, PortObj(r.name), <<"OK">>)
                        /\ \A q \in r.queues :
                             /\ Is(q.tx_packets, QueueObj(r.name, q.q_index), <<"PKTS">>)
                             /\ Is(q.pfc_pause_sent_count, PortObj(r.name), <<"PFC_TX", q.q_index>>)
                             /\ Is(q.pfc_pause_rcvd_count, PortObj(r.name), <<"PFC_RX", q.q_index>>)
                             /\ Is(q.pg_watermark_bytes, GroupObj(r.name, q.q_index), <<"WATERMARK">>)
  BY DEF OwnCounters, Answer, OwnStatus
<1> DEFINE record == ComposePortRecord(p)
           r == TranslatePort(record)
<1>1. /\ record.port = p /\ record.ok = Stat(portMap[p], <<"OK">>)
      /\ record.pfc_rx = PfcColumn(portMap[p], "PFC_RX")
      /\ record.pfc_tx = PfcColumn(portMap[p], "PFC_TX")
      /\ record.pg = PgColumn(p)
      /\ record.queues =
           {[txq |-> i, pkts |-> Stat(queueMap[<<p, i>>], <<"PKTS">>)] :
               i \in IndicesOf(queueMap, p)}
  BY DEF ComposePortRecord
<1> HIDE DEF record
<1>2. /\ r.name = p /\ r.rx_packets = record.ok
      /\ r.queues = {TranslateQueue(record, q) : q \in record.queues}
  BY <1>1 DEF TranslatePort
<1> HIDE DEF r
<1>3. Is(r.rx_packets, PortObj(p), <<"OK">>)
  <2>1. PortObj(p) \in Objects /\ (Undisturbed => portMap[p] = number[PortObj(p)])
    BY DEF ReadInv, MapsType, Current, Objects, PortObjects
  <2> QED  BY <2>1, <1>1, <1>2, OwnStat
<1>4. ASSUME NEW q \in r.queues
      PROVE  /\ Is(q.tx_packets, QueueObj(p, q.q_index), <<"PKTS">>)
             /\ Is(q.pfc_pause_sent_count, PortObj(p), <<"PFC_TX", q.q_index>>)
             /\ Is(q.pfc_pause_rcvd_count, PortObj(p), <<"PFC_RX", q.q_index>>)
             /\ Is(q.pg_watermark_bytes, GroupObj(p, q.q_index), <<"WATERMARK">>)
  <2>1. PICK i \in IndicesOf(queueMap, p) :
          q = TranslateQueue(record,
                [txq |-> i, pkts |-> Stat(queueMap[<<p, i>>], <<"PKTS">>)])
    BY <1>1, <1>2
  <2>2. /\ q.q_index = i
        /\ q.tx_packets = Stat(queueMap[<<p, i>>], <<"PKTS">>)
        /\ q.pfc_pause_sent_count = At(PfcColumn(portMap[p], "PFC_TX"), i)
        /\ q.pfc_pause_rcvd_count = At(PfcColumn(portMap[p], "PFC_RX"), i)
        /\ q.pg_watermark_bytes = At(PgColumn(p), i)
    BY <2>1, <1>1 DEF TranslateQueue
  <2>3. i \in Nat /\ <<p, i>> \in DOMAIN queueMap
    BY Aliases
  <2>4. QueueObj(p, i) \in Objects
    <3>1. <<p, i>> \in Queues
      BY <2>3 DEF ReadInv, MapsType
    <3> QED  BY <3>1 DEF Objects, QueueObjects, QueueObj
  <2>5. Undisturbed => queueMap[<<p, i>>] = number[QueueObj(p, i)]
    BY <2>3 DEF ReadInv, Current
  <2>6. Is(q.tx_packets, QueueObj(p, i), <<"PKTS">>)
    BY <2>2, <2>4, <2>5, OwnStat
  <2> QED  BY <2>2, <2>3, <2>6, OwnColumns
<1>5. OwnStatus(r)
  BY Statuses DEF r, record
<1> QED  BY <1>2, <1>3, <1>4, <1>5 DEF r, record

(* Theorem: every counter in a switch's answer is the one it is labelled as, *)
(* and of the labelled object unless swss restarted during the dump; the     *)
(* statuses of a port are both its oper state, or its admin state where its  *)
(* row has no other.                                                         *)
THEOREM CountersAreOwn == Spec => []OwnCounters
<1>1. Init => ReadInv
  BY ReadInit
<1>2. ReadInv /\ [Next]_vars => ReadInv'
  BY ReadStep
<1>3. ReadInv => OwnCounters
  BY ReadOwn
<1> QED  BY <1>1, <1>2, <1>3, PTL DEF Spec

-----------------------------------------------------------------------------
(* The dumps that CompleteAnswer is about. *)
Smooth == Undisturbed /\ lost = 0 /\ begun.named /\ begun.counted = Objects

(* What such a dump has, at each section of the script: the maps read are    *)
(* whole, and what a loop has still to read is all that is missing.          *)
Whole ==
    /\ named /\ counted = Objects
    /\ DOMAIN portMap = Ports
    /\ stage # "PORT_MAP" => DOMAIN queueMap = Queues
    /\ stage \notin {"PORT_MAP", "QUEUE_MAP"} => DOMAIN pgMap = Groups
    /\ stage = "PORT_OPER" => Ports \subseteq left \cup portOper
    /\ stage \in {"OIDS_BEGIN", "done"} =>
         /\ Ports \subseteq portOper
         /\ \A x \in Objects : number[x] \in left \cup DOMAIN oids
    /\ stage = "done" => left = {}

WholeInv ==
    /\ lost \in Nat
    /\ stage = "begin" => ~ begun.named
    /\ Smooth => Whole

(* Lemma: what the databases do to a smooth dump only adds to what is there. *)
LEMMA WholeDatabases == ReadInv /\ WholeInv /\ Databases => WholeInv'
<1> SUFFICES ASSUME ReadInv, WholeInv, Databases PROVE WholeInv'
  OBVIOUS
<1> USE SwitchAssumption
<1>1. UNCHANGED scriptVars
  BY DEF Databases, SwssRestart, NamesAppear, CountersAppear
<1>2. UNCHANGED <<stage, left, portMap, queueMap, pgMap, oids, portOper, lost, begun>>
  BY <1>1 DEF scriptVars
<1>3. CASE SwssRestart
  <2>1. restarts' = restarts + 1
    BY <1>3 DEF SwssRestart
  <2>2. ~ Undisturbed'
    BY <1>2, <2>1 DEF ReadInv, Begun, Undisturbed
  <2> QED  BY <1>2, <2>2 DEF WholeInv, Smooth
<1>4. CASE NamesAppear \/ \E objects \in Polled : CountersAppear(objects)
  <2>1. UNCHANGED <<number, restarts>> /\ (named => named')
    BY <1>4 DEF NamesAppear, CountersAppear
  <2>2. counted \subseteq counted' /\ counted' \subseteq Objects
    BY <1>4 DEF NamesAppear, CountersAppear, ReadInv, MapsType
  <2>3. Smooth' => Smooth
    BY <1>2, <2>1 DEF Smooth, Undisturbed
  <2>4. Smooth' => Whole'
    BY <1>2, <2>1, <2>2, <2>3 DEF WholeInv, Whole
  <2> QED  BY <1>2, <2>4 DEF WholeInv
<1> QED  BY <1>3, <1>4 DEF Databases

(* Lemma: a section that is read in one command leaves its map whole, if the *)
(* reply is not lost.                                                        *)
LEMMA WholeMaps ==
  WholeInv /\ (ReadPortMap \/ ReadQueueMap \/ ReadPgMap) => WholeInv'
<1> SUFFICES ASSUME WholeInv, ReadPortMap \/ ReadQueueMap \/ ReadPgMap
             PROVE  WholeInv'
  OBVIOUS
<1>1. CASE ReadPortMap
  <2>1. /\ UNCHANGED dbVars
        /\ stage' = "PORT_MAP" /\ begun'.named = named /\ begun'.counted = counted
        /\ \/ portMap' = PortNames /\ lost' = lost
           \/ lost' = lost + 1
    BY <1>1 DEF ReadPortMap, Reply
  <2>2. lost' \in Nat /\ (lost' = 0 => lost' = lost)
    BY <2>1 DEF WholeInv
  <2>3. Smooth' => named' /\ counted' = Objects /\ portMap' = PortNames
    BY <2>1, <2>2 DEF Smooth, dbVars, WholeInv
  <2>4. named => DOMAIN PortNames = Ports
    BY DEF PortNames
  <2>5. Smooth' => Whole'
    BY <2>1, <2>3, <2>4 DEF Whole, dbVars
  <2> QED  BY <2>1, <2>2, <2>5 DEF WholeInv
<1>2. CASE ReadQueueMap
  <2>1. /\ UNCHANGED <<number, named, counted, restarts, portMap, begun>>
        /\ stage' = "QUEUE_MAP"
        /\ \/ queueMap' = QueueNames /\ lost' = lost
           \/ lost' = lost + 1
    BY <1>2 DEF ReadQueueMap, Reply, dbVars
  <2>2. lost' \in Nat /\ (lost' = 0 => lost = 0 /\ queueMap' = QueueNames)
    BY <2>1 DEF WholeInv
  <2>3. Smooth' => Smooth /\ queueMap' = QueueNames
    BY <2>1, <2>2 DEF Smooth, Undisturbed
  <2>4. named => DOMAIN QueueNames = Queues
    BY DEF QueueNames
  <2>5. Smooth' => Whole'
    BY <2>1, <2>3, <2>4 DEF Whole, WholeInv
  <2> QED  BY <2>1, <2>2, <2>5 DEF WholeInv
<1>3. CASE ReadPgMap
  <2>1. /\ UNCHANGED <<number, named, counted, restarts, portMap, queueMap, begun>>
        /\ stage = "QUEUE_MAP" /\ stage' = "PG_MAP"
        /\ \/ pgMap' = GroupNames /\ lost' = lost
           \/ lost' = lost + 1
    BY <1>3 DEF ReadPgMap, Reply, dbVars
  <2>2. lost' \in Nat /\ (lost' = 0 => lost = 0 /\ pgMap' = GroupNames)
    BY <2>1 DEF WholeInv
  <2>3. Smooth' => Smooth /\ pgMap' = GroupNames
    BY <2>1, <2>2 DEF Smooth, Undisturbed
  <2>4. named => DOMAIN GroupNames = Groups
    BY DEF GroupNames
  <2>5. Smooth' => Whole'
    BY <2>1, <2>3, <2>4 DEF Whole, WholeInv
  <2> QED  BY <2>1, <2>2, <2>5 DEF WholeInv
<1> QED  BY <1>1, <1>2, <1>3

(* Lemma: a loop starts from all there is to read, and ends with nothing     *)
(* left.                                                                     *)
LEMMA WholeLoops == WholeInv /\ (ListPorts \/ ListOids \/ EndDump) => WholeInv'
<1> SUFFICES ASSUME WholeInv, ListPorts \/ ListOids \/ EndDump PROVE WholeInv'
  OBVIOUS
<1>1. UNCHANGED <<number, named, counted, restarts, begun,
                  portMap, queueMap, pgMap, oids, portOper>>
  BY DEF ListPorts, ListOids, EndDump, dbVars, readVars
<1>2. /\ lost' \in Nat /\ (lost' = 0 => lost = 0)
      /\ stage' # "begin"
  BY DEF ListPorts, ListOids, EndDump, Reply, WholeInv
<1>3. Smooth' => Smooth
  BY <1>1, <1>2 DEF Smooth, Undisturbed
<1>4. CASE ListPorts
  <2>1. /\ stage = "PG_MAP" /\ stage' = "PORT_OPER"
        /\ lost' = 0 => left' = Ports
    BY <1>4 DEF ListPorts, Reply, WholeInv
  <2>2. Smooth' => left' = Ports
    BY <2>1 DEF Smooth
  <2>3. Smooth' => Whole'
    BY <1>1, <1>3, <2>1, <2>2 DEF Whole, WholeInv
  <2> QED  BY <1>2, <2>3 DEF WholeInv
<1>5. CASE ListOids
  <2>1. /\ stage = "PORT_OPER" /\ left = {} /\ stage' = "OIDS_BEGIN"
        /\ lost' = 0 => left' = {number[x] : x \in counted}
    BY <1>5 DEF ListOids, Reply, WholeInv
  <2>2. Smooth' => left' = {number[x] : x \in counted}
    BY <2>1 DEF Smooth
  <2>3. Smooth' => Whole'
    BY <1>1, <1>3, <2>1, <2>2 DEF Whole, WholeInv
  <2> QED  BY <1>2, <2>3 DEF WholeInv
<1>6. CASE EndDump
  <2>1. stage = "OIDS_BEGIN" /\ left = {} /\ left' = left /\ stage' = "done"
    BY <1>6 DEF EndDump
  <2>2. Smooth' => Whole'
    BY <1>1, <1>3, <2>1 DEF Whole, WholeInv
  <2> QED  BY <1>2, <2>2 DEF WholeInv
<1> QED  BY <1>4, <1>5, <1>6

(* Lemma: a turn of a loop takes nothing off its list that it has not read.  *)
LEMMA WholeTurns ==
  /\ \A p \in Ports : ReadInv /\ WholeInv /\ ReadOper(p) => WholeInv'
  /\ \A o \in Oids : ReadInv /\ WholeInv /\ ReadOid(o) => WholeInv'
<1>1. ASSUME NEW p \in Ports, WholeInv, ReadOper(p) PROVE WholeInv'
  <2>1. /\ UNCHANGED <<number, named, counted, restarts, begun, stage,
                       portMap, queueMap, pgMap, oids>>
        /\ stage = "PORT_OPER" /\ left' = left \ {p}
        /\ \/ portOper' = portOper \cup {p} /\ lost' = lost
           \/ lost' = lost + 1
    BY <1>1 DEF ReadOper, Reply, dbVars
  <2>2. lost' \in Nat /\ (lost' = 0 => lost = 0 /\ portOper' = portOper \cup {p})
    BY <1>1, <2>1 DEF WholeInv
  <2>3. Smooth' => Smooth /\ portOper' = portOper \cup {p}
    BY <2>1, <2>2 DEF Smooth, Undisturbed
  <2>4. Smooth' => Whole'
    BY <1>1, <2>1, <2>3 DEF Whole, WholeInv
  <2> QED  BY <2>1, <2>2, <2>4 DEF WholeInv
<1>2. ASSUME NEW o \in Oids, ReadInv, WholeInv, ReadOid(o) PROVE WholeInv'
  <2>1. /\ UNCHANGED <<number, named, counted, restarts, begun, stage,
                       portMap, queueMap, pgMap, portOper>>
        /\ stage = "OIDS_BEGIN" /\ left' = left \ {o}
    BY <1>2 DEF ReadOid, dbVars
  <2>2. /\ lost' \in Nat /\ (lost' = 0 => lost = 0)
        /\ \/ \E x \in counted : number[x] = o /\ oids' = Put(oids, o, x)
           \/ oids' = oids /\ \A x \in counted : number[x] # o
           \/ lost' # 0
    BY <1>2 DEF ReadOid, Reply, WholeInv
  <2>3. Smooth' => Smooth
    BY <2>1, <2>2 DEF Smooth, Undisturbed
  <2>4. ASSUME Smooth' PROVE \A x \in Objects : number[x] \in left' \cup DOMAIN oids'
    <3>1. /\ counted = Objects
          /\ \A x \in Objects : number[x] \in left \cup DOMAIN oids
      BY <1>2, <2>1, <2>3, <2>4 DEF WholeInv, Whole
    <3>2. CASE \E x \in counted : number[x] = o /\ oids' = Put(oids, o, x)
      <4>1. DOMAIN oids' = DOMAIN oids \cup {o}
        BY <3>2 DEF Put
      <4> QED  BY <2>1, <3>1, <4>1
    <3>3. CASE oids' = oids /\ \A x \in counted : number[x] # o
      BY <2>1, <3>1, <3>3
    <3> QED  BY <2>2, <2>4, <3>2, <3>3 DEF Smooth
  <2>5. Smooth' => Whole'
    BY <1>2, <2>1, <2>3, <2>4 DEF Whole, WholeInv
  <2> QED  BY <2>1, <2>2, <2>5 DEF WholeInv
<1> QED  BY <1>1, <1>2

(* Lemma: every step keeps smooth dumps whole. *)
LEMMA WholeStep == ReadInv /\ WholeInv /\ [Next]_vars => WholeInv'
<1> SUFFICES ASSUME ReadInv, WholeInv, [Next]_vars PROVE WholeInv'
  OBVIOUS
<1>1. CASE Databases
  BY <1>1, WholeDatabases
<1>2. CASE ReadPortMap \/ ReadQueueMap \/ ReadPgMap
  BY <1>2, WholeMaps
<1>3. CASE ListPorts \/ ListOids \/ EndDump
  BY <1>3, WholeLoops
<1>4. CASE \E p \in Ports : ReadOper(p)
  BY <1>4, WholeTurns
<1>5. CASE \E o \in Oids : ReadOid(o)
  BY <1>5, WholeTurns
<1>6. CASE UNCHANGED vars
  BY <1>6 DEF vars, WholeInv, Smooth, Undisturbed, Whole
<1> QED  BY <1>1, <1>2, <1>3, <1>4, <1>5, <1>6 DEF Next
-----------------------------------------------------------------------------
(* Lemma: an object is of the kind it was made as, and has that kind's stats.*)
LEMMA Kinds ==
  /\ \A p \in Ports : PortObj(p) \in Objects /\ StatsOf(PortObj(p)) = PortStats
  /\ \A q \in Queues : /\ QueueObj(q[1], q[2]) \in Objects
                       /\ StatsOf(QueueObj(q[1], q[2])) = QueueStats
  /\ \A g \in Groups : /\ GroupObj(g[1], g[2]) \in Objects
                       /\ StatsOf(GroupObj(g[1], g[2])) = GroupStats
<1>1. /\ \A p \in Ports : PortObj(p) \in PortObjects
      /\ \A q \in Queues : QueueObj(q[1], q[2]) \in QueueObjects
      /\ \A g \in Groups : GroupObj(g[1], g[2]) \in GroupObjects
  BY DEF PortObjects, QueueObjects, GroupObjects
<1>2. /\ \A p, a, i : PortObj(p) # QueueObj(a, i) /\ PortObj(p) # GroupObj(a, i)
      /\ \A a, i, b, j : QueueObj(a, i) # GroupObj(b, j)
  BY DEF PortObj, QueueObj, GroupObj
<1>3. /\ \A x \in QueueObjects : x \notin PortObjects
      /\ \A x \in GroupObjects : x \notin PortObjects /\ x \notin QueueObjects
  BY <1>2 DEF PortObjects, QueueObjects, GroupObjects
<1> QED  BY <1>1, <1>3 DEF StatsOf, Objects

(* Lemma: at the end of a smooth dump every stat of every object is found by *)
(* the object's id.                                                          *)
LEMMA StatFound ==
  ASSUME ReadInv, WholeInv, Smooth, stage = "done",
         NEW x \in Objects, NEW stat \in StatsOf(x)
  PROVE  Stat(number[x], stat) # None
<1> DEFINE o == number[x]
<1>1. o \in DOMAIN oids
  BY DEF WholeInv, Whole
<1>2. oids[o] \in Objects /\ number[oids[o]] = o
  BY <1>1 DEF ReadInv, MapsType, Current, Smooth
<1>3. oids[o] = x
  BY <1>2, SwitchAssumption DEF ReadInv, MapsType
<1>4. Stat(o, stat) = <<x, stat>>
  BY <1>1, <1>3 DEF Stat
<1>5. stat \in Stats
  BY DEF StatsOf, Stats
<1> QED  BY <1>4, <1>5, SwitchAssumption

(* Lemma: so are the columns whole, as far as there are columns and groups.  *)
LEMMA ColumnsFound ==
  ASSUME ReadInv, WholeInv, Smooth, stage = "done",
         NEW p \in Ports, NEW i \in Nat, i < Columns
  PROVE  /\ \A way \in {"PFC_RX", "PFC_TX"} : At(PfcColumn(portMap[p], way), i) # None
         /\ <<p, i>> \in Groups => At(PgColumn(p), i) # None
<1>1. /\ i \in 0 .. Columns - 1
      /\ DOMAIN portMap = Ports /\ DOMAIN pgMap = Groups
  BY SwitchAssumption DEF WholeInv, Whole
<1>2. ASSUME NEW way \in {"PFC_RX", "PFC_TX"}
      PROVE  At(PfcColumn(portMap[p], way), i) # None
  <2>1. At(PfcColumn(portMap[p], way), i) = Stat(portMap[p], <<way, i>>)
    BY <1>1 DEF At, PfcColumn
  <2>2. portMap[p] = number[PortObj(p)]
    BY <1>1 DEF ReadInv, Current, Smooth
  <2>3. <<way, i>> \in PortStats
    BY <1>1 DEF PortStats
  <2> QED  BY <2>1, <2>2, <2>3, Kinds, StatFound
<1>3. ASSUME <<p, i>> \in Groups PROVE At(PgColumn(p), i) # None
  <2> DEFINE g == <<p, i>>
             found == IndicesOf(pgMap, p) \cap (0 .. Columns - 1)
  <2>1. g \in DOMAIN pgMap /\ g[1] = p /\ g[2] = i
    BY <1>1, <1>3
  <2>2. i \in found
    BY <1>1, <2>1 DEF IndicesOf
  <2>3. At(PgColumn(p), i) = Stat(pgMap[g], <<"WATERMARK">>)
    BY <1>1, <2>2 DEF At, PgColumn
  <2>4. pgMap[g] = number[GroupObj(g[1], g[2])]
    BY <2>1 DEF ReadInv, Current, Smooth
  <2>5. <<"WATERMARK">> \in GroupStats
    BY DEF GroupStats
  <2> QED  BY <1>3, <2>3, <2>4, <2>5, Kinds, StatFound
<1> QED  BY <1>2, <1>3

(* Lemma: a dump that has left nothing out makes an answer that does not. *)
LEMMA WholeAnswer == ReadInv /\ WholeInv => CompleteAnswer
<1> SUFFICES ASSUME ReadInv, WholeInv, stage = "done", Smooth
             PROVE  /\ {r.name : r \in Answer} = Ports
                    /\ \A r \in Answer :
                         /\ r.rx_packets # None
                         /\ table[r.name].oper_status \in {"up", "down"} =>
                              None \notin {r.oper_status, r.admin_status}
                         /\ {q.q_index : q \in r.queues} =
                              {a[2] : a \in {b \in Queues : b[1] = r.name /\ b[2] \in Nat}}
                         /\ \A q \in r.queues :
                              /\ q.tx_packets # None
                              /\ q.q_index < Columns =>
                                   None \notin {q.pfc_pause_sent_count, q.pfc_pause_rcvd_count}
                              /\ q.q_index < Columns /\ <<r.name, q.q_index>> \in Groups =>
                                   q.pg_watermark_bytes # None
  BY DEF CompleteAnswer, Smooth
<1>1. /\ DOMAIN portMap = Ports /\ DOMAIN queueMap = Queues
      /\ Ports \subseteq portOper
  BY DEF WholeInv, Whole
<1> DEFINE Record(p) == ComposePortRecord(p)
           Port(p) == TranslatePort(ComposePortRecord(p))
           Row(p, i) == TranslateQueue(Record(p),
                          [txq |-> i, pkts |-> Stat(queueMap[<<p, i>>], <<"PKTS">>)])
<1>2. \A p : /\ Port(p).name = p /\ Port(p).rx_packets = Record(p).ok
             /\ Port(p).queues = {TranslateQueue(Record(p), q) : q \in Record(p).queues}
  BY DEF TranslatePort, ComposePortRecord
<1>3. \A p : /\ Record(p).ok = Stat(portMap[p], <<"OK">>)
             /\ Record(p).pfc_rx = PfcColumn(portMap[p], "PFC_RX")
             /\ Record(p).pfc_tx = PfcColumn(portMap[p], "PFC_TX")
             /\ Record(p).pg = PgColumn(p)
             /\ Record(p).queues =
                  {[txq |-> i, pkts |-> Stat(queueMap[<<p, i>>], <<"PKTS">>)] :
                     i \in IndicesOf(queueMap, p)}
  BY DEF ComposePortRecord
<1>4. Answer = {Port(p) : p \in Ports}
  BY <1>1 DEF Answer
<1>0. ASSUME NEW p \in Ports, table[p].oper_status \in {"up", "down"}
      PROVE  None \notin {Port(p).oper_status, Port(p).admin_status}
  <2>1. StateOf(p) = table[p].oper_status
    BY <1>0, <1>1, SwitchAssumption DEF StateOf
  <2> QED  BY <1>0, <2>1, Statuses, SwitchAssumption
<1> HIDE DEF Record, Port
<1>5. ASSUME NEW p PROVE Port(p).queues = {Row(p, i) : i \in IndicesOf(queueMap, p)}
  <2> DEFINE Queue(i) == [txq |-> i, pkts |-> Stat(queueMap[<<p, i>>], <<"PKTS">>)]
  <2>1. /\ Record(p).queues = {Queue(i) : i \in IndicesOf(queueMap, p)}
        /\ Port(p).queues = {TranslateQueue(Record(p), q) : q \in Record(p).queues}
        /\ \A i : Row(p, i) = TranslateQueue(Record(p), Queue(i))
    BY <1>2, <1>3
  <2> HIDE DEF Queue, Row
  <2> QED  BY <2>1
<1>6. {r.name : r \in Answer} = Ports
  BY <1>2, <1>4
<1>7. ASSUME NEW p \in Ports PROVE Port(p).rx_packets # None
  <2>1. portMap[p] = number[PortObj(p)]
    BY <1>1 DEF ReadInv, Current, Smooth
  <2>2. <<"OK">> \in PortStats
    BY DEF PortStats
  <2> QED  BY <1>2, <1>3, <2>1, <2>2, Kinds, StatFound
<1>8. ASSUME NEW p \in Ports, NEW i \in IndicesOf(queueMap, p)
      PROVE  /\ Row(p, i).q_index = i
             /\ Row(p, i).tx_packets # None
             /\ i < Columns => None \notin {Row(p, i).pfc_pause_sent_count,
                                           Row(p, i).pfc_pause_rcvd_count}
             /\ i < Columns /\ <<p, i>> \in Groups => Row(p, i).pg_watermark_bytes # None
  <2> DEFINE a == <<p, i>>
             q == Row(p, i)
  <2>1. /\ q.q_index = i
        /\ q.tx_packets = Stat(queueMap[a], <<"PKTS">>)
        /\ q.pfc_pause_sent_count = At(PfcColumn(portMap[p], "PFC_TX"), i)
        /\ q.pfc_pause_rcvd_count = At(PfcColumn(portMap[p], "PFC_RX"), i)
        /\ q.pg_watermark_bytes = At(PgColumn(p), i)
    BY <1>3 DEF TranslateQueue
  <2> HIDE DEF q, Row
  <2>2. i \in Nat /\ a \in DOMAIN queueMap
    BY Aliases
  <2>3. queueMap[a] = number[QueueObj(a[1], a[2])]
    BY <2>2 DEF ReadInv, Current, Smooth
  <2>4. <<"PKTS">> \in QueueStats
    BY DEF QueueStats
  <2>5. q.tx_packets # None
    BY <1>1, <2>1, <2>2, <2>3, <2>4, Kinds, StatFound
  <2>6. /\ i < Columns => None \notin {q.pfc_pause_sent_count, q.pfc_pause_rcvd_count}
        /\ i < Columns /\ <<p, i>> \in Groups => q.pg_watermark_bytes # None
    BY <2>1, <2>2, ColumnsFound
  <2> QED  BY <2>1, <2>5, <2>6 DEF q
<1> HIDE DEF Row
<1>9. ASSUME NEW p \in Ports, NEW q \in Port(p).queues
      PROVE  /\ q.q_index \in IndicesOf(queueMap, p)
             /\ q.tx_packets # None
             /\ q.q_index < Columns =>
                  None \notin {q.pfc_pause_sent_count, q.pfc_pause_rcvd_count}
             /\ q.q_index < Columns /\ <<p, q.q_index>> \in Groups =>
                  q.pg_watermark_bytes # None
  <2>1. PICK i \in IndicesOf(queueMap, p) : q = Row(p, i)
    BY <1>5
  <2> QED  BY <2>1, <1>8
<1>10. ASSUME NEW p \in Ports
      PROVE  {q.q_index : q \in Port(p).queues} = IndicesOf(queueMap, p)
  <2>1. ASSUME NEW i \in IndicesOf(queueMap, p)
        PROVE  Row(p, i) \in Port(p).queues /\ Row(p, i).q_index = i
    BY <1>5, <1>8
  <2> QED  BY <1>9, <2>1
<1>11. \A p : IndicesOf(queueMap, p) =
                {a[2] : a \in {b \in Queues : b[1] = p /\ b[2] \in Nat}}
  BY <1>1 DEF IndicesOf
<1>12. ASSUME NEW r \in Answer
       PROVE  /\ r.rx_packets # None
              /\ table[r.name].oper_status \in {"up", "down"} =>
                   None \notin {r.oper_status, r.admin_status}
              /\ {q.q_index : q \in r.queues} =
                   {a[2] : a \in {b \in Queues : b[1] = r.name /\ b[2] \in Nat}}
              /\ \A q \in r.queues :
                   /\ q.tx_packets # None
                   /\ q.q_index < Columns =>
                        None \notin {q.pfc_pause_sent_count, q.pfc_pause_rcvd_count}
                   /\ q.q_index < Columns /\ <<r.name, q.q_index>> \in Groups =>
                        q.pg_watermark_bytes # None
  <2>1. PICK p \in Ports : r = Port(p)
    BY <1>4
  <2>2. r.name = p
    BY <1>2, <2>1
  <2>3. r.rx_packets # None
    BY <1>7, <2>1
  <2>4. table[p].oper_status \in {"up", "down"} =>
          None \notin {r.oper_status, r.admin_status}
    BY <1>0, <2>1
  <2>5. {q.q_index : q \in r.queues} =
          {a[2] : a \in {b \in Queues : b[1] = p /\ b[2] \in Nat}}
    BY <1>10, <1>11, <2>1
  <2> QED  BY <1>9, <2>1, <2>2, <2>3, <2>4, <2>5
<1> QED  BY <1>6, <1>12

(* Theorem: with the databases populated when the dump begins, no restart    *)
(* and no reply lost, the answer leaves nothing out, but for statuses that   *)
(* are neither up nor down.                                                  *)
THEOREM AnswerLeavesNothingOut == Spec => []CompleteAnswer
<1>1. Init => ReadInv /\ WholeInv
  <2>1. Init => WholeInv
    BY DEF Init, WholeInv, Smooth
  <2> QED  BY <2>1, ReadInit
<1>2. ReadInv /\ WholeInv /\ [Next]_vars => (ReadInv /\ WholeInv)'
  BY ReadStep, WholeStep
<1>3. ReadInv /\ WholeInv => CompleteAnswer
  BY WholeAnswer
<1> QED  BY <1>1, <1>2, <1>3, PTL DEF Spec
=============================================================================
