---------------------------- MODULE HostCounters -----------------------------
(***************************************************************************)
(* A host counters answer: get_host_counters and parse_ethtool_S of        *)
(* driver/counters.py read `ethtool -S` on one host after another, and     *)
(* translate_host_counters of adapter/schema_v1.py makes packet and drop   *)
(* counts of whatever statistics each kernel has.  An exec that fails ends *)
(* the call (AdapterServer); here every host answers.                      *)
(*                                                                         *)
(* A statistic's name is a record of its parts, which decide whether the   *)
(* substrings "rx_queue_" and "_drops" occur in it; queue is None in the   *)
(* name of a statistic of the whole interface.                             *)
(*                                                                         *)
(* An operator Fault... is not part of the model: it is a definition as a  *)
(* plausible bug would have it, for checking that the properties notice.   *)
(***************************************************************************)
EXTENDS Naturals, FiniteSetsExt

CONSTANTS
    Hosts,   \* the hosts that inspect lists
    Keys,    \* the names of the statistics a kernel may have
    Counts,  \* values of integer statistics
    Text,    \* any other value: a word, or None for N/A
    None     \* Python's None, and a field the answer omits

Key(dir, queue, what) == [dir |-> dir, queue |-> queue, what |-> what]

ASSUME HostAssumption ==
    /\ \A k \in Keys : k = Key(k.dir, k.queue, k.what)
    /\ Counts \subseteq Nat
    /\ Text \notin Nat /\ None \notin Nat

VARIABLES
    unread,  \* the hosts the loop has still to read
    native,  \* native[h]: the stats of a host's record
    answer   \* answer[h]: its interface in the answer

vars == <<unread, native, answer>>

Empty == [k \in {} |-> None]

\* What a kernel may print; it need not print anything.
Outputs ==
    UNION {[K -> Counts \cup {Text}] : K \in {F \in SUBSET Keys : IsFiniteSet(F)}}

Init ==
    /\ unread = Hosts
    /\ native = Empty
    /\ answer = Empty

-----------------------------------------------------------------------------
(* translate_host_counters, on one record's stats. *)

IntKeys(stats) == {k \in DOMAIN stats : stats[k] \in Nat}

\* "rx_queue_" in key, "_drops" in key.
OfRxQueue(k) == k.dir = "rx" /\ k.queue # None
SaysDrops(k) == k.what \in {"drops", "xdp_drops"}

RxQueueKeys(stats) == {k \in IntKeys(stats) : OfRxQueue(k)}
DropKeys(stats) == {k \in IntKeys(stats) : SaysDrops(k)}

\* What the statistics of these names add up to.
Total(stats, keys) == MapThenSumSet(LAMBDA k : stats[k], keys)

\* Fault: nothing found is a sum of zero.
FaultZeroFills(stats, keys) == Total(stats, keys)

\* Fault: total = value in place of total += value.
FaultKeepsLast(stats, keys) ==
    IF keys = {} THEN None ELSE stats[CHOOSE k \in keys : TRUE]

\* _sum_drops over the keys it matched.
SumDrops(stats, keys) ==
    IF keys = {} THEN None ELSE Total(stats, keys)

\* Python's x or y: neither None nor 0 will do for x.
Or(x, y) == IF x \in {None, 0} THEN y ELSE x

\* isinstance(stats.get(key), int).
IntOf(stats, key) == IF key \in IntKeys(stats) THEN stats[key] ELSE None

RxDrops(stats) ==
    LET canonical == IntOf(stats, Key("rx", None, "dropped"))
    IN  IF canonical # None THEN canonical
        ELSE Or(SumDrops(stats, RxQueueKeys(stats)), SumDrops(stats, DropKeys(stats)))

Interface(stats) ==
    [rx_packets |-> IntOf(stats, Key("rx", None, "packets")),
     tx_packets |-> IntOf(stats, Key("tx", None, "packets")),
     rx_drops   |-> RxDrops(stats),
     tx_drops   |-> IntOf(stats, Key("tx", None, "dropped"))]

-----------------------------------------------------------------------------
(* One turn of get_host_counters' loop. *)
ReadHost(h) ==
    /\ h \in unread
    /\ unread' = unread \ {h}
    /\ \E stats \in Outputs :
         native' = [x \in DOMAIN native \cup {h} |-> IF x = h THEN stats ELSE native[x]]
    /\ UNCHANGED answer

TranslateHostCounters ==
    /\ unread = {} /\ answer = Empty
    /\ answer' = [h \in DOMAIN native |-> Interface(native[h])]
    /\ UNCHANGED <<unread, native>>

Next == TranslateHostCounters \/ \E h \in Hosts : ReadHost(h)

Spec == Init /\ [][Next]_vars

-----------------------------------------------------------------------------
\* The rx_queue_N_drops statistics of a host that are integers.
QueueDropKeys(stats) == {k \in RxQueueKeys(stats) : k.what = "drops"}

(* Safety: packets dropped on a receive queue are not hidden: where the      *)
(* kernel has no aggregate of its own, rx_drops is at least what all the     *)
(* rx_queue_N_drops add up to, the "silent-drops diagnostic surface".        *)
NoDropHidden ==
    \A h \in DOMAIN answer :
        LET stats == native[h]
        IN  /\ IntOf(stats, Key("rx", None, "dropped")) = None
            /\ QueueDropKeys(stats) # {}
            => /\ answer[h].rx_drops # None
               /\ answer[h].rx_drops >= Total(stats, QueueDropKeys(stats))

(* Safety: omit, not zero: a count is in the answer only if the kernel has   *)
(* an integer statistic that it comes from, and it never exceeds what those  *)
(* statistics add up to.                                                     *)
OmitNotZero ==
    \A h \in DOMAIN answer :
        LET stats == native[h]
            sources == RxQueueKeys(stats) \cup DropKeys(stats)
                         \cup (IntKeys(stats) \cap {Key("rx", None, "dropped")})
        IN  answer[h].rx_drops # None =>
              /\ sources # {}
              /\ answer[h].rx_drops <= Total(stats, sources)

(* Safety: exactly when the rule of the docstring, that rx_drops is the sum  *)
(* of the rx_queue_N_drops, holds of a host without the aggregate: its other *)
(* statistics of receive queues, xdp_packets and xdp_bytes among them, add   *)
(* up to 0, and if the receive queues dropped nothing the other statistics   *)
(* that say drops, the transmit queues' too, add up to 0 as well.            *)
ExactWhenOthersZero ==
    \A h \in DOMAIN answer :
        LET stats == native[h]
            queues == QueueDropKeys(stats)
        IN  /\ IntOf(stats, Key("rx", None, "dropped")) = None
            /\ queues # {}
            => (answer[h].rx_drops = Total(stats, queues) <=>
                  /\ Total(stats, RxQueueKeys(stats) \ queues) = 0
                  /\ \/ Total(stats, queues) # 0
                     \/ Total(stats, DropKeys(stats) \ queues) = 0)

(* What the repository says and the code does not do.                        *)
(* translate_host_counters: "rx_drops is the sum across all rx_queue_N_drops *)
(* keys".                                                                    *)
RxDropsAreDrops ==
    \A h \in DOMAIN answer :
        LET stats == native[h]
        IN  /\ IntOf(stats, Key("rx", None, "dropped")) = None
            /\ QueueDropKeys(stats) # {}
            => answer[h].rx_drops = Total(stats, QueueDropKeys(stats))
=============================================================================
