-------------------------- MODULE MCSwitchCounters ---------------------------
(* Small instances of SwitchCounters for TLC. *)
EXTENDS SwitchCounters, TLC

CONSTANTS pA, pB, o1, o2, o3, o4, o5, o6, uc

\* One port has a queue on a column, one past the last column and one whose
\* alias ends in a word, and a priority group; the other has none.
TwoPortQueues == {<<pA, 0>>, <<pA, 2>>, <<pA, uc>>}
TwoPortGroups == {<<pA, 0>>}

\* swss numbers the objects in one of two orders; the second gives ids of one
\* port to the other, and of queues to ports.
FirstOrder ==
    (PortObj(pA) :> o1) @@ (PortObj(pB) :> o2) @@ (QueueObj(pA, 0) :> o3)
    @@ (QueueObj(pA, 2) :> o4) @@ (QueueObj(pA, uc) :> o5) @@ (GroupObj(pA, 0) :> o6)
SecondOrder ==
    (PortObj(pA) :> o2) @@ (PortObj(pB) :> o3) @@ (QueueObj(pA, 0) :> o1)
    @@ (QueueObj(pA, 2) :> o4) @@ (QueueObj(pA, uc) :> o5) @@ (GroupObj(pA, 0) :> o6)
\* The ports' counters are polled apart from the others.
PortsApart == {PortObjects, QueueObjects \cup GroupObjects}

TwoOrders == {FirstOrder, SecondOrder}

\* A port that is down but not shut, one without an oper_status, and one in a
\* state that is neither up nor down.
Row(oper, admin) == [oper_status |-> oper, admin_status |-> admin]
TwoTables == {(pA :> Row("down", "up")) @@ (pB :> Row(None, "up")),
              (pA :> Row("up", "up")) @@ (pB :> Row("testing", "up"))}
=============================================================================
