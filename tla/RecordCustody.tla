---------------------------- MODULE RecordCustody ----------------------------
(***************************************************************************)
(* What the threads that share the activity records promise together: from *)
(* the moment its id is issued a record answers to exactly one custodian,  *)
(* custody passes only along the arrows below, and a retired id never      *)
(* comes back.                                                             *)
(*                                                                         *)
(*   unissued -> session        a connection allocates it (service 6)      *)
(*   unissued -> service        the gameplay slice allocates a host        *)
(*   service  -> group          the host is stored in a claimed row        *)
(*   group    -> service        the slice frees evicted or reset hosts     *)
(*   session  -> retiring       the owning binding ends                    *)
(*   service  -> retiring       the slice retires what it holds            *)
(*   retiring -> retired        a root is retired                          *)
(*   group    -> retired        a host is retired on behalf of its source  *)
(*   session  -> retired        an allocation overwrites it atomically     *)
(***************************************************************************)
CONSTANT Keys

VARIABLE custodian

Custodians == {"unissued", "session", "group", "service", "retiring", "retired"}

Held(who) == {k \in Keys : custodian[k] = who}

Init == custodian = [k \in Keys |-> "unissued"]

(* Custody of the records K passes to one custodian. *)
Pass(K, to) == custodian' = [k \in Keys |-> IF k \in K THEN to ELSE custodian[k]]

AllocateOwned == \E k \in Held("unissued") : Pass({k}, "session")

ReplaceOwned ==
    \E k \in Held("unissued"), old \in Held("session") :
        custodian' = [custodian EXCEPT ![k] = "session", ![old] = "retired"]

AllocateHost == \E k \in Held("unissued") : Pass({k}, "service")

Advertise == \E k \in Held("service") : Pass({k}, "group")

Withdraw == \E K \in SUBSET Held("group") : Pass(K, "service")

Abandon == \E k \in Held("session") \cup Held("service") : Pass({k}, "retiring")

Retire == \E k \in Held("retiring") \cup Held("group") : Pass({k}, "retired")

Next == \/ AllocateOwned \/ ReplaceOwned \/ AllocateHost \/ Advertise
        \/ Withdraw \/ Abandon \/ Retire

Spec == Init /\ [][Next]_custodian
=============================================================================
