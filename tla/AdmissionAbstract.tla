-------------------------- MODULE AdmissionAbstract --------------------------
(***************************************************************************)
(* What the adjust-resources policy promises the host runtime, whatever   *)
(* its resolver, statistics and decisions do: each request it is handed   *)
(* gets one answer, and the answer admits either the pod as it came or a  *)
(* mutation of it.  A mutation is the same pod, with the same containers  *)
(* and init containers under the same names and in the same order, whose *)
(* topology spread constraints are gone and whose affinity rules are the *)
(* original's without podAntiAffinity.  Resources are left open.  This is *)
(* the specification AdjustResources is shown to implement.               *)
(***************************************************************************)
EXTENDS Naturals, Sequences

CONSTANTS Null, Requests

VARIABLES
    areq,       \* the request last handed to the policy, or Null
    abusy,      \* that request has not been answered yet
    aadmitted   \* the pod the answer admits, Null until there is one

avars == <<areq, abusy, aadmitted>>

(* The names of a list of containers, in order.                            *)
Names(cs) == [i \in 1..Len(cs) |-> cs[i].name]

(* The affinity rules in force: none when there is no affinity block.      *)
Rules(p) == IF p.affinity.present THEN p.affinity.parts ELSE {}

(***************************************************************************)
(* q is p mutated: identity and containers kept, topology constraints     *)
(* removed, affinity rules those of p without podAntiAffinity.            *)
(***************************************************************************)
Reshaped(q, p) ==
    /\ q.name = p.name
    /\ q.namespace = p.namespace
    /\ q.owners = p.owners
    /\ Names(q.containers) = Names(p.containers)
    /\ Names(q.initContainers) = Names(p.initContainers)
    /\ ~q.topology
    /\ Rules(q) = Rules(p) \ {"podAntiAffinity"}

AInit ==
    /\ areq = Null
    /\ abusy = FALSE
    /\ aadmitted = Null

(* The host runtime hands the policy a request.                            *)
AReceive ==
    /\ ~abusy
    /\ \E r \in Requests : areq' = r
    /\ abusy' = TRUE
    /\ aadmitted' = Null

(* The policy answers: admit the pod as it came, or a mutation of it.     *)
AAnswer ==
    /\ abusy
    /\ abusy' = FALSE
    /\ UNCHANGED areq
    /\ \/ aadmitted' = areq.object
       \/ areq.object # Null /\ Reshaped(aadmitted', areq.object)

ANext == AReceive \/ AAnswer

ASpec == AInit /\ [][ANext]_avars

=============================================================================
