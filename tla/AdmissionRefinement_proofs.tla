---------------------- MODULE AdmissionRefinement_proofs ----------------------
(***************************************************************************)
(* The adjust-resources handler implements AdmissionAbstract under the    *)
(* mapping of AdjustResources (Admission): its initial state is the       *)
(* abstract one, Receive is the abstract AReceive, exit() and Respond are  *)
(* AAnswer, and every other step leaves the request, the answer and       *)
(* whether one is pending alone.  The invariant AdmInv carries the        *)
(* reshaping of the pod from the strip step to the response.              *)
(***************************************************************************)
EXTENDS ContainerLoop_proofs

(***************************************************************************)
(* Replacing element i of a list of containers by a container of the same *)
(* name keeps the list's names.                                            *)
(***************************************************************************)
LEMMA NamesExcept ==
    ASSUME NEW s \in Seq(ContainerType), NEW i \in 1..Len(s),
           NEW c \in ContainerType, c.name = s[i].name
    PROVE  Admission!Names([s EXCEPT ![i] = c]) = Admission!Names(s)
<1>1. [s EXCEPT ![i] = c] \in Seq(ContainerType) /\ Len([s EXCEPT ![i] = c]) = Len(s)
  OBVIOUS
<1>2. \A j \in 1..Len(s) : [s EXCEPT ![i] = c][j].name = s[j].name
  OBVIOUS
<1> QED
  BY <1>1, <1>2 DEF Admission!Names

(***************************************************************************)
(* The strip step (resourceUtils.ts 195-212) reshapes a pod as the        *)
(* abstract specification allows: the topology spread constraints go, and *)
(* the affinity rules in force lose podAntiAffinity and keep the others,  *)
(* also when the whole block is deleted because nothing else was left.    *)
(***************************************************************************)
LEMMA StripReshapes ==
    ASSUME NEW p \in PodType
    PROVE  Admission!Reshaped([p EXCEPT !.topology = FALSE,
                                        !.affinity = StrippedAffinity(p.affinity)], p)
<1> DEFINE q == [p EXCEPT !.topology = FALSE, !.affinity = StrippedAffinity(p.affinity)]
           a == p.affinity
<1>1. a \in AffinityType
  BY DEF PodType
<1>2. /\ q.name = p.name /\ q.namespace = p.namespace /\ q.owners = p.owners
      /\ q.containers = p.containers /\ q.initContainers = p.initContainers
      /\ ~q.topology /\ q.affinity = StrippedAffinity(a)
  BY DEF PodType
<1>3. Admission!Rules(q) = Admission!Rules(p) \ {"podAntiAffinity"}
  <2>1. CASE a.present /\ "podAntiAffinity" \in a.parts
    <3>1. a.parts \ {"podAntiAffinity"} = a.parts \cap {"nodeAffinity", "podAffinity"}
      BY <1>1 DEF AffinityType, AffinityParts
    <3>2. StrippedAffinity(a) = [present |-> a.parts \cap {"nodeAffinity", "podAffinity"} # {},
                                 parts |-> a.parts \ {"podAntiAffinity"}]
      BY <2>1 DEF StrippedAffinity
    <3> DEFINE kept == a.parts \cap {"nodeAffinity", "podAffinity"}
    <3>3. Admission!Rules(p) = a.parts
      BY <2>1 DEF Admission!Rules
    <3>4. q.affinity.present = (kept # {}) /\ q.affinity.parts = kept
      BY <1>2, <3>1, <3>2
    <3>5. Admission!Rules(q) = kept
      <4>1. CASE kept # {}
        BY <3>4, <4>1 DEF Admission!Rules
      <4>2. CASE kept = {}
        BY <3>4, <4>2 DEF Admission!Rules
      <4> QED
        BY <4>1, <4>2
    <3> QED
      BY <3>1, <3>3, <3>5
  <2>2. CASE ~(a.present /\ "podAntiAffinity" \in a.parts)
    <3>1. StrippedAffinity(a) = a
      BY <2>2 DEF StrippedAffinity
    <3> QED
      BY <1>2, <2>2, <3>1 DEF Admission!Rules
  <2> QED
    BY <2>1, <2>2
<1> QED
  BY <1>2, <1>3 DEF Admission!Reshaped

(***************************************************************************)
(* A pass of the container loop keeps the container's name: the decisions *)
(* write resources only.                                                   *)
(***************************************************************************)
LEMMA AdjustedKeepsName ==
    ASSUME NEW c \in ContainerType, NEW kind, NEW ws \in WorkloadStatType \cup {Null}
    PROVE  AdjustedContainer(c, kind, ws).c.name = c.name
<1>1. CASE ws = Null
  BY <1>1 DEF AdjustedContainer, ContainerType
<1>2. CASE ws # Null
  <2> DEFINE cs == FindContainerStat(ws, c.name)
             e == CpuDecision(c, kind, cs).c
  <2>1. CASE cs = Null \/ cs.cpu = Null \/ cs.mem = Null
    BY <1>2, <2>1 DEF AdjustedContainer
  <2>2. CASE ~(cs = Null \/ cs.cpu = Null \/ cs.mem = Null)
    <3>1. cs \in ContainerStatType /\ cs.cpu # Null /\ cs.mem # Null
      BY <1>2, <2>2, FindContainerStatType
    <3>2. e \in ContainerType /\ e.name = c.name
      <4>1. e \in ContainerType
        BY <3>1, DecisionTypes
      <4>2. e.name = c.name
        BY DEF CpuDecision, ContainerType
      <4> QED
        BY <4>1, <4>2
    <3>3. MemoryDecision(e, kind, cs).c.name = e.name
      BY <3>2 DEF MemoryDecision, ContainerType
    <3> QED
      BY <1>2, <2>2, <3>2, <3>3 DEF AdjustedContainer
  <2> QED
    BY <2>1, <2>2
<1> QED
  BY <1>1, <1>2

(***************************************************************************)
(* The loop's write-back of a container with the same name keeps a        *)
(* reshaped pod reshaped: SetContainer writes one element of containers   *)
(* or of initContainers and nothing else of the pod.                      *)
(***************************************************************************)
LEMMA SetContainerReshapes ==
    ASSUME NEW p \in PodType, NEW o, NEW i \in 1..Len(AllContainers(p)),
           NEW c \in ContainerType, c.name = AllContainers(p)[i].name,
           Admission!Reshaped(p, o)
    PROVE  Admission!Reshaped(SetContainer(p, i, c), o)
<1> DEFINE s == p.containers
           t == p.initContainers
           p2 == SetContainer(p, i, c)
<1>1. s \in Seq(ContainerType) /\ t \in Seq(ContainerType)
  BY DEF PodType
<1>2. Len(AllContainers(p)) = Len(s) + Len(t) /\ Len(s) \in Nat /\ Len(t) \in Nat
  BY <1>1 DEF AllContainers
<1>3. /\ p2.name = p.name /\ p2.namespace = p.namespace /\ p2.owners = p.owners
      /\ p2.topology = p.topology /\ p2.affinity = p.affinity
  BY DEF SetContainer, PodType
<1>4. Admission!Names(p2.containers) = Admission!Names(s)
      /\ Admission!Names(p2.initContainers) = Admission!Names(t)
  <2>1. CASE i <= Len(s)
    <3>1. p2.containers = [s EXCEPT ![i] = c] /\ p2.initContainers = t
      BY <2>1 DEF SetContainer, PodType
    <3>2. i \in 1..Len(s) /\ AllContainers(p)[i] = s[i]
      BY <1>1, <2>1 DEF AllContainers
    <3> QED
      BY <1>1, <3>1, <3>2, NamesExcept
  <2>2. CASE ~(i <= Len(s))
    <3> DEFINE n == i - Len(s)
    <3>1. n \in 1..Len(t)
      BY <1>2, <2>2, IndexShift
    <3>2. p2.containers = s /\ p2.initContainers = [t EXCEPT ![n] = c]
      BY <2>2 DEF SetContainer, PodType
    <3>3. AllContainers(p)[i] = t[n]
      BY <1>1, <1>2, <2>2, <3>1 DEF AllContainers
    <3> QED
      BY <1>1, <3>1, <3>2, <3>3, NamesExcept
  <2> QED
    BY <2>1, <2>2
<1> QED
  BY <1>3, <1>4 DEF Admission!Reshaped, Admission!Rules

LEMMA AdmInvInit == Init => AdmInv
  BY ShapeInvInit DEF Init, AdmInv

LEMMA AdmInvStep == AdmInv /\ [Next]_vars => AdmInv'
<1> SUFFICES ASSUME AdmInv, [Next]_vars PROVE AdmInv'
  OBVIOUS
<1>0. ShapeInv'
  BY ShapeInvStep DEF AdmInv
<1> USE <1>0 DEF AdmInv
<1>1. CASE Receive
  BY <1>1 DEF Receive
<1>2. CASE Screen
  <2>1. pc = "screen" /\ ~changed /\ req \in Requests
    BY <1>2 DEF Screen, ShapeInv, TypeInv
  <2>2. req.object \in PodType \cup {Null}
    BY <2>1, InputsAssumption DEF RequestType
  <2> QED
    BY <1>2, <2>1, <2>2 DEF Screen, Exit, ReturnUnchanged
<1>3. CASE Resolve
  BY <1>3 DEF Resolve, ReturnUnchanged
<1>4. CASE FetchStats
  BY <1>4 DEF FetchStats, Exit
<1>5. CASE CheckHpa
  BY <1>5 DEF CheckHpa, ReturnUnchanged
<1>6. CASE StripScheduling
  <2>1. pod = req.object /\ pod \in PodType
    BY <1>6 DEF StripScheduling, ShapeInv, TypeInv
  <2>2. Admission!Reshaped(pod', req.object)
    BY <1>6, <2>1, StripReshapes DEF StripScheduling
  <2> QED
    BY <1>6, <2>1, <2>2 DEF StripScheduling
<1>7. CASE AdjustContainer
  <2> DEFINE c == AllContainers(pod)[k]
             d == AdjustedContainer(c, workload.kind, wstat).c
  <2>1. pod \in PodType /\ k \in 1..Len(AllContainers(pod))
        /\ wstat \in WorkloadStatType \cup {Null}
    BY <1>7 DEF AdjustContainer, ShapeInv, TypeInv, TypeOK
  <2>2. c \in ContainerType
    BY <2>1, ContainerAccessTypes, SeqElemType
  <2>3. d \in ContainerType /\ d.name = c.name
    BY <2>1, <2>2, AdjustedContainerType, AdjustedKeepsName
  <2>4. pod' = SetContainer(pod, k, d)
    BY <1>7 DEF AdjustContainer
  <2>5. Admission!Reshaped(pod', req.object)
    BY <1>7, <2>1, <2>3, <2>4, SetContainerReshapes DEF AdjustContainer
  <2> QED
    BY <1>7, <2>5 DEF AdjustContainer
<1>8. CASE FinishContainers
  BY <1>8 DEF FinishContainers
<1>9. CASE Respond
  BY <1>9 DEF Respond
<1>10. CASE UNCHANGED vars
  BY <1>10 DEF vars
<1> QED
  BY <1>1, <1>2, <1>3, <1>4, <1>5, <1>6, <1>7, <1>8, <1>9, <1>10 DEF Next

(* Each step of the handler is an abstract step or leaves the mapping alone. *)
LEMMA NextRefines == AdmInv /\ [Next]_vars => [Admission!ANext]_Admission!avars
<1> SUFFICES ASSUME AdmInv, [Next]_vars PROVE [Admission!ANext]_Admission!avars
  OBVIOUS
<1> DEFINE Stutter == UNCHANGED <<req, pc # "idle", admitted>>
<1>0. Stutter => UNCHANGED Admission!avars
  BY DEF Admission!avars
<1>a. ASSUME pc # "idle", pc' = "idle", UNCHANGED req, admitted' = req.object
      PROVE  Admission!AAnswer
  BY <1>a DEF Admission!AAnswer
<1>1. CASE Receive
  <2>1. Admission!AReceive
    BY <1>1 DEF Receive, Admission!AReceive
  <2> QED
    BY <2>1 DEF Admission!ANext
<1>2. CASE Screen
  <2>1. CASE Exit
    BY <1>2, <2>1, <1>a DEF Screen, Exit, Admission!ANext
  <2>2. CASE ~Exit
    <3>1. Stutter
      BY <1>2, <2>2 DEF Screen, ReturnUnchanged
    <3> QED
      BY <1>0, <3>1
  <2> QED
    BY <2>1, <2>2
<1>3. CASE Resolve
  BY <1>0, <1>3 DEF Resolve, ReturnUnchanged
<1>4. CASE FetchStats
  <2>1. CASE Exit
    BY <1>4, <2>1, <1>a DEF FetchStats, Exit, Admission!ANext
  <2>2. CASE ~Exit
    <3>1. Stutter
      BY <1>4, <2>2 DEF FetchStats
    <3> QED
      BY <1>0, <3>1
  <2> QED
    BY <2>1, <2>2
<1>5. CASE CheckHpa
  BY <1>0, <1>5 DEF CheckHpa, ReturnUnchanged
<1>6. CASE StripScheduling
  BY <1>0, <1>6 DEF StripScheduling
<1>7. CASE AdjustContainer
  BY <1>0, <1>7 DEF AdjustContainer
<1>8. CASE FinishContainers
  BY <1>0, <1>8 DEF FinishContainers
<1>9. CASE Respond
  <2>1. CASE ~changed
    BY <1>9, <2>1, <1>a DEF Respond, Admission!ANext
  <2>2. CASE changed
    <3>1. req.object \in PodType /\ Admission!Reshaped(pod, req.object)
      BY <1>9, <2>2 DEF Respond, AdmInv
    <3>2. req.object # Null
      BY <3>1, InputsAssumption
    <3>3. Admission!AAnswer
      BY <1>9, <2>2, <3>1, <3>2 DEF Respond, Admission!AAnswer
    <3> QED
      BY <3>3 DEF Admission!ANext
  <2> QED
    BY <2>1, <2>2
<1>10. CASE UNCHANGED vars
  BY <1>0, <1>10 DEF vars
<1> QED
  BY <1>1, <1>2, <1>3, <1>4, <1>5, <1>6, <1>7, <1>8, <1>9, <1>10 DEF Next

(***************************************************************************)
(* The policy (adjustResources with index.ts) implements                  *)
(* AdmissionAbstract: each request the host runtime hands it is answered  *)
(* once, by exit(), by return [false, {}] or by mutate(), and a mutated   *)
(* pod keeps its identity and its containers and loses only its topology  *)
(* spread constraints and podAntiAffinity, for every input.               *)
(***************************************************************************)
THEOREM AdmissionRefinement == Spec => ImplementsAdmission
<1>1. Init => Admission!AInit /\ AdmInv
  BY AdmInvInit DEF Init, Admission!AInit
<1>2. AdmInv /\ [][Next]_vars => [][Admission!ANext]_Admission!avars
  BY AdmInvStep, NextRefines, PTL
<1> QED
  BY <1>1, <1>2, PTL DEF Spec, ImplementsAdmission, Admission!ASpec

=============================================================================
