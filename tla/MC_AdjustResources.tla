------------------------- MODULE MC_AdjustResources -------------------------
(***************************************************************************)
(* A small instance of AdjustResources.  Every quantity is one Kubernetes  *)
(* can send in canonical form, every resource block passes the API        *)
(* server's defaulting (a limit without a request gets the limit as       *)
(* request before admission) and validation (limit >= request), and the   *)
(* statistics are chosen to reach each branch of the decision engine.     *)
(***************************************************************************)
EXTENDS AdjustResources

MCStatScale == 10000

MCExcludedPodPrefixes == {<<"debug">>}

Q(n, u) == [n |-> n, unit |-> u]

(* Resource blocks: <<reqCpu, limCpu, reqMem, limMem>>.                    *)
Blocks ==
    { <<Q(250, "m"), NoQty,       Q(256, "Mi"), Q(256, "Mi")>>,
      <<Q(1, ""),    Q(2, ""),    Q(1, "Gi"),   NoQty>>,
      <<NoQty,       NoQty,       Q(300, "M"),  Q(600, "M")>>,
      <<Q(100, "m"), Q(500, "m"), Q(64, "k"),   Q(64, "k")>>,
      <<NoQty,       NoQty,       NoQty,        NoQty>> }

C(name, b) == [name |-> name, reqCpu |-> b[1], limCpu |-> b[2],
               reqMem |-> b[3], limMem |-> b[4]]

RS  == [kind |-> "ReplicaSet",  name |-> <<"web", "7f9c8d6b5">>]
DS  == [kind |-> "DaemonSet",   name |-> <<"agent">>]
SS  == [kind |-> "StatefulSet", name |-> <<"db">>]
JOB == [kind |-> "Job",         name |-> <<"batch", "x1">>]

OwnerChoices == {<<RS>>, <<DS>>, <<SS>>, <<JOB>>, <<>>, <<RS, SS>>}

Pods ==
    [name : {<<"web", "abc12">>}, namespace : {"team", Null},
     owners : OwnerChoices,
     containers : {<<C("app", b)>> : b \in Blocks},
     initContainers : {<<>>} \cup {<<C("init", b)>> : b \in {<<NoQty, NoQty, Q(300, "M"), Q(600, "M")>>}},
     topology : BOOLEAN,
     affinity : {[present |-> FALSE, parts |-> {}],
                 [present |-> TRUE, parts |-> {"podAntiAffinity"}],
                 [present |-> TRUE, parts |-> {"nodeAffinity", "podAntiAffinity"}]}]

ScreenedPod ==
    [name |-> <<"debug", "x7">>, namespace |-> "team", owners |-> <<RS>>,
     containers |-> <<C("app", <<NoQty, NoQty, NoQty, NoQty>>)>>,
     initContainers |-> <<>>, topology |-> TRUE,
     affinity |-> [present |-> FALSE, parts |-> {}]]

MCRequests ==
    [namespace : {"team"}, object : Pods]
      \cup {[namespace |-> "kube-system", object |-> ScreenedPod],
            [namespace |-> "team", object |-> ScreenedPod],
            [namespace |-> "team", object |-> Null]}

(* Container statistics, in units of 1/10000 core and 1/10000 MB.          *)
CS(name, cpu, mem, predCpu, predMem, mem7) ==
    [container_name |-> name, cpu |-> cpu, mem |-> mem, predCpu |-> predCpu,
     predMem |-> predMem, mem7 |-> mem7]

AppStats ==
    { CS("app", 4000, 3000000, Null, Null, 3500000),  \* 0.4 cores, 300 MB, 350 MB
      CS("app", Null, 3000000, Null, Null, Null),     \* cpu_stats null: skipped
      CS("app", 4, 1000000, 0, Null, Null),           \* 0.0004 cores, 100 MB
      CS("app", 4000, 3000000, 0, Null, Null),        \* prediction 0 beside 0.4 cores
      CS("app", 2500, 2560000, 5000, 4000000, 0) }    \* prediction 0.5 cores, 400 MB

Entry(kind, name, hpa, cstats) ==
    [workload |-> <<kind, "team", name>>, hpa |-> hpa, container_stats |-> cstats]

MCSnapshots ==
    {<<>>}
      \cup { <<Entry(w[1], w[2], h, cs)>> :
               w \in {<<"Deployment", <<"web">>>>, <<"DaemonSet", <<"agent">>>>,
                      <<"StatefulSet", <<"db">>>>},
               h \in BOOLEAN,
               cs \in {<<>>} \cup {<<s>> : s \in AppStats}
                      \cup {<<s, CS("init", 1000, 2000000, Null, Null, Null)>> : s \in AppStats} }

=============================================================================
