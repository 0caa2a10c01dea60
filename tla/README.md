# Formal models of CruiseKube's admission policy and dashboards

This directory holds TLA+ models of two parts of CruiseKube:

- the admission policy under `src/jspolicy-webhook/src/policies/adjust-resources/`;
- the two node-statistics dashboards under `src/frontend/src/`.

It also holds the TLC configurations that check the models on small
instances, and TLAPS proofs of their main safety properties and of one
refinement, for all values of the constants. `PROJECT.json` lists:

- every component;
- every run, with its mutants;
- the source lines each definition translates;
- the findings;
- the hazards;
- the theorems.

## The system

CruiseKube's policy is a jsPolicy mutating webhook. It rewrites pod resources from observed usage. Its parts:

| Part | Source | What it does |
|---|---|---|
| Policy entry point | `index.ts` | Calls `adjustResources(request)`. Calls `mutate(podObject)` only when `changed` is true. |
| Screening | `resourceUtils.ts` 152-174 | Returns unchanged if the request has no object. Calls `exit()` (the pod is admitted as sent) for an excluded namespace or pod-name prefix. |
| Workload resolver | `getWorkloadInfoFromPod`, 40-65 | Scans the owner references. A Deployment, StatefulSet or DaemonSet owner wins at once. A ReplicaSet owner is turned into a Deployment by removing its last dash-separated segment (the last such owner wins). |
| Statistics client | `fetchStats`, `findWorkloadStat`, 15-85 | Makes a synchronous GET of the statistics service. On any failure it calls `exit()`. Otherwise it looks for the entry whose `workload` equals `kind/namespace/name`. |
| Decision engine | `adjustResources`, 184-312 | Runs, in order: (1) the HPA gate; (2) removal of topology spread constraints and pod anti-affinity; (3) a loop over containers and init containers that rewrites the CPU request and limit and the memory request and limit from the statistics. DaemonSets get a limit-only variant. |
| Quantity codec | 87-150 | `parseCPUToMillicores`, `parseMemoryToBytes`, `memoryBytesToMB`. |
| Recharts dashboard | `src/frontend/src/App.tsx` | Polls a node-statistics URL: on mount, on every URL edit, on an interval, and on Refresh Now. Draws one stacked bar per node. |
| Chart.js dashboard | `src/frontend/src/AppChartjs.tsx` | Fetches the same data once on mount and draws it with one dataset per pod name. |

The dashboards do not interact with the policy. They only read what the statistics service serves.

One policy run handles one admission request, synchronously. The state that matters is:

- the request;
- the pod object as it is mutated in place;
- the resolved workload;
- the statistics entry;
- the `changed` flag;
- the loop index.

The policy has no state that lasts from one request to the next. There is nothing to crash or recover.

The Kubernetes API server sits around the policy:

- before it, defaulting: a limit without a request gets the limit as its request;
- after it, validation: every limit must be at least its request.

The model uses defaulting to pick the inputs it sends. It uses validation as the correctness criterion: `ContainerValid` and `PodValid`. Quantities are judged by their real Kubernetes value (`KubeFactor`, `KubeBytes`, `KubeMillicores`), not by the policy's own parse.

## Modules

- **`Quantity.tla`**: the codec.
  - A quantity is an integer with a suffix. That is the canonical form in which the API server sends it.
  - `ParseCPUToMillicores`, `ParseMemoryToBytes` and `MemoryUnitFactor` follow the code's switch, including its default case. So the canonical lowercase `k`, and `Pi` and `Ei`, are read as bytes.
  - `MemoryBytesToMB` is `Math.round(b / 1e6) + "M"`. `Round(a, b)` is `Math.round(a / b)` for non-negative values.
  - `KubeFactor` and its relatives give the value Kubernetes means. The properties use them. The policy does not.
- **`AdjustResources.tla`**: the handler.
  - **Constants:**
    - the excluded namespaces and prefixes;
    - the set of `Requests`;
    - the set of statistics `Snapshots` the service may return;
    - `StatScale`, the fixed-point scale of the statistics. The service sends floating-point cores and MB. The model uses integers in units of 1/StatScale, and `ASSUME StatScaleAssumption` requires 1e6 to be divisible by StatScale so that MB-to-byte conversion is exact.
  - **Variables:**
    - `pc` is the handler's next step;
    - `req`, `pod`, `workload`, `wstat`, `changed` and `k` are the locals of `adjustResources`;
    - `outcome` and `admitted` record what the API server continues with.
  - **Actions**, one per step of the code:
    - `Receive` is index.ts being invoked;
    - `Screen` covers lines 153-174;
    - `Resolve` covers 176-180;
    - `FetchStats` covers 184 with 15-85, and ends either in `Exit` or with a snapshot;
    - `CheckHpa` covers 186-189;
    - `StripScheduling` covers 195-212;
    - `AdjustContainer` is one iteration of the loop, 214-310;
    - `FinishContainers` covers 312;
    - `Respond` is index.ts 5-10.
  - **Per-container work** is a pure operator: `AdjustedContainer` over `CpuDecision` and `MemoryDecision`. The pod is written back with `SetContainer`, because the loop's elements alias the pod's containers.
  - **Faithful quirks.** The model keeps these behaviours of the code:
    - the always-true CPU deadband test (`>= 0`);
    - JavaScript truthiness for predictions (`Truthy`: a prediction of 0 counts as absent);
    - `exit()` as "admit the original request";
    - the identifier built from `pod.metadata.namespace`, which may be absent (`Null`). When it is absent, it matches no entry.
  - **Abstractions.** A pod name and an excluded prefix are lists of dash-separated segments, and `StartsWith` compares whole segments where `startsWith` compares characters. The repository configures no prefix, and only the `exit()` path depends on it. The empty `resources`, `requests` and `limits` maps the loop creates are not modelled; they have no meaning to Kubernetes. A statistics field whose value is null and one whose `max` is null are one `Null`, as the schema of spec §6 allows only `{max: number}|null`.
- **`MC_AdjustResources.tla`** with `MC_AdjustResources.cfg`: the instance TLC checks.
  - Five resource blocks cover: millicores and whole cores; `Mi`, `Gi`, `M` and `k` memory; limits present and absent; and an empty block.
  - Owners: a ReplicaSet with a hash, a DaemonSet, a StatefulSet, a Job, no owner, and a ReplicaSet followed by a StatefulSet (to exercise "the first direct kind wins").
  - Two namespaces, one of them absent.
  - Pods with and without topology constraints and anti-affinity.
  - A screened-out pod, and a request with no object.
  - Five container statistics. Between them they reach every branch: the spec §8 example; `cpu_stats` null; a recommendation below the 1-millicore floor with a zero prediction; a zero prediction beside a 0.4-core maximum, where the code and spec §4.4.3 disagree; and predictions that override the maxima.
  - Each snapshot is empty or holds one entry, per workload kind, with and without the HPA flag.
- **`AdjustResources_proofs.tla`**: the TLAPS proofs of the handler's types and of the autoscaling gate.
- **`ContainerLoop_proofs.tla`**: the TLAPS proofs about the container loop. It extends `AdjustResources_proofs`.
- **`Dashboard.tla`**: the polling of `App.tsx`.
  - `fetchData` is an async closure. It reads `isInitialLoad` from the render that created it. So a fetch is identified by what its closure captured: the URL and that flag (`Fetch`). Fetches in flight are counted per kind in `inflight`, bounded by `MaxInFlight`.
  - `timer` is the closure held by the installed interval.
  - The actions:
    - `StartFetch` is the synchronous part of `fetchData` (lines 69-76);
    - `Tick` is the interval firing;
    - `RefreshNow` is the button;
    - `ChangeUrl` is an edit of the Data URL input together with the two effects it triggers: a fetch, and a new interval;
    - `ChangeInterval` is an edit of the interval input, which re-installs the interval with the current closure;
    - `Complete(f, ok)` is the answer to one fetch of kind `f` arriving, with success or failure, followed by the `finally` block run with the closure's flag.
  - An input event and the effects React flushes after it form one step.
  - Answers complete in any order.
- **`PollingAbstract.tla`**: what the polling promises, with no closures or indicators. Requests go out only for the URL in the input. Each request settles at most once. The data on screen is the answer of a request that settled. `Dashboard` implements it under the mapping `Pending`, which adds up, per URL, the fetches in flight of both closure kinds.
- **`AdmissionAbstract.tla`**: what the policy promises the host runtime. Each request it is handed gets at most one answer: the specification is safety only, so it forbids a second answer but does not demand the first. The answer admits the pod as it came, or a reshaped copy of it (`Reshaped`): same name, namespace and owners, the same container and init-container names in the same order, no topology spread constraints, and the affinity rules of the original without podAntiAffinity. Resources are left open. `AdjustResources` implements it under the mapping `areq <- req`, `abusy <- (pc # "idle")`, `aadmitted <- admitted`. `Exit`, the `return [false, {}]` paths and `Respond` are each an `AAnswer`; `Receive` is `AReceive`; every inner step stutters.
- **`AdmissionRefinement_proofs.tla`**: the TLAPS proof that the policy implements `AdmissionAbstract`.
- **`ChartData.tla`**: how each page turns one node into a bar. Both pages add an idle block up to the allocatable CPU (`IdleCpu`, `WithIdle`).
  - Recharts stacks optimized pods by name and sums the other pods into a `normal` block (`StackPod`, `PodStacks`, `RechartsBarTotal`).
  - Chart.js draws one dataset per pod name. On each node it takes the first pod with that name (`DatasetValue`, `ChartjsBarTotal`).
  - The folds come from the community modules. This module is used only by TLC.
- **`ChartjsPage.tla`**: the Chart.js page's single fetch on mount (`Answer`, `Fail`), and which nodes are on screen.
- **`Dashboard_proofs.tla`**: the TLAPS proofs about the polling.
- **`MC_Dashboard.tla`** and **`MC_ChartjsPage.tla`**: the instances TLC checks, with their `.cfg` files.
  - `MC_Dashboard` uses two URLs.
  - `MC_ChartjsPage` has one node and enumerates its pod lists.
  - One `.cfg` per violated property reuses the same instance.

## Runs

| Run | Expect | What it shows |
|---|---|---|
| `mutator` | pass | About 31,000 distinct states. Every action and every branch fires. The checked properties are listed below. |
| `admitted_pod_valid` | violation | `AdmittedPodValid` fails: the DaemonSet memory branch can leave a limit below the request. |
| `unknown_changed_flag` | violation | `UnknownWorkloadChangedIffLimitRemoved` fails: for an unknown workload, `changed` is raised even when no CPU limit was removed. |
| `zero_prediction` | violation | `PredictionUsedWhenPresent` fails: a CPU prediction of 0 is discarded, and the request follows the observed maximum. |
| `dashboard` | pass | 2,399 distinct states; every action fires. The properties are listed below. |
| `stale_data` | violation | `StaleDataNeverShown` fails: the previous URL's answer is shown as the new URL's chart. |
| `refresh_keeps_chart` | violation | `RefreshKeepsChart` fails: periodic refreshes bring back the Loading... screen. |
| `chart_bars` | pass | 420 distinct states. The property is `BarsShowRequestedCpuWhenNamesDistinct`: for every answer of the instance whose node has pods with distinct names, both pages draw a bar as tall as the larger of the node's summed requests and its allocatable CPU. `ExpectedBar` states this without the page's fold or its idle block, so an idle block drawn negative, or missing on an under-used node, would be caught. |
| `bars_name_collision` | violation | `BarsShowRequestedCpu` fails: two pods with the same name in different namespaces make a bar lose one pod's CPU. |

The properties checked by `mutator`:

- **`AdmittedPodValidOutsideDaemonSets`**: outside DaemonSets, a pod the API server would accept is still accepted after the rewrite. The request and the limit are rounded to MB separately, and the 16 MB floor applies, and the limit still never falls below the request.
- **`DaemonSetRequestsKept`**: a DaemonSet's requests are never written.
- **`HpaWorkloadUntouched`**: an autoscaled workload is admitted exactly as it came in. Its scheduling constraints are included.
- **`UnknownWorkloadOnlyLosesCpuLimits`**: a workload the statistics do not know loses its CPU limits and nothing else.
- **`ResponseAdjustsEachContainerOnce`**, an action property (`[][...]_vars`). It covers every `Respond` step for a request that reached the loop. The admitted pod's containers, init containers included, are the request's containers, each in its place and passed exactly once through `AdjustedContainer`. The number of containers is the request's, so no container moves between the two lists.
  - The loop mutates the elements of the spread copy `[...containers, ...initContainers]` (resourceUtils.ts:193). It relies on them aliasing the pod's own containers. The model writes each result back with `SetContainer`.
  - A response reported unmodified admits the request's own pod. So it must also be a pod no pass would change.
- **`ImplementsAdmission`**: `AdjustResources` implements `AdmissionAbstract` (a `PROPERTY` through `INSTANCE ... WITH`).
- **`TypeOK`**.

The violated property `PredictionUsedWhenPresent` states spec §4.4.3: a CPU prediction that is present and non-null is the recommendation (`SpecRecommendedCPU`), and a mutated non-DaemonSet container's request is computed from it.

The properties checked by `dashboard`:

- **`SpinnerBackedByFetch`**: Loading... is shown only while a fetch from an initial-load closure is in flight. Refreshing... is shown only while a refresh fetch is in flight.
- **`ImplementsPolling`**: `Dashboard` implements `PollingAbstract` (a `PROPERTY` through `INSTANCE ... WITH`).
- **`LoadingEventuallyClears`**: `loading ~> ~loading`.
- **`DisplayConvergesToUrl`**: once the URL stops changing, the chart eventually never again shows another URL's data.

The dashboard's `TypeOK` is not checked by the run: JavaScript cannot produce the kinds of bug it would catch. It is proved (`DashboardTypeCorrect`) as part of the spinner proof.

Each property has a mutant in `PROJECT.json`: a plausible bug in the mapped code that TLC then catches. The mutants are:

- the memory formatter emitting the wrong suffix;
- the CPU decision ignoring the DaemonSet case;
- the memory decision writing only the request;
- the unknown-workload branch dropping every limit;
- the HPA gate removed;
- the DaemonSet memory branch raising the limit without setting `changed`, so the pod is admitted unmodified;
- `setRefreshing(false)` moved inside the initial-load branch;
- `setLoading(false)` moved into the `try` block;
- the interval effect missing `dataUrl` from its dependency list (used for two properties);
- the podAntiAffinity branch deleting the whole affinity block, `nodeAffinity` and `podAffinity` included;
- an optimized pod counted in both its own stack and the normal sum.

## Findings

1. **The DaemonSet memory limit can fall below the request** (`resourceUtils.ts:291`). The limit is computed as `max(current limit, recommended limit, 16MB)` and rounded to whole MB. It is never compared with the request, which is kept. TLC's trace:
   - A DaemonSet container with a 1Gi request and no limit gets an `800M` limit.
   - A container with a 256Mi request and limit gets `268M`, which is less than 256Mi.

   The API server then rejects a pod it would have admitted unmodified. This contradicts the fail-open intent of spec §7.
2. **`changed` for an unknown workload** (`resourceUtils.ts:227`). The code raises `changed` for every container. Spec §8 says it is true iff some container had a limit to remove. The consequence: `mutate` is called with an unchanged pod.

3. **An answer for the previous URL can be shown as the current URL's chart** (`App.tsx:79`). `setNodes(data)` applies whichever answer arrives, without checking that it belongs to the current `dataUrl`. TLC's trace:
   - the user edits the URL;
   - the new URL's fetch fails or answers first;
   - the default URL's answer then arrives.

   With no fetch pending and no error, the page shows the old URL's nodes under the new URL until the next tick. `DisplayConvergesToUrl` still holds: the interval follows the new URL, so the display does recover.
4. **The mount interval brings back the Loading... screen** (`App.tsx:102`). The interval callback calls the `fetchData` of the render that installed it, and in that closure `isInitialLoad` is always true. So after the first load, every periodic refresh sets `loading` and hides the chart, instead of showing Refreshing.... This lasts until the URL or the interval is edited.
5. **A CPU prediction of 0 is discarded** (`resourceUtils.ts:245`). `simple_predictions_cpu.max_value` is used only when it is truthy. Spec §4.4.3 uses it whenever it is present and non-null. TLC's trace: a StatefulSet container with a 1-core request, a prediction of 0 and a 0.4-core maximum is admitted with `400m`, where the spec gives `1m`.
6. **A bar loses CPU when two pods of one node share a name** (`App.tsx:153`, `AppChartjs.tsx:153`). Two StatefulSets named alike in different namespaces are enough:
   - Recharts keys `podStacks` by name, so the second optimized pod overwrites the first;
   - Chart.js takes the first pod with each name on a node, whether optimized or not.

## Bounds

The instance is chosen for its branches, not its size:

- one container, plus zero or one init container, per pod;
- one entry per snapshot.

These are enough for the properties above. The properties are per container, or per pod under a single statistics entry. The loop's containers are independent of one another except for the `changed` flag, which the init container exercises.

For the dashboards:

- two URLs;
- at most two fetches of one kind in flight;
- at most two URL edits.

These bounds are enough for each case the properties are about. An old URL's answer can overtake the new URL's. The mount closure can tick after the first load. Two refreshes can overlap, so one can clear `refreshing` while the other is still running.

The bars are checked on one node with:

- up to two pods;
- two names;
- two namespaces;
- CPU values 1 and 2;
- allocatable CPU 1 or 3.

This covers a node below, at and above its allocatable CPU, and names that collide. Pods are unique by namespace and name, as Kubernetes requires.

Each request is handled in one synchronous policy run. So there are no interleavings to bound, and the state space is the product of the inputs.

## Fairness

For the policy, no fairness is assumed, and none is needed: its properties are all safety properties. The host invokes the policy once per request, and the code has no loop that can fail to terminate. The container loop is bounded by the pod's length.

Deadlock checking stays on. After `Respond`, the handler waits in `idle` for the next request, so it never stops.

`Dashboard` assumes two kinds of weak fairness:

- on the completion of each fetch kind, because the browser settles every fetch with an answer or a network error;
- on `Tick`, because `setInterval` keeps firing while the page is open.

User edits and clicks are not fair. The liveness properties rest on the first kind. The code has no timeout, so a fetch that never settles falls outside them; this is listed as a hazard.

The Chart.js page stops after its one answer. So its run has `CHECK_DEADLOCK FALSE`.

## What is proved

`AdjustResources_proofs.tla` proves two theorems for every value of the constants allowed by `StatScaleAssumption` and `InputsAssumption`. `InputsAssumption` says:

- requests and snapshots have the declared record shapes;
- `Null` and `NoQty` are distinct from data.

The theorems:

- **`TypeCorrect`: `Spec => []TypeOK`.** `TypeOK` alone is not inductive, for two reasons: `Exit` and `Respond` read `req.object`, and the container loop reads `pod`. The strengthening `TypeInv` adds three facts:
  - there is a request whenever the handler is not idle;
  - the pod is the request's object until it has been screened;
  - there is a pod from screening to the end of the loop.

  The proof has one step per action. It rests on lemmas about the operators:
  - `FirstOf` and `LastOf` pick members, via `WellFoundedInduction`;
  - `StripHashSuffix` keeps a sequence of strings;
  - the resolver and the stats lookup return values of the declared types;
  - the decisions and `AdjustedContainer` return containers;
  - `SetContainer` over the concatenation of containers and init containers returns a pod.
- **`HpaSafe`: `Spec => []HpaWorkloadUntouched`.** The inductive invariant `HpaInv` adds these facts to `TypeInv`:
  - nothing is changed before the gate;
  - no statistics entry is held before the fetch;
  - an autoscaled workload never reaches the strip or container steps;
  - at `respond` its `changed` flag is still false, so `Respond` admits the request's own object.

Both strengthenings were first checked by TLC as invariants of the `mutator` instance.

`ContainerLoop_proofs.tla` proves four more theorems about the container loop, under the same assumptions. These are every invariant and action property of the `mutator` run. Each rests on `ShapeInv`, which adds these facts to `TypeInv`:

- no workload is resolved before the `resolve` step;
- a resolved workload comes with a pod object;
- the working pod is the request's object until the scheduling constraints are stripped.

The lemma `SetContainerAccess` says what one write-back does to the concatenated list: writing container `i` changes element `i` and no other, whichever of the two lists it lives in. The lemma `StripKeepsContainers` says that stripping scheduling constraints leaves the containers alone. Each inductive invariant below was checked by TLC on the `mutator` instance before it was proved.

- **`DaemonSetRequestsSafe`: `Spec => []DaemonSetRequestsKept`.** The invariant `DsInv` says that during the loop, at the response, and once admitted, a DaemonSet's pod has the requests the request came in with. The lemma `DaemonSetPassKeepsRequests` says the same of one pass of `AdjustedContainer`.
- **`UnknownWorkloadSafe`: `Spec => []UnknownWorkloadOnlyLosesCpuLimits`.** The invariant `UInv` is a loop invariant over `k`.
  - The containers before `k` have lost their CPU limit, and the others are as they came (`LimitsDropped`).
  - `changed` is set once one container has been passed.
  - The response comes only at `k = Len + 1`.
  - So when `changed` is still false at the response, the pod has no containers, and admitting the request's own object is right.
- **`AdmittedValidSafe`: `Spec => []AdmittedPodValidOutsideDaemonSets`**, for every quantity and every `StatScale` dividing 10^6.
  - The invariant `VInv` says three things. A workload is held from the fetch through the loop. `changed` is never set without a workload. And in a non-DaemonSet pod, each container that came in valid is still valid (`KeepsValid`), whether or not the loop has reached it.
  - The arithmetic is in two lemmas. `RoundMonotone` says that `Math.round(x / 1e6)` is monotone. `MemoryRewriteValid` says that the recommended limit is at least twice the recommended request. So the limit written after rounding to whole MB is never below the request written, the 16 MB floor included.
  - `AdjustKeepsValid` combines them per container. The CPU decision either keeps the CPU fields or deletes the limit. The memory decision either keeps the memory fields or writes that rounded pair.
- **`ResponseAdjustsSafe`: `Spec => ResponseAdjustsEachContainerOnce`.**
  - The invariant `LoopInv` says that past the HPA gate, the containers before `k` have had their pass and the rest are as they came (`AdjustedBefore`). It also says `changed` is still false only if no pass so far reported a change.
  - The lemma `NoChangeNoWrite` says that a pass reporting no change writes nothing. This covers the unmodified response.
  - The last step derives the action property from `LoopInv` and the `Respond` step by PTL.

`Dashboard_proofs.tla` proves three theorems for every value of the constants allowed by `DashboardAssumption`:

- **`SpinnerSafe`: `Spec => []SpinnerBackedByFetch`**, and **`DashboardTypeCorrect`: `Spec => []TypeOK`**.
  - The inductive invariant is `IInv == TypeOK /\ SpinnerBackedByFetch`. The spinner property needs the types of the counters.
  - The lemma `StartFetchCounts` says that starting a fetch only raises counts.
  - For `Complete`, when `loading` survives, the fetch that completed was a refresh. So the initial-load fetch that backs `loading` is another one, and its count is unchanged.
- **`Refinement`: `Spec => ImplementsPolling`**.
  - The invariant `RInv` adds to `IInv` that the interval's closure holds the current URL (`timer.url = dataUrl`). This is what makes a tick an abstract `Request`.
  - The lemma `StartFetchPending` says that starting a fetch adds one to `Pending` at its URL.
  - A completion subtracts one at its URL, which is an abstract `Settle`.
  - An interval edit is a stutter.

`AdmissionRefinement_proofs.tla` proves, for every set of requests allowed by `InputsAssumption`:

- **`AdmissionRefinement`: `Spec => ImplementsAdmission`.**
  - The invariant `AdmInv` strengthens `ShapeInv`. Before the strip step `changed` is still false. From `resolve` through the loop, and at a response with `changed`, the request's object is a pod. And from the loop on, the working pod is `Reshaped` from the request's object. This last conjunct is what makes a mutated response an abstract `AAnswer`; `ShapeInv` alone says nothing of the pod after the strip. It was checked by TLC on the `mutator` instance before it was proved.
  - The lemma `StripReshapes` says the strip step reshapes a pod: it removes the topology constraints, and deleting podAntiAffinity (and the block, when nothing else is left) leaves exactly the other rules.
  - `SetContainerReshapes` says one write-back keeps a pod reshaped, given a container with the same name (`AdjustedKeepsName`, `NamesExcept`).
  - `NextRefines` maps each step: `Receive` to `AReceive`, `Exit` and `Respond` to `AAnswer`, the rest to stutters. A mutated answer is non-null because `Null` is not a pod.

## What is only model-checked

Every property of the `mutator` run is proved. The violated properties of the policy (`AdmittedPodValid`, `UnknownWorkloadChangedIffLimitRemoved`) are shown by TLC's counterexamples, which is all a violation needs.

For the dashboards, TLC alone checks these, because they are liveness properties, and each run's violation:

- `LoadingEventuallyClears`;
- `DisplayConvergesToUrl`;
- the bar properties (`BarsShowRequestedCpuWhenNamesDistinct`). These compute through `FoldLeft`, `SelectInSeq` and `MapThenSumSet` over a node's pods. A proof would need induction over the pod list. Also, `ChartData` reaches RECURSIVE operators through `SequencesExt` and `FiniteSetsExt`.

Three kinds of claim stay with TLC, because TLAPS cannot reach them:

- liveness and ENABLED;
- what a recursive definition computes for every input;
- modules that declare RECURSIVE operators.

## Not modelled

- **The HTTP and JSON layer of `fetchStats`, and the URL.** A fetch is abstracted to "fails" or "returns one of the snapshots".
- **Thrown TypeErrors** (a missing `cpu_stats` key; `podName` undefined with prefixes configured). These are listed as hazards.
- **The webhook timeout and failurePolicy.**
- **`cpuCoresToMillicores` and all printing.** Their output only reaches the logs.
- **Dashboard rendering.** This covers tooltips, axis ticks, colours, the node-name cleanup, and the sort of node names and of Chart.js datasets. None of it changes a bar's height or which data is shown.
  - Chart.js reads `pod.continuousOptimization`, while the API sends `continuous_optimization`. That affects only colour and dataset order.
- **The `intervalId` state.** The effect's cleanup already clears the old interval, so `intervalId` never decides anything. Timing is not modelled either, so a zero refresh interval is a hazard with no property.

## Plan

1. **The Refreshing... label.** Overlapping refreshes can clear it early. A property would relate it to the refresh fetches still in flight.
2. **A codec module.** It would check `ParseMemoryToBytes` and `ParseCPUToMillicores` against the Kubernetes value for every canonical suffix, over bounded integers. It would also check the round trip of `memoryBytesToMB`.
3. **Reinvocation idempotence.** Running the policy on its own output should not change the pod again. Kubernetes may reinvoke mutating webhooks.
4. **Workload identity.** A property stating which workload a pod belongs to, exposing the ReplicaSet-suffix heuristic.
5. **Resources in the abstract specification.** `AdmissionAbstract` leaves each container's resources open. `ResponseAdjustsEachContainerOnce` states them for the handler; lifting it into the abstract spec would need the decision functions there too.
