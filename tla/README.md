# TLA+ models of the metal3 pod and Deployment (cluster-baremetal-operator)

This directory models `src/provisioning/baremetal_pod.go`. That file does two jobs:

1. **Rendering.** It renders the metal3 pod from the `Provisioning` resource and the cluster proxy: volumes, environment variables, init containers, containers, and proxy and trusted-CA injection.
2. **Reconciling.** It keeps the `metal3` Deployment in the API server in line with that rendering (`EnsureMetal3Deployment`). It also reports the Deployment's state (`GetDeploymentState`) and deletes it (`DeleteMetal3Deployment`).

`src/unnamed/part_000` is generated apply-configuration code for `VSpherePlatformTopology`. It is a builder with plain field setters, so it has no state and no control worth modelling, and it is listed as `not_modelled`.

## Parts and how they interact

| Part | Code | Module |
|---|---|---|
| Volume catalogue and mounts | `metal3Volumes`, `*Mount` (72-206) | `Metal3Pod`, `Metal3PodContainerProofs` |
| Environment composers | `buildEnvVar`, `setIronic*`, `getWatchNamespace`, `envWithMasterMacAddresses`, `envWithProxy` | `Metal3Pod`, `Metal3PodContainerProofs` |
| Init containers | `newMetal3InitContainers` and the `createInitContainer*` builders (261-428) | `Metal3Pod`, `Metal3PodProofs`, `Metal3PodContainerProofs`, `Metal3PodNameProofs` |
| Containers | `newMetal3Containers` and the `createContainer*` builders (430-864) | `Metal3Pod`, `Metal3PodProofs`, `Metal3PodContainerProofs`, `Metal3PodNameProofs` |
| Proxy / CA injection | `injectProxyAndCA`, `mountsWithTrustedCA` (915-962) | `Metal3Pod`, `Metal3PodContainerProofs` |
| Pod template | `newMetal3PodTemplateSpec` (866-913) | `Metal3Pod`, `Metal3PodProofs`, `Metal3PodContainerProofs`, `Metal3PodNameProofs` |
| Deployment reconciler | `newMetal3Deployment`, `EnsureMetal3Deployment`, `getMetal3DeploymentSelector`, `GetDeploymentState`, `getDeploymentCondition`, `DeleteMetal3Deployment` (964-1071) | `Metal3Deployment`, `MCMetal3Deployment`, `Metal3DeploymentIntent`, `Metal3DeploymentProofs`, `Metal3DeploymentRefinementProofs`, `Metal3DeploymentNoOpProofs` |

The renderer is a pure function of its input. The reconciler applies what the renderer returns. In `Metal3Deployment` the renderer's output is abstracted to a model value of `Templates`, called `desired`, which changes when the `Provisioning` resource is edited.

## Metal3Pod: the renderer

**State and actions.**
- The state is the input: `config` holds the fields of the Provisioning spec that the code reads, with each string field abstracted to whether it is set. `proxy` holds the cluster proxy, which is nil or the set of its non-empty fields.
- `EditProvisioning` flips one field and `EditProxy` changes the proxy. Init enumerates every input, so the run covers all 2^7·3 specs × 9 proxies (3456 states).

**Containers.** A container is abstracted to three things:
- its name;
- its mounts, as volume names in order;
- its environment, as variable names in order, each with the kind of value it gets (literal, field reference, host IP, secret, or unset).

Each builder is one operator with the code's name. The gates of `newMetal3InitContainers` are `StaticIpWanted`, `HasLiveURLs`, `LiveImageInitContainers` and `isCoreOSIPAAvailable`. They keep the code's conditions and their order. `newMetal3Containers` writes the static-IP gate again (line 445); the model keeps that copy as its own operator, `StaticIpManagerWanted`, so a change to one copy is not silently applied to the other.

**Spec-modelled definitions.** These come from helpers that are not under `src/`, so they are marked `spec_modelled`:
- `getMetal3DeploymentConfig`, which decides when a variable has a value (`HasConfigValue`);
- `imageVolumeMount`;
- the URL helpers `getPreProvisioningOSDownloadURLs` (as `HasLiveURLs`: an ISO or agent-image URL is set) and `isCoreOSIPAAvailable`. The spec only says the latter is a boolean derived from the config, so the model gives it an input field of its own, `ipaAvailable`, independent of the URL fields. This over-approximates the code: every property is checked for every combination.

With `ipaAvailable` independent, an input with IPA available, no live URL and no `ProvisioningOSDownloadURL` renders no downloader at all. The spec leaves that case open, so no property claims anything about it.

**No type invariant.** The module has no `TypeOK`. Its only variables are the input, which `Init` and the actions keep inside `ProvisioningSpec × Proxies` by construction. Its properties are about the rendered pod.

Run `pod` (MCMetal3Pod.cfg) checks these properties for every input:
- `MountsDeclared`: every mount of every container names a declared volume.
- `EnvNamesUnique`: no container has two variables with the same name, even after the MAC and proxy variables have been appended.
- `ProxyAndCAUniform`: every container ends with exactly the proxy variables and mounts the trusted CA once, last. This shows the injection reached each container exactly once.
- `NetworkContainersPaired`: `metal3-static-ip-set` is an init container exactly when `metal3-static-ip-manager` is a container, and the manager only runs where dnsmasq runs. The two functions each evaluate their own copy of the gate (`StaticIpWanted` at line 267, `StaticIpManagerWanted` at line 445), so this is a check that the copies agree, and that the second implies dnsmasq's gate (line 449).
- `ConfigureAfterDownload`: the CoreOS configurator runs after a machine-OS downloader.

Run `pod_names` is expected to fail. It shows that `UniqueContainerNames` is violated: when live-image URLs and `ProvisioningOSDownloadURL` are both set, lines 275 and 285 append two init containers named `metal3-machine-os-downloader`, and Kubernetes rejects such a pod.

## Metal3Deployment: the reconciler

**The pc variable.** `EnsureMetal3Deployment` makes up to three blocking API calls. Each call is an action, and `pc` records which call comes next, so users, the Deployment controller, the clock and restarts can step in between:
- `EnsureApply` covers lines 1007-1023 and 1039-1043. Its outcomes are `ApplyCreated`, `ApplyUnchanged`, `ApplyUpdated`, `ApplyRefused` (the API server refuses to change the immutable selector) and `ApplyFailed`.
- `EnsureGetSelector` covers lines 1024-1030.
- `EnsureDelete` covers lines 1031-1043.

**Other actions.**
- `GetDeploymentState` models lines 1056-1067, including the `<=` timeout test.
- `DeleteMetal3Deployment` models lines 1069-1071.
- `Restart` models a process restart: in-memory `deploymentRolloutStartTime` (line 69) is re-initialised, and a reconcile that was in flight is abandoned.
- The environment actions are `Tick`, `EditProvisioning`, `EditDeployment` (an in-place edit raises the generation), `UserDeletesDeployment` and `SetDeploymentCondition`. `SetDeploymentCondition` follows the controller: it removes a condition and appends it, so conditions are reordered.

**Bounds.** In `MCMetal3Deployment.cfg` the bounds are:
- 2 templates, and 2 selectors (one legacy, one current);
- `RolloutTimeout = 1`, `MaxTime = 1`;
- `MaxEdits = 3`, `MaxFaults = 2`, `MaxInitGeneration = 2`.

These bounds are enough for the following to happen: an edit during a reconcile, a deletion between the selector fetch and the delete, a failed call on every branch, a restart, and a timeout.

**Fairness.** The three reconcile steps have weak fairness. The operator watches the Deployment and the Provisioning resource, so every change triggers a reconcile. The comment at line 1033 relies on exactly this. No fairness is assumed for users, the controller or faults.

**Runs.**
- `reconcile` is expected to pass. It checks:
  - `TypeOK`;
  - `NoSpuriousDelete`: the delete call is only reached while the Deployment is absent or has an outdated selector;
  - `NoOpOnlyWhenCurrent`, an action property: a no-op apply only happens on a current Deployment, so the generation check catches in-place edits;
  - `Converges`: once edits and faults stop, the current Deployment is in place for good.
- `apply_error` is expected to fail. `ApplyErrorSurfaced` is violated: after the outdated Deployment is deleted, the code returns `updated, nil` at line 1043. Spec §4.5 step 4 says the apply error is returned.
- `status_order` is expected to fail. `AvailableNotReportedFailed` is violated: `getDeploymentCondition` takes the first true condition. When the controller has left Progressing before Available and the timeout has passed, an Available Deployment is reported as ReplicaFailure.

- `intent` is expected to pass. It checks `IntentSpec`, the abstract specification below, liveness included.

## Metal3DeploymentIntent: what the reconciler promises

`Metal3DeploymentIntent` sees the Deployment as its selector and pod template only, or `NoDeployment`. It has three actions:
- `Sync`: the reconciler writes the rendered Deployment (`Target`) where no Deployment is, or over one that already has the current selector;
- `Prune`: the reconciler removes a Deployment whose selector is outdated;
- `Interfere`: anyone else deletes the Deployment, edits its template in place, or changes what renders, but never changes its selector. Each interference is counted in `others`.

`Spec` adds weak fairness on `Sync` and `Prune`, so once interference stops the rendered Deployment is eventually in place.

**Refinement mapping.** `Metal3Deployment` instantiates it as `Intent` with `obj <- depObject` and `others <- edits`. `depObject` is `dep` without its generation, annotation and conditions. How the steps map:
- `ApplyCreated` and `ApplyUpdated` map to `Sync`;
- an `EnsureDelete` that removes the Deployment maps to `Prune`;
- `DeleteMetal3Deployment`, the user's delete, `EditDeployment` and `EditProvisioning` map to `Interfere`, since each of them raises `edits`;
- every other step (`EnsureGetSelector`, the unchanged, refused and failed applies, `GetDeploymentState`, the condition updates, `Tick`, `Restart`) is a stutter of the abstract state.

Run `intent` checks the whole `Intent!Spec` with TLC, fairness included. Its mutant inverts the selector test of `EnsureGetSelector`, so the reconciler deletes a current Deployment; that step is no `Prune`, and TLC finds it.

Each property of a passing run has a mutant: a plausible bug in the mapped code that TLC catches (listed in PROJECT.json).

## What is proved

The following is proved with TLAPS for all values of the constants. The reconciler proofs (`Metal3DeploymentProofs`, `Metal3DeploymentRefinementProofs`, `Metal3DeploymentNoOpProofs`) assume only `ConstantsAssumption`; the pod proofs assume nothing.

- **`TypeCorrect` (`Spec => []TypeOK`).** It rests on these lemmas:
  - remove-then-append keeps one condition per type (`RemoveAtProperties`, `RemoveAtUnique`, `AppendFreshCondition`, `SetConditionKeepsConditions`);
  - `getDeploymentCondition` returns a condition type. `LeastNatural` shows its least true index exists, by well-foundedness of `<` on Nat;
  - there is one lemma per apply outcome (`ApplyTypeOK`).
- **`NoSpuriousDeleteHolds` (`Spec => []NoSpuriousDelete`).** `NoSpuriousDelete` is not inductive alone, because its proof needs the type of `dep`. The inductive invariant is `IInv == TypeOK /\ NoSpuriousDelete`. The proof does a case split per action. The key steps are:
  - `EnsureGetSelector` moves to `"Delete"` only on an outdated selector;
  - no environment action gives the Deployment the current selector: edits keep the selector, and deletions remove the Deployment;
  - `Restart` resets `pc`.

- **`RefinesIntentSafety` (`Spec => Intent!SafetySpec`, in `Metal3DeploymentRefinementProofs`).** The reconciler with its environment implements the safety part of the abstract specification. The proof has two lemmas:
  - `InitRefines`: every initial state maps to an initial state;
  - `NextRefines`: under `IInv`, every step maps to a `Sync`, `Prune` or `Interfere`, or leaves `depObject`, `desired` and `edits` unchanged. The delete step is a `Prune` only because `NoSpuriousDelete` holds before it, which is why the lemma needs `IInv` and not just `TypeOK`.
  `DepObjectFacts` and `RenderedObject` relate `depObject` to `dep` and to the rendered Deployment.
- **`NetworkContainersPairedHolds` (`Spec => []NetworkContainersPaired`, in `Metal3PodProofs`).** This holds for every Provisioning spec and proxy, not only the enumerated ones. The invariant `InputOK` (the input is a spec and a proxy) is inductive as it stands. `InputPaired` derives the property from it with two lemmas and a step that compares the gates:
  - `StaticIpSetIncluded`: `metal3-static-ip-set` is among the init containers iff `StaticIpWanted`;
  - `ManagerAndDnsmasqIncluded`: the manager is among the containers iff `StaticIpManagerWanted`, and dnsmasq iff the network is not Disabled;
  - the two gates are equivalent for every spec, and `StaticIpManagerWanted` implies the network is not Disabled.
  They rest on lemmas about `Names`: it distributes over `\o` (`NamesConcat`), and `injectProxyAndCA` keeps it (`NamesInject`), because the injection only rewrites mounts and environment.

- **`NoOpOnlyWhenCurrentHolds` (`Spec => NoOpOnlyWhenCurrent`, in `Metal3DeploymentNoOpProofs`).** When `ApplyDeployment` writes nothing, the Deployment really has the rendered selector and template. The spec hash annotation alone would not show this, because a user's in-place edit keeps the annotation. The proof rests on `GenerationInv`:
  - the generation recorded in the status never exceeds the Deployment's;
  - a Deployment still at the recorded generation carries the selector and template its annotation was computed from.

  The operator's writes record the generation they produce. Edits raise the generation past the recorded one, and nothing else touches either. So `GInv == TypeOK /\ GenerationInv` is inductive (`InitGInv`, `NextGInv`, one case per action). `NoOpStep` shows that an apply returning `updated = false` without error is `ApplyUnchanged` at the recorded generation. The action property follows from `[]GInv` by PTL. TLC checked `GenerationInv` on the `MCMetal3Deployment` instance before the proof was written.
- **`ConfigureAfterDownloadHolds` (in `Metal3PodProofs`).** It follows from `InputOK`:
  - `CfgFollowsDl` (the configurator comes right after a downloader) survives concatenation (`CfgConcat`) and the injection (`CfgInject`), and `LiveImageInitContainers` establishes it.
- **`MountsDeclaredHolds`, `EnvNamesUniqueHolds` and `ProxyAndCAUniformHolds` (in `Metal3PodContainerProofs`).** These cover every container. `AllBuildersOK` shows that each of the 14 builders returns a container satisfying `BuilderOK`: its mounts are declared volumes other than the trusted CA, and its variables have distinct names, none of them a proxy variable. `InjectOneOK` shows what `injectProxyAndCA` does to such a container:
  - the trusted-CA mount is added once, last;
  - the proxy variables are appended as a suffix, disjoint from the rest (`DistinctConcat`, `SubSeqProperties`).

  `PodElements` ties every element of the pod back to a builder.
- **`UniqueNamesExactly` (in `Metal3PodNameProofs`).** For every input, the pod's container names are unique iff live-image URLs and `ProvisioningOSDownloadURL` are not both set. The run `pod_names` shows the violation on one input. The theorem shows the clash is the only one, and that every input with both set has it. The proof has these lemmas:
  - `InitDistinct`: the init list has distinct names iff the two downloader gates are not both open;
  - `ContainersDistinct`: the containers never clash, and their names lie in `ContainerNames`, disjoint from the init names;
  - `DistinctSplit` and `DistinctConcat`: a concatenation has distinct names iff its parts do and share none;
  - `DistinctInject`: the injection preserves distinctness.

**What stays with TLC.** The following are only model-checked:
- `Converges` and the liveness part of `IntentSpec`. They need fairness and ENABLED, which are beyond the prover.
- The properties of the violation runs other than `UniqueContainerNames`: `ApplyErrorSurfaced`, and `AvailableNotReportedFailed`. They are statements about what the code fails to do, shown by the counterexample TLC prints.

## Not modelled

- **Left out of the containers:** images, commands, ports, resource requests, labels, tolerations, host networking, and the controller reference (`SetControllerReference` failing at line 1014 is an early return with no state change).
- **Spec-modelled rather than translated:** the inner merge logic of `resourceapply.ApplyDeployment`, which is outside `src/`. It is modelled by its outcomes.
- **Not modelled at all:** `part_000`.

## Plan for later sittings

- A proof that `GetDeploymentState` reports `ReplicaFailure` only past the rollout timeout, from an invariant on `rolloutStart` and `now`.
- Spec gaps to examine: proxy idempotence, and the variable for the MAC addresses of the masters.
