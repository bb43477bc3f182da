------------------------------ MODULE Metal3Pod ------------------------------
(***************************************************************************)
(* The rendering of the metal3 pod (src/provisioning/baremetal_pod.go):    *)
(* the volume catalogue, the environment composers, the container and      *)
(* init-container builders, the proxy and trusted-CA injection, and the    *)
(* pod template.  They are pure functions of the Provisioning spec and the *)
(* cluster proxy; the only state is that input, which users edit one      *)
(* field at a time.                                                        *)
(*                                                                         *)
(* A container is abstracted to its name, its volume mounts (volume names, *)
(* in order) and its environment (variable names with the kind of value   *)
(* they get: a literal "value", a "field" or "hostIP" reference, a         *)
(* "secret" reference, or "unset").  Images, commands, ports and resource  *)
(* requests are left out: no property here is about them.                  *)
(***************************************************************************)
EXTENDS Integers, Sequences, SequencesExt

\* The fields of the Provisioning spec the rendering reads, with a field of
\* type string abstracted to whether it is set.  Of the live-image URLs,
\* isoURL is the ISO and agentURLs whether any of the kernel, initramfs and
\* rootfs URLs is set.  ipaAvailable is what isCoreOSIPAAvailable derives
\* from the spec: its body is outside src/ and the specification only calls
\* it "a boolean derived from config", so it is a field of its own and
\* every combination with the URLs is an input.
NetworkModes == {"Managed", "Unmanaged", "Disabled"}
ProvisioningSpec ==
    [network : NetworkModes, provisioningIP : BOOLEAN,
     isoURL : BOOLEAN, agentURLs : BOOLEAN, ipaAvailable : BOOLEAN,
     osDownloadURL : BOOLEAN,
     virtualMediaViaExternalNetwork : BOOLEAN, watchAllNamespaces : BOOLEAN]

\* The cluster proxy: nil, or the set of its non-empty status fields.
ProxyFields == {"HTTP_PROXY", "HTTPS_PROXY", "NO_PROXY"}
Proxies == {p \in [isNil : BOOLEAN, set : SUBSET ProxyFields] :
               p.isNil => p.set = {}}

VARIABLES config, proxy
vars == <<config, proxy>>

-----------------------------------------------------------------------------
(* Volumes and mounts.                                                     *)

\* Mutant: the trusted CA bundle volume is missing.
metal3VolumesNoTrustedCA ==
    <<"metal3-shared", "metal3-images", "metal3-ironic-basic-auth",
      "metal3-ironic-rpc-basic-auth", "metal3-inspector-basic-auth",
      "metal3-ironic-tls", "metal3-inspector-tls">>

\* metal3Volumes, by name; imageVolume() is defined outside this file.
metal3Volumes ==
    <<"metal3-shared", "metal3-images", "metal3-ironic-basic-auth",
      "metal3-ironic-rpc-basic-auth", "metal3-inspector-basic-auth",
      "trusted-ca", "metal3-ironic-tls", "metal3-inspector-tls">>

sharedVolumeMount == "metal3-shared"
imageVolumeMount == "metal3-images"
ironicCredentialsMount == "metal3-ironic-basic-auth"
rpcCredentialsMount == "metal3-ironic-rpc-basic-auth"
inspectorCredentialsMount == "metal3-inspector-basic-auth"
ironicTlsMount == "metal3-ironic-tls"
inspectorTlsMount == "metal3-inspector-tls"

-----------------------------------------------------------------------------
(* Environment composers.                                                  *)

Env(n, k) == [name |-> n, src |-> k]

\* getMetal3DeploymentConfig (outside this file) has a value for every
\* variable but the provisioning IP, which needs one configured, and the
\* DHCP range, which only a managed provisioning network has.
HasConfigValue(n, c) ==
    CASE n = "PROVISIONING_IP" -> c.provisioningIP
      [] n = "DHCP_RANGE"      -> c.network = "Managed"
      [] OTHER                 -> TRUE

buildEnvVar(n, c) ==
    Env(n, IF HasConfigValue(n, c) THEN "value"
           ELSE IF n = "PROVISIONING_IP" /\ c.network = "Disabled"
                THEN "hostIP"
                ELSE "unset")

setIronicHtpasswdHash(n) == Env(n, "secret")

setIronicExternalIp(n, c) ==
    Env(n, IF c.network # "Disabled" /\ c.virtualMediaViaExternalNetwork
           THEN "hostIP" ELSE "unset")

getWatchNamespace(c) ==
    Env("WATCH_NAMESPACE", IF c.watchAllNamespaces THEN "value" ELSE "field")

buildSSHKeyEnvVar == Env("IRONIC_RAMDISK_SSH_KEY", "value")
mariadbPassword == Env("MARIADB_PASSWORD", "secret")
pullSecret == Env("IRONIC_AGENT_PULL_SECRET", "secret")

envWithMasterMacAddresses(env) == Append(env, Env("PROVISIONING_MACS", "value"))

\* Mutant: the HTTPS proxy is exported under the HTTP_PROXY name.
ProxyEnvCopyPaste(p) ==
    IF p.isNil THEN <<>>
    ELSE LET Pick(f, n) == IF f \in p.set THEN <<Env(n, "value")>> ELSE <<>>
         IN  Pick("HTTP_PROXY", "HTTP_PROXY") \o Pick("HTTPS_PROXY", "HTTP_PROXY")
             \o Pick("NO_PROXY", "NO_PROXY")

\* The proxy variables envWithProxy appends, in its order.
ProxyEnv(p) ==
    IF p.isNil THEN <<>>
    ELSE LET Pick(f) == IF f \in p.set THEN <<Env(f, "value")>> ELSE <<>>
         IN  Pick("HTTP_PROXY") \o Pick("HTTPS_PROXY") \o Pick("NO_PROXY")

envWithProxy(p, env) == env \o ProxyEnv(p)

mountsWithTrustedCA(mounts) == Append(mounts, "trusted-ca")

Container(n, mounts, env) == [name |-> n, mounts |-> mounts, env |-> env]

\* Mutant: the proxy is injected but the trusted CA bundle is not mounted.
injectProxyOnly(cs, p) ==
    [i \in 1..Len(cs) |-> [cs[i] EXCEPT !.env = envWithProxy(p, @)]]

\* Apply envWithProxy and mountsWithTrustedCA to every container.
injectProxyAndCA(cs, p) ==
    [i \in 1..Len(cs) |->
        [cs[i] EXCEPT !.env = envWithProxy(p, @),
                      !.mounts = mountsWithTrustedCA(@)]]

-----------------------------------------------------------------------------
(* Init containers.                                                        *)

\* getPreProvisioningOSDownloadURLs and isCoreOSIPAAvailable are defined
\* outside this file.  The live URLs are the live-ISO and agent URLs that
\* are set (the specification, rule 2 of the init containers); whether the
\* CoreOS image ships the IPA assets is an input of its own.
HasLiveURLs(c) == c.isoURL \/ c.agentURLs

isCoreOSIPAAvailable(c) == c.ipaAvailable

createInitContainerStaticIpSet(c) ==
    Container("metal3-static-ip-set", <<>>,
              <<buildEnvVar("PROVISIONING_IP", c),
                buildEnvVar("PROVISIONING_INTERFACE", c)>>)

createInitContainerMachineOsDownloader ==
    Container("metal3-machine-os-downloader", <<imageVolumeMount>>,
              <<Env("MACHINE_OS_IMAGE_URL", "value"), Env("IP_OPTIONS", "value")>>)

createInitContainerConfigureCoreOSIPA(c) ==
    Container("metal3-configure-coreos-ipa",
              <<sharedVolumeMount, imageVolumeMount, ironicCredentialsMount,
                ironicTlsMount>>,
              envWithMasterMacAddresses(
                <<buildEnvVar("PROVISIONING_IP", c),
                  buildEnvVar("PROVISIONING_INTERFACE", c),
                  buildSSHKeyEnvVar, pullSecret>>))

createInitContainerIpaDownloader ==
    Container("metal3-ipa-downloader", <<imageVolumeMount>>, <<>>)

\* The gate of the static-IP init container (line 267): a provisioning IP
\* is set on an enabled provisioning network.
\* Mutant: the network-disabled check is dropped.
StaticIpWantedIPOnly(c) == c.provisioningIP

StaticIpWanted(c) == c.provisioningIP /\ c.network # "Disabled"

\* Mutant: the CoreOS configurator is put before the live-image downloader.
LiveImageInitContainersSwapped(c) ==
    IF c.isoURL THEN <<createInitContainerConfigureCoreOSIPA(c),
                       createInitContainerMachineOsDownloader>>
    ELSE <<createInitContainerMachineOsDownloader>>

\* The live-image downloader, followed by the CoreOS configurator when an
\* ISO URL is set.
LiveImageInitContainers(c) ==
    <<createInitContainerMachineOsDownloader>>
    \o (IF c.isoURL THEN <<createInitContainerConfigureCoreOSIPA(c)>> ELSE <<>>)

newMetal3InitContainers(c, p) ==
    LET If(b, s) == IF b THEN s ELSE <<>>
    IN  injectProxyAndCA(
          If(StaticIpWanted(c), <<createInitContainerStaticIpSet(c)>>)
          \o If(HasLiveURLs(c), LiveImageInitContainers(c))
          \o If(c.osDownloadURL, <<createInitContainerMachineOsDownloader>>)
          \o If(~isCoreOSIPAAvailable(c), <<createInitContainerIpaDownloader>>),
          p)

-----------------------------------------------------------------------------
(* Containers.                                                             *)

createContainerMetal3BaremetalOperator(c) ==
    Container("metal3-baremetal-operator",
              <<ironicCredentialsMount, inspectorCredentialsMount, ironicTlsMount>>,
              <<getWatchNamespace(c), Env("POD_NAMESPACE", "field"),
                Env("POD_NAME", "field"), Env("OPERATOR_NAME", "value"),
                Env("IRONIC_CACERT_FILE", "value"), Env("IRONIC_INSECURE", "value"),
                buildEnvVar("DEPLOY_KERNEL_URL", c),
                buildEnvVar("DEPLOY_RAMDISK_URL", c),
                buildEnvVar("IRONIC_ENDPOINT", c),
                buildEnvVar("IRONIC_INSPECTOR_ENDPOINT", c),
                Env("METAL3_AUTH_ROOT_DIR", "value")>>)

createContainerMetal3Mariadb ==
    Container("metal3-mariadb", <<sharedVolumeMount>>, <<mariadbPassword>>)

createContainerMetal3Httpd(c) ==
    Container("metal3-httpd",
              <<sharedVolumeMount, imageVolumeMount, ironicTlsMount, inspectorTlsMount>>,
              envWithMasterMacAddresses(
                <<buildEnvVar("HTTP_PORT", c), buildEnvVar("PROVISIONING_IP", c),
                  buildEnvVar("PROVISIONING_INTERFACE", c), buildSSHKeyEnvVar>>))

createContainerMetal3IronicConductor(c) ==
    Container("metal3-ironic-conductor",
              <<sharedVolumeMount, imageVolumeMount, inspectorCredentialsMount,
                rpcCredentialsMount, ironicTlsMount, inspectorTlsMount>>,
              envWithMasterMacAddresses(
                <<mariadbPassword, Env("IRONIC_INSECURE", "value"),
                  Env("IRONIC_INSPECTOR_INSECURE", "value"),
                  buildEnvVar("HTTP_PORT", c), buildEnvVar("PROVISIONING_IP", c),
                  buildEnvVar("PROVISIONING_INTERFACE", c), buildSSHKeyEnvVar,
                  setIronicHtpasswdHash("HTTP_BASIC_HTPASSWD"),
                  setIronicExternalIp("IRONIC_EXTERNAL_IP", c)>>))

createContainerMetal3IronicApi(c) ==
    Container("metal3-ironic-api",
              <<sharedVolumeMount, rpcCredentialsMount, ironicTlsMount>>,
              envWithMasterMacAddresses(
                <<mariadbPassword, Env("IRONIC_INSECURE", "value"),
                  buildEnvVar("HTTP_PORT", c), buildEnvVar("PROVISIONING_IP", c),
                  buildEnvVar("PROVISIONING_INTERFACE", c),
                  setIronicHtpasswdHash("HTTP_BASIC_HTPASSWD"),
                  setIronicExternalIp("IRONIC_EXTERNAL_IP", c)>>))

createContainerIronicDeployRamdiskLogs ==
    Container("ironic-deploy-ramdisk-logs", <<sharedVolumeMount>>, <<>>)

createContainerMetal3IronicInspector(c) ==
    Container("metal3-ironic-inspector",
              <<sharedVolumeMount, ironicCredentialsMount, ironicTlsMount,
                inspectorTlsMount>>,
              envWithMasterMacAddresses(
                <<Env("IRONIC_INSECURE", "value"),
                  buildEnvVar("PROVISIONING_IP", c),
                  buildEnvVar("PROVISIONING_INTERFACE", c),
                  setIronicHtpasswdHash("HTTP_BASIC_HTPASSWD")>>))

createContainerIronicInspectorRamdiskLogs ==
    Container("ironic-inspector-ramdisk-logs", <<sharedVolumeMount>>, <<>>)

createContainerMetal3StaticIpManager(c) ==
    Container("metal3-static-ip-manager", <<>>,
              envWithMasterMacAddresses(
                <<buildEnvVar("PROVISIONING_IP", c),
                  buildEnvVar("PROVISIONING_INTERFACE", c)>>))

createContainerMetal3Dnsmasq(c) ==
    Container("metal3-dnsmasq", <<sharedVolumeMount, imageVolumeMount>>,
              envWithMasterMacAddresses(
                <<buildEnvVar("HTTP_PORT", c),
                  buildEnvVar("PROVISIONING_INTERFACE", c),
                  buildEnvVar("DHCP_RANGE", c)>>))

\* The gate of the static-IP manager, written again at line 445.
StaticIpManagerWanted(c) == c.provisioningIP /\ c.network # "Disabled"

newMetal3Containers(c, p) ==
    LET If(b, s) == IF b THEN s ELSE <<>>
    IN  injectProxyAndCA(
          <<createContainerMetal3BaremetalOperator(c),
            createContainerMetal3Mariadb,
            createContainerMetal3Httpd(c),
            createContainerMetal3IronicConductor(c),
            createContainerIronicInspectorRamdiskLogs,
            createContainerMetal3IronicApi(c),
            createContainerIronicDeployRamdiskLogs,
            createContainerMetal3IronicInspector(c)>>
          \o If(StaticIpManagerWanted(c),
                <<createContainerMetal3StaticIpManager(c)>>)
          \o If(c.network # "Disabled", <<createContainerMetal3Dnsmasq(c)>>),
          p)

\* newMetal3PodTemplateSpec: the parts of the pod spec the properties read.
newMetal3PodTemplateSpec(c, p) ==
    [volumes |-> metal3Volumes,
     initContainers |-> newMetal3InitContainers(c, p),
     containers |-> newMetal3Containers(c, p)]

-----------------------------------------------------------------------------
(* The input: the Provisioning spec and the cluster proxy, edited one      *)
(* field at a time.                                                        *)

Init == config \in ProvisioningSpec /\ proxy \in Proxies

\* A user changes one field of the Provisioning spec.
EditProvisioning ==
    /\ \/ \E m \in NetworkModes \ {config.network} :
             config' = [config EXCEPT !.network = m]
       \/ \E f \in DOMAIN config \ {"network"} :
             config' = [config EXCEPT ![f] = ~@]
    /\ UNCHANGED proxy

\* The cluster proxy configuration changes.
EditProxy ==
    /\ proxy' \in Proxies \ {proxy}
    /\ UNCHANGED config

Next == EditProvisioning \/ EditProxy

Spec == Init /\ [][Next]_vars

-----------------------------------------------------------------------------
(* Properties of the pod rendered from the current input.                  *)

Pod == newMetal3PodTemplateSpec(config, proxy)
AllContainers == Pod.initContainers \o Pod.containers
Names(cs) == {cs[i].name : i \in 1..Len(cs)}
\* The positions in s of the elements that satisfy P.
Positions(s, P(_)) == {i \in 1..Len(s) : P(s[i])}

\* Every volume mount of every container and init container names a volume
\* of metal3Volumes: no builder, nor the trusted-CA injection, refers to a
\* volume the pod does not declare.
MountsDeclared ==
    \A i \in 1..Len(AllContainers) :
        Range(AllContainers[i].mounts) \subseteq Range(Pod.volumes)

\* Within every container the environment variable names are distinct,
\* after the MAC-address and proxy variables have been appended.
EnvNamesUnique ==
    \A i \in 1..Len(AllContainers) :
        LET env == AllContainers[i].env
        IN  \A j, k \in 1..Len(env) : j # k => env[j].name # env[k].name

\* injectProxyAndCA reaches every container and init container exactly
\* once: each ends its environment with the same proxy variables (the
\* non-empty ones, none for a nil proxy) and has no other proxy variable,
\* and mounts the trusted CA bundle once, last.
ProxyAndCAUniform ==
    \A i \in 1..Len(AllContainers) :
        LET env == AllContainers[i].env
            mounts == AllContainers[i].mounts
            pe == ProxyEnv(proxy)
        IN  /\ Len(pe) <= Len(env)
            /\ SubSeq(env, Len(env) - Len(pe) + 1, Len(env)) = pe
            /\ Positions(env, LAMBDA e : e.name \in ProxyFields)
                 = (Len(env) - Len(pe) + 1)..Len(env)
            /\ Positions(mounts, LAMBDA m : m = "trusted-ca") = {Len(mounts)}

\* The containers that manage the provisioning network come together: the
\* static IP is set by an init container exactly when a container keeps it
\* refreshed, and a static IP is only managed where dnsmasq serves DHCP.
\* newMetal3InitContainers (line 267) and newMetal3Containers (lines 445
\* and 449) each evaluate their own copy of these gates.
NetworkContainersPaired ==
    /\ "metal3-static-ip-set" \in Names(Pod.initContainers)
       <=> "metal3-static-ip-manager" \in Names(Pod.containers)
    /\ "metal3-static-ip-manager" \in Names(Pod.containers)
       => "metal3-dnsmasq" \in Names(Pod.containers)

\* Init containers run in order, so the CoreOS configurator, which embeds
\* the agent into the downloaded ISO, runs after an image downloader.
ConfigureAfterDownload ==
    \A i \in 1..Len(Pod.initContainers) :
        Pod.initContainers[i].name = "metal3-configure-coreos-ipa" =>
            \E j \in 1..(i - 1) :
                Pod.initContainers[j].name = "metal3-machine-os-downloader"

\* Kubernetes rejects a pod in which two containers or init containers
\* share a name.
UniqueContainerNames ==
    \A i, j \in 1..Len(AllContainers) :
        i # j => AllContainers[i].name # AllContainers[j].name

=============================================================================
