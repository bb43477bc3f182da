------------------------- MODULE Metal3PodNameProofs -------------------------
(***************************************************************************)
(* The exact condition under which the rendered pod has two containers of  *)
(* one name.  newMetal3InitContainers appends the live-image downloader    *)
(* when a live URL is set and, under its own gate, a second                *)
(* metal3-machine-os-downloader when ProvisioningOSDownloadURL is set; no  *)
(* other two builders share a name.  So UniqueContainerNames, which the    *)
(* pod_names run finds violated, fails for every input that sets both and *)
(* for no other.                                                           *)
(***************************************************************************)
EXTENDS Metal3PodContainerProofs

-----------------------------------------------------------------------------
(* Distinct names under concatenation and injection.                       *)

\* A list with distinct names splits into two lists with distinct names
\* and no name in common.
LEMMA DistinctSplit ==
    ASSUME NEW S, NEW s \in Seq(S), NEW t \in Seq(S), Distinct(s \o t)
    PROVE  /\ Distinct(s)
           /\ Distinct(t)
           /\ Names(s) \cap Names(t) = {}
<1>1. /\ Len(s \o t) = Len(s) + Len(t)
      /\ \A i \in 1 .. Len(s) + Len(t) :
            (s \o t)[i] = IF i <= Len(s) THEN s[i] ELSE t[i - Len(s)]
  BY ConcatProperties
<1>2. Len(s) \in Nat /\ Len(t) \in Nat
  BY LenProperties
<1>3. Distinct(s)
  <2> SUFFICES ASSUME NEW j \in 1..Len(s), NEW k \in 1..Len(s), j # k
               PROVE  s[j].name # s[k].name
    BY DEF Distinct
  <2>. QED
    BY <1>1, <1>2 DEF Distinct
<1>4. Distinct(t)
  <2> SUFFICES ASSUME NEW j \in 1..Len(t), NEW k \in 1..Len(t), j # k
               PROVE  t[j].name # t[k].name
    BY DEF Distinct
  <2>1. Len(s) + j \in 1..Len(s \o t) /\ Len(s) + k \in 1..Len(s \o t)
        /\ Len(s) + j # Len(s) + k
        /\ (s \o t)[Len(s) + j] = t[j] /\ (s \o t)[Len(s) + k] = t[k]
    BY <1>1, <1>2
  <2>. QED
    BY <2>1 DEF Distinct
<1>5. Names(s) \cap Names(t) = {}
  <2> SUFFICES ASSUME NEW j \in 1..Len(s), NEW k \in 1..Len(t),
                      s[j].name = t[k].name
               PROVE  FALSE
    BY DEF Names
  <2>1. j \in 1..Len(s \o t) /\ Len(s) + k \in 1..Len(s \o t)
        /\ j # Len(s) + k
        /\ (s \o t)[j] = s[j] /\ (s \o t)[Len(s) + k] = t[k]
    BY <1>1, <1>2
  <2>. QED
    BY <2>1 DEF Distinct
<1>. QED
  BY <1>3, <1>4, <1>5

\* The proxy and trusted-CA injection neither creates nor removes a clash
\* of names.
LEMMA DistinctInject ==
    ASSUME NEW S, NEW cs \in Seq(S), \A x \in S : IsContainer(x), NEW p
    PROVE  Distinct(injectProxyAndCA(cs, p)) <=> Distinct(cs)
<1>1. /\ Len(injectProxyAndCA(cs, p)) = Len(cs)
      /\ \A i \in 1..Len(cs) : injectProxyAndCA(cs, p)[i].name = cs[i].name
  BY InjectNameAt
<1>. QED
  BY <1>1 DEF Distinct

\* An empty and a one-element list have distinct names.
LEMMA DistinctShort ==
    ASSUME NEW x
    PROVE  Distinct(<<>>) /\ Distinct(<<x>>)
BY DEF Distinct

-----------------------------------------------------------------------------
(* The init containers.                                                    *)

\* newMetal3InitContainers (lines 261-294) renders two init containers of
\* one name exactly when a live URL and ProvisioningOSDownloadURL are both
\* set: both gates then append createInitContainerMachineOsDownloader
\* (lines 275 and 285).
LEMMA InitDistinct ==
    ASSUME NEW c \in ProvisioningSpec, NEW p
    PROVE  Distinct(newMetal3InitContainers(c, p))
             <=> ~(HasLiveURLs(c) /\ c.osDownloadURL)
<1> DEFINE sis == createInitContainerStaticIpSet(c)
           mod == createInitContainerMachineOsDownloader
           cfg == createInitContainerConfigureCoreOSIPA(c)
           ipa == createInitContainerIpaDownloader
           S == {sis, mod, cfg, ipa}
           P1 == IF StaticIpWanted(c) THEN <<sis>> ELSE <<>>
           P2 == IF HasLiveURLs(c) THEN LiveImageInitContainers(c) ELSE <<>>
           P3 == IF c.osDownloadURL THEN <<mod>> ELSE <<>>
           P4 == IF ~isCoreOSIPAAvailable(c) THEN <<ipa>> ELSE <<>>
<1>1. \A x \in S : IsContainer(x)
  BY ContainerIsContainer, Zenon
     DEF createInitContainerStaticIpSet, createInitContainerMachineOsDownloader,
         createInitContainerConfigureCoreOSIPA, createInitContainerIpaDownloader
<1>2. /\ sis.name = "metal3-static-ip-set"
      /\ mod.name = "metal3-machine-os-downloader"
      /\ cfg.name = "metal3-configure-coreos-ipa"
      /\ ipa.name = "metal3-ipa-downloader"
  BY DEF createInitContainerStaticIpSet, createInitContainerMachineOsDownloader,
         createInitContainerConfigureCoreOSIPA, createInitContainerIpaDownloader,
         Container
<1>3. newMetal3InitContainers(c, p)
        = injectProxyAndCA(((P1 \o P2) \o P3) \o P4, p)
  BY DEF newMetal3InitContainers
<1> HIDE DEF sis, mod, cfg, ipa
<1>4. /\ <<>> \in Seq(S) /\ <<sis>> \in Seq(S) /\ <<mod>> \in Seq(S)
      /\ <<cfg>> \in Seq(S) /\ <<ipa>> \in Seq(S)
  BY DEF S
<1> HIDE DEF S
<1>5. /\ LiveImageInitContainers(c) \in Seq(S)
      /\ Distinct(LiveImageInitContainers(c))
      /\ Names(LiveImageInitContainers(c)) \subseteq {mod.name, cfg.name}
      /\ mod.name \in Names(LiveImageInitContainers(c))
  <2> DEFINE iso == IF c.isoURL THEN <<cfg>> ELSE <<>>
  <2>0. LiveImageInitContainers(c) = <<mod>> \o iso
    BY DEF LiveImageInitContainers, mod, cfg
  <2>1. iso \in Seq(S)
    BY <1>4
  <2>1b. Distinct(iso) /\ Distinct(<<mod>>)
    BY DistinctShort
  <2>1a. /\ Names(iso) = (IF c.isoURL THEN {cfg.name} ELSE {})
         /\ Names(<<mod>>) = {mod.name}
    BY NamesShort
  <2> HIDE DEF iso
  <2>2. Names(<<mod>>) \cap Names(iso) = {}
    BY <1>2, <2>1a
  <2>3. /\ <<mod>> \o iso \in Seq(S)
        /\ Names(<<mod>> \o iso) = Names(<<mod>>) \cup Names(iso)
    BY <1>4, <2>1, NamesConcat
  <2>4. Distinct(<<mod>> \o iso)
    BY <1>4, <2>1, <2>1b, <2>2, DistinctConcat
  <2>. QED
    BY <2>0, <2>1a, <2>3, <2>4
<1>6. /\ P1 \in Seq(S) /\ P2 \in Seq(S) /\ P3 \in Seq(S) /\ P4 \in Seq(S)
      /\ Distinct(P1) /\ Distinct(P2) /\ Distinct(P3) /\ Distinct(P4)
  BY <1>4, <1>5, DistinctShort
<1>7. /\ Names(P1) = IF StaticIpWanted(c) THEN {sis.name} ELSE {}
      /\ Names(P2) \subseteq {mod.name, cfg.name}
      /\ HasLiveURLs(c) => mod.name \in Names(P2)
      /\ ~HasLiveURLs(c) => Names(P2) = {}
      /\ Names(P3) = IF c.osDownloadURL THEN {mod.name} ELSE {}
      /\ Names(P4) = IF ~isCoreOSIPAAvailable(c) THEN {ipa.name} ELSE {}
  BY <1>5, NamesShort
<1> HIDE DEF P1, P2, P3, P4
<1> DEFINE Q12 == P1 \o P2
           Q123 == Q12 \o P3
           Q == Q123 \o P4
<1>8. /\ Q12 \in Seq(S) /\ Names(Q12) = Names(P1) \cup Names(P2)
      /\ Q123 \in Seq(S) /\ Names(Q123) = Names(Q12) \cup Names(P3)
      /\ Q \in Seq(S)
  <2>1. Q12 \in Seq(S) /\ Names(Q12) = Names(P1) \cup Names(P2)
    BY <1>6, NamesConcat
  <2> HIDE DEF Q12
  <2>2. Q123 \in Seq(S) /\ Names(Q123) = Names(Q12) \cup Names(P3)
    BY <1>6, <2>1, NamesConcat
  <2> HIDE DEF Q123
  <2>3. Q \in Seq(S)
    BY <1>6, <2>2, NamesConcat
  <2>. QED
    BY <2>1, <2>2, <2>3
<1> HIDE DEF Q12, Q123, Q
<1>9. Distinct(injectProxyAndCA(Q, p)) <=> Distinct(Q)
  BY <1>1, <1>8, DistinctInject, Zenon
<1>10. CASE ~(HasLiveURLs(c) /\ c.osDownloadURL)
  <2>1. Distinct(Q12)
    <3>1. Names(P1) \cap Names(P2) = {}
      BY <1>2, <1>7
    <3>. QED
      BY <1>6, <3>1, DistinctConcat DEF Q12
  <2>2. Distinct(Q123)
    <3>1. Names(Q12) \cap Names(P3) = {}
      BY <1>2, <1>7, <1>8, <1>10
    <3>. QED
      BY <1>6, <1>8, <2>1, <3>1, DistinctConcat DEF Q123
  <2>3. Distinct(Q)
    <3>1. Names(Q123) \cap Names(P4) = {}
      BY <1>2, <1>7, <1>8
    <3>. QED
      BY <1>6, <1>8, <2>2, <3>1, DistinctConcat DEF Q
  <2>. QED
    BY <1>3, <1>9, <1>10, <2>3 DEF Q12, Q123, Q
<1>11. CASE HasLiveURLs(c) /\ c.osDownloadURL
  <2> SUFFICES ASSUME Distinct(Q) PROVE FALSE
    BY <1>3, <1>9, <1>11 DEF Q12, Q123, Q
  <2>1. Distinct(Q123)
    BY <1>6, <1>8, DistinctSplit DEF Q
  <2>2. Names(Q12) \cap Names(P3) = {}
    BY <1>6, <1>8, <2>1, DistinctSplit DEF Q123
  <2>. QED
    BY <1>7, <1>8, <1>11, <2>2
<1>. QED
  BY <1>10, <1>11

-----------------------------------------------------------------------------
(* The containers.                                                         *)

\* The names newMetal3Containers can give its containers.
ContainerNames ==
    {"metal3-baremetal-operator", "metal3-mariadb", "metal3-httpd",
     "metal3-ironic-conductor", "ironic-inspector-ramdisk-logs",
     "metal3-ironic-api", "ironic-deploy-ramdisk-logs",
     "metal3-ironic-inspector", "metal3-static-ip-manager", "metal3-dnsmasq"}

\* newMetal3Containers (lines 430-454) never renders two containers of
\* one name, whichever optional containers it appends.
LEMMA ContainersDistinct ==
    ASSUME NEW c \in ProvisioningSpec, NEW p
    PROVE  /\ Distinct(newMetal3Containers(c, p))
           /\ Names(newMetal3Containers(c, p)) \subseteq ContainerNames
<1> DEFINE bmo == createContainerMetal3BaremetalOperator(c)
           mdb == createContainerMetal3Mariadb
           htd == createContainerMetal3Httpd(c)
           cnd == createContainerMetal3IronicConductor(c)
           irl == createContainerIronicInspectorRamdiskLogs
           api == createContainerMetal3IronicApi(c)
           drl == createContainerIronicDeployRamdiskLogs
           ins == createContainerMetal3IronicInspector(c)
           sim == createContainerMetal3StaticIpManager(c)
           dns == createContainerMetal3Dnsmasq(c)
           S == {bmo, mdb, htd, cnd, irl, api, drl, ins, sim, dns}
           B == <<bmo, mdb, htd, cnd, irl, api, drl, ins>>
           P1 == IF StaticIpManagerWanted(c) THEN <<sim>> ELSE <<>>
           P2 == IF c.network # "Disabled" THEN <<dns>> ELSE <<>>
<1>1. \A x \in S : IsContainer(x)
  BY ContainerIsContainer, Zenon
     DEF createContainerMetal3BaremetalOperator, createContainerMetal3Mariadb,
         createContainerMetal3Httpd, createContainerMetal3IronicConductor,
         createContainerIronicInspectorRamdiskLogs, createContainerMetal3IronicApi,
         createContainerIronicDeployRamdiskLogs, createContainerMetal3IronicInspector,
         createContainerMetal3StaticIpManager, createContainerMetal3Dnsmasq
<1>2. /\ bmo.name = "metal3-baremetal-operator"
      /\ mdb.name = "metal3-mariadb"
      /\ htd.name = "metal3-httpd"
      /\ cnd.name = "metal3-ironic-conductor"
      /\ irl.name = "ironic-inspector-ramdisk-logs"
      /\ api.name = "metal3-ironic-api"
      /\ drl.name = "ironic-deploy-ramdisk-logs"
      /\ ins.name = "metal3-ironic-inspector"
      /\ sim.name = "metal3-static-ip-manager"
      /\ dns.name = "metal3-dnsmasq"
  BY DEF createContainerMetal3BaremetalOperator, createContainerMetal3Mariadb,
         createContainerMetal3Httpd, createContainerMetal3IronicConductor,
         createContainerIronicInspectorRamdiskLogs, createContainerMetal3IronicApi,
         createContainerIronicDeployRamdiskLogs, createContainerMetal3IronicInspector,
         createContainerMetal3StaticIpManager, createContainerMetal3Dnsmasq,
         Container
<1>3. newMetal3Containers(c, p) = injectProxyAndCA((B \o P1) \o P2, p)
  BY DEF newMetal3Containers
<1> HIDE DEF bmo, mdb, htd, cnd, irl, api, drl, ins, sim, dns
<1>4. B \in Seq(S) /\ P1 \in Seq(S) /\ P2 \in Seq(S)
  <2>1. B \in [1..8 -> S]
    BY DEF B, S
  <2>2. B \in Seq(S)
    BY <2>1, SeqDef, Zenon
  <2>3. <<sim>> \in Seq(S) /\ <<dns>> \in Seq(S) /\ <<>> \in Seq(S)
    BY DEF S
  <2>. QED
    BY <2>2, <2>3 DEF P1, P2
<1>5. /\ Distinct(B)
      /\ Names(B) = ContainerNames \ {sim.name, dns.name}
  BY <1>2 DEF B, Distinct, Names, ContainerNames
<1>6. /\ Distinct(P1) /\ Distinct(P2)
      /\ Names(P1) = (IF StaticIpManagerWanted(c) THEN {sim.name} ELSE {})
      /\ Names(P2) = (IF c.network # "Disabled" THEN {dns.name} ELSE {})
  BY DistinctShort, NamesShort
<1> HIDE DEF S, B, P1, P2
<1> DEFINE Q1 == B \o P1
           Q == Q1 \o P2
<1>7. Q \in Seq(S) /\ Distinct(Q) /\ Names(Q) \subseteq ContainerNames
  <2>1. Q1 \in Seq(S) /\ Names(Q1) = Names(B) \cup Names(P1)
    BY <1>4, NamesConcat
  <2>2. Distinct(Q1)
    BY <1>2, <1>4, <1>5, <1>6, DistinctConcat
  <2> HIDE DEF Q1
  <2>3. Q \in Seq(S) /\ Names(Q) = Names(Q1) \cup Names(P2)
    BY <1>4, <2>1, NamesConcat
  <2>4. Names(Q1) \cap Names(P2) = {}
    BY <1>2, <1>5, <1>6, <2>1 DEF ContainerNames
  <2>5. Distinct(Q)
    BY <1>4, <1>6, <2>1, <2>2, <2>4, DistinctConcat DEF Q
  <2>. QED
    BY <1>2, <1>5, <1>6, <2>1, <2>3, <2>5 DEF ContainerNames
<1> HIDE DEF Q1, Q
<1>8. /\ Distinct(injectProxyAndCA(Q, p)) <=> Distinct(Q)
      /\ Names(injectProxyAndCA(Q, p)) = Names(Q)
  BY <1>1, <1>7, DistinctInject, NamesInject, Zenon
<1>. QED
  BY <1>3, <1>7, <1>8 DEF Q1, Q

-----------------------------------------------------------------------------
(* The whole pod.                                                          *)

\* The pod has two containers of one name exactly when both downloader
\* gates are open: the containers never clash among themselves nor with an
\* init container.
LEMMA InputUniqueNames ==
    ASSUME InputOK
    PROVE  UniqueContainerNames <=> ~(HasLiveURLs(config) /\ config.osDownloadURL)
<1>1. config \in ProvisioningSpec /\ proxy \in Proxies
  BY DEF InputOK
<1> DEFINE I == Pod.initContainers
           C == Pod.containers
           U == InitBuilders(config) \cup ContainerBuilders(config)
           T == {InjectOne(x, proxy) : x \in U}
<1>2. I = newMetal3InitContainers(config, proxy)
      /\ C = newMetal3Containers(config, proxy)
  BY DEF Pod, newMetal3PodTemplateSpec
<1>3. I \in Seq(T) /\ C \in Seq(T)
  <2>1. PICK ri \in Seq(InitBuilders(config)) : I = injectProxyAndCA(ri, proxy)
    BY <1>1, <1>2, RenderedFromBuilders
  <2>2. PICK rc \in Seq(ContainerBuilders(config)) : C = injectProxyAndCA(rc, proxy)
    BY <1>1, <1>2, RenderedFromBuilders
  <2>3. /\ \A x \in InitBuilders(config) : InjectOne(x, proxy) \in T
        /\ \A x \in ContainerBuilders(config) : InjectOne(x, proxy) \in T
    OBVIOUS
  <2> HIDE DEF T
  <2>. QED
    BY <2>1, <2>2, <2>3, InjectSeq
<1>4. /\ Distinct(I) <=> ~(HasLiveURLs(config) /\ config.osDownloadURL)
      /\ Distinct(C)
      /\ Names(C) \subseteq ContainerNames
  BY <1>1, <1>2, InitDistinct, ContainersDistinct
<1>5. Names(I) \cap Names(C) = {}
  BY <1>1, <1>2, <1>4, InitNames DEF ContainerNames
<1>6. UniqueContainerNames <=> Distinct(I \o C)
  BY DEF UniqueContainerNames, AllContainers, Distinct
<1> HIDE DEF I, C, T
<1>7. CASE ~(HasLiveURLs(config) /\ config.osDownloadURL)
  BY <1>3, <1>4, <1>5, <1>6, <1>7, DistinctConcat
<1>8. CASE HasLiveURLs(config) /\ config.osDownloadURL
  BY <1>3, <1>4, <1>6, <1>8, DistinctSplit
<1>. QED
  BY <1>7, <1>8

\* Kubernetes rejects the metal3 pod exactly when a PreProvisioningOSDownloadURL
\* and ProvisioningOSDownloadURL are both set: newMetal3InitContainers then
\* appends createInitContainerMachineOsDownloader twice (lines 275 and 285),
\* and for every other Provisioning spec and proxy the container names of
\* the rendered pod are unique.
THEOREM UniqueNamesExactly ==
    Spec => [](UniqueContainerNames <=> ~(HasLiveURLs(config) /\ config.osDownloadURL))
<1>1. Spec => []InputOK
  BY InitInputOK, NextInputOK, PTL DEF Spec
<1>. QED
  BY <1>1, InputUniqueNames, PTL

=============================================================================
