----------------------------- MODULE Metal3PodProofs -----------------------------
(***************************************************************************)
(* Proofs about the rendered metal3 pod, for every Provisioning spec and   *)
(* every cluster proxy: the static-IP init container, the static-IP        *)
(* manager and dnsmasq are included together, as NetworkContainersPaired  *)
(* states, although newMetal3InitContainers and newMetal3Containers each   *)
(* evaluate their own copy of the gate.                                    *)
(***************************************************************************)
EXTENDS Metal3Pod, SequenceTheorems, TLAPS

-----------------------------------------------------------------------------
(* Lemmas about the names of a list of containers.                         *)

\* x is a container record: a name, mounts and an environment.
IsContainer(x) == x = [name |-> x.name, mounts |-> x.mounts, env |-> x.env]

\* Every container builder returns a container record.
LEMMA ContainerIsContainer ==
    ASSUME NEW n, NEW m, NEW e
    PROVE  IsContainer(Container(n, m, e))
BY DEF IsContainer, Container

\* The names of a concatenation are the names of its parts.
LEMMA NamesConcat ==
    ASSUME NEW S, NEW s \in Seq(S), NEW t \in Seq(S)
    PROVE  /\ s \o t \in Seq(S)
           /\ Names(s \o t) = Names(s) \cup Names(t)
<1>1. /\ s \o t \in Seq(S)
      /\ Len(s \o t) = Len(s) + Len(t)
      /\ \A i \in 1 .. Len(s) + Len(t) :
            (s \o t)[i] = IF i <= Len(s) THEN s[i] ELSE t[i - Len(s)]
  BY ConcatProperties
<1>2. Len(s) \in Nat /\ Len(t) \in Nat
  BY LenProperties
<1>3. Names(s \o t) \subseteq Names(s) \cup Names(t)
  <2> SUFFICES ASSUME NEW i \in 1..Len(s \o t)
               PROVE  (s \o t)[i].name \in Names(s) \cup Names(t)
    BY DEF Names
  <2>1. CASE i <= Len(s)
    BY <1>1, <1>2, <2>1 DEF Names
  <2>2. CASE ~(i <= Len(s))
    <3>1. i - Len(s) \in 1..Len(t)
      BY <1>1, <1>2, <2>2
    <3>. QED
      BY <1>1, <1>2, <2>2, <3>1 DEF Names
  <2>. QED
    BY <2>1, <2>2
<1>4. Names(s) \subseteq Names(s \o t)
  <2> SUFFICES ASSUME NEW i \in 1..Len(s)
               PROVE  s[i].name \in Names(s \o t)
    BY DEF Names
  <2>. QED
    BY <1>1, <1>2 DEF Names
<1>5. Names(t) \subseteq Names(s \o t)
  <2> SUFFICES ASSUME NEW i \in 1..Len(t)
               PROVE  t[i].name \in Names(s \o t)
    BY DEF Names
  <2>1. Len(s) + i \in 1..Len(s \o t) /\ (s \o t)[Len(s) + i] = t[i]
    BY <1>1, <1>2
  <2>. QED
    BY <2>1 DEF Names
<1>. QED
  BY <1>1, <1>3, <1>4, <1>5

\* The names of an empty and of a one-element list.
LEMMA NamesShort ==
    ASSUME NEW x
    PROVE  /\ Names(<<>>) = {}
           /\ Names(<<x>>) = {x.name}
BY DEF Names

\* The proxy and trusted-CA injection renames no container.
LEMMA NamesInject ==
    ASSUME NEW S, NEW cs \in Seq(S), \A x \in S : IsContainer(x), NEW p
    PROVE  Names(injectProxyAndCA(cs, p)) = Names(cs)
<1>1. Len(cs) \in Nat /\ DOMAIN cs = 1..Len(cs)
  BY LenProperties
<1>2. \A i \in 1..Len(cs) :
         injectProxyAndCA(cs, p)[i].name = cs[i].name
  <2> SUFFICES ASSUME NEW i \in 1..Len(cs)
               PROVE  injectProxyAndCA(cs, p)[i].name = cs[i].name
    OBVIOUS
  <2>1. IsContainer(cs[i])
    BY ElementOfSeq
  <2>. QED
    BY <2>1 DEF injectProxyAndCA, IsContainer
<1>3. DOMAIN injectProxyAndCA(cs, p) = 1..Len(cs)
  BY DEF injectProxyAndCA
<1>4. Len(injectProxyAndCA(cs, p)) = Len(cs)
  BY <1>1, <1>3 DEF injectProxyAndCA
<1>. QED
  BY <1>2, <1>4 DEF Names
-----------------------------------------------------------------------------
(* Which containers the two gates include.                                 *)

\* The names of the init containers, gate by gate, in the order
\* newMetal3InitContainers appends them (lines 261-294).
LEMMA InitNames ==
    ASSUME NEW c \in ProvisioningSpec, NEW p
    PROVE  Names(newMetal3InitContainers(c, p))
             = (IF StaticIpWanted(c) THEN {"metal3-static-ip-set"} ELSE {})
               \cup (IF HasLiveURLs(c)
                     THEN {"metal3-machine-os-downloader"}
                          \cup (IF c.isoURL THEN {"metal3-configure-coreos-ipa"}
                                ELSE {})
                     ELSE {})
               \cup (IF c.osDownloadURL THEN {"metal3-machine-os-downloader"}
                     ELSE {})
               \cup (IF ~isCoreOSIPAAvailable(c) THEN {"metal3-ipa-downloader"}
                     ELSE {})
<1> DEFINE sis == createInitContainerStaticIpSet(c)
           mod == createInitContainerMachineOsDownloader
           cfg == createInitContainerConfigureCoreOSIPA(c)
           ipa == createInitContainerIpaDownloader
           S == {sis, mod, cfg, ipa}
           P1 == IF StaticIpWanted(c) THEN <<sis>> ELSE <<>>
           P2 == IF HasLiveURLs(c) THEN LiveImageInitContainers(c) ELSE <<>>
           P3 == IF c.osDownloadURL THEN <<mod>> ELSE <<>>
           P4 == IF ~isCoreOSIPAAvailable(c) THEN <<ipa>> ELSE <<>>
<1>1. \A x \in S : IsContainer(x)
  BY ContainerIsContainer, Zenon
     DEF createInitContainerStaticIpSet, createInitContainerMachineOsDownloader,
         createInitContainerConfigureCoreOSIPA, createInitContainerIpaDownloader
<1>2. /\ sis.name = "metal3-static-ip-set"
      /\ mod.name = "metal3-machine-os-downloader"
      /\ cfg.name = "metal3-configure-coreos-ipa"
      /\ ipa.name = "metal3-ipa-downloader"
  BY DEF createInitContainerStaticIpSet, createInitContainerMachineOsDownloader,
         createInitContainerConfigureCoreOSIPA, createInitContainerIpaDownloader,
         Container
<1>3. newMetal3InitContainers(c, p) = injectProxyAndCA(((P1 \o P2) \o P3) \o P4, p)
  BY DEF newMetal3InitContainers
<1> HIDE DEF sis, mod, cfg, ipa
<1>4. /\ <<>> \in Seq(S) /\ <<sis>> \in Seq(S) /\ <<mod>> \in Seq(S)
      /\ <<cfg>> \in Seq(S) /\ <<ipa>> \in Seq(S)
  BY DEF S
<1> HIDE DEF S
<1>5. /\ LiveImageInitContainers(c) \in Seq(S)
      /\ Names(LiveImageInitContainers(c))
           = {mod.name} \cup (IF c.isoURL THEN {cfg.name} ELSE {})
  <2> DEFINE iso == IF c.isoURL THEN <<cfg>> ELSE <<>>
  <2>1. iso \in Seq(S)
    BY <1>4
  <2>1a. Names(iso) = IF c.isoURL THEN {cfg.name} ELSE {}
    BY NamesShort
  <2>2. Names(<<mod>>) = {mod.name}
    BY NamesShort
  <2>3. LiveImageInitContainers(c) = <<mod>> \o iso
    BY DEF LiveImageInitContainers, mod, cfg
  <2> HIDE DEF iso
  <2>4. <<mod>> \o iso \in Seq(S)
        /\ Names(<<mod>> \o iso) = Names(<<mod>>) \cup Names(iso)
    BY <1>4, <2>1, NamesConcat
  <2>. QED
    BY <2>1a, <2>2, <2>3, <2>4
<1>6a. P1 \in Seq(S) /\ P2 \in Seq(S) /\ P3 \in Seq(S) /\ P4 \in Seq(S)
  BY <1>4, <1>5
<1>6. /\ Names(P1) = IF StaticIpWanted(c) THEN {sis.name} ELSE {}
      /\ Names(P2) = IF HasLiveURLs(c)
                     THEN {mod.name} \cup (IF c.isoURL THEN {cfg.name} ELSE {})
                     ELSE {}
      /\ Names(P3) = IF c.osDownloadURL THEN {mod.name} ELSE {}
      /\ Names(P4) = IF ~isCoreOSIPAAvailable(c) THEN {ipa.name} ELSE {}
  BY <1>5, NamesShort
<1> HIDE DEF P1, P2, P3, P4
<1> DEFINE Q12 == P1 \o P2
           Q123 == Q12 \o P3
           Q == Q123 \o P4
<1>7. Names(injectProxyAndCA(Q, p))
        = Names(P1) \cup Names(P2) \cup Names(P3) \cup Names(P4)
  <2>1. Q12 \in Seq(S) /\ Names(Q12) = Names(P1) \cup Names(P2)
    BY <1>6a, NamesConcat
  <2> HIDE DEF Q12
  <2>2. Q123 \in Seq(S) /\ Names(Q123) = Names(Q12) \cup Names(P3)
    BY <1>6a, <2>1, NamesConcat
  <2> HIDE DEF Q123
  <2>3. Q \in Seq(S) /\ Names(Q) = Names(Q123) \cup Names(P4)
    BY <1>6a, <2>2, NamesConcat
  <2> HIDE DEF Q
  <2>4. Names(injectProxyAndCA(Q, p)) = Names(Q)
    BY <1>1, <2>3, NamesInject, Zenon
  <2>. QED
    BY <2>1, <2>2, <2>3, <2>4
<1> HIDE DEF Q12, Q123, Q
<1>. QED
  BY <1>2, <1>3, <1>6, <1>7 DEF Q12, Q123, Q

\* The static-IP init container is included exactly when StaticIpWanted
\* holds: no other init container has its name.
LEMMA StaticIpSetIncluded ==
    ASSUME NEW c \in ProvisioningSpec, NEW p
    PROVE  "metal3-static-ip-set" \in Names(newMetal3InitContainers(c, p))
             <=> StaticIpWanted(c)
BY InitNames

\* The static-IP manager is included exactly when its own gate,
\* StaticIpManagerWanted, holds, and
\* dnsmasq exactly when the provisioning network is enabled.
LEMMA ManagerAndDnsmasqIncluded ==
    ASSUME NEW c \in ProvisioningSpec, NEW p
    PROVE  /\ "metal3-static-ip-manager" \in Names(newMetal3Containers(c, p))
                <=> StaticIpManagerWanted(c)
           /\ "metal3-dnsmasq" \in Names(newMetal3Containers(c, p))
                <=> c.network # "Disabled"
<1> DEFINE bmo == createContainerMetal3BaremetalOperator(c)
           mdb == createContainerMetal3Mariadb
           htd == createContainerMetal3Httpd(c)
           cnd == createContainerMetal3IronicConductor(c)
           irl == createContainerIronicInspectorRamdiskLogs
           api == createContainerMetal3IronicApi(c)
           drl == createContainerIronicDeployRamdiskLogs
           ins == createContainerMetal3IronicInspector(c)
           sim == createContainerMetal3StaticIpManager(c)
           dns == createContainerMetal3Dnsmasq(c)
           S == {bmo, mdb, htd, cnd, irl, api, drl, ins, sim, dns}
           B == <<bmo, mdb, htd, cnd, irl, api, drl, ins>>
           P1 == IF StaticIpManagerWanted(c) THEN <<sim>> ELSE <<>>
           P2 == IF c.network # "Disabled" THEN <<dns>> ELSE <<>>
<1>1. \A x \in S : IsContainer(x)
  BY ContainerIsContainer, Zenon
     DEF createContainerMetal3BaremetalOperator, createContainerMetal3Mariadb,
         createContainerMetal3Httpd, createContainerMetal3IronicConductor,
         createContainerIronicInspectorRamdiskLogs, createContainerMetal3IronicApi,
         createContainerIronicDeployRamdiskLogs, createContainerMetal3IronicInspector,
         createContainerMetal3StaticIpManager, createContainerMetal3Dnsmasq
<1>2. /\ sim.name = "metal3-static-ip-manager"
      /\ dns.name = "metal3-dnsmasq"
      /\ \A x \in {bmo, mdb, htd, cnd, irl, api, drl, ins} :
            x.name \notin {"metal3-static-ip-manager", "metal3-dnsmasq"}
  BY DEF createContainerMetal3BaremetalOperator, createContainerMetal3Mariadb,
         createContainerMetal3Httpd, createContainerMetal3IronicConductor,
         createContainerIronicInspectorRamdiskLogs, createContainerMetal3IronicApi,
         createContainerIronicDeployRamdiskLogs, createContainerMetal3IronicInspector,
         createContainerMetal3StaticIpManager, createContainerMetal3Dnsmasq,
         Container
<1>3. newMetal3Containers(c, p) = injectProxyAndCA((B \o P1) \o P2, p)
  BY DEF newMetal3Containers
<1> HIDE DEF bmo, mdb, htd, cnd, irl, api, drl, ins, sim, dns
<1>4. B \in Seq(S) /\ P1 \in Seq(S) /\ P2 \in Seq(S)
  <2>1. B \in [1..8 -> S]
    BY DEF B, S
  <2>2. B \in Seq(S)
    BY <2>1, SeqDef, Zenon
  <2>3. <<sim>> \in Seq(S) /\ <<dns>> \in Seq(S) /\ <<>> \in Seq(S)
    BY DEF S
  <2>4. P1 \in Seq(S)
    BY <2>3 DEF P1
  <2>5. P2 \in Seq(S)
    BY <2>3 DEF P2
  <2>. QED
    BY <2>2, <2>4, <2>5
<1>4b. \A i \in 1..Len(B) : B[i] \in {bmo, mdb, htd, cnd, irl, api, drl, ins}
  BY DEF B
<1>5. /\ Names(P1) = IF StaticIpManagerWanted(c) THEN {sim.name} ELSE {}
      /\ Names(P2) = IF c.network # "Disabled" THEN {dns.name} ELSE {}
  BY NamesShort
<1> HIDE DEF S, B, P1, P2
<1> DEFINE Q1 == B \o P1
           Q == Q1 \o P2
<1>6. Names(injectProxyAndCA(Q, p)) = Names(B) \cup Names(P1) \cup Names(P2)
  <2>1. Q1 \in Seq(S) /\ Names(Q1) = Names(B) \cup Names(P1)
    BY <1>4, NamesConcat
  <2> HIDE DEF Q1
  <2>2. Q \in Seq(S) /\ Names(Q) = Names(Q1) \cup Names(P2)
    BY <1>4, <2>1, NamesConcat
  <2> HIDE DEF Q
  <2>3. Names(injectProxyAndCA(Q, p)) = Names(Q)
    BY <1>1, <2>2, NamesInject, Zenon
  <2>. QED
    BY <2>1, <2>2, <2>3
<1>7. Names(newMetal3Containers(c, p)) = Names(B) \cup Names(P1) \cup Names(P2)
  BY <1>3, <1>6
<1> HIDE DEF Q1, Q
<1>8. "metal3-static-ip-manager" \notin Names(B) /\ "metal3-dnsmasq" \notin Names(B)
  BY <1>2, <1>4b DEF Names
<1>. QED
  BY <1>2, <1>5, <1>7, <1>8


-----------------------------------------------------------------------------
(* The order of the init containers.                                       *)

\* Every CoreOS configurator in cs comes right after a machine-OS
\* downloader.
CfgFollowsDl(cs) ==
    \A i \in 1..Len(cs) :
        cs[i].name = "metal3-configure-coreos-ipa" =>
            /\ i > 1
            /\ cs[i - 1].name = "metal3-machine-os-downloader"

\* Appending keeps every configurator right after its downloader.
LEMMA CfgConcat ==
    ASSUME NEW S, NEW s \in Seq(S), NEW t \in Seq(S),
           CfgFollowsDl(s), CfgFollowsDl(t)
    PROVE  /\ s \o t \in Seq(S)
           /\ CfgFollowsDl(s \o t)
<1>1. /\ s \o t \in Seq(S)
      /\ Len(s \o t) = Len(s) + Len(t)
      /\ \A i \in 1 .. Len(s) + Len(t) :
            (s \o t)[i] = IF i <= Len(s) THEN s[i] ELSE t[i - Len(s)]
  BY ConcatProperties
<1>2. Len(s) \in Nat /\ Len(t) \in Nat
  BY LenProperties
<1> SUFFICES ASSUME NEW i \in 1..Len(s \o t),
                    (s \o t)[i].name = "metal3-configure-coreos-ipa"
             PROVE  /\ i > 1
                    /\ (s \o t)[i - 1].name = "metal3-machine-os-downloader"
  BY <1>1 DEF CfgFollowsDl
<1>3. CASE i <= Len(s)
  <2>1. s[i].name = "metal3-configure-coreos-ipa"
    BY <1>1, <1>2, <1>3
  <2>2. i > 1 /\ s[i - 1].name = "metal3-machine-os-downloader"
    BY <1>2, <1>3, <2>1 DEF CfgFollowsDl
  <2>. QED
    BY <1>1, <1>2, <1>3, <2>2
<1>4. CASE ~(i <= Len(s))
  <2> DEFINE k == i - Len(s)
  <2>1. k \in 1..Len(t) /\ t[k].name = "metal3-configure-coreos-ipa"
    BY <1>1, <1>2, <1>4
  <2>2. k > 1 /\ t[k - 1].name = "metal3-machine-os-downloader"
    BY <2>1 DEF CfgFollowsDl
  <2>. QED
    BY <1>1, <1>2, <1>4, <2>2
<1>. QED
  BY <1>1, <1>3, <1>4

\* The injection keeps the length and every container's name.
LEMMA InjectNameAt ==
    ASSUME NEW S, NEW cs \in Seq(S), \A x \in S : IsContainer(x), NEW p
    PROVE  /\ Len(injectProxyAndCA(cs, p)) = Len(cs)
           /\ \A i \in 1..Len(cs) :
                 injectProxyAndCA(cs, p)[i].name = cs[i].name
<1>1. Len(cs) \in Nat /\ DOMAIN cs = 1..Len(cs)
  BY LenProperties
<1>2. ASSUME NEW i \in 1..Len(cs)
      PROVE  injectProxyAndCA(cs, p)[i].name = cs[i].name
  <2>1. IsContainer(cs[i])
    BY ElementOfSeq
  <2>. QED
    BY <2>1 DEF injectProxyAndCA, IsContainer
<1>3. DOMAIN injectProxyAndCA(cs, p) = 1..Len(cs)
  BY DEF injectProxyAndCA
<1>4. Len(injectProxyAndCA(cs, p)) = Len(cs)
  BY <1>1, <1>3 DEF injectProxyAndCA
<1>. QED
  BY <1>2, <1>4

\* The injection keeps every configurator right after its downloader.
LEMMA CfgInject ==
    ASSUME NEW S, NEW cs \in Seq(S), \A x \in S : IsContainer(x), NEW p,
           CfgFollowsDl(cs)
    PROVE  CfgFollowsDl(injectProxyAndCA(cs, p))
<1>1. Len(cs) \in Nat
  BY LenProperties
<1>. QED
  BY <1>1, InjectNameAt DEF CfgFollowsDl

\* newMetal3InitContainers puts the CoreOS configurator only inside
\* LiveImageInitContainers (lines 274-282), right after its downloader.
LEMMA InitOrder ==
    ASSUME NEW c \in ProvisioningSpec, NEW p
    PROVE  CfgFollowsDl(newMetal3InitContainers(c, p))
<1> DEFINE sis == createInitContainerStaticIpSet(c)
           mod == createInitContainerMachineOsDownloader
           cfg == createInitContainerConfigureCoreOSIPA(c)
           ipa == createInitContainerIpaDownloader
           S == {sis, mod, cfg, ipa}
           P1 == IF StaticIpWanted(c) THEN <<sis>> ELSE <<>>
           P2 == IF HasLiveURLs(c) THEN LiveImageInitContainers(c) ELSE <<>>
           P3 == IF c.osDownloadURL THEN <<mod>> ELSE <<>>
           P4 == IF ~isCoreOSIPAAvailable(c) THEN <<ipa>> ELSE <<>>
<1>1. \A x \in S : IsContainer(x)
  BY ContainerIsContainer, Zenon
     DEF createInitContainerStaticIpSet, createInitContainerMachineOsDownloader,
         createInitContainerConfigureCoreOSIPA, createInitContainerIpaDownloader
<1>2. /\ sis.name = "metal3-static-ip-set"
      /\ mod.name = "metal3-machine-os-downloader"
      /\ cfg.name = "metal3-configure-coreos-ipa"
      /\ ipa.name = "metal3-ipa-downloader"
  BY DEF createInitContainerStaticIpSet, createInitContainerMachineOsDownloader,
         createInitContainerConfigureCoreOSIPA, createInitContainerIpaDownloader,
         Container
<1>3. newMetal3InitContainers(c, p) = injectProxyAndCA(((P1 \o P2) \o P3) \o P4, p)
  BY DEF newMetal3InitContainers
<1> HIDE DEF sis, mod, cfg, ipa
<1>3a. /\ <<>> \in Seq(S) /\ <<sis>> \in Seq(S) /\ <<mod>> \in Seq(S)
       /\ <<cfg>> \in Seq(S) /\ <<ipa>> \in Seq(S)
  BY DEF S
<1>4. LiveImageInitContainers(c) \in Seq(S) /\ CfgFollowsDl(LiveImageInitContainers(c))
  <2> DEFINE iso == IF c.isoURL THEN <<cfg>> ELSE <<>>
  <2>1. LiveImageInitContainers(c) = <<mod>> \o iso
    BY DEF LiveImageInitContainers, mod, cfg
  <2>2. iso \in Seq(S) /\ <<mod>> \in Seq(S)
    BY <1>3a
  <2> HIDE DEF iso
  <2>3. /\ <<mod>> \o iso \in Seq(S)
        /\ Len(<<mod>> \o iso) = 1 + Len(iso)
        /\ \A i \in 1 .. 1 + Len(iso) :
              (<<mod>> \o iso)[i] = IF i <= 1 THEN mod ELSE iso[i - 1]
    BY <2>2, ConcatProperties
  <2>4. Len(iso) \in {0, 1} /\ (Len(iso) = 1 => iso[1] = cfg)
    BY DEF iso
  <2>5. CfgFollowsDl(<<mod>> \o iso)
    BY <1>2, <2>3, <2>4 DEF CfgFollowsDl
  <2>. QED
    BY <2>1, <2>3, <2>5
<1>5. /\ P1 \in Seq(S) /\ P2 \in Seq(S) /\ P3 \in Seq(S) /\ P4 \in Seq(S)
  BY <1>3a, <1>4
<1>6. /\ CfgFollowsDl(P1) /\ CfgFollowsDl(P2)
      /\ CfgFollowsDl(P3) /\ CfgFollowsDl(P4)
  BY <1>2, <1>4 DEF CfgFollowsDl
<1> HIDE DEF S, P1, P2, P3, P4
<1> DEFINE Q12 == P1 \o P2
           Q123 == Q12 \o P3
           Q == Q123 \o P4
<1>7. Q \in Seq(S) /\ CfgFollowsDl(Q)
  <2>1. Q12 \in Seq(S) /\ CfgFollowsDl(Q12)
    BY <1>5, <1>6, CfgConcat
  <2> HIDE DEF Q12
  <2>2. Q123 \in Seq(S) /\ CfgFollowsDl(Q123)
    BY <1>5, <1>6, <2>1, CfgConcat
  <2> HIDE DEF Q123
  <2>. QED
    BY <1>5, <1>6, <2>2, CfgConcat
<1> HIDE DEF Q12, Q123, Q
<1>8. CfgFollowsDl(injectProxyAndCA(Q, p))
  BY <1>1, <1>7, CfgInject, Zenon
<1>. QED
  BY <1>3, <1>8 DEF Q12, Q123, Q

-----------------------------------------------------------------------------
(* The invariant over every reachable input.                               *)

\* The input is a Provisioning spec and a cluster proxy.
InputOK == config \in ProvisioningSpec /\ proxy \in Proxies

LEMMA InitInputOK == Init => InputOK
BY DEF Init, InputOK

\* Editing one field of the spec, or the proxy, keeps the input well formed.
LEMMA NextInputOK == InputOK /\ [Next]_vars => InputOK'
<1> SUFFICES ASSUME InputOK, [Next]_vars PROVE InputOK'
  OBVIOUS
<1>1. CASE EditProvisioning
  <2>1. CASE \E m \in NetworkModes \ {config.network} :
               config' = [config EXCEPT !.network = m]
    BY <1>1, <2>1 DEF EditProvisioning, InputOK, ProvisioningSpec
  <2>2. CASE \E f \in DOMAIN config \ {"network"} :
               config' = [config EXCEPT ![f] = ~@]
    BY <1>1, <2>2 DEF EditProvisioning, InputOK, ProvisioningSpec
  <2>. QED
    BY <1>1, <2>1, <2>2 DEF EditProvisioning
<1>2. CASE EditProxy
  BY <1>2 DEF EditProxy, InputOK
<1>3. CASE UNCHANGED vars
  BY <1>3 DEF vars, InputOK
<1>. QED
  BY <1>1, <1>2, <1>3 DEF Next

\* The pod rendered from a well-formed input pairs its network containers.
LEMMA InputPaired == InputOK => NetworkContainersPaired
<1> SUFFICES ASSUME InputOK PROVE NetworkContainersPaired
  OBVIOUS
<1>1. config \in ProvisioningSpec
  BY DEF InputOK
<1>2. /\ Pod.initContainers = newMetal3InitContainers(config, proxy)
      /\ Pod.containers = newMetal3Containers(config, proxy)
  BY DEF Pod, newMetal3PodTemplateSpec
<1>3. /\ StaticIpWanted(config) <=> StaticIpManagerWanted(config)
      /\ StaticIpManagerWanted(config) => config.network # "Disabled"
  BY DEF StaticIpWanted, StaticIpManagerWanted
<1>. QED
  BY <1>1, <1>2, <1>3, StaticIpSetIncluded, ManagerAndDnsmasqIncluded
  DEF NetworkContainersPaired

\* The two copies of the static-IP gate, in newMetal3InitContainers
\* (baremetal_pod.go line 267) and newMetal3Containers (line 445), agree,
\* and the second implies dnsmasq's gate (line 449): for every Provisioning
\* spec and proxy reachable by edits, the static-IP init container comes
\* exactly with the static-IP manager, and the manager only with dnsmasq.
THEOREM NetworkContainersPairedHolds == Spec => []NetworkContainersPaired
<1>1. Spec => []InputOK
  BY InitInputOK, NextInputOK, PTL DEF Spec
<1>. QED
  BY <1>1, InputPaired, PTL

\* The CoreOS configurator embeds the agent into the ISO that the
\* machine-OS downloader fetched; init containers run in order, and for
\* every Provisioning spec and proxy it comes after such a downloader.
LEMMA InputOrdered == InputOK => ConfigureAfterDownload
<1> SUFFICES ASSUME InputOK PROVE ConfigureAfterDownload
  OBVIOUS
<1> DEFINE ics == Pod.initContainers
<1>1. CfgFollowsDl(ics)
  <2>1. config \in ProvisioningSpec
    BY DEF InputOK
  <2>2. ics = newMetal3InitContainers(config, proxy)
    BY DEF Pod, newMetal3PodTemplateSpec
  <2>. QED
    BY <2>1, <2>2, InitOrder
<1>2. ASSUME NEW i \in 1..Len(ics),
             ics[i].name = "metal3-configure-coreos-ipa"
      PROVE  \E j \in 1..(i - 1) :
                ics[j].name = "metal3-machine-os-downloader"
  <2>1. i > 1 /\ ics[i - 1].name = "metal3-machine-os-downloader"
    BY <1>1, <1>2 DEF CfgFollowsDl
  <2>. QED
    BY <2>1
<1>. QED
  BY <1>2 DEF ConfigureAfterDownload

\* For every Provisioning spec and proxy, newMetal3InitContainers never
\* runs the CoreOS configurator before the image it configures is fetched.
THEOREM ConfigureAfterDownloadHolds == Spec => []ConfigureAfterDownload
<1>1. Spec => []InputOK
  BY InitInputOK, NextInputOK, PTL DEF Spec
<1>. QED
  BY <1>1, InputOrdered, PTL

=============================================================================
