------------------------- MODULE Metal3PodContainerProofs -------------------------
(***************************************************************************)
(* Proofs, for every Provisioning spec and cluster proxy, of the pod       *)
(* properties that are about every single container: MountsDeclared,      *)
(* EnvNamesUnique and ProxyAndCAUniform.  Each builder returns a container *)
(* whose mounts are declared volumes other than the trusted CA, and whose *)
(* environment has distinct names, none of them a proxy variable          *)
(* (BuilderOK).  injectProxyAndCA then appends the proxy variables and    *)
(* the trusted-CA mount to each one (InjectOne), and the properties follow *)
(* element by element.                                                     *)
(***************************************************************************)
EXTENDS Metal3PodProofs

-----------------------------------------------------------------------------
(* Environments.                                                           *)

\* The kinds of value a variable gets, and the names the builders use.
Kinds == {"value", "field", "hostIP", "secret", "unset"}
BaseEnvNames ==
    {"DEPLOY_KERNEL_URL", "DEPLOY_RAMDISK_URL", "DHCP_RANGE",
     "HTTP_BASIC_HTPASSWD", "HTTP_PORT", "IP_OPTIONS",
     "IRONIC_AGENT_PULL_SECRET", "IRONIC_CACERT_FILE", "IRONIC_ENDPOINT",
     "IRONIC_EXTERNAL_IP", "IRONIC_INSECURE", "IRONIC_INSPECTOR_ENDPOINT",
     "IRONIC_INSPECTOR_INSECURE", "IRONIC_RAMDISK_SSH_KEY",
     "MACHINE_OS_IMAGE_URL", "MARIADB_PASSWORD", "METAL3_AUTH_ROOT_DIR",
     "OPERATOR_NAME", "POD_NAME", "POD_NAMESPACE", "PROVISIONING_INTERFACE",
     "PROVISIONING_IP", "PROVISIONING_MACS", "WATCH_NAMESPACE"}

\* An environment variable: a name and the kind of value it gets.
EnvVal == [name : BaseEnvNames \cup ProxyFields, src : Kinds]

\* No two variables of env have the same name.
Distinct(env) ==
    \A j, k \in 1..Len(env) : j # k => env[j].name # env[k].name

\* Two environments with distinct names each, and no name in common, have
\* distinct names together.
LEMMA DistinctConcat ==
    ASSUME NEW S, NEW s \in Seq(S), NEW t \in Seq(S),
           Distinct(s), Distinct(t), Names(s) \cap Names(t) = {}
    PROVE  Distinct(s \o t)
<1>1. /\ Len(s \o t) = Len(s) + Len(t)
      /\ \A i \in 1 .. Len(s) + Len(t) :
            (s \o t)[i] = IF i <= Len(s) THEN s[i] ELSE t[i - Len(s)]
  BY ConcatProperties
<1>2. Len(s) \in Nat /\ Len(t) \in Nat
  BY LenProperties
<1> SUFFICES ASSUME NEW j \in 1..Len(s \o t), NEW k \in 1..Len(s \o t), j # k
             PROVE  (s \o t)[j].name # (s \o t)[k].name
  BY DEF Distinct
<1>3. CASE j <= Len(s) /\ k <= Len(s)
  BY <1>1, <1>2, <1>3 DEF Distinct
<1>4. CASE ~(j <= Len(s)) /\ ~(k <= Len(s))
  <2>1. j - Len(s) \in 1..Len(t) /\ k - Len(s) \in 1..Len(t)
        /\ j - Len(s) # k - Len(s)
    BY <1>1, <1>2, <1>4
  <2>. QED
    BY <1>1, <1>2, <1>4, <2>1 DEF Distinct
<1>5. CASE j <= Len(s) /\ ~(k <= Len(s))
  <2>1. k - Len(s) \in 1..Len(t) /\ j \in 1..Len(s)
    BY <1>1, <1>2, <1>5
  <2>2. s[j].name \in Names(s) /\ t[k - Len(s)].name \in Names(t)
    BY <2>1 DEF Names
  <2>. QED
    BY <1>1, <1>2, <1>5, <2>2
<1>6. CASE ~(j <= Len(s)) /\ k <= Len(s)
  <2>1. j - Len(s) \in 1..Len(t) /\ k \in 1..Len(s)
    BY <1>1, <1>2, <1>6
  <2>2. s[k].name \in Names(s) /\ t[j - Len(s)].name \in Names(t)
    BY <2>1 DEF Names
  <2>. QED
    BY <1>1, <1>2, <1>6, <2>2
<1>. QED
  BY <1>3, <1>4, <1>5, <1>6

\* The proxy variables envWithProxy appends: each set field once, named
\* after the field.
LEMMA ProxyEnvFacts ==
    ASSUME NEW p \in Proxies
    PROVE  /\ ProxyEnv(p) \in Seq(EnvVal)
           /\ Distinct(ProxyEnv(p))
           /\ Names(ProxyEnv(p)) \subseteq ProxyFields
<1> DEFINE Pick(f) == IF f \in p.set THEN <<Env(f, "value")>> ELSE <<>>
           A == Pick("HTTP_PROXY")
           B == Pick("HTTPS_PROXY")
           C == Pick("NO_PROXY")
<1>1. ProxyEnv(p) = IF p.isNil THEN <<>> ELSE (A \o B) \o C
  BY DEF ProxyEnv
<1>0. ASSUME NEW f \in ProxyFields
      PROVE  /\ Pick(f) \in Seq(EnvVal)
             /\ Distinct(Pick(f))
             /\ Names(Pick(f)) \subseteq {f}
  <2>2. Env(f, "value") \in EnvVal
    BY DEF Env, EnvVal, Kinds
  <2>3. Pick(f) \in Seq(EnvVal)
    BY <2>2
  <2>4. Distinct(Pick(f))
    BY DEF Distinct
  <2>5. Names(Pick(f)) \subseteq {f}
    BY DEF Names, Env
  <2>. QED
    BY <2>3, <2>4, <2>5
<1>2. /\ A \in Seq(EnvVal) /\ Distinct(A) /\ Names(A) \subseteq {"HTTP_PROXY"}
      /\ B \in Seq(EnvVal) /\ Distinct(B) /\ Names(B) \subseteq {"HTTPS_PROXY"}
      /\ C \in Seq(EnvVal) /\ Distinct(C) /\ Names(C) \subseteq {"NO_PROXY"}
  <2>1. {"HTTP_PROXY", "HTTPS_PROXY", "NO_PROXY"} \subseteq ProxyFields
    BY DEF ProxyFields
  <2>. QED
    BY <1>0, <2>1
<1> HIDE DEF A, B, C
<1>3. /\ A \o B \in Seq(EnvVal) /\ Distinct(A \o B)
      /\ Names(A \o B) \subseteq {"HTTP_PROXY", "HTTPS_PROXY"}
  <2>1. A \o B \in Seq(EnvVal) /\ Names(A \o B) = Names(A) \cup Names(B)
    BY <1>2, NamesConcat
  <2>2. Distinct(A \o B)
    BY <1>2, DistinctConcat
  <2>. QED
    BY <1>2, <2>1, <2>2
<1> DEFINE AB == A \o B
<1> HIDE DEF AB
<1>4. /\ AB \o C \in Seq(EnvVal) /\ Distinct(AB \o C)
      /\ Names(AB \o C) \subseteq ProxyFields
  <2>1. AB \o C \in Seq(EnvVal) /\ Names(AB \o C) = Names(AB) \cup Names(C)
    <3>1. AB \in Seq(EnvVal) /\ C \in Seq(EnvVal)
      BY <1>2, <1>3 DEF AB
    <3>. QED
      BY <3>1, NamesConcat
  <2>2. Distinct(AB \o C)
    BY <1>2, <1>3, <2>1, DistinctConcat DEF AB
  <2>. QED
    BY <1>2, <1>3, <2>1, <2>2 DEF AB, ProxyFields
<1>5. <<>> \in Seq(EnvVal) /\ Distinct(<<>>) /\ Names(<<>>) \subseteq ProxyFields
  BY DEF Distinct, Names
<1>. QED
  BY <1>1, <1>4, <1>5 DEF AB

-----------------------------------------------------------------------------
(* One container, before and after the injection.                          *)

\* The volumes metal3Volumes declares besides the trusted CA bundle.
DeclaredVolumes ==
    {"metal3-shared", "metal3-images", "metal3-ironic-basic-auth",
     "metal3-ironic-rpc-basic-auth", "metal3-inspector-basic-auth",
     "metal3-ironic-tls", "metal3-inspector-tls"}

\* What a builder returns: a container whose mounts are declared volumes
\* other than the trusted CA, and whose variables have distinct names, none
\* of them a proxy variable.
BuilderOK(x) ==
    /\ IsContainer(x)
    /\ x.mounts \in Seq(DeclaredVolumes)
    /\ x.env \in Seq(EnvVal)
    /\ Distinct(x.env)
    /\ Names(x.env) \cap ProxyFields = {}

\* What injectProxyAndCA does to one container.
InjectOne(x, p) ==
    [x EXCEPT !.env = envWithProxy(p, @), !.mounts = mountsWithTrustedCA(@)]

\* After the injection a builder's container mounts only declared volumes,
\* the trusted CA once and last, and ends its environment with exactly the
\* proxy variables, all names distinct.
LEMMA InjectOneOK ==
    ASSUME NEW x, BuilderOK(x), NEW p \in Proxies
    PROVE  LET y == InjectOne(x, p)
               pe == ProxyEnv(p)
           IN  /\ Range(y.mounts) \subseteq Range(metal3Volumes)
               /\ Distinct(y.env)
               /\ Len(pe) <= Len(y.env)
               /\ SubSeq(y.env, Len(y.env) - Len(pe) + 1, Len(y.env)) = pe
               /\ Positions(y.env, LAMBDA e : e.name \in ProxyFields)
                    = (Len(y.env) - Len(pe) + 1)..Len(y.env)
               /\ Positions(y.mounts, LAMBDA m : m = "trusted-ca")
                    = {Len(y.mounts)}
<1> DEFINE b == x.env
           mt == x.mounts
           pe == ProxyEnv(p)
<1>1. /\ b \in Seq(EnvVal) /\ Distinct(b) /\ Names(b) \cap ProxyFields = {}
      /\ mt \in Seq(DeclaredVolumes)
  BY DEF BuilderOK
<1>2. pe \in Seq(EnvVal) /\ Distinct(pe) /\ Names(pe) \subseteq ProxyFields
  BY ProxyEnvFacts
<1>3. InjectOne(x, p).env = b \o pe /\ InjectOne(x, p).mounts = Append(mt, "trusted-ca")
  BY DEF BuilderOK, IsContainer, InjectOne, envWithProxy, mountsWithTrustedCA
<1> HIDE DEF b, mt, pe
<1>4. /\ Len(b \o pe) = Len(b) + Len(pe)
      /\ \A i \in 1 .. Len(b) + Len(pe) :
            (b \o pe)[i] = IF i <= Len(b) THEN b[i] ELSE pe[i - Len(b)]
      /\ Len(b) \in Nat /\ Len(pe) \in Nat /\ DOMAIN pe = 1..Len(pe)
  BY <1>1, <1>2, ConcatProperties, LenProperties
<1>5. Range(Append(mt, "trusted-ca")) \subseteq Range(metal3Volumes)
  <2>1. /\ Len(Append(mt, "trusted-ca")) = Len(mt) + 1
        /\ \A i \in 1..Len(mt) : Append(mt, "trusted-ca")[i] = mt[i]
        /\ Append(mt, "trusted-ca")[Len(mt) + 1] = "trusted-ca"
        /\ DOMAIN Append(mt, "trusted-ca") = 1..Len(mt) + 1
        /\ Len(mt) \in Nat
    BY <1>1, AppendProperties, LenProperties DEF DeclaredVolumes
  <2>2. \A i \in 1..Len(mt) : mt[i] \in DeclaredVolumes
    BY <1>1, ElementOfSeq
  <2>. QED
    BY <2>1, <2>2 DEF Range, metal3Volumes, DeclaredVolumes
<1>6. Distinct(b \o pe)
  <2>1. Names(b) \cap Names(pe) = {}
    BY <1>1, <1>2
  <2>. QED
    BY <1>1, <1>2, <2>1, DistinctConcat
<1>7. SubSeq(b \o pe, Len(b \o pe) - Len(pe) + 1, Len(b \o pe)) = pe
  <2> DEFINE bp == b \o pe
             lo == Len(b) + 1
             hi == Len(b) + Len(pe)
  <2>1. bp \in Seq(EnvVal)
    BY <1>1, <1>2, ConcatProperties
  <2>2. Len(bp) - Len(pe) + 1 = lo /\ Len(bp) = hi /\ lo \in Int /\ hi \in Int
        /\ lo >= 1
    BY <1>4
  <2> HIDE DEF bp, lo, hi
  <2>3. \A i \in lo..hi : bp[i] \in EnvVal
    BY <2>1, <2>2, ElementOfSeq
  <2>4. /\ SubSeq(bp, lo, hi) \in Seq(EnvVal)
        /\ Len(SubSeq(bp, lo, hi)) = IF lo <= hi THEN hi - lo + 1 ELSE 0
        /\ \A i \in 1..hi - lo + 1 : SubSeq(bp, lo, hi)[i] = bp[lo + i - 1]
    BY <2>2, <2>3, SubSeqProperties
  <2>5. Len(SubSeq(bp, lo, hi)) = Len(pe)
        /\ \A i \in 1..Len(pe) : SubSeq(bp, lo, hi)[i] = pe[i]
    BY <1>4, <2>4 DEF bp, lo, hi
  <2>6. SubSeq(bp, lo, hi) = pe
    BY <1>2, <2>4, <2>5, SeqEqual
  <2>. QED
    BY <2>2, <2>6 DEF bp
<1>8. Positions(b \o pe, LAMBDA e : e.name \in ProxyFields)
        = (Len(b \o pe) - Len(pe) + 1)..Len(b \o pe)
  <2>1. \A i \in 1..Len(b) : b[i].name \notin ProxyFields
    BY <1>1, <1>4 DEF Names
  <2>2. \A i \in 1..Len(pe) : pe[i].name \in ProxyFields
    BY <1>2, <1>4 DEF Names
  <2>. QED
    BY <1>4, <2>1, <2>2 DEF Positions
<1>9. Positions(Append(mt, "trusted-ca"), LAMBDA m : m = "trusted-ca")
        = {Len(Append(mt, "trusted-ca"))}
  <2>1. /\ Len(Append(mt, "trusted-ca")) = Len(mt) + 1
        /\ \A i \in 1..Len(mt) : Append(mt, "trusted-ca")[i] = mt[i]
        /\ Append(mt, "trusted-ca")[Len(mt) + 1] = "trusted-ca"
        /\ Len(mt) \in Nat
    BY <1>1, AppendProperties, LenProperties DEF DeclaredVolumes
  <2>2. \A i \in 1..Len(mt) : mt[i] # "trusted-ca"
    BY <1>1, ElementOfSeq DEF DeclaredVolumes
  <2>. QED
    BY <2>1, <2>2 DEF Positions
<1>10. /\ Range(InjectOne(x, p).mounts) \subseteq Range(metal3Volumes)
       /\ Distinct(InjectOne(x, p).env)
  BY <1>3, <1>5, <1>6
<1>11. /\ Len(pe) <= Len(InjectOne(x, p).env)
       /\ SubSeq(InjectOne(x, p).env, Len(InjectOne(x, p).env) - Len(pe) + 1,
                 Len(InjectOne(x, p).env)) = pe
  BY <1>3, <1>4, <1>7
<1>12. Positions(InjectOne(x, p).env, LAMBDA e : e.name \in ProxyFields)
         = (Len(InjectOne(x, p).env) - Len(pe) + 1)..Len(InjectOne(x, p).env)
  BY <1>3, <1>8
<1>13. Positions(InjectOne(x, p).mounts, LAMBDA m : m = "trusted-ca")
         = {Len(InjectOne(x, p).mounts)}
  BY <1>3, <1>9
<1>. QED
  BY <1>10, <1>11, <1>12, <1>13 DEF pe

-----------------------------------------------------------------------------
(* The builders.                                                           *)

\* Every environment composer returns a variable of the name it is given.
LEMMA ComposersOK ==
    ASSUME NEW c \in ProvisioningSpec, NEW n \in BaseEnvNames
    PROVE  /\ buildEnvVar(n, c) = Env(n, buildEnvVar(n, c).src)
           /\ buildEnvVar(n, c) \in EnvVal
           /\ setIronicHtpasswdHash(n) = Env(n, "secret")
           /\ setIronicHtpasswdHash(n) \in EnvVal
           /\ setIronicExternalIp(n, c) = Env(n, setIronicExternalIp(n, c).src)
           /\ setIronicExternalIp(n, c) \in EnvVal
           /\ getWatchNamespace(c) = Env("WATCH_NAMESPACE", getWatchNamespace(c).src)
           /\ getWatchNamespace(c) \in EnvVal
           /\ \A k \in Kinds : Env(n, k) \in EnvVal
BY DEF buildEnvVar, setIronicHtpasswdHash, setIronicExternalIp,
       getWatchNamespace, Env, EnvVal, Kinds, BaseEnvNames

\* The init containers and containers the builders return for c.
InitBuilders(c) ==
    {createInitContainerStaticIpSet(c),
     createInitContainerMachineOsDownloader,
     createInitContainerConfigureCoreOSIPA(c),
     createInitContainerIpaDownloader}
ContainerBuilders(c) ==
    {createContainerMetal3BaremetalOperator(c),
     createContainerMetal3Mariadb,
     createContainerMetal3Httpd(c),
     createContainerMetal3IronicConductor(c),
     createContainerIronicInspectorRamdiskLogs,
     createContainerMetal3IronicApi(c),
     createContainerIronicDeployRamdiskLogs,
     createContainerMetal3IronicInspector(c),
     createContainerMetal3StaticIpManager(c),
     createContainerMetal3Dnsmasq(c)}

\* Every builder returns a container whose mounts are declared volumes
\* other than the trusted CA and whose variables have distinct names, none
\* of them a proxy variable: the proxy variables and the CA mount are only
\* ever added by injectProxyAndCA.
LEMMA AllBuildersOK ==
    ASSUME NEW c \in ProvisioningSpec
    PROVE  \A x \in InitBuilders(c) \cup ContainerBuilders(c) : BuilderOK(x)
<1> USE DEF BuilderOK, IsContainer, Container, DeclaredVolumes, EnvVal, Kinds,
            BaseEnvNames, Distinct, Names, ProxyFields, Env,
            envWithMasterMacAddresses, mariadbPassword, buildSSHKeyEnvVar,
            pullSecret, buildEnvVar, setIronicHtpasswdHash, setIronicExternalIp,
            getWatchNamespace, sharedVolumeMount, imageVolumeMount,
            ironicCredentialsMount, rpcCredentialsMount,
            inspectorCredentialsMount, ironicTlsMount, inspectorTlsMount
<1>1. BuilderOK(createInitContainerStaticIpSet(c))
  BY DEF createInitContainerStaticIpSet
<1>2. BuilderOK(createInitContainerMachineOsDownloader)
  BY DEF createInitContainerMachineOsDownloader
<1>3. BuilderOK(createInitContainerConfigureCoreOSIPA(c))
  BY DEF createInitContainerConfigureCoreOSIPA
<1>4. BuilderOK(createInitContainerIpaDownloader)
  BY DEF createInitContainerIpaDownloader
<1>5. BuilderOK(createContainerMetal3BaremetalOperator(c))
  BY DEF createContainerMetal3BaremetalOperator
<1>6. BuilderOK(createContainerMetal3Mariadb)
  BY DEF createContainerMetal3Mariadb
<1>7. BuilderOK(createContainerMetal3Httpd(c))
  BY DEF createContainerMetal3Httpd
<1>8. BuilderOK(createContainerMetal3IronicConductor(c))
  BY DEF createContainerMetal3IronicConductor
<1>9. BuilderOK(createContainerIronicInspectorRamdiskLogs)
  BY DEF createContainerIronicInspectorRamdiskLogs
<1>10. BuilderOK(createContainerMetal3IronicApi(c))
  BY DEF createContainerMetal3IronicApi
<1>11. BuilderOK(createContainerIronicDeployRamdiskLogs)
  BY DEF createContainerIronicDeployRamdiskLogs
<1>12. BuilderOK(createContainerMetal3IronicInspector(c))
  BY DEF createContainerMetal3IronicInspector
<1>13. BuilderOK(createContainerMetal3StaticIpManager(c))
  BY DEF createContainerMetal3StaticIpManager
<1>14. BuilderOK(createContainerMetal3Dnsmasq(c))
  BY DEF createContainerMetal3Dnsmasq
<1> HIDE DEF BuilderOK
<1>. QED
  BY <1>1, <1>2, <1>3, <1>4, <1>5, <1>6, <1>7, <1>8, <1>9, <1>10, <1>11, <1>12, <1>13, <1>14 DEF InitBuilders, ContainerBuilders

-----------------------------------------------------------------------------
(* The rendered pod, container by container.                               *)

\* injectProxyAndCA applies InjectOne to every element.
LEMMA InjectSeq ==
    ASSUME NEW S, NEW cs \in Seq(S), NEW p, NEW T,
           \A x \in S : InjectOne(x, p) \in T
    PROVE  /\ injectProxyAndCA(cs, p) \in Seq(T)
           /\ Len(injectProxyAndCA(cs, p)) = Len(cs)
           /\ \A i \in 1..Len(cs) : injectProxyAndCA(cs, p)[i] = InjectOne(cs[i], p)
<1>1. Len(cs) \in Nat /\ \A i \in 1..Len(cs) : cs[i] \in S
  BY LenProperties, ElementOfSeq
<1>2. \A i \in 1..Len(cs) : injectProxyAndCA(cs, p)[i] = InjectOne(cs[i], p)
  BY DEF injectProxyAndCA, InjectOne
<1>3. injectProxyAndCA(cs, p) \in [1..Len(cs) -> T]
  BY <1>1, <1>2 DEF injectProxyAndCA, InjectOne
<1>4. injectProxyAndCA(cs, p) \in Seq(T)
  BY <1>1, <1>3, SeqDef, Zenon
<1>5. Len(injectProxyAndCA(cs, p)) = Len(cs)
  BY <1>1, <1>3, <1>4, LenProperties
<1>. QED
  BY <1>2, <1>4, <1>5

\* The init containers and the containers are the injection of lists of
\* builder results.
LEMMA RenderedFromBuilders ==
    ASSUME NEW c \in ProvisioningSpec, NEW p
    PROVE  /\ \E ri \in Seq(InitBuilders(c)) :
                 newMetal3InitContainers(c, p) = injectProxyAndCA(ri, p)
           /\ \E rc \in Seq(ContainerBuilders(c)) :
                 newMetal3Containers(c, p) = injectProxyAndCA(rc, p)
<1>1. \E ri \in Seq(InitBuilders(c)) :
         newMetal3InitContainers(c, p) = injectProxyAndCA(ri, p)
  <2> DEFINE sis == createInitContainerStaticIpSet(c)
             mod == createInitContainerMachineOsDownloader
             cfg == createInitContainerConfigureCoreOSIPA(c)
             ipa == createInitContainerIpaDownloader
             S == InitBuilders(c)
             P1 == IF StaticIpWanted(c) THEN <<sis>> ELSE <<>>
             P2 == IF HasLiveURLs(c) THEN LiveImageInitContainers(c) ELSE <<>>
             P3 == IF c.osDownloadURL THEN <<mod>> ELSE <<>>
             P4 == IF ~isCoreOSIPAAvailable(c) THEN <<ipa>> ELSE <<>>
  <2>1. newMetal3InitContainers(c, p) = injectProxyAndCA(((P1 \o P2) \o P3) \o P4, p)
    BY DEF newMetal3InitContainers
  <2>2. LiveImageInitContainers(c) = <<mod>> \o (IF c.isoURL THEN <<cfg>> ELSE <<>>)
    BY DEF LiveImageInitContainers
  <2> HIDE DEF sis, mod, cfg, ipa
  <2>3. /\ <<>> \in Seq(S) /\ <<sis>> \in Seq(S) /\ <<mod>> \in Seq(S)
        /\ <<cfg>> \in Seq(S) /\ <<ipa>> \in Seq(S)
    BY DEF S, InitBuilders, sis, mod, cfg, ipa
  <2> HIDE DEF S
  <2>4. LiveImageInitContainers(c) \in Seq(S)
    <3>1. (IF c.isoURL THEN <<cfg>> ELSE <<>>) \in Seq(S)
      BY <2>3
    <3>. QED
      BY <2>2, <2>3, <3>1, ConcatProperties
  <2>5. P1 \in Seq(S) /\ P2 \in Seq(S) /\ P3 \in Seq(S) /\ P4 \in Seq(S)
    BY <2>3, <2>4
  <2> HIDE DEF P1, P2, P3, P4
  <2>6. ((P1 \o P2) \o P3) \o P4 \in Seq(S)
    <3>1. P1 \o P2 \in Seq(S)
      BY <2>5, ConcatProperties
    <3>2. (P1 \o P2) \o P3 \in Seq(S)
      BY <2>5, <3>1, ConcatProperties
    <3>. QED
      BY <2>5, <3>2, ConcatProperties
  <2>. QED
    BY <2>1, <2>6 DEF S
<1>2. \E rc \in Seq(ContainerBuilders(c)) :
         newMetal3Containers(c, p) = injectProxyAndCA(rc, p)
  <2> DEFINE bmo == createContainerMetal3BaremetalOperator(c)
             mdb == createContainerMetal3Mariadb
             htd == createContainerMetal3Httpd(c)
             cnd == createContainerMetal3IronicConductor(c)
             irl == createContainerIronicInspectorRamdiskLogs
             api == createContainerMetal3IronicApi(c)
             drl == createContainerIronicDeployRamdiskLogs
             ins == createContainerMetal3IronicInspector(c)
             sim == createContainerMetal3StaticIpManager(c)
             dns == createContainerMetal3Dnsmasq(c)
             S == ContainerBuilders(c)
             B == <<bmo, mdb, htd, cnd, irl, api, drl, ins>>
             P1 == IF StaticIpManagerWanted(c) THEN <<sim>> ELSE <<>>
             P2 == IF c.network # "Disabled" THEN <<dns>> ELSE <<>>
  <2>1. newMetal3Containers(c, p) = injectProxyAndCA((B \o P1) \o P2, p)
    BY DEF newMetal3Containers
  <2> HIDE DEF bmo, mdb, htd, cnd, irl, api, drl, ins, sim, dns
  <2>2. B \in Seq(S)
    <3>1. B \in [1..8 -> S]
      BY DEF B, S, ContainerBuilders, bmo, mdb, htd, cnd, irl, api, drl, ins
    <3>. QED
      BY <3>1, SeqDef, Zenon
  <2>3. <<>> \in Seq(S) /\ <<sim>> \in Seq(S) /\ <<dns>> \in Seq(S)
    BY DEF S, ContainerBuilders, sim, dns
  <2>4. P1 \in Seq(S) /\ P2 \in Seq(S)
    BY <2>3 DEF P1, P2
  <2> HIDE DEF S, B, P1, P2
  <2>5. (B \o P1) \o P2 \in Seq(S)
    <3>1. B \o P1 \in Seq(S)
      BY <2>2, <2>4, ConcatProperties
    <3>. QED
      BY <2>4, <3>1, ConcatProperties
  <2>. QED
    BY <2>1, <2>5 DEF S
<1>. QED
  BY <1>1, <1>2

\* Every container and init container of the pod rendered from a
\* well-formed input is a builder's container after the injection.
LEMMA PodElements ==
    ASSUME InputOK
    PROVE  \A i \in 1..Len(AllContainers) :
              \E x : BuilderOK(x) /\ AllContainers[i] = InjectOne(x, proxy)
<1>1. config \in ProvisioningSpec /\ proxy \in Proxies
  BY DEF InputOK
<1> DEFINE U == InitBuilders(config) \cup ContainerBuilders(config)
           T == {InjectOne(x, proxy) : x \in U}
<1>2. PICK ri \in Seq(InitBuilders(config)) :
         Pod.initContainers = injectProxyAndCA(ri, proxy)
  BY <1>1, RenderedFromBuilders DEF Pod, newMetal3PodTemplateSpec
<1>3. PICK rc \in Seq(ContainerBuilders(config)) :
         Pod.containers = injectProxyAndCA(rc, proxy)
  BY <1>1, RenderedFromBuilders DEF Pod, newMetal3PodTemplateSpec
<1>4. /\ \A x \in InitBuilders(config) : InjectOne(x, proxy) \in T
      /\ \A x \in ContainerBuilders(config) : InjectOne(x, proxy) \in T
  OBVIOUS
<1> HIDE DEF T
<1>5. Pod.initContainers \in Seq(T) /\ Pod.containers \in Seq(T)
  BY <1>2, <1>3, <1>4, InjectSeq
<1>6. AllContainers \in Seq(T)
  BY <1>5, ConcatProperties DEF AllContainers
<1>7. \A i \in 1..Len(AllContainers) : AllContainers[i] \in T
  BY <1>6, ElementOfSeq
<1>8. \A y \in T : \E x : BuilderOK(x) /\ y = InjectOne(x, proxy)
  BY <1>1, AllBuildersOK DEF T
<1>. QED
  BY <1>7, <1>8

-----------------------------------------------------------------------------
(* The pod properties, for every input.                                    *)

LEMMA InputMountsDeclared == InputOK => MountsDeclared
<1> SUFFICES ASSUME InputOK, NEW i \in 1..Len(AllContainers)
             PROVE  Range(AllContainers[i].mounts) \subseteq Range(Pod.volumes)
  BY DEF MountsDeclared
<1>1. PICK x : BuilderOK(x) /\ AllContainers[i] = InjectOne(x, proxy)
  BY PodElements
<1>2. proxy \in Proxies
  BY DEF InputOK
<1>3. Pod.volumes = metal3Volumes
  BY DEF Pod, newMetal3PodTemplateSpec
<1>. QED
  BY <1>1, <1>2, <1>3, InjectOneOK

LEMMA InputEnvNamesUnique == InputOK => EnvNamesUnique
<1> SUFFICES ASSUME InputOK, NEW i \in 1..Len(AllContainers)
             PROVE  Distinct(AllContainers[i].env)
  BY DEF EnvNamesUnique, Distinct
<1>1. PICK x : BuilderOK(x) /\ AllContainers[i] = InjectOne(x, proxy)
  BY PodElements
<1>2. proxy \in Proxies
  BY DEF InputOK
<1>. QED
  BY <1>1, <1>2, InjectOneOK

LEMMA InputProxyAndCAUniform == InputOK => ProxyAndCAUniform
<1> SUFFICES ASSUME InputOK, NEW i \in 1..Len(AllContainers)
             PROVE  LET env == AllContainers[i].env
                        mounts == AllContainers[i].mounts
                        pe == ProxyEnv(proxy)
                    IN  /\ Len(pe) <= Len(env)
                        /\ SubSeq(env, Len(env) - Len(pe) + 1, Len(env)) = pe
                        /\ Positions(env, LAMBDA e : e.name \in ProxyFields)
                             = (Len(env) - Len(pe) + 1)..Len(env)
                        /\ Positions(mounts, LAMBDA m : m = "trusted-ca")
                             = {Len(mounts)}
  BY DEF ProxyAndCAUniform
<1>1. PICK x : BuilderOK(x) /\ AllContainers[i] = InjectOne(x, proxy)
  BY PodElements
<1>2. proxy \in Proxies
  BY DEF InputOK
<1>. QED
  BY <1>1, <1>2, InjectOneOK

\* Every volume mount of every container names a declared volume
\* (metal3Volumes, line 131), for every Provisioning spec and proxy.
THEOREM MountsDeclaredHolds == Spec => []MountsDeclared
<1>1. Spec => []InputOK
  BY InitInputOK, NextInputOK, PTL DEF Spec
<1>. QED
  BY <1>1, InputMountsDeclared, PTL

\* No container gets two variables of one name, after envWithProxy and
\* envWithMasterMacAddresses have appended theirs, for every input.
THEOREM EnvNamesUniqueHolds == Spec => []EnvNamesUnique
<1>1. Spec => []InputOK
  BY InitInputOK, NextInputOK, PTL DEF Spec
<1>. QED
  BY <1>1, InputEnvNamesUnique, PTL

\* injectProxyAndCA (line 925) reaches every container and init
\* container exactly once, for every Provisioning spec and proxy.
THEOREM ProxyAndCAUniformHolds == Spec => []ProxyAndCAUniform
<1>1. Spec => []InputOK
  BY InitInputOK, NextInputOK, PTL DEF Spec
<1>. QED
  BY <1>1, InputProxyAndCAUniform, PTL

=============================================================================
