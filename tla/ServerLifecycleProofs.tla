------------------------ MODULE ServerLifecycleProofs ------------------------
(***************************************************************************)
(* What TLAPS proves of Configuration and ServerLifecycle, for any flags,  *)
(* files and disks, any number of clients, and any faults.                 *)
(***************************************************************************)
EXTENDS ServerLifecycle, TLAPS

-----------------------------------------------------------------------------
(* The configuration.                                                      *)

LEMMA FieldsAre ==
    /\ Fields = {"ClusterURI", "ClusterPublicKeyFile", "RestPrivateKeyFile", "ReadinessQuery",
                 "TLSCertificate", "TLSCertificateKey", "TLSPort", "Host", "Port", "Log",
                 "Assets", "LogMaxSize", "LogMaxRetention", "LogMaxAge", "LogCompress",
                 "MaxInBufferSize", "ParallelismCount", "PoolSize"}
    /\ FilledDefaultConfig.TLSPort \in Nat
    /\ FilledDefaultConfig.ClusterPublicKeyFile = ""
  BY DEF Fields, FilledDefaultConfig

\* A value given by a flag, or by the environment, is that of the server, whatever the
\* file says and whether --local and --secure are given, unless it is the default.
THEOREM FlagsWin ==
  ASSUME NEW c, NEW f \in Fields, c[f] # FilledDefaultConfig[f],
         NEW local \in BOOLEAN, NEW secure \in BOOLEAN, NEW file
  PROVE  SetDefaults(c, local, secure, file)[f] = c[f]
<1>1. ASSUME NEW d, NEW values, d[f] = c[f]
      PROVE  Override(d, values)[f] = c[f]
  BY <1>1 DEF Override
<1> DEFINE localised == IF local THEN SetLocal(c) ELSE c
           secured == IF secure THEN SetSecured(localised) ELSE localised
<1>2. localised[f] = c[f]
  BY <1>1 DEF SetLocal
<1>3. secured[f] = c[f]
  BY <1>1, <1>2 DEF SetSecured
<1>4. Merge(secured, file)[f] = c[f]
  BY <1>1, <1>3 DEF Merge
<1> QED
  BY <1>3, <1>4 DEF SetDefaults

\* A server that accepts a configuration with the keys of a secured cluster has the files
\* it needs to speak TLS, or it does not start.
THEOREM SecuredHasCertificate ==
  ASSUME NEW c, NEW paths, ~Refused(c, paths), IsSecurityEnabled(Check(c, paths))
  PROVE  /\ Check(c, paths).TLSCertificate = c.TLSCertificate /\ c.TLSCertificate \in paths
         /\ Check(c, paths).TLSCertificateKey = c.TLSCertificateKey /\ c.TLSCertificateKey \in paths
         /\ c.TLSCertificate # "" /\ c.TLSCertificateKey # ""
<1>1. {"ClusterPublicKeyFile", "TLSCertificate", "TLSCertificateKey"} \subseteq KeyFiles \cap Fields
  BY FieldsAre DEF KeyFiles
<1>2. "ClusterPublicKeyFile" \in statFiles(c, paths)
  BY <1>1 DEF IsSecurityEnabled, Check
<1>3. {"TLSCertificate", "TLSCertificateKey"} \subseteq statFiles(c, paths)
  BY <1>2 DEF Refused
<1> QED
  BY <1>1, <1>3 DEF Check, statFiles

-----------------------------------------------------------------------------
(* Types.                                                                  *)

\* A configuration as the flags, the file and the generator make them.
Configured(c) == DOMAIN c = Fields /\ c.TLSPort \in Nat

LEMMA DefaultConfigured == Configured(FilledDefaultConfig)
  BY FieldsAre DEF Configured, Fields

LEMMA OverrideConfigured ==
  ASSUME NEW c, Configured(c), NEW values,
         "TLSPort" \in DOMAIN values => values["TLSPort"] \in Nat
  PROVE  Configured(Override(c, values))
  BY FieldsAre DEF Configured, Override

LEMMA SetSecuredConfigured ==
  ASSUME NEW c, Configured(c)
  PROVE  Configured(SetSecured(c))
  BY OverrideConfigured DEF SetSecured, Secured

LEMMA SetDefaultsConfigured ==
  ASSUME NEW c, Configured(c), NEW local \in BOOLEAN, NEW secure \in BOOLEAN,
         NEW file \in Files \cup {NoFile}
  PROVE  Configured(SetDefaults(c, local, secure, file))
<1> DEFINE localised == IF local THEN SetLocal(c) ELSE c
           secured == IF secure THEN SetSecured(localised) ELSE localised
<1>1. Configured(localised)
  BY OverrideConfigured DEF SetLocal, Local
<1>2. Configured(secured)
  BY <1>1, SetSecuredConfigured
<1>3. ASSUME file # NoFile PROVE Configured(Merge(secured, file))
  <2> DEFINE read == Unmarshal(file)
             values == [f \in {g \in Fields : g \in UintFields => read[g] # 0} |-> read[f]]
  <2>1. "TLSPort" \in DOMAIN file => file["TLSPort"] \in Nat
    BY <1>3, ServerAssumption
  <2>2. read["TLSPort"] \in Nat
    BY <2>1, FieldsAre DEF Unmarshal, Zero, StringFields, IntFields, UintFields
  <2>3. "TLSPort" \in DOMAIN values => values["TLSPort"] \in Nat
    BY <2>2
  <2>4. Configured(Override(secured, values))
    BY <1>2, <2>3, OverrideConfigured
  <2> QED
    BY <2>4 DEF Merge
<1> QED
  BY <1>2, <1>3 DEF SetDefaults

LEMMA FlagsConfigured ==
  ASSUME NEW line \in CommandLines
  PROVE  Configured(Flags(line))
<1>1. "TLSPort" \in DOMAIN line => line["TLSPort"] \in Nat
  BY ServerAssumption
<1> QED
  BY <1>1, FieldsAre DEF Configured, Flags

LEMMA CheckConfigured ==
  ASSUME NEW c, Configured(c), NEW paths
  PROVE  Configured(Check(OpenLog(c), paths))
<1>1. Configured(OpenLog(c))
  BY FieldsAre DEF Configured, OpenLog
<1> QED
  BY <1>1, FieldsAre DEF Configured, Check, KeyFiles

LEMMA AnswersConfigured ==
  ASSUME NEW c, Configured(c), NEW line \in CommandLines, NEW garbled
  PROVE  Configured(askQuestions(c, line, garbled))
<1>1. "TLSPort" \in DOMAIN line => line["TLSPort"] \in Nat
  BY ServerAssumption
<1> QED
  BY <1>1, FieldsAre DEF Configured, askQuestions, Asked, IntFields, StringFields, Zero, UintFields

\* TypeOK is not inductive: which listeners are bound depends on the schemes,
\* which are chosen once, and the port on the configuration.
IndType ==
    /\ TypeOK
    /\ config.TLSPort \in Nat
    /\ main \in {"new", "configure", "ask"} =>
           schemes = {} /\ \A s \in Schemes : listener[s] = "none"
    /\ main \notin {"new", "configure", "ask", "exited"} => schemes # {}
    /\ main = "serveTLS" => "https" \in schemes
    /\ main \in {"listen", "listenTLS", "notify", "serve"} =>
           \A s \in Schemes : listener[s] \in {"none", "bound"}
    /\ main \in {"tls", "serveTLS"} => listener["https"] \in {"none", "bound"}
    /\ main = "tls" /\ "http" \in schemes => listener["http"] \notin {"none", "bound"}
    /\ closer # "none" => main \in {"wait", "exited"}

LEMMA TypeInit == Init => IndType
<1> SUFFICES ASSUME Init PROVE IndType
  OBVIOUS
<1>1. config = FilledDefaultConfig /\ Configured(config)
  BY DefaultConfigured DEF Init
<1> QED
  BY <1>1, ServerAssumption DEF Init, IndType, TypeOK, Configured, Fields, Ends, Schemes, MainPlaces

LEMMA NonEmptySubset ==
  ASSUME NEW S, NEW T, T \in (SUBSET S) \ {{}}
  PROVE  T \subseteq S /\ T # {}
OBVIOUS

\* Before there is a listener.
LEMMA StartKeepsType ==
  ASSUME IndType, NewServer \/ ConfigureAPI \/ ConfigureFails \/ Inform \/ Ask \/ Generate \/ GenerateFails
  PROVE  IndType'
<1> USE ServerAssumption DEF Schemes, Ends, MainPlaces
<1>1. CASE NewServer
  BY <1>1 DEF IndType, TypeOK, NewServer, Main, opened, started, shutting
<1>2. ASSUME NEW c, Configured(c), Configure(c),
             UNCHANGED <<app, disk, redirects, notified, listener, signal, interrupted, shut, stop,
                   shutting, request>>, main = "configure"
      PROVE  IndType'
  <2>1. CASE Refused(OpenLog(c), disk)
    BY <1>2, <2>1 DEF IndType, TypeOK, Configure, Exit, shutting
  <2>2. CASE ~Refused(OpenLog(c), disk)
    <3> DEFINE checked == Check(OpenLog(c), disk)
    <3>1. Configured(checked)
      BY <1>2, CheckConfigured
    <3>2. /\ main' = "listen" /\ exit' = exit /\ config' = checked
          /\ secret' \in {"default", "file"}
      BY <1>2, <2>2 DEF Configure, Main
    <3>4. graceful' \in BOOLEAN
      BY <1>2, <2>2 DEF Configure
    <3>6. schemes' \subseteq Schemes /\ schemes' # {}
      <4>1. CASE app = "qdb-api-rest-server"
        <5>1. schemes' \in (SUBSET Schemes) \ {{}}
          BY <1>2, <2>2, <4>1 DEF Configure
        <5> QED
          BY <5>1, NonEmptySubset
      <4>2. CASE app # "qdb-api-rest-server"
        <5>1. schemes' = {"http"} \cup IF checked.TLSCertificate # "" /\ checked.TLSCertificateKey # ""
                                       THEN {"https"} ELSE {}
          BY <1>2, <2>2, <4>2 DEF Configure
        <5> HIDE DEF checked
        <5> QED
          BY <5>1
      <4> QED
        BY <4>1, <4>2
    <3>5. tlsPort' \in {0, checked.TLSPort}
      BY <1>2, <2>2 DEF Configure
    <3>3. /\ DOMAIN config' = Fields /\ config'.TLSPort \in Nat /\ tlsPort' \in Nat
      BY <3>1, <3>2, <3>5 DEF Configured
    <3> HIDE DEF checked
    <3> QED
      BY <1>2, <3>2, <3>3, <3>4, <3>6 DEF IndType, TypeOK, shutting
  <2> QED
    BY <2>1, <2>2
<1>3. CASE ConfigureAPI
  <2>1. CASE app = "qdb-api-rest-server"
    BY <1>2, <1>3, <2>1, DefaultConfigured DEF ConfigureAPI
  <2>2. ASSUME NEW line \in CommandLines, NEW local \in BOOLEAN, NEW secure \in BOOLEAN,
               NEW file \in Files \cup {NoFile}
        PROVE  Configured(SetDefaults(Flags(line), local, secure, file))
    BY FlagsConfigured, SetDefaultsConfigured
  <2>3. CASE app # "qdb-api-rest-server"
    BY <1>2, <1>3, <2>2, <2>3 DEF ConfigureAPI
  <2> QED
    BY <2>1, <2>3
<1>4. CASE ConfigureFails \/ GenerateFails
  BY <1>4 DEF IndType, TypeOK, ConfigureFails, GenerateFails, Exit, opened, started, shutting
<1>5. CASE Inform
  BY <1>5 DEF IndType, TypeOK, Inform, Exit, opened, started, shutting
<1>6. ASSUME Configured(config'), UNCHANGED <<app, disk, secret, schemes, graceful, started,
                listener, signal, interrupted, shut, stop, shutting, request>>,
             \/ main = "configure" /\ main' = "ask" /\ UNCHANGED exit
             \/ main = "ask" /\ (Exit("0") \/ UNCHANGED <<main, exit>>)
      PROVE  IndType'
  BY <1>6 DEF IndType, TypeOK, Configured, Exit, started, shutting
<1>7. Configured(config)
  BY DEF IndType, TypeOK, Configured
<1>8. CASE Ask
  BY <1>6, <1>7, <1>8, FlagsConfigured, SetDefaultsConfigured DEF Ask, Main
<1>9. CASE Generate
  BY <1>6, <1>7, <1>9, AnswersConfigured DEF Generate
<1> QED
  BY <1>1, <1>3, <1>4, <1>5, <1>8, <1>9

\* Listen and Serve.
LEMMA ServeKeepsType ==
  ASSUME IndType,
         \/ ListenHTTP \/ ListenTLS \/ ListenFails \/ SignalNotify \/ ServeHTTP \/ ConfigureTLS
         \/ ConfigureTLSFails \/ ServeTLS \/ StartCloser \/ Wait
  PROVE  IndType'
<1> USE ServerAssumption DEF Schemes, Ends, MainPlaces
<1>1. CASE ListenHTTP
  BY <1>1 DEF IndType, TypeOK, ListenHTTP, Bind, Main, opened, started, shutting
<1>2. CASE ListenTLS
  BY <1>2 DEF IndType, TypeOK, ListenTLS, Bind, Main, RandomPort, opened, shutting
<1>3. CASE ListenFails
  BY <1>3 DEF IndType, TypeOK, ListenFails, Exit, opened, started, shutting
<1>4. CASE SignalNotify
  BY <1>4 DEF IndType, TypeOK, SignalNotify, Main, opened, shutting
<1>5. CASE ServeHTTP
  BY <1>5, ZenonT(60) DEF IndType, TypeOK, ServeHTTP, Main, opened, shutting
<1>6. CASE ConfigureTLS
  BY <1>6 DEF IndType, TypeOK, ConfigureTLS, Main, opened, started, shutting
<1>7. CASE ConfigureTLSFails
  BY <1>7 DEF IndType, TypeOK, ConfigureTLSFails, Exit, opened, started, shutting
<1>8. CASE ServeTLS
  BY <1>8 DEF IndType, TypeOK, ServeTLS, Main, opened, started, shutting
<1>9. CASE StartCloser
  BY <1>9 DEF IndType, TypeOK, StartCloser, Main, opened, started
<1>10. CASE Wait
  BY <1>10 DEF IndType, TypeOK, Wait, Exit, opened, started, shutting
<1> QED
  BY <1>1, <1>2, <1>3, <1>4, <1>5, <1>6, <1>7, <1>8, <1>9, <1>10

\* The listeners, their clients, signals and the service's Stop.
LEMMA RunningKeepsType ==
  ASSUME IndType,
         \/ \E s \in Schemes : ListenerStep(s) \/ ServeFails(s)
         \/ \E c \in Clients, s \in Schemes : Request(c, s)
         \/ \E c \in Clients : Respond(c)
         \/ Signal \/ HandleInterrupt \/ Stop \/ StopShutdown \/ Stopped
  PROVE  IndType'
<1> USE ServerAssumption DEF Schemes, Ends, MainPlaces, Running
<1>1. ASSUME NEW s \in Schemes, Serving(s) PROVE IndType'
  BY <1>1 DEF IndType, TypeOK, Serving, opened, started, shutting
<1>2. ASSUME NEW s \in Schemes, ServeEnds(s) PROVE IndType'
  BY <1>2 DEF IndType, TypeOK, ServeEnds, opened, started, shutting
<1>3. ASSUME NEW s \in Schemes, ServeFails(s) PROVE IndType'
  BY <1>3 DEF IndType, TypeOK, ServeFails, Exit, opened, started, shutting
<1>4. ASSUME NEW c \in Clients, NEW s \in Schemes, Request(c, s) PROVE IndType'
  BY <1>4 DEF IndType, TypeOK, Request, opened, started, shutting
<1>5. ASSUME NEW c \in Clients, Respond(c) PROVE IndType'
  BY <1>5 DEF IndType, TypeOK, Respond, opened, started, shutting
<1>6. CASE Signal
  BY <1>6, ZenonT(30) DEF IndType, TypeOK, Signal, Exit, opened, started, shutting
<1>7. CASE HandleInterrupt
  BY <1>7, ZenonT(60) DEF IndType, TypeOK, HandleInterrupt, opened, started, shutting
<1>8. CASE Stop
  BY <1>8 DEF IndType, TypeOK, Stop, opened, started, shutting
<1>9. CASE StopShutdown
  BY <1>9 DEF IndType, TypeOK, StopShutdown, Exit, opened, started, shutting
<1>10. CASE Stopped
  BY <1>10 DEF IndType, TypeOK, Stopped, Exit, opened, started, shutting
<1> QED
  BY <1>1, <1>2, <1>3, <1>4, <1>5, <1>6, <1>7, <1>8, <1>9, <1>10 DEF ListenerStep

LEMMA CloserKeepsType ==
  ASSUME IndType, CloserStep
  PROVE  IndType'
<1> USE ServerAssumption DEF Schemes, Ends, MainPlaces, Running
<1>1. CASE HandleShutdown
  BY <1>1 DEF IndType, TypeOK, HandleShutdown, Started, opened, started
<1>2. CASE GraceEnds
  BY <1>2 DEF IndType, TypeOK, GraceEnds, opened, started
<1>3. ASSUME NEW s \in Schemes, NEW ok \in BOOLEAN, Return(s, ok) PROVE IndType'
  BY <1>3 DEF IndType, TypeOK, Return, opened, started
<1>4. ASSUME NEW s \in Schemes, Collect(s) PROVE IndType'
  BY <1>4 DEF IndType, TypeOK, Collect, opened, started
<1> QED
  BY <1>1, <1>2, <1>3, <1>4 DEF CloserStep, Drained, DrainExpires

LEMMA TypePreserved == IndType /\ [Next]_vars => IndType'
<1> SUFFICES ASSUME IndType, [Next]_vars PROVE IndType'
  OBVIOUS
<1>1. CASE UNCHANGED vars
  BY <1>1 DEF IndType, TypeOK, vars, opened, started, shutting
<1> QED
  BY <1>1, StartKeepsType, ServeKeepsType, RunningKeepsType, CloserKeepsType DEF Next, MainStep

\* The invariant that the other ones are proved on top of.
LEMMA IndTypeCorrect == Spec => []IndType
  BY TypePreserved, TypeInit, PTL DEF Spec

\* Every variable has its type in every reachable state, and the places of the goroutines
\* go together as TypeOK says.
THEOREM TypeCorrect == Spec => []TypeOK
  BY IndTypeCorrect, PTL DEF IndType

-----------------------------------------------------------------------------
(* A secured cluster is not served in plain text.                          *)

\* The configuration that is served was checked, so that it has a certificate
\* if it has the keys of a secured cluster; and it stays as it is while there are
\* listeners.
IndPlain ==
    /\ schemes # {} /\ IsSecurityEnabled(config) =>
         /\ config.TLSCertificate # "" /\ config.TLSCertificateKey # ""
         /\ "https" \in schemes /\ secret = "file"
         /\ tlsPort = config.TLSPort \/ config.TLSPort = 0
    /\ listener["http"] \notin {"none", "bound"} =>
         redirects = (config.TLSCertificate # "" /\ config.TLSCertificateKey # "")

\* The generated server has the default configuration, which names no keys.
LEMMA DefaultIsOpen ==
  ASSUME NEW paths
  PROVE  ~IsSecurityEnabled(Check(OpenLog(FilledDefaultConfig), paths))
<1>1. OpenLog(FilledDefaultConfig).ClusterPublicKeyFile = ""
  BY FieldsAre DEF OpenLog, Fields
<1>2. "ClusterPublicKeyFile" \in Fields
  BY FieldsAre
<1> QED
  BY <1>1, <1>2 DEF IsSecurityEnabled, Check

LEMMA ConfigurePlain ==
  ASSUME IndType, IndPlain, NEW c, Configure(c), main = "configure", UNCHANGED <<redirects, listener>>,
         app = "qdb-api-rest-server" => c = FilledDefaultConfig
  PROVE  IndPlain'
<1> DEFINE checked == Check(OpenLog(c), disk)
<1>1. schemes = {} /\ listener["http"] = "none"
  BY DEF IndType, Schemes
<1>2. CASE Refused(OpenLog(c), disk)
  BY <1>1, <1>2 DEF Configure, IndPlain
<1>3. CASE ~Refused(OpenLog(c), disk) /\ ~IsSecurityEnabled(checked)
  BY <1>1, <1>3 DEF Configure, IndPlain
<1>4. CASE ~Refused(OpenLog(c), disk) /\ IsSecurityEnabled(checked)
  <2>1. checked.TLSCertificate # "" /\ checked.TLSCertificateKey # ""
    BY <1>4, SecuredHasCertificate
  <2>2. app # "qdb-api-rest-server"
    BY <1>4, DefaultIsOpen
  <2>3. config' = checked
    BY <1>4 DEF Configure
  <2>4. secret' = "file"
    BY <1>4 DEF Configure
  <2>5. "https" \in schemes'
    BY <1>4, <2>1, <2>2 DEF Configure
  <2>6. tlsPort' = checked.TLSPort
    BY <1>4, <2>2, <2>5 DEF Configure
  <2> HIDE DEF checked
  <2> QED
    BY <1>1, <2>1, <2>3, <2>4, <2>5, <2>6 DEF IndPlain
<1> QED
  BY <1>2, <1>3, <1>4

\* While the keys of a secured cluster are loaded the server has a TLS listener, its
\* http listener only redirects, and the tokens are encrypted with a key of its own: for
\* any flags, configuration files and existing paths.
THEOREM PlainOnlyWithoutTLSCorrect == Spec => []PlainOnlyWithoutTLS
<1>1. Init => IndPlain
  BY DEF Init, IndPlain, Schemes
<1>2. IndType /\ IndPlain /\ [Next]_vars => IndPlain'
  <2> SUFFICES ASSUME IndType, IndPlain, [Next]_vars PROVE IndPlain'
    OBVIOUS
  <2>1. CASE ConfigureAPI
    BY <2>1, ConfigurePlain DEF ConfigureAPI
  <2>2. CASE Ask \/ Generate
    <3>1. schemes' = {} /\ listener'["http"] = "none"
      BY <2>2 DEF IndType, Ask, Generate, Main, Schemes
    <3> QED
      BY <3>1 DEF IndPlain
  <2>3. CASE ListenHTTP
    BY <2>3 DEF IndType, TypeOK, IndPlain, ListenHTTP, Bind, opened, started, Schemes
  <2>4. CASE ListenTLS
    BY <2>4 DEF IndType, TypeOK, IndPlain, ListenTLS, Bind, opened, Schemes
  <2>5. CASE ServeHTTP
    BY <2>5 DEF IndPlain, ServeHTTP, opened
  <2>6. CASE ServeTLS
    BY <2>6 DEF IndType, TypeOK, IndPlain, ServeTLS, opened, started, Schemes
  <2>7. ASSUME NEW s \in Schemes, Serving(s) \/ ServeEnds(s) PROVE IndPlain'
    BY <2>7 DEF IndType, TypeOK, IndPlain, Serving, ServeEnds, opened, started, Schemes
  <2>8. CASE UNCHANGED <<config, secret, schemes, tlsPort, redirects, listener>>
    BY <2>8 DEF IndPlain
  <2>9. CASE NewServer \/ ConfigureFails \/ Inform \/ GenerateFails \/ ListenFails \/ SignalNotify
             \/ ConfigureTLS \/ ConfigureTLSFails \/ StartCloser \/ Wait
    BY <2>8, <2>9 DEF NewServer, ConfigureFails, Inform, GenerateFails, ListenFails, SignalNotify, ConfigureTLS,
         ConfigureTLSFails, StartCloser, Wait, opened, started
  <2>10. CASE \/ \E s \in Schemes : ServeFails(s)
              \/ \E c \in Clients, s \in Schemes : Request(c, s)
              \/ \E c \in Clients : Respond(c)
              \/ Signal \/ HandleInterrupt \/ Stop \/ StopShutdown \/ Stopped
    BY <2>8, <2>10 DEF ServeFails, Request, Respond, Signal, HandleInterrupt, Stop, StopShutdown,
         Stopped, opened, started
  <2>11. CASE CloserStep
    BY <2>8, <2>11 DEF CloserStep, HandleShutdown, GraceEnds, Drained, DrainExpires, Return,
         Collect, opened, started
  <2>12. CASE UNCHANGED vars
    BY <2>8, <2>12 DEF vars, opened, started
  <2> QED
    BY <2>1, <2>2, <2>3, <2>4, <2>5, <2>6, <2>7, <2>9, <2>10, <2>11, <2>12
      DEF Next, MainStep, ListenerStep
<1>3. IndType /\ IndPlain => PlainOnlyWithoutTLS
  BY DEF IndPlain, PlainOnlyWithoutTLS, Started, IndType, Schemes
<1> QED
  BY <1>1, <1>2, <1>3, IndTypeCorrect, PTL DEF Spec

-----------------------------------------------------------------------------
(* Requests are cut only after the grace period.                           *)

\* handleShutdown ends when an answer was not a success, or when all listeners
\* have answered; and until the grace period is over a listener answers only when
\* it has no request.
IndGrace ==
    /\ CutOnlyAfterGrace
    /\ \A c \in Clients : request[c] # Null => request[c] \in Started
    /\ ~graceOver => \A s \in Schemes : drain[s] \in {"sending", "sent"} =>
                         \A c \in Clients : request[c] # s
    /\ closer \in {"none", "waiting"} => \A s \in Schemes : drain[s] = "none"
    /\ closer = "collecting" => \A s \in Started : drain[s] # "none"
    /\ closer = "done" =>
         \/ \E s \in Schemes : /\ drain[s] = "sent" /\ ~success[s]
                               /\ graceOver \/ \A c \in Clients : request[c] # s
         \/ \A s \in Started : drain[s] = "sent"

LEMMA ExitKeepsGrace ==
  ASSUME IndGrace, NEW how, Exit(how), how # "0",
         UNCHANGED <<request, listener, shutting>>
  PROVE  IndGrace'
  BY DEF IndGrace, CutOnlyAfterGrace, Exit, Started, shutting

\* A step that leaves everything alone that IndGrace speaks of, the end apart.
LEMMA OthersKeepGrace ==
  ASSUME IndGrace, UNCHANGED <<exit, request, listener, shutting>>
  PROVE  IndGrace'
  BY DEF IndGrace, CutOnlyAfterGrace, Started, shutting

\* While the process starts there is no request and no shutdown.
LEMMA StartKeepsGrace ==
  ASSUME IndType, IndGrace,
         NewServer \/ ConfigureAPI \/ ConfigureFails \/ Inform \/ Ask \/ Generate \/ GenerateFails
  PROVE  IndGrace'
<1>1. Started = {}
  BY DEF IndType, Started, NewServer, ConfigureAPI, ConfigureFails, Inform, Ask, Generate, GenerateFails, Main
<1>2. \A c \in Clients : request[c] = Null
  BY <1>1 DEF IndGrace
<1>3. UNCHANGED <<request, listener, shutting>>
  BY DEF NewServer, ConfigureAPI, ConfigureFails, Inform, Ask, Generate, GenerateFails
<1> QED
  BY <1>1, <1>2, <1>3 DEF IndGrace, CutOnlyAfterGrace, Started, shutting

LEMMA ServeKeepsGrace ==
  ASSUME IndType, IndGrace,
         \/ ListenHTTP \/ ListenTLS \/ ListenFails \/ SignalNotify \/ ServeHTTP \/ ConfigureTLS
         \/ ConfigureTLSFails \/ ServeTLS \/ StartCloser \/ Wait
  PROVE  IndGrace'
<1>1. ASSUME NEW from, NEW to, NEW s \in Schemes, Bind(s, from, to),
             UNCHANGED <<request, shutting>>, from \in {"listen", "listenTLS"}
      PROVE  IndGrace'
  <2>1. closer = "none" /\ Started = {}
    BY <1>1 DEF IndType, Bind, Main, Started
  <2>2. Started' = {} /\ exit' = exit
    BY <1>1, <2>1 DEF Bind, Main, Started, IndType, TypeOK
  <2> QED
    BY <1>1, <2>1, <2>2 DEF IndGrace, CutOnlyAfterGrace, shutting
<1>2. CASE ListenHTTP \/ ListenTLS
  BY <1>1, <1>2 DEF ListenHTTP, ListenTLS, Schemes
<1>3. CASE ListenFails \/ ConfigureTLSFails
  BY <1>3, ExitKeepsGrace DEF ListenFails, ConfigureTLSFails
<1>4. CASE SignalNotify \/ ConfigureTLS
  BY <1>4, OthersKeepGrace DEF SignalNotify, ConfigureTLS, Main, opened, started
<1>5. CASE ServeHTTP \/ ServeTLS
  <2>1. closer = "none" /\ main # "exited"
    BY <1>5 DEF IndType, ServeHTTP, ServeTLS, Main
  <2>2. /\ exit' = exit /\ UNCHANGED <<request, shutting>>
        /\ Started \subseteq Started'
    BY <1>5 DEF ServeHTTP, ServeTLS, Main, Started, IndType, TypeOK
  <2> QED
    BY <2>1, <2>2 DEF IndGrace, CutOnlyAfterGrace, shutting
<1>6. CASE StartCloser
  BY <1>6 DEF IndType, IndGrace, CutOnlyAfterGrace, StartCloser, Main, Started
<1>7. CASE Wait
  <2>1. closer = "done" /\ UNCHANGED <<request, listener, shutting>>
    BY <1>7 DEF Wait
  <2>2. CutOnlyAfterGrace'
    BY <2>1 DEF IndGrace, CutOnlyAfterGrace, Started, shutting
  <2> QED
    BY <2>1, <2>2 DEF IndGrace, Started, shutting
<1> QED
  BY <1>2, <1>3, <1>4, <1>5, <1>6, <1>7

LEMMA RunningKeepsGrace ==
  ASSUME IndType, IndGrace,
         \/ \E s \in Schemes : ListenerStep(s) \/ ServeFails(s)
         \/ \E c \in Clients, s \in Schemes : Request(c, s)
         \/ \E c \in Clients : Respond(c)
         \/ Signal \/ HandleInterrupt \/ Stop \/ StopShutdown \/ Stopped
  PROVE  IndGrace'
<1>1. ASSUME NEW s \in Schemes, Serving(s) \/ ServeEnds(s) PROVE IndGrace'
  <2>1. Started' = Started /\ UNCHANGED <<exit, request, shutting>>
    BY <1>1 DEF Serving, ServeEnds, Started, IndType, TypeOK
  <2> QED
    BY <2>1 DEF IndGrace, CutOnlyAfterGrace, shutting
<1>2. ASSUME NEW c \in Clients, NEW s \in Schemes, Request(c, s) PROVE IndGrace'
  <2>1. /\ s \in Started /\ drain[s] = "none" /\ exit # "0"
        /\ request' = [request EXCEPT ![c] = s]
        /\ UNCHANGED <<exit, listener, shutting>>
    BY <1>2, ServerAssumption DEF Request, Running, Started, IndType, TypeOK, Ends
  <2> QED
    BY <2>1 DEF IndType, TypeOK, IndGrace, CutOnlyAfterGrace, Started, shutting
<1>3. ASSUME NEW c \in Clients, Respond(c) PROVE IndGrace'
  <2>1. /\ request' = [request EXCEPT ![c] = Null] /\ exit # "0"
        /\ UNCHANGED <<exit, listener, shutting>>
    BY <1>3, ServerAssumption DEF Respond, Running, IndType, TypeOK, Ends
  <2>2. \A d \in Clients : request'[d] # Null => request'[d] = request[d]
    BY <2>1 DEF IndType, TypeOK
  <2>3. \A d \in Clients, s \in Schemes : request[d] # s => request'[d] # s
    BY <2>2, ServerAssumption
  <2> QED
    BY <2>1, <2>2, <2>3 DEF IndGrace, CutOnlyAfterGrace, Started, shutting
<1>4. CASE (\E s \in Schemes : ServeFails(s)) \/ Stopped
  BY <1>4, ExitKeepsGrace DEF ServeFails, Stopped
<1>5. CASE Signal
  BY <1>5, ExitKeepsGrace, OthersKeepGrace DEF Signal
<1>6. CASE StopShutdown
  BY <1>6, ExitKeepsGrace, OthersKeepGrace DEF StopShutdown
<1>7. CASE HandleInterrupt \/ Stop
  BY <1>7, OthersKeepGrace DEF HandleInterrupt, Stop
<1> QED
  BY <1>1, <1>2, <1>3, <1>4, <1>5, <1>6, <1>7 DEF ListenerStep

LEMMA CloserKeepsGrace ==
  ASSUME IndType, IndGrace, CloserStep
  PROVE  IndGrace'
<1>1. exit # "0" /\ UNCHANGED <<exit, request, listener>>
  BY ServerAssumption DEF CloserStep, HandleShutdown, GraceEnds, Drained, DrainExpires, Return,
       Collect, Running, IndType, TypeOK, Ends
<1>2. CutOnlyAfterGrace' /\ Started' = Started
  BY <1>1 DEF CutOnlyAfterGrace, Started
<1>3. CASE HandleShutdown
  BY <1>1, <1>2, <1>3 DEF IndType, TypeOK, IndGrace, HandleShutdown, Started
<1>4. CASE GraceEnds
  BY <1>1, <1>2, <1>4 DEF IndGrace, GraceEnds
<1>5. ASSUME NEW s \in Schemes, NEW ok \in BOOLEAN, Return(s, ok),
             graceOver \/ \A c \in Clients : request[c] # s
      PROVE  IndGrace'
  <2>1. /\ drain[s] = "running" /\ s \in Started
        /\ drain' = [drain EXCEPT ![s] = "sending"]
        /\ success' = [success EXCEPT ![s] = ok]
        /\ UNCHANGED <<closer, graceOver>>
    BY <1>5 DEF Return, IndType, TypeOK, Started
  <2> QED
    BY <1>1, <1>2, <1>5, <2>1 DEF IndType, TypeOK, IndGrace, Started
<1>6. ASSUME NEW s \in Schemes, Collect(s) PROVE IndGrace'
  <2>1. /\ drain[s] = "sending" /\ closer = "collecting"
        /\ drain' = [drain EXCEPT ![s] = "sent"]
        /\ closer' = IF ~success[s] \/ Awaited = {s} THEN "done" ELSE "collecting"
        /\ UNCHANGED <<success, graceOver>>
    BY <1>6 DEF Collect
  <2>2. ~graceOver => \A t \in Schemes : drain'[t] \in {"sending", "sent"} =>
            \A c \in Clients : request[c] # t
    BY <2>1 DEF IndGrace, IndType, TypeOK
  <2>3. CASE ~success[s]
    BY <1>1, <1>2, <2>1, <2>2, <2>3 DEF IndType, TypeOK, IndGrace
  <2>4. CASE Awaited = {s}
    <3>1. \A t \in Started : drain'[t] = "sent"
      BY <2>1, <2>4 DEF Awaited, IndGrace, IndType, TypeOK, Started
    <3> QED
      BY <1>1, <1>2, <2>1, <2>2, <3>1 DEF IndType, TypeOK, IndGrace
  <2>5. CASE success[s] /\ Awaited # {s}
    BY <1>1, <1>2, <2>1, <2>2, <2>5 DEF IndType, TypeOK, IndGrace
  <2> QED
    BY <2>3, <2>4, <2>5
<1> QED
  BY <1>3, <1>4, <1>5, <1>6 DEF CloserStep, Drained, DrainExpires

LEMMA IndGraceCorrect == Spec => []IndGrace
<1>1. Init => IndGrace
  BY ServerAssumption DEF Init, IndGrace, CutOnlyAfterGrace, Started, Ends
<1>2. IndType /\ IndGrace /\ [Next]_vars => IndGrace'
  <2> SUFFICES ASSUME IndType, IndGrace, [Next]_vars PROVE IndGrace'
    OBVIOUS
  <2>1. CASE UNCHANGED vars
    BY <2>1, OthersKeepGrace DEF vars
  <2> QED
    BY <2>1, StartKeepsGrace, ServeKeepsGrace, RunningKeepsGrace, CloserKeepsGrace
      DEF Next, MainStep
<1> QED
  BY <1>1, <1>2, IndTypeCorrect, PTL DEF Spec

\* However many clients there are and however they, the signals, the end of the grace
\* period and the answers of the listeners interleave, a process that ends in its own time
\* has not cut a request before the grace period was over, but for the listener that
\* could not be closed.
THEOREM CutOnlyAfterGraceCorrect == Spec => []CutOnlyAfterGrace
  BY IndGraceCorrect, PTL DEF IndGrace

-----------------------------------------------------------------------------
(* A server that is told to end can always go on.                          *)

\* Main waits only for a handleShutdown that is there; handleShutdown waits only
\* for listeners that are being shut down, and there is one; a listener that has
\* been told to end is one that serves.  Nothing is shut down while the program
\* asks its questions: its signals are not caught and it is not the service.
IndOver ==
    /\ closer # "none" \/ main \in {"closer", "wait"} => Started # {}
    /\ main = "wait" => closer # "none"
    /\ closer = "collecting" => Awaited # {}
    /\ closer \in {"collecting", "done"} => \A s \in Started : drain[s] # "none"
    /\ main \in {"new", "configure", "ask"} => ~notified
    /\ main = "ask" => app = "qdb_rest"
    /\ stop # "none" => app = "service"
    /\ app # "service" /\ ~notified => ~shut /\ ~signal

LEMMA OverInit == Init => IndOver
  BY DEF Init, IndOver

\* The process ends.
LEMMA ExitKeepsOver ==
  ASSUME IndOver, NEW how, Exit(how),
         UNCHANGED <<app, notified, listener, signal, shut, stop, closer, drain>>
  PROVE  IndOver'
  BY DEF IndOver, Exit, Started, Awaited

LEMMA ConfigureGoes ==
  ASSUME ConfigureAPI
  PROVE  main = "configure" /\ main' \in {"listen", "exited"}
<1>1. ASSUME NEW c, Configure(c) PROVE main' \in {"listen", "exited"}
  <2>1. CASE Refused(OpenLog(c), disk)
    BY <1>1, <2>1 DEF Configure, Exit
  <2>2. CASE ~Refused(OpenLog(c), disk)
    BY <1>1, <2>2 DEF Configure, Main
  <2> QED
    BY <2>1, <2>2
<1> QED
  BY <1>1 DEF ConfigureAPI

LEMMA StartKeepsOver ==
  ASSUME IndType, IndOver,
         NewServer \/ ConfigureAPI \/ ConfigureFails \/ Inform \/ Ask \/ Generate \/ GenerateFails
  PROVE  IndOver'
<1>1. /\ UNCHANGED <<app, notified, listener, signal, shut, stop, closer, drain>>
      /\ closer = "none" /\ ~notified
  BY DEF IndType, IndOver, NewServer, ConfigureAPI, ConfigureFails, Inform, Ask, Generate, GenerateFails, Main,
       started, shutting
<1>2. /\ main' \in {"configure", "ask", "listen", "exited"}
      /\ main' = "ask" => app = "qdb_rest"
  <2>1. CASE ConfigureAPI
    BY <2>1, ConfigureGoes
  <2>2. CASE Generate
    BY <2>2 DEF IndOver, Generate, Exit
  <2>3. CASE NewServer \/ ConfigureFails \/ Inform \/ Ask \/ GenerateFails
    BY <2>3 DEF NewServer, ConfigureFails, Inform, Ask, GenerateFails, Main, Exit
  <2> QED
    BY <2>1, <2>2, <2>3
<1> QED
  BY <1>1, <1>2 DEF IndOver, Started, Awaited

LEMMA ServeKeepsOver ==
  ASSUME IndType, IndOver,
         \/ ListenHTTP \/ ListenTLS \/ ListenFails \/ SignalNotify \/ ServeHTTP \/ ConfigureTLS
         \/ ConfigureTLSFails \/ ServeTLS \/ StartCloser \/ Wait
  PROVE  IndOver'
<1>1. CASE ListenHTTP \/ ListenTLS
  <2>1. closer = "none" /\ main' \in {"listenTLS", "notify"}
    BY <1>1 DEF IndType, ListenHTTP, ListenTLS, Bind, Main
  <2>2. UNCHANGED <<app, notified, signal, shut, stop, closer, drain>>
    BY <1>1 DEF ListenHTTP, ListenTLS, started, shutting
  <2> QED
    BY <2>1, <2>2 DEF IndOver
<1>2. CASE ListenFails \/ ConfigureTLSFails \/ Wait
  BY <1>2, ExitKeepsOver DEF ListenFails, ConfigureTLSFails, Wait, started, shutting
<1>3. CASE SignalNotify
  BY <1>3 DEF IndType, IndOver, SignalNotify, Main, Started, Awaited, shutting
<1>4. CASE ConfigureTLS
  <2>1. /\ closer = "none" /\ main = "tls"
        /\ main' = IF "https" \in schemes THEN "serveTLS" ELSE "closer"
    BY <1>4 DEF IndType, ConfigureTLS, Main
  <2>2. UNCHANGED <<app, notified, listener, signal, shut, stop, closer, drain>>
    BY <1>4 DEF ConfigureTLS, started, shutting
  <2>3. main' = "closer" => "http" \in Started
    BY <2>1 DEF IndType, TypeOK, Started, Schemes
  <2> QED
    BY <2>1, <2>2, <2>3 DEF IndOver, Started, Awaited
<1>5. CASE ServeHTTP
  <2>1. closer = "none" /\ main' = "tls" /\ main = "serve"
    BY <1>5 DEF IndType, ServeHTTP, Main
  <2>2. UNCHANGED <<app, notified, signal, shut, stop, closer, drain>>
    BY <1>5 DEF ServeHTTP, shutting
  <2> QED
    BY <2>1, <2>2 DEF IndOver
<1>6. CASE ServeTLS
  <2>1. closer = "none" /\ main' = "closer"
    BY <1>6 DEF IndType, ServeTLS, Main
  <2>2. UNCHANGED <<app, notified, signal, shut, stop, closer, drain>>
    BY <1>6 DEF ServeTLS, started, shutting
  <2>3. "https" \in Started'
    BY <1>6 DEF ServeTLS, Started, Schemes, IndType, TypeOK
  <2> QED
    BY <2>1, <2>2, <2>3 DEF IndOver
<1>7. CASE StartCloser
  BY <1>7 DEF IndOver, StartCloser, Main, Started, started
<1> QED
  BY <1>1, <1>2, <1>3, <1>4, <1>5, <1>6, <1>7

LEMMA RunningKeepsOver ==
  ASSUME IndType, IndOver,
         \/ \E s \in Schemes : ListenerStep(s) \/ ServeFails(s)
         \/ \E c \in Clients, s \in Schemes : Request(c, s)
         \/ \E c \in Clients : Respond(c)
         \/ Signal \/ HandleInterrupt \/ Stop \/ StopShutdown \/ Stopped
  PROVE  IndOver'
<1>1. ASSUME NEW s \in Schemes, Serving(s) \/ ServeEnds(s) PROVE IndOver'
  <2>1. /\ Started' = Started
        /\ UNCHANGED <<app, main, notified, signal, shut, stop, closer, drain>>
    BY <1>1 DEF Serving, ServeEnds, Started, IndType, TypeOK, started, shutting
  <2> QED
    BY <2>1 DEF IndOver, Awaited
<1>2. CASE (\E s \in Schemes : ServeFails(s)) \/ Stopped
  BY <1>2, ExitKeepsOver DEF ServeFails, Stopped, started, shutting
<1>3. CASE \/ \E c \in Clients, s \in Schemes : Request(c, s)
           \/ \E c \in Clients : Respond(c)
  <2>1. UNCHANGED <<app, main, notified, listener, signal, shut, stop, closer, drain>>
    BY <1>3 DEF Request, Respond, started, shutting
  <2> QED
    BY <2>1 DEF IndOver, Started, Awaited
<1>4. CASE Signal /\ ~notified
  BY <1>4, ExitKeepsOver DEF Signal, started, shutting
<1>5. CASE (Signal /\ notified) \/ HandleInterrupt
  <2>1. UNCHANGED <<app, main, notified, listener, stop, closer, drain>>
    BY <1>5 DEF Signal, HandleInterrupt, started, shutting
  <2>2. app # "service" /\ ~notified => ~shut' /\ ~signal'
    BY <1>5 DEF IndOver, Signal, HandleInterrupt
  <2> QED
    BY <2>1, <2>2 DEF IndOver, Started, Awaited
<1>6. CASE Stop
  BY <1>6 DEF IndOver, Stop, Started, Awaited, started, shutting
<1>7. CASE StopShutdown
  <2>1. /\ app = "service"
        /\ UNCHANGED <<app, notified, listener, signal, closer, drain>>
        /\ main' \in {main, "exited"}
    BY <1>7 DEF IndOver, StopShutdown, Exit, started, shutting
  <2> QED
    BY <2>1 DEF IndOver, Started, Awaited
<1> QED
  BY <1>1, <1>2, <1>3, <1>4, <1>5, <1>6, <1>7 DEF ListenerStep

LEMMA CloserKeepsOver ==
  ASSUME IndType, IndOver, CloserStep
  PROVE  IndOver'
<1>1. UNCHANGED <<app, main, notified, listener, signal, shut, stop>> /\ Started' = Started
  BY DEF CloserStep, HandleShutdown, GraceEnds, Drained, DrainExpires, Return, Collect, Started,
       started
<1>2. CASE HandleShutdown
  <2>1. /\ closer = "waiting" /\ closer' = "collecting"
        /\ drain' = [s \in Schemes |-> IF s \in Started THEN "running" ELSE "none"]
    BY <1>2 DEF HandleShutdown
  <2>2. Awaited' # {}
    BY <2>1 DEF IndOver, Awaited, Started
  <2>3. \A s \in Started : drain'[s] # "none"
    BY <2>1 DEF Started
  <2> QED
    BY <1>1, <2>1, <2>2, <2>3 DEF IndOver
<1>3. CASE GraceEnds
  BY <1>1, <1>3 DEF IndOver, GraceEnds, Awaited
<1>4. ASSUME NEW s \in Schemes, NEW ok \in BOOLEAN, Return(s, ok) PROVE IndOver'
  <2>1. closer' = closer /\ drain' = [drain EXCEPT ![s] = "sending"]
    BY <1>4 DEF Return
  <2>2. s \in Awaited' /\ \A t \in Schemes : drain[t] # "none" => drain'[t] # "none"
    BY <2>1 DEF Awaited, IndType, TypeOK
  <2> QED
    BY <1>1, <2>1, <2>2 DEF IndOver, Started
<1>5. ASSUME NEW s \in Schemes, Collect(s) PROVE IndOver'
  <2>1. /\ closer = "collecting" /\ drain[s] = "sending"
        /\ drain' = [drain EXCEPT ![s] = "sent"]
        /\ closer' = IF ~success[s] \/ Awaited = {s} THEN "done" ELSE "collecting"
    BY <1>5 DEF Collect
  <2>2. /\ \A t \in Schemes : drain[t] # "none" => drain'[t] # "none"
        /\ \A t \in Awaited : t # s => t \in Awaited'
    BY <2>1 DEF Awaited, IndType, TypeOK
  <2>3. s \in Awaited
    BY <2>1 DEF Awaited
  <2>4. closer' = "collecting" => Awaited' # {}
    BY <2>1, <2>2, <2>3
  <2> QED
    BY <1>1, <2>1, <2>2, <2>4 DEF IndOver, Started
<1> QED
  BY <1>2, <1>3, <1>4, <1>5 DEF CloserStep, Drained, DrainExpires

LEMMA OverEnough == IndType /\ IndOver => ShutdownNeverStuck
<1> SUFFICES ASSUME IndType, IndOver, shut, main \in {"ask", "wait"}
             PROVE  ShutdownNeverStuck
  BY DEF ShutdownNeverStuck
<1>1. main = "wait"
  BY DEF IndOver
<1>2. closer \in {"waiting", "collecting", "done"}
  BY <1>1 DEF IndOver, IndType, TypeOK
<1>3. CASE closer = "waiting" \/ (closer = "collecting" /\ ~graceOver)
  BY <1>3 DEF ShutdownNeverStuck
<1>4. CASE closer = "collecting" /\ graceOver
  <2>1. PICK s \in Schemes : drain[s] \in {"running", "sending"}
    BY <1>4 DEF IndOver, Awaited
  <2> QED
    BY <1>4, <2>1 DEF ShutdownNeverStuck
<1>5. CASE closer = "done"
  <2>1. \A s \in Started : /\ drain[s] # "none"
                           /\ listener[s] \in {"starting", "serving", "ended"}
    BY <1>5 DEF IndOver, IndType, TypeOK, Started
  <2> QED
    BY <1>5, <2>1 DEF ShutdownNeverStuck, Started
<1> QED
  BY <1>2, <1>3, <1>4, <1>5

\* Whatever has happened, a server that has been told to end can go on without its
\* clients: its goroutines never wait for one another in a circle, and handleShutdown
\* never waits for an answer more than there are listeners.
THEOREM ShutdownNeverStuckCorrect == Spec => []ShutdownNeverStuck
<1>1. IndType /\ IndOver /\ [Next]_vars => IndOver'
  <2> SUFFICES ASSUME IndType, IndOver, [Next]_vars PROVE IndOver'
    OBVIOUS
  <2>1. CASE UNCHANGED vars
    BY <2>1 DEF vars, IndOver, Started, Awaited, started, shutting
  <2> QED
    BY <2>1, StartKeepsOver, ServeKeepsOver, RunningKeepsOver, CloserKeepsOver DEF Next, MainStep
<1> QED
  BY <1>1, OverInit, OverEnough, IndTypeCorrect, PTL DEF Spec

-----------------------------------------------------------------------------
(* No goroutine goes back.                                                 *)

\* A step of main that has to do with no other goroutine, or one that ends them all.
MainGoes ==
    /\ UNCHANGED <<closer, drain, graceOver, listener>>
    /\ \/ main' = main
       \/ main' = "exited"
       \/ <<main, main'>> \in {<<"new", "configure">>, <<"configure", "ask">>,
                               <<"configure", "listen">>, <<"notify", "serve">>,
                               <<"tls", "serveTLS">>, <<"tls", "closer">>}

\* What AlwaysForward says of a step, but for the last part of it.
Nearer ==
    /\ MainDistance' <= MainDistance
    /\ CloserDistance' <= CloserDistance
    /\ \A s \in Schemes : /\ ListenerDistance(s)' <= ListenerDistance(s)
                          /\ DrainDistance(s)' <= DrainDistance(s)

\* The measures are numbers, and depend on nothing else.
LEMMA MainStays ==
  ASSUME IndType, main' = main
  PROVE  MainDistance' <= MainDistance
  BY DEF IndType, TypeOK, MainPlaces, MainDistance

LEMMA MainEnds ==
  ASSUME IndType, main' = "exited"
  PROVE  MainDistance' <= MainDistance
  BY DEF IndType, TypeOK, MainPlaces, MainDistance

LEMMA CloserStays ==
  ASSUME IndType, UNCHANGED <<closer, graceOver>>
  PROVE  CloserDistance' <= CloserDistance
  BY DEF IndType, TypeOK, CloserDistance

LEMMA ListenerStays ==
  ASSUME IndType, NEW s \in Schemes, listener'[s] = listener[s]
  PROVE  ListenerDistance(s)' <= ListenerDistance(s)
  BY DEF IndType, TypeOK, ListenerDistance

LEMMA DrainStays ==
  ASSUME IndType, NEW s \in Schemes, drain'[s] = drain[s]
  PROVE  DrainDistance(s)' <= DrainDistance(s)
  BY DEF IndType, TypeOK, DrainDistance

\* Main alone goes on, or ends the process, or none does.
LEMMA MainGoesOn ==
  ASSUME IndType, MainGoes
  PROVE  Nearer
<1>1. MainDistance' <= MainDistance
  <2>1. CASE main' = main
    BY <2>1, MainStays
  <2>2. CASE main' = "exited"
    BY <2>2, MainEnds
  <2>3. CASE <<main, main'>> \in {<<"new", "configure">>, <<"configure", "ask">>,
                               <<"configure", "listen">>, <<"notify", "serve">>,
                               <<"tls", "serveTLS">>, <<"tls", "closer">>}
    BY <2>3 DEF MainDistance
  <2> QED
    BY <2>1, <2>2, <2>3 DEF MainGoes
<1> QED
  BY <1>1, CloserStays, ListenerStays, DrainStays DEF MainGoes, Nearer

LEMMA ServeGoesOn ==
  ASSUME IndType,
         ListenHTTP \/ ListenTLS \/ ServeHTTP \/ ServeTLS \/ StartCloser
  PROVE  Nearer
<1>1. MainDistance' <= MainDistance
  <2>1. <<main, main'>> \in {<<"listen", "listenTLS">>, <<"listenTLS", "notify">>,
                             <<"serve", "tls">>, <<"serveTLS", "closer">>, <<"closer", "wait">>}
    BY DEF ListenHTTP, ListenTLS, ServeHTTP, ServeTLS, StartCloser, Bind, Main
  <2> QED
    BY <2>1 DEF MainDistance
<1>2. CloserDistance' <= CloserDistance
  <2>1. CASE StartCloser
    <3>1. closer = "none" /\ closer' = "waiting"
      BY <2>1 DEF IndType, TypeOK, StartCloser, Main
    <3> QED
      BY <3>1 DEF CloserDistance
  <2>2. CASE ListenHTTP \/ ListenTLS \/ ServeHTTP \/ ServeTLS
    BY <2>2, CloserStays DEF ListenHTTP, ListenTLS, ServeHTTP, ServeTLS, shutting
  <2> QED
    BY <2>1, <2>2
<1>3. ASSUME NEW s \in Schemes
      PROVE  ListenerDistance(s)' <= ListenerDistance(s)
  <2>1. CASE listener'[s] = listener[s]
    BY <2>1, ListenerStays
  <2>2. CASE listener'[s] # listener[s]
    <3>1. CASE ListenHTTP \/ ListenTLS
      <4>1. listener[s] \in {"none", "bound"} /\ listener'[s] = "bound"
        BY <2>2, <3>1 DEF IndType, TypeOK, ListenHTTP, ListenTLS, Bind, Main, Schemes
      <4> QED
        BY <4>1 DEF ListenerDistance
    <3>2. CASE ServeHTTP
      <4>1. listener[s] \in {"none", "bound"} /\ listener'[s] = "starting"
        BY <2>2, <3>2 DEF IndType, TypeOK, ServeHTTP, Main, Schemes
      <4> QED
        BY <4>1 DEF ListenerDistance
    <3>3. CASE ServeTLS
      <4>1. listener[s] \in {"none", "bound"} /\ listener'[s] = "starting"
        BY <2>2, <3>3 DEF IndType, TypeOK, ServeTLS, Main, Schemes
      <4> QED
        BY <4>1 DEF ListenerDistance
    <3>4. CASE StartCloser
      BY <2>2, <3>4 DEF StartCloser
    <3> QED
      BY <3>1, <3>2, <3>3, <3>4
  <2> QED
    BY <2>1, <2>2
<1>4. drain' = drain
  BY DEF ListenHTTP, ListenTLS, ServeHTTP, ServeTLS, StartCloser, shutting
<1> QED
  BY <1>1, <1>2, <1>3, <1>4, DrainStays DEF Nearer

LEMMA ListenerGoesOn ==
  ASSUME IndType, NEW s \in Schemes, ListenerStep(s)
  PROVE  Nearer
<1>1. UNCHANGED <<main, closer, drain, graceOver>>
  BY DEF ListenerStep, Serving, ServeEnds, shutting
<1>2. ASSUME NEW t \in Schemes
      PROVE  ListenerDistance(t)' <= ListenerDistance(t)
  <2>1. CASE listener'[t] = listener[t]
    BY <2>1, ListenerStays
  <2>2. CASE listener'[t] # listener[t]
    <3>1. \/ listener[t] = "starting" /\ listener'[t] = "serving"
          \/ listener[t] \in {"starting", "serving"} /\ listener'[t] = "ended"
      BY <2>2 DEF IndType, TypeOK, ListenerStep, Serving, ServeEnds
    <3> QED
      BY <3>1 DEF ListenerDistance
  <2> QED
    BY <2>1, <2>2
<1> QED
  BY <1>1, <1>2, MainStays, CloserStays, DrainStays DEF Nearer

LEMMA CloserGoesOn ==
  ASSUME IndType, IndGrace, CloserStep
  PROVE  Nearer
<1>1. UNCHANGED <<main, listener>>
  BY DEF CloserStep, HandleShutdown, GraceEnds, Drained, DrainExpires, Return, Collect
<1>2. CASE HandleShutdown
  <2>1. /\ closer = "waiting" /\ closer' = "collecting"
        /\ drain' = [s \in Schemes |-> IF s \in Started THEN "running" ELSE "none"]
    BY <1>2 DEF HandleShutdown
  <2>2. CloserDistance' <= CloserDistance
    BY <2>1 DEF CloserDistance
  <2>3. ASSUME NEW s \in Schemes PROVE DrainDistance(s)' <= DrainDistance(s)
    <3>1. drain[s] = "none" /\ drain'[s] \in {"none", "running"}
      BY <2>1 DEF IndGrace
    <3> QED
      BY <3>1 DEF DrainDistance
  <2> QED
    BY <1>1, <2>2, <2>3, MainStays, ListenerStays DEF Nearer
<1>3. CASE GraceEnds
  <2>1. /\ closer' = "collecting" /\ closer = "collecting"
        /\ ~graceOver /\ graceOver' /\ drain' = drain
    BY <1>3 DEF GraceEnds
  <2>2. CloserDistance' <= CloserDistance
    BY <2>1 DEF CloserDistance
  <2> QED
    BY <1>1, <2>1, <2>2, MainStays, ListenerStays, DrainStays DEF Nearer
<1>4. ASSUME NEW s \in Schemes, NEW from, NEW to,
             drain[s] = from, drain' = [drain EXCEPT ![s] = to],
             <<from, to>> \in {<<"running", "sending">>, <<"sending", "sent">>},
             NEW t \in Schemes
      PROVE  DrainDistance(t)' <= DrainDistance(t)
  <2>1. CASE t = s
    <3>1. drain[t] = from /\ drain'[t] = to
      BY <1>4, <2>1 DEF IndType, TypeOK
    <3> QED
      BY <1>4, <3>1 DEF DrainDistance
  <2>2. CASE t # s
    BY <1>4, <2>2, DrainStays DEF IndType, TypeOK
  <2> QED
    BY <2>1, <2>2
<1>5. ASSUME NEW s \in Schemes, NEW ok \in BOOLEAN, Return(s, ok) PROVE Nearer
  <2>1. UNCHANGED <<closer, graceOver>>
    BY <1>5 DEF Return
  <2>2. drain[s] = "running" /\ drain' = [drain EXCEPT ![s] = "sending"]
    BY <1>5 DEF Return
  <2>3. \A t \in Schemes : DrainDistance(t)' <= DrainDistance(t)
    BY <1>4, <2>2
  <2> QED
    BY <1>1, <2>1, <2>3, MainStays, CloserStays, ListenerStays DEF Nearer
<1>6. ASSUME NEW s \in Schemes, Collect(s) PROVE Nearer
  <2>1. /\ closer = "collecting" /\ closer' \in {"collecting", "done"}
        /\ UNCHANGED graceOver
    BY <1>6 DEF Collect
  <2>2. CloserDistance' <= CloserDistance
    BY <2>1 DEF CloserDistance
  <2>3. drain[s] = "sending" /\ drain' = [drain EXCEPT ![s] = "sent"]
    BY <1>6 DEF Collect
  <2>4. \A t \in Schemes : DrainDistance(t)' <= DrainDistance(t)
    BY <1>4, <2>3
  <2> QED
    BY <1>1, <2>2, <2>4, MainStays, ListenerStays DEF Nearer
<1> QED
  BY <1>2, <1>3, <1>5, <1>6 DEF CloserStep, Drained, DrainExpires

\* Whoever is as near as before has not moved.
LEMMA NearerOrStill ==
  ASSUME IndType, IndType', Nearer
  PROVE  \/ UNCHANGED <<main, closer, listener, drain>>
         \/ MainDistance' < MainDistance
         \/ CloserDistance' < CloserDistance
         \/ \E s \in Schemes : \/ ListenerDistance(s)' < ListenerDistance(s)
                               \/ DrainDistance(s)' < DrainDistance(s)
<1>1. main' # main => MainDistance' < MainDistance
  <2>1. main \in MainPlaces /\ main' \in MainPlaces
    BY DEF IndType, TypeOK
  <2>2. MainDistance' = MainDistance => main' = main
    BY <2>1 DEF MainPlaces, MainDistance
  <2>3. MainDistance \in Nat /\ MainDistance' \in Nat
    BY <2>1 DEF MainPlaces, MainDistance
  <2> QED
    BY <2>2, <2>3 DEF Nearer
<1>2. closer' # closer => CloserDistance' < CloserDistance
  <2>1. /\ {closer, closer'} \subseteq {"none", "waiting", "collecting", "done"}
        /\ {graceOver, graceOver'} \subseteq BOOLEAN
    BY DEF IndType, TypeOK
  <2>2. CloserDistance' = CloserDistance => closer' = closer
    BY <2>1 DEF CloserDistance
  <2>3. CloserDistance \in Nat /\ CloserDistance' \in Nat
    BY <2>1 DEF CloserDistance
  <2> QED
    BY <2>2, <2>3 DEF Nearer
<1>3. ASSUME NEW s \in Schemes, listener'[s] # listener[s]
      PROVE  ListenerDistance(s)' < ListenerDistance(s)
  <2>1. {listener[s], listener'[s]} \subseteq {"none", "bound", "starting", "serving", "ended"}
    BY DEF IndType, TypeOK
  <2>2. ListenerDistance(s)' # ListenerDistance(s)
    BY <1>3, <2>1 DEF ListenerDistance
  <2>3. ListenerDistance(s) \in Nat /\ ListenerDistance(s)' \in Nat
    BY <2>1 DEF ListenerDistance
  <2> QED
    BY <2>2, <2>3 DEF Nearer
<1>4. ASSUME NEW s \in Schemes, drain'[s] # drain[s]
      PROVE  DrainDistance(s)' < DrainDistance(s)
  <2>1. {drain[s], drain'[s]} \subseteq {"none", "running", "sending", "sent"}
    BY DEF IndType, TypeOK
  <2>2. DrainDistance(s)' # DrainDistance(s)
    BY <1>4, <2>1 DEF DrainDistance
  <2>3. DrainDistance(s) \in Nat /\ DrainDistance(s)' \in Nat
    BY <2>1 DEF DrainDistance
  <2> QED
    BY <2>2, <2>3 DEF Nearer
<1>5. CASE \E s \in Schemes : listener'[s] # listener[s] \/ drain'[s] # drain[s]
  BY <1>3, <1>4, <1>5
<1>6. CASE \A s \in Schemes : listener'[s] = listener[s] /\ drain'[s] = drain[s]
  <2>1. listener' = listener /\ drain' = drain
    BY <1>6 DEF IndType, TypeOK
  <2> QED
    BY <1>1, <1>2, <2>1
<1> QED
  BY <1>5, <1>6

\* No goroutine of the server ever goes back, in any interleaving: with
\* ShutdownNeverStuck, a server that is told to end does so after a bounded number of
\* steps of its own.
THEOREM AlwaysForwardCorrect == Spec => AlwaysForward
<1>1. IndType /\ IndGrace /\ [Next]_vars => Nearer
  <2> SUFFICES ASSUME IndType, IndGrace, [Next]_vars PROVE Nearer
    OBVIOUS
  <2>1. CASE NewServer \/ ConfigureAPI \/ ConfigureFails \/ Inform \/ Ask \/ Generate \/ GenerateFails
    <3>1. UNCHANGED <<closer, drain, graceOver, listener>>
      BY <2>1 DEF NewServer, ConfigureAPI, ConfigureFails, Inform, Ask, Generate, GenerateFails, shutting
    <3>2. \/ main' \in {main, "exited"}
          \/ <<main, main'>> \in {<<"new", "configure">>, <<"configure", "ask">>,
                                  <<"configure", "listen">>}
      <4>1. CASE ConfigureAPI
        BY <4>1, ConfigureGoes
      <4>2. CASE NewServer \/ ConfigureFails \/ Inform \/ Ask \/ Generate \/ GenerateFails
        BY <4>2 DEF NewServer, ConfigureFails, Inform, Ask, Generate, GenerateFails, Main, Exit
      <4> QED
        BY <2>1, <4>1, <4>2
    <3> QED
      BY <3>1, <3>2, MainGoesOn DEF MainGoes
  <2>2. CASE SignalNotify \/ ConfigureTLS \/ ListenFails \/ ConfigureTLSFails \/ Wait
    <3>1. UNCHANGED <<closer, drain, graceOver, listener>>
      BY <2>2 DEF SignalNotify, ConfigureTLS, ListenFails, ConfigureTLSFails, Wait, shutting
    <3>2. \/ main' = "exited"
          \/ <<main, main'>> \in {<<"notify", "serve">>, <<"tls", "serveTLS">>, <<"tls", "closer">>}
      BY <2>2 DEF SignalNotify, ConfigureTLS, ListenFails, ConfigureTLSFails, Wait, Main, Exit
    <3> QED
      BY <3>1, <3>2, MainGoesOn DEF MainGoes
  <2>3. CASE \/ \E s \in Schemes : ServeFails(s)
             \/ \E c \in Clients, s \in Schemes : Request(c, s)
             \/ \E c \in Clients : Respond(c)
             \/ Signal \/ HandleInterrupt \/ Stop \/ StopShutdown \/ Stopped
    <3>1. UNCHANGED <<closer, drain, graceOver, listener>> /\ main' \in {main, "exited"}
      BY <2>3 DEF ServeFails, Request, Respond, Signal, HandleInterrupt, Stop, StopShutdown,
           Stopped, Exit, shutting
    <3> QED
      BY <3>1, MainGoesOn DEF MainGoes
  <2>4. CASE UNCHANGED vars
    BY <2>4, MainGoesOn DEF MainGoes, vars, shutting
  <2> QED
    BY <2>1, <2>2, <2>3, <2>4, ServeGoesOn, ListenerGoesOn, CloserGoesOn DEF Next, MainStep
<1>2. IndType /\ IndType' /\ IndGrace /\ [Next]_vars =>
        [ /\ MainDistance' <= MainDistance
          /\ CloserDistance' <= CloserDistance
          /\ \A s \in Schemes : /\ ListenerDistance(s)' <= ListenerDistance(s)
                                /\ DrainDistance(s)' <= DrainDistance(s)
          /\ \/ UNCHANGED <<main, closer, listener, drain>>
             \/ MainDistance' < MainDistance
             \/ CloserDistance' < CloserDistance
             \/ \E s \in Schemes : \/ ListenerDistance(s)' < ListenerDistance(s)
                                   \/ DrainDistance(s)' < DrainDistance(s) ]_vars
  BY <1>1, NearerOrStill DEF Nearer
<1> QED
  BY <1>2, IndTypeCorrect, IndGraceCorrect, PTL DEF Spec, AlwaysForward
=============================================================================
