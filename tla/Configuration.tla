---------------------------- MODULE Configuration ----------------------------
(***************************************************************************)
(* What becomes of the flags, the environment and the configuration file:  *)
(* SetDefaults, Check and the generator of package config, as operators.   *)
(*                                                                         *)
(* A configuration is a function on the fields that SetDefaults merges.    *)
(* Paths and addresses are names, the empty one is "".  A file is a        *)
(* function on the keys it has.                                            *)
(***************************************************************************)
EXTENDS Naturals

CONSTANT NoFile     \* no configuration file is given

\* FilledDefaultConfig, which the flags are parsed into.
FilledDefaultConfig ==
    [ClusterURI |-> "local cluster", ClusterPublicKeyFile |-> "", RestPrivateKeyFile |-> "",
     ReadinessQuery |-> "", TLSCertificate |-> "", TLSCertificateKey |-> "", TLSPort |-> 40443,
     Host |-> "localhost", Port |-> 40080, Log |-> "/var/log", Assets |-> "/var/lib",
     LogMaxSize |-> 1024, LogMaxRetention |-> 5, LogMaxAge |-> 10, LogCompress |-> FALSE,
     MaxInBufferSize |-> 131072000, ParallelismCount |-> 1, PoolSize |-> 1]

Fields == DOMAIN FilledDefaultConfig

\* The fields by type.  The program reads numbers of two kinds: Go's int for
\* ports and the log, uint for the last three.
UintFields == {"MaxInBufferSize", "ParallelismCount", "PoolSize"}
IntFields == {"TLSPort", "Port", "LogMaxSize", "LogMaxRetention", "LogMaxAge"}
StringFields == Fields \ (UintFields \cup IntFields \cup {"LogCompress"})

\* A Config that nothing has been assigned to.
Zero == [f \in Fields |-> IF f \in StringFields THEN ""
                          ELSE IF f = "LogCompress" THEN FALSE ELSE 0]

Local == [Host |-> "localhost", Port |-> 40080, Log |-> "qdb_rest.log", Assets |-> "assets"]

Secured == [ClusterPublicKeyFile |-> "/usr/share/cluster.key",
            RestPrivateKeyFile |-> "/etc/rest.key", TLSCertificate |-> "/etc/cert.pem",
            TLSCertificateKey |-> "/etc/key.pem", TLSPort |-> 40443]

-----------------------------------------------------------------------------
(* SetDefaults.                                                            *)

\* Fields that still have their default take another one.
Override(c, values) ==
    [f \in Fields |-> IF f \in DOMAIN values /\ c[f] = FilledDefaultConfig[f]
                      THEN values[f] ELSE c[f]]

SetLocal(c) == Override(c, Local)
SetSecured(c) == Override(c, Secured)

\* json.Unmarshal into an empty Config: a key the file lacks is zero.
Unmarshal(file) == [f \in Fields |-> IF f \in DOMAIN file THEN file[f] ELSE Zero[f]]

\* The file's values, whether it has the keys or not, replace the defaults; but
\* three zeros do not.
Merge(c, file) ==
    LET config == Unmarshal(file)
    IN Override(c, [f \in {g \in Fields : g \in UintFields => config[g] # 0} |-> config[f]])

SetDefaults(c, local, secure, file) ==
    LET localised == IF local THEN SetLocal(c) ELSE c
        secured == IF secure THEN SetSecured(localised) ELSE localised
    IN IF file = NoFile THEN secured ELSE Merge(secured, file)

-----------------------------------------------------------------------------
(* Check, on a disk given as the set of the paths that exist.              *)

KeyFiles == {"ClusterPublicKeyFile", "RestPrivateKeyFile", "TLSCertificate", "TLSCertificateKey"}

\* statFiles: those of the four files that are named and exist.
statFiles(c, disk) == {f \in KeyFiles : c[f] # "" /\ c[f] \in disk}

\* Mutated Refused: without a certificate, a secured cluster is served as well.
Refused_Never(c, disk) == FALSE

\* The keys of a secured cluster are there, but not the certificate: log.Fatalln.
Refused(c, disk) ==
    LET found == statFiles(c, disk)
    IN "ClusterPublicKeyFile" \in found /\ ~({"TLSCertificate", "TLSCertificateKey"} \subseteq found)

\* Otherwise the names of files that are missing are removed.
Check(c, disk) ==
    [f \in Fields |-> IF f \in KeyFiles \ statFiles(c, disk) THEN "" ELSE c[f]]

IsSecurityEnabled(c) == c.ClusterPublicKeyFile # "" /\ c.RestPrivateKeyFile # ""

-----------------------------------------------------------------------------
(* The interactive generator.                                              *)

\* The fields it asks for, in any order; RestPrivateKeyFile is not one of them.
Asked == {"ClusterURI", "ClusterPublicKeyFile", "ReadinessQuery", "TLSCertificate",
          "TLSCertificateKey", "TLSPort", "Host", "Port", "Log", "Assets",
          "MaxInBufferSize", "ParallelismCount", "PoolSize"}

\* ask: an answer is stored in fields of kind Int and String, a field whose
\* question is answered by Enter alone takes the default; nothing is stored in a
\* field of kind Uint.  "answers" has the fields that are answered otherwise, and
\* "garbled" those whose answer is no integer: Port is asked for again, and into
\* TLSPort, whose question is not repeated, nothing is stored.
askQuestions(default, answers, garbled) ==
    [f \in Fields |->
        CASE f \notin Asked \cap (IntFields \cup StringFields) -> Zero[f]
          [] f = "TLSPort" /\ f \in garbled -> Zero[f]
          [] f \in DOMAIN answers -> answers[f]
          [] OTHER -> default[f]]

\* validate: what it complains about.
validate(c) ==
    LET noCert == c.TLSCertificate = ""
        noKey == c.TLSCertificateKey = ""
    IN (IF c.ClusterPublicKeyFile # "" /\ (noCert \/ noKey) THEN {"a secured cluster needs TLS"}
        ELSE IF noCert # noKey THEN {"TLS needs key and certificate"} ELSE {})
       \cup (IF c.MaxInBufferSize < 1500 THEN {"MaxInBufferSize"} ELSE {})
       \cup (IF c.ParallelismCount < 1 THEN {"ParallelismCount"} ELSE {})
       \cup (IF c.PoolSize < 1 THEN {"PoolSize"} ELSE {})
=============================================================================
