-------------------------- MODULE MCServerLifecycle --------------------------
\* Values for TLC.
EXTENDS ServerLifecycle, TLC

\* Nothing; the keys of a secured cluster; a certificate; both.
Keys == [ClusterPublicKeyFile |-> "/usr/share/cluster.key", RestPrivateKeyFile |-> "/etc/rest.key"]
Cert == [TLSCertificate |-> "/etc/cert.pem", TLSCertificateKey |-> "/etc/key.pem"]
MCCommandLines == {<<>>, Keys, Cert, Keys @@ Cert}

\* A file with everything, and one that lacks the port of https.
MCFiles == {Keys @@ Cert @@ [TLSPort |-> 443], Keys @@ Cert}

Complete == {"/usr/share/cluster.key", "/etc/rest.key", "/etc/cert.pem", "/etc/key.pem"}
MCDisks == {Complete, Complete \ {"/etc/cert.pem"}, Complete \ {"/etc/rest.key"},
            {"/etc/cert.pem", "/etc/key.pem"}}
=============================================================================
