--------------------------- MODULE ServerLifecycle ---------------------------
(***************************************************************************)
(* The server from its start to its end: the mains of qdb_rest, of the     *)
(* Windows service and of the generated qdb-api-rest-server, Serve and     *)
(* Listen of restapi/server.go, and the goroutines that serve, wait for    *)
(* signals and shut down.                                                  *)
(*                                                                         *)
(* "main" is the place of the goroutine that calls Serve; a signal, a      *)
(* service's Stop or the end of a grace period may come anywhere.  A       *)
(* request in flight is a client's, until it ends or the process does.     *)
(* http.Server's Shutdown is external, modelled as documented: it waits    *)
(* for the requests of its listener, and not longer than its context.      *)
(***************************************************************************)
EXTENDS Configuration, FiniteSets

CONSTANTS
    Clients,    \* one request at a time each
    Null,
    CommandLines, Files,    \* flags given by name, and configuration files
    Disks,      \* sets of existing paths
    Faults      \* what may go wrong

Apps == {"qdb_rest", "service", "qdb-api-rest-server"}
Schemes == {"http", "https"}
ServerFaults == {"listen",       \* an address is in use
                 "certificate",  \* a certificate cannot be loaded
                 "accept",       \* Serve returns an error
                 "close"}        \* a listener cannot be closed

\* How a process ends: by its own code, or a signal, a panic or the service manager.
Ends == {"0", "1", "signal", "panic", "stopped"}

ASSUME ServerAssumption ==
    /\ Null \notin Schemes \cup Ends
    /\ Faults \subseteq ServerFaults
    /\ \A given \in CommandLines \cup Files :
          "TLSPort" \in DOMAIN given => given["TLSPort"] \in Nat

VARIABLES
    app,        \* which program runs
    disk,       \* the paths that exist
    main,       \* where its main, or the service's run, is
    exit,       \* how the process has ended
    config,     \* APIConfig
    secret,     \* the key that tokens are encrypted with
    schemes,    \* Server.EnabledListeners
    graceful,   \* Server.GracefulTimeout is positive
    tlsPort,    \* Server.TLSPort
    redirects,  \* the handler of the http listener redirects to https
    listener,   \* what has become of each listener
    notified, signal,   \* signals are caught; one is in the channel
    interrupted, shut,  \* Server.interrupted; Server.shutdown is closed
    stop,       \* how far the service's Stop is
    closer,     \* where handleShutdown is
    drain,      \* how far http.Server.Shutdown is on a listener
    success,    \* what it returns
    graceOver,  \* its context has ended
    request     \* the listener of the request a client has in flight

opened == <<config, secret, schemes, graceful>>
started == <<tlsPort, redirects, notified>>
shutting == <<closer, drain, success, graceOver>>
vars == <<app, disk, main, exit, opened, started, listener, signal, interrupted, shut,
          stop, shutting, request>>

MainPlaces == {"new", "configure", "ask", "listen", "listenTLS", "notify", "serve", "tls",
               "serveTLS", "closer", "wait", "exited"}

\* Types, and which places of the goroutines go together.
TypeOK ==
    /\ app \in Apps
    /\ disk \in Disks
    /\ main \in MainPlaces
    /\ exit \in Ends \cup {Null}
    /\ DOMAIN config = Fields
    /\ secret \in {"default", "file"}
    /\ schemes \subseteq Schemes
    /\ tlsPort \in Nat
    /\ listener \in [Schemes -> {"none", "bound", "starting", "serving", "ended"}]
    /\ \A v \in {graceful, redirects, notified, signal, interrupted, shut, graceOver} :
           v \in BOOLEAN
    /\ stop \in {"none", "called", "done"}
    /\ closer \in {"none", "waiting", "collecting", "done"}
    /\ drain \in [Schemes -> {"none", "running", "sending", "sent"}]
    /\ success \in [Schemes -> BOOLEAN]
    /\ request \in [Clients -> Schemes \cup {Null}]
    /\ exit = Null <=> main # "exited"
    /\ closer \in {"collecting", "done"} => shut
    /\ \A s \in Schemes : /\ listener[s] # "none" => s \in schemes
                          /\ drain[s] # "none" => /\ closer \in {"collecting", "done"}
                                                  /\ listener[s] \notin {"none", "bound"}

Init ==
    /\ app \in Apps /\ disk \in Disks
    /\ main = "new" /\ exit = Null
    /\ config = FilledDefaultConfig /\ secret = "default"
    /\ schemes = {} /\ graceful = FALSE /\ tlsPort = 0 /\ redirects = FALSE
    /\ listener = [s \in Schemes |-> "none"]
    /\ notified = FALSE /\ signal = FALSE
    /\ interrupted = FALSE /\ shut = FALSE /\ stop = "none"
    /\ closer = "none"
    /\ drain = [s \in Schemes |-> "none"]
    /\ success = [s \in Schemes |-> FALSE]
    /\ graceOver = FALSE
    /\ request = [c \in Clients |-> Null]

\* The process ends, and everything in it.
Exit(how) == main' = "exited" /\ exit' = how

\* main goes on, unless the process has ended meanwhile.
Main(from, to) == main = from /\ main' = to /\ UNCHANGED exit

Started == {s \in Schemes : listener[s] \notin {"none", "bound"}}

-----------------------------------------------------------------------------
(* Start.                                                                  *)

NewServer ==
    /\ Main("new", "configure")
    /\ UNCHANGED <<app, disk, opened, started, listener, signal, interrupted, shut, stop,
                   shutting, request>>

\* The flags of qdb_rest and of the service are those of APIConfig, some of which
\* the environment may give.  The service has a configuration file, from the
\* registry, and no other flags.
Flags(line) == [f \in Fields |-> IF f \in DOMAIN line THEN line[f] ELSE FilledDefaultConfig[f]]

\* The log file cannot be created: the log goes to the console.
OpenLog(c) == IF c.Log \in disk THEN c ELSE [c EXCEPT !.Log = ""]

\* ConfigureAPI and what main does next: it serves https if there is a
\* certificate.  Of a Server whose flags are not parsed GracefulTimeout is zero;
\* the generated server parses --scheme and --graceful-timeout.
Configure(c) ==
    LET merged == OpenLog(c)
        checked == Check(merged, disk)
    IN IF Refused(merged, disk)
       THEN Exit("1") /\ UNCHANGED <<config, secret, schemes, graceful, tlsPort>>
       ELSE /\ Main("configure", "listen")
            /\ config' = checked
            /\ secret' = IF IsSecurityEnabled(checked) THEN "file" ELSE "default"
            /\ schemes' \in
                 IF app = "qdb-api-rest-server" THEN (SUBSET Schemes) \ {{}}
                 ELSE {{"http"} \cup
                       IF checked.TLSCertificate # "" /\ checked.TLSCertificateKey # ""
                       THEN {"https"} ELSE {}}
            /\ tlsPort' = IF "https" \in schemes' /\ app # "qdb-api-rest-server"
                          THEN checked.TLSPort ELSE 0
            /\ graceful' \in IF app = "qdb-api-rest-server" THEN BOOLEAN ELSE {FALSE}

ConfigureAPI ==
    /\ main = "configure"
    /\ IF app = "qdb-api-rest-server" THEN Configure(FilledDefaultConfig)
       ELSE \E line \in CommandLines, local, secure \in BOOLEAN, file \in Files \cup {NoFile} :
              /\ app = "service" => ~local /\ ~secure /\ file # NoFile
              /\ Configure(SetDefaults(Flags(line), local, secure, file))
    /\ UNCHANGED <<app, disk, redirects, notified, listener, signal, interrupted, shut, stop,
                   shutting, request>>

\* The flags or the file cannot be read, or the key of the tokens.
ConfigureFails ==
    /\ main = "configure"
    /\ \E how \in {"1", "panic"} : Exit(how)
    /\ UNCHANGED <<app, disk, opened, started, listener, signal, interrupted, shut, stop,
                   shutting, request>>

\* --version, --help, or --gen-config, whose configuration is printed.
Inform ==
    /\ main = "configure"
    /\ Exit("0")
    /\ UNCHANGED <<app, disk, opened, started, listener, signal, interrupted, shut, stop,
                   shutting, request>>

\* --gen-config --interactive.
Ask ==
    /\ app = "qdb_rest"
    /\ Main("configure", "ask")
    /\ \E line \in CommandLines, local, secure \in BOOLEAN :
          config' = SetDefaults(Flags(line), local, secure, NoFile)
    /\ UNCHANGED <<app, disk, secret, schemes, graceful, started, listener, signal, interrupted,
                   shut, stop, shutting, request>>

\* One round of Generate: the answers become the defaults of the next round
\* until they are valid and agreed to.  Then the file is written, or not.
Generate ==
    /\ main = "ask"
    /\ \E line \in CommandLines, garbled \in SUBSET {"Port", "TLSPort"}, agreed \in BOOLEAN :
         LET conf == askQuestions(config, line, garbled)
         IN /\ config' = conf
            /\ IF validate(conf) = {} /\ agreed THEN Exit("0") ELSE UNCHANGED <<main, exit>>
    /\ UNCHANGED <<app, disk, secret, schemes, graceful, started, listener, signal, interrupted,
                   shut, stop, shutting, request>>

\* The input ends at a question: readLine cuts the last character off an empty line.
GenerateFails ==
    /\ main = "ask"
    /\ Exit("panic")
    /\ UNCHANGED <<app, disk, opened, started, listener, signal, interrupted, shut, stop,
                   shutting, request>>

-----------------------------------------------------------------------------
(* Listen and Serve.                                                       *)

Bind(s, from, to) ==
    /\ Main(from, to)
    /\ listener' = IF s \in schemes THEN [listener EXCEPT ![s] = "bound"] ELSE listener

ListenHTTP ==
    /\ Bind("http", "listen", "listenTLS")
    /\ UNCHANGED <<app, disk, opened, started, signal, interrupted, shut, stop, shutting, request>>

\* The system chooses a port if it is asked for port 0.
RandomPort == 49152

ListenTLS ==
    /\ Bind("https", "listenTLS", "notify")
    /\ tlsPort' = IF "https" \in schemes /\ tlsPort = 0 THEN RandomPort ELSE tlsPort
    /\ UNCHANGED <<app, disk, opened, redirects, notified, signal, interrupted, shut, stop,
                   shutting, request>>

ListenFails ==
    /\ "listen" \in Faults
    /\ main \in {"listen", "listenTLS"}
    /\ Exit("1")
    /\ UNCHANGED <<app, disk, opened, started, listener, signal, interrupted, shut, stop,
                   shutting, request>>

\* From now on signals go to handleInterrupt.
SignalNotify ==
    /\ Main("notify", "serve")
    /\ notified' = TRUE
    /\ UNCHANGED <<app, disk, opened, tlsPort, redirects, listener, signal, interrupted, shut,
                   stop, shutting, request>>

\* configureServer: the http listener redirects if APIConfig has a certificate.
ServeHTTP ==
    /\ Main("serve", "tls")
    /\ IF "http" \in schemes
       THEN /\ listener' = [listener EXCEPT !["http"] = "starting"]
            /\ redirects' = (config.TLSCertificate # "" /\ config.TLSCertificateKey # "")
       ELSE UNCHANGED <<listener, redirects>>
    /\ UNCHANGED <<app, disk, opened, tlsPort, notified, signal, interrupted, shut, stop,
                   shutting, request>>

ConfigureTLS ==
    /\ Main("tls", IF "https" \in schemes THEN "serveTLS" ELSE "closer")
    /\ UNCHANGED <<app, disk, opened, started, listener, signal, interrupted, shut, stop,
                   shutting, request>>

\* The certificate cannot be loaded: qdb_rest panics in configureTLS.  The
\* generated server has flags of its own, and exits.
ConfigureTLSFails ==
    /\ "certificate" \in Faults
    /\ main = "tls"
    /\ "https" \in schemes
    /\ Exit(IF app = "qdb-api-rest-server" THEN "1" ELSE "panic")
    /\ UNCHANGED <<app, disk, opened, started, listener, signal, interrupted, shut, stop,
                   shutting, request>>

ServeTLS ==
    /\ Main("serveTLS", "closer")
    /\ listener' = [listener EXCEPT !["https"] = "starting"]
    /\ UNCHANGED <<app, disk, opened, started, signal, interrupted, shut, stop, shutting, request>>

\* Mutated StartCloser: it does not wait until it is told to.
StartCloser_AtOnce ==
    /\ Main("closer", "wait")
    /\ closer' = "collecting"
    /\ drain' = [s \in Schemes |-> IF s \in Started THEN "running" ELSE "none"]
    /\ UNCHANGED <<app, disk, opened, started, listener, signal, interrupted, shut, stop,
                   success, graceOver, request>>

StartCloser ==
    /\ Main("closer", "wait")
    /\ closer' = "waiting"
    /\ UNCHANGED <<app, disk, opened, started, listener, signal, interrupted, shut, stop,
                   drain, success, graceOver, request>>

\* wg.Wait: every listener and handleShutdown have ended, and main returns.
Wait ==
    /\ main = "wait"
    /\ \A s \in Started : listener[s] = "ended"
    /\ closer = "done"
    /\ Exit("0")
    /\ UNCHANGED <<app, disk, opened, started, listener, signal, interrupted, shut, stop,
                   shutting, request>>

-----------------------------------------------------------------------------
(* The goroutines of the listeners, and the clients.                       *)

Running == main # "exited"

\* http.Server.Serve: it returns ErrServerClosed as soon as Shutdown is called.
Serving(s) ==
    /\ Running
    /\ listener[s] = "starting" /\ drain[s] = "none"
    /\ listener' = [listener EXCEPT ![s] = "serving"]
    /\ UNCHANGED <<app, disk, main, exit, opened, started, signal, interrupted, shut, stop,
                   shutting, request>>

ServeEnds(s) ==
    /\ Running
    /\ listener[s] \in {"starting", "serving"} /\ drain[s] # "none"
    /\ listener' = [listener EXCEPT ![s] = "ended"]
    /\ UNCHANGED <<app, disk, main, exit, opened, started, signal, interrupted, shut, stop,
                   shutting, request>>

\* Any other error ends the process: Fatalf.
ServeFails(s) ==
    /\ "accept" \in Faults
    /\ Running
    /\ listener[s] = "serving" /\ drain[s] = "none"
    /\ Exit("1")
    /\ UNCHANGED <<app, disk, opened, started, listener, signal, interrupted, shut, stop,
                   shutting, request>>

Request(c, s) ==
    /\ Running
    /\ request[c] = Null
    /\ listener[s] = "serving" /\ drain[s] = "none"
    /\ request' = [request EXCEPT ![c] = s]
    /\ UNCHANGED <<app, disk, main, exit, opened, started, listener, signal, interrupted, shut,
                   stop, shutting>>

Respond(c) ==
    /\ Running
    /\ request[c] # Null
    /\ request' = [request EXCEPT ![c] = Null]
    /\ UNCHANGED <<app, disk, main, exit, opened, started, listener, signal, interrupted, shut,
                   stop, shutting>>

-----------------------------------------------------------------------------
(* Signals, and the service's Stop.                                        *)

\* SIGINT or SIGTERM: the channel holds one.
Signal ==
    /\ Running
    /\ app # "service"
    /\ IF notified THEN signal' = TRUE /\ UNCHANGED <<main, exit>>
                   ELSE Exit("signal") /\ UNCHANGED signal
    /\ UNCHANGED <<app, disk, opened, started, listener, interrupted, shut, stop, shutting, request>>

\* Shutdown closes the channel once, whoever calls it.
HandleInterrupt ==
    /\ Running
    /\ signal
    /\ signal' = FALSE
    /\ interrupted' = TRUE
    /\ shut' = TRUE
    /\ UNCHANGED <<app, disk, main, exit, opened, started, listener, stop, shutting, request>>

Stop ==
    /\ Running
    /\ app = "service" /\ stop = "none"
    /\ stop' = "called"
    /\ UNCHANGED <<app, disk, main, exit, opened, started, listener, signal, interrupted, shut,
                   shutting, request>>

\* The goroutine of Stop: run may not have made the server yet.
StopShutdown ==
    /\ Running
    /\ stop = "called"
    /\ stop' = "done"
    /\ IF main = "new" THEN Exit("panic") /\ UNCHANGED shut
                       ELSE shut' = TRUE /\ UNCHANGED <<main, exit>>
    /\ UNCHANGED <<app, disk, opened, started, listener, signal, interrupted, shutting, request>>

\* The service has stopped: its main returns, whatever its goroutines are doing.
Stopped ==
    /\ Running
    /\ stop # "none"
    /\ Exit("stopped")
    /\ UNCHANGED <<app, disk, opened, started, listener, signal, interrupted, shut, stop,
                   shutting, request>>

-----------------------------------------------------------------------------
(* handleShutdown.                                                         *)

\* All listeners are shut down at the same time, with one context.
HandleShutdown ==
    /\ Running
    /\ closer = "waiting" /\ shut
    /\ closer' = "collecting"
    /\ graceOver' = ~graceful
    /\ drain' = [s \in Schemes |-> IF s \in Started THEN "running" ELSE "none"]
    /\ UNCHANGED <<app, disk, main, exit, opened, started, listener, signal, interrupted, shut,
                   stop, success, request>>

GraceEnds ==
    /\ Running
    /\ closer = "collecting" /\ ~graceOver
    /\ graceOver' = TRUE
    /\ UNCHANGED <<app, disk, main, exit, opened, started, listener, signal, interrupted, shut,
                   stop, closer, drain, success, request>>

Return(s, ok) ==
    /\ Running
    /\ drain[s] = "running"
    /\ drain' = [drain EXCEPT ![s] = "sending"]
    /\ success' = [success EXCEPT ![s] = ok]
    /\ UNCHANGED <<app, disk, main, exit, opened, started, listener, signal, interrupted, shut,
                   stop, closer, graceOver, request>>

\* No request is in flight on the listener.  A positive grace period may have
\* ended in the last moment, and closing the listener may have failed.
Drained(s) ==
    /\ \A c \in Clients : request[c] # s
    /\ \E ok \in BOOLEAN :
         /\ ~ok => "close" \in Faults \/ (graceful /\ graceOver)
         /\ Return(s, ok)

DrainExpires(s) ==
    /\ graceOver
    /\ \E c \in Clients : request[c] = s
    /\ Return(s, FALSE)

\* What is left when all listeners are drained, or one is not: a goroutine that
\* has not been received from blocks until the process ends.
Awaited == {s \in Schemes : drain[s] \in {"running", "sending"}}

\* Mutated Collect: one listener is enough.
Collect_First(s) ==
    /\ Running
    /\ closer = "collecting" /\ drain[s] = "sending"
    /\ drain' = [drain EXCEPT ![s] = "sent"]
    /\ closer' = "done"
    /\ UNCHANGED <<app, disk, main, exit, opened, started, listener, signal, interrupted, shut,
                   stop, success, graceOver, request>>

\* Mutated Collect: an answer more than there are listeners.
Collect_OneMore(s) ==
    /\ Running
    /\ closer = "collecting" /\ drain[s] = "sending"
    /\ drain' = [drain EXCEPT ![s] = "sent"]
    /\ closer' = IF ~success[s] THEN "done" ELSE "collecting"
    /\ UNCHANGED <<app, disk, main, exit, opened, started, listener, signal, interrupted, shut,
                   stop, success, graceOver, request>>

Collect(s) ==
    /\ Running
    /\ closer = "collecting" /\ drain[s] = "sending"
    /\ drain' = [drain EXCEPT ![s] = "sent"]
    /\ closer' = IF ~success[s] \/ Awaited = {s} THEN "done" ELSE "collecting"
    /\ UNCHANGED <<app, disk, main, exit, opened, started, listener, signal, interrupted, shut,
                   stop, success, graceOver, request>>

-----------------------------------------------------------------------------
MainStep ==
    \/ NewServer \/ ConfigureAPI \/ ListenHTTP \/ ListenTLS \/ SignalNotify
    \/ ServeHTTP \/ ConfigureTLS \/ ServeTLS \/ StartCloser \/ Wait

ListenerStep(s) == Serving(s) \/ ServeEnds(s)

CloserStep ==
    \/ HandleShutdown \/ GraceEnds
    \/ \E s \in Schemes : Drained(s) \/ DrainExpires(s) \/ Collect(s)

Next ==
    \/ MainStep \/ ConfigureFails \/ Inform \/ Ask \/ Generate \/ GenerateFails
    \/ ListenFails \/ ConfigureTLSFails
    \/ \E s \in Schemes : ListenerStep(s) \/ ServeFails(s)
    \/ \E c \in Clients, s \in Schemes : Request(c, s)
    \/ \E c \in Clients : Respond(c)
    \/ Signal \/ HandleInterrupt \/ Stop \/ StopShutdown \/ Stopped
    \/ CloserStep

\* Goroutines that can go on do, and time passes.  No client has to end its
\* request, and nobody has to send a signal.
Fairness ==
    /\ WF_vars(MainStep) /\ WF_vars(HandleInterrupt) /\ WF_vars(StopShutdown) /\ WF_vars(Stopped)
    /\ WF_vars(HandleShutdown) /\ WF_vars(GraceEnds)
    /\ \A s \in Schemes : /\ WF_vars(ListenerStep(s))
                          /\ WF_vars(Drained(s) \/ DrainExpires(s))
                          /\ WF_vars(Collect(s))

Spec == Init /\ [][Next]_vars /\ Fairness

-----------------------------------------------------------------------------
(* Properties.                                                             *)

\* When the process has ended in its own time, a request is only cut if the
\* grace period was over, or if the other listener, which had no request left,
\* could not be closed: the loop of handleShutdown asks for no more answers then.
\* A grace period of zero, which qdb_rest has, is over when it begins.
CutOnlyAfterGrace ==
    exit = "0" /\ (\E c \in Clients : request[c] # Null) =>
        \/ graceOver
        \/ \E s \in Schemes : /\ drain[s] = "sent" /\ ~success[s]
                             /\ \A c \in Clients : request[c] # s

\* The credentials of a secured cluster are only used over TLS: while they are
\* loaded, the http listener does nothing but redirect to the port of https
\* (unless the file has left the port out: the system has then chosen another one),
\* and the tokens are encrypted with the server's own key.
PlainOnlyWithoutTLS ==
    schemes # {} /\ IsSecurityEnabled(config) =>
        /\ "https" \in schemes /\ secret = "file"
        /\ "http" \in Started => redirects
        /\ "https" \in Started => tlsPort = config.TLSPort \/ config.TLSPort = 0

\* Once the server has been told to end, one of its goroutines can always go on,
\* and none of them waits for a client: main and the goroutines of handleShutdown
\* and of the listeners never wait for one another.
ShutdownNeverStuck ==
    shut /\ main # "exited" =>
        \/ main \notin {"ask", "wait"}
        \/ closer = "waiting"
        \/ closer = "collecting" /\ ~graceOver
        \/ \E s \in Schemes :
             \/ drain[s] = "running" /\ ((\A c \in Clients : request[c] # s) \/ graceOver)
             \/ drain[s] = "sending" /\ closer = "collecting"
             \/ drain[s] # "none" /\ listener[s] \in {"starting", "serving"}
        \/ closer = "done" /\ \A s \in Started : listener[s] = "ended"

\* How far each goroutine is from its end.
MainDistance ==
    CASE main = "new" -> 11
      [] main = "configure" -> 10
      [] main = "ask" -> 9
      [] main = "listen" -> 8
      [] main = "listenTLS" -> 7
      [] main = "notify" -> 6
      [] main = "serve" -> 5
      [] main = "tls" -> 4
      [] main = "serveTLS" -> 3
      [] main = "closer" -> 2
      [] main = "wait" -> 1
      [] main = "exited" -> 0
CloserDistance ==
    CASE closer = "none" -> 4
      [] closer = "waiting" -> 3
      [] closer = "collecting" -> IF graceOver THEN 1 ELSE 2
      [] closer = "done" -> 0
ListenerDistance(s) ==
    CASE listener[s] = "none" -> 4
      [] listener[s] = "bound" -> 3
      [] listener[s] = "starting" -> 2
      [] listener[s] = "serving" -> 1
      [] listener[s] = "ended" -> 0
DrainDistance(s) ==
    CASE drain[s] = "none" -> 3
      [] drain[s] = "running" -> 2
      [] drain[s] = "sending" -> 1
      [] drain[s] = "sent" -> 0

\* No goroutine ever goes back, and whenever one moves it comes nearer: none
\* serves a listener again that has been shut down, waits again for what it has
\* received, or starts over.  The moves that a server has left until its end are so
\* many at most, whatever order they come in.
AlwaysForward ==
    [][ /\ MainDistance' <= MainDistance
        /\ CloserDistance' <= CloserDistance
        /\ \A s \in Schemes : /\ ListenerDistance(s)' <= ListenerDistance(s)
                              /\ DrainDistance(s)' <= DrainDistance(s)
        /\ \/ UNCHANGED <<main, closer, listener, drain>>
           \/ MainDistance' < MainDistance
           \/ CloserDistance' < CloserDistance
           \/ \E s \in Schemes : \/ ListenerDistance(s)' < ListenerDistance(s)
                                 \/ DrainDistance(s)' < DrainDistance(s) ]_vars

\* Whoever interrupts the server, or stops the service, sees it end, although no
\* client may ever finish.
ShutdownEnds == signal \/ stop = "called" ~> main = "exited"
=============================================================================
