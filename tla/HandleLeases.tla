---------------------------- MODULE HandleLeases ----------------------------
(***************************************************************************)
(* What the server's connection handling promises, with neither pools nor  *)
(* caches in sight.  A handle is one native connection to the QuasarDB     *)
(* cluster, a qdb.HandleType.  It is connected, leased to at most one      *)
(* goroutine at a time, and disconnected only by its lessee or while       *)
(* nobody holds it.                                                        *)
(*                                                                         *)
(* ConnectionPool and HandleCache are shown to implement this module.      *)
(***************************************************************************)
CONSTANTS
    Clients,    \* the goroutines that may hold a handle
    Handles,    \* every native connection the cluster can serve
    None        \* the absence of a handle: no member of Handles

VARIABLES
    connected,  \* the handles with an established connection
    held        \* the handle each client holds, or None

leaseVars == <<connected, held>>

Free(h) == \A c \in Clients : held[c] # h

Init == /\ connected = {}
        /\ held = [c \in Clients |-> None]

\* Connections opened ahead of their use: nobody holds them yet.
Connect(S) == /\ S \cap connected = {}
              /\ \A h \in S : Free(h)
              /\ connected' = connected \cup S
              /\ UNCHANGED held

\* A connection opened on demand, straight into the hands of the client.
ConnectFor(c, h) == /\ held[c] = None
                    /\ h \notin connected
                    /\ connected' = connected \cup {h}
                    /\ held' = [held EXCEPT ![c] = h]

\* A connected handle that nobody holds is leased.
Grant(c, h) == /\ held[c] = None
               /\ h \in connected
               /\ Free(h)
               /\ held' = [held EXCEPT ![c] = h]
               /\ UNCHANGED connected

\* The lessee gives its handle up; it stays connected.
GiveBack(c) == /\ held[c] # None
               /\ held' = [held EXCEPT ![c] = None]
               /\ UNCHANGED connected

\* The lessee passes its handle directly to a waiting client.
HandOver(c, d) == /\ held[c] # None
                  /\ held[d] = None
                  /\ held' = [held EXCEPT ![c] = None, ![d] = held[c]]
                  /\ UNCHANGED connected

\* The lessee closes its handle.
Disconnect(c) == /\ held[c] # None
                 /\ connected' = connected \ {held[c]}
                 /\ held' = [held EXCEPT ![c] = None]

\* A handle that nobody holds is closed.
DisconnectFree(h) == /\ h \in connected
                     /\ Free(h)
                     /\ connected' = connected \ {h}
                     /\ UNCHANGED held

Next == \/ \E S \in SUBSET Handles : Connect(S)
        \/ \E c \in Clients, h \in Handles : ConnectFor(c, h) \/ Grant(c, h)
        \/ \E c \in Clients : GiveBack(c) \/ Disconnect(c)
        \/ \E c, d \in Clients : HandOver(c, d)
        \/ \E h \in Handles : DisconnectFree(h)

Spec == Init /\ [][Next]_leaseVars
=============================================================================
