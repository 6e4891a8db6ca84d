---------------------------- MODULE AccountLeases ----------------------------
(***************************************************************************)
(* HandleLeases for clients that serve different users: a handle belongs   *)
(* to the account of the user with whose credentials it was connected, and *)
(* is only ever leased to clients that serve a user who works with that    *)
(* account.                                                                *)
(*                                                                         *)
(* HandleCache is shown to implement this module.                          *)
(***************************************************************************)
EXTENDS HandleLeases

CONSTANTS
    Users,      \* whom a client may serve
    AccountOf   \* with whose account a user works

VARIABLES
    account,    \* the user a connected handle belongs to, or None
    client      \* the user each client serves at the moment, or None

accountVars == <<leaseVars, account, client>>

AccountInit == /\ Init
               /\ account = [h \in Handles |-> None]
               /\ client = [c \in Clients |-> None]

\* Handles get an account when they are connected and lose it when they are
\* disconnected; in between it does not change.
Assign(S, u) == account' = [h \in Handles |-> IF h \in S THEN u ELSE account[h]]

\* A client that holds nothing begins to serve somebody, or ends.
Serve(c, u) == /\ held[c] = None
               /\ client' = [client EXCEPT ![c] = u]
               /\ UNCHANGED <<leaseVars, account>>

\* A client connects handles with its user's credentials, after which it may be
\* done.
ConnectAhead(c, S) == /\ Connect(S)
                      /\ client[c] \in Users
                      /\ Assign(S, client[c])
                      /\ \/ UNCHANGED client
                         \/ held[c] = None /\ client' = [client EXCEPT ![c] = None]

\* A client is given a handle of the account its user works with only: a new one,
\* a free one or one that another client passes on.
ConnectOwn(c, h) == /\ ConnectFor(c, h)
                    /\ client[c] \in Users
                    /\ Assign({h}, AccountOf[client[c]])
                    /\ UNCHANGED client

GrantOwn(c, h) == /\ Grant(c, h)
                  /\ account[h] = AccountOf[client[c]]
                  /\ UNCHANGED <<account, client>>

HandOverOwn(c, d) == /\ HandOver(c, d)
                     /\ account[held[c]] = AccountOf[client[d]]
                     /\ UNCHANGED <<account, client>>

GiveBackOwn(c) == GiveBack(c) /\ UNCHANGED <<account, client>>

DisconnectOwn(c) == /\ Disconnect(c)
                    /\ Assign({held[c]}, None)
                    /\ UNCHANGED client

DisconnectIdle(h) == /\ DisconnectFree(h)
                     /\ Assign({h}, None)
                     /\ UNCHANGED client

AccountNext ==
    \/ \E c \in Clients, u \in Users \cup {None} : Serve(c, u)
    \/ \E c \in Clients, S \in SUBSET Handles : ConnectAhead(c, S)
    \/ \E c \in Clients, h \in Handles : ConnectOwn(c, h) \/ GrantOwn(c, h)
    \/ \E c \in Clients : GiveBackOwn(c) \/ DisconnectOwn(c)
    \/ \E c, d \in Clients : HandOverOwn(c, d)
    \/ \E h \in Handles : DisconnectIdle(h)

AccountSpec == AccountInit /\ [][AccountNext]_accountVars

\* What follows from it: whoever holds a handle serves a user who works with the
\* account the handle belongs to, and nobody else holds it.
KeptApart ==
    \A c \in Clients : held[c] # None =>
        /\ held[c] \in connected
        /\ account[held[c]] = AccountOf[client[c]]
        /\ \A d \in Clients \ {c} : held[d] # held[c]
=============================================================================
