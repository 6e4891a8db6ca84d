----------------------------- MODULE ApiContract -----------------------------
(***************************************************************************)
(* What the API promises a client, with neither routers, handlers nor      *)
(* producers in sight: a request gets one reply or none, a protected       *)
(* operation is served only to whom has been admitted before, and what is  *)
(* replied is an answer that the operation has, or a refusal from before   *)
(* it was served.                                                          *)
(*                                                                         *)
(* Requests is shown to implement this module.                             *)
(***************************************************************************)
CONSTANTS
    Requests,    \* slots, each for one request at a time
    Operations,
    Protected,   \* the operations that demand a token
    Replies,     \* for each operation, what it may answer: codes and bodies
    None         \* no operation, and no reply

VARIABLES
    asked,      \* the operation of a request, or None
    admitted,   \* it has presented a good token
    phase,      \* how far it is
    reply       \* what the client has got, or None

contractVars == <<asked, admitted, phase, reply>>

Init ==
    /\ asked = [r \in Requests |-> None]
    /\ admitted = [r \in Requests |-> FALSE]
    /\ phase = [r \in Requests |-> "idle"]
    /\ reply = [r \in Requests |-> None]

Move(r, from, to) == phase[r] = from /\ phase' = [phase EXCEPT ![r] = to]

Ask(r) ==
    /\ Move(r, "idle", "received")
    /\ \E id \in Operations : asked' = [asked EXCEPT ![r] = id]
    /\ UNCHANGED <<admitted, reply>>

MayBeServed(r) == asked[r] \in Protected => admitted[r]

Admit(r) ==
    /\ phase[r] = "received"
    /\ ~MayBeServed(r)
    /\ admitted' = [admitted EXCEPT ![r] = TRUE]
    /\ UNCHANGED <<asked, phase, reply>>

Serve(r) ==
    /\ Move(r, "received", "served")
    /\ MayBeServed(r)
    /\ UNCHANGED <<asked, admitted, reply>>

\* A refusal: for the token, or, of whom might have been served, for what the
\* request contains or accepts.
Refusals == {400, 406, 415, 422}

Deny(r) ==
    /\ Move(r, "received", "replied")
    /\ \E code \in IF MayBeServed(r) THEN Refusals ELSE {401} :
         reply' = [reply EXCEPT ![r] = [code |-> code, body |-> "Error"]]
    /\ UNCHANGED <<asked, admitted>>

Reply(r) ==
    /\ Move(r, "served", "replied")
    /\ \E answer \in Replies[asked[r]] : reply' = [reply EXCEPT ![r] = answer]
    /\ UNCHANGED <<asked, admitted>>

\* The connection is closed without a reply, or within one.
Abort(r) ==
    /\ phase[r] \in {"received", "served"}
    /\ phase' = [phase EXCEPT ![r] = "aborted"]
    /\ UNCHANGED <<asked, admitted, reply>>

Leave(r) ==
    /\ phase[r] \in {"replied", "aborted"}
    /\ phase' = [phase EXCEPT ![r] = "idle"]
    /\ asked' = [asked EXCEPT ![r] = None]
    /\ admitted' = [admitted EXCEPT ![r] = FALSE]
    /\ reply' = [reply EXCEPT ![r] = None]

Next == \E r \in Requests : \/ Ask(r) \/ Admit(r) \/ Serve(r) \/ Deny(r) \/ Reply(r)
                           \/ Abort(r) \/ Leave(r)

Spec == Init /\ [][Next]_contractVars

\* What follows from it: nobody is served, or told of success, but who may be; and
\* every reply is one of the operation that was asked for, or a refusal.
Honoured ==
    \A r \in Requests :
        /\ phase[r] = "served" => MayBeServed(r)
        /\ reply[r] # None =>
             \/ reply[r] \in Replies[asked[r]] /\ MayBeServed(r)
             \/ reply[r].code \in Refusals /\ MayBeServed(r)
             \/ reply[r].code = 401 /\ ~MayBeServed(r)
=============================================================================
