------------------------------- MODULE IpcCall -------------------------------
(***************************************************************************)
(* What a call to monitord promises its caller, whatever happens to the     *)
(* connection: an acknowledged request has taken effect, a request takes    *)
(* effect at most once and only for a permitted peer, and a failed call     *)
(* says nothing: its request may have taken effect, or still take it.       *)
(* The daemon and PAM models use calls in this form.                        *)
(***************************************************************************)
EXTENDS Naturals

CONSTANTS Caller, Permitted

VARIABLES
    call,    \* per caller: "idle", "pending", "ok" or "failed"
    effect   \* per caller: how often its request has taken effect

Init ==
    /\ call = [c \in Caller |-> "idle"]
    /\ effect = [c \in Caller |-> 0]

Begin(c) ==
    /\ call[c] = "idle"
    /\ call' = [call EXCEPT ![c] = "pending"]
    /\ UNCHANGED effect

TakeEffect(c) ==
    /\ c \in Permitted
    /\ call[c] # "idle" /\ effect[c] = 0
    /\ effect' = [effect EXCEPT ![c] = 1]
    /\ UNCHANGED call

Acknowledge(c) ==
    /\ call[c] = "pending" /\ effect[c] = 1
    /\ call' = [call EXCEPT ![c] = "ok"]
    /\ UNCHANGED effect

Fail(c) ==
    /\ call[c] \in {"idle", "pending"}
    /\ call' = [call EXCEPT ![c] = "failed"]
    /\ UNCHANGED effect

Next == \E c \in Caller : Begin(c) \/ TakeEffect(c) \/ Acknowledge(c) \/ Fail(c)

Spec == Init /\ [][Next]_<<call, effect>>

=============================================================================
