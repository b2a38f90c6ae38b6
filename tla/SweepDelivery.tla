---------------------------- MODULE SweepDelivery ----------------------------
(***************************************************************************)
(* What the offline sweep queue promises (ui/src/offline/pendingSweeps.ts, *)
(* pendingSweepSync.ts): a sweep the user has finished leaves the device   *)
(* only after the server holds a completed session with everything that    *)
(* had been recorded by then.  It may be delivered more than once.         *)
(***************************************************************************)
CONSTANTS Sweep, Note

VARIABLES
    status,     \* status[s] \in {"unused", "open", "queued", "gone"}
    content,    \* content[s]: what had been recorded when s was finished
    delivered   \* the sweeps the server holds in full

vars == <<status, content, delivered>>

Init ==
    /\ status = [s \in Sweep |-> "unused"]
    /\ content = [s \in Sweep |-> {}]
    /\ delivered = {}

Open(s) ==
    /\ status[s] = "unused"
    /\ status' = [status EXCEPT ![s] = "open"]
    /\ UNCHANGED <<content, delivered>>

\* Unfinished sweeps may be dropped, several at a time.
Drop(S) ==
    /\ \A s \in S : status[s] = "open"
    /\ status' = [s \in Sweep |-> IF s \in S THEN "gone" ELSE status[s]]
    /\ UNCHANGED <<content, delivered>>

Queue(s, N) ==
    /\ status[s] = "open"
    /\ status' = [status EXCEPT ![s] = "queued"]
    /\ content' = [content EXCEPT ![s] = N]
    /\ UNCHANGED delivered

Deliver(s) ==
    /\ status[s] = "queued"
    /\ delivered' = delivered \union {s}
    /\ UNCHANGED <<status, content>>

Forget(s) ==
    /\ status[s] = "queued"
    /\ s \in delivered
    /\ status' = [status EXCEPT ![s] = "gone"]
    /\ UNCHANGED <<content, delivered>>

Next ==
    \/ \E s \in Sweep : Open(s) \/ Deliver(s) \/ Forget(s)
    \/ \E s \in Sweep, N \in SUBSET Note : Queue(s, N)
    \/ \E S \in SUBSET Sweep : Drop(S)

Spec == Init /\ [][Next]_vars
=============================================================================
