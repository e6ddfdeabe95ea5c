--------------------------- MODULE UDPSessionQueue ---------------------------
(***************************************************************************)
(* What the session relay promises about the client datagrams it reads,   *)
(* with no goroutines, locks or sockets: every datagram is dropped or      *)
(* joins the bounded queue of an open session; a session's queue is        *)
(* written to the target strictly in arrival order once the session is     *)
(* established; a closed session accepts nothing more, and only a session  *)
(* that was never established may discard what it had queued.             *)
(***************************************************************************)
EXTENDS Naturals, Sequences

CONSTANTS
    Sessions,   \* session identities
    Datagrams,  \* client datagrams
    Capacity    \* room in a session's queue

VARIABLES
    used,      \* sessions opened so far
    open,      \* sessions accepting datagrams
    live,      \* sessions whose writer has started
    pending,   \* per session, datagrams queued and not yet written
    outcome    \* per datagram, what became of it

vars == <<used, open, live, pending, outcome>>

Outcomes == {"none", "dropped", "pending", "written", "discarded"}

Init ==
    /\ used = {}
    /\ open = {}
    /\ live = {}
    /\ pending = [s \in Sessions |-> <<>>]
    /\ outcome = [d \in Datagrams |-> "none"]

\* A datagram is refused before it reaches any session.
Drop(d) ==
    /\ outcome[d] = "none"
    /\ outcome' = [outcome EXCEPT ![d] = "dropped"]
    /\ UNCHANGED <<used, open, live, pending>>

\* A datagram for session s (opened by it if s is fresh) joins the queue
\* of s when there is room and is dropped otherwise.
Dispatch(d, s) ==
    /\ outcome[d] = "none"
    /\ s \in open \/ s \notin used
    /\ open' = open \cup {s}
    /\ used' = used \cup {s}
    /\ IF Len(pending[s]) < Capacity
       THEN /\ pending' = [pending EXCEPT ![s] = Append(@, d)]
            /\ outcome' = [outcome EXCEPT ![d] = "pending"]
       ELSE /\ outcome' = [outcome EXCEPT ![d] = "dropped"]
            /\ UNCHANGED pending
    /\ UNCHANGED live

\* The writer of an open session starts.
Establish(s) ==
    /\ s \in open \ live
    /\ live' = live \cup {s}
    /\ UNCHANGED <<used, open, pending, outcome>>

\* The oldest queued datagram of an established session is written.
Write(s) ==
    /\ s \in live
    /\ pending[s] # <<>>
    /\ outcome' = [outcome EXCEPT ![Head(pending[s])] = "written"]
    /\ pending' = [pending EXCEPT ![s] = Tail(@)]
    /\ UNCHANGED <<used, open, live>>

\* A session stops accepting; if its writer never started, what it had
\* queued is discarded.
Close(s) ==
    /\ s \in open
    /\ open' = open \ {s}
    /\ IF s \in live
       THEN UNCHANGED <<pending, outcome>>
       ELSE /\ pending' = [pending EXCEPT ![s] = <<>>]
            /\ outcome' = [d \in Datagrams |->
                  IF \E i \in DOMAIN pending[s] : pending[s][i] = d
                  THEN "discarded" ELSE outcome[d]]
    /\ UNCHANGED <<used, live>>

Next ==
    \/ \E d \in Datagrams : Drop(d) \/ \E s \in Sessions : Dispatch(d, s)
    \/ \E s \in Sessions : Establish(s) \/ Write(s) \/ Close(s)

Spec == Init /\ [][Next]_vars

=============================================================================
