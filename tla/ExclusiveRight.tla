--------------------------- MODULE ExclusiveRight ---------------------------
(***************************************************************************)
(* What IExecutionManagementModel promises its callers: one exclusive      *)
(* right, handed to the pending caller with the highest priority and, among *)
(* callers of one priority, to the one that asked first.  Neither the ids   *)
(* nor the two queues of the implementation are visible here.               *)
(***************************************************************************)
EXTENDS Integers

CONSTANTS
    Requests,       \* calls of getExecution
    Priorities,     \* the priorities callers pass
    NoRequest       \* "nobody holds the right"

VARIABLES
    pending,        \* calls whose promise is not settled yet
    holder,         \* the call that owns the right, or NoRequest
    settled,        \* calls that were granted and released, or that timed out
    priority,       \* the priority each call passed
    ticket,         \* the order in which the calls were made
    calls           \* number of calls made so far

vars == <<pending, holder, settled, priority, ticket, calls>>

\* a is served before b.
Precedes(a, b) ==
    \/ priority[a] > priority[b]
    \/ priority[a] = priority[b] /\ ticket[a] < ticket[b]

First(S) == CHOOSE r \in S : \A s \in S \ {r} : Precedes(r, s)

Init ==
    /\ pending = {}
    /\ holder = NoRequest
    /\ settled = {}
    /\ priority = [r \in Requests |-> 0]
    /\ ticket = [r \in Requests |-> 0]
    /\ calls = 0

\* A caller asks; it gets the right at once when nobody holds it.
Ask(r, p) ==
    /\ r \notin pending \cup settled \cup {holder}
    /\ priority' = [priority EXCEPT ![r] = p]
    /\ calls' = calls + 1
    /\ ticket' = [ticket EXCEPT ![r] = calls + 1]
    /\ IF holder = NoRequest
         THEN holder' = r /\ UNCHANGED pending
         ELSE pending' = pending \cup {r} /\ UNCHANGED holder
    /\ UNCHANGED settled

\* The holder gives the right back; it passes to the first pending call.
Release ==
    /\ holder # NoRequest
    /\ settled' = settled \cup {holder}
    /\ IF pending = {}
         THEN holder' = NoRequest /\ UNCHANGED pending
         ELSE /\ holder' = First(pending)
              /\ pending' = pending \ {First(pending)}
    /\ UNCHANGED <<priority, ticket, calls>>

\* A pending call times out.
GiveUp(r) ==
    /\ r \in pending
    /\ pending' = pending \ {r}
    /\ settled' = settled \cup {r}
    /\ UNCHANGED <<holder, priority, ticket, calls>>

Next ==
    \/ \E r \in Requests, p \in Priorities : Ask(r, p)
    \/ Release
    \/ \E r \in Requests : GiveUp(r)

Spec == Init /\ [][Next]_vars
=============================================================================
