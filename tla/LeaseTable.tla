----------------------------- MODULE LeaseTable -----------------------------
(* What every expiring table of meshlet promises: an entry that is granted  *)
(* for d ticks is in force from that instant until d ticks later, exactly,  *)
(* unless it is granted anew, released, or lost with the whole table when   *)
(* the process restarts.  The code never runs a timer: it deletes expired   *)
(* entries lazily, at the start of an operation.  The detailed modules show *)
(* that the entries in force under that lazy cleanup are those of this one. *)
EXTENDS Naturals

CONSTANTS Holder,      \* what an entry is filed under
          Value,       \* what an entry holds
          Duration,    \* the lease durations that may be granted, all above 0
          Absent,      \* marks a holder without an entry
          Releasable,  \* may an entry be withdrawn before its deadline? (BOOLEAN)
          Losable      \* may the table be lost in a restart? (BOOLEAN)

VARIABLES held, now

Init ==
    /\ held = [h \in Holder |-> Absent]
    /\ now = 0

Grant(h, v, d) ==
    /\ held' = [held EXCEPT ![h] = [value |-> v, until |-> now + d]]
    /\ UNCHANGED now

Release(h) ==
    /\ Releasable
    /\ held[h] # Absent
    /\ held' = [held EXCEPT ![h] = Absent]
    /\ UNCHANGED now

Lose ==
    /\ Losable
    /\ held' = [h \in Holder |-> Absent]
    /\ UNCHANGED now

\* An entry ends at the very tick its deadline is reached.
Pass ==
    /\ now' = now + 1
    /\ held' = [h \in Holder |->
                   IF held[h] = Absent THEN Absent
                   ELSE IF held[h].until > now' THEN held[h] ELSE Absent]

Next ==
    \/ \E h \in Holder, v \in Value, d \in Duration : Grant(h, v, d)
    \/ \E h \in Holder : Release(h)
    \/ Lose
    \/ Pass

Spec == Init /\ [][Next]_<<held, now>>
=============================================================================
