------------------------------ MODULE NfsTable ------------------------------
(***************************************************************************)
(* What data.csv promises an NFS client, stated without the server's       *)
(* steps: the file is the table, and every READ, WRITE and REMOVE of it    *)
(* takes effect at one instant between its call and its reply.  A WRITE    *)
(* makes the table the rows written, a REMOVE empties it, a READ returns   *)
(* the table as it is at that instant.  A request may fail without effect, *)
(* or after it took effect, only where calls may fail at all.              *)
(***************************************************************************)
CONSTANTS Tasks, Rows, Faults, Nil

VARIABLES
    table,    \* the rows of the table
    pending,  \* the request each client has in flight, or Nil
    done,     \* the clients whose request has taken effect
    reply     \* the rows the last READ of each client returned, or Nil

vars == <<table, pending, done, reply>>

Ops == [op: {"read", "remove"}] \cup [op: {"write"}, data: SUBSET Rows]

Init ==
    /\ table \in SUBSET Rows
    /\ pending = [t \in Tasks |-> Nil]
    /\ done = {}
    /\ reply = [t \in Tasks |-> Nil]

Call(t) ==
    /\ pending[t] = Nil
    /\ \E o \in Ops : pending' = [pending EXCEPT ![t] = o]
    /\ UNCHANGED <<table, done, reply>>

\* The effect of the request of t, at the instant it takes effect.
Effect(t) ==
    \/ pending[t].op = "write" /\ table' = pending[t].data /\ UNCHANGED reply
    \/ pending[t].op = "remove" /\ table' = {} /\ UNCHANGED reply
    \/ pending[t].op = "read" /\ reply' = [reply EXCEPT ![t] = table]
                              /\ UNCHANGED table

TakeEffect(t) ==
    /\ pending[t] \in Ops /\ t \notin done
    /\ Effect(t)
    /\ done' = done \cup {t}
    /\ UNCHANGED pending

Return(t) ==
    /\ pending[t] \in Ops
    /\ t \in done \/ Faults
    /\ pending' = [pending EXCEPT ![t] = Nil]
    /\ done' = done \ {t}
    /\ UNCHANGED <<table, reply>>

\* Taking effect and replying in one step.
EffectAndReturn(t) ==
    /\ pending[t] \in Ops /\ t \notin done
    /\ Effect(t)
    /\ pending' = [pending EXCEPT ![t] = Nil]
    /\ UNCHANGED done

Next ==
    \E t \in Tasks : Call(t) \/ TakeEffect(t) \/ Return(t) \/ EffectAndReturn(t)

Spec == Init /\ [][Next]_vars
=============================================================================
