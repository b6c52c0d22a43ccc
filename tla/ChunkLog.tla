------------------------------- MODULE ChunkLog -------------------------------
(***************************************************************************)
(* What the chunk store promises its callers, with no active chunk, no     *)
(* sealing and no uploads: a set of byte logs that only grow, of which     *)
(* some beginning is durable.  Readers see log; a crash leaves durable.    *)
(***************************************************************************)
EXTENDS Integers, Sequences

CONSTANTS
    ID,    \* the names of chunks
    Data   \* the payloads that are appended

VARIABLES
    log,     \* ids -> the bytes a reader of the running process finds
    durable  \* ids -> the bytes the object store holds

logVars == <<log, durable>>

\* Every byte of f is, at the same place, a byte of g.
Prefixes(f, g) ==
    \A id \in DOMAIN f :
        /\ id \in DOMAIN g
        /\ Len(f[id]) <= Len(g[id])
        /\ \A i \in 1..Len(f[id]) : g[id][i] = f[id][i]

Init ==
    /\ log = [k \in {} |-> <<>>]
    /\ durable = [k \in {} |-> <<>>]

\* More of what was already in the log becomes durable, or nothing does.
Harden ==
    /\ Prefixes(durable, durable')
    /\ Prefixes(durable', log)

\* One chunk grows by data; bytes appended earlier may become durable first.
AppendTo(id, data) ==
    /\ Harden
    /\ log' = [k \in DOMAIN log \cup {id} |->
                  IF k # id THEN log[k]
                  ELSE IF id \in DOMAIN log THEN log[id] \o data
                  ELSE data]

Flush == Harden /\ UNCHANGED log

\* The process ends: the next one reads what was durable, all of it.
Crash == log' = durable /\ UNCHANGED durable

Next ==
    \/ \E id \in ID, data \in Data : AppendTo(id, data)
    \/ Flush
    \/ Crash

Spec == Init /\ [][Next]_logVars
=============================================================================
