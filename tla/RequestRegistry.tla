--------------------------- MODULE RequestRegistry ---------------------------
(***************************************************************************)
(* What the dump service promises the callers of Request, without saying   *)
(* how: a caller hands over a descriptor; it is either refused or served   *)
(* under an id nobody else is being served under; the descriptor is closed *)
(* before the id can be used again; and a death of the service ends all    *)
(* requests at once.  DumpManagerService implements this specification.    *)
(***************************************************************************)
CONSTANTS Threads, Ids, NoId

VARIABLES
    phase,  \* per caller: "none", "waiting" or "served"
    id,     \* per caller: the id it is served under, or NoId
    open    \* per caller: its descriptor is open in the service

vars == <<phase, id, open>>

Init ==
    /\ phase = [t \in Threads |-> "none"]
    /\ id = [t \in Threads |-> NoId]
    /\ open = [t \in Threads |-> FALSE]

Call(t) ==
    /\ phase[t] = "none"
    /\ phase' = [phase EXCEPT ![t] = "waiting"]
    /\ open' = [open EXCEPT ![t] = TRUE]
    /\ UNCHANGED id

Refuse(t) ==
    /\ phase[t] = "waiting"
    /\ phase' = [phase EXCEPT ![t] = "none"]
    /\ open' = [open EXCEPT ![t] = FALSE]
    /\ UNCHANGED id

Admit(t) ==
    /\ phase[t] = "waiting"
    /\ phase' = [phase EXCEPT ![t] = "served"]
    /\ \E i \in Ids \ {id[u] : u \in Threads} : id' = [id EXCEPT ![t] = i]
    /\ UNCHANGED open

CloseDescriptor(t) ==
    /\ phase[t] = "served"
    /\ open[t]
    /\ open' = [open EXCEPT ![t] = FALSE]
    /\ UNCHANGED <<phase, id>>

Release(t) ==
    /\ phase[t] = "served"
    /\ ~open[t]
    /\ phase' = [phase EXCEPT ![t] = "none"]
    /\ id' = [id EXCEPT ![t] = NoId]
    /\ UNCHANGED open

ServiceDies ==
    /\ phase' = [t \in Threads |-> "none"]
    /\ id' = [t \in Threads |-> NoId]
    /\ open' = [t \in Threads |-> FALSE]

Next ==
    \/ \E t \in Threads :
          Call(t) \/ Refuse(t) \/ Admit(t) \/ CloseDescriptor(t) \/ Release(t)
    \/ ServiceDies

Spec == Init /\ [][Next]_vars

=============================================================================
