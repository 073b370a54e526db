---------------------------- MODULE KernelStore ----------------------------
(* What the kernel cache promises, whatever the order in which processes    *)
(* write and read its files: a kernel is published in one step and stays    *)
(* published, and a process holds no kernel that was not published before.  *)
CONSTANTS Procs, Keys

VARIABLES published,    \* the keys whose kernels anyone may load
          held          \* held[p]: the keys of the kernels process p holds

Init == published = {} /\ held = [p \in Procs |-> {}]

Publish(k) == published' = published \cup {k} /\ UNCHANGED held

Obtain(p, k) ==
    /\ k \in published
    /\ held' = [held EXCEPT ![p] = @ \cup {k}]
    /\ UNCHANGED published

Die(p) == held' = [held EXCEPT ![p] = {}] /\ UNCHANGED published

Next == \/ \E k \in Keys : Publish(k)
        \/ \E p \in Procs : Die(p) \/ \E k \in Keys : Obtain(p, k)

Spec == Init /\ [][Next]_<<published, held>>
=============================================================================
