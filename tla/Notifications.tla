---------------------------- MODULE Notifications ----------------------------
(***************************************************************************)
(* What a durable notification queue promises, without claims, leases,     *)
(* attempts or drainers: a notification is pending until it is delivered   *)
(* or given up, messages go out only while it is pending, and it counts as *)
(* delivered only once all of its recipients have been reached.            *)
(***************************************************************************)
CONSTANTS
    Keys,         \* notifications
    Targets,      \* whom a message can reach
    Audience,     \* who must be reached, for each notification
    NotSent       \* notifications that are handled elsewhere

VARIABLES
    state,        \* absent, pending, delivered or exhausted
    reached       \* the targets that got the message

vars == <<state, reached>>

Init ==
    /\ state = [k \in Keys |-> "absent"]
    /\ reached = [k \in Keys |-> {}]

Become(k, before, after) ==
    /\ state[k] = before
    /\ state' = [state EXCEPT ![k] = after]
    /\ UNCHANGED reached

Accept(k) == Become(k, "absent", "pending")

Reach(k) ==
    /\ state[k] = "pending"
    /\ \E t \in Targets : reached' = [reached EXCEPT ![k] = @ \cup {t}]
    /\ UNCHANGED state

Deliver(k) ==
    /\ k \notin NotSent => Audience[k] \subseteq reached[k]
    /\ Become(k, "pending", "delivered")

GiveUp(k) == Become(k, "pending", "exhausted")

Next == \E k \in Keys : Accept(k) \/ Reach(k) \/ Deliver(k) \/ GiveUp(k)

Spec == Init /\ [][Next]_vars

=============================================================================
