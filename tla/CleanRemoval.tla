--------------------------- MODULE CleanRemoval ---------------------------
(***************************************************************************)
(* What the deploy machinery promises about one service, with processes,   *)
(* locks and journals out of sight: whatever fails or dies, the service    *)
(* comes to rest in one of these conditions.                               *)
(*                                                                         *)
(*   gone      no unit, no env file, no registry entry, no project tree    *)
(*   up        registered, with its unit and its tree                      *)
(*   row       an entry of the registry that lacks its unit or its tree    *)
(*   husk      a project directory and nothing else                        *)
(*                                                                         *)
(*   leaked    a unit or an env file that no registry entry lists          *)
(*   mislaid   its row of the registry was lost, or came back, because     *)
(*             another service's was changed at the same time              *)
(*                                                                         *)
(* The last two are what must not happen.  A service does not leak unless  *)
(* a deploy was attempted over the remains of another; no row is mislaid   *)
(* but while another service is worked on, and the next work that stores   *)
(* the row itself puts it right.  A committed deploy ends up.  A tree      *)
(* counts where no other service has the same project directory.           *)
(***************************************************************************)
CONSTANT Services
VARIABLE phase

AtRest == {"gone", "up", "row", "husk"}
Worked == {"deploying", "overlaying", "committed", "deleting", "purging"}

Init == phase = [s \in Services |-> "gone"]

\* Edge(s, from, to): one service moves, or moves together with others (a
\* reboot ends the work on several at once).
Edge(s, from, to) == phase[s] \in from /\ phase'[s] \in to

Begin(s)   == Edge(s, AtRest \cup {"committed"}, {"deploying", "overlaying"})
Overlay(s) == Edge(s, {"deploying", "leaked"}, {"overlaying"})
Cleaned(s) == Edge(s, {"overlaying"}, {"deploying"})
Commit(s)  == Edge(s, {"deploying", "overlaying"}, {"committed"})
Finish(s)  == Edge(s, {"committed"}, {"up"})
GiveUp(s)  == Edge(s, {"deploying"}, AtRest)
Leak(s)    == Edge(s, {"overlaying"}, AtRest \cup {"leaked"})
Delete(s)  == Edge(s, AtRest, {"deleting", "purging"})
Deleted(s) == Edge(s, {"deleting"}, AtRest)
Purge(s)   == Edge(s, {"leaked"}, {"purging"})
Purged(s)  == Edge(s, {"purging"}, {"deleting", "leaked"} \cup AtRest)

Mislay(s) ==
    /\ \E t \in Services \ {s} : phase[t] \in Worked \cup {"mislaid"}
    /\ Edge(s, AtRest \cup Worked \cup {"leaked"}, {"mislaid"})
Restore(s) == Edge(s, {"mislaid"}, Worked)

Next ==
    \A s \in Services :
        \/ phase'[s] = phase[s]
        \/ Begin(s) \/ Overlay(s) \/ Cleaned(s) \/ Commit(s) \/ Finish(s)
        \/ GiveUp(s) \/ Leak(s) \/ Delete(s) \/ Deleted(s)
        \/ Purge(s) \/ Purged(s) \/ Mislay(s) \/ Restore(s)

Spec == Init /\ [][Next]_phase
=============================================================================
