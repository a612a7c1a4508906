---------------------------- MODULE PanelWatchdog ----------------------------
(***************************************************************************)
(* The panel's UI thread, its heartbeat and the stall watchdog             *)
(* (tui/mod.rs).                                                           *)
(*                                                                         *)
(* The loop adds a tick per pass.  Every two seconds the watchdog reads    *)
(* the ticks and then the pause flag, and ends the process when the ticks  *)
(* have not moved since its last sample.  Of time the model keeps that a   *)
(* pass is far shorter than two seconds unless the thread is in one of the *)
(* Slow places: elsewhere no two samples fall without a tick.              *)
(***************************************************************************)
VARIABLES
    at,         \* where the UI thread is
    paused,     \* WATCHDOG_PAUSE
    booted,     \* LOOP_TICKS is not 0
    moved,      \* the ticks differ from those of the last sample
    frozen,     \* what the watchdog's first read of this sample said
    sampling,   \* it is between its two reads
    due         \* two seconds can have passed since its last sample

wdVars == <<at, paused, booted, moved, frozen, sampling, due>>

Slow == {"edit", "service", "stopAll", "settle", "stuck"}
Over == {"gone", "killed"}

WdInit ==
    /\ at = "poll" /\ paused = FALSE /\ booted = FALSE
    /\ moved = FALSE /\ frozen = FALSE /\ sampling = FALSE /\ due = FALSE

Go(from, to) == at = from /\ at' = to

Beat == booted' = TRUE /\ moved' = TRUE /\ due' = TRUE

Pass ==
    /\ Go("poll", "poll")
    /\ Beat
    /\ UNCHANGED <<paused, frozen, sampling>>

\* edit_file_suspended
OpenEditor ==
    /\ Go("poll", "edit")
    /\ paused' = TRUE
    /\ UNCHANGED <<booted, moved, frozen, sampling, due>>

\* Mutation: the pause of the editor is never lifted.
CloseEditorPaused ==
    /\ Go("edit", "resume")
    /\ UNCHANGED <<paused, booted, moved, frozen, sampling, due>>

CloseEditor ==
    /\ Go("edit", "resume")
    /\ paused' = FALSE
    /\ UNCHANGED <<booted, moved, frozen, sampling, due>>

Resume ==
    /\ Go("resume", "poll")
    /\ Beat
    /\ UNCHANGED <<paused, frozen, sampling>>

\* A key that stops a service or a share waits for it in the UI thread.
StopService ==
    /\ Go("poll", "service")
    /\ UNCHANGED <<paused, booted, moved, frozen, sampling, due>>

ServiceStopped ==
    /\ Go("service", "poll")
    /\ Beat
    /\ UNCHANGED <<paused, frozen, sampling>>

\* exit_with_reconcile: every share is stopped, then the pause begins.
Exit ==
    /\ Go("poll", "stopAll")
    /\ UNCHANGED <<paused, booted, moved, frozen, sampling, due>>

SharesStopped ==
    /\ Go("stopAll", "settle")
    /\ paused' = TRUE
    /\ UNCHANGED <<booted, moved, frozen, sampling, due>>

Settled ==
    /\ Go("settle", "gone")
    /\ UNCHANGED <<paused, booted, moved, frozen, sampling, due>>

\* The terminal vanishes inside crossterm's read, which never returns.
Wedge ==
    /\ Go("poll", "stuck")
    /\ UNCHANGED <<paused, booted, moved, frozen, sampling, due>>

Linger ==
    /\ at \in Slow
    /\ due' = TRUE
    /\ UNCHANGED <<at, paused, booted, moved, frozen, sampling>>

ReadTicks ==
    /\ at \notin Over /\ due /\ ~sampling
    /\ frozen' = (booted /\ ~moved)
    /\ moved' = FALSE
    /\ sampling' = TRUE
    /\ due' = FALSE
    /\ UNCHANGED <<at, paused, booted>>

ReadPause ==
    /\ at \notin Over /\ sampling
    /\ sampling' = FALSE
    /\ at' = IF frozen /\ ~paused THEN "killed" ELSE at
    /\ UNCHANGED <<paused, booted, moved, frozen, due>>

Watch == ReadTicks \/ ReadPause

WdNext ==
    \/ Pass \/ OpenEditor \/ CloseEditor \/ Resume \/ StopService
    \/ ServiceStopped \/ Exit \/ SharesStopped \/ Settled \/ Wedge
    \/ Linger \/ Watch

WdFair == WF_wdVars(Watch) /\ WF_wdVars(Linger)
WdSpec == WdInit /\ [][WdNext]_wdVars /\ WdFair

\* A panel whose terminal vanished is ended, whatever pauses came before: a
\* pause that was left on would keep a wedged loop on a core for ever.
WedgedPanelEnds == (at = "stuck" /\ booted) ~> at = "killed"

=============================================================================
