-------------------------- MODULE SessionLifecycle --------------------------
(***************************************************************************)
(* What the user of Moonlight Wii U is promised about sessions: from the   *)
(* menus a session is started, it may fail to start, it runs, it is        *)
(* stopped, and then the menus are back and the connection to the host is  *)
(* gone.  StreamSession, the threads of src/src/main.c and its callbacks,  *)
(* implements this.                                                        *)
(***************************************************************************)

VARIABLES phase,      \* "menu", "starting", "live", "stopping" or "ended"
          linked      \* a connection to the host is up

lvars == <<phase, linked>>

LInit == phase = "menu" /\ linked = FALSE

Start  == phase = "menu" /\ phase' = "starting" /\ UNCHANGED linked
Link   == phase = "starting" /\ ~linked /\ linked' = TRUE /\ UNCHANGED phase
GiveUp == phase = "starting" /\ ~linked /\ phase' = "menu" /\ UNCHANGED linked
GoLive == phase = "starting" /\ linked /\ phase' = "live" /\ UNCHANGED linked

\* The user holds HOME or the host goes away.
Stop   == phase = "live" /\ phase' = "stopping" /\ UNCHANGED linked
Unlink == phase = "stopping" /\ linked /\ linked' = FALSE /\ UNCHANGED phase
Back   == phase = "stopping" /\ ~linked /\ phase' = "menu" /\ UNCHANGED linked

\* A report about a session that is over: a stop with nothing to take down.
LateStop == phase = "menu" /\ ~linked /\ phase' = "stopping" /\ UNCHANGED linked

\* The system may end the program between two turns of its main loop.
End    == phase \in {"menu", "live", "stopping"} /\ phase' = "ended" /\ UNCHANGED linked

LNext == Start \/ Link \/ GiveUp \/ GoLive \/ Stop \/ Unlink \/ Back \/ LateStop \/ End

\* A session that is being stopped is stopped.
LSpec == LInit /\ [][LNext]_lvars /\ WF_lvars(Unlink) /\ WF_lvars(Back)
=============================================================================
