------------------------------- MODULE Startup -------------------------------
(***************************************************************************)
(* A start of the program, up to its main loop (src/src/main.c): Config    *)
(* and KeyStore one after the other.  The keys are loaded, and created,    *)
(* whether or not the settings have an address; both say which state the   *)
(* main loop begins in.  A start can be cut off anywhere, and the next one *)
(* reads the settings afresh and finds the key files as they are.          *)
(***************************************************************************)
EXTENDS Config, KeyStore

startupVars == <<configVars, vars>>

StartupInit == ConfigInit /\ Init

-----------------------------------------------------------------------------
Configure == pc = "off" /\ ConfigNext /\ UNCHANGED vars

\* gs_new.  What the files said does not matter from here on.
LoadKeys ==
  /\ reading = "done" /\ Start
  /\ reading' = "used" /\ said' = <<>>
  /\ UNCHANGED <<included, config, state>>

\* No client: main says why and stays in INVALID, whatever the settings were.
StateKept(failed)  == UNCHANGED state   \* mutant: the address alone decides
StateAfter(failed) == state' = IF failed THEN "INVALID" ELSE state

Keys ==
  /\ Load \/ Create
  /\ StateAfter(pc' = "INVALID")
  /\ UNCHANGED <<reading, included, config, said>>

\* The program ends, or the console is switched off; what it had read is gone.
Ends ==
  /\ reading # "off"
  /\ PowerOff \/ (pc = "off" /\ UNCHANGED vars)
  /\ reading' = "off" /\ included' = 0 /\ config' = Defaults
  /\ state' = "INVALID" /\ said' = <<>>

Card == reading = "off" /\ (WipeDir \/ LoseFile) /\ UNCHANGED configVars

StartupNext == Configure \/ LoadKeys \/ Keys \/ Ends \/ Card

StartupSpec == StartupInit /\ [][StartupNext]_startupVars

\* The program runs; the user does as he likes.
FairStartupSpec == StartupSpec /\ WF_startupVars(Keys)

-----------------------------------------------------------------------------
\* The main loop begins in CONNECTING, where it uses client and address
\* without a look at them, exactly when there is a host to connect to and a
\* client whose key belongs to its certificate.
ConnectsWithClient ==
  pc \in {"running", "INVALID"} =>
    (state = "CONNECTING" <=> config.address # None /\ pc = "running" /\ key = cert)
=============================================================================
