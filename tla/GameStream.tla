----------------------------- MODULE GameStream -----------------------------
(***************************************************************************)
(* The GameStream client of libgamestream/client.c, as src/src/main.c uses *)
(* it: server status, the five-stage pairing, application list, launch or  *)
(* resume, quit.  What the client knows of the host is SERVER_DATA, here   *)
(* `paired` and `currentGame`; the truth is on the host.                   *)
(*                                                                         *)
(* An action is one HTTP exchange with what the client does up to the      *)
(* next: the client blocks in http_request and runs on one thread.  The    *)
(* request or its response may be lost (a timeout is one of the two).  The *)
(* host is external and is modelled from the answers the client expects.   *)
(***************************************************************************)
EXTENDS Naturals

CONSTANTS
  App,         \* the application of the configuration
  OtherApp,    \* one which somebody else may start on the host
  NoGame,      \* currentGame = 0
  Lucks        \* what may go wrong: an execution meets one of these

\* lossy    requests and responses may be lost
\* refuses  requests which the host may answer with an error, or with what the
\*          client does not take, although they could succeed
\* acts     what the people at the host do
Requests == {"status", "pair", "unpair", "applist", "launch", "cancel"}
AllLucks == [lossy : BOOLEAN, refuses : SUBSET Requests, acts : SUBSET {"unpair", "quit", "launch"}]

ASSUME GamesAssumption == App # OtherApp /\ NoGame \notin {App, OtherApp}
ASSUME LucksAssumption == Lucks \subseteq AllLucks

VARIABLES
  luck,          \* the luck of this execution; no step changes it
  pc,            \* the main loop's state, or the exchange under way
  stage,         \* the stage of the pairing
  ret,           \* the result so far: "GS_OK", "negative", or "one"
  report,        \* the last result main has shown
  timeout,       \* seconds, of http_set_timeout
  paired, currentGame,          \* SERVER_DATA
  hostPaired, hostGame          \* the host

server == <<paired, currentGame>>
host   == <<hostPaired, hostGame>>
vars   == <<luck, pc, stage, ret, report, timeout, server, host>>

Menus  == {"DISCONNECTED", "CONNECTED"}
AtRest == pc \in Menus \cup {"STREAMING"}
Games  == {App, OtherApp, NoGame}
Stages == 1..5

Init == /\ luck \in Lucks
        /\ pc = "CONNECTING" /\ stage = 1 /\ ret = "GS_OK" /\ report = "none"
        /\ timeout = 5                                   \* gs_new
        /\ paired = FALSE /\ currentGame = NoGame
        /\ hostPaired \in BOOLEAN /\ hostGame \in {NoGame, OtherApp}

-----------------------------------------------------------------------------
(* HTTP.  `delivered`: the host acts on the request; `answered`: the client*)
(* gets the response.                                                      *)

Exchanges == [delivered : BOOLEAN, answered : BOOLEAN]
Refuses(request) == request \in luck.refuses
Possible(x) == IF luck.lossy THEN x.answered => x.delivered ELSE x.delivered /\ x.answered

-----------------------------------------------------------------------------
(* gs_get_status: main is in CONNECTING.                                   *)

\* load_server_status has a complete document: the HTTPS one, which only a
\* paired client gets, or the HTTP one, which does not tell who is paired.
StatusRead ==
  /\ \/ hostPaired /\ paired' = TRUE
     \/ (luck.lossy \/ Refuses("status") \/ ~hostPaired) /\ paired' = FALSE
  /\ currentGame' = hostGame

StatusLoaded ==
  /\ pc = "CONNECTING"
  /\ pc' = "CONNECTED"
  /\ StatusRead
  /\ UNCHANGED <<luck, stage, ret, report, timeout, host>>

\* Neither request has brought a complete document, or the one that did is of a
\* version the client does not know, which is looked at last.
StatusFails ==
  /\ pc = "CONNECTING"
  /\ \/ (luck.lossy \/ Refuses("status")) /\ UNCHANGED server
     \/ Refuses("status") /\ StatusRead
  /\ pc' = "DISCONNECTED" /\ report' = "connect_failed"
  /\ UNCHANGED <<luck, stage, ret, timeout, host>>

Reconnect ==
  /\ pc = "DISCONNECTED"
  /\ pc' = "CONNECTING" /\ report' = "none"
  /\ UNCHANGED <<luck, stage, ret, timeout, server, host>>

-----------------------------------------------------------------------------
(* gs_pair.                                                                *)

\* The checks before the first request; a failure goes to cleanup like any.
PairRefused == paired \/ currentGame # NoGame

BeginPair ==
  /\ pc = "CONNECTED"
  /\ timeout' = 60 /\ stage' = 1
  /\ IF PairRefused THEN pc' = "unpair" /\ ret' = "negative"
                    ELSE pc' = "pair" /\ ret' = "GS_OK"
  /\ report' = IF paired THEN "already_paired" ELSE "none"
  /\ UNCHANGED <<luck, server, host>>

LeavePaired == pc' = "pair_done"   \* mutant: no gs_unpair on failure
RetryPair   == pc' = "pair"        \* mutant: the same stage again, for ever
Cleanup     == pc' = "unpair"

\* The host turns stage k down: its people do, or it does not know the client
\* which sends the last, encrypted request.
TurnsDown(k) == Refuses("pair") \/ (k = 5 /\ ~hostPaired)

\* http_request fails in stage k.
PairLost(k) ==
  /\ pc = "pair" /\ stage = k
  /\ \E x \in Exchanges :
       /\ Possible(x) /\ ~x.answered
       /\ hostPaired' = (hostPaired \/ (x.delivered /\ k = 4))
  /\ ret' = "negative" /\ Cleanup
  /\ UNCHANGED <<luck, stage, report, timeout, server, hostGame>>

\* The status of the response is not 200: from stage 2 on, a misplaced
\* parenthesis makes ret the value of the comparison.
PairError(k) ==
  /\ pc = "pair" /\ stage = k /\ TurnsDown(k)
  /\ ret' = IF k = 1 THEN "negative" ELSE "one"
  /\ Cleanup
  /\ UNCHANGED <<luck, stage, report, timeout, server, host>>

\* <paired>0</paired>.  In stage 1 the error is recorded but ret is still
\* GS_OK, so cleanup does not unpair and gs_pair returns GS_OK; the same
\* happens there to a certificate that is too long.
PairDeclined(k) ==
  /\ pc = "pair" /\ stage = k /\ TurnsDown(k)
  /\ IF k = 1 THEN ret' = "GS_OK" /\ pc' = "pair_done"
              ELSE ret' = "negative" /\ Cleanup
  /\ UNCHANGED <<luck, stage, report, timeout, server, host>>

\* The host accepts but the client does not: no certificate or an unreadable
\* one in stage 1, no challenge in stage 2, a wrong signature or PIN in stage 3.
PairRejected(k) ==
  /\ pc = "pair" /\ stage = k /\ k \in {1, 2, 3} /\ Refuses("pair")
  /\ ret' = "negative" /\ Cleanup
  /\ UNCHANGED <<luck, stage, report, timeout, server, host>>

\* The client sends its signed secret in stage 4, which makes it known to the
\* host.
SecretSkipped(k) == IF k = 3 THEN 5 ELSE k + 1   \* mutant: stage 4 is left out
StageBack(k) == k - 1   \* mutant: back to the stage before
NextStage(k) == k + 1

PairStage(k) ==
  /\ pc = "pair" /\ stage = k /\ k < 5
  /\ stage' = NextStage(k)
  /\ hostPaired' = (hostPaired \/ k = 4)
  /\ UNCHANGED <<luck, pc, ret, report, timeout, server, hostGame>>

PairComplete ==
  /\ pc = "pair" /\ stage = 5 /\ hostPaired
  /\ paired' = TRUE
  /\ pc' = "pair_done"
  /\ UNCHANGED <<luck, stage, ret, report, timeout, currentGame, host>>

\* gs_unpair, from cleanup, which drops its result: a status that is not OK
\* leaves both sides as they were.
Unpair ==
  /\ pc = "unpair"
  /\ pc' = "pair_done"
  /\ \/ \E x \in Exchanges :
          /\ Possible(x)
          /\ hostPaired' = (hostPaired /\ ~x.delivered)
          /\ paired' = (paired /\ ~x.answered)
     \/ Refuses("unpair") /\ UNCHANGED <<paired, hostPaired>>
  /\ UNCHANGED <<luck, stage, ret, report, timeout, currentGame, hostGame>>

\* Back in main.
PairDone ==
  /\ pc = "pair_done"
  /\ pc' = IF currentGame # NoGame THEN "DISCONNECTED" ELSE "CONNECTED"
  /\ report' = CASE ret = "GS_OK"             -> "paired"
                 [] report = "already_paired" -> "already_paired"
                 [] OTHER                     -> "pair_failed"
  /\ timeout' = 5
  /\ UNCHANGED <<luck, stage, ret, server, host>>

-----------------------------------------------------------------------------
(* gs_applist, gs_start_app and LiStartConnection, from stream().          *)

NotPaired ==
  /\ pc = "CONNECTED" /\ ~paired
  /\ report' = "must_pair"
  /\ UNCHANGED <<luck, pc, stage, ret, timeout, server, host>>

\* The list over HTTPS, for a client the host knows; the application is in it
\* or not.
ListApps ==
  /\ pc = "CONNECTED" /\ paired
  /\ \/ hostPaired /\ pc' = "launch" /\ report' = "none"
     \/ (luck.lossy \/ Refuses("applist") \/ ~hostPaired) /\ pc' = pc /\ report' = "no_app"
  /\ UNCHANGED <<luck, stage, ret, timeout, server, host>>

\* "launch", or "resume" if SERVER_DATA says that a game is running.
Resumes == currentGame # NoGame

\* The response names a session.  currentGame is set as soon as a response is
\* there at all.
LaunchAccepted ==
  /\ pc = "launch" /\ hostPaired
  /\ IF Resumes THEN hostGame # NoGame /\ UNCHANGED hostGame
                ELSE hostGame = NoGame /\ hostGame' = App
  /\ currentGame' = App
  /\ ret' = "GS_OK" /\ pc' = "li_start"
  /\ timeout' = IF Resumes THEN 120 ELSE 30
  /\ UNCHANGED <<luck, stage, report, paired, hostPaired>>

\* The host answers that it does not.  A bad status gives 1, which stream()
\* does not take for an error; a response without a session is one; an error of
\* HTTP fails the request (CURLOPT_FAILONERROR) before currentGame is set.
CannotLaunch == ~hostPaired \/ (IF Resumes THEN hostGame = NoGame ELSE hostGame # NoGame)

LaunchRefused ==
  /\ pc = "launch" /\ (Refuses("launch") \/ CannotLaunch)
  /\ \/ ret' = "one" /\ pc' = "li_start" /\ currentGame' = App /\ UNCHANGED report
     \/ /\ ret' = "negative" /\ pc' = "CONNECTED" /\ report' = "start_failed"
        /\ currentGame' \in {App, currentGame}
  /\ timeout' = IF Resumes THEN 120 ELSE 30
  /\ UNCHANGED <<luck, stage, paired, host>>

\* No response, although the host may have started the application.
LaunchLost ==
  /\ pc = "launch"
  /\ \E x \in Exchanges :
       /\ Possible(x) /\ ~x.answered
       /\ hostGame' = IF x.delivered /\ hostPaired /\ ~Resumes /\ hostGame = NoGame
                      THEN App ELSE hostGame
  /\ ret' = "negative" /\ pc' = "CONNECTED" /\ report' = "start_failed"
  /\ timeout' = IF Resumes THEN 120 ELSE 30
  /\ UNCHANGED <<luck, stage, server, hostPaired>>

\* The streaming library can connect only if the host runs something.
LiStart ==
  /\ pc = "li_start"
  /\ \/ hostGame # NoGame /\ pc' = "STREAMING" /\ UNCHANGED report
     \/ pc' = "CONNECTED" /\ report' = "link_failed"
  /\ UNCHANGED <<luck, stage, ret, timeout, server, host>>

-----------------------------------------------------------------------------
(* STOP_STREAM, with and without quitappafter.                             *)

LeaveApp ==
  /\ pc = "STREAMING"
  /\ pc' = "DISCONNECTED"
  /\ UNCHANGED <<luck, stage, ret, report, timeout, server, host>>

GameKept(x)   == UNCHANGED currentGame   \* mutant: the client does not note it
GameForgotten(x) == currentGame' = IF x.answered /\ hostPaired THEN NoGame ELSE currentGame

\* gs_quit_app; main drops its result.
QuitApp ==
  /\ pc = "STREAMING"
  /\ pc' = "DISCONNECTED"
  /\ \/ \E x \in Exchanges :
          /\ Possible(x)
          /\ hostGame' = IF x.delivered /\ hostPaired THEN NoGame ELSE hostGame
          /\ GameForgotten(x)
     \/ Refuses("cancel") /\ UNCHANGED <<hostGame, currentGame>>
  /\ UNCHANGED <<luck, stage, ret, report, timeout, paired, hostPaired>>

-----------------------------------------------------------------------------
(* The people at the host.                                                 *)

HostUnpairs == "unpair" \in luck.acts /\ hostPaired' = FALSE /\ UNCHANGED hostGame
HostQuits   == "quit" \in luck.acts /\ hostGame' = NoGame /\ UNCHANGED hostPaired
HostPlays   == /\ "launch" \in luck.acts /\ hostGame = NoGame
               /\ hostGame' = OtherApp /\ UNCHANGED hostPaired

HostAct == /\ HostUnpairs \/ HostQuits \/ HostPlays
           /\ UNCHANGED <<luck, pc, stage, ret, report, timeout, server>>

Status == StatusLoaded \/ StatusFails \/ Reconnect
Pair   == \/ BeginPair \/ PairComplete \/ Unpair \/ PairDone
          \/ \E k \in Stages : \/ PairLost(k) \/ PairError(k) \/ PairDeclined(k)
                               \/ PairRejected(k) \/ PairStage(k)
Stream == \/ NotPaired \/ ListApps \/ LaunchAccepted \/ LaunchRefused \/ LaunchLost
          \/ LiStart \/ LeaveApp \/ QuitApp

Next == Status \/ Pair \/ Stream \/ HostAct

Spec == Init /\ [][Next]_vars

\* Every exchange ends: http_request has a timeout.  People do as they like.
FairSpec == Spec /\ WF_vars(~AtRest /\ (Status \/ Pair \/ Stream))

-----------------------------------------------------------------------------
TypeOK ==
  /\ luck \in AllLucks
  /\ pc \in Menus \cup {"CONNECTING", "pair", "unpair", "pair_done", "launch",
                        "li_start", "STREAMING"}
  /\ stage \in Stages
  /\ ret \in {"GS_OK", "negative", "one"}
  /\ report \in {"none", "connect_failed", "already_paired", "paired", "pair_failed",
                 "must_pair", "no_app", "start_failed", "link_failed"}
  /\ timeout \in {5, 30, 60, 120}
  /\ paired \in BOOLEAN /\ hostPaired \in BOOLEAN
  /\ currentGame \in Games /\ hostGame \in Games

\* On a network that loses nothing, and unless the host's owner removes the
\* client, the menus take no host for paired that is not; and they take one that
\* is for paired too, whatever stage a pairing was turned down at: what a failed
\* gs_pair leaves on the host, cleanup takes back.  Only a host that refuses
\* /unpair itself, or the status over HTTPS, stays paired behind the client's back.
BeliefMatches ==
  ~luck.lossy /\ "unpair" \notin luck.acts /\ pc \in Menus =>
    /\ paired => hostPaired
    /\ hostPaired => paired \/ Refuses("unpair") \/ Refuses("status")

\* With a willing host, a good network and the right PIN, the stages lead to a
\* pairing both sides know of, whatever is played on the host meanwhile.
PairingSucceeds ==
  (~luck.lossy /\ ~Refuses("pair") /\ "unpair" \notin luck.acts /\ pc = "pair")
    ~> (pc \in Menus /\ paired /\ hostPaired)

\* Whatever is lost or refused, the one thread that draws the menus and polls
\* HOME gets back from every operation.
OperationsReturn == ~AtRest ~> AtRest

\* The menu says "Succesfully paired" (main.c:329) only of a host that is.
SaysPairedIfPaired == report = "paired" => paired

\* gs_pair refuses an "Already paired" host (client.c:318): that host still is.
AlreadyPairedIsPaired ==
  report = "already_paired" /\ pc \in Menus => hostPaired

\* currentGame, which chooses launch or resume and forbids pairing, is set only
\* while the host streams or may be resumed: "forcing it to zero if streaming is
\* not active" (client.c:173-176).  So it is through any number of sessions,
\* left or quit, whatever else is refused, as long as nothing is lost or done at
\* the host.  A refused launch leaves its own application there (client.c:717),
\* and no other.
CurrentGameRuns ==
  ~luck.lossy /\ luck.acts = {} /\ pc \in Menus /\ currentGame # NoGame =>
    hostGame # NoGame \/ (Refuses("launch") /\ currentGame = App)
=============================================================================
