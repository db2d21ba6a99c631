-------------------------- MODULE GameStreamProofs --------------------------
(***************************************************************************)
(* What the client knows of the host, for any applications and any luck.   *)
(* The belief about the pairing needs a network that loses nothing and an  *)
(* owner who does not remove the client; the belief about the running game *)
(* needs a host that is left alone as well.  Either names what a refusal   *)
(* of the host can do to it.                                               *)
(***************************************************************************)
EXTENDS GameStream, TLAPS

\* Nobody but the client itself can make the two sides differ about pairing.
Faithful == ~luck.lossy /\ "unpair" \notin luck.acts

\* The host lets the client see, and take back, a pairing.
Obliging == ~Refuses("unpair") /\ ~Refuses("status")

\* What either side knows of the pairing, at each place.
Known ==
  Faithful =>
    /\ paired => hostPaired
    /\ pc \notin {"CONNECTING", "pair", "unpair"} /\ Obliging => (hostPaired => paired)
    /\ pc = "pair" => ~paired /\ (Obliging => (hostPaired => stage = 5))
    /\ pc = "pair" /\ stage = 5 => hostPaired
    /\ pc = "launch" => paired

\* Nothing is lost or done at the host.
Undisturbed == ~luck.lossy /\ luck.acts = {}

\* Then the client takes no game for running that is not, but one whose launch
\* was refused.
GameRuns ==
  Undisturbed => (currentGame # NoGame => hostGame # NoGame \/ (Refuses("launch") /\ currentGame = App))

GInv == TypeOK /\ Known /\ GameRuns

-----------------------------------------------------------------------------
\* Before the first exchange.
LEMMA InitGInv == Init => GInv
<1> SUFFICES ASSUME Init
             PROVE  GInv
  OBVIOUS
<1>1. TypeOK
  <2>1. luck \in AllLucks
    BY LucksAssumption DEF Init
  <2>2. paired \in BOOLEAN /\ hostPaired \in BOOLEAN
    BY DEF Init
  <2>. QED
    BY <2>1, <2>2 DEF Init, TypeOK, Menus, Games, Stages
<1>2. Known /\ GameRuns
  BY DEF Init, Known, GameRuns
<1>. QED
  BY <1>1, <1>2 DEF GInv

\* An execution keeps its luck.
LEMMA LuckStays == [Next]_vars => luck' = luck
<1> SUFFICES ASSUME [Next]_vars
             PROVE  luck' = luck
  OBVIOUS
<1>1. CASE Status
  BY <1>1 DEF Status, StatusLoaded, StatusFails, StatusRead, Reconnect
<1>2. CASE BeginPair \/ PairComplete \/ Unpair \/ PairDone
  BY <1>2 DEF BeginPair, PairComplete, Unpair, PairDone
<1>3. ASSUME NEW k \in Stages,
             PairLost(k) \/ PairError(k) \/ PairDeclined(k) \/ PairRejected(k) \/ PairStage(k)
      PROVE  luck' = luck
  BY <1>3 DEF PairLost, PairError, PairDeclined, PairRejected, PairStage
<1>4. CASE Stream
  BY <1>4 DEF Stream, NotPaired, ListApps, LaunchAccepted, LaunchRefused, LaunchLost, LiStart,
              LeaveApp, QuitApp
<1>5. CASE HostAct \/ UNCHANGED vars
  BY <1>5 DEF HostAct, vars
<1>. QED
  BY <1>1, <1>2, <1>3, <1>4, <1>5 DEF Next, Pair

\* The types, by halves: places and numbers, and what is known of the host.
PlacesOK == /\ pc \in Menus \cup {"CONNECTING", "pair", "unpair", "pair_done", "launch",
                                  "li_start", "STREAMING"}
            /\ stage \in Stages
            /\ ret \in {"GS_OK", "negative", "one"}
            /\ report \in {"none", "connect_failed", "already_paired", "paired", "pair_failed",
                           "must_pair", "no_app", "start_failed", "link_failed"}
            /\ timeout \in {5, 30, 60, 120}

HostOK   == /\ paired \in BOOLEAN /\ hostPaired \in BOOLEAN
            /\ currentGame \in Games /\ hostGame \in Games

\* Every exchange keeps the places.
LEMMA NextPlaces == TypeOK /\ [Next]_vars => PlacesOK'
<1> SUFFICES ASSUME TypeOK, [Next]_vars
             PROVE  PlacesOK'
  OBVIOUS
<1> USE DEF TypeOK, PlacesOK, Menus
<1>1. CASE Status
  BY <1>1 DEF Status, StatusLoaded, StatusFails, StatusRead, Reconnect
<1>2. CASE BeginPair \/ PairComplete \/ Unpair
  BY <1>2 DEF BeginPair, PairComplete, Unpair, Cleanup, Stages
<1>3. CASE PairDone
  BY <1>3 DEF PairDone
<1>4. ASSUME NEW k \in Stages, PairLost(k) \/ PairError(k) \/ PairDeclined(k) \/ PairRejected(k)
      PROVE  PlacesOK'
  BY <1>4 DEF PairLost, PairError, PairDeclined, PairRejected, Cleanup
<1>5. ASSUME NEW k \in Stages, PairStage(k)
      PROVE  PlacesOK'
  BY <1>5 DEF PairStage, NextStage, Stages
<1>6. CASE Stream
  BY <1>6 DEF Stream, NotPaired, ListApps, LaunchAccepted, LaunchRefused, LaunchLost, LiStart,
              LeaveApp, QuitApp
<1>7. CASE HostAct \/ UNCHANGED vars
  BY <1>7 DEF HostAct, vars
<1>. QED
  BY <1>1, <1>2, <1>3, <1>4, <1>5, <1>6, <1>7 DEF Next, Pair

\* Every exchange keeps the two sides in their types.
LEMMA NextHost == TypeOK /\ [Next]_vars => HostOK'
<1> SUFFICES ASSUME TypeOK, [Next]_vars
             PROVE  HostOK'
  OBVIOUS
<1> USE DEF TypeOK, HostOK, Games, server, host
<1>1. CASE Status
  BY <1>1 DEF Status, StatusLoaded, StatusFails, StatusRead, Reconnect
<1>2. CASE BeginPair \/ PairComplete \/ PairDone
  BY <1>2 DEF BeginPair, PairComplete, PairDone
<1>3. CASE Unpair
  <2>1. paired' \in BOOLEAN /\ hostPaired' \in BOOLEAN
    BY <1>3, Zenon DEF Unpair
  <2>. QED
    BY <1>3, <2>1 DEF Unpair
<1>4. ASSUME NEW k \in Stages, PairLost(k) \/ PairError(k) \/ PairDeclined(k) \/ PairRejected(k)
      PROVE  HostOK'
  <2>1. hostPaired' \in BOOLEAN
    BY <1>4 DEF PairLost, PairError, PairDeclined, PairRejected
  <2>. QED
    BY <1>4, <2>1 DEF PairLost, PairError, PairDeclined, PairRejected
<1>5. ASSUME NEW k \in Stages, PairStage(k)
      PROVE  HostOK'
  <2>1. hostPaired' \in BOOLEAN
    BY <1>5, Zenon DEF PairStage
  <2>. QED
    BY <1>5, <2>1 DEF PairStage
<1>6. CASE Stream
  BY <1>6 DEF Stream, NotPaired, ListApps, LaunchAccepted, LaunchRefused, LaunchLost, LiStart,
              LeaveApp, QuitApp, GameForgotten
<1>7. CASE HostAct \/ UNCHANGED vars
  BY <1>7 DEF HostAct, HostUnpairs, HostQuits, HostPlays, vars
<1>. QED
  BY <1>1, <1>2, <1>3, <1>4, <1>5, <1>6, <1>7 DEF Next, Pair

\* Every exchange keeps the types.
LEMMA NextTypeOK == TypeOK /\ [Next]_vars => TypeOK'
  BY LuckStays, NextPlaces, NextHost DEF TypeOK, PlacesOK, HostOK

\* Every exchange keeps both sides' knowledge of the pairing.
LEMMA NextKnown == TypeOK /\ Known /\ [Next]_vars => Known'
<1> SUFFICES ASSUME TypeOK, Known, [Next]_vars, Faithful'
             PROVE  /\ paired' => hostPaired'
                    /\ pc' \notin {"CONNECTING", "pair", "unpair"} /\ Obliging => (hostPaired' => paired')
                    /\ pc' = "pair" => ~paired' /\ (Obliging => (hostPaired' => stage' = 5))
                    /\ pc' = "pair" /\ stage' = 5 => hostPaired'
                    /\ pc' = "launch" => paired'
  BY LuckStays DEF Known, Obliging, Refuses
<1>0. Faithful
  BY LuckStays DEF Faithful
<1>. USE DEF Known, Menus, server, host, Obliging
<1>1. /\ paired \in BOOLEAN /\ hostPaired \in BOOLEAN /\ stage \in Stages
      /\ \A x \in Exchanges : Possible(x) => x.answered /\ x.delivered
  BY <1>0 DEF TypeOK, Faithful, Possible
<1>2. CASE Status
  BY <1>0, <1>1, <1>2 DEF Status, StatusLoaded, StatusFails, StatusRead, Reconnect, Faithful
<1>3. CASE BeginPair
  BY <1>0, <1>1, <1>3 DEF BeginPair, PairRefused
<1>4. CASE Unpair
  BY <1>0, <1>1, <1>4 DEF Unpair
<1>5. CASE PairComplete \/ PairDone
  BY <1>0, <1>1, <1>5 DEF PairComplete, PairDone
<1>6. CASE \E k \in Stages : PairLost(k) \/ PairError(k) \/ PairRejected(k)
  BY <1>0, <1>1, <1>6 DEF PairLost, PairError, PairRejected, Cleanup
<1>7. CASE \E k \in Stages : PairDeclined(k)
  BY <1>0, <1>1, <1>7 DEF PairDeclined, Cleanup
<1>8. CASE \E k \in Stages : PairStage(k)
  <2>1. PICK k \in Stages : PairStage(k)
    BY <1>8
  <2>2. /\ pc = "pair" /\ pc' = "pair" /\ stage = k /\ stage' = k + 1 /\ k < 5
        /\ paired' = paired /\ hostPaired' = (hostPaired \/ k = 4)
    BY <2>1 DEF PairStage, NextStage
  <2>3. ~paired' /\ (Obliging => ~hostPaired)
    BY <1>0, <2>2
  <2>4. stage' = 5 <=> k = 4
    BY <2>2 DEF Stages
  <2>. QED
    BY <2>2, <2>3, <2>4
<1>9. CASE NotPaired \/ ListApps \/ LaunchAccepted \/ LaunchRefused
  BY <1>0, <1>1, <1>9 DEF NotPaired, ListApps, LaunchAccepted, LaunchRefused
<1>10. CASE LaunchLost \/ LiStart \/ LeaveApp \/ QuitApp
  BY <1>0, <1>1, <1>10 DEF LaunchLost, LiStart, LeaveApp, QuitApp
<1>11. CASE HostAct
  BY <1>0, <1>1, <1>11 DEF HostAct, HostUnpairs, HostQuits, HostPlays, Faithful
<1>12. CASE UNCHANGED vars
  BY <1>0, <1>1, <1>12 DEF vars
<1>. QED
  BY <1>2, <1>3, <1>4, <1>5, <1>6, <1>7, <1>8, <1>9, <1>10, <1>11, <1>12 DEF Next, Pair, Stream

\* Every exchange with a host that is left alone keeps the game in view.
LEMMA NextGameRuns == TypeOK /\ Known /\ GameRuns /\ [Next]_vars => GameRuns'
<1> SUFFICES ASSUME TypeOK, Known, GameRuns, [Next]_vars, Undisturbed'
             PROVE  currentGame' # NoGame =>
                      hostGame' # NoGame \/ (Refuses("launch") /\ currentGame' = App)
  BY LuckStays DEF GameRuns, Refuses
<1>0. Undisturbed
  BY LuckStays DEF Undisturbed
<1>. USE GamesAssumption DEF GameRuns, server, host
<1>1. /\ Faithful /\ (pc = "launch" => hostPaired) /\ luck.acts = {}
      /\ \A x \in Exchanges : Possible(x) => x.answered /\ x.delivered
  BY <1>0 DEF Undisturbed, Faithful, Known, Possible, TypeOK
<1>2. CASE Status \/ Pair
  BY <1>0, <1>1, <1>2
  DEF Status, StatusLoaded, StatusFails, StatusRead, Reconnect, Pair, BeginPair, PairComplete, Unpair, PairDone,
      PairLost, PairError, PairDeclined, PairRejected, PairStage
<1>3. CASE NotPaired \/ ListApps \/ LiStart \/ LeaveApp
  BY <1>0, <1>1, <1>3 DEF NotPaired, ListApps, LiStart, LeaveApp
<1>4. CASE LaunchAccepted \/ LaunchRefused
  BY <1>0, <1>1, <1>4 DEF LaunchAccepted, LaunchRefused, CannotLaunch, Resumes
<1>5. CASE LaunchLost \/ QuitApp
  <2>1. CASE LaunchLost
    BY <1>1, <2>1 DEF LaunchLost
  <2>2. CASE QuitApp
    <3>1. ASSUME NEW x \in Exchanges,
                 Possible(x),
                 hostGame' = IF x.delivered /\ hostPaired THEN NoGame ELSE hostGame,
                 GameForgotten(x)
          PROVE  currentGame' # NoGame =>
                   hostGame' # NoGame \/ (Refuses("launch") /\ currentGame' = App)
      <4>1. x.answered /\ x.delivered
        BY <1>1, <3>1
      <4>. QED
        BY <1>0, <3>1, <4>1 DEF GameForgotten
    <3>2. CASE UNCHANGED <<hostGame, currentGame>>
      BY <1>0, <3>2
    <3>. QED
      BY <2>2, <3>1, <3>2 DEF QuitApp
  <2>. QED
    BY <1>5, <2>1, <2>2
<1>6. CASE HostAct
  BY <1>0, <1>1, <1>6 DEF HostAct, HostUnpairs, HostQuits, HostPlays
<1>7. CASE UNCHANGED vars
  BY <1>0, <1>7 DEF vars
<1>. QED
  BY <1>2, <1>3, <1>4, <1>5, <1>6, <1>7 DEF Next, Stream

-----------------------------------------------------------------------------
\* The invariant holds in every reachable state.
THEOREM ExchangeInvariance == Spec => []GInv
<1>1. GInv /\ [Next]_vars => GInv'
  BY NextTypeOK, NextKnown, NextGameRuns DEF GInv
<1>. QED
  BY InitGInv, <1>1, PTL DEF Spec

\* Every variable keeps its type.
THEOREM ExchangesTypeCorrect == Spec => []TypeOK
<1>1. GInv => TypeOK
  BY DEF GInv
<1>. QED
  BY <1>1, ExchangeInvariance, PTL

\* In the menus no host is believed paired that is not, whatever was refused; and
\* what a failed pairing leaves on a host that does not refuse /unpair, cleanup
\* takes back.
THEOREM MenusKnowThePairing == Spec => []BeliefMatches
<1>1. GInv => BeliefMatches
  BY DEF GInv, Known, Faithful, Obliging, BeliefMatches, Menus
<1>. QED
  BY <1>1, ExchangeInvariance, PTL

\* As long as the host is left alone, a game that the client would resume runs,
\* or is the one whose launch was refused.
THEOREM GameToResumeRuns == Spec => []CurrentGameRuns
<1>1. GInv => CurrentGameRuns
  BY DEF GInv, GameRuns, Undisturbed, CurrentGameRuns
<1>. QED
  BY <1>1, ExchangeInvariance, PTL
=============================================================================
