CONSTANTS
  App = App
  OtherApp = OtherApp
  NoGame = NoGame
  Lucks <- EveryLuck
SPECIFICATION FairSpec
INVARIANTS TypeOK BeliefMatches CurrentGameRuns
PROPERTIES PairingSucceeds OperationsReturn
