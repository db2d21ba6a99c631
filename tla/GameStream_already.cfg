CONSTANTS
  App = App
  OtherApp = OtherApp
  NoGame = NoGame
  Lucks <- Calm
SPECIFICATION Spec
INVARIANTS AlreadyPairedIsPaired
