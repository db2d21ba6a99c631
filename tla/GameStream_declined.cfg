CONSTANTS
  App = App
  OtherApp = OtherApp
  NoGame = NoGame
  Lucks <- Refusal
SPECIFICATION Spec
INVARIANTS SaysPairedIfPaired
