SPECIFICATION DataDirPageSpec
CONSTANTS
  Places = {"home", "new"}
  Home = "home"
  Wrong = {"inside"}
  AuthModes = {"off", "on"}
  MaxAsks = 3
  MaxMishaps = 1
INVARIANT ConsoleIsServed
CHECK_DEADLOCK FALSE
