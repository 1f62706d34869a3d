CONSTANTS
  Schemas = {"outer", "inner"}
  Inner <- MCInner
  Configs <- MCConfigs
  UnknownOf <- MCUnknownOf
  Compilable = {"first", "second"}
  Fusable = {"first"}
  Hooks <- MCHooks
  Unknowns = {"exclude"}
  Partials = {NoPartial, "false", "all", "odd"}
  OwnPartials = {NoPartial, "all", "odd"}
  Supported = {NoPartial, "false", "all"}
  Falsy = {NoPartial, "false"}
  NoPartial = NoPartial
  Default = Default
  Unset = Unset
  None = None
  Called = Called
  Nothing = Nothing
  ReconfigureInHooks = FALSE
SPECIFICATION Spec
INVARIANTS
  TypeOK
  AnswersLive
