SPECIFICATION StartupSpec
CONSTANTS
  api = api
  web = web
  main = main
  trunk = trunk
  Slugs <- MCSlugs
  Settings <- MCSettings
  Registries <- MCRegistries
  Invalid = Invalid
  NoTx = NoTx
  Builds = {1, 2}
INVARIANTS
  TypeOK
  RoutedHaveRows
  TableIsWhole
  LastSignalWins
  SchemaIsVersioned
PROPERTY
  QuarantineSurvives
