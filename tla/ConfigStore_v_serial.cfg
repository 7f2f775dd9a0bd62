\* Two requests read the same file.
SPECIFICATION Spec
CONSTANTS
  blog = blog
  mail = mail
  wrong = wrong
  Names <- Three
  Invalid <- Wrong
  InitialSettings <- Both
  EnvSettings <- NoEnv
  Handlers = {h1, h2}
  h1 = h1
  h2 = h2
  Faults = {}
  MaxEntries = 2
  MaxKills = 0
PROPERTIES
  EditsAreSerial
