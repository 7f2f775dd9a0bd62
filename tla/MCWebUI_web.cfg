\* Each component of the web UI, one per behaviour.
SPECIFICATION WebSpec
CONSTANTS
  h1 = h1
  Handlers = {h1}
  blog = blog
  mail = mail
  wrong = wrong
  Names <- Three
  Invalid <- Wrong
  InitialSettings <- Both
  EnvSettings <- OneEnv
  Faults = {"kill", "write"}
  MaxEntries = 2
  MaxKills = 2
  admin = admin
  better = better
  b1 = b1
  b2 = b2
  r1 = r1
  r2 = r2
  Passwords = {admin, better}
  Default = admin
  Browsers = {b1, b2}
  Requests = {r1, r2}
  FirstRecords <- NoneOrHashed
  Life = 1
  AuthFaults = {"kill", "killWriting", "disk"}
  MaxTime = 2
  MaxTokens = 2
  MaxCrashes = 1
  Pool <- Simple
  MaxRows = 2
  MaxSaves = 2
SYMMETRY Symmetry
INVARIANTS
  FileReadable
  RecordsMatchFile
  PasswordKept
  EveryNameCovered
  OwnStatus
PROPERTIES
  EditsAreSerial
  ServedUnlocked
  RefusedRightly
