SPECIFICATION Spec
CONSTANTS
  a = a
  b = b
  v1 = v1
  v2 = v2
  Files = {a, b}
  Versions = {v1, v2}
  FilesOf <- MCFilesOf
  Torn = Torn
  Edited = Edited
  Absent = Absent
  Before <- MCBefore
  Plain = {skill}
  Bindings = {binding}
  HookFiles = {hooks}
  CodexFiles = {config}
INVARIANTS
  CrashSafe
PROPERTIES
  ResultHonest
  UserContentKept
  InstallsAtomically
  RerunRepairs
