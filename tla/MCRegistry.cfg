SPECIFICATION Spec
CONSTANTS
  pusher = pusher  joiner = joiner  other = other
  app = app  lib = lib
  amd = amd  arm = arm  all = all
  oldAmd = oldAmd  newV7 = newV7  anArm = anArm  libAmd = libAmd  unknown = unknown
  bare = bare
  Jobs <- MCJobs  Tasks <- MCTasks  Repos = {app, lib}  Tags = {amd, arm, all}
  Images <- MCImages  PlatformOf <- MCPlatformOf  Bare <- bare  Initial <- MCInitial
  NoPlatform = NoPlatform  None = None
CHECK_DEADLOCK FALSE
INVARIANTS
  EntriesAgree IndexIsUsable EntriesWereNamed SignedIsOwn
