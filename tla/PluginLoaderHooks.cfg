\* One thread that opens one library twice and unloads one of the handles.
SPECIFICATION Spec
CONSTANTS
  Threads = {t1}
  Files = {f1}
  Handles = {h1, h2}
  None = None
INVARIANT
  ShutdownBeforeUnload
