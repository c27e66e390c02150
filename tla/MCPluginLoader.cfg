\* Two threads and three handles on two files: a thread can hold two handles
\* of one library while the other loads or unloads it.
SPECIFICATION Spec
CONSTANTS
  Threads = {t1, t2}
  Files = {f1, f2}
  Handles = {h1, h2, h3}
  None = None
SYMMETRY Symmetry
INVARIANTS
  TypeOK
  NoHandleLost
  MapsMatchHandles
  HooksMatchHandles
  CodeStaysMapped
