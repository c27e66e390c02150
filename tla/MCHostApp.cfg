\* One run of main; three blocks for the component, the factory and the
\* component that the factory makes.
SPECIFICATION HostSpec
CONSTANTS
  Blocks = {b1, b2, b3}
  Slots <- MainSlots
  NULL = NULL
INVARIANTS
  PluginObjectsMapped
  NothingLeftAtExit
