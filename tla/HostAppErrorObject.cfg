\* The error object that clock2 creates lives in the plugin: main still uses it
\* after ncom_plugin_unload.
SPECIFICATION HostSpec
CONSTANTS
  Blocks = {b1, b2, b3}
  Slots <- MainSlots
  NULL = NULL
INVARIANT
  ErrorObjectsMapped
