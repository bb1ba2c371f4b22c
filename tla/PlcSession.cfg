CONSTANTS
  PLC_INIT_MAX_RETRAY = 2
  plc_wait_time = 1
  AttachWaits = 1
  MaxAsked = 1
SPECIFICATION SessionSpec
INVARIANT SessionTypeOK AttachmentWatched
PROPERTY SilenceNoticed
CHECK_DEADLOCK FALSE
