SPECIFICATION Spec
CONSTANTS
  ChannelIds = {0, 1}
  None = None
  MaxPackets = 3
  Configurations = {{}, {"pool", "forwarding", "sftp_enabled", "telnet_spoof_authentication"}}
INVARIANTS TypeOK NoPacketLost CleanGuest LinePerPrompt 
PROPERTIES Relays TimesOut
CHECK_DEADLOCK FALSE
