SPECIFICATION FairSpec
CONSTANTS
  host = host
  client = client
PROPERTIES
  ChannelsKeepTheirContract
  DrainIsSound
CHECK_DEADLOCK FALSE
