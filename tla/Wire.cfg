SPECIFICATION Spec
CONSTANTS
  HeadRoom = 12
  MaxHead = 20
  MaxBody = 2
  Responses <- MCResponses
  Chains <- MCChains
  ProxyRoom = 4
  MaxReply = 12
  WsRoom = 5
  MaxUpgrade = 16
  Upgrades <- MCUpgrades
  Packets <- MCPackets
  Noise = {0, 1, 5, 6, 100}
INVARIANTS BodyFaithful ConsumedExactly LimitKept AsksFarEnd TunnelIsClean OpensWithAllFrames RoundTrip NothingInvented
CHECK_DEADLOCK FALSE
