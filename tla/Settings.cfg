SPECIFICATION FairSpec
CONSTANTS
  Servers = {s1, s2}
  Ports = {1}
  DefaultPort = 10242
  Unset = Unset
  FormTypes = {"MQTT", "Cloud", Unset}
  FlashFails = TRUE
  ButtonMod = 14
INVARIANTS  RunsWhatIsStored
PROPERTIES LostOnlyToLongPress ComesUp
