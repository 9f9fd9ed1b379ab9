\* Only the GUI watches, twice, while the device is configured; fairness as stated in
\* the module, so that a watch that stays open has to be served.
SPECIFICATION FairSpec
CONSTANTS
  Keys = {k1}
  Hubs = {h1, h2}
  NoHub = NoHub
  Clients = {g1, g2}
  GuiClients = {g1, g2}
  ClientKey <- MCClientKey
  IntervalOf <- MCIntervalOf
  Transfers = {}
  Configures = {setip}
  ConfigureKey <- MCConfigureKey
INVARIANT OneWatchPerDevice
PROPERTY Served
