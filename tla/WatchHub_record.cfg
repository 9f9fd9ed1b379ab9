\* One device, the GUI and a recorder that come and go, and a configuration: two hub
\* objects let a hub that stops overlap with its successor.
SPECIFICATION Spec
CONSTANTS
  Keys = {k1}
  Hubs = {h1, h2}
  NoHub = NoHub
  Clients = {gui, recorder}
  GuiClients = {gui}
  ClientKey <- MCClientKey
  IntervalOf <- MCIntervalOf
  Transfers = {}
  Configures = {setip}
  ConfigureKey <- MCConfigureKey
SYMMETRY HubSymmetry
INVARIANTS NoIdlePolling NothingMissed
