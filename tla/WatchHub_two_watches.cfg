\* The GUI and a recorder of the same device: the module docstring promises them one
\* shared connection.  The recorder finds the hub, the GUI's purge removes it.
SPECIFICATION Spec
CONSTANTS
  Keys = {k1}
  Hubs = {h1, h2}
  NoHub = NoHub
  Clients = {gui, recorder}
  GuiClients = {gui}
  ClientKey <- MCClientKey
  IntervalOf <- MCIntervalOf
  Transfers = {}
  Configures = {}
  ConfigureKey <- MCConfigureKey
SYMMETRY HubSymmetry
INVARIANT OneWatchPerDevice
