\* A transfer and a configuration at a time: configure_device's comment says that the
\* watch of its device is paused meanwhile.  The transfer's resume ends the pause.
SPECIFICATION Spec
CONSTANTS
  Keys = {k1}
  Hubs = {h1, h2}
  NoHub = NoHub
  Clients = {gui}
  GuiClients = {gui}
  ClientKey <- MCClientKey
  IntervalOf <- MCIntervalOf
  Transfers = {ftp}
  Configures = {setip}
  ConfigureKey <- MCConfigureKey
SYMMETRY HubSymmetry
INVARIANT ConfiguredHubSuspended
