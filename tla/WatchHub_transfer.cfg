\* One FTP transfer of one job that suspends every hub, against a configuration that
\* suspends one and a GUI that opens and closes its watch.
SPECIFICATION Spec
CONSTANTS
  Keys = {k1}
  Hubs = {h1, h2}
  NoHub = NoHub
  Clients = {gui}
  GuiClients = {gui}
  ClientKey <- MCClientKey
  IntervalOf <- MCIntervalOf
  Transfers = {ftp}
  Configures = {setip}
  ConfigureKey <- MCConfigureKey
SYMMETRY HubSymmetry
INVARIANTS TypeOK HeldHubsSuspended
