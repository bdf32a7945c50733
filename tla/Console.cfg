SPECIFICATION Spec
CONSTANTS
  None = None
  Procs = {Api, Worker}
  Api = Api
  Tenants <- MCTenants
  Credentials <- MCCredentials
  Scenarios <- MCScenarios
INVARIANTS StoreIsShown OfferedIsAllowed DeliveredOnce CacheCurrent OwnWritesShown
CHECK_DEADLOCK FALSE
