SPECIFICATION AppSpec
CONSTANTS
  a = a
  b = b
  a1 = a1
  b1 = b1
  Tenants <- MCTenants
  Connectors <- MCConnectors
  TenantOf <- MCTenantOf
  Sealed = {a1}
PROPERTIES HealthyConnectorsPolled
