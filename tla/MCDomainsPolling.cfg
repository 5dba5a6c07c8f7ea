CONSTANTS
  Tenants = {t1}
  Hostnames = {h1, h2}
  Ids = {d1, d2}
  Requests = {r1}
  None = None
SPECIFICATION PollingSpec
PROPERTIES
  ReadyBecomesActive
