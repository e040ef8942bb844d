\* Two replicas, as Kubernetes runs them, that crash and lose Redis.
SPECIFICATION FairSpec
CONSTANTS
  Replicas = {"a", "b"}
  Patterns = {"OMS_API_TIMEOUT"}
  Runbooks = {"restart_service", "scale_kubernetes"}
  Default <- MCDefault
  Fallback = "scale_kubernetes"
  TTL = 2
  Faults = {"redis", "crash"}
  MaxToggles = 2
  MaxHeld = 2
INVARIANTS DefaultEntriesFresh StaleAtMostTTL AuditTellsCatalog
PROPERTIES SeedingKeepsCatalog StaleEntriesExpire
