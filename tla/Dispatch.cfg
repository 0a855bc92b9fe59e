\* One worker under every configuration, two jobs.
CONSTANTS
  Job = {j1, j2}
  Worker = {w1}
  NoWorker = NoWorker
  NoRequest = NoRequest
  NoSnapshot = NoSnapshot
  NoModel = NoModel
  Request <- MCRequest
  Config <- MCConfig
  Backend <- MCBackend
  Policy <- MCPolicy
SPECIFICATION Spec
SYMMETRY Symmetry
INVARIANTS TypeOK NeverLeaves ExternalByConsent OperatorObeyed SlotsBalance RoutableIsRunnable
PROPERTIES ProviderIsLastResort
