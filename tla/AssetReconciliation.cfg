SPECIFICATION FairSpec
CONSTANTS
    handbook = handbook
    web = web
    agent = agent
    text = text
    worker = worker
    request = request
    otherRequest = otherRequest
    Assets <- OneAsset
    Surfaces <- TwoSurfaces
    Contents <- OneContent
    Inputs <- PolicyInputs
    MaxVersions = 3
    Workers <- OneWorker
    Requests <- OneRequest
    NoReconciler = NoReconciler
    MaxAttempts = 2
    MaxFaults = 2
INVARIANTS
    TypeOK
    DrainedIsReconciled
PROPERTIES
    IndexKeepsItsPromise
    WorkIsNeverAbandoned
    PublishedBecomesSearchable
\* nothing is left to do once every editor stopped and the queue is drained
CHECK_DEADLOCK FALSE
