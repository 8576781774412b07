SPECIFICATION Spec
CONSTANTS
  web = web
  agent = agent
  text = text
  Assets = {1, 2}
  Surfaces = {web, agent}
  Contents = {text}
  Inputs <- FewInputs
  MaxVersions = 2
  Batch = 1
  Limit = 1
  Package = web
  MaxChanges = 2
INVARIANTS
  ExportIsOneMoment
  PlanIsOneMoment
\* an idle reader starts again for ever; nothing stops
