\* Every kind of deployment, with and without an indexer; two owners.
CONSTANTS
  ann = ann
  ben = ben
  Accounts = {a1}
  Deployer = ann
  Owners = {ann, ben}
  NoOwner = NoOwner
  Kinds <- AllKinds
  Indexed = {TRUE, FALSE}
  SacDenied = {}
  MaxLog = 3
SPECIFICATION Spec
INVARIANTS TypeOK
PROPERTIES ListsExact StatusTellsGate
