\* Each group of operations one request after the other, some of them with the
\* process ending at any point and some with requests that overlap.
SPECIFICATION Spec
CONSTANTS
    Clients = {c1, c2}
    Couriers = {d1}
    Modes = {"serial", "crashing", "concurrent"}
    Scenarios = {"addresses", "interfaces", "security groups", "routes", "edge", "dns", "machines", "sql", "vaults", "cosmos", "apis", "clusters", "web", "events", "monitor", "roles", "graph", "groups", "blobs", "tables"}
    Interrupted = {"cosmos", "apis", "clusters", "web", "events", "blobs", "tables", "dns"}
    Overlapping = {"addresses", "security groups", "routes", "dns", "cosmos", "blobs"}
    NetNames = {"n1"}
    NICNames = {"i1", "i2"}
    PartNames = {"p1", "p2"}
    Bodies = {"x"}
    Ranges <- MCRanges
    RecordTypes = {"A"}
    Spellings = {"as listed", "otherwise"}
    MachineNames = {"m1"}
    ServerNames = {"s1"}
    ServerParts = {"p1"}
    Logins = {"a", "b"}
    Days = {1, 2}
    VaultNames = {"v1"}
    ItemNames = {"k1"}
    Values = {"a", "b"}
    Seconds = {1, 2}
    Groups = {"g1", "g2"}
    AccountNames = {"a1"}
    DatabaseNames = {"d1"}
    ContainerNames = {"c1"}
    DocumentIds = {"o1"}
    Contents = {"x"}
    ApimNames = {"s1"}
    ApiNames = {"a1", "a2"}
    OperationNames = {"o1"}
    ProductNames = {"p1"}
    Titles = {"x"}
    ClusterNames = {"k1"}
    PoolNames = {"default", "other"}
    DefaultPool = "default"
    PlanNames = {"p1"}
    SiteNames = {"s1"}
    FunctionNames = {"f1"}
    Settings = {"x"}
    TopicGroups = {"g1", "g2"}
    TopicNames = {"t1"}
    EventSubNames = {"e1"}
    Destinations = {"hook", "queue"}
    ActionGroupNames = {"a1"}
    RoleNames = {"r1"}
    Scopes = {"subscription", "resourcegroup"}
    Guids = {"u1", "u2"}
    ResourceGroups = {"g1"}
    RegistryNames = {"r1"}
    Skus = {"x"}
    Dates = {1, 2}
    ContainerIds = {"n1", "n2"}
    BlobNames = {"b1", "b2"}
    TableNames = {"t1"}
    EntityKeys = {"e1", "e2"}
    Payloads = {"x"}
    Fields = {"f1", "f2"}
    Ticks = {1, 2}
INVARIANTS OneEntryPerName CascadeLeavesNoOrphans IndexLeadsToStored
PROPERTIES ChildrenSurvive KeptAcrossPuts HandlersEnd
