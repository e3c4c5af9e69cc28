CONSTANTS
    Sites = {default, s1}
    OtherSites = {s1}
    Creds = {c1}
    Hosts = {h1, h2}
    DefaultSite = default
    Agents = {a1}
    Labels = {l1}
    NoLabel = NoLabel
    None = None
    Requests = {r1, r2}
SPECIFICATION Spec
SYMMETRY Symmetry
INVARIANTS
    HostBelongsToSite
    CredentialLinkHolds
PROPERTIES
    AgentEnrolled
    AgentKeepsLabel
