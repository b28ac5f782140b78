CONSTANTS
    Releases = {10, 12, 16}
    MaxFailures = 2
    MaxDeploys = 3
SPECIFICATION DeploymentSpec
INVARIANTS
    DeploymentTypeOK
    SuccessRepairs
PROPERTIES
    StartsOnItsSchema
    RefusedOnlyAfterTrouble
    SiteStaysUp
