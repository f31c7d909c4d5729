SPECIFICATION CatalogSpec
CONSTANTS
    xsl1 = xsl1
    xsl2 = xsl2
    openjade = openjade
    root = root
    sgmlroot = sgmlroot
    jade = jade
    k1 = k1
    k2 = k2
    k3 = k3
    k4 = k4
    k5 = k5
    Images <- MCImages
    PortOf <- MCPortOf
    Portfile <- MCPortfile
    Files = {root, sgmlroot, jade}
    Names = {k1, k2, k3, k4, k5}
    Root = root
    SgmlRoot = sgmlroot
    ByHand <- MCByHand
    MaxFaults = 3
INVARIANTS
    ActiveListed
    NoOrphans
PROPERTY OthersKeepEntries
