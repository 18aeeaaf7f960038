SPECIFICATION Spec
CONSTANTS
    Reach = 2
    UsbSize = 6
    TmsSize = 10
    Irlen = 2
    DefaultPages = 2
    SectorPages = 2
    MaxRetries = 2
    SectorErase = 2
    BulkErase = 3
    Known = {"xc3s", "prom"}
    Catalogue <- MCCatalogue
    Settings <- MCSettings
INVARIANT ChainTrue
INVARIANT ResultTrue
CHECK_DEADLOCK FALSE
