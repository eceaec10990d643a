\* A shutdown signal ends the splitter (violated).
SPECIFICATION FairSpec
CONSTANTS
    Clients = {c1}
    Ids = {i1}
    MAX_CONCURRENT_CONNS = 1
    Nobody = Nobody
PROPERTY ShutdownCompletes
CHECK_DEADLOCK FALSE
