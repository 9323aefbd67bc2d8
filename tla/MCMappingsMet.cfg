SPECIFICATION Spec
CONSTANTS
    Threads = {t1}
    PAGES = 2
    GRAINS = 1
    ADOPTED = 1
    MAPS = 2
    CARVES = 2
    INSTANCES = 3
PROPERTY
    MappingStays
