SPECIFICATION FairSpec
CONSTANTS
    Archives = {1, 2}
PROPERTIES
    AnyIsReinjected
