SPECIFICATION Spec
CONSTANTS
    Raws <- MCRaws
    Dests = {"opt", "etc"}
    ImageDirs = {"etc"}
    Copies <- MCCopies
    Releases = {"old", "new"}
    BaseModules = {}
    Archives <- MCArchives
    Namings <- MCNamings
    Trees <- MCTrees
    MaxEdits = 1
INVARIANTS
    TypeOK
    StartsAsCreated
    Delivered
    CheckedFits
    ImageFits
    PayloadFound
PROPERTIES
    ModulesMatch
    ImplementsDelivery
CHECK_DEADLOCK FALSE
