SPECIFICATION FairSpec
CONSTANTS
    Order <- FourComponents
    Declared <- FourDeclared
    Excluded <- Etcd
    Minor <- OneMinorUp
    EtcdTypes <- Both
    MaxUpgrades = 1
    MaxFaults = 1
PROPERTIES RolloutInOrder UpgradeSettles
CHECK_DEADLOCK FALSE
