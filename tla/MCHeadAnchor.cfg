SPECIFICATION FairSpec
CONSTANTS
    p1=p1
    p2=p2
    Process <- TwoProcesses
    MaxHeads=4
    MaxShared=3
    MaxOutages=1
 
PROPERTY KeepsArchive
 
PROPERTY EveryHeadAnchored
