SPECIFICATION Spec
CONSTANTS
    Trees <- MCTrees
    Uploads <- MCUploads
    NaN = NaN
    Memory = 0
    MaxRank = 2
    IntMax = 3
    LargestMax = 5
    MaxDepth = 3
INVARIANTS TypeOK Settles
PROPERTIES KeepsLeaves KeepsBytes ReadsBucket
