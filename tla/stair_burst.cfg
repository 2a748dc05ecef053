SPECIFICATION FairSpec
CONSTANTS
    anchor = anchor
    refb = refb
    leaf = leaf
    next = next
    Pics <- MCBurst
    Gates <- MCGatesAll
    MayBail = {refb}
    Joined = leaf
    Hmb = 6
    Lag = 4
INVARIANTS ReadsAreFinal DeblockAfterReads GatesCompose EmitAfterTrailer
PROPERTIES EverythingStreams
