SPECIFICATION Spec
CONSTANTS
    None = None
    NPics = 10
    MaxFn = 7
    Configs <- DpbConfigs
\* The encode ends.
CHECK_DEADLOCK FALSE
INVARIANTS DecoderAgrees AnchorsHeld ColdAgrees
