SPECIFICATION Spec
CONSTANTS
    None = None
    Partial = Partial
    MaxChanges = 2
    MaxEpochs = 2
    MaxFaults = 0
PROPERTY SavedCampaignGoesOn
CHECK_DEADLOCK FALSE
