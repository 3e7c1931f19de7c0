SPECIFICATION FairSpec
CONSTANTS
    None = None
PROPERTIES
    UplinkDelivered
    DownlinkDelivered
