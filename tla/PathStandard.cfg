SPECIFICATION FairSpec
CONSTANTS
    Authority <- MCAuthority
    ProxyConfig <- Standard
PROPERTY WorkingIsUsed
