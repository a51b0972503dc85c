\* The code as it stands: the first byte of a packet is a number and is compared
\* with one-character strings.
SPECIFICATION FairSpec
CONSTANTS
    Host = {hA}
    MaxData = 2
    Challenge = {1, 2}
    KeyLife = 1
    PageLife = 1
    MaxRestarts = 1
    TextPackets = FALSE
PROPERTY
    HostsGetListed
