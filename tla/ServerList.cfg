\* What the commands do once they are recognised.  ServerListBytes.cfg has the code
\* as it stands, which compares the first byte of a packet, a number, with texts.
SPECIFICATION FairSpec
CONSTANTS
    Host = {hA}
    MaxData = 2
    Challenge = {1, 2}
    KeyLife = 1
    PageLife = 1
    MaxRestarts = 1
    TextPackets = TRUE
INVARIANTS
    ClosedStaysClosed
    ListedWasHeard
    PageIsRecent
    OnlyRefreshesHide
PROPERTIES
    TheDeadLeave
    HostsGetListed
