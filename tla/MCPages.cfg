SPECIFICATION Spec
CONSTANTS
    Byte <- MCByte
    Hosts <- MCHosts
    Databases <- MCDatabases
    Typed <- MCTyped
    PageSize = 2
    MaxResults = 2
    Extra = 1
INVARIANTS
    LinksLead
    OldLinksLead
    NextShowsAll
    SearchFinds
    ResultsCounted
    ClientsCounted
