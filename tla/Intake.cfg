\* Caps at which every limit is met, missed by one and met together.
CONSTANTS
    Requests <- MCRequests
    MaxRawBytes = 4
    MaxFiles = 3
    MaxAssetBytes = 2
    MaxDecompressed = 4
    Framing = 1
    MaxHops = 3
    Names <- MCNames
    Html <- MCHtml
    SizeWords = {"recap.zip"}
    Depth <- MCDepth
    Rank <- MCRank
    Addresses = {"public", "mirror", "private"}
    Permitted = {"public", "mirror"}
    Characters = {"a", "b", "p", "-", "?"}
    MaxIdentifierLen = 3
    Reserved <- MCReserved
SPECIFICATION Spec
INVARIANTS TypeOK PackAsDeclared EntryIsBest ImportsStayInside IdentifiersAreClean
