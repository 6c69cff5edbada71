\* Uploads and imports over every web of MCBake, two fetches at a time.
CONSTANTS
    Urls <- MCUrls
    Names <- MCNames
    Entry = "home.html"
    Allowed = {"fonts/inter", "fonts/icons?sig"}
    Signed = {"fonts/icons?sig"}
    Sheets = {"cdn/site.css", "style.css", "print.css"}
    StorePath <- MCStorePath
    Packs <- MCPacks
    Webs <- MCWebs
    Slots = 2
SPECIFICATION FairSpec
INVARIANTS TypeOK NothingMissed FetchedOnce PoolAccounts ReferencesLead ManifestAgrees ImportIsWhole
PROPERTIES EveryUploadEnds
