\* The comment on best-effort uploads against the code.
CONSTANTS
    Urls <- MCUrls
    Names <- MCNames
    Entry = "home.html"
    Allowed = {"fonts/inter", "fonts/icons?sig"}
    Signed = {"fonts/icons?sig"}
    Sheets = {"cdn/site.css", "style.css", "print.css"}
    StorePath <- MCStorePath
    Packs <- MCPacks
    Webs <- MCWebs
    Slots = 2
SPECIFICATION Spec
INVARIANTS UploadsAreBestEffort
