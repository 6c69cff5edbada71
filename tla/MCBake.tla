------------------------------- MODULE MCBake -------------------------------
(* A pack with two stylesheets that import each other and a file under     *)
(* external/, a fetched stylesheet, one image under two queries, and a     *)
(* host on the allowlist, plain and signed.                                *)
EXTENDS Bake

MCUrls == {"cdn/site.css", "cdn/logo?v=1", "cdn/logo?v=2", "fonts/inter", "fonts/icons?sig"}
MCNames == {"home.html", "style.css", "print.css", "external/cdn/logo", "#top"}
MCStorePath ==
    [u \in MCUrls |-> CASE u = "cdn/site.css" -> "external/cdn/site.css"
                        [] u = "fonts/inter" -> "external/fonts/inter"
                        [] u = "fonts/icons?sig" -> "external/fonts/icons"
                        [] OTHER -> "external/cdn/logo"]
MCPacks == {{"home.html"}, MCNames \ {"#top"}}

Ref(id) == [id |-> id, form |-> "url"]
Sheet(d) ==
    CASE d = "style.css" -> {[id |-> "print.css", form |-> "single"]}
      [] d = "print.css" -> {[id |-> "style.css", form |-> "single"], Ref("cdn/logo?v=1")}
      [] d = "cdn/site.css" -> {Ref("cdn/logo?v=1"), Ref("fonts/inter"), Ref("fonts/icons?sig")}
      [] OTHER -> {}

\* Any of these in the entry.
EntryRefs == {Ref("style.css"), Ref("cdn/site.css"), Ref("cdn/logo?v=2"), Ref("external/cdn/logo"),
              Ref("home.html"), Ref("#top"), [id |-> "cdn/site.css", form |-> "double"]}
MCWebs ==
    {[d \in MCUrls \cup MCNames |-> IF d = "home.html" THEN named ELSE Sheet(d)] :
        named \in SUBSET EntryRefs}
=============================================================================
