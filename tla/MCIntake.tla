------------------------------ MODULE MCIntake ------------------------------
(* Every zip of up to three entries of these kinds, the other bodies, and  *)
(* every identifier of up to five characters.                              *)
EXTENDS Intake

MCNames == {"index.html", "b/a.html", "b/c.htm", "z.html", "x.png", "b", "recap.zip", "../x"}
MCHtml == {"index.html", "b/a.html", "b/c.htm", "z.html"}
MCDepth(n) == IF n \in {"b/a.html", "b/c.htm"} THEN 1 ELSE 0
MCRank(n) == CASE n = "b/a.html" -> 1 [] n = "b/c.htm" -> 2 [] n = "index.html" -> 3 [] n = "recap.zip" -> 4
               [] n = "x.png" -> 5 [] OTHER -> 6

Entries ==
         [name : {"b/a.html", "b/c.htm", "z.html"}, kind : {"file"}, size : {1}]
    \cup [name : {"index.html"}, kind : {"file"}, size : {0, 2}]
    \cup [name : {"x.png"}, kind : {"file"}, size : {1, 2, 3, 9}]
    \cup {[name |-> "b", kind |-> "dir", size |-> 0], [name |-> "x.png", kind |-> "link", size |-> 0],
          [name |-> "recap.zip", kind |-> "zip", size |-> 1], [name |-> "../x", kind |-> "unsafe", size |-> 1],
          [name |-> "x.png", kind |-> "broken", size |-> 1]}

Body(url, file, content, size, entries, name) ==
    [url |-> url, file |-> file, content |-> content, size |-> size, entries |-> entries,
     identifier |-> name]

MCReserved == {<<"a">>}
Inputs == UNION {[1..n -> {"a", "b", "-", "?"}] : n \in 0..5}

MCRequests ==
         {Body(FALSE, TRUE, "zip", 4, e, <<"b">>) : e \in UNION {[1..n -> Entries] : n \in 0..3}}
    \cup {Body(FALSE, TRUE, "zip", 4, [j \in 1..4 |-> [name |-> "b", kind |-> "dir", size |-> 0]], <<>>)}
    \cup {Body(url, file, content, size, <<>>, <<>>) : url \in BOOLEAN, file \in BOOLEAN,
              content \in {"html", "other", "badzip", "badurl"}, size \in {4, 5, 6}}
    \cup {Body(FALSE, TRUE, "html", 1, <<>>, name) : name \in Inputs}
=============================================================================
