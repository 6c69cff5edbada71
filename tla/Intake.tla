------------------------------- MODULE Intake -------------------------------
(***************************************************************************)
(* What the upload handler does before it has a slug: the form, the zip    *)
(* (OpenPack and DetectEntry of internal/ingest/ingest.go), the entry      *)
(* document of an import (EntryFetcher of internal/fetch/fetch.go), and    *)
(* the identifier (Sanitize and Validate of internal/slug/slug.go).        *)
(*                                                                         *)
(* One request at a time: what varies is the request, the web, and the     *)
(* order in which Go walks a map.  Sizes are small numbers; an identifier  *)
(* is a sequence of characters of which letters and digits, the dash and   *)
(* everything else are told apart.                                         *)
(***************************************************************************)
EXTENDS Integers, FiniteSets, SequencesExt

CONSTANTS
    Requests,         \* the requests that may come in
    MaxRawBytes, MaxFiles, MaxAssetBytes, MaxDecompressed,   \* the caps
    Framing,          \* the megabyte allowed for multipart framing
    MaxHops,          \* 10: requests of one import before it gives up
    Names,            \* names of a zip's entries, cleaned
    Html,             \* those that end in .html or .htm
    SizeWords,        \* names that contain "exceeds" or "cap"
    Depth(_),         \* slashes in a name
    Rank(_),          \* a name's place in the lexicographic order
    Addresses, Permitted,            \* and those the guard lets through
    Characters,       \* of identifiers; "?" is any but a letter, a digit and the dash
    MaxIdentifierLen, Reserved

Root == "index.html"
None == "none"
Contents == {"zip", "html", "badzip", "badurl", "other"}
Kinds == {"dir", "link", "unsafe", "zip", "broken", "file"}

ASSUME IntakeAssumption ==
    /\ MaxRawBytes \in Nat /\ MaxFiles \in Nat /\ MaxAssetBytes \in Nat
    /\ MaxDecompressed \in Nat /\ Framing \in Nat
    /\ MaxHops \in Nat \ {0} /\ MaxIdentifierLen \in Nat \ {0}
    /\ Permitted \subseteq Addresses /\ {"-", "p", "a"} \subseteq Characters

\* path.Clean returns no empty name, and the order of the names is total.
ASSUME NameAssumption ==
    /\ Root \in Html /\ Html \subseteq Names /\ None \notin Names
    /\ \A n \in Html : Depth(n) \in Nat /\ Rank(n) \in Nat
    /\ \A m, n \in Html : Rank(m) = Rank(n) => m = n

ASSUME RequestAssumption ==
    \A r \in Requests :
        /\ r.url \in BOOLEAN /\ r.file \in BOOLEAN /\ r.content \in Contents /\ r.size \in Nat
        /\ r.entries \in Seq([name : Names, kind : Kinds, size : Nat])
        /\ r.identifier \in Seq(Characters)

VARIABLES
    request,    \* the form: url and file, their content, the identifier
    pc,         \* where the handler is
    i,          \* entries of the zip that have been dealt with
    total,      \* bytes kept of them
    read,       \* bytes decompressed for them
    files,      \* cleaned name -> size, the pack so far
    left,       \* names DetectEntry has not seen yet
    best,       \* the entry it has found
    hops,       \* requests sent for the entry document
    dialled,    \* addresses connected to
    identifier, \* the sanitized identifier
    answer      \* the status, or 0

zip == <<i, total, read, files>>
detect == <<left, best>>
web == <<hops, dialled>>
vars == <<request, pc, zip, detect, web, identifier, answer>>

Init ==
    /\ request \in Requests
    /\ pc = "form"
    /\ i = 0 /\ total = 0 /\ read = 0 /\ files = <<>>
    /\ left = {} /\ best = None
    /\ hops = 0 /\ dialled = {}
    /\ identifier = <<>> /\ answer = 0

Refuse(status) == pc' = "done" /\ answer' = status

\* The entries of a zip are [name, kind, size]; any other upload has none.
Entry == request.entries[i + 1]

\* Mutant: a zip with as many entries as it may have is refused.
TooManyAtCap == Len(request.entries) >= MaxFiles
TooMany == Len(request.entries) > MaxFiles

\* The form: exactly one of url and file.  A body over its cap is not parsed, so
\* that its fields are lost, the url among them.
Form ==
    LET size == request.size
        parsed == ~request.file \/ size <= MaxRawBytes + Framing
        url == request.url /\ parsed
        file == request.file /\ parsed
    IN  /\ pc = "form"
        /\ \/ url /\ file /\ Refuse(422) /\ UNCHANGED files
           \/ ~url /\ ~file /\ Refuse(IF request.file THEN 413 ELSE 400) /\ UNCHANGED files
           \/ url /\ ~file /\ pc' = "import" /\ UNCHANGED <<answer, files>>
           \/ ~url /\ file /\ size > MaxRawBytes /\ Refuse(413) /\ UNCHANGED files
           \/ /\ ~url /\ file /\ size <= MaxRawBytes
              /\ CASE request.content = "zip" ->
                         /\ IF TooMany
                            THEN Refuse(422)
                            ELSE pc' = "unzip" /\ UNCHANGED answer
                         /\ UNCHANGED files
                   [] request.content = "html" ->
                         pc' = "files" /\ files' = [n \in {Root} |-> size] /\ UNCHANGED answer
                   [] OTHER ->
                         /\ Refuse(IF request.content = "badzip" THEN 422 ELSE 415)
                         /\ UNCHANGED files
        /\ UNCHANGED <<request, i, total, read, detect, web, identifier>>

\* isSizeErr looks for two words in the message, which quotes the entry's name.
Message(entry, size) == IF size \/ entry.name \in SizeWords THEN 413 ELSE 422

Smaller(m, n) == IF m < n THEN m ELSE n

\* Mutant: every entry may be as long as the whole pack is allowed to be.
LimitAlone == MaxAssetBytes
Limit == Smaller(MaxAssetBytes, MaxDecompressed - total)

\* One round of OpenPack's loop.
Unzip ==
    /\ pc = "unzip" /\ i < Len(request.entries)
    /\ i' = i + 1
    /\ CASE Entry.kind = "dir" -> UNCHANGED <<pc, answer, total, read, files>>
         [] Entry.kind \in {"link", "unsafe", "zip"} ->
                Refuse(Message(Entry, FALSE)) /\ UNCHANGED <<total, read, files>>
         [] Entry.kind = "broken" ->
                Refuse(Message(Entry, FALSE)) /\ UNCHANGED <<total, read, files>>
         [] Entry.kind = "file" ->
                /\ read' = read + Smaller(Entry.size, Limit + 1)
                /\ IF Entry.size > Limit \/ total + Entry.size > MaxDecompressed
                   THEN Refuse(Message(Entry, TRUE)) /\ UNCHANGED <<total, files>>
                   ELSE /\ total' = total + Entry.size
                        /\ files' = [n \in DOMAIN files \cup {Entry.name} |->
                                        IF n = Entry.name THEN Entry.size ELSE files[n]]
                        /\ UNCHANGED <<pc, answer>>
    /\ UNCHANGED <<request, detect, web, identifier>>

Unzipped ==
    /\ pc = "unzip" /\ i = Len(request.entries)
    /\ pc' = "files"
    /\ UNCHANGED <<request, zip, detect, web, identifier, answer>>

(* EntryFetcher.Fetch: the URL, then a request for it and for everything   *)
(* it redirects to.  The transport resolves a host once and dials one of   *)
(* the addresses the guard permits.                                        *)
InvalidURL ==
    /\ pc = "import" /\ hops = 0 /\ request.content = "badurl"
    /\ Refuse(422)
    /\ UNCHANGED <<request, zip, detect, web, identifier>>

\* Mutant: the guard asks whether the host has a permitted address.
DialAny(ips) == IF ips \cap Permitted = {} THEN {} ELSE ips
Dial(ips) == ips \cap Permitted

Sending == pc = "import" /\ request.content # "badurl"
Replies == {"redirect", "scheme", "down", "status", "charset", "large", "text", "html"}

Blocked(ips) ==
    /\ Sending /\ Dial(ips) = {}
    /\ Refuse(IF ips = {} THEN 502 ELSE 422)     \* no address at all: unreachable
    /\ UNCHANGED <<request, zip, detect, web, identifier>>

\* fetchFailure's table, and CheckRedirect.
Hop(ip, ips, reply) ==
    /\ Sending /\ ip \in Dial(ips)
    /\ dialled' = dialled \cup {ip}
    /\ hops' = hops + 1
    /\ CASE reply = "html" -> pc' = "files" /\ files' = [n \in {Root} |-> 1] /\ UNCHANGED answer
         [] reply = "redirect" /\ hops + 1 < MaxHops -> UNCHANGED <<pc, answer, files>>
         [] OTHER ->
                /\ Refuse(CASE reply = "scheme" /\ hops + 1 < MaxHops -> 422
                            [] reply = "large" -> 413
                            [] reply = "text" -> 415
                            [] OTHER -> 502)
                /\ UNCHANGED files
    /\ UNCHANGED <<request, i, total, read, detect, identifier>>

(* DetectEntry: the root index.html, or a walk over the map, in any order. *)
StartDetect ==
    /\ pc = "files"
    /\ IF Root \in DOMAIN files
       THEN best' = Root /\ pc' = "name" /\ UNCHANGED left
       ELSE left' = DOMAIN files /\ pc' = "detect" /\ UNCHANGED best
    /\ UNCHANGED <<request, zip, web, identifier, answer>>

\* Mutant: the first of the shallowest documents is kept.
BetterDepth(name) == best = None \/ Depth(name) < Depth(best)
Better(name) ==
    \/ best = None
    \/ Depth(name) < Depth(best)
    \/ Depth(name) = Depth(best) /\ Rank(name) < Rank(best)

Consider(name) ==
    /\ pc = "detect" /\ name \in left
    /\ left' = left \ {name}
    /\ best' = IF name \in Html /\ Better(name) THEN name ELSE best
    /\ UNCHANGED <<request, pc, zip, web, identifier, answer>>

Detected ==
    /\ pc = "detect" /\ left = {}
    /\ IF best = None THEN Refuse(422) ELSE pc' = "name" /\ UNCHANGED answer
    /\ UNCHANGED <<request, zip, detect, web, identifier>>

(* Sanitize: runs of other characters become a dash, runs of dashes one,   *)
(* dashes at the ends go, and the rest is cut to length, where it may end  *)
(* in a dash again.                                                        *)
IsDash(c) == c = "-"
IsWord(c) == c \notin {"-", "?"}
\* Mutant: only dashes are looked at.
CollapsedDashes(s) ==
    LET out[n \in 0..Len(s)] ==
            IF n = 0 THEN <<>>
            ELSE IF IsDash(s[n]) /\ out[n - 1] # <<>> /\ IsDash(Last(out[n - 1])) THEN out[n - 1]
            ELSE Append(out[n - 1], s[n])
    IN  out[Len(s)]

\* The next character, after what has been written: a dash never follows a dash.
Write(done, c) ==
    IF IsWord(c) THEN Append(done, c)
    ELSE IF done # <<>> /\ IsDash(Last(done)) THEN done
    ELSE Append(done, "-")

Collapsed(s) ==
    LET out[n \in 0..Len(s)] == IF n = 0 THEN <<>> ELSE Write(out[n - 1], s[n])
    IN  out[Len(s)]

TrimRight(s) == IF s # <<>> /\ IsDash(Last(s)) THEN Front(s) ELSE s
TrimLeft(s) == IF s # <<>> /\ IsDash(Head(s)) THEN Tail(s) ELSE s

\* Mutant: the dashes are trimmed before the cut only.
SanitizeCut(s) ==
    LET out == TrimLeft(TrimRight(Collapsed(s)))
    IN  SubSeq(out, 1, Smaller(Len(out), MaxIdentifierLen))

Sanitize(s) ==
    LET out == TrimLeft(TrimRight(Collapsed(s)))
    IN  IF Len(out) > MaxIdentifierLen
        THEN TrimRight(SubSeq(out, 1, MaxIdentifierLen))
        ELSE out

\* slug.New up to the counter; an empty field is the identifier "page".
Name ==
    LET clean == Sanitize(IF request.identifier = <<>> THEN <<"p", "a">> ELSE request.identifier)
    IN  /\ pc = "name"
        /\ identifier' = clean
        /\ Refuse(IF clean = <<>> \/ clean \in Reserved THEN 422 ELSE 201)
        /\ UNCHANGED <<request, zip, detect, web>>

Answered == pc = "done" /\ UNCHANGED vars

Next ==
    \/ Form \/ Unzip \/ Unzipped \/ InvalidURL \/ StartDetect \/ Detected \/ Name \/ Answered
    \/ \E ips \in SUBSET Addresses :
           \/ Blocked(ips)
           \/ \E ip \in ips, reply \in Replies : Hop(ip, ips, reply)
    \/ \E name \in left : Consider(name)

Spec == Init /\ [][Next]_vars

-----------------------------------------------------------------------------
(* Properties.                                                             *)

\* Every variable keeps its type.
TypeOK ==
    /\ pc \in {"form", "import", "unzip", "files", "detect", "name", "done"}
    /\ i \in 0..Len(request.entries) /\ total \in Nat /\ read \in Nat
    /\ DOMAIN files \subseteq Names /\ \A n \in DOMAIN files : files[n] \in Nat
    /\ left \subseteq DOMAIN files /\ best \in DOMAIN files \cup {None}
    /\ hops \in 0..MaxHops /\ dialled \subseteq Addresses
    /\ identifier \in Seq(Characters) /\ \A j \in DOMAIN identifier : identifier[j] # "?"
    /\ answer \in {0, 201, 400, 413, 415, 422, 502}

\* The zip as a whole: what OpenPack must make of it, without its loop.
ToKeep(n) == {j \in 1..n : request.entries[j].kind = "file"}
BytesOf(n) == Cardinality(UNION {{j} \X (1..request.entries[j].size) : j \in ToKeep(n)})
Fine(j) ==
    LET e == request.entries[j]
    IN  \/ e.kind = "dir"
        \/ e.kind = "file" /\ e.size <= MaxAssetBytes /\ BytesOf(j) <= MaxDecompressed

WellFormed == Len(request.entries) <= MaxFiles /\ \A j \in 1..Len(request.entries) : Fine(j)

\* The pack is what the zip says: of every name the last entry.
HoldsAll ==
    LET kept == ToKeep(Len(request.entries))
        name(j) == request.entries[j].name
    IN  /\ DOMAIN files = {name(j) : j \in kept}
        /\ \A j \in kept : (\A k \in kept : k > j => name(k) # name(j))
                              => files[name(j)] = request.entries[j].size

\* A zip is unpacked if and only if it has few enough entries, none of a kind that
\* is refused, none too long, and not too many bytes together: one that is within
\* every cap, or just at it, is never refused for its size.  The pack then holds
\* the last entry of every name, and only a pack without a document is refused for
\* want of an entry.  However it ends, no more than one byte beyond the cap has
\* been decompressed (ingest.go:66-155).
PackAsDeclared ==
    request.file /\ ~request.url /\ request.content = "zip" /\ request.size <= MaxRawBytes =>
        /\ read <= MaxDecompressed + 1
        /\ pc \in {"files", "detect", "name"} => WellFormed
        /\ pc \in {"files", "detect", "name"} \/ (pc = "done" /\ WellFormed) => HoldsAll
        /\ pc = "done" =>
               /\ best # None <=> WellFormed /\ DOMAIN files \cap Html # {}
               /\ best = None => answer \in {413, 422}

\* The entry does not depend on the order of the walk: it is the root's
\* index.html, or the first in order of the documents that are least deep
\* (ingest.go:132-155).
EntryIsBest ==
    pc = "name" =>
        /\ best \in DOMAIN files
        /\ \/ best = Root
           \/ /\ Root \notin DOMAIN files /\ best \in Html
              /\ \A n \in (DOMAIN files \cap Html) \ {best} :
                     Depth(best) < Depth(n) \/ (Depth(best) = Depth(n) /\ Rank(best) < Rank(n))

\* An import connects to permitted addresses only, through all redirects and
\* with hosts that have several addresses, asks at most MaxHops times, and is
\* let through with nothing but what the last request returned
\* (fetch.go:56-92, 112-181).
ImportsStayInside ==
    /\ dialled \subseteq Permitted
    /\ hops <= MaxHops
    /\ request.url /\ pc \in {"files", "name"} => hops > 0 /\ DOMAIN files = {Root}

\* The words in a sequence of characters, without what is between them.
Find(found, c) == IF IsWord(c) THEN Append(found, c) ELSE found
Words(s) ==
    LET out[n \in 0..Len(s)] == IF n = 0 THEN <<>> ELSE Find(out[n - 1], s[n])
    IN  out[Len(s)]

\* An identifier that is accepted is made of words with single dashes between
\* them, fits, is not reserved, is left alone when sanitized again, and keeps
\* the characters of the input, in order, up to the cut; with its code it gives
\* a slug from which the last dash recovers it (slug.go:38-66, upload.go:461-469).
IdentifiersAreClean ==
    LET slug == identifier \o <<"-", "7">>
    IN  answer = 201 =>
            /\ Len(identifier) \in 1..MaxIdentifierLen /\ identifier \notin Reserved
            /\ \A j \in DOMAIN identifier :
                   \/ IsWord(identifier[j])
                   \/ /\ j > 1 /\ j < Len(identifier)
                      /\ IsWord(identifier[j - 1]) /\ IsWord(identifier[j + 1])
            /\ Sanitize(identifier) = identifier
            /\ request.identifier # <<>> => IsPrefix(Words(identifier), Words(request.identifier))
            /\ \E j \in DOMAIN slug :
                   /\ IsDash(slug[j]) /\ SubSeq(slug, 1, j - 1) = identifier
                   /\ \A k \in j + 1..Len(slug) : ~IsDash(slug[k])
=============================================================================
