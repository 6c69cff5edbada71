---------------------------- MODULE PageCatalog ----------------------------
(***************************************************************************)
(* What the write side promises about a page, whatever the database, the   *)
(* bucket, the goroutines and their failures do: a page is one set of      *)
(* files, fixed when it is published.  Parking and unparking change only   *)
(* which of them a visitor can fetch, deleting takes them away for good.   *)
(***************************************************************************)
CONSTANTS Slugs, Files

VARIABLES
    state,    \* where each slug is in the life of a page
    files,    \* the files the page consists of, wherever they are kept
    visible   \* the files that can be fetched under the page's address

catalog == <<state, files, visible>>

States == {"unused", "public", "hiding", "hidden", "showing", "removing", "removed"}

\* The states a step may lead to, by the state it leaves.
Successors(st) ==
    CASE st = "unused"   -> {"public"}
      [] st = "public"   -> {"hiding", "removing"}
      [] st = "hiding"   -> {"hidden"}
      [] st = "hidden"   -> {"showing", "removing"}
      [] st = "showing"  -> {"public"}
      [] st = "removing" -> {"removed"}
      [] st = "removed"  -> {}

CatalogInit ==
    /\ state = [s \in Slugs |-> "unused"]
    /\ files = [s \in Slugs |-> {}]
    /\ visible = [s \in Slugs |-> {}]

\* A page appears whole: by then all its files can be fetched.
Publish(s) ==
    /\ state[s] = "unused"
    /\ state' = [state EXCEPT ![s] = "public"]
    /\ files' = [files EXCEPT ![s] = visible[s]]
    /\ visible[s] # {}
    /\ UNCHANGED visible

\* An operation starts; the visitor sees what was there before.
Begin(s) ==
    /\ state[s] \in {"public", "hidden"}
    /\ \E st \in Successors(state[s]) : state' = [state EXCEPT ![s] = st]
    /\ UNCHANGED <<files, visible>>

\* While it hides a page only disappears, while it is shown again it only comes
\* back, and its files stay what they were.
Hide(s) ==
    /\ state[s] = "hiding"
    /\ \E V \in SUBSET visible[s] : visible' = [visible EXCEPT ![s] = V]
    /\ UNCHANGED <<state, files>>

Show(s) ==
    /\ state[s] = "showing"
    /\ \E V \in SUBSET files[s] :
          visible[s] \subseteq V /\ visible' = [visible EXCEPT ![s] = V]
    /\ UNCHANGED <<state, files>>

\* An operation is over when the visitor sees nothing, or everything.
End(s) ==
    /\ \/ state[s] = "hiding" /\ visible[s] = {}
       \/ state[s] = "showing" /\ visible[s] = files[s]
    /\ \E st \in Successors(state[s]) : state' = [state EXCEPT ![s] = st]
    /\ UNCHANGED <<files, visible>>

\* A page under removal only shrinks, until nothing is left.
Remove(s) ==
    /\ state[s] = "removing"
    /\ \E F \in SUBSET files[s], V \in SUBSET visible[s] :
          /\ files' = [files EXCEPT ![s] = F]
          /\ visible' = [visible EXCEPT ![s] = V]
    /\ UNCHANGED state

Removed(s) ==
    /\ state[s] = "removing" /\ files[s] = {} /\ visible[s] = {}
    /\ state' = [state EXCEPT ![s] = "removed"]
    /\ UNCHANGED <<files, visible>>

\* Before its page exists an address may show fragments of an upload: one
\* that runs, or one that failed and could not be cleaned up.
Fragment(s) ==
    /\ state[s] = "unused"
    /\ \E V \in SUBSET Files : visible' = [visible EXCEPT ![s] = V]
    /\ UNCHANGED <<state, files>>

CatalogNext == \E s \in Slugs :
    \/ Publish(s) \/ Begin(s) \/ Hide(s) \/ Show(s) \/ End(s)
    \/ Remove(s) \/ Removed(s) \/ Fragment(s)

CatalogSpec == CatalogInit /\ [][CatalogNext]_catalog
=============================================================================
